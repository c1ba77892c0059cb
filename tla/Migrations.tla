---- MODULE Migrations ----
(***************************************************************************)
(* Migrations: the campaigns of MigrationCampaigns and the access of their  *)
(* users to the source server, which a campaign that moves its users takes  *)
(* away and gives back (core/migrations/phase3.py).                         *)
(***************************************************************************)
EXTENDS MigrationCampaigns

CONSTANT Moving \* the campaigns whose intent is not "copy"

ASSUME MovingType == Moving \subseteq Campaign

VARIABLES
    links,     \* per user: the libraries of the source linked to the user
    snapshot,  \* per row: source_access of source_snapshot_json
    removal,   \* per row: what result_json says of the removal
    kept,      \* the snapshot of the removal being served
    drafted    \* links when the drafts were made

sourceVars == <<links, snapshot, removal, kept, drafted>>
vars == <<campaignVars, sourceVars>>

Library == {"before", "since"} \* linked before the draft was made, and since

\* "failed" stands for a job in error or canceled.
Removal == {"none", "queued", "failed", "removed"}

TypeOK ==
    /\ CampaignsType
    /\ links \in [User -> SUBSET Library]
    /\ snapshot \in [Rows -> SUBSET Library]
    /\ removal \in [Rows -> Removal]
    /\ kept \subseteq Library
    /\ drafted \in [User -> SUBSET Library]

\* The draft takes the snapshot.
Init ==
    /\ CampaignsInit
    /\ links \in [User -> {{}, {"before"}}]
    /\ drafted = links
    /\ snapshot = [r \in Rows |-> links[r[2]]]
    /\ removal = [r \in Rows |-> "none"]
    /\ kept = {}

----------------------------------------------------------------------------
Link(u) ==
    /\ "since" \notin links[u]
    /\ Asks
    /\ links' = [links EXCEPT ![u] = @ \cup {"since"}]
    /\ UNCHANGED <<others, campaign, row, task, run, request, ghosts, snapshot, removal, kept, drafted>>

\* The safety delay has passed whenever the request comes; a removal once done
\* is not done again, even after it was undone.
Removable(r) ==
    /\ r[1] \in Moving
    /\ row[r].status = "completed" /\ row[r].validated
    /\ removal[r] \in {"none", "failed"}

Undoable(r) == removal[r] # "none" /\ snapshot[r] # {}

\* Mutant: the snapshot is what the user has at the moment.
KeptNow(r) == links[r[2]]

Kept(r) == IF snapshot[r] # {} THEN snapshot[r] ELSE links[r[2]]

\* remove_validated_source_access for one user: the links are deleted, then
\* the job is queued and the row written.
Unlink(r) ==
    /\ Removable(r)
    /\ Asks
    /\ request' = [act |-> "remove", on |-> {r}]
    /\ kept' = Kept(r)
    /\ links' = [links EXCEPT ![r[2]] = {}]
    /\ UNCHANGED <<others, campaign, row, task, run, ghosts, snapshot, removal, drafted>>

RecordRemoval ==
    /\ request.act = "remove"
    /\ \E r \in request.on :
        /\ snapshot' = [snapshot EXCEPT ![r] = kept]
        /\ removal' = [removal EXCEPT ![r] = "queued"]
    /\ request' = NoRequest
    /\ kept' = {}
    /\ task' = TRUE
    /\ UNCHANGED <<others, campaign, row, run, ghosts, budget, links, drafted>>

\* rollback_source_access.  On Jellyfin the restoring job has the key of the
\* removal, which from then on has the outcome of the restoration.
Restore(r) ==
    /\ Undoable(r)
    /\ Asks
    /\ links' = [links EXCEPT ![r[2]] = @ \cup snapshot[r]]
    /\ removal' \in {removal, [removal EXCEPT ![r] = "queued"]}
    /\ task' = TRUE
    /\ UNCHANGED <<others, campaign, row, run, request, ghosts, snapshot, kept, drafted>>

\* reconcile_source_jobs copies the outcome of the provider job.
ReconcileJob(r) ==
    /\ run.step = "rows"
    /\ removal[r] = "queued"
    /\ removal' \in {[removal EXCEPT ![r] = o] : o \in {"failed", "removed"}}
    /\ UNCHANGED <<campaignVars, links, snapshot, kept, drafted>>

DieUndone == Die /\ kept' = {} /\ UNCHANGED <<links, snapshot, removal, drafted>>

----------------------------------------------------------------------------
Administrator ==
    \/ \E c \in Campaign : /\ Start(c) \/ Pause(c) \/ Resume(c) \/ RetryFailed(c) \/ CheckInvitations(c)
                           /\ UNCHANGED sourceVars
    \/ \E r \in Rows : (ReadToSet(r) \/ Validate(r)) /\ UNCHANGED sourceVars
    \/ \E r \in Rows : Unlink(r) \/ Restore(r)
    \/ \E u \in User : Link(u)

Serve == (WriteSet /\ UNCHANGED sourceVars) \/ RecordRemoval

MigrationWorker ==
    \/ Claim \/ CreateAccount \/ Grant \/ RefreshCampaigns
    \/ LookForWork(\E r \in Rows : removal[r] = "queued")
    \/ SwitchOff

World ==
    \/ \E u \in User : Accept(u) \/ Play(u)
    \/ \E c \in Campaign : DateComes(c)
    \/ TenMinutesPass

Next ==
    \/ Administrator
    \/ Serve
    \/ StartRun /\ UNCHANGED sourceVars
    \/ MigrationWorker /\ UNCHANGED sourceVars
    \/ \E r \in Rows : ReconcileJob(r)
    \/ World /\ UNCHANGED sourceVars
    \/ DieUndone

\* The engine runs an enabled task every two minutes and its run goes on; a
\* request is served; a date comes.  Nobody has to accept, play or ask.
Fairness ==
    /\ WF_vars(StartRun /\ UNCHANGED sourceVars)
    /\ WF_vars(MigrationWorker /\ UNCHANGED sourceVars)
    /\ WF_vars(Serve)
    /\ \A c \in Campaign : WF_vars(DateComes(c) /\ UNCHANGED sourceVars)

Spec == Init /\ [][Next]_vars
FairSpec == Spec /\ Fairness

----------------------------------------------------------------------------
AtWork(r) == campaign[r[1]].status \in Active /\ row[r].status \notin Settled

(***************************************************************************)
(* Two campaigns towards one server are never both at work on a user        *)
(* (conflicting_active_users, asked by start, resume and retry), whatever   *)
(* the worker and the administrator do, except where set_user_excluded      *)
(* wrote a row without a look at the other campaign or at the worker.       *)
(***************************************************************************)
OneCampaignPerUser ==
    \A r, other \in Rows :
        r # other /\ r[2] = other[2] /\ AtWork(r) /\ AtWork(other)
            => {r, other} \cap overruled # {}

(***************************************************************************)
(* A campaign is completed only when each of its users is migrated or       *)
(* excluded (refresh_campaign_status is written blindly by the worker and   *)
(* by validations).                                                         *)
(***************************************************************************)
CompletedLeavesNobody ==
    \A r \in Rows : campaign[r[1]].status = "completed" /\ row[r].status \notin Settled
                        => r \in overruled

(***************************************************************************)
(* What a user could see when the draft was made is never beyond recall: it *)
(* is linked, or in the snapshot of a campaign that can still give it back  *)
(* or take it once more (remove_validated_source_access torn by a death,    *)
(* rollback_source_access).                                                 *)
(***************************************************************************)
RemovalCanBeUndone ==
    \A u \in User :
        \/ drafted[u] \subseteq links[u]
        \/ \E r \in Rows : /\ r[2] = u /\ drafted[u] \subseteq snapshot[r]
                           /\ (Undoable(r) \/ Removable(r))

(***************************************************************************)
(* A user of a running campaign is taken up by the worker, unless the       *)
(* campaign leaves that status: no exclusion, retry, pause or switching off *)
(* loses the wakeup, except where a death left a user in processing or the  *)
(* task switched itself off on an outdated look.                            *)
(***************************************************************************)
RunningUsersAreTakenUp ==
    \A r \in Rows :
        campaign[r[1]].status = "running" /\ row[r].status = "pending" /\ row[r].ready
            ~> \/ campaign[r[1]].status # "running"
               \/ row[r].status # "pending"
               \/ orphaned # {} \/ overslept
====
