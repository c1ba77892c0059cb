---- MODULE MigrationCampaigns ----
(***************************************************************************)
(* Migration campaigns towards one destination server: the requests of an   *)
(* administrator (routes/migrations.py, core/migrations/lifecycle.py)       *)
(* against the task migration_worker (core/migrations/execution.py).        *)
(***************************************************************************)
EXTENDS Naturals, FiniteSets

CONSTANTS
    Campaign,
    User,         \* users of VODUM
    Targets,      \* the users of each campaign
    Batch,        \* batch_size
    MaxAsks,      \* bound: requests of the administrator
    MaxFailures,  \* bound: calls of the provider that fail
    MaxDeaths     \* bound: deaths of the process

ASSUME TargetsType == Targets \in [Campaign -> SUBSET User]
ASSUME BoundsType == {Batch, MaxAsks, MaxFailures, MaxDeaths} \subseteq Nat

VARIABLES
    provider,  \* type of the destination
    account,   \* per user: the account at the destination
    used,      \* users seen playing on the destination
    campaign,  \* rows of migration_campaigns
    row,       \* rows of migration_users
    task,      \* is migration_worker enabled
    run,       \* the run of migration_worker
    request,   \* the request being served
    overruled, \* rows put back or excluded without a look at who works on them
    orphaned,  \* rows in the worker's hand when the process died
    overslept, \* the task was switched off over a campaign left running
    budget     \* what the bounds leave

campaignVars == <<provider, account, used, campaign, row, task, run, request,
                  overruled, orphaned, overslept, budget>>

Rows == {r \in Campaign \X User : r[2] \in Targets[r[1]]}

Active == {"scheduled", "running", "paused", "waiting_users", "needs_attention"}
InWork == {"pending", "processing"}
Waiting == {"waiting_acceptance", "waiting_validation"}
Settled == {"completed", "excluded"}

\* An account is unknown to VODUM ("remote"), was there before ("own"), or was
\* created by a campaign; a Plex user is invited and accepts.
Account == {"none", "remote", "own", "invited", "friend"} \cup Campaign

Row == [status    : InWork \cup Waiting \cup Settled \cup {"failed"},
        ready     : BOOLEAN,    \* eligibility is not "excluded"
        rested    : BOOLEAN,    \* updated_at is 10 minutes old
        validated : BOOLEAN]    \* destination_validated_at

\* The rows read at the start, each with the status it then had.
Run == [step : {"rest", "rows", "create", "grant", "refresh", "look", "off"},
        todo : SUBSET (Rows \X {"pending", "waiting_acceptance"}),
        hand : SUBSET (Rows \X {"pending", "waiting_acceptance"}),
        seen : SUBSET Campaign,
        done : [Campaign -> 0..Batch]]

NoRun == [step |-> "rest", todo |-> {}, hand |-> {}, seen |-> {},
          done |-> [c \in Campaign |-> 0]]

Request == [act : {"none", "exclude", "include", "remove"},
            on  : SUBSET Rows]

NoRequest == [act |-> "none", on |-> {}]

CampaignsType ==
    /\ provider \in {"plex", "jellyfin"}
    /\ account \in [User -> Account]
    /\ used \subseteq User
    /\ campaign \in [Campaign -> [status : Active \cup {"draft", "completed"}, ahead : BOOLEAN]]
    /\ row \in [Rows -> Row]
    /\ task \in BOOLEAN
    /\ run \in Run
    /\ request \in Request
    /\ overruled \subseteq Rows /\ orphaned \subseteq Rows
    /\ overslept \in BOOLEAN
    /\ budget \in [asks : 0..MaxAsks, failures : 0..MaxFailures, deaths : 0..MaxDeaths]

CampaignsInit ==
    /\ provider \in {"plex", "jellyfin"}
    /\ account \in [User -> IF provider = "plex" THEN {"none", "friend"} ELSE {"none", "own"}]
    /\ used = {}
    /\ campaign \in [Campaign -> [status : {"draft"}, ahead : BOOLEAN]]
    /\ row = [r \in Rows |-> [status |-> "pending", ready |-> TRUE,
                              rested |-> FALSE, validated |-> FALSE]]
    /\ task = FALSE
    /\ run = NoRun
    /\ request = NoRequest
    /\ overruled = {} /\ orphaned = {} /\ overslept = FALSE
    /\ budget \in [asks : {MaxAsks}, failures : 0..MaxFailures, deaths : 0..MaxDeaths]

Pay(what) == budget[what] > 0 /\ budget' = [budget EXCEPT ![what] = @ - 1]
Asks == request.act = "none" /\ Pay("asks")

others == <<provider, account, used>>
ghosts == <<overruled, orphaned, overslept>>

----------------------------------------------------------------------------
(***************************************************************************)
(* The status of a campaign.                                                *)
(***************************************************************************)
RowsOf(c) == {r \in Rows : r[1] = c}
StatusesOf(c, rows) == {rows[r].status : r \in RowsOf(c)}

\* Mutant: users that failed are not looked at.
RefreshedForgets(c, rows) ==
    IF campaign[c].status = "scheduled" /\ campaign[c].ahead THEN "scheduled"
    ELSE IF StatusesOf(c, rows) \cap InWork # {} THEN "running"
    ELSE IF StatusesOf(c, rows) \cap Waiting # {} THEN "waiting_users"
    ELSE "completed"

\* refresh_campaign_status: a blind UPDATE, whatever the status was.
Refreshed(c, rows) ==
    IF campaign[c].status = "scheduled" /\ campaign[c].ahead THEN "scheduled"
    ELSE IF StatusesOf(c, rows) \cap InWork # {} THEN "running"
    ELSE IF StatusesOf(c, rows) \cap Waiting # {} THEN "waiting_users"
    ELSE IF "failed" \in StatusesOf(c, rows) THEN "needs_attention"
    ELSE "completed"

Becomes(c, status) == campaign' = [campaign EXCEPT ![c].status = status]
Launched(c) == IF campaign[c].ahead THEN "scheduled" ELSE "running"

\* Mutant: a paused campaign is no obstacle.
ConflictIfMoving(c) ==
    \E r, other \in Rows :
        /\ r[1] = c /\ other[1] # c /\ other[2] = r[2]
        /\ row[r].status # "excluded"
        /\ campaign[other[1]].status \in Active \ {"paused"}
        /\ row[other].status \notin Settled

\* conflicting_active_users
Conflict(c) ==
    \E r, other \in Rows :
        /\ r[1] = c /\ other[1] # c /\ other[2] = r[2]
        /\ row[r].status # "excluded"
        /\ campaign[other[1]].status \in Active
        /\ row[other].status \notin Settled

----------------------------------------------------------------------------
(***************************************************************************)
(* Requests on a campaign.                                                  *)
(***************************************************************************)
\* Mutant: the task is left as it is.
StartQuietly(c) ==
    /\ campaign[c].status = "draft"
    /\ \E r \in RowsOf(c) : row[r].ready
    /\ ~Conflict(c)
    /\ Asks
    /\ Becomes(c, Launched(c))
    /\ UNCHANGED <<others, row, task, run, request, ghosts>>

Start(c) ==
    /\ campaign[c].status = "draft"
    /\ \E r \in RowsOf(c) : row[r].ready
    /\ ~Conflict(c)
    /\ Asks
    /\ Becomes(c, Launched(c))
    /\ task' = TRUE
    /\ UNCHANGED <<others, row, run, request, ghosts>>

Pause(c) ==
    /\ campaign[c].status \in Active \ {"paused"}
    /\ Asks
    /\ Becomes(c, "paused")
    /\ UNCHANGED <<others, row, task, run, request, ghosts>>

Resume(c) ==
    /\ campaign[c].status = "paused"
    /\ ~Conflict(c)
    /\ Asks
    /\ Becomes(c, Launched(c))
    /\ task' = TRUE
    /\ UNCHANGED <<others, row, run, request, ghosts>>

\* A paused campaign that has failed users is set going by the same request.
RetryFailed(c) ==
    /\ campaign[c].status \in {"needs_attention", "paused", "running"}
    /\ ~Conflict(c)
    /\ \E r \in RowsOf(c) : row[r].status = "failed" /\ row[r].ready
    /\ Asks
    /\ row' = [r \in Rows |-> IF r[1] = c /\ row[r].status = "failed" /\ row[r].ready
                              THEN [row[r] EXCEPT !.status = "pending"] ELSE row[r]]
    /\ Becomes(c, "running")
    /\ task' = TRUE
    /\ UNCHANGED <<others, run, request, ghosts>>

CheckInvitations(c) ==
    /\ Asks
    /\ row' = [r \in Rows |-> IF r[1] = c /\ row[r].status = "waiting_acceptance"
                              THEN [row[r] EXCEPT !.rested = TRUE] ELSE row[r]]
    /\ task' = TRUE
    /\ UNCHANGED <<others, campaign, run, request, ghosts>>

----------------------------------------------------------------------------
(***************************************************************************)
(* Requests on a user of a campaign.                                        *)
(***************************************************************************)
\* set_user_excluded: the row is read, then written by its id.
ReadToSet(r) ==
    /\ campaign[r[1]].status \in {"draft", "scheduled", "running", "paused", "needs_attention"}
    /\ row[r].status \in {"pending", "failed", "excluded"}
    /\ Asks
    /\ request' = [act |-> IF row[r].status = "excluded" THEN "include" ELSE "exclude",
                   on  |-> {r}]
    /\ UNCHANGED <<others, campaign, row, task, run, ghosts>>

\* Is another campaign at work on the user of this row?
Elsewhere(r) ==
    \E other \in Rows : /\ other # r /\ other[2] = r[2]
                        /\ campaign[other[1]].status \in Active
                        /\ row[other].status \notin Settled

WriteSet ==
    \E r \in request.on :
        /\ request.act \in {"exclude", "include"}
        /\ row' = [row EXCEPT
             ![r].status = IF request.act = "exclude" THEN "excluded" ELSE "pending",
             ![r].ready  = request.act = "include"]
        /\ request' = NoRequest
        /\ overruled' =
             IF \/ request.act = "exclude" /\ row[r].status \notin {"pending", "failed"}
                \/ request.act = "include" /\ (campaign[r[1]].status = "completed" \/ Elsewhere(r))
             THEN overruled \cup {r} ELSE overruled
        /\ UNCHANGED <<others, campaign, task, run, orphaned, overslept, budget>>

Validate(r) ==
    /\ row[r].status = "waiting_validation"
    /\ Asks
    /\ LET rows == [row EXCEPT ![r].status = "completed", ![r].validated = TRUE] IN
        /\ row' = rows
        /\ Becomes(r[1], Refreshed(r[1], rows))
    /\ UNCHANGED <<others, task, run, request, ghosts>>

----------------------------------------------------------------------------
(***************************************************************************)
(* The run of migration_worker.                                             *)
(***************************************************************************)
\* reconcile_destination_usage: the first activity validates.
Reconciled(r) ==
    IF row[r].status = "waiting_validation" /\ r[2] \in used
    THEN [row[r] EXCEPT !.status = "completed", !.validated = TRUE] ELSE row[r]

Due(c) == IF campaign[c].status = "scheduled" /\ ~campaign[c].ahead
          THEN [campaign[c] EXCEPT !.status = "running"] ELSE campaign[c]

Claimable(r) ==
    /\ row[r].ready
    /\ \/ Due(r[1]).status = "running" /\ row[r].status = "pending"
       \/ Due(r[1]).status = "waiting_users" /\ row[r].status = "waiting_acceptance" /\ row[r].rested

StartRun ==
    /\ task /\ run.step = "rest"
    /\ row' = [r \in Rows |-> Reconciled(r)]
    /\ campaign' = [c \in Campaign |-> Due(c)]
    /\ run' = [NoRun EXCEPT
         !.step = "rows",
         !.todo = {<<r, row[r].status>> : r \in {r \in Rows : Claimable(r)}},
         !.seen = {c \in Campaign : Due(c).status \in {"running", "waiting_users"}}]
    /\ UNCHANGED <<others, task, request, ghosts, budget>>

WithinBatch(c) == run.done[c] < Batch

DoneOneMore(c) == [run.done EXCEPT ![c] = @ + 1]

\* Rows beyond the batch, and rows no longer as they were read, are passed over.
Claim ==
    /\ run.step = "rows" /\ run.todo # {}
    /\ LET next == CHOOSE t \in run.todo : TRUE
           r    == next[1]
           took == row[r].status = next[2] /\ WithinBatch(r[1]) IN
        /\ row' = IF took THEN [row EXCEPT ![r].status = "processing"] ELSE row
        /\ run' = [run EXCEPT
             !.todo = @ \ {next},
             !.hand = IF took THEN {next} ELSE {},
             !.done = IF took THEN DoneOneMore(r[1]) ELSE @,
             !.step = IF ~took THEN "rows"
                      ELSE IF provider = "jellyfin" /\ account[r[2]] \in {"none", "remote"}
                           THEN "create" ELSE "grant"]
    /\ UNCHANGED <<others, campaign, task, request, ghosts, budget>>

\* The status a row gets is written by its id.
WriteRow(r, status, validated) ==
    /\ row' = [row EXCEPT ![r].status = status, ![r].rested = FALSE,
                          ![r].validated = @ \/ validated]
    /\ run' = [run EXCEPT !.step = "rows", !.hand = {}]

GaveUp(r, was) == WriteRow(r, IF was = "waiting_acceptance" THEN was ELSE "failed", FALSE)

\* jellyfin_create_user refuses a name that is taken; the row of the new
\* account is inserted once the call has returned.
CreateAccount ==
    /\ run.step = "create"
    /\ \E t \in run.hand :
        LET r == t[1] IN
        \/ /\ account[r[2]] = "none"
           /\ account' = [account EXCEPT ![r[2]] = r[1]]
           /\ run' = [run EXCEPT !.step = "grant"]
           /\ UNCHANGED <<row, budget>>
        \/ /\ account[r[2]] = "none" /\ Pay("failures")
           /\ account' = [account EXCEPT ![r[2]] = "remote"]
           /\ GaveUp(r, t[2])
        \/ /\ account[r[2]] = "remote"
           /\ GaveUp(r, t[2])
           /\ UNCHANGED <<account, budget>>
    /\ UNCHANGED <<provider, used, campaign, task, request, ghosts>>

\* Password, folders and links on Jellyfin; invitation and share on Plex.
Grant ==
    /\ run.step = "grant"
    /\ \E t \in run.hand :
        LET r == t[1]
            a == account[r[2]] IN
        \/ /\ Pay("failures")
           /\ GaveUp(r, t[2])
           /\ UNCHANGED account
        \/ /\ a \in {"own", "friend"} \cup (Campaign \ {r[1]})
           /\ WriteRow(r, "completed", TRUE)
           /\ UNCHANGED <<account, budget>>
        \/ /\ a = r[1]
           /\ WriteRow(r, "waiting_validation", FALSE)
           /\ UNCHANGED <<account, budget>>
        \/ /\ a \in {"none", "invited"}
           /\ account' = [account EXCEPT ![r[2]] = "invited"]
           /\ WriteRow(r, "waiting_acceptance", FALSE)
           /\ UNCHANGED budget
    /\ UNCHANGED <<provider, used, campaign, task, request, ghosts>>

RefreshCampaigns ==
    /\ run.step = "rows" /\ run.todo = {}
    /\ campaign' = [c \in Campaign |->
         IF c \in run.seen THEN [campaign[c] EXCEPT !.status = Refreshed(c, row)] ELSE campaign[c]]
    /\ run' = [run EXCEPT !.step = "look"]
    /\ UNCHANGED <<others, row, task, request, ghosts, budget>>

\* What keeps the task enabled.
Busy == \/ \E r \in Rows : campaign[r[1]].status = "running" /\ row[r].status = "pending"
        \/ \E r \in Rows : campaign[r[1]].status = "waiting_users" /\ row[r].status \in Waiting
        \/ \E c \in Campaign : campaign[c].status = "scheduled"

\* jobs: are access jobs of migrations queued or running?
LookForWork(jobs) ==
    /\ run.step = "look"
    /\ run' = IF Busy \/ jobs THEN NoRun ELSE [run EXCEPT !.step = "off"]
    /\ UNCHANGED <<others, campaign, row, task, request, ghosts, budget>>

SwitchOff ==
    /\ run.step = "off"
    /\ task' = FALSE
    /\ run' = NoRun
    /\ overslept' = (overslept \/ \E c \in Campaign : campaign[c].status = "running")
    /\ UNCHANGED <<others, campaign, row, request, overruled, orphaned, budget>>

----------------------------------------------------------------------------
(***************************************************************************)
(* Users, time and deaths.                                                  *)
(***************************************************************************)
Accept(u) ==
    /\ account[u] = "invited"
    /\ account' = [account EXCEPT ![u] = "friend"]
    /\ UNCHANGED <<provider, used, campaign, row, task, run, request, ghosts, budget>>

Play(u) ==
    /\ account[u] \in Campaign \cup {"own"} /\ u \notin used
    /\ used' = used \cup {u}
    /\ UNCHANGED <<provider, account, campaign, row, task, run, request, ghosts, budget>>

DateComes(c) ==
    /\ campaign[c].ahead
    /\ campaign' = [campaign EXCEPT ![c].ahead = FALSE]
    /\ UNCHANGED <<others, row, task, run, request, ghosts, budget>>

TenMinutesPass ==
    /\ run.step = "rest"
    /\ \E r \in Rows : row[r].status = "waiting_acceptance" /\ ~row[r].rested
    /\ row' = [r \in Rows |-> [row[r] EXCEPT !.rested = @ \/ row[r].status = "waiting_acceptance"]]
    /\ UNCHANGED <<others, campaign, task, run, request, ghosts, budget>>

\* A row in hand stays in processing; an account may have been created unseen.
Die ==
    /\ Pay("deaths")
    /\ run' = NoRun
    /\ request' = NoRequest
    /\ orphaned' = orphaned \cup {t[1] : t \in run.hand}
    /\ account' \in {account} \cup
         {[account EXCEPT ![t[1][2]] = "remote"] :
            t \in {t \in run.hand : run.step = "create" /\ account[t[1][2]] = "none"}}
    /\ UNCHANGED <<provider, used, campaign, row, task, overruled, overslept>>
====
