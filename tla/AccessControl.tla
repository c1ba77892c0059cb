---- MODULE AccessControl ----
(***************************************************************************)
(* Everything that changes the access of a user besides the jobs: request   *)
(* threads (the toggle of a library, bulk grants and removals, a forced     *)
(* resync, a renewal), the calendar, update_user_status, the two expiry     *)
(* tasks, the synchronisation from the provider, and deaths of the process. *)
(***************************************************************************)
EXTENDS AccessJobs

(***************************************************************************)
(* Request threads.                                                         *)
(***************************************************************************)
Ready(r) == At(r, "rest") /\ Spend("change")

Asks(r, step, key, removed) ==
    ask' = [ask EXCEPT ![r] = [step |-> step, key |-> key, removed |-> removed]]

\* An expired user's libraries cannot be edited.
ToggleLibrary(r, l) ==
    /\ status # "expired"
    /\ Ready(r)
    /\ want' = IF l \in want THEN want \ {l} ELSE want \cup {l}
    /\ Asks(r, "count", KeyOf("grant", "toggle", l), l \in want)
    /\ UNCHANGED <<context, remote, jobs, run>>

\* The action depends on what remains at the moment of the COUNT.
CountRemaining(r) ==
    /\ At(r, "count")
    /\ ask' = [ask EXCEPT ![r].step = "look",
                          ![r].key = IF provider = "plex" /\ ~ask[r].removed
                                     THEN @
                                     ELSE KeyOf(IF provider = "plex" /\ want = {}
                                                THEN "revoke" ELSE "sync", @.source, NoLib)]
    /\ UNCHANGED <<context, want, remote, jobs, run, left>>

\* grant_libraries_to_active_users and remove_libraries_from_users: Plex only.
GrantToActiveUsers(r, l) ==
    /\ provider = "plex" /\ status = "active"
    /\ Ready(r)
    /\ want' = want \cup {l}
    /\ Asks(r, "look", KeyOf("sync", "bulk", NoLib), FALSE)
    /\ UNCHANGED <<context, remote, jobs, run>>

RemoveFromUsers(r, l) ==
    /\ provider = "plex" /\ l \in want
    /\ Ready(r)
    /\ want' = want \ {l}
    /\ Asks(r, "count", KeyOf("sync", "bulk", NoLib), TRUE)
    /\ UNCHANGED <<context, remote, jobs, run>>

ForceResync(r) ==
    /\ Ready(r)
    /\ Asks(r, "look", KeyOf("sync", "force", NoLib), FALSE)
    /\ UNCHANGED <<context, want, remote, jobs, run>>

\* update_user_expiration: a reactivation has Plex jobs to replace.
Renew(r) ==
    /\ over
    /\ Ready(r)
    /\ over' = FALSE /\ late' = FALSE
    /\ status' = "active"
    /\ Asks(r, IF status = "expired" /\ provider = "plex" THEN "cleanup" ELSE "lift",
            KeyOf("sync", "renewal", NoLib), FALSE)
    /\ UNCHANGED <<provider, mode, policy, torn, want, remote, jobs, run>>

\* _cleanup_pending_plex_jobs_for_user cancels running jobs as well.
CleanupPending(r) ==
    /\ At(r, "cleanup")
    /\ UpdateJobs({i \in DOMAIN jobs : Exists(i) /\ (Indexed(i) \/ ~jobs[i].done)}, Canceled)
    /\ GoTo(r, "look")
    /\ UNCHANGED <<context, want, remote, run, left>>

LiftPolicy(r) ==
    /\ At(r, "lift")
    /\ policy' = FALSE
    /\ ask' = [ask EXCEPT ![r] = Resting]
    /\ UNCHANGED <<provider, mode, over, late, status, torn, want, remote, jobs, run, left>>

Request(r) ==
    \/ \E l \in Lib : ToggleLibrary(r, l) \/ GrantToActiveUsers(r, l) \/ RemoveFromUsers(r, l)
    \/ ForceResync(r) \/ Renew(r)

Continue(r) == CountRemaining(r) \/ CleanupPending(r) \/ LiftPolicy(r)

----------------------------------------------------------------------------
(***************************************************************************)
(* The calendar, and the tasks that follow it.                              *)
(***************************************************************************)
Expire ==
    /\ ~over
    /\ Spend("change")
    /\ over' = TRUE
    /\ UNCHANGED <<provider, mode, late, status, policy, torn, want, remote, jobs, ask, run>>

DelayPasses ==
    /\ over /\ ~late
    /\ late' = TRUE
    /\ UNCHANGED <<provider, mode, over, status, policy, torn, want, remote, jobs, ask, run, left>>

\* update_user_status reads all users, then writes the status of each.
ReadDate ==
    /\ AtTask("idle")
    /\ over # (status = "expired")
    /\ run' = [Idle EXCEPT !.phase = "status", !.over = over]
    /\ UNCHANGED <<context, want, remote, jobs, ask, left>>

WriteStatus ==
    /\ AtTask("status")
    /\ status' = IF run.over THEN "expired" ELSE "active"
    /\ run' = Idle
    /\ UNCHANGED <<provider, mode, over, late, policy, torn, want, remote, jobs, ask, left>>

\* disable_expired_users, which purges the policies of the other modes.
SelectExpired ==
    /\ AtTask("idle")
    /\ mode = "disable"
    /\ over /\ want # {}
    /\ policy' = FALSE
    /\ TaskGoes("erase")
    /\ UNCHANGED <<provider, mode, over, late, status, torn, want, remote, jobs, ask, left>>

\* DELETE FROM media_user_libraries, then the job.
EraseRows ==
    /\ AtTask("erase")
    /\ want' = {}
    /\ Asks(Tasks, "look", KeyOf(IF provider = "plex" THEN "revoke" ELSE "sync",
                                 "expiry", NoLib), TRUE)
    /\ TaskGoes("asking")
    /\ UNCHANGED <<context, remote, jobs, left>>

\* Mutant: the end of the delay is not looked at.
StartManagerWarns ==
    /\ AtTask("idle")
    /\ mode # "disable"
    /\ over \/ policy
    /\ TaskGoes(IF over THEN "warn" ELSE "lift")
    /\ UNCHANGED <<context, want, remote, jobs, ask, left>>

\* Mutant: policies of users who are not expired are nobody's business.
StartManagerForExpired ==
    /\ AtTask("idle")
    /\ mode # "disable"
    /\ over
    /\ TaskGoes(IF mode = "warn_then_disable" /\ late THEN "warnLate" ELSE "warn")
    /\ UNCHANGED <<context, want, remote, jobs, ask, left>>

\* expired_subscription_manager reads the dates of all users first.
StartManager ==
    /\ AtTask("idle")
    /\ mode # "disable"
    /\ over \/ policy
    /\ TaskGoes(IF ~over THEN "lift"
                ELSE IF mode = "warn_then_disable" /\ late THEN "warnLate" ELSE "warn")
    /\ UNCHANGED <<context, want, remote, jobs, ask, left>>

CreatePolicy ==
    /\ AtTask("warn") \/ AtTask("warnLate")
    /\ policy' = TRUE
    /\ run' = [Idle EXCEPT !.phase = IF AtTask("warn") THEN "idle"
                                     ELSE IF want # {} THEN "erase" ELSE "lift"]
    /\ UNCHANGED <<provider, mode, over, late, status, torn, want, remote, jobs, ask, left>>

\* The policy goes with the renewal, and after the access has been removed.
DeletePolicy ==
    /\ AtTask("lift")
    /\ policy' = FALSE
    /\ run' = Idle
    /\ UNCHANGED <<provider, mode, over, late, status, torn, want, remote, jobs, ask, left>>

Expiry == SelectExpired \/ EraseRows \/ StartManager \/ CreatePolicy \/ DeletePolicy

----------------------------------------------------------------------------
(***************************************************************************)
(* sync_plex and sync_jellyfin.  Both pass over expired users; only         *)
(* sync_plex passes over a user with jobs.                                  *)
(***************************************************************************)
StartPlexSync ==
    /\ AtTask("idle")
    /\ provider = "plex"
    /\ status = "active"
    /\ \A i \in DOMAIN jobs : ~Indexed(i)
    /\ TaskGoes("fetch")
    /\ UNCHANGED <<context, want, remote, jobs, ask, left>>

StartJellyfinSync ==
    /\ AtTask("idle")
    /\ provider = "jellyfin"
    /\ status = "active"
    /\ TaskGoes("fetch")
    /\ UNCHANGED <<context, want, remote, jobs, ask, left>>

FetchPlexAccess ==
    /\ AtTask("fetch") /\ provider = "plex"
    /\ run' = [run EXCEPT !.phase = "write", !.plan = remote]
    /\ UNCHANGED <<context, want, remote, jobs, ask, left>>

FetchJellyfinAccess ==
    /\ AtTask("fetch") /\ provider = "jellyfin"
    /\ run' = [run EXCEPT !.phase = "wipe", !.plan = remote]
    /\ UNCHANGED <<context, want, remote, jobs, ask, left>>

\* _refresh_shared_libraries_for_server deletes all rows, then inserts.
WipeRows ==
    /\ AtTask("wipe")
    /\ want' = {}
    /\ TaskGoes("write")
    /\ UNCHANGED <<context, remote, jobs, ask, left>>

WriteRows ==
    /\ AtTask("write")
    /\ want' = IF provider = "plex" THEN run.plan ELSE want \cup run.plan
    /\ run' = Idle
    /\ UNCHANGED <<context, remote, jobs, ask, left>>

Sync ==
    \/ StartPlexSync \/ StartJellyfinSync
    \/ FetchPlexAccess \/ FetchJellyfinAccess
    \/ WipeRows \/ WriteRows

----------------------------------------------------------------------------
\* Between a change of the rows and the last statement that belongs to it.
MidChange ==
    \/ \E a \in Actor : ask[a].step \notin {"rest", "lift"}
    \/ provider = "jellyfin" /\ AtTask("write")

\* The process dies: threads and tasks are gone, the tables stay.
Death ==
    /\ Spend("fault")
    /\ torn' = (torn \/ MidChange)
    /\ ask' = [a \in Actor |-> Resting]
    /\ run' = Idle
    /\ UNCHANGED <<provider, mode, over, late, status, policy, want, remote, jobs>>

Next ==
    \/ \E a \in Actor : QueueJob(a)
    \/ \E r \in Thread : Request(r) \/ Continue(r)
    \/ \E i \in DOMAIN jobs : RunAfterPasses(i) \/ LockExpires(i)
    \/ Expire \/ DelayPasses
    \/ Apply \/ CallFails \/ InviteIsPending
    \/ ReadDate \/ WriteStatus \/ Expiry \/ Sync
    \/ Death

(***************************************************************************)
(* Threads go on once they have begun, time passes, and each scheduled task *)
(* runs again and again (TaskEngine's PendingIsServed and ScheduleNeverDies *)
(* say so): strong fairness, because the tasks take turns on one thread.    *)
(***************************************************************************)
Fairness ==
    /\ \A a \in Actor : WF_vars(QueueJob(a))
    /\ \A r \in Thread : WF_vars(Continue(r))
    /\ WF_vars(\E i \in DOMAIN jobs : RunAfterPasses(i) \/ LockExpires(i))
    /\ SF_vars(Apply)
    /\ SF_vars(ReadDate \/ WriteStatus)
    /\ SF_vars(Expiry)
    /\ SF_vars(Sync)

Spec == Init /\ [][Next]_vars
FairSpec == Spec /\ Fairness

----------------------------------------------------------------------------
(***************************************************************************)
(* A Jellyfin job recomputes the access from the rows, so whatever threads, *)
(* expiry, synchronisation, failures and deaths do: rows that differ from   *)
(* what Jellyfin shares have a pending job, or somebody is still about to   *)
(* queue it, unless a death tore a change from its job.                     *)
(***************************************************************************)
Pending == \E i \in DOMAIN jobs : Exists(i) /\ ~jobs[i].done

JellyfinForgetsNothing ==
    provider = "jellyfin" /\ want # remote => Pending \/ MidChange \/ torn

(***************************************************************************)
(* Whatever was lost on the way, the rows and the provider agree in the end *)
(* for a user the synchronisation looks at: locks of dead runs expire,      *)
(* retries end, and no job holds sync_plex off for ever.                    *)
(***************************************************************************)
ViewsConverge == <>[](want = remote \/ status = "expired" \/ AtTask("write"))

(***************************************************************************)
(* An expired user of a Jellyfin server ends without access, in the modes   *)
(* that remove it, whatever requests and synchronisation do meanwhile.      *)
(***************************************************************************)
JellyfinExpiryRemoves ==
    <>[](/\ provider = "jellyfin" /\ ~torn
         /\ over /\ (mode = "disable" \/ (mode = "warn_then_disable" /\ late))
         => remote = {})

(***************************************************************************)
(* A renewed user does not stay barred, although the manager of expired     *)
(* subscriptions judges by dates it has read before the renewal and may     *)
(* create the policy after the renewal has removed it.                      *)
(***************************************************************************)
RenewedIsNotBarred == <>[](~over => ~policy)

(***************************************************************************)
(* docs/users.md: "Access changes are queued as provider jobs."  When the   *)
(* statements that queue a job are through, some job of the user and server *)
(* has still to read the rows.                                              *)
(***************************************************************************)
WillReadRows(i) ==
    \/ Queued(i)
    \/ jobs[i].status = "running" /\ ~(run.job = i /\ run.phase # "read")

ChangesAreQueued ==
    [][\A a \in Actor : InsertJob(a) => (\E i \in DOMAIN jobs : WillReadRows(i))']_vars
====
