---- MODULE AccessJobs ----
(***************************************************************************)
(* The access of one user to the libraries of one server: what was asked    *)
(* for (media_user_libraries), what the provider shares, and the media_jobs *)
(* queue that carries the one to the other.  This module has the tables,    *)
(* the four statements that queue a job, and the two tasks that apply jobs; *)
(* AccessControl adds the threads and tasks that change what is asked for.  *)
(*                                                                          *)
(* All tasks run on the engine's only worker, hence one task thread.  Time  *)
(* is kept as far as the queries compare it: run_after is due or not, a     *)
(* lock is held or expired.                                                 *)
(***************************************************************************)
EXTENDS Integers, Sequences

CONSTANTS
    Lib,          \* the libraries of the server
    Thread,       \* request threads
    Tasks,        \* the thread that runs the tasks
    Mode,         \* the expiry modes to consider
    MaxAttempts,  \* media_jobs.max_attempts
    SlowCalls,    \* may a call outlast the lock of its job (10 minutes)?
    MaxChanges,   \* bound: toggles, renewals and expirations
    MaxFaults     \* bound: provider calls that fail, deaths of the process

ASSUME TasksIsNoRequest == Tasks \notin Thread
ASSUME ModeType == Mode \subseteq {"disable", "warn_only", "warn_then_disable"}
ASSUME AttemptsType == MaxAttempts \in Nat \ {0}
ASSUME SlowCallsType == SlowCalls \in BOOLEAN
ASSUME AccessBounds == MaxChanges \in Nat /\ MaxFaults \in Nat

Actor == Thread \cup {Tasks}
NoLib == "none"

VARIABLES
    provider,     \* servers.type
    mode,         \* settings.expiry_mode
    want,         \* the user's rows of media_user_libraries
    remote,       \* the libraries the provider shares with the user
    over,         \* vodum_users.expiration_date has passed
    late,         \* ... by warn_then_disable_days
    status,       \* vodum_users.status, as far as "expired" or not
    policy,       \* the user has the system policy "expired_subscription"
    jobs,         \* media_jobs, by id
    ask,          \* per actor: the job being queued and the next statement
    run,          \* the task in hand
    left,         \* changes and faults still allowed
    torn          \* a death came between a change and its job

context == <<provider, mode, over, late, status, policy, torn>>
vars == <<context, want, remote, jobs, ask, run, left>>

(***************************************************************************)
(* dedupe_key: the action, the part of the program that asks, the library   *)
(* of a grant, and the ":after-running" suffix.                             *)
(***************************************************************************)
Key == [action : {"grant", "sync", "revoke"},
        source : {"toggle", "bulk", "force", "expiry", "renewal"},
        lib    : Lib \cup {NoLib},
        after  : BOOLEAN]

Job == [key    : Key,
        status : {"queued", "running", "canceled", "error", "deleted"},
        done   : BOOLEAN,              \* processed
        due    : BOOLEAN,              \* run_after IS NULL OR <= now
        lock   : {"null", "held", "expired"},
        tries  : 0..MaxAttempts]

Step == {"rest", "count", "cleanup", "look", "cancel", "clean", "insert", "lift"}
Ask == [step : Step, key : Key, removed : BOOLEAN]

KeyOf(action, source, lib) ==
    [action |-> action, source |-> source, lib |-> lib, after |-> FALSE]

Resting == [step |-> "rest", key |-> KeyOf("sync", "toggle", NoLib), removed |-> FALSE]

Phase == {"idle", "next", "read", "call", "ok", "failed", "invite",
          "status", "warn", "warnLate", "erase", "asking", "lift",
          "fetch", "wipe", "write"}

\* The batch is taken in the order of id.
Run == [phase : Phase, batch : SUBSET Nat, job : Nat, plan : SUBSET Lib, over : BOOLEAN]

Idle == [phase |-> "idle", batch |-> {}, job |-> 0, plan |-> {}, over |-> FALSE]

TypeOK ==
    /\ provider \in {"plex", "jellyfin"}
    /\ mode \in Mode
    /\ want \in SUBSET Lib /\ remote \in SUBSET Lib
    /\ over \in BOOLEAN /\ late \in BOOLEAN
    /\ status \in {"active", "expired"}
    /\ policy \in BOOLEAN
    /\ jobs \in Seq(Job)
    /\ ask \in [Actor -> Ask]
    /\ run \in Run
    /\ left \in [{"change", "fault"} -> Nat]
    /\ torn \in BOOLEAN

Init ==
    /\ provider \in {"plex", "jellyfin"}
    /\ mode \in Mode
    /\ want \in SUBSET Lib
    /\ remote = want
    /\ over = FALSE
    /\ late = FALSE
    /\ status = "active"
    /\ policy = FALSE
    /\ jobs = <<>>
    /\ ask = [a \in Actor |-> Resting]
    /\ run = Idle
    /\ left = [change |-> MaxChanges, fault |-> MaxFaults]
    /\ torn = FALSE

Spend(what) ==
    /\ left[what] > 0
    /\ left' = [left EXCEPT ![what] = @ - 1]

----------------------------------------------------------------------------
(***************************************************************************)
(* Rows of media_jobs.                                                      *)
(***************************************************************************)
Exists(i) == jobs[i].status # "deleted"

\* The rows the UNIQUE index on dedupe_key covers.
Indexed(i) == jobs[i].status \in {"queued", "running"}

Queued(i) == jobs[i].status = "queued" /\ ~jobs[i].done
Running(i) == jobs[i].status = "running" /\ jobs[i].lock # "expired"
Stale(i) == jobs[i].status = "running" /\ jobs[i].lock = "expired"

\* UPDATE media_jobs SET ... WHERE id IN I.
UpdateJobs(I, Upd(_)) ==
    jobs' = [i \in DOMAIN jobs |-> IF i \in I THEN Upd(jobs[i]) ELSE jobs[i]]

NewJob(key) ==
    [key |-> key, status |-> "queued", done |-> FALSE, due |-> ~key.after,
     lock |-> "null", tries |-> 0]

Deleted(j) == [NewJob(j.key) EXCEPT !.status = "deleted"]
Canceled(j) == [j EXCEPT !.status = "canceled", !.done = TRUE, !.lock = "null"]
\* Mutant: the lock is released and the status left alone.
RecoveredLockOnly(j) == [j EXCEPT !.lock = "null"]

Recovered(j) == [j EXCEPT !.status = "queued", !.lock = "null"]

Claimed(j) ==
    [j EXCEPT !.status = "running", !.lock = "held",
              !.tries = IF @ < MaxAttempts THEN @ + 1 ELSE @]
Requeued(j) == [j EXCEPT !.status = "queued", !.done = FALSE, !.due = FALSE, !.lock = "null"]

GivenUp(j) == [j EXCEPT !.status = "error", !.done = TRUE, !.lock = "null"]

----------------------------------------------------------------------------
(***************************************************************************)
(* _queue_access_job, one statement at a time.                              *)
(***************************************************************************)
At(a, step) == ask[a].step = step
GoTo(a, step) == ask' = [ask EXCEPT ![a].step = step]

LookForRunning(a) ==
    /\ At(a, "look")
    /\ ask' = [ask EXCEPT ![a].step = "cancel",
                          ![a].key.after = \E i \in DOMAIN jobs : Running(i)]
    /\ UNCHANGED <<context, want, remote, jobs, run, left>>

CancelQueued(a) ==
    /\ At(a, "cancel")
    /\ UpdateJobs({i \in DOMAIN jobs : Queued(i)}, Canceled)
    /\ GoTo(a, "clean")
    /\ UNCHANGED <<context, want, remote, run, left>>

CleanKey(a) ==
    /\ At(a, "clean")
    /\ UpdateJobs({i \in DOMAIN jobs : jobs[i].key = ask[a].key /\ jobs[i].done}, Deleted)
    /\ GoTo(a, "insert")
    /\ UNCHANGED <<context, want, remote, run, left>>

\* The ids in use: ids of deleted rows behind them may be given again, for
\* nobody knows them any more.
InUse == {i \in DOMAIN jobs : Exists(i) \/ i = run.job \/ i \in run.batch}
LastInUse(n) == (n = 0 \/ n \in InUse) /\ \A i \in InUse : i <= n

\* INSERT OR IGNORE under the partial unique index.  A renewal goes on to lift
\* the policy, and so does the manager of expired subscriptions.
InsertJob(a) ==
    /\ At(a, "insert")
    /\ \E n \in 0..Len(jobs) :
        /\ LastInUse(n)
        /\ jobs' = IF \E i \in DOMAIN jobs : Indexed(i) /\ jobs[i].key = ask[a].key
                   THEN jobs
                   ELSE Append(SubSeq(jobs, 1, n), NewJob(ask[a].key))
    /\ ask' = [ask EXCEPT ![a] = IF @.key.source = "renewal"
                                 THEN [Resting EXCEPT !.step = "lift"] ELSE Resting]
    /\ run' = IF a # Tasks THEN run
              ELSE IF mode = "disable" THEN Idle ELSE [Idle EXCEPT !.phase = "lift"]
    /\ UNCHANGED <<context, want, remote, left>>

QueueJob(a) == LookForRunning(a) \/ CancelQueued(a) \/ CleanKey(a) \/ InsertJob(a)

RunAfterPasses(i) ==
    /\ Queued(i) /\ ~jobs[i].due
    /\ UpdateJobs({i}, LAMBDA j : [j EXCEPT !.due = TRUE])
    /\ UNCHANGED <<context, want, remote, ask, run, left>>

LockExpires(i) ==
    /\ jobs[i].lock = "held"
    /\ SlowCalls \/ run.job # i
    /\ UpdateJobs({i}, LAMBDA j : [j EXCEPT !.lock = "expired"])
    /\ UNCHANGED <<context, want, remote, ask, run, left>>

----------------------------------------------------------------------------
(***************************************************************************)
(* apply_plex_access_updates and apply_jellyfin_access_updates.             *)
(***************************************************************************)
AtTask(phase) == run.phase = phase
TaskGoes(phase) == run' = [run EXCEPT !.phase = phase]

Fetch(ids) == ids # {} /\ run' = [Idle EXCEPT !.phase = "next", !.batch = ids]

IsNext(i) == i \in run.batch /\ \A k \in run.batch : i <= k

FetchPlexJobs ==
    /\ AtTask("idle")
    /\ provider = "plex"
    /\ Fetch({i \in DOMAIN jobs : Stale(i) \/ (Queued(i) /\ jobs[i].due)})
    /\ UpdateJobs({i \in DOMAIN jobs : Stale(i)}, Recovered)
    /\ UNCHANGED <<context, want, remote, ask, left>>

\* Jellyfin's SELECT looks at `processed` only.
FetchJellyfinJobs ==
    /\ AtTask("idle")
    /\ provider = "jellyfin"
    /\ Fetch({i \in DOMAIN jobs : Exists(i) /\ ~jobs[i].done})
    /\ UNCHANGED <<context, want, remote, jobs, ask, left>>

EndBatch ==
    /\ AtTask("next")
    /\ run.batch = {}
    /\ run' = Idle
    /\ UNCHANGED <<context, want, remote, jobs, ask, left>>

\* The claim is a conditional UPDATE: a job canceled since the SELECT is passed
\* over.  Jellyfin takes every job it has selected.
ClaimPlexJob ==
    /\ AtTask("next")
    /\ provider = "plex"
    /\ \E i \in run.batch :
        /\ IsNext(i)
        /\ run' = [run EXCEPT !.batch = @ \ {i}, !.job = IF Queued(i) THEN i ELSE 0,
                              !.phase = IF Queued(i) THEN "read" ELSE "next"]
        /\ UpdateJobs({k \in {i} : Queued(k)}, Claimed)
    /\ UNCHANGED <<context, want, remote, ask, left>>

TakeJellyfinJob ==
    /\ AtTask("next")
    /\ provider = "jellyfin"
    /\ \E i \in run.batch :
        /\ IsNext(i)
        /\ run' = [run EXCEPT !.batch = @ \ {i}, !.job = i, !.phase = "read"]
    /\ UNCHANGED <<context, want, remote, jobs, ask, left>>

\* What a job will send is computed from the rows as they are now.
Plan(libs) ==
    /\ AtTask("read")
    /\ run' = [run EXCEPT !.plan = libs, !.phase = "call"]
    /\ UNCHANGED <<context, want, remote, jobs, ask, left>>

PlexJobIs(action) == provider = "plex" /\ AtTask("read") /\ jobs[run.job].key.action = action

ApplyGrant == PlexJobIs("grant") /\ Plan(want \cup ({jobs[run.job].key.lib} \cap Lib))

ApplyRevoke == PlexJobIs("revoke") /\ Plan({})

\* "SYNC aborted": a Plex sync is never turned into a full revoke.
ApplySync ==
    /\ PlexJobIs("sync")
    /\ IF want # {}
       THEN Plan(want)
       ELSE /\ TaskGoes("failed")
            /\ UNCHANGED <<context, want, remote, jobs, ask, left>>

DesiredFolders == provider = "jellyfin" /\ AtTask("read") /\ Plan(want)

\* The share is created if need be, then overwritten; or deleted.
PutShare ==
    /\ AtTask("call")
    /\ provider = "plex"
    /\ remote' = run.plan
    /\ TaskGoes("ok")
    /\ UNCHANGED <<context, want, jobs, ask, left>>

SetPolicy ==
    /\ AtTask("call")
    /\ provider = "jellyfin"
    /\ remote' = run.plan
    /\ TaskGoes("ok")
    /\ UNCHANGED <<context, want, jobs, ask, left>>

\* An exception, before the provider acted or after it.
CallFails ==
    /\ AtTask("call")
    /\ Spend("fault")
    /\ remote' \in {remote, run.plan}
    /\ TaskGoes("failed")
    /\ UNCHANGED <<context, want, jobs, ask>>

\* PendingPlexInvite is raised before anything is sent.
InviteIsPending ==
    /\ AtTask("call")
    /\ provider = "plex"
    /\ Spend("fault")
    /\ TaskGoes("invite")
    /\ UNCHANGED <<context, want, remote, jobs, ask>>

\* UPDATE ... SET status = 'success' WHERE id = ?, then the DELETE.
PlexSucceeded ==
    /\ AtTask("ok")
    /\ provider = "plex"
    /\ UpdateJobs({run.job}, Deleted)
    /\ TaskGoes("next")
    /\ UNCHANGED <<context, want, remote, ask, left>>

\* _mark_success sets processed and leaves the status.
JellyfinSucceeded ==
    /\ AtTask("ok")
    /\ provider = "jellyfin"
    /\ UpdateJobs({i \in {run.job} : Exists(i)}, LAMBDA j : [j EXCEPT !.done = TRUE])
    /\ TaskGoes("next")
    /\ UNCHANGED <<context, want, remote, ask, left>>

\* UPDATE ... WHERE id = ?, whatever has become of the row meanwhile; when
\* another row has its key by now, the IntegrityError ends the task.
Requeue(i) ==
    LET collides == \E k \in DOMAIN jobs \ {i} : Indexed(k) /\ jobs[k].key = jobs[i].key
    IN  IF Exists(i) /\ collides
        THEN jobs' = jobs /\ run' = Idle
        ELSE UpdateJobs({k \in {i} : Exists(k)}, Requeued) /\ TaskGoes("next")

DeferForInvite ==
    /\ AtTask("invite")
    /\ Requeue(run.job)
    /\ UNCHANGED <<context, want, remote, ask, left>>

PlexFailed ==
    /\ AtTask("failed")
    /\ provider = "plex"
    /\ IF jobs[run.job].tries >= MaxAttempts
       THEN UpdateJobs({k \in {run.job} : Exists(k)}, GivenUp) /\ TaskGoes("next")
       ELSE Requeue(run.job)
    /\ UNCHANGED <<context, want, remote, ask, left>>

\* Mutant: a failed job counts as processed.
JellyfinFailedDone ==
    /\ AtTask("failed")
    /\ provider = "jellyfin"
    /\ UpdateJobs({run.job}, GivenUp)
    /\ TaskGoes("next")
    /\ UNCHANGED <<context, want, remote, ask, left>>

\* _mark_failure leaves the job pending.
JellyfinFailed ==
    /\ AtTask("failed")
    /\ provider = "jellyfin"
    /\ TaskGoes("next")
    /\ UNCHANGED <<context, want, remote, jobs, ask, left>>

Apply ==
    \/ FetchPlexJobs \/ FetchJellyfinJobs \/ EndBatch
    \/ ClaimPlexJob \/ TakeJellyfinJob
    \/ ApplyGrant \/ ApplyRevoke \/ ApplySync \/ DesiredFolders
    \/ PutShare \/ SetPolicy
    \/ PlexSucceeded \/ JellyfinSucceeded
    \/ DeferForInvite \/ PlexFailed \/ JellyfinFailed
====
