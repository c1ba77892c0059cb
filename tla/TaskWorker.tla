---- MODULE TaskWorker ----
(***************************************************************************)
(* The task queue of tasks_engine.py: enqueue_task and _kick_worker_if_     *)
(* needed as any thread calls them, the in-process worker lease             *)
(* (core/tasks/worker_lease.py) and the worker thread that drains the queue *)
(* (core/tasks/execution.py).  One step is one SQL statement or one         *)
(* acquisition of the lease's lock.                                         *)
(***************************************************************************)
EXTENDS TaskTable

CONSTANTS
    Worker,       \* slots for worker threads: one runs, others may be exiting
    Page,         \* request threads of the Tasks page ("run now")
    Client,       \* request threads, and runs, that ask for a task by its name
    Sched,        \* the thread of start() and then of the scheduler loop
    NoTask,
    MaxFaults     \* bound: database errors and failed thread starts

Thread == Worker \cup Page \cup Client \cup {Sched}

ASSUME ThreadsDiffer ==
    /\ Worker \cap (Page \cup Client \cup {Sched}) = {}
    /\ Page \cap Client = {}
    /\ Sched \notin Page \cup Client
ASSUME NoTaskIsNone == NoTask \notin Task
ASSUME MaxFaultsType == MaxFaults \in Nat

VARIABLES
    lease,        \* WorkerLease._claimed
    call,         \* where each thread is in its call of enqueue_task or kick
    wpc,          \* where each worker thread is in _task_worker
    wtask,        \* the task it fetched
    wseen,        \* the retry_count it read in _mark_task_retry_or_error
    faults

workerVars == <<lease, call, wpc, wtask, wseen, faults>>

Stage == {"rest",
          "wake", "enable",                    \* enable_and_run_task_by_name
          "mark",                              \* run now
          "cron", "enabled", "update",         \* enqueue_task
          "kick", "count",                     \* _kick_worker_if_needed
          "claim", "start",                    \* _start_task_worker
          "done", "refused", "raised"}

Executing == {"run", "replan", "error", "finalize", "failsafe"}
HoldsLease == {"fetch", "mark", "leave"} \cup Executing
WorkerStage == HoldsLease \cup {"off"}

NoCall == [at |-> "rest", task |-> NoTask]

WorkerTypeOK ==
    /\ lease \in BOOLEAN
    /\ call \in [Thread -> [at : Stage, task : Task \cup {NoTask}]]
    /\ wpc \in [Worker -> WorkerStage]
    /\ wtask \in [Worker -> Task \cup {NoTask}]
    /\ wseen \in [Worker -> Nat]
    /\ faults \in 0..MaxFaults

WorkerInit ==
    /\ lease = FALSE
    /\ call = [th \in Thread |-> NoCall]
    /\ wpc = [w \in Worker |-> "off"]
    /\ wtask = [w \in Worker |-> NoTask]
    /\ wseen = [w \in Worker |-> 0]
    /\ faults = 0

Goto(th, stage) == call' = [call EXCEPT ![th].at = stage]

\* The scheduler looks at what its call returned; nobody else does.
Return(th, result) ==
    call' = [call EXCEPT ![th] =
                IF th = Sched THEN [at |-> result, task |-> NoTask] ELSE NoCall]

\* The Tasks page and the scheduler handle an exception; it ends anybody else.
Raise(th) ==
    call' = [call EXCEPT ![th] =
                IF th \in Page \cup {Sched} THEN [@ EXCEPT !.at = "raised"] ELSE NoCall]

\* A database error or a thread the system refuses to start.
Fault == faults < MaxFaults /\ faults' = faults + 1

----------------------------------------------------------------------------
\* enqueue_task.

ReadCron(th) ==
    /\ call[th].at = "cron"
    /\ IF cronOn THEN Goto(th, "enabled") ELSE Return(th, "refused")
    /\ UNCHANGED <<tableVars, lease, wpc, wtask, wseen, faults>>

ReadEnabled(th) ==
    /\ call[th].at = "enabled"
    /\ IF row[call[th].task].enabled THEN Goto(th, "update") ELSE Return(th, "refused")
    /\ UNCHANGED <<tableVars, lease, wpc, wtask, wseen, faults>>

Request(th) ==
    /\ call[th].at = "update"
    /\ Change({call[th].task} \cap {t \in Task : row[t].enabled}, Requested)
    /\ Goto(th, "claim")
    /\ UNCHANGED <<cronOn, lease, wpc, wtask, wseen, faults>>

\* A statement of enqueue_task raises: the caller gets the exception.
EnqueueRaises(th) ==
    /\ call[th].at \in {"enabled", "update"}
    /\ Fault
    /\ Raise(th)
    /\ UNCHANGED <<tableVars, lease, wpc, wtask, wseen>>

----------------------------------------------------------------------------
\* _kick_worker_if_needed.

LookAtLease(th) ==
    /\ call[th].at = "kick"
    /\ IF lease THEN Return(th, "done") ELSE Goto(th, "count")
    /\ UNCHANGED <<tableVars, lease, wpc, wtask, wseen, faults>>

CountPending(th) ==
    /\ call[th].at = "count"
    /\ IF Pending = {} THEN Return(th, "done") ELSE Goto(th, "claim")
    /\ UNCHANGED <<tableVars, lease, wpc, wtask, wseen, faults>>

CountFails(th) ==
    /\ call[th].at = "count"
    /\ Fault
    /\ Return(th, "done")
    /\ UNCHANGED <<tableVars, lease, wpc, wtask, wseen>>

----------------------------------------------------------------------------
\* _start_task_worker.

\* Mutant: the lease is taken without a look.
ClaimBlindly(th) ==
    /\ call[th].at = "claim"
    /\ Goto(th, "start")
    /\ lease' = TRUE
    /\ UNCHANGED <<tableVars, wpc, wtask, wseen, faults>>

Claim(th) ==
    /\ call[th].at = "claim"
    /\ IF lease THEN Return(th, "done") ELSE Goto(th, "start")
    /\ lease' = TRUE
    /\ UNCHANGED <<tableVars, wpc, wtask, wseen, faults>>

\* A slot is free when its last thread has finished its own parting kick.
FreeSlot(w, th) == wpc[w] = "off" /\ (call[w].at = "rest" \/ w = th)

StartThread(th) ==
    /\ call[th].at = "start"
    /\ \E w \in Worker :
          /\ FreeSlot(w, th)
          /\ wpc' = [wpc EXCEPT ![w] = "fetch"]
    /\ Return(th, "done")
    /\ UNCHANGED <<tableVars, lease, wtask, wseen, faults>>

StartFails(th) ==
    /\ call[th].at = "start"
    /\ Fault
    /\ lease' = FALSE
    /\ Raise(th)
    /\ UNCHANGED <<tableVars, wpc, wtask, wseen>>

CallStep(th) ==
    \/ ReadCron(th) \/ ReadEnabled(th) \/ Request(th)
    \/ LookAtLease(th) \/ CountPending(th) \/ Claim(th) \/ StartThread(th)

CallFault(th) == EnqueueRaises(th) \/ CountFails(th) \/ StartFails(th)

----------------------------------------------------------------------------
\* Callers: "run now" of the Tasks page, enable_and_run_task_by_name, and the
\* plain requests by name.

RunNow(p, t) ==
    /\ call[p].at = "rest" /\ row[t].enabled
    /\ call' = [call EXCEPT ![p] = [at |-> "mark", task |-> t]]
    /\ UNCHANGED <<tableVars, lease, wpc, wtask, wseen, faults>>

MarkManualRun(p) ==
    /\ call[p].at = "mark"
    /\ Change({call[p].task}, ManualRun)
    /\ Goto(p, "cron")
    /\ UNCHANGED <<cronOn, lease, wpc, wtask, wseen, faults>>

MarkQueueFailed(p) ==
    /\ call[p].at = "raised"
    /\ Change({call[p].task}, QueueFailed)
    /\ call' = [call EXCEPT ![p] = NoCall]
    /\ UNCHANGED <<cronOn, lease, wpc, wtask, wseen, faults>>

\* A row read as running or requested is enabled if need be, never enqueued.
WakeTask(c, t) ==
    LET busy  == row[t].status = "running" \/ row[t].queued > 0
        stage == CASE row[t].enabled -> "cron"
                   [] ~row[t].enabled /\ busy -> "enable"
                   [] OTHER -> "wake"
    IN  /\ call[c].at = "rest"
        /\ ~(row[t].enabled /\ busy)
        /\ call' = [call EXCEPT ![c] = [at |-> stage, task |-> t]]
        /\ UNCHANGED <<tableVars, lease, wpc, wtask, wseen, faults>>

\* A request by name asks again for a task that is running or requested already.
\* One made inside a run finds the lease taken, as a client's does at that moment.
EnqueueByName(c, t) ==
    /\ call[c].at = "rest" /\ row[t].enabled
    /\ call' = [call EXCEPT ![c] = [at |-> "cron", task |-> t]]
    /\ UNCHANGED <<tableVars, lease, wpc, wtask, wseen, faults>>

EnableToWake(c) ==
    /\ call[c].at \in {"enable", "wake"}
    /\ Change({call[c].task}, AutoEnabled)
    /\ IF call[c].at = "wake" THEN Goto(c, "cron") ELSE Return(c, "done")
    /\ UNCHANGED <<cronOn, lease, wpc, wtask, wseen, faults>>

RequestStep(th) ==
    \/ th \in Page /\ (MarkManualRun(th) \/ MarkQueueFailed(th))
    \/ th \in Client /\ EnableToWake(th)

----------------------------------------------------------------------------
\* The worker thread: fetch, run_task, and leave when nothing is pending.

Become(w, stage) == wpc' = [wpc EXCEPT ![w] = stage]

Fetch(w) ==
    /\ wpc[w] = "fetch"
    /\ \E t \in Task :
          /\ NextPending(t)
          /\ wtask' = [wtask EXCEPT ![w] = t]
    /\ Become(w, "mark")
    /\ UNCHANGED <<tableVars, lease, call, wseen, faults>>

FetchNothing(w) ==
    /\ wpc[w] = "fetch" /\ Pending = {}
    /\ Become(w, "leave")
    /\ UNCHANGED <<tableVars, lease, call, wtask, wseen, faults>>

FetchFails(w) ==
    /\ wpc[w] = "fetch"
    /\ Fault
    /\ Become(w, "leave")
    /\ UNCHANGED <<tableVars, lease, call, wtask, wseen>>

MarkRunning(w) ==
    /\ wpc[w] = "mark"
    /\ Change({wtask[w]}, Started)
    /\ Become(w, "run")
    /\ UNCHANGED <<cronOn, lease, call, wtask, wseen, faults>>

\* The run is given up before it begins; the request stays.
MarkRunningFails(w) ==
    /\ wpc[w] = "mark"
    /\ Fault
    /\ Become(w, "fetch")
    /\ wtask' = [wtask EXCEPT ![w] = NoTask]
    /\ UNCHANGED <<tableVars, lease, call, wseen>>

\* A task that asks for another one from inside its run: media_jobs_worker
\* asks for stream_enforcer with an UPDATE of its own, and starts no worker.
RunRequests(w, t) ==
    /\ wpc[w] = "run" /\ t # wtask[w]
    /\ row[t].enabled /\ row[t].queued = 0 /\ row[t].status # "running"
    /\ Change({t}, Requested)
    /\ UNCHANGED <<cronOn, workerVars>>

\* The task returns.  An exception out of _handle_task_success is handled as
\* the failure of the run: the next action.
MarkSuccess(w) ==
    /\ wpc[w] = "run"
    /\ Change({wtask[w]}, Succeeded)
    /\ Become(w, IF wtask[w] \in Scheduled THEN "replan" ELSE "finalize")
    /\ UNCHANGED <<cronOn, lease, call, wtask, wseen, faults>>

\* The task fails: a module that does not load, an exception, a result
\* {"status": "error"}, or a duration over its maximum.
\* _mark_task_retry_or_error reads the counter, then writes the verdict.
RunFails(w) ==
    /\ wpc[w] = "run"
    /\ wseen' = [wseen EXCEPT ![w] = row[wtask[w]].retry]
    /\ Become(w, "error")
    /\ UNCHANGED <<tableVars, lease, call, wtask, faults>>

Replan(w) ==
    /\ wpc[w] = "replan"
    /\ ChangeQuietly({wtask[w]}, Advanced)
    /\ Become(w, "finalize")
    /\ UNCHANGED <<cronOn, lease, call, wtask, wseen, faults>>

\* The error of planning the next run is swallowed.
ReplanFails(w) ==
    /\ wpc[w] = "replan"
    /\ Fault
    /\ Become(w, "finalize")
    /\ UNCHANGED <<tableVars, lease, call, wtask, wseen>>

MarkRetryOrError(w) ==
    /\ wpc[w] = "error"
    /\ LET t == wtask[w]
           attempt == wseen[w] + 1
       IN  \/ /\ attempt <= MaxRetries[t]
              /\ Change({t}, LAMBDA r : RetryPlanned(r, attempt))
           \/ /\ attempt > MaxRetries[t]
              /\ Change({t}, GivenUp)
    /\ Become(w, "finalize")
    /\ wseen' = [wseen EXCEPT ![w] = 0]
    /\ UNCHANGED <<cronOn, lease, call, wtask, faults>>

\* The error of persisting an error is swallowed.
MarkErrorFails(w) ==
    /\ wpc[w] = "error"
    /\ Fault
    /\ Become(w, "finalize")
    /\ wseen' = [wseen EXCEPT ![w] = 0]
    /\ UNCHANGED <<tableVars, lease, call, wtask>>

\* Mutant: no failsafe.
FinalizeTrusting(w) ==
    /\ wpc[w] = "finalize"
    /\ Become(w, "fetch")
    /\ wtask' = [wtask EXCEPT ![w] = NoTask]
    /\ UNCHANGED <<tableVars, lease, call, wseen, faults>>

\* _finalize_task_running_failsafe: read, then write only what is still running.
Finalize(w) ==
    /\ wpc[w] = "finalize"
    /\ IF row[wtask[w]].status = "running"
       THEN Become(w, "failsafe") /\ UNCHANGED wtask
       ELSE Become(w, "fetch") /\ wtask' = [wtask EXCEPT ![w] = NoTask]
    /\ UNCHANGED <<tableVars, lease, call, wseen, faults>>

Failsafe(w) ==
    /\ wpc[w] = "failsafe"
    /\ Change({wtask[w]}, BackToIdle)
    /\ Become(w, "fetch")
    /\ wtask' = [wtask EXCEPT ![w] = NoTask]
    /\ UNCHANGED <<cronOn, lease, call, wseen, faults>>

FinalizeFails(w) ==
    /\ wpc[w] \in {"finalize", "failsafe"}
    /\ Fault
    /\ Become(w, "fetch")
    /\ wtask' = [wtask EXCEPT ![w] = NoTask]
    /\ UNCHANGED <<tableVars, lease, call, wseen>>

\* Mutant: the worker leaves without a last look at the queue.
ReleaseOnly(w) ==
    /\ wpc[w] = "leave"
    /\ lease' = FALSE
    /\ Become(w, "off")
    /\ UNCHANGED <<tableVars, call, wtask, wseen, faults>>

\* The finally clause of _task_worker: the lease goes first, the kick follows.
ReleaseThenKick(w) ==
    /\ wpc[w] = "leave"
    /\ lease' = FALSE
    /\ Become(w, "off")
    /\ Goto(w, "kick")
    /\ UNCHANGED <<tableVars, wtask, wseen, faults>>

WorkerStep(w) ==
    \/ Fetch(w) \/ FetchNothing(w) \/ MarkRunning(w)
    \/ MarkSuccess(w) \/ Replan(w) \/ RunFails(w) \/ MarkRetryOrError(w)
    \/ Finalize(w) \/ Failsafe(w) \/ ReleaseThenKick(w)

WorkerFault(w) ==
    \/ FetchFails(w) \/ MarkRunningFails(w) \/ ReplanFails(w)
    \/ MarkErrorFails(w) \/ FinalizeFails(w)
====
