---- MODULE TaskScheduler ----
(***************************************************************************)
(* core/tasks/runtime.py and scheduler.py: the thread that starts the       *)
(* engine, recovers the table, and then wakes every 30 seconds to kick the  *)
(* worker and to enqueue what is due.  A tick reads the enabled rows once   *)
(* and decides each of them later, from that reading.                       *)
(***************************************************************************)
EXTENDS TaskWorker

CONSTANTS CheckUpdate     \* the row named check_update

ASSUME CheckUpdateType == CheckUpdate \in Task

VARIABLES
    spc,          \* where the thread is
    plan,         \* what the tick's reading says of each row still to process
    cur,          \* the row being processed
    forced        \* TaskRuntimeSignals._forced_task_runs

schedVars == <<spc, plan, cur, forced>>
engineVars == <<tableVars, workerVars, schedVars>>

SchedStage == {"start", "startCall",                    \* start()
               "recover", "recoverKick",                \* recover_state
               "loop", "loopKick", "dead",              \* loop
               "rows", "call", "firstRun"}              \* tick, _process_row

\* What _process_row will do with a row as read: nothing, take a due retry, or
\* look at the schedule of a task that has run before, or never has.
Decision == [kind : {"skip", "retry", "again", "first"}, next : Moment]
Skip == [kind |-> "skip", next |-> "null"]

SchedTypeOK ==
    /\ spc \in SchedStage
    /\ plan \in [Task -> Decision]
    /\ cur \in Task \cup {NoTask}
    /\ forced \subseteq Task

SchedInit ==
    /\ spc = "start"
    /\ plan = [t \in Task |-> Skip]
    /\ cur = NoTask
    /\ forced = {}

Proceed(stage) == spc' = stage

CallEnqueue(t) == call' = [call EXCEPT ![Sched] = [at |-> "cron", task |-> t]]
CallKick == call' = [call EXCEPT ![Sched] = [at |-> "kick", task |-> NoTask]]
Answered(answers) == call[Sched].at \in answers /\ call' = [call EXCEPT ![Sched] = NoCall]

----------------------------------------------------------------------------
\* start() and force_check_update: run before the scheduler thread exists.

StartScheduler ==
    /\ spc = "start"
    /\ LET r == row[CheckUpdate] IN
       IF cronOn /\ r.enabled /\ ~TaskIsBusy(r)
       THEN CallEnqueue(CheckUpdate) /\ Proceed("startCall")
       ELSE UNCHANGED call /\ Proceed("recover")
    /\ UNCHANGED <<tableVars, lease, wpc, wtask, wseen, faults, plan, cur, forced>>

PlanCheckUpdate ==
    /\ spc = "startCall" /\ Answered({"done"})
    /\ Change({CheckUpdate}, Advanced)
    /\ Proceed("recover")
    /\ UNCHANGED <<cronOn, lease, wpc, wtask, wseen, faults, plan, cur, forced>>

StartCallFails ==
    /\ spc = "startCall" /\ Answered({"refused", "raised"})
    /\ Proceed("recover")
    /\ UNCHANGED <<tableVars, lease, wpc, wtask, wseen, faults, plan, cur, forced>>

----------------------------------------------------------------------------
\* recover_state, then the loop.

RecoverState ==
    /\ spc = "recover"
    /\ Change({t \in Task : row[t].status \in {"running", "queued", "idle"}}, Recovered)
    /\ CallKick
    /\ Proceed("recoverKick")
    /\ UNCHANGED <<cronOn, lease, wpc, wtask, wseen, faults, plan, cur, forced>>

RecoverKickReturns ==
    /\ spc = "recoverKick"
    /\ Answered({"done", "raised"})
    /\ Proceed("loop")
    /\ UNCHANGED <<tableVars, lease, wpc, wtask, wseen, faults, plan, cur, forced>>

\* With the master switch off the loop only sleeps.
WakeUp ==
    /\ spc = "loop" /\ cronOn
    /\ CallKick
    /\ Proceed("loopKick")
    /\ UNCHANGED <<tableVars, lease, wpc, wtask, wseen, faults, plan, cur, forced>>

\* The kick is outside the loop's try: an exception ends the thread.
LoopKickRaises ==
    /\ spc = "loopKick" /\ Answered({"raised"})
    /\ Proceed("dead")
    /\ UNCHANGED <<tableVars, lease, wpc, wtask, wseen, faults, plan, cur, forced>>

----------------------------------------------------------------------------
\* tick.

Decide(t) ==
    LET r == row[t] IN
    CASE ~r.enabled -> Skip
      [] r.enabled /\ RetryIsPending(t, r) ->
            IF r.retryAt = "due" THEN [kind |-> "retry", next |-> r.nextRun] ELSE Skip
      [] OTHER ->
            IF t \notin Scheduled \/ TaskIsBusy(r) THEN Skip
            ELSE [kind |-> IF r.ran THEN "again" ELSE "first", next |-> r.nextRun]

ReadRows ==
    /\ spc = "loopKick" /\ Answered({"done"})
    /\ plan' = [t \in Task |-> Decide(t)]
    /\ Proceed("rows")
    /\ UNCHANGED <<tableVars, lease, wpc, wtask, wseen, faults, cur, forced>>

ToDo == {t \in Task : plan[t].kind # "skip"}

\* Rows come in the order of their ids.
FirstRow(t) == t \in ToDo /\ \A u \in ToDo : t <= u

TickEnds ==
    /\ spc = "rows" /\ ToDo = {}
    /\ Proceed("loop")
    /\ UNCHANGED <<tableVars, workerVars, plan, cur, forced>>

EnqueueRetry ==
    /\ spc = "rows"
    /\ \E t \in Task : FirstRow(t) /\ plan[t].kind = "retry" /\ CallEnqueue(t) /\ cur' = t
    /\ Proceed("call")
    /\ UNCHANGED <<tableVars, lease, wpc, wtask, wseen, faults, plan, forced>>

\* A row without next_run gets one: counted from last_run it may be past, from
\* now it is not.
PlanFirst ==
    /\ spc = "rows"
    /\ \E t \in Task :
          /\ FirstRow(t) /\ plan[t].kind # "retry" /\ plan[t].next = "null"
          /\ \E m \in {"later"} \cup {x \in {"due"} : plan[t].kind = "again"} :
                /\ ChangeQuietly({t}, LAMBDA r : [r EXCEPT !.nextRun = m])
                /\ plan' = [plan EXCEPT ![t].next = m]
    /\ UNCHANGED <<cronOn, workerVars, spc, cur, forced>>

\* A forced run is consumed whatever enqueue_task will answer; a task that has
\* never run is not looked up among the forced ones.
DecideRow ==
    /\ spc = "rows"
    /\ \E t \in Task :
          LET again == plan[t].kind = "again"
              due   == plan[t].next = "due" \/ (again /\ t \in forced)
          IN  /\ FirstRow(t) /\ plan[t].kind # "retry" /\ plan[t].next # "null"
              /\ forced' = IF again THEN forced \ {t} ELSE forced
              /\ \/ due /\ CallEnqueue(t) /\ Proceed("call") /\ cur' = t /\ UNCHANGED plan
                 \/ /\ ~due
                    /\ plan' = [plan EXCEPT ![t] = Skip]
                    /\ UNCHANGED <<call, spc, cur>>
    /\ UNCHANGED <<tableVars, lease, wpc, wtask, wseen, faults>>

RowDone ==
    /\ Proceed("rows")
    /\ plan' = [plan EXCEPT ![cur] = Skip]
    /\ cur' = NoTask

EnqueueRefused ==
    /\ spc = "call" /\ Answered({"refused"})
    /\ RowDone
    /\ UNCHANGED <<tableVars, lease, wpc, wtask, wseen, faults, forced>>

\* An exception ends the tick; the loop goes on.
EnqueueRaised ==
    /\ spc = "call" /\ Answered({"raised"})
    /\ Proceed("loop")
    /\ plan' = [t \in Task |-> Skip]
    /\ cur' = NoTask
    /\ UNCHANGED <<tableVars, lease, wpc, wtask, wseen, faults, forced>>

\* After a retry was enqueued, next_retry_at is cleared.
TakeRetry ==
    /\ spc = "call" /\ plan[cur].kind = "retry" /\ Answered({"done"})
    /\ Change({cur}, RetryTaken)
    /\ RowDone
    /\ UNCHANGED <<cronOn, lease, wpc, wtask, wseen, faults, forced>>

Advance ==
    /\ spc = "call" /\ plan[cur].kind # "retry" /\ Answered({"done"})
    /\ Change({cur}, Advanced)
    /\ IF plan[cur].kind = "first" THEN Proceed("firstRun") /\ UNCHANGED <<plan, cur>>
                                   ELSE RowDone
    /\ UNCHANGED <<cronOn, lease, wpc, wtask, wseen, faults, forced>>

RecordFirstRun ==
    /\ spc = "firstRun"
    /\ Change({cur} \cap {t \in Task : ~row[t].ran}, FirstRunSeen)
    /\ RowDone
    /\ UNCHANGED <<cronOn, workerVars, forced>>

----------------------------------------------------------------------------
\* A statement of the thread itself raises.  start(), recover_state (whose kick
\* is then lost) and tick are each inside a try: what was left to do waits for
\* the next tick, the table stays as the last statement left it.
SchedFault ==
    /\ Fault
    /\ \/ spc = "start" /\ UNCHANGED call /\ Proceed("recover")
       \/ spc = "startCall" /\ Answered({"done"}) /\ Proceed("recover")
       \/ spc \in {"recover", "rows", "firstRun"} /\ UNCHANGED call /\ Proceed("loop")
       \/ spc \in {"loopKick", "call"} /\ Answered({"done"}) /\ Proceed("loop")
    /\ plan' = [t \in Task |-> Skip]
    /\ cur' = NoTask
    /\ UNCHANGED <<tableVars, lease, wpc, wtask, wseen, forced>>

SchedStep ==
    \/ StartScheduler \/ PlanCheckUpdate \/ StartCallFails
    \/ RecoverState \/ RecoverKickReturns
    \/ WakeUp \/ LoopKickRaises
    \/ ReadRows \/ TickEnds \/ EnqueueRetry \/ PlanFirst \/ DecideRow
    \/ EnqueueRefused \/ EnqueueRaised \/ TakeRetry \/ Advance \/ RecordFirstRun
====
