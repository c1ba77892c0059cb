---- MODULE TaskEngineProofs ----
(***************************************************************************)
(* Theorems about TaskEngine, for every table, set of threads and bound.    *)
(* The worker lease excludes a second worker, and with it the engine        *)
(* implements the abstract queue.  And nothing the engine does by itself    *)
(* strands a request or a row: wake-ups are not lost, orphaned rows come    *)
(* from faults only, and the watchdog that collects them spares the living. *)
(***************************************************************************)
EXTENDS TaskEngine, TLAPS

----------------------------------------------------------------------------
(***************************************************************************)
(* Type correctness.  Each SET clause maps rows to rows; an UPDATE then     *)
(* keeps the type of the table.                                             *)
(***************************************************************************)
LEMMA SetClausesKeepType ==
    ASSUME NEW r \in Row
    PROVE  /\ Requested(r) \in Row /\ Started(r) \in Row /\ Succeeded(r) \in Row
           /\ \A a \in Nat : RetryPlanned(r, a) \in Row
           /\ GivenUp(r) \in Row /\ BackToIdle(r) \in Row
           /\ ManualRun(r) \in Row /\ QueueFailed(r) \in Row
           /\ RetryTaken(r) \in Row /\ Advanced(r) \in Row /\ FirstRunSeen(r) \in Row
           /\ Recovered(r) \in Row
           /\ Enabled(r) \in Row /\ Disabled(r) \in Row
           /\ AutoEnabled(r) \in Row /\ AutoDisabled(r) \in Row
           /\ NamedEnabled(r) \in Row /\ (\A on \in BOOLEAN : TelemetryWritten(r, on) \in Row)
           /\ MailDisabled(r) \in Row /\ Retired(r) \in Row
           /\ SwitchedOff(r) \in Row /\ SwitchedOn(r) \in Row
           /\ OnDemand(r) \in Row /\ Repaired(r) \in Row
<1> USE DEF Row, Status, Moment
<1>1. Requested(r) \in Row /\ Started(r) \in Row /\ Succeeded(r) \in Row
    BY DEF Requested, Started, Succeeded
<1>2. (\A a \in Nat : RetryPlanned(r, a) \in Row) /\ GivenUp(r) \in Row
    BY DEF RetryPlanned, GivenUp
<1>3. BackToIdle(r) \in Row /\ ManualRun(r) \in Row /\ QueueFailed(r) \in Row
    BY DEF BackToIdle, ManualRun, QueueFailed
<1>4. RetryTaken(r) \in Row /\ Advanced(r) \in Row /\ FirstRunSeen(r) \in Row
    BY DEF RetryTaken, Advanced, FirstRunSeen
<1>5. Recovered(r) \in Row
    BY DEF Recovered
<1>11. Enabled(r) \in Row
    BY DEF Enabled
<1>12. Disabled(r) \in Row
    BY DEF Disabled
<1>6. /\ AutoEnabled(r) \in Row /\ AutoDisabled(r) \in Row
      /\ NamedEnabled(r) \in Row /\ (\A on \in BOOLEAN : TelemetryWritten(r, on) \in Row)
    BY DEF AutoEnabled, AutoDisabled, NamedEnabled, TelemetryWritten
<1>7. MailDisabled(r) \in Row /\ Retired(r) \in Row
    BY DEF MailDisabled, Retired
<1>8. SwitchedOff(r) \in Row
    BY DEF SwitchedOff, Flag
<1>9. SwitchedOn(r) \in Row
    BY DEF SwitchedOn
<1>10. OnDemand(r) \in Row /\ Repaired(r) \in Row
    BY DEF OnDemand, Repaired
<1> HIDE DEF Row, Status, Moment
<1> QED
    BY <1>1, <1>2, <1>3, <1>4, <1>5, <1>6, <1>7, <1>8, <1>9, <1>10, <1>11, <1>12, ZenonT(60)

CallsTyped == call \in [Thread -> [at : Stage, task : Task \cup {NoTask}]]

\* A worker past its fetch has fetched a task: what makes the type inductive.
WorkHasTask == \A w \in Worker : wpc[w] \in {"mark"} \cup Executing => wtask[w] \in Task
TypeInv == TypeOK /\ WorkHasTask

LEMMA FreshKeepsType ==
    ASSUME NEW r \in Row
    PROVE  [r EXCEPT !.stale = FALSE] \in Row
BY DEF Row

LEMMA InitType == Init => TypeInv
<1> SUFFICES ASSUME Init PROVE TypeInv
    OBVIOUS
<1> USE DEF Init
<1>1. TableTypeOK
    <2>1. \A on \in BOOLEAN : SeedRow(on) \in Row
        BY DEF SeedRow, Row, Status, Moment
    <2> QED
        BY <2>1 DEF TableInit, TableTypeOK
<1>2. WorkerTypeOK
    <2>1. NoCall \in [at : Stage, task : Task \cup {NoTask}]
        BY DEF NoCall, Stage
    <2>2. faults \in 0..MaxFaults
        BY MaxFaultsType DEF WorkerInit
    <2> QED
        BY <2>1, <2>2 DEF WorkerInit, WorkerTypeOK, WorkerStage
<1>3. SchedTypeOK
    BY DEF SchedInit, SchedTypeOK, SchedStage, Decision, Skip, Moment
<1>4. EnvTypeOK
    BY BoundsType DEF EnvTypeOK, NoForm
<1>5. WorkHasTask
    BY DEF WorkHasTask, WorkerInit, Executing
<1> QED
    BY <1>1, <1>2, <1>3, <1>4, <1>5 DEF TypeOK, TypeInv

LEMMA CallKeepsType ==
    ASSUME TypeOK, NEW th \in Thread, CallStep(th) \/ CallFault(th) \/ RequestStep(th)
    PROVE  TableTypeOK' /\ WorkerTypeOK'
<1> USE DEF TypeOK, TableTypeOK, WorkerTypeOK, tableVars
<1>1. CASE ReadCron(th)
    BY <1>1 DEF ReadCron, Goto, Return, NoCall, Stage
<1>2. CASE ReadEnabled(th)
    BY <1>2 DEF ReadEnabled, Goto, Return, NoCall, Stage
<1>3. CASE Request(th)
    <2>1. WorkerTypeOK'
        BY <1>3 DEF Request, Goto, Stage
    <2>2. TableTypeOK'
        BY <1>3, SetClausesKeepType, FreshKeepsType DEF Request, Change, Touch
    <2> QED BY <2>1, <2>2
<1>4. CASE LookAtLease(th) \/ CountPending(th)
    BY <1>4 DEF LookAtLease, CountPending, Goto, Return, NoCall, Stage
<1>5. CASE Claim(th)
    BY <1>5 DEF Claim, Goto, Return, NoCall, Stage
<1>6. CASE StartThread(th)
    BY <1>6 DEF StartThread, Return, NoCall, Stage, WorkerStage, HoldsLease
<1>7. CASE CallFault(th)
    <2>1. faults' \in 0..MaxFaults
        BY <1>7, MaxFaultsType DEF CallFault, EnqueueRaises, CountFails, StartFails, Fault
    <2>2. call' \in [Thread -> [at : Stage, task : Task \cup {NoTask}]]
        BY <1>7 DEF CallFault, EnqueueRaises, CountFails, StartFails, Raise, Return, NoCall, Stage
    <2> QED
        BY <1>7, <2>1, <2>2 DEF CallFault, EnqueueRaises, CountFails, StartFails
<1>8. CASE MarkManualRun(th) \/ MarkQueueFailed(th)
    <2>1. WorkerTypeOK'
        BY <1>8 DEF MarkManualRun, MarkQueueFailed, Goto, NoCall, Stage
    <2>2. TableTypeOK'
        BY <1>8, SetClausesKeepType, FreshKeepsType DEF MarkManualRun, MarkQueueFailed, Change, Touch
    <2> QED BY <2>1, <2>2
<1>9. CASE EnableToWake(th)
    <2>1. WorkerTypeOK'
        BY <1>9 DEF EnableToWake, Goto, Return, NoCall, Stage
    <2>2. TableTypeOK'
        BY <1>9, SetClausesKeepType, FreshKeepsType DEF EnableToWake, Change, Touch
    <2> QED BY <2>1, <2>2
<1> QED
    BY <1>1, <1>2, <1>3, <1>4, <1>5, <1>6, <1>7, <1>8, <1>9 DEF CallStep, RequestStep

LEMMA FaultKeepsType ==
    ASSUME WorkerTypeOK, Fault
    PROVE  faults' \in 0..MaxFaults
BY MaxFaultsType DEF WorkerTypeOK, Fault

LEMMA WorkerKeepsType ==
    ASSUME TypeInv, NEW w \in Worker, WorkerStep(w) \/ WorkerFault(w)
    PROVE  TableTypeOK' /\ WorkerTypeOK'
<1> USE DEF TypeInv, TypeOK, TableTypeOK, WorkerTypeOK, tableVars, Become
<1> w \in Thread
    BY DEF Thread
<1>a. /\ {"fetch", "mark", "leave", "off"} \cup Executing = WorkerStage
      /\ Executing = {"run", "replan", "error", "finalize", "failsafe"}
    BY DEF WorkerStage, HoldsLease, Executing
<1>1. CASE Fetch(w) \/ FetchNothing(w)
    BY <1>1, <1>a DEF Fetch, FetchNothing
<1>2. CASE WorkerFault(w)
    <2>1. faults' \in 0..MaxFaults
        BY <1>2, FaultKeepsType DEF WorkerFault, FetchFails, MarkRunningFails, ReplanFails, MarkErrorFails, FinalizeFails
    <2> QED
        BY <1>2, <1>a, <2>1 DEF WorkerFault, FetchFails, MarkRunningFails, ReplanFails, MarkErrorFails, FinalizeFails
<1>3. CASE MarkRunning(w)
    <2>1. WorkerTypeOK'
        BY <1>3, <1>a DEF MarkRunning
    <2>2. TableTypeOK'
        BY <1>3, SetClausesKeepType, FreshKeepsType DEF MarkRunning, Change, Touch
    <2> QED BY <2>1, <2>2
<1>4. CASE MarkSuccess(w)
    <2>1. WorkerTypeOK'
        BY <1>4, <1>a DEF MarkSuccess
    <2>2. TableTypeOK'
        BY <1>4, SetClausesKeepType, FreshKeepsType DEF MarkSuccess, Change, Touch
    <2> QED BY <2>1, <2>2
<1>5. CASE Replan(w)
    <2>1. WorkerTypeOK'
        BY <1>5, <1>a DEF Replan
    <2>2. TableTypeOK'
        BY <1>5, SetClausesKeepType DEF Replan, ChangeQuietly
    <2> QED BY <2>1, <2>2
<1>6. CASE RunFails(w)
    <2>1. row[wtask[w]].retry \in Nat
        BY <1>6 DEF RunFails, WorkHasTask, Executing, Row
    <2> QED
        BY <1>6, <1>a, <2>1 DEF RunFails
<1>7. CASE MarkRetryOrError(w)
    <2>1. WorkerTypeOK'
        BY <1>7, <1>a DEF MarkRetryOrError
    <2>2. wseen[w] + 1 \in Nat
        OBVIOUS
    <2>3. \A r \in Row : RetryPlanned(r, wseen[w] + 1) \in Row /\ GivenUp(r) \in Row
        BY <2>2, SetClausesKeepType
    <2>4. TableTypeOK'
        BY <1>7, <2>3, FreshKeepsType DEF MarkRetryOrError, Change, Touch
    <2> QED BY <2>1, <2>4
<1>8. CASE Finalize(w)
    BY <1>8, <1>a DEF Finalize
<1>9. CASE Failsafe(w)
    <2>1. WorkerTypeOK'
        BY <1>9, <1>a DEF Failsafe
    <2>2. TableTypeOK'
        BY <1>9, SetClausesKeepType, FreshKeepsType DEF Failsafe, Change, Touch
    <2> QED BY <2>1, <2>2
<1>10. CASE ReleaseThenKick(w)
    BY <1>10, <1>a DEF ReleaseThenKick, Goto, Stage
<1> QED
    BY <1>1, <1>2, <1>3, <1>4, <1>5, <1>6, <1>7, <1>8, <1>9, <1>10 DEF WorkerStep

\* Another task requested by a run, and the two callers' requests.
LEMMA AskKeepsType ==
    ASSUME TypeOK, NEW th \in Thread, NEW t \in Task, Ask(th, t)
    PROVE  TypeOK'
<1> USE DEF TypeOK, TableTypeOK, WorkerTypeOK, SchedTypeOK, EnvTypeOK,
            tableVars, workerVars, schedVars, envVars
<1>1. CASE th \in Page /\ RunNow(th, t)
    BY <1>1 DEF Ask, RunNow, Stage
<1>2. CASE th \in Client /\ WakeTask(th, t)
    <2>1. (CASE row[t].enabled -> "cron"
             [] ~row[t].enabled /\ (row[t].status = "running" \/ row[t].queued > 0) -> "enable"
             [] OTHER -> "wake") \in Stage
        BY DEF Stage
    <2> QED
        BY <1>2, <2>1 DEF Ask, WakeTask
<1>3. CASE th \in Client /\ EnqueueByName(th, t)
    BY <1>3 DEF Ask, EnqueueByName, Stage
<1>4. CASE th \in Worker /\ RunRequests(th, t)
    BY <1>4, SetClausesKeepType, FreshKeepsType DEF Ask, RunRequests, Change, Touch
<1> QED
    BY <1>1, <1>2, <1>3, <1>4 DEF Ask

LEMMA ScheduleKeepsType ==
    ASSUME TypeOK, SchedStep \/ SchedFault
    PROVE  TableTypeOK' /\ WorkerTypeOK' /\ SchedTypeOK'
<1> USE DEF TypeOK, TableTypeOK, WorkerTypeOK, SchedTypeOK, SchedStage, CallsTyped, tableVars, Proceed
<1>a. /\ Sched \in Thread
      /\ Skip \in Decision
      /\ NoCall \in [at : Stage, task : Task \cup {NoTask}]
    BY DEF Thread, Skip, Decision, Moment, NoCall, Stage
<1>b. ASSUME NEW t \in Task \cup {NoTask}, CallEnqueue(t) PROVE CallsTyped'
    BY <1>a, <1>b DEF CallEnqueue, Stage
<1>c. CallKick => CallsTyped'
    BY <1>a DEF CallKick, Stage
<1>d. \A answers : Answered(answers) => CallsTyped'
    BY <1>a DEF Answered
<1>1. CASE StartScheduler
    BY <1>1, <1>b, CheckUpdateType DEF StartScheduler
<1>2. CASE PlanCheckUpdate
    <2>1. TableTypeOK'
        BY <1>2, SetClausesKeepType, FreshKeepsType DEF PlanCheckUpdate, Change, Touch
    <2> QED
        BY <1>2, <1>d, <2>1 DEF PlanCheckUpdate
<1>3. CASE StartCallFails \/ RecoverKickReturns \/ LoopKickRaises
    BY <1>3, <1>d DEF StartCallFails, RecoverKickReturns, LoopKickRaises
<1>4. CASE RecoverState
    <2>1. TableTypeOK'
        BY <1>4, SetClausesKeepType, FreshKeepsType DEF RecoverState, Change, Touch
    <2> QED
        BY <1>4, <1>c, <2>1 DEF RecoverState
<1>5. CASE WakeUp
    BY <1>5, <1>c DEF WakeUp
<1>6. CASE ReadRows
    <2>1. ASSUME NEW t \in Task PROVE Decide(t) \in Decision
        <3>1. row[t].nextRun \in Moment
            BY DEF Row
        <3>2. \A k \in {"retry", "again", "first"} :
                 [kind |-> k, next |-> row[t].nextRun] \in Decision
            BY <3>1 DEF Decision
        <3> QED
            BY <1>a, <3>2 DEF Decide
    <2>2. SchedTypeOK'
        BY <1>6, <2>1 DEF ReadRows
    <2> QED
        BY <1>6, <1>d, <2>2 DEF ReadRows
<1>7. CASE TickEnds
    BY <1>7 DEF TickEnds, workerVars
<1>8. CASE EnqueueRetry
    BY <1>8, <1>b DEF EnqueueRetry
<1>9. CASE PlanFirst
    <2>1. PICK t \in Task, m \in {"later", "due"} :
             /\ row' = [u \in Task |-> IF u \in {t} THEN [row[u] EXCEPT !.nextRun = m] ELSE row[u]]
             /\ older' = older
             /\ plan' = [plan EXCEPT ![t].next = m]
        BY <1>9 DEF PlanFirst, ChangeQuietly
    <2>2. \A r \in Row : [r EXCEPT !.nextRun = m] \in Row
        BY DEF Row, Moment
    <2>3. TableTypeOK'
        BY <1>9, <2>1, <2>2 DEF PlanFirst
    <2>4. SchedTypeOK'
        BY <1>9, <2>1 DEF PlanFirst, Decision, Moment
    <2> QED
        BY <1>9, <2>3, <2>4 DEF PlanFirst, workerVars
<1>10. CASE DecideRow
    BY <1>10, <1>a, <1>b DEF DecideRow
<1>11. CASE EnqueueRefused \/ EnqueueRaised
    BY <1>11, <1>a, <1>d DEF EnqueueRefused, EnqueueRaised, RowDone
<1>12. CASE TakeRetry
    <2>1. TableTypeOK'
        BY <1>12, SetClausesKeepType, FreshKeepsType DEF TakeRetry, Change, Touch
    <2> QED
        BY <1>12, <1>a, <1>d, <2>1 DEF TakeRetry, RowDone
<1>13. CASE Advance
    <2>1. TableTypeOK'
        BY <1>13, SetClausesKeepType, FreshKeepsType DEF Advance, Change, Touch
    <2> QED
        BY <1>13, <1>a, <1>d, <2>1 DEF Advance, RowDone
<1>14. CASE RecordFirstRun
    <2>1. TableTypeOK'
        BY <1>14, SetClausesKeepType, FreshKeepsType DEF RecordFirstRun, Change, Touch
    <2> QED
        BY <1>14, <1>a, <2>1 DEF RecordFirstRun, RowDone, workerVars
<1>15. CASE SchedFault
    <2>1. UNCHANGED call \/ Answered({"done"})
        BY <1>15 DEF SchedFault
    <2>2. CallsTyped'
        BY <1>d, <2>1
    <2>3. SchedTypeOK'
        BY <1>15, <1>a DEF SchedFault
    <2> QED
        BY <1>15, <2>2, <2>3, MaxFaultsType DEF SchedFault, Fault
<1> QED
    BY <1>1, <1>2, <1>3, <1>4, <1>5, <1>6, <1>7, <1>8, <1>9, <1>10,
       <1>11, <1>12, <1>13, <1>14, <1>15 DEF SchedStep

LEMMA AdminKeepsType ==
    ASSUME TypeOK, NEW t \in Task, AdminStep(t)
    PROVE  TypeOK'
<1> USE DEF TypeOK, TableTypeOK, WorkerTypeOK, SchedTypeOK, EnvTypeOK,
            tableVars, workerVars, schedVars, envVars
<1>a. Counted => changes' \in 0..MaxChanges
    BY BoundsType DEF Counted
<1>1. CASE SetEnabled(t)
    <2>1. TableTypeOK'
        BY <1>1, SetClausesKeepType, FreshKeepsType DEF SetEnabled, Change, Touch
    <2> QED
        BY <1>1, <1>a, <2>1 DEF SetEnabled
<1>2. CASE SetForAutoMode(t)
    <2>1. TableTypeOK'
        BY <1>2, SetClausesKeepType, FreshKeepsType DEF SetForAutoMode, Change, Touch
    <2> QED
        BY <1>2, <1>a, <2>1 DEF SetForAutoMode
<1>3. CASE ForceRun(t)
    BY <1>3, <1>a DEF ForceRun
<1>4. ASSUME NEW w \in Worker, RunDisables(w, t) PROVE TypeOK'
    <2>1. TableTypeOK'
        BY <1>4, SetClausesKeepType, FreshKeepsType DEF RunDisables, Change, Touch, ChangeQuietly
    <2> QED
        BY <1>4, <1>a, <2>1 DEF RunDisables
<1> QED
    BY <1>1, <1>2, <1>3, <1>4 DEF AdminStep

LEMMA TimeKeepsType ==
    ASSUME TypeOK, NEW t \in Task, Clock(t) \/ Ageing(t)
    PROVE  TypeOK'
<1>1. \A r \in Row : /\ [r EXCEPT !.retryAt = "due"] \in Row
                     /\ [r EXCEPT !.nextRun = "due"] \in Row
                     /\ [r EXCEPT !.stale = TRUE] \in Row
    BY DEF Row, Moment
<1>2. CASE Clock(t)
    <2>1. TableTypeOK'
        <3>1. CASE RetryFallsDue(t)
            BY <1>1, <3>1 DEF TypeOK, TableTypeOK, RetryFallsDue
        <3>2. CASE RunFallsDue(t)
            BY <1>1, <3>2 DEF TypeOK, TableTypeOK, RunFallsDue
        <3> QED
            BY <1>2, <3>1, <3>2 DEF Clock
    <2> QED
        BY <1>2, <2>1 DEF TypeOK, WorkerTypeOK, SchedTypeOK, EnvTypeOK, Clock, workerVars, schedVars, envVars
<1>3. CASE Ageing(t)
    <2>1. TableTypeOK'
        BY <1>1, <1>3 DEF TypeOK, TableTypeOK, Ageing, GrowsStale
    <2> QED
        BY <1>3, <2>1 DEF TypeOK, WorkerTypeOK, SchedTypeOK, EnvTypeOK, Ageing, workerVars, schedVars, envVars
<1> QED
    BY <1>2, <1>3

LEMMA SettingsKeepType ==
    ASSUME TypeOK, SaveSettings \/ SettingsStep
    PROVE  TypeOK'
<1> USE DEF TypeOK, TableTypeOK, WorkerTypeOK, SchedTypeOK, EnvTypeOK,
            tableVars, workerVars, schedVars, envVars
<1>1. CASE SaveSettings
    BY <1>1, BoundsType, ExpiryTaskType, TelemetryType DEF SaveSettings, Counted
<1>2. CASE ApplySwitch
    <2>1. TableTypeOK'
        BY <1>2, SetClausesKeepType, FreshKeepsType DEF ApplySwitch, Change, Touch
    <2> QED
        BY <1>2, <2>1 DEF ApplySwitch
<1>3. CASE ForceWakened
    BY <1>3, WakenedType DEF ForceWakened
<1>4. CASE SyncExpiry
    <2>1. PICK t \in form.todo :
             IF ~cronOn THEN ChangeQuietly({t}, LAMBDA r : Remembered(r, t \in form.wanted))
             ELSE IF t \in form.wanted THEN Change({t}, Enabled) ELSE Change({t}, Disabled)
        BY <1>4 DEF SyncExpiry
    <2>2. TableTypeOK'
        <3>1. CASE ~cronOn
            <4>1. \A r \in Row : Remembered(r, t \in form.wanted) \in Row
                BY DEF Remembered, Flag, Row
            <4>2. row' = [u \in Task |-> IF u \in {t} THEN Remembered(row[u], t \in form.wanted)
                                                     ELSE row[u]]
                BY <2>1, <3>1 DEF ChangeQuietly
            <4>3. older' = older
                BY <2>1, <3>1 DEF ChangeQuietly
            <4> QED
                BY <1>4, <4>1, <4>2, <4>3 DEF SyncExpiry
        <3>2. CASE cronOn
            BY <1>4, <2>1, <3>2, SetClausesKeepType, FreshKeepsType DEF SyncExpiry, Change, Touch
        <3> QED
            BY <3>1, <3>2
    <2>3. EnvTypeOK'
        BY <1>4 DEF SyncExpiry
    <2> QED
        BY <1>4, <2>2, <2>3 DEF SyncExpiry
<1>5. CASE SaveEnds
    BY <1>5 DEF SaveEnds, NoForm, engineVars
<1>6. CASE WriteTelemetry
    <2>1. row' = [u \in Task |->
                     IF u \in Telemetry
                     THEN [TelemetryWritten(row[u], form.telemetry # {}) EXCEPT !.stale = FALSE]
                     ELSE row[u]]
        BY <1>6 DEF WriteTelemetry, Change
    <2>2. older' \in SUBSET (Task \X Task)
        BY <1>6 DEF WriteTelemetry, Change, Touch
    <2>3. TableTypeOK'
        BY <1>6, <2>1, <2>2, SetClausesKeepType, FreshKeepsType DEF WriteTelemetry
    <2> QED
        BY <1>6, <2>3 DEF WriteTelemetry
<1> QED
    BY <1>1, <1>2, <1>3, <1>4, <1>5, <1>6 DEF SettingsStep

LEMMA WatchdogKeepsType ==
    ASSUME TypeOK, WatchdogLooks \/ WatchdogResets
    PROVE  TypeOK'
<1> USE DEF TypeOK, TableTypeOK, WorkerTypeOK, SchedTypeOK, EnvTypeOK,
            engineVars, tableVars, workerVars, schedVars
<1>1. CASE WatchdogLooks
    BY <1>1 DEF WatchdogLooks
<1>2. CASE WatchdogResets
    <2>1. TableTypeOK'
        BY <1>2, SetClausesKeepType, FreshKeepsType DEF WatchdogResets, Change, Touch
    <2> QED
        BY <1>2, <2>1 DEF WatchdogResets
<1> QED
    BY <1>1, <1>2

LEMMA BootstrapKeepsType ==
    ASSUME TableTypeOK, Bootstrap, UNCHANGED cronOn
    PROVE  TableTypeOK'
<1> USE DEF TableTypeOK
<1>1. ASSUME NEW t \in Task PROVE Seeded(t) \in Row
    BY SetClausesKeepType, FreshKeepsType DEF Seeded
<1>2. ASSUME NEW t \in Task PROVE Enforced(t) \in Row
    BY <1>1, SetClausesKeepType, FreshKeepsType DEF Enforced
<1>3. ASSUME NEW t \in Task PROVE [Repaired(Enforced(t)) EXCEPT !.stale = FALSE] \in Row
    BY <1>2, SetClausesKeepType, FreshKeepsType
<1> QED
    BY <1>2, <1>3 DEF Bootstrap, Touch

LEMMA RestartKeepsType ==
    ASSUME TypeOK, Restart
    PROVE  TypeInv'
<1>1. NoCall \in [at : Stage, task : Task \cup {NoTask}]
    BY DEF NoCall, Stage
<1>2. Skip \in Decision
    BY DEF Skip, Decision, Moment
<1>3. TableTypeOK' /\ EnvTypeOK'
    <2>1. TableTypeOK'
        BY BootstrapKeepsType DEF Restart, TypeOK
    <2> QED
        BY <2>1, BoundsType DEF Restart, TypeOK, EnvTypeOK, NoForm
<1>4. WorkerTypeOK'
    BY <1>1 DEF Restart, TypeOK, WorkerTypeOK, WorkerStage
<1>5. SchedTypeOK'
    BY <1>2 DEF Restart, SchedTypeOK, SchedStage
<1>6. WorkHasTask'
    BY DEF Restart, WorkHasTask, Executing
<1> QED
    BY <1>3, <1>4, <1>5, <1>6 DEF TypeInv, TypeOK

LEMMA WorkerKeepsWork ==
    ASSUME TypeInv, NEW w \in Worker, WorkerStep(w) \/ WorkerFault(w)
    PROVE  WorkHasTask'
<1> USE DEF TypeInv, TypeOK, WorkerTypeOK, WorkHasTask, Executing, Become
<1>1. CASE Fetch(w) \/ FetchNothing(w) \/ MarkRunning(w) \/ MarkSuccess(w) \/ Replan(w)
    BY <1>1 DEF Fetch, FetchNothing, MarkRunning, MarkSuccess, Replan
<1>2. CASE RunFails(w) \/ MarkRetryOrError(w) \/ Finalize(w) \/ Failsafe(w) \/ ReleaseThenKick(w)
    BY <1>2 DEF RunFails, MarkRetryOrError, Finalize, Failsafe, ReleaseThenKick
<1>3. CASE WorkerFault(w)
    BY <1>3 DEF WorkerFault, FetchFails, MarkRunningFails, ReplanFails, MarkErrorFails, FinalizeFails
<1> QED
    BY <1>1, <1>2, <1>3 DEF WorkerStep

LEMMA CallKeepsWork ==
    ASSUME TypeInv, NEW th \in Thread, CallStep(th) \/ CallFault(th) \/ RequestStep(th)
    PROVE  WorkHasTask'
<1> USE DEF TypeInv, TypeOK, WorkerTypeOK, WorkHasTask, Executing
<1>1. CASE StartThread(th)
    BY <1>1 DEF StartThread
<1>2. CASE CallFault(th)
    BY <1>2 DEF CallFault, EnqueueRaises, CountFails, StartFails
<1>3. CASE RequestStep(th)
    BY <1>3 DEF RequestStep, MarkManualRun, MarkQueueFailed, EnableToWake
<1>4. CASE ReadCron(th) \/ ReadEnabled(th) \/ Request(th)
    BY <1>4 DEF ReadCron, ReadEnabled, Request
<1>5. CASE LookAtLease(th) \/ CountPending(th) \/ Claim(th)
    BY <1>5 DEF LookAtLease, CountPending, Claim
<1> QED
    BY <1>1, <1>2, <1>3, <1>4, <1>5 DEF CallStep

LEMMA WorkersUntouched ==
    ASSUME WorkHasTask, UNCHANGED <<wpc, wtask>>
    PROVE  WorkHasTask'
BY DEF WorkHasTask

LEMMA SchedulerLeavesWorkers ==
    ASSUME SchedStep \/ SchedFault
    PROVE  UNCHANGED <<lease, wpc, wtask>>
<1>1. CASE StartScheduler \/ PlanCheckUpdate \/ StartCallFails \/ RecoverState \/ RecoverKickReturns
    BY <1>1 DEF StartScheduler, PlanCheckUpdate, StartCallFails, RecoverState, RecoverKickReturns
<1>2. CASE WakeUp \/ LoopKickRaises \/ ReadRows \/ TickEnds \/ EnqueueRetry \/ PlanFirst
    BY <1>2 DEF WakeUp, LoopKickRaises, ReadRows, TickEnds, EnqueueRetry, PlanFirst, workerVars
<1>3. CASE DecideRow \/ EnqueueRefused \/ EnqueueRaised \/ TakeRetry \/ Advance \/ RecordFirstRun
    BY <1>3 DEF DecideRow, EnqueueRefused, EnqueueRaised, TakeRetry, Advance, RecordFirstRun, workerVars
<1>4. CASE SchedFault
    BY <1>4 DEF SchedFault
<1> QED
    BY <1>1, <1>2, <1>3, <1>4 DEF SchedStep

\* The steps of nobody but the environment: threads and lease stay as they are.
EnvStep ==
    \/ WatchdogLooks \/ WatchdogResets
    \/ SaveSettings \/ SettingsStep
    \/ \E t \in Task : AdminStep(t) \/ Clock(t) \/ Ageing(t)

LEMMA EnvLeavesWorkers ==
    ASSUME EnvStep
    PROVE  UNCHANGED workerVars
<1>1. CASE WatchdogLooks \/ WatchdogResets
    BY <1>1 DEF WatchdogLooks, WatchdogResets, engineVars
<1>2. CASE SaveSettings \/ SettingsStep
    BY <1>2 DEF SaveSettings, SettingsStep, WriteTelemetry, ApplySwitch, ForceWakened, SyncExpiry, SaveEnds, engineVars
<1>3. ASSUME NEW t \in Task, AdminStep(t) PROVE UNCHANGED workerVars
    BY <1>3 DEF AdminStep, SetEnabled, SetForAutoMode, ForceRun, RunDisables
<1>4. ASSUME NEW t \in Task, Clock(t) \/ Ageing(t) PROVE UNCHANGED workerVars
    BY <1>4 DEF Clock, Ageing
<1> QED
    BY <1>1, <1>2, <1>3, <1>4 DEF EnvStep

LEMMA NextType == TypeInv /\ [Next]_vars => TypeInv'
<1> SUFFICES ASSUME TypeInv, [Next]_vars PROVE TypeInv'
    OBVIOUS
<1> USE DEF TypeInv
<1>1. ASSUME NEW th \in Thread, Engine(th) PROVE TypeInv'
    BY <1>1, CallKeepsType, CallKeepsWork
       DEF Engine, TypeOK, SchedTypeOK, EnvTypeOK, schedVars, envVars
<1>2. ASSUME NEW w \in Worker, Drain(w) PROVE TypeInv'
    BY <1>2, WorkerKeepsType, WorkerKeepsWork
       DEF Drain, TypeOK, SchedTypeOK, EnvTypeOK, schedVars, envVars
<1>3. ASSUME NEW th \in Thread, NEW t \in Task, Ask(th, t) PROVE TypeInv'
    <2>1. UNCHANGED <<wpc, wtask>>
        BY <1>3 DEF Ask, RunNow, WakeTask, EnqueueByName, RunRequests, workerVars
    <2> QED
        BY <1>3, <2>1, AskKeepsType, WorkersUntouched
<1>4. CASE Schedule
    BY <1>4, ScheduleKeepsType, SchedulerLeavesWorkers, WorkersUntouched
       DEF Schedule, TypeOK, EnvTypeOK, envVars
<1>5. CASE EnvStep
    <2>1. TypeOK'
        BY <1>5, WatchdogKeepsType, SettingsKeepType, AdminKeepsType, TimeKeepsType DEF EnvStep
    <2> QED
        BY <1>5, <2>1, EnvLeavesWorkers, WorkersUntouched DEF workerVars
<1>6. CASE Restart
    BY <1>6, RestartKeepsType
<1>7. CASE UNCHANGED vars
    BY <1>7 DEF TypeOK, TableTypeOK, WorkerTypeOK, SchedTypeOK, EnvTypeOK, WorkHasTask,
                vars, engineVars, tableVars, workerVars, schedVars, envVars
<1> QED
    BY <1>1, <1>2, <1>3, <1>4, <1>5, <1>6, <1>7 DEF Next, EnvStep

(***************************************************************************)
(* Every variable keeps its type: in particular no order of requests makes  *)
(* a row count more than one outstanding request (queued_count).            *)
(***************************************************************************)
THEOREM TypeCorrect == Spec => []TypeOK
<1>1. TypeInv => TypeOK
    BY DEF TypeInv
<1> QED
    BY InitType, NextType, <1>1, PTL DEF Spec

----------------------------------------------------------------------------
(***************************************************************************)
(* The lease is held exactly on behalf of one thread: a worker, or a thread *)
(* about to start one.                                                      *)
(***************************************************************************)
Starting(th) == call[th].at = "start"
Holding(w) == wpc[w] \in HoldsLease

LeaseInv ==
    /\ \A w \in Worker : Holding(w) => lease
    /\ \A th \in Thread : Starting(th) => lease
    /\ \A w \in Worker, th \in Thread : ~(Holding(w) /\ Starting(th))
    /\ \A s, th \in Thread : Starting(s) /\ Starting(th) => s = th
    /\ OneWorker

LEMMA LeaseInit == Init => LeaseInv
BY DEF Init, WorkerInit, NoCall, LeaseInv, Starting, Holding, HoldsLease, Executing, OneWorker

\* Steps that neither take nor give back the lease, nor begin to hold it.
LEMMA LeaseKept ==
    ASSUME LeaseInv, lease' = lease,
           \A th \in Thread : Starting(th)' => Starting(th),
           \A w \in Worker : Holding(w)' => Holding(w)
    PROVE  LeaseInv'
BY DEF LeaseInv, OneWorker, Holding

LEMMA CallKeepsLease ==
    ASSUME TypeInv, LeaseInv, NEW th \in Thread,
           CallStep(th) \/ CallFault(th) \/ RequestStep(th)
    PROVE  LeaseInv'
<1> USE DEF TypeInv, TypeOK, WorkerTypeOK
<1>1. CASE Claim(th)
    BY <1>1 DEF Claim, Goto, Return, NoCall, LeaseInv, Starting, Holding, OneWorker
<1>2. CASE StartThread(th)
    <2>1. PICK w \in Worker : FreeSlot(w, th) /\ wpc' = [wpc EXCEPT ![w] = "fetch"]
        BY <1>2 DEF StartThread
    <2>2. Starting(th) /\ ~Starting(th)' /\ (\A s \in Thread \ {th} : Starting(s)' = Starting(s))
        BY <1>2 DEF StartThread, Return, NoCall, Starting
    <2>3. \A v \in Worker : ~Holding(v)
        BY <2>2 DEF LeaseInv
    <2>4. \A v \in Worker : Holding(v)' => v = w
        BY <2>1, <2>3 DEF Holding, HoldsLease, Executing
    <2> QED
        BY <1>2, <2>2, <2>3, <2>4 DEF StartThread, LeaseInv, OneWorker, Holding
<1>3. CASE StartFails(th)
    <2>1. Starting(th) /\ ~Starting(th)' /\ (\A s \in Thread \ {th} : Starting(s)' = Starting(s))
        BY <1>3 DEF StartFails, Raise, NoCall, Starting
    <2>2. \A w \in Worker : ~Holding(w)
        BY <2>1 DEF LeaseInv
    <2>3. \A w \in Worker : ~Holding(w)'
        BY <1>3, <2>2 DEF StartFails, Holding
    <2> QED
        BY <2>1, <2>3 DEF LeaseInv, OneWorker, Holding
<1>4. CASE ReadCron(th) \/ ReadEnabled(th) \/ Request(th)
    BY <1>4, LeaseKept DEF ReadCron, ReadEnabled, Request, Goto, Return, NoCall, Starting, Holding
<1>5. CASE LookAtLease(th) \/ CountPending(th) \/ CountFails(th) \/ EnqueueRaises(th)
    BY <1>5, LeaseKept
       DEF LookAtLease, CountPending, CountFails, EnqueueRaises, Goto, Return, Raise, NoCall, Starting, Holding
<1>6. CASE RequestStep(th)
    BY <1>6, LeaseKept
       DEF RequestStep, MarkManualRun, MarkQueueFailed, EnableToWake, Goto, Return, NoCall, Starting, Holding
<1> QED
    BY <1>1, <1>2, <1>3, <1>4, <1>5, <1>6 DEF CallStep, CallFault

LEMMA WorkerKeepsLease ==
    ASSUME TypeInv, LeaseInv, NEW w \in Worker, WorkerStep(w) \/ WorkerFault(w)
    PROVE  LeaseInv'
<1> USE DEF TypeInv, TypeOK, WorkerTypeOK, Become, HoldsLease, Executing
<1> w \in Thread
    BY DEF Thread
<1>1. CASE ReleaseThenKick(w)
    BY <1>1 DEF ReleaseThenKick, Goto, LeaseInv, Starting, Holding, OneWorker
<1>2. CASE Fetch(w) \/ FetchNothing(w) \/ MarkRunning(w) \/ MarkSuccess(w) \/ Replan(w)
    BY <1>2, LeaseKept DEF Fetch, FetchNothing, MarkRunning, MarkSuccess, Replan, Starting, Holding
<1>3. CASE RunFails(w) \/ MarkRetryOrError(w) \/ Finalize(w) \/ Failsafe(w)
    BY <1>3, LeaseKept DEF RunFails, MarkRetryOrError, Finalize, Failsafe, Starting, Holding
<1>4. CASE WorkerFault(w)
    BY <1>4, LeaseKept DEF WorkerFault, FetchFails, MarkRunningFails, ReplanFails, MarkErrorFails,
                           FinalizeFails, Starting, Holding
<1> QED
    BY <1>1, <1>2, <1>3, <1>4 DEF WorkerStep

LEMMA AskKeepsLease ==
    ASSUME TypeInv, LeaseInv, NEW th \in Thread, NEW t \in Task, Ask(th, t)
    PROVE  LeaseInv'
<1> USE DEF TypeInv, TypeOK, WorkerTypeOK, Starting, Holding
<1>1. CASE th \in Page /\ RunNow(th, t)
    BY <1>1, LeaseKept DEF RunNow
<1>2. CASE th \in Client /\ (WakeTask(th, t) \/ EnqueueByName(th, t))
    BY <1>2, LeaseKept DEF WakeTask, EnqueueByName
<1>3. CASE th \in Worker /\ RunRequests(th, t)
    BY <1>3, LeaseKept DEF RunRequests, workerVars
<1> QED
    BY <1>1, <1>2, <1>3 DEF Ask

LEMMA ScheduleKeepsLease ==
    ASSUME TypeInv, LeaseInv, SchedStep \/ SchedFault
    PROVE  LeaseInv'
<1> USE DEF TypeInv, TypeOK, WorkerTypeOK
<1>1. \A s \in Thread : Starting(s)' => Starting(s)
    <2> USE DEF Starting, CallEnqueue, CallKick, Answered, NoCall
    <2>1. CASE StartScheduler \/ PlanCheckUpdate \/ StartCallFails \/ RecoverState \/ RecoverKickReturns
        BY <2>1 DEF StartScheduler, PlanCheckUpdate, StartCallFails, RecoverState, RecoverKickReturns
    <2>2. CASE WakeUp \/ LoopKickRaises \/ ReadRows \/ TickEnds \/ EnqueueRetry \/ PlanFirst
        BY <2>2 DEF WakeUp, LoopKickRaises, ReadRows, TickEnds, EnqueueRetry, PlanFirst, workerVars
    <2>3. CASE DecideRow \/ EnqueueRefused \/ EnqueueRaised \/ TakeRetry \/ Advance \/ RecordFirstRun
        BY <2>3 DEF DecideRow, EnqueueRefused, EnqueueRaised, TakeRetry, Advance, RecordFirstRun, workerVars
    <2>4. CASE SchedFault
        BY <2>4 DEF SchedFault
    <2> QED
        BY <2>1, <2>2, <2>3, <2>4 DEF SchedStep
<1> QED
    BY <1>1, SchedulerLeavesWorkers, LeaseKept DEF Holding

LEMMA LeaseUntouched ==
    ASSUME LeaseInv, UNCHANGED <<lease, call, wpc>>
    PROVE  LeaseInv'
BY DEF LeaseInv, OneWorker, Starting, Holding

LEMMA NextLease == TypeInv /\ LeaseInv /\ [Next]_vars => LeaseInv'
<1> SUFFICES ASSUME TypeInv, LeaseInv, [Next]_vars PROVE LeaseInv'
    OBVIOUS
<1>1. ASSUME NEW th \in Thread, Engine(th) PROVE LeaseInv'
    BY <1>1, CallKeepsLease DEF Engine
<1>2. ASSUME NEW w \in Worker, Drain(w) PROVE LeaseInv'
    BY <1>2, WorkerKeepsLease DEF Drain
<1>3. ASSUME NEW th \in Thread, NEW t \in Task, Ask(th, t) PROVE LeaseInv'
    BY <1>3, AskKeepsLease
<1>4. CASE Schedule
    BY <1>4, ScheduleKeepsLease DEF Schedule
<1>5. CASE EnvStep
    BY <1>5, EnvLeavesWorkers, LeaseUntouched DEF workerVars
<1>6. CASE Restart
    BY <1>6 DEF Restart, NoCall, LeaseInv, Starting, Holding, HoldsLease, Executing, OneWorker
<1>7. CASE UNCHANGED vars
    BY <1>7, LeaseUntouched DEF vars, engineVars, workerVars
<1> QED
    BY <1>1, <1>2, <1>3, <1>4, <1>5, <1>6, <1>7 DEF Next, EnvStep

(***************************************************************************)
(* One worker at a time, for any number of threads that try to start one    *)
(* while others exit.                                                       *)
(***************************************************************************)
THEOREM StrictlySequential == Spec => []OneWorker
<1>1. LeaseInv => OneWorker
    BY DEF LeaseInv
<1> QED
    BY InitType, NextType, LeaseInit, NextLease, <1>1, PTL DEF Spec

----------------------------------------------------------------------------
(***************************************************************************)
(* Rows.  Only enqueue_task (and the UPDATE of media_jobs_worker) makes a   *)
(* request, only _mark_task_running consumes one, only check_mailing_status *)
(* withdraws one: every other statement keeps queued_count.  And only       *)
(* _mark_task_running writes "running", only the clock ages a row.          *)
(***************************************************************************)
Calm(r, q) == q.status = "running" => r.status = "running" /\ (q.stale => r.stale)
Kept(r, q) == q.queued = r.queued /\ Calm(r, q)
Fresh(r) == [r EXCEPT !.stale = FALSE]

RequestsKept == \A t \in Task : row'[t].queued = row[t].queued
RunningKept == \A t \in Task : Calm(row[t], row'[t])
RowsKept == \A t \in Task : Kept(row[t], row'[t])

LEMMA ClausesKeep ==
    ASSUME NEW r \in Row
    PROVE  /\ Kept(r, r)
           /\ Kept(r, Fresh(Succeeded(r)))
           /\ \A a \in Nat : Kept(r, Fresh(RetryPlanned(r, a)))
           /\ Kept(r, Fresh(GivenUp(r)))
           /\ Kept(r, Fresh(BackToIdle(r)))
           /\ Kept(r, Fresh(ManualRun(r))) /\ Kept(r, Fresh(QueueFailed(r)))
           /\ Kept(r, Fresh(RetryTaken(r)))
           /\ Kept(r, Advanced(r)) /\ Kept(r, Fresh(Advanced(r)))
           /\ Kept(r, Fresh(FirstRunSeen(r))) /\ Kept(r, Fresh(Recovered(r)))
           /\ Kept(r, Fresh(Enabled(r))) /\ Kept(r, Fresh(Disabled(r)))
           /\ Kept(r, Fresh(AutoEnabled(r))) /\ Kept(r, Fresh(AutoDisabled(r)))
           /\ Kept(r, Fresh(NamedEnabled(r)))
           /\ \A on \in BOOLEAN : Kept(r, Fresh(TelemetryWritten(r, on)))
           /\ Kept(r, Retired(r))
           /\ Kept(r, Fresh(SwitchedOff(r))) /\ Kept(r, Fresh(SwitchedOn(r)))
<1> USE DEF Row, Status, Kept, Calm, Fresh
<1>1. /\ Kept(r, r)
      /\ Kept(r, Fresh(Succeeded(r)))
      /\ \A a \in Nat : Kept(r, Fresh(RetryPlanned(r, a)))
      /\ Kept(r, Fresh(GivenUp(r)))
    BY DEF Succeeded, RetryPlanned, GivenUp
<1>2. /\ Kept(r, Fresh(BackToIdle(r)))
      /\ Kept(r, Fresh(ManualRun(r))) /\ Kept(r, Fresh(QueueFailed(r)))
    BY DEF BackToIdle, ManualRun, QueueFailed
<1>3. /\ Kept(r, Fresh(RetryTaken(r)))
      /\ Kept(r, Advanced(r)) /\ Kept(r, Fresh(Advanced(r)))
      /\ Kept(r, Fresh(FirstRunSeen(r))) /\ Kept(r, Fresh(Recovered(r)))
    BY DEF RetryTaken, Advanced, FirstRunSeen, Recovered
<1>4. /\ Kept(r, Fresh(Enabled(r))) /\ Kept(r, Fresh(Disabled(r)))
      /\ Kept(r, Fresh(AutoEnabled(r))) /\ Kept(r, Fresh(AutoDisabled(r)))
    BY DEF Enabled, Disabled, AutoEnabled, AutoDisabled
<1>5. /\ Kept(r, Fresh(NamedEnabled(r)))
      /\ \A on \in BOOLEAN : Kept(r, Fresh(TelemetryWritten(r, on)))
      /\ Kept(r, Retired(r))
    BY DEF NamedEnabled, TelemetryWritten, Retired
<1>6. Kept(r, Fresh(SwitchedOff(r))) /\ Kept(r, Fresh(SwitchedOn(r)))
    BY DEF SwitchedOff, SwitchedOn
<1> QED
    BY <1>1, <1>2, <1>3, <1>4, <1>5, <1>6

LEMMA RowsUntouched ==
    ASSUME row' = row
    PROVE  RowsKept
BY DEF RowsKept, Kept, Calm

LEMMA ScheduleKeepsRows ==
    ASSUME TypeInv, SchedStep \/ SchedFault
    PROVE  RowsKept
<1> USE DEF TypeInv, TypeOK, TableTypeOK, RowsKept
<1>1. CASE RecoverState
    BY <1>1, ClausesKeep DEF Fresh, RecoverState, Change
<1>2. CASE PlanCheckUpdate
    BY <1>2, ClausesKeep DEF Fresh, PlanCheckUpdate, Change
<1>3. CASE TakeRetry
    BY <1>3, ClausesKeep DEF Fresh, TakeRetry, Change
<1>4. CASE Advance
    BY <1>4, ClausesKeep DEF Fresh, Advance, Change
<1>5. CASE RecordFirstRun
    BY <1>5, ClausesKeep DEF Fresh, RecordFirstRun, Change
<1>6. CASE PlanFirst
    <2>1. PICK t \in Task, m \in {"later", "due"} :
             row' = [u \in Task |-> IF u \in {t} THEN [row[u] EXCEPT !.nextRun = m] ELSE row[u]]
        BY <1>6 DEF PlanFirst, ChangeQuietly
    <2>2. \A r \in Row : Kept(r, [r EXCEPT !.nextRun = m])
        BY DEF Kept, Calm, Row
    <2> QED
        BY <2>1, <2>2, ClausesKeep
<1>7. CASE StartScheduler \/ StartCallFails \/ RecoverKickReturns \/ WakeUp \/ LoopKickRaises \/ ReadRows
    BY <1>7, RowsUntouched
       DEF StartScheduler, StartCallFails, RecoverKickReturns, WakeUp, LoopKickRaises, ReadRows, tableVars
<1>8. CASE TickEnds \/ EnqueueRetry \/ DecideRow \/ EnqueueRefused \/ EnqueueRaised
    BY <1>8, RowsUntouched
       DEF TickEnds, EnqueueRetry, DecideRow, EnqueueRefused, EnqueueRaised, tableVars
<1>9. CASE SchedFault
    BY <1>9, RowsUntouched DEF SchedFault, tableVars
<1> QED
    BY <1>1, <1>2, <1>3, <1>4, <1>5, <1>6, <1>7, <1>8, <1>9 DEF SchedStep

LEMMA ClockKeepsRows ==
    ASSUME TypeInv, NEW t \in Task, Clock(t)
    PROVE  RowsKept
<1> USE DEF TypeInv, TypeOK, TableTypeOK, RowsKept
<1>1. \A r \in Row : Kept(r, [r EXCEPT !.retryAt = "due"]) /\ Kept(r, [r EXCEPT !.nextRun = "due"])
    BY DEF Kept, Calm, Row
<1>2. CASE RetryFallsDue(t)
    BY <1>1, <1>2, ClausesKeep DEF RetryFallsDue
<1>3. CASE RunFallsDue(t)
    BY <1>1, <1>3, ClausesKeep DEF RunFallsDue
<1> QED
    BY <1>2, <1>3 DEF Clock

\* Age apart, an ageing row stays what it was.
LEMMA AgeingRow ==
    ASSUME TypeInv, NEW t \in Task, Ageing(t)
    PROVE  /\ RequestsKept
           /\ \A u \in Task : row'[u].status = row[u].status
<1>1. \A r \in Row : /\ [r EXCEPT !.stale = TRUE].queued = r.queued
                     /\ [r EXCEPT !.stale = TRUE].status = r.status
    BY DEF Row
<1> QED
    BY <1>1 DEF Ageing, GrowsStale, RequestsKept, TypeInv, TypeOK, TableTypeOK

LEMMA SettingsKeepRows ==
    ASSUME TypeInv, SaveSettings \/ SettingsStep \/ WatchdogLooks \/ WatchdogResets
    PROVE  RowsKept
<1> USE DEF TypeInv, TypeOK, TableTypeOK, RowsKept
<1>1. CASE ApplySwitch
    BY <1>1, ClausesKeep DEF Fresh, ApplySwitch, Change
<1>2. CASE SyncExpiry
    <2>1. PICK t \in form.todo :
             IF ~cronOn THEN ChangeQuietly({t}, LAMBDA r : Remembered(r, t \in form.wanted))
             ELSE IF t \in form.wanted THEN Change({t}, Enabled) ELSE Change({t}, Disabled)
        BY <1>2 DEF SyncExpiry
    <2>2. CASE ~cronOn
        <3>1. row' = [u \in Task |-> IF u \in {t} THEN Remembered(row[u], t \in form.wanted)
                                                 ELSE row[u]]
            BY <2>1, <2>2 DEF ChangeQuietly
        <3>2. \A r \in Row : Kept(r, Remembered(r, t \in form.wanted))
            BY DEF Remembered, Row, Kept, Calm
        <3> QED
            BY <3>1, <3>2, ClausesKeep
    <2>3. CASE cronOn
        <3>1. \A r \in Row : /\ Kept(r, r)
                             /\ Kept(r, [Enabled(r) EXCEPT !.stale = FALSE])
                             /\ Kept(r, [Disabled(r) EXCEPT !.stale = FALSE])
            BY ClausesKeep DEF Fresh
        <3> QED
            BY <2>1, <2>3, <3>1 DEF Change
    <2> QED
        BY <2>2, <2>3
<1>5. CASE WriteTelemetry
    <2>1. row' = [u \in Task |->
                     IF u \in Telemetry
                     THEN [TelemetryWritten(row[u], form.telemetry # {}) EXCEPT !.stale = FALSE]
                     ELSE row[u]]
        BY <1>5 DEF WriteTelemetry, Change
    <2>2. \A r \in Row : Kept(r, [TelemetryWritten(r, form.telemetry # {}) EXCEPT !.stale = FALSE])
        BY ClausesKeep DEF Fresh
    <2> QED
        BY <2>1, <2>2, ClausesKeep
<1>3. CASE WatchdogResets
    BY <1>3, ClausesKeep DEF Fresh, WatchdogResets, Change
<1>4. CASE SaveSettings \/ ForceWakened \/ SaveEnds \/ WatchdogLooks
    BY <1>4, RowsUntouched DEF SaveSettings, ForceWakened, SaveEnds, WatchdogLooks, engineVars, tableVars
<1> QED
    BY <1>1, <1>2, <1>3, <1>4, <1>5 DEF SettingsStep

\* An administrative step withdraws at most the request of its own row, and
\* only from inside a run.
Withdraws(t) ==
    /\ \E w \in Worker : wpc[w] = "run"
    /\ row'[t].queued = 0
    /\ \A u \in Task \ {t} : row'[u].queued = row[u].queued
    /\ RunningKept

LEMMA AdminRows ==
    ASSUME TypeInv, NEW t \in Task, AdminStep(t)
    PROVE  RowsKept \/ Withdraws(t)
<1> USE DEF TypeInv, TypeOK, TableTypeOK, RowsKept
<1>1. CASE SetEnabled(t)
    <2>1. \A r \in Row : /\ Kept(r, r)
                         /\ Kept(r, [Enabled(r) EXCEPT !.stale = FALSE])
                         /\ Kept(r, [Disabled(r) EXCEPT !.stale = FALSE])
                         /\ Kept(r, [NamedEnabled(r) EXCEPT !.stale = FALSE])
        BY ClausesKeep DEF Fresh
    <2>2. CASE Change({t}, Enabled)
        BY <2>1, <2>2 DEF Change
    <2>3. CASE Change({t}, Disabled)
        BY <2>1, <2>3 DEF Change
    <2>4. CASE Change({t}, NamedEnabled)
        BY <2>1, <2>4 DEF Change
    <2> QED
        BY <1>1, <2>2, <2>3, <2>4 DEF SetEnabled
<1>2. CASE SetForAutoMode(t)
    <2>1. \A r \in Row : /\ Kept(r, r)
                         /\ Kept(r, [AutoEnabled(r) EXCEPT !.stale = FALSE])
                         /\ Kept(r, [AutoDisabled(r) EXCEPT !.stale = FALSE])
        BY ClausesKeep DEF Fresh
    <2>2. CASE Change({t}, AutoEnabled)
        BY <2>1, <2>2 DEF Change
    <2>3. CASE Change({t}, AutoDisabled)
        BY <2>1, <2>3 DEF Change
    <2> QED
        BY <1>2, <2>2, <2>3 DEF SetForAutoMode
<1>3. CASE ForceRun(t)
    BY <1>3, RowsUntouched DEF ForceRun, tableVars
<1>4. ASSUME NEW w \in Worker, RunDisables(w, t), t = wtask[w] PROVE RowsKept
    BY <1>4, ClausesKeep DEF RunDisables, ChangeQuietly
<1>5. ASSUME NEW w \in Worker, RunDisables(w, t), t # wtask[w] PROVE Withdraws(t)
    <2>1. \A r \in Row : [MailDisabled(r) EXCEPT !.stale = FALSE].queued = 0
                         /\ Calm(r, [MailDisabled(r) EXCEPT !.stale = FALSE])
        BY DEF MailDisabled, Calm, Row
    <2>2. wpc[w] = "run" /\ Change({t}, MailDisabled)
        BY <1>5 DEF RunDisables
    <2> QED
        BY <2>1, <2>2, ClausesKeep DEF Change, Withdraws, RunningKept, Kept
<1> QED
    BY <1>1, <1>2, <1>3, <1>4, <1>5 DEF AdminStep

\* A row gets its request.
Requests(t) ==
    /\ row'[t].queued = 1
    /\ \A u \in Task \ {t} : row'[u].queued = row[u].queued
    /\ RunningKept

LEMMA RequestedRow ==
    ASSUME TypeInv, NEW t \in Task, Change({t}, Requested)
    PROVE  Requests(t)
<1>1. \A r \in Row : /\ [Requested(r) EXCEPT !.stale = FALSE].queued = 1
                     /\ Calm(r, [Requested(r) EXCEPT !.stale = FALSE])
    BY DEF Requested, Calm, Row
<1> QED
    BY <1>1, ClausesKeep DEF Change, Requests, RunningKept, Kept, TypeInv, TypeOK, TableTypeOK

LEMMA CallRows ==
    ASSUME TypeInv, NEW th \in Thread, CallStep(th) \/ CallFault(th) \/ RequestStep(th)
    PROVE  RowsKept \/ \E t \in Task : Requests(t)
<1> USE DEF TypeInv, TypeOK, TableTypeOK, WorkerTypeOK
<1>1. CASE Request(th)
    <2>1. CASE call[th].task \in {t \in Task : row[t].enabled}
        <3>1. {call[th].task} \cap {t \in Task : row[t].enabled} = {call[th].task}
            BY <2>1
        <3>2. Change({call[th].task}, Requested)
            BY <1>1, <3>1 DEF Request, Change
        <3> QED
            BY <2>1, <3>2, RequestedRow
    <2>2. CASE call[th].task \notin {t \in Task : row[t].enabled}
        BY <1>1, <2>2, ClausesKeep DEF Request, Change, RowsKept
    <2> QED
        BY <2>1, <2>2
<1>2. CASE MarkManualRun(th)
    BY <1>2, ClausesKeep DEF Fresh, MarkManualRun, Change, RowsKept
<1>3. CASE MarkQueueFailed(th)
    BY <1>3, ClausesKeep DEF Fresh, MarkQueueFailed, Change, RowsKept
<1>4. CASE EnableToWake(th)
    BY <1>4, ClausesKeep DEF Fresh, EnableToWake, Change, RowsKept
<1>5. CASE ReadCron(th) \/ ReadEnabled(th) \/ LookAtLease(th) \/ CountPending(th)
    BY <1>5, RowsUntouched DEF ReadCron, ReadEnabled, LookAtLease, CountPending, tableVars
<1>6. CASE Claim(th) \/ StartThread(th) \/ CallFault(th)
    BY <1>6, RowsUntouched DEF Claim, StartThread, CallFault, EnqueueRaises, CountFails, StartFails, tableVars
<1> QED
    BY <1>1, <1>2, <1>3, <1>4, <1>5, <1>6 DEF CallStep, RequestStep

LEMMA AskRows ==
    ASSUME TypeInv, NEW th \in Thread, NEW t \in Task, Ask(th, t)
    PROVE  RowsKept \/ Requests(t)
<1>1. CASE RunNow(th, t) \/ WakeTask(th, t) \/ EnqueueByName(th, t)
    BY <1>1, RowsUntouched DEF RunNow, WakeTask, EnqueueByName, tableVars
<1>2. CASE RunRequests(th, t)
    BY <1>2, RequestedRow DEF RunRequests
<1> QED
    BY <1>1, <1>2 DEF Ask

LEMMA WorkerRows ==
    ASSUME TypeInv, NEW w \in Worker, WorkerStep(w) \/ WorkerFault(w), ~MarkRunning(w)
    PROVE  RowsKept
<1> USE DEF TypeInv, TypeOK, TableTypeOK, WorkerTypeOK, RowsKept
<1>1. CASE MarkSuccess(w)
    BY <1>1, ClausesKeep DEF Fresh, MarkSuccess, Change
<1>2. CASE Replan(w)
    BY <1>2, ClausesKeep DEF Replan, ChangeQuietly
<1>3. CASE MarkRetryOrError(w)
    <2>1. wseen[w] + 1 \in Nat
        OBVIOUS
    <2>2. \A r \in Row : /\ Kept(r, r)
                         /\ Kept(r, [RetryPlanned(r, wseen[w] + 1) EXCEPT !.stale = FALSE])
                         /\ Kept(r, [GivenUp(r) EXCEPT !.stale = FALSE])
        BY <2>1, ClausesKeep DEF Fresh
    <2>3. CASE Change({wtask[w]}, LAMBDA r : RetryPlanned(r, wseen[w] + 1))
        BY <2>2, <2>3 DEF Change
    <2>4. CASE Change({wtask[w]}, GivenUp)
        BY <2>2, <2>4 DEF Change
    <2> QED
        BY <1>3, <2>3, <2>4 DEF MarkRetryOrError
<1>4. CASE Failsafe(w)
    BY <1>4, ClausesKeep DEF Fresh, Failsafe, Change
<1>5. CASE Fetch(w) \/ FetchNothing(w) \/ RunFails(w) \/ Finalize(w) \/ ReleaseThenKick(w)
    BY <1>5, RowsUntouched DEF Fetch, FetchNothing, RunFails, Finalize, ReleaseThenKick, tableVars
<1>6. CASE WorkerFault(w)
    BY <1>6, RowsUntouched
       DEF WorkerFault, FetchFails, MarkRunningFails, ReplanFails, MarkErrorFails, FinalizeFails, tableVars
<1> QED
    BY <1>1, <1>2, <1>3, <1>4, <1>5, <1>6 DEF WorkerStep

LEMMA KeptRequests == RowsKept => RequestsKept /\ RunningKept
BY DEF RowsKept, Kept, RequestsKept, RunningKept

(***************************************************************************)
(* A task the worker has fetched is still requested when it is marked: the  *)
(* request could only be withdrawn from inside a run, and there is none.    *)
(***************************************************************************)
FetchedInv == \A w \in Worker : wpc[w] = "mark" => row[wtask[w]].queued > 0

LEMMA FetchedKept ==
    ASSUME TypeInv, FetchedInv, TypeInv',
           RequestsKept \/ \E t \in Task : Requests(t),
           \A w \in Worker : wpc'[w] = "mark" => wpc[w] = "mark" /\ wtask'[w] = wtask[w]
    PROVE  FetchedInv'
BY DEF FetchedInv, TypeInv, WorkHasTask, RequestsKept, Requests

LEMMA NextFetched == TypeInv /\ LeaseInv /\ FetchedInv /\ TypeInv' /\ [Next]_vars => FetchedInv'
<1> SUFFICES ASSUME TypeInv, LeaseInv, FetchedInv, TypeInv', [Next]_vars PROVE FetchedInv'
    OBVIOUS
<1>1. ASSUME NEW th \in Thread, Engine(th) PROVE FetchedInv'
    <2>1. \A w \in Worker : wpc'[w] = "mark" => wpc[w] = "mark" /\ wtask'[w] = wtask[w]
        <3>1. CASE StartThread(th)
            BY <3>1 DEF StartThread, TypeInv, TypeOK, WorkerTypeOK
        <3>2. CASE CallFault(th) \/ RequestStep(th)
            BY <3>2 DEF CallFault, EnqueueRaises, CountFails, StartFails, RequestStep, MarkManualRun,
                        MarkQueueFailed, EnableToWake
        <3>3. CASE CallStep(th) /\ ~StartThread(th)
            BY <3>3 DEF CallStep, ReadCron, ReadEnabled, Request, LookAtLease, CountPending, Claim
        <3> QED
            BY <1>1, <3>1, <3>2, <3>3 DEF Engine
    <2> QED
        BY <1>1, <2>1, CallRows, KeptRequests, FetchedKept DEF Engine
<1>2. ASSUME NEW w \in Worker, Drain(w) PROVE FetchedInv'
    <2> USE DEF TypeInv, TypeOK, WorkerTypeOK, Become
    <2>1. CASE Fetch(w)
        <3>1. \A v \in Worker \ {w} : wpc[v] # "mark"
            BY <2>1 DEF Fetch, LeaseInv, OneWorker, HoldsLease
        <3>2. wtask'[w] \in Pending
            BY <2>1 DEF Fetch, NextPending
        <3> QED
            BY <2>1, <3>1, <3>2 DEF Fetch, FetchedInv, Pending, tableVars
    <2>2. CASE MarkRunning(w)
        <3>1. \A v \in Worker \ {w} : wpc[v] # "mark"
            BY <2>2 DEF MarkRunning, LeaseInv, OneWorker, HoldsLease
        <3> QED
            BY <2>2, <3>1 DEF MarkRunning, FetchedInv
    <2>3. CASE ~Fetch(w) /\ ~MarkRunning(w)
        <3>1. RequestsKept
            BY <1>2, <2>3, WorkerRows, KeptRequests DEF Drain
        <3>2. \A v \in Worker : wpc'[v] = "mark" => wpc[v] = "mark" /\ wtask'[v] = wtask[v]
            <4>1. CASE FetchNothing(w) \/ MarkSuccess(w) \/ Replan(w) \/ RunFails(w)
                BY <4>1 DEF FetchNothing, MarkSuccess, Replan, RunFails
            <4>2. CASE MarkRetryOrError(w) \/ Finalize(w) \/ Failsafe(w) \/ ReleaseThenKick(w)
                BY <4>2 DEF MarkRetryOrError, Finalize, Failsafe, ReleaseThenKick
            <4>3. CASE WorkerFault(w)
                BY <4>3 DEF WorkerFault, FetchFails, MarkRunningFails, ReplanFails, MarkErrorFails, FinalizeFails
            <4> QED
                BY <1>2, <2>3, <4>1, <4>2, <4>3 DEF Drain, WorkerStep
        <3> QED
            BY <3>1, <3>2, FetchedKept
    <2> QED
        BY <2>1, <2>2, <2>3
<1>3. ASSUME NEW th \in Thread, NEW t \in Task, Ask(th, t) PROVE FetchedInv'
    <2>1. UNCHANGED <<wpc, wtask>>
        BY <1>3 DEF Ask, RunNow, WakeTask, EnqueueByName, RunRequests, workerVars
    <2> QED
        BY <1>3, <2>1, AskRows, KeptRequests, FetchedKept
<1>4. CASE Schedule
    BY <1>4, ScheduleKeepsRows, KeptRequests, SchedulerLeavesWorkers, FetchedKept DEF Schedule
<1>5. CASE EnvStep
    <2>1. UNCHANGED <<wpc, wtask>>
        BY <1>5, EnvLeavesWorkers DEF workerVars
    <2>2. CASE RequestsKept
        BY <2>1, <2>2, FetchedKept
    <2>3. CASE \E w \in Worker : wpc[w] = "run"
        BY <2>1, <2>3 DEF LeaseInv, OneWorker, HoldsLease, Executing, FetchedInv
    <2> QED
        BY <1>5, <2>2, <2>3, AdminRows, ClockKeepsRows, AgeingRow, SettingsKeepRows, KeptRequests DEF EnvStep, Withdraws
<1>6. CASE Restart
    BY <1>6 DEF Restart, FetchedInv
<1>7. CASE UNCHANGED vars
    BY <1>7 DEF vars, engineVars, tableVars, workerVars, FetchedInv
<1> QED
    BY <1>1, <1>2, <1>3, <1>4, <1>5, <1>6, <1>7 DEF Next, EnvStep

\* The inductive invariant of the theorems below.
IInv == TypeInv /\ LeaseInv /\ FetchedInv

LEMMA InitInv == Init => IInv
<1>1. Init => FetchedInv
    BY DEF Init, WorkerInit, FetchedInv
<1> QED
    BY <1>1, InitType, LeaseInit DEF IInv

LEMMA NextInv == IInv /\ [Next]_vars => IInv'
BY NextType, NextLease, NextFetched DEF IInv

LEMMA Invariance == Spec => []IInv
BY InitInv, NextInv, PTL DEF Spec

----------------------------------------------------------------------------
(***************************************************************************)
(* Refinement.  What the refinement mapping of TaskEngine calls executing   *)
(* is the task of the one worker that executes, now and in the next state.  *)
(***************************************************************************)
Current == IF \E w \in Worker : wpc[w] \in Executing
           THEN wtask[CHOOSE w \in Worker : wpc[w] \in Executing] ELSE NoTask
Asked == {t \in Task : row[t].queued > 0}

LEMMA CurrentOf ==
    ASSUME OneWorker, NEW w \in Worker, Holding(w)
    PROVE  Current = IF wpc[w] \in Executing THEN wtask[w] ELSE NoTask
<1>1. \A v \in Worker : wpc[v] \in Executing => v = w
    BY DEF OneWorker, Holding, HoldsLease
<1> QED
    BY <1>1 DEF Current

LEMMA CurrentNext ==
    ASSUME OneWorker', NEW w \in Worker, Holding(w)'
    PROVE  Current' = IF wpc'[w] \in Executing THEN wtask'[w] ELSE NoTask
<1>1. \A v \in Worker : wpc'[v] \in Executing => v = w
    BY DEF OneWorker, Holding, HoldsLease
<1> QED
    BY <1>1 DEF Current

LEMMA CurrentKept ==
    ASSUME UNCHANGED <<wpc, wtask>>
    PROVE  Current' = Current
BY DEF Current

\* The steps of the abstract queue, as seen through the mapping.
LEMMA StutterStep ==
    ASSUME RequestsKept, Current' = Current
    PROVE  [Queue!Next]_Queue!vars
BY DEF RequestsKept, Queue!vars, Current

LEMMA AskStep ==
    ASSUME NEW t \in Task, Requests(t), Current' = Current
    PROVE  [Queue!Next]_Queue!vars
<1>1. Asked' = Asked \cup {t}
    BY DEF Requests, Asked
<1>2. Queue!Ask(t)
    BY <1>1 DEF Queue!Ask, Asked, Current
<1> QED
    BY <1>2 DEF Queue!Next

LEMMA WithdrawStep ==
    ASSUME NEW t \in Task, row'[t].queued = 0, Current' = Current,
           \A u \in Task \ {t} : row'[u].queued = row[u].queued
    PROVE  [Queue!Next]_Queue!vars
<1>1. Asked' = Asked \ {t}
    BY DEF Asked
<1>2. Queue!Withdraw(t)
    BY <1>1 DEF Queue!Withdraw, Asked, Current
<1> QED
    BY <1>2 DEF Queue!Next

LEMMA EndStep ==
    ASSUME RequestsKept, Current # NoTask, Current' = NoTask
    PROVE  [Queue!Next]_Queue!vars
<1>1. Queue!End
    BY DEF Queue!End, RequestsKept, Current
<1> QED
    BY <1>1 DEF Queue!Next

LEMMA BeginStep ==
    ASSUME NEW t \in Task, row[t].queued > 0, row'[t].queued = 0,
           \A u \in Task \ {t} : row'[u].queued = row[u].queued,
           Current = NoTask, Current' = t
    PROVE  [Queue!Next]_Queue!vars
<1>1. Asked' = Asked \ {t} /\ t \in Asked
    BY DEF Asked
<1>2. Queue!Begin(t)
    BY <1>1 DEF Queue!Begin, Asked, Current
<1> QED
    BY <1>2 DEF Queue!Next

LEMMA DrainRefines ==
    ASSUME IInv, OneWorker', NEW w \in Worker, WorkerStep(w) \/ WorkerFault(w)
    PROVE  [Queue!Next]_Queue!vars
<1> USE DEF IInv, TypeInv, TypeOK, WorkerTypeOK, Become, HoldsLease
<1>a. OneWorker
    BY DEF LeaseInv
<1>b. {"run", "replan", "error", "finalize", "failsafe"} = Executing
    BY DEF Executing
<1>1. CASE MarkRunning(w)
    <2> DEFINE t == wtask[w]
    <2>1. t \in Task /\ row[t].queued > 0
        BY <1>1 DEF MarkRunning, WorkHasTask, FetchedInv
    <2>2. \A r \in Row : [Started(r) EXCEPT !.stale = FALSE].queued = 0
        BY DEF Started, Row
    <2>3. row'[t].queued = 0 /\ \A u \in Task \ {t} : row'[u].queued = row[u].queued
        BY <1>1, <2>1, <2>2 DEF MarkRunning, Change, TableTypeOK
    <2>4. Current = NoTask
        BY <1>1, <1>a, <1>b, CurrentOf DEF MarkRunning, Holding
    <2>5. Current' = t
        BY <1>1, <1>a, <1>b, CurrentNext DEF MarkRunning, Holding
    <2> QED
        BY <2>1, <2>3, <2>4, <2>5, BeginStep
<1>2. CASE ~MarkRunning(w)
    <2>1. RequestsKept
        BY <1>2, WorkerRows, KeptRequests
    <2>2. Holding(w)
        BY <1>2, <1>b DEF Holding, WorkerStep, WorkerFault, Fetch, FetchNothing, MarkSuccess, Replan,
            RunFails, MarkRetryOrError, Finalize, Failsafe, ReleaseThenKick,
            FetchFails, MarkRunningFails, ReplanFails, MarkErrorFails, FinalizeFails
    <2>3. CASE ReleaseThenKick(w)
        <3>1. Current = NoTask
            BY <2>2, <2>3, <1>a, <1>b, CurrentOf DEF ReleaseThenKick
        <3>2. \A v \in Worker : wpc'[v] \notin Executing
            BY <2>3, <1>a, <1>b DEF ReleaseThenKick, OneWorker
        <3>3. Current' = NoTask
            BY <3>2 DEF Current
        <3> QED
            BY <2>1, <3>1, <3>3, StutterStep
    <2>4. CASE ~ReleaseThenKick(w)
        <3>1. Holding(w)'
            BY <1>2, <2>4, <1>b DEF Holding, WorkerStep, WorkerFault, Fetch, FetchNothing, MarkSuccess, Replan,
                RunFails, MarkRetryOrError, Finalize, Failsafe,
                FetchFails, MarkRunningFails, ReplanFails, MarkErrorFails, FinalizeFails
        <3>2. wpc'[w] \in Executing => wpc[w] \in Executing /\ wtask'[w] = wtask[w]
            BY <1>2, <2>4, <1>b DEF WorkerStep, WorkerFault, Fetch, FetchNothing, MarkSuccess, Replan,
                RunFails, MarkRetryOrError, Finalize, Failsafe,
                FetchFails, MarkRunningFails, ReplanFails, MarkErrorFails, FinalizeFails
        <3>3. Current = IF wpc[w] \in Executing THEN wtask[w] ELSE NoTask
            BY <1>a, <2>2, CurrentOf
        <3>4. Current' = IF wpc'[w] \in Executing THEN wtask'[w] ELSE NoTask
            BY <3>1, CurrentNext
        <3>5. wpc[w] \in Executing => wtask[w] # NoTask
            BY NoTaskIsNone DEF WorkHasTask
        <3>6. CASE wpc'[w] \in Executing \/ wpc[w] \notin Executing
            BY <2>1, <3>2, <3>3, <3>4, <3>6, StutterStep
        <3>7. CASE wpc'[w] \notin Executing /\ wpc[w] \in Executing
            BY <2>1, <3>3, <3>4, <3>5, <3>7, EndStep
        <3> QED
            BY <3>6, <3>7
    <2> QED
        BY <2>3, <2>4
<1> QED
    BY <1>1, <1>2

\* No boot makes or drops a request.
LEMMA BootstrapKeepsRequests ==
    ASSUME TableTypeOK, Bootstrap
    PROVE  RequestsKept
<1> USE DEF TableTypeOK
<1>1. ASSUME NEW r \in Row
      PROVE  /\ AutoEnabled(r).queued = r.queued
             /\ [OnDemand(r) EXCEPT !.stale = FALSE].queued = r.queued
             /\ [SwitchedOff(r) EXCEPT !.stale = FALSE].queued = r.queued
             /\ [Repaired(r) EXCEPT !.stale = FALSE].queued = r.queued
    BY DEF Row, AutoEnabled, OnDemand, SwitchedOff, Repaired
<1>2. ASSUME NEW t \in Task PROVE Seeded(t) \in Row /\ Seeded(t).queued = row[t].queued
    BY <1>1, SetClausesKeepType, FreshKeepsType DEF Seeded
<1>3. ASSUME NEW t \in Task PROVE Enforced(t) \in Row /\ Enforced(t).queued = row[t].queued
    BY <1>1, <1>2, SetClausesKeepType, FreshKeepsType DEF Enforced
<1> QED
    BY <1>1, <1>3 DEF Bootstrap, RequestsKept

LEMMA StepRefines == IInv /\ IInv' /\ [Next]_vars => [Queue!Next]_Queue!vars
<1> SUFFICES ASSUME IInv, IInv', [Next]_vars PROVE [Queue!Next]_Queue!vars
    OBVIOUS
<1> USE DEF IInv
<1>a. OneWorker /\ OneWorker'
    BY DEF LeaseInv
<1>1. ASSUME NEW th \in Thread, Engine(th) PROVE [Queue!Next]_Queue!vars
    <2>1. CASE StartThread(th)
        <3>1. PICK w \in Worker : wpc' = [wpc EXCEPT ![w] = "fetch"]
            BY <2>1 DEF StartThread
        <3>2. \A v \in Worker : wpc[v] \notin Executing
            BY <2>1 DEF StartThread, LeaseInv, Starting, Holding, HoldsLease
        <3>3. \A v \in Worker : wpc'[v] \notin Executing
            BY <3>1, <3>2 DEF TypeInv, TypeOK, WorkerTypeOK, Executing
        <3>4. Current' = Current
            BY <3>2, <3>3 DEF Current
        <3>5. RequestsKept
            BY <2>1 DEF StartThread, tableVars, RequestsKept
        <3> QED
            BY <3>4, <3>5, StutterStep
    <2>2. CASE ~StartThread(th)
        <3>1. UNCHANGED <<wpc, wtask>>
            BY <1>1, <2>2 DEF Engine, CallStep, CallFault, RequestStep, ReadCron, ReadEnabled, Request,
                LookAtLease, CountPending, Claim, EnqueueRaises, CountFails, StartFails,
                MarkManualRun, MarkQueueFailed, EnableToWake
        <3> QED
            BY <1>1, <3>1, CurrentKept, CallRows, KeptRequests, StutterStep, AskStep DEF Engine
    <2> QED
        BY <2>1, <2>2
<1>2. ASSUME NEW w \in Worker, Drain(w) PROVE [Queue!Next]_Queue!vars
    BY <1>2, <1>a, DrainRefines DEF Drain
<1>3. ASSUME NEW th \in Thread, NEW t \in Task, Ask(th, t) PROVE [Queue!Next]_Queue!vars
    <2>1. UNCHANGED <<wpc, wtask>>
        BY <1>3 DEF Ask, RunNow, WakeTask, EnqueueByName, RunRequests, workerVars
    <2> QED
        BY <1>3, <2>1, CurrentKept, AskRows, KeptRequests, StutterStep, AskStep
<1>4. CASE Schedule
    BY <1>4, ScheduleKeepsRows, KeptRequests, SchedulerLeavesWorkers, CurrentKept, StutterStep DEF Schedule
<1>5. CASE EnvStep
    <2>1. Current' = Current
        BY <1>5, EnvLeavesWorkers, CurrentKept DEF workerVars
    <2>2. CASE RequestsKept
        BY <2>1, <2>2, StutterStep
    <2>3. ASSUME NEW t \in Task, AdminStep(t) PROVE [Queue!Next]_Queue!vars
        BY <2>1, <2>2, <2>3, AdminRows, KeptRequests, WithdrawStep DEF Withdraws
    <2> QED
        BY <1>5, <2>2, <2>3, ClockKeepsRows, AgeingRow, SettingsKeepRows, KeptRequests DEF EnvStep
<1>6. CASE Restart
    <2>1. RequestsKept
        BY <1>6, BootstrapKeepsRequests DEF Restart, TypeInv, TypeOK
    <2>2. Current' = NoTask
        BY <1>6 DEF Restart, Current, Executing
    <2> QED
        BY <2>1, <2>2, StutterStep, EndStep
<1>7. CASE UNCHANGED vars
    BY <1>7, CurrentKept, StutterStep DEF vars, engineVars, tableVars, workerVars, RequestsKept
<1> QED
    BY <1>1, <1>2, <1>3, <1>4, <1>5, <1>6, <1>7 DEF Next, EnvStep

LEMMA InitRefines == Init => Queue!Init
<1> SUFFICES ASSUME Init PROVE Queue!Init
    OBVIOUS
<1>1. \A t \in Task : row[t].queued = 0
    BY DEF Init, TableInit, SeedRow
<1>2. ~\E w \in Worker : wpc[w] \in Executing
    BY DEF Init, WorkerInit, Executing
<1> QED
    BY <1>1, <1>2 DEF Queue!Init

(***************************************************************************)
(* The engine implements the deduplicated, strictly sequential queue, for   *)
(* any number of tasks, threads, faults, changes and restarts.              *)
(***************************************************************************)
THEOREM ImplementsQueue == Spec => QueueSpec
BY InitInv, NextInv, InitRefines, StepRefines, PTL DEF Spec, QueueSpec, Queue!Spec

----------------------------------------------------------------------------
(***************************************************************************)
(* Orphans.                                                                 *)
(***************************************************************************)

\* What a step that begins no execution must not do: end one silently.
LEMMA NoNewOrphan ==
    ASSUME NEW t \in Task, Orphan(t)', RunningKept,
           ExecutingTask(t) => ExecutingTask(t)'
    PROVE  Orphan(t)
BY DEF Orphan, RunningKept, Calm

LEMMA ExecutionsUntouched ==
    ASSUME UNCHANGED <<wpc, wtask>>
    PROVE  \A t \in Task : ExecutingTask(t)' = ExecutingTask(t)
BY DEF ExecutingTask

LEMMA DrainOrphans ==
    ASSUME IInv, NEW w \in Worker, WorkerStep(w) \/ WorkerFault(w),
           NEW t \in Task, Orphan(t)', faults' = faults
    PROVE  Orphan(t)
<1> USE DEF IInv, TypeInv, TypeOK, WorkerTypeOK, Become
<1>b. {"run", "replan", "error", "finalize", "failsafe"} = Executing
    BY DEF Executing
<1>1. CASE MarkRunning(w)
    <2>1. t # wtask[w]
        BY <1>1, <1>b DEF MarkRunning, Orphan, ExecutingTask
    <2>2. row'[t] = row[t]
        BY <1>1, <2>1 DEF MarkRunning, Change
    <2>3. ExecutingTask(t) => ExecutingTask(t)'
        BY <1>1, <1>b DEF MarkRunning, ExecutingTask
    <2> QED
        BY <2>2, <2>3 DEF Orphan
<1>2. CASE ~MarkRunning(w)
    <2>1. RunningKept
        BY <1>2, WorkerRows, KeptRequests
    <2>2. row[t].status = "running"
        BY <2>1 DEF RunningKept, Calm, Orphan
    <2>3. ASSUME wpc[w] \in Executing, wtask[w] = t
          PROVE  wpc'[w] \in Executing /\ wtask'[w] = t
        <3>1. CASE MarkSuccess(w) \/ Replan(w) \/ RunFails(w) \/ MarkRetryOrError(w)
            BY <2>3, <3>1, <1>b DEF MarkSuccess, Replan, RunFails, MarkRetryOrError
        <3>2. CASE Finalize(w)
            BY <2>2, <2>3, <3>2, <1>b DEF Finalize
        <3>3. CASE Failsafe(w)
            <4>1. \A r \in Row : [BackToIdle(r) EXCEPT !.stale = FALSE].status = "idle"
                BY DEF BackToIdle, Row
            <4>2. row'[t].status = "idle"
                BY <2>3, <3>3, <4>1 DEF Failsafe, Change, TableTypeOK
            <4> QED
                BY <4>2 DEF Orphan
        <3>4. CASE Fetch(w) \/ FetchNothing(w) \/ ReleaseThenKick(w)
            BY <2>3, <3>4, <1>b DEF Fetch, FetchNothing, ReleaseThenKick
        <3>5. CASE WorkerFault(w)
            BY <3>5 DEF WorkerFault, FetchFails, MarkRunningFails, ReplanFails, MarkErrorFails,
                        FinalizeFails, Fault
        <3> QED
            BY <1>2, <3>1, <3>2, <3>3, <3>4, <3>5 DEF WorkerStep
    <2>4. \A v \in Worker \ {w} : wpc'[v] = wpc[v] /\ wtask'[v] = wtask[v]
        BY <1>2 DEF WorkerStep, WorkerFault, Fetch, FetchNothing, MarkSuccess, Replan,
            RunFails, MarkRetryOrError, Finalize, Failsafe, ReleaseThenKick,
            FetchFails, MarkRunningFails, ReplanFails, MarkErrorFails, FinalizeFails
    <2>5. ExecutingTask(t) => ExecutingTask(t)'
        BY <2>3, <2>4 DEF ExecutingTask
    <2> QED
        BY <2>1, <2>5, NoNewOrphan
<1> QED
    BY <1>1, <1>2

LEMMA StepOrphans ==
    IInv /\ [Next]_vars =>
        \A t \in Task : Orphan(t)' => Orphan(t) \/ faults' # faults \/ restarts' # restarts
<1> SUFFICES ASSUME IInv, [Next]_vars, NEW t \in Task, Orphan(t)', faults' = faults, restarts' = restarts
             PROVE  Orphan(t)
    OBVIOUS
<1> USE DEF IInv
<1>1. ASSUME NEW th \in Thread, Engine(th) PROVE Orphan(t)
    <2>1. RunningKept
        BY <1>1, CallRows, KeptRequests DEF Engine, Requests
    <2>2. CASE StartThread(th)
        <3>1. ExecutingTask(t) => ExecutingTask(t)'
            BY <2>2 DEF StartThread, FreeSlot, ExecutingTask, Executing, TypeInv, TypeOK, WorkerTypeOK
        <3> QED
            BY <2>1, <3>1, NoNewOrphan
    <2>3. CASE ~StartThread(th)
        <3>1. UNCHANGED <<wpc, wtask>>
            BY <1>1, <2>3 DEF Engine, CallStep, CallFault, RequestStep, ReadCron, ReadEnabled, Request,
                LookAtLease, CountPending, Claim, EnqueueRaises, CountFails, StartFails,
                MarkManualRun, MarkQueueFailed, EnableToWake
        <3> QED
            BY <2>1, <3>1, ExecutionsUntouched, NoNewOrphan
    <2> QED
        BY <2>2, <2>3
<1>2. ASSUME NEW w \in Worker, Drain(w) PROVE Orphan(t)
    BY <1>2, DrainOrphans DEF Drain
<1>3. ASSUME NEW th \in Thread, NEW u \in Task, Ask(th, u) PROVE Orphan(t)
    <2>1. UNCHANGED <<wpc, wtask>>
        BY <1>3 DEF Ask, RunNow, WakeTask, EnqueueByName, RunRequests, workerVars
    <2>2. RunningKept
        BY <1>3, AskRows, KeptRequests DEF Requests
    <2> QED
        BY <2>1, <2>2, ExecutionsUntouched, NoNewOrphan
<1>4. CASE Schedule
    BY <1>4, ScheduleKeepsRows, KeptRequests, SchedulerLeavesWorkers, ExecutionsUntouched, NoNewOrphan
       DEF Schedule
<1>5. CASE EnvStep
    <2>1. ExecutingTask(t)' = ExecutingTask(t)
        BY <1>5, EnvLeavesWorkers, ExecutionsUntouched DEF workerVars
    <2>2. CASE RunningKept
        BY <2>1, <2>2, NoNewOrphan
    <2>3. ASSUME NEW u \in Task, Ageing(u) PROVE Orphan(t)
        BY <2>1, <2>3, AgeingRow DEF Orphan
    <2> QED
        BY <1>5, <2>2, <2>3, AdminRows, ClockKeepsRows, SettingsKeepRows, KeptRequests DEF EnvStep, Withdraws
<1>6. CASE Restart
    BY <1>6 DEF Restart, TypeInv, TypeOK, EnvTypeOK
<1>7. CASE UNCHANGED vars
    BY <1>7 DEF vars, engineVars, tableVars, workerVars, Orphan, ExecutingTask
<1> QED
    BY <1>1, <1>2, <1>3, <1>4, <1>5, <1>6, <1>7 DEF Next, EnvStep

(***************************************************************************)
(* A row in "running" that nobody runs was left there by a fault or by the  *)
(* death of the process.                                                    *)
(***************************************************************************)
THEOREM OrphansOnlyFromFaults == Spec => OrphansComeFromFaults
<1>1. IInv /\ [Next]_vars =>
          [\A t \in Task : Orphan(t)' => Orphan(t) \/ faults' # faults \/ restarts' # restarts]_vars
    BY StepOrphans
<1> QED
    BY Invariance, <1>1, PTL DEF Spec, OrphansComeFromFaults

----------------------------------------------------------------------------
(***************************************************************************)
(* The watchdog.  Between its look and its UPDATE, a row it could reset     *)
(* belongs to nobody: the lease was free at the look, and a row marked      *)
(* since is not stale.                                                      *)
(***************************************************************************)
StaleInRun(t) == row[t].status = "running" /\ row[t].stale
WatchdogInv == wd = "reset" => \A t \in Task : ExecutingTask(t) => ~StaleInRun(t)

LEMMA WatchdogKept ==
    ASSUME WatchdogInv, RunningKept, wd' = wd,
           \A t \in Task : ExecutingTask(t)' => ExecutingTask(t)
    PROVE  WatchdogInv'
BY DEF WatchdogInv, StaleInRun, RunningKept, Calm

LEMMA DrainSparesLive ==
    ASSUME IInv, WatchdogInv, NEW w \in Worker, WorkerStep(w) \/ WorkerFault(w), wd' = wd
    PROVE  WatchdogInv'
<1> USE DEF IInv, TypeInv, TypeOK, WorkerTypeOK, Become
<1>b. {"run", "replan", "error", "finalize", "failsafe"} = Executing
    BY DEF Executing
<1>1. CASE MarkRunning(w)
    <2>1. \A r \in Row : ~[Started(r) EXCEPT !.stale = FALSE].stale
        BY DEF Started, Row
    <2>2. \A t \in Task : IF t = wtask[w] THEN ~row'[t].stale ELSE row'[t] = row[t]
        BY <1>1, <2>1 DEF MarkRunning, Change, TableTypeOK
    <2>3. \A t \in Task \ {wtask[w]} : ExecutingTask(t)' => ExecutingTask(t)
        BY <1>1, <1>b DEF MarkRunning, ExecutingTask
    <2> QED
        BY <2>2, <2>3 DEF WatchdogInv, StaleInRun
<1>2. CASE ~MarkRunning(w)
    <2>1. RunningKept
        BY <1>2, WorkerRows, KeptRequests
    <2>2. wpc'[w] \in Executing => wpc[w] \in Executing /\ wtask'[w] = wtask[w]
        BY <1>2, <1>b DEF WorkerStep, WorkerFault, Fetch, FetchNothing, MarkSuccess, Replan,
            RunFails, MarkRetryOrError, Finalize, Failsafe, ReleaseThenKick,
            FetchFails, MarkRunningFails, ReplanFails, MarkErrorFails, FinalizeFails
    <2>3. \A v \in Worker \ {w} : wpc'[v] = wpc[v] /\ wtask'[v] = wtask[v]
        BY <1>2 DEF WorkerStep, WorkerFault, Fetch, FetchNothing, MarkSuccess, Replan,
            RunFails, MarkRetryOrError, Finalize, Failsafe, ReleaseThenKick,
            FetchFails, MarkRunningFails, ReplanFails, MarkErrorFails, FinalizeFails
    <2>4. \A t \in Task : ExecutingTask(t)' => ExecutingTask(t)
        BY <2>2, <2>3 DEF ExecutingTask
    <2> QED
        BY <2>1, <2>4, WatchdogKept
<1> QED
    BY <1>1, <1>2

LEMMA NextWatchdog == IInv /\ WatchdogInv /\ [Next]_vars => WatchdogInv'
<1> SUFFICES ASSUME IInv, WatchdogInv, [Next]_vars PROVE WatchdogInv'
    OBVIOUS
<1> USE DEF IInv
<1>1. ASSUME NEW th \in Thread, Engine(th) PROVE WatchdogInv'
    <2>1. RunningKept /\ wd' = wd
        BY <1>1, CallRows, KeptRequests DEF Engine, Requests, envVars
    <2>2. CASE StartThread(th)
        <3>1. \A t \in Task : ExecutingTask(t)' => ExecutingTask(t)
            BY <2>2 DEF StartThread, FreeSlot, ExecutingTask, Executing, TypeInv, TypeOK, WorkerTypeOK
        <3> QED
            BY <2>1, <3>1, WatchdogKept
    <2>3. CASE ~StartThread(th)
        <3>1. UNCHANGED <<wpc, wtask>>
            BY <1>1, <2>3 DEF Engine, CallStep, CallFault, RequestStep, ReadCron, ReadEnabled, Request,
                LookAtLease, CountPending, Claim, EnqueueRaises, CountFails, StartFails,
                MarkManualRun, MarkQueueFailed, EnableToWake
        <3> QED
            BY <2>1, <3>1, ExecutionsUntouched, WatchdogKept
    <2> QED
        BY <2>2, <2>3
<1>2. ASSUME NEW w \in Worker, Drain(w) PROVE WatchdogInv'
    BY <1>2, DrainSparesLive DEF Drain, envVars
<1>3. ASSUME NEW th \in Thread, NEW u \in Task, Ask(th, u) PROVE WatchdogInv'
    <2>1. UNCHANGED <<wpc, wtask>> /\ wd' = wd
        BY <1>3 DEF Ask, RunNow, WakeTask, EnqueueByName, RunRequests, workerVars, envVars
    <2>2. RunningKept
        BY <1>3, AskRows, KeptRequests DEF Requests
    <2> QED
        BY <2>1, <2>2, ExecutionsUntouched, WatchdogKept
<1>4. CASE Schedule
    BY <1>4, ScheduleKeepsRows, KeptRequests, SchedulerLeavesWorkers, ExecutionsUntouched, WatchdogKept
       DEF Schedule, envVars
<1>5. CASE WatchdogLooks
    <2>1. UNCHANGED <<wpc, wtask>> /\ \A t \in Task : ~ExecutingTask(t)
        BY <1>5 DEF WatchdogLooks, engineVars, workerVars, LeaseInv, Holding, HoldsLease, ExecutingTask
    <2> QED
        BY <2>1, ExecutionsUntouched DEF WatchdogInv
<1>6. CASE WatchdogResets \/ Restart
    BY <1>6 DEF WatchdogResets, Restart, WatchdogInv
<1>7. ASSUME NEW u \in Task, Ageing(u) PROVE WatchdogInv'
    BY <1>7 DEF Ageing, envVars, WatchdogInv
<1>8. CASE SaveSettings \/ SettingsStep \/ \E u \in Task : AdminStep(u) \/ Clock(u)
    <2>1. UNCHANGED <<wpc, wtask>>
        BY <1>8, EnvLeavesWorkers DEF EnvStep, workerVars
    <2>2. RunningKept
        BY <1>8, AdminRows, ClockKeepsRows, SettingsKeepRows, KeptRequests DEF Withdraws
    <2>3. CASE SaveSettings \/ SettingsStep
        BY <2>1, <2>2, <2>3, ExecutionsUntouched, WatchdogKept
           DEF SaveSettings, SettingsStep, WriteTelemetry, ApplySwitch, ForceWakened, SyncExpiry, SaveEnds
    <2>4. ASSUME NEW u \in Task, AdminStep(u) \/ Clock(u) PROVE wd' = wd
        BY <2>4 DEF AdminStep, SetEnabled, SetForAutoMode, ForceRun, RunDisables, Clock, envVars
    <2> QED
        BY <1>8, <2>1, <2>2, <2>3, <2>4, ExecutionsUntouched, WatchdogKept
<1>9. CASE UNCHANGED vars
    BY <1>9 DEF vars, engineVars, tableVars, workerVars, envVars, WatchdogInv, StaleInRun, ExecutingTask
<1> QED
    BY <1>1, <1>2, <1>3, <1>4, <1>5, <1>6, <1>7, <1>8, <1>9 DEF Next

LEMMA ResetSparesLive ==
    ASSUME WatchdogInv, WatchdogResets, TypeInv, NEW t \in Task, ExecutingTask(t)
    PROVE  row'[t].status = row[t].status
<1>1. t \notin StaleRunning
    BY DEF WatchdogInv, WatchdogResets, StaleInRun, StaleRunning
<1> QED
    BY <1>1 DEF WatchdogResets, Change, TypeInv, TypeOK, TableTypeOK

(***************************************************************************)
(* The watchdog resets no row whose task is executing, however its look,    *)
(* its UPDATE and the workers interleave.                                   *)
(***************************************************************************)
THEOREM WatchdogIsSafe == Spec => WatchdogSparesLive
<1>1. Init => WatchdogInv
    BY DEF Init, WatchdogInv
<1>2. WatchdogInv /\ IInv /\ [Next]_vars =>
          [WatchdogResets => \A t \in Task : ExecutingTask(t) => row'[t].status = row[t].status]_vars
    BY ResetSparesLive DEF IInv
<1> QED
    BY Invariance, NextWatchdog, <1>1, <1>2, PTL DEF Spec, WatchdogSparesLive

----------------------------------------------------------------------------
(***************************************************************************)
(* Wake-ups.  The scheduler thread is in no call of its own while it does   *)
(* something else; so the only threads whose call a step overwrites are     *)
(* those that attend to nothing.                                            *)
(***************************************************************************)
Attending(th) == call[th].at \in {"kick", "count", "claim"}
Booting == spc \in {"start", "startCall", "recover"}
SchedIdle ==
    spc \in {"start", "recover", "loop", "rows", "firstRun"} => call[Sched].at = "rest"

LEMMA EnvLeavesStage ==
    ASSUME EnvStep
    PROVE  spc' = spc
<1>1. CASE WatchdogLooks \/ WatchdogResets
    BY <1>1 DEF WatchdogLooks, WatchdogResets, engineVars, schedVars
<1>2. CASE SaveSettings \/ SettingsStep
    BY <1>2 DEF SaveSettings, SettingsStep, WriteTelemetry, ApplySwitch, ForceWakened, SyncExpiry, SaveEnds,
                engineVars, schedVars
<1>3. ASSUME NEW t \in Task, AdminStep(t) PROVE spc' = spc
    BY <1>3 DEF AdminStep, SetEnabled, SetForAutoMode, ForceRun, RunDisables, schedVars
<1>4. ASSUME NEW t \in Task, Clock(t) \/ Ageing(t) PROVE spc' = spc
    BY <1>4 DEF Clock, Ageing, schedVars
<1> QED
    BY <1>1, <1>2, <1>3, <1>4 DEF EnvStep

LEMMA NextSchedIdle == TypeInv /\ SchedIdle /\ [Next]_vars => SchedIdle'
<1> SUFFICES ASSUME TypeInv, SchedIdle, [Next]_vars PROVE SchedIdle'
    OBVIOUS
<1> USE DEF TypeInv, TypeOK, WorkerTypeOK
<1> Sched \in Thread
    BY DEF Thread
<1>1. ASSUME NEW th \in Thread, Engine(th) PROVE SchedIdle'
    <2>1. spc' = spc
        BY <1>1 DEF Engine, schedVars
    <2>2. CASE CallStep(th)
        BY <2>1, <2>2
           DEF CallStep, ReadCron, ReadEnabled, Request, LookAtLease, CountPending, Claim, StartThread,
               Goto, Return, NoCall, SchedIdle
    <2>3. CASE CallFault(th)
        BY <2>1, <2>3
           DEF CallFault, EnqueueRaises, CountFails, StartFails, Return, Raise, NoCall, SchedIdle
    <2>4. CASE RequestStep(th)
        BY <2>1, <2>4, ThreadsDiffer
           DEF RequestStep, MarkManualRun, MarkQueueFailed, EnableToWake, Goto, Return, NoCall, SchedIdle
    <2> QED
        BY <1>1, <2>2, <2>3, <2>4 DEF Engine
<1>2. ASSUME NEW w \in Worker, Drain(w) PROVE SchedIdle'
    <2>1. spc' = spc /\ w # Sched
        BY <1>2, ThreadsDiffer DEF Drain, schedVars
    <2>2. CASE ReleaseThenKick(w)
        BY <2>1, <2>2 DEF ReleaseThenKick, Goto, SchedIdle
    <2>3. CASE ~ReleaseThenKick(w)
        <3>1. call' = call
            BY <1>2, <2>3 DEF Drain, WorkerStep, WorkerFault, Fetch, FetchNothing, MarkRunning, MarkSuccess,
                Replan, RunFails, MarkRetryOrError, Finalize, Failsafe,
                FetchFails, MarkRunningFails, ReplanFails, MarkErrorFails, FinalizeFails
        <3> QED
            BY <2>1, <3>1 DEF SchedIdle
    <2> QED
        BY <2>2, <2>3
<1>3. ASSUME NEW th \in Thread, NEW t \in Task, Ask(th, t) PROVE SchedIdle'
    BY <1>3, ThreadsDiffer DEF Ask, RunNow, WakeTask, EnqueueByName, RunRequests, workerVars, schedVars, SchedIdle
<1>4. CASE Schedule
    <2> USE DEF Schedule, SchedIdle, Proceed, CallEnqueue, CallKick, Answered, NoCall, RowDone
    <2>1. CASE StartScheduler \/ PlanCheckUpdate \/ StartCallFails \/ RecoverState \/ RecoverKickReturns
        BY <2>1 DEF StartScheduler, PlanCheckUpdate, StartCallFails, RecoverState, RecoverKickReturns
    <2>2. CASE WakeUp \/ LoopKickRaises \/ ReadRows \/ TickEnds \/ EnqueueRetry \/ PlanFirst
        BY <2>2 DEF WakeUp, LoopKickRaises, ReadRows, TickEnds, EnqueueRetry, PlanFirst, workerVars
    <2>3. CASE DecideRow \/ EnqueueRefused \/ EnqueueRaised \/ TakeRetry \/ Advance \/ RecordFirstRun
        BY <2>3 DEF DecideRow, EnqueueRefused, EnqueueRaised, TakeRetry, Advance, RecordFirstRun, workerVars
    <2>4. CASE SchedFault
        BY <2>4 DEF SchedFault
    <2> QED
        BY <1>4, <2>1, <2>2, <2>3, <2>4 DEF SchedStep
<1>5. CASE EnvStep
    BY <1>5, EnvLeavesWorkers, EnvLeavesStage DEF workerVars, SchedIdle
<1>6. CASE Restart
    BY <1>6 DEF Restart, NoCall, SchedIdle
<1>7. CASE UNCHANGED vars
    BY <1>7 DEF vars, engineVars, workerVars, schedVars, SchedIdle
<1> QED
    BY <1>1, <1>2, <1>3, <1>4, <1>5, <1>6, <1>7 DEF Next, EnvStep

\* Steps that enable nothing and request nothing make nothing pending.
NothingEnabled == \A t \in Task : row'[t].enabled => row[t].enabled

LEMMA NothingNewPending ==
    ASSUME NothingEnabled, RequestsKept, Pending = {}
    PROVE  Pending' = {}
BY DEF NothingEnabled, RequestsKept, Pending

LEMMA AttendedKept ==
    ASSUME Attended, NothingEnabled, RequestsKept, lease' = lease,
           \A th \in Thread : Attending(th) => Attending(th)',
           Booting => Booting'
    PROVE  Attended'
<1>1. Pending = {} => Pending' = {}
    BY NothingNewPending
<1> QED
    BY <1>1 DEF Attended, Attending, Booting

LEMMA CallAttends ==
    ASSUME IInv, Attended, NothingEnabled, faults' = faults, NEW th \in Thread, Engine(th)
    PROVE  Attended'
<1> USE DEF IInv, TypeInv, TypeOK, WorkerTypeOK
<1>a. spc' = spc
    BY DEF Engine, schedVars
<1>1. CASE Request(th)
    BY <1>1 DEF Request, Goto, Attended
<1>2. CASE Claim(th)
    BY <1>2 DEF Claim, Attended
<1>3. CASE StartThread(th)
    BY <1>3 DEF StartThread, LeaseInv, Starting, Attended
<1>4. CASE CallFault(th)
    BY <1>4 DEF CallFault, EnqueueRaises, CountFails, StartFails, Fault
<1>5. CASE LookAtLease(th)
    BY <1>5 DEF LookAtLease, Goto, Attended
<1>6. CASE CountPending(th)
    <2>1. RequestsKept
        BY <1>6 DEF CountPending, tableVars, RequestsKept
    <2> QED
        BY <1>6, <2>1, NothingNewPending DEF CountPending, Goto, Attended
<1>7. CASE ReadCron(th) \/ ReadEnabled(th)
    <2>1. RequestsKept
        BY <1>7 DEF ReadCron, ReadEnabled, tableVars, RequestsKept
    <2> QED
        BY <1>7, <1>a, <2>1, AttendedKept
           DEF ReadCron, ReadEnabled, Goto, Return, NoCall, Attending, Booting
<1>8. CASE RequestStep(th)
    <2>1. RequestsKept
        <3>1. CASE MarkManualRun(th)
            BY <3>1, ClausesKeep DEF Fresh, Kept, MarkManualRun, Change, RequestsKept, TableTypeOK
        <3>2. CASE MarkQueueFailed(th)
            BY <3>2, ClausesKeep DEF Fresh, Kept, MarkQueueFailed, Change, RequestsKept, TableTypeOK
        <3>3. CASE EnableToWake(th)
            BY <3>3, ClausesKeep DEF Fresh, Kept, EnableToWake, Change, RequestsKept, TableTypeOK
        <3> QED
            BY <1>8, <3>1, <3>2, <3>3 DEF RequestStep
    <2> QED
        BY <1>8, <1>a, <2>1, AttendedKept
           DEF RequestStep, MarkManualRun, MarkQueueFailed, EnableToWake, Goto, Return, NoCall,
               Attending, Booting
<1> QED
    BY <1>1, <1>2, <1>3, <1>4, <1>5, <1>6, <1>7, <1>8 DEF Engine, CallStep

LEMMA DrainAttends ==
    ASSUME IInv, NEW w \in Worker, Drain(w)
    PROVE  Attended'
<1> USE DEF IInv, TypeInv, TypeOK, WorkerTypeOK
<1> w \in Thread
    BY DEF Thread
<1>1. CASE ReleaseThenKick(w)
    BY <1>1 DEF ReleaseThenKick, Goto, Attended
<1>2. CASE ~ReleaseThenKick(w)
    <2>1. lease' = lease /\ Holding(w)
        BY <1>2 DEF Drain, WorkerStep, WorkerFault, Fetch, FetchNothing, MarkRunning, MarkSuccess,
            Replan, RunFails, MarkRetryOrError, Finalize, Failsafe,
            FetchFails, MarkRunningFails, ReplanFails, MarkErrorFails, FinalizeFails,
            Holding, HoldsLease, Executing
    <2> QED
        BY <2>1 DEF LeaseInv, Attended
<1> QED
    BY <1>1, <1>2

LEMMA ScheduleAttends ==
    ASSUME IInv, SchedIdle, Attended, NothingEnabled, SchedStep
    PROVE  Attended'
<1> USE DEF IInv, TypeInv, TypeOK, WorkerTypeOK, Proceed
<1> Sched \in Thread
    BY DEF Thread
<1>a. RequestsKept /\ lease' = lease
    BY ScheduleKeepsRows, SchedulerLeavesWorkers, KeptRequests
<1>1. CASE StartScheduler \/ PlanCheckUpdate \/ StartCallFails
    BY <1>1 DEF StartScheduler, PlanCheckUpdate, StartCallFails, Attended
<1>2. CASE RecoverState \/ WakeUp
    BY <1>2 DEF RecoverState, WakeUp, CallKick, Attended
<1>3. CASE RecoverKickReturns \/ LoopKickRaises \/ ReadRows \/ EnqueueRefused \/ EnqueueRaised
              \/ TakeRetry \/ Advance
    <2>1. ~Booting /\ \A th \in Thread : Attending(th) => Attending(th)'
        BY <1>3 DEF RecoverKickReturns, LoopKickRaises, ReadRows, EnqueueRefused, EnqueueRaised,
                    TakeRetry, Advance, Answered, NoCall, Attending, Booting
    <2> QED
        BY <1>a, <2>1, AttendedKept
<1>4. CASE TickEnds \/ EnqueueRetry \/ PlanFirst \/ DecideRow \/ RecordFirstRun
    <2>1. ~Booting /\ call[Sched].at = "rest"
        BY <1>4 DEF TickEnds, EnqueueRetry, PlanFirst, DecideRow, RecordFirstRun, SchedIdle, Booting
    <2>2. \A th \in Thread : Attending(th) => Attending(th)'
        BY <1>4, <2>1 DEF TickEnds, EnqueueRetry, PlanFirst, DecideRow, RecordFirstRun, CallEnqueue,
                          workerVars, Attending
    <2> QED
        BY <1>a, <2>1, <2>2, AttendedKept
<1> QED
    BY <1>1, <1>2, <1>3, <1>4 DEF SchedStep

LEMMA StepAttends ==
    IInv /\ SchedIdle /\ [Next]_vars =>
        (Attended /\ faults' = faults /\ (\A t \in Task : row'[t].enabled => row[t].enabled)
            => Attended')
<1> SUFFICES ASSUME IInv, SchedIdle, [Next]_vars, Attended, faults' = faults, NothingEnabled
             PROVE  Attended'
    BY DEF NothingEnabled
<1> USE DEF IInv
<1>1. ASSUME NEW th \in Thread, Engine(th) PROVE Attended'
    BY <1>1, CallAttends
<1>2. ASSUME NEW w \in Worker, Drain(w) PROVE Attended'
    BY <1>2, DrainAttends
<1>3. ASSUME NEW th \in Thread, NEW u \in Task, Ask(th, u) PROVE Attended'
    <2>1. CASE RunNow(th, u) \/ WakeTask(th, u) \/ EnqueueByName(th, u)
        <3>1. RequestsKept
            BY <2>1 DEF RunNow, WakeTask, EnqueueByName, tableVars, RequestsKept
        <3> QED
            BY <1>3, <2>1, <3>1, AttendedKept
               DEF Ask, RunNow, WakeTask, EnqueueByName, schedVars, Attending, Booting, TypeInv, TypeOK, WorkerTypeOK
    <2>2. CASE th \in Worker /\ RunRequests(th, u)
        BY <2>2 DEF RunRequests, workerVars, LeaseInv, Holding, HoldsLease, Executing, Attended
    <2> QED
        BY <1>3, <2>1, <2>2 DEF Ask
<1>4. CASE Schedule
    BY <1>4, ScheduleAttends DEF Schedule, SchedFault, Fault, TypeInv, TypeOK, WorkerTypeOK
<1>5. CASE EnvStep
    <2>1. UNCHANGED <<lease, call, spc>>
        BY <1>5, EnvLeavesWorkers, EnvLeavesStage DEF workerVars
    <2>2. CASE RequestsKept
        BY <2>1, <2>2, AttendedKept DEF Attending, Booting
    <2>3. CASE \E w \in Worker : wpc[w] = "run"
        BY <2>1, <2>3 DEF LeaseInv, Holding, HoldsLease, Executing, Attended
    <2> QED
        BY <1>5, <2>2, <2>3, AdminRows, ClockKeepsRows, AgeingRow, SettingsKeepRows, KeptRequests
           DEF EnvStep, Withdraws
<1>6. CASE Restart
    BY <1>6 DEF Restart, Attended
<1>7. CASE UNCHANGED vars
    BY <1>7 DEF vars, engineVars, tableVars, workerVars, schedVars, Attended, Pending
<1> QED
    BY <1>1, <1>2, <1>3, <1>4, <1>5, <1>6, <1>7 DEF Next, EnvStep

(***************************************************************************)
(* No wake-up is lost, whatever threads request, kick and exit at the same  *)
(* moment.                                                                  *)
(***************************************************************************)
THEOREM WakeupsAreKept == Spec => NoLostWakeup
<1>1. Init => SchedIdle
    BY DEF Init, SchedInit, WorkerInit, NoCall, SchedIdle, Thread
<1>2. IInv /\ SchedIdle /\ [Next]_vars =>
          [Attended /\ faults' = faults /\ (\A t \in Task : row'[t].enabled => row[t].enabled)
              => Attended']_vars
    BY StepAttends
<1>3. IInv => TypeInv
    BY DEF IInv
<1> QED
    BY Invariance, NextSchedIdle, <1>1, <1>2, <1>3, PTL DEF Spec, NoLostWakeup
====
