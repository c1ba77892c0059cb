---- MODULE TaskEngine ----
(***************************************************************************)
(* The task engine as a whole: the queue and its worker (TaskWorker), the   *)
(* scheduler thread (TaskScheduler), the watchdog thread, the settings and  *)
(* tasks the rest of the application changes under them, and restarts of    *)
(* the process.                                                             *)
(***************************************************************************)
EXTENDS TaskScheduler

CONSTANTS
    ExpiryTask,   \* the rows driven by settings.expiry_mode
    Telemetry,    \* the row named send_telemetry
    Slow,         \* the tasks whose run may last 30 minutes and more
    Wakened,      \* the rows a change of the settings forces to run
    BootRule,     \* what every boot does with a row
    MaxChanges,   \* bound: changes of a row's enablement or the master switch, forced runs
    MaxRestarts   \* bound: deaths of the process

ASSUME ExpiryTaskType == ExpiryTask \subseteq Task
ASSUME TelemetryType == Telemetry \subseteq Task
ASSUME WakenedType == Wakened \subseteq Task
ASSUME BootRuleType == BootRule \in [Task -> {"none", "enable", "onDemand", "repair"}]
ASSUME SlowType == Slow \subseteq Task
ASSUME BoundsType == MaxChanges \in Nat /\ MaxRestarts \in Nat

VARIABLES
    wd,           \* the watchdog: asleep, or past its look at the lease
    sw,           \* the request that saves the settings: at rest or half done
    form,         \* what it has to write: see SaveSettings
    changes, restarts

envVars == <<wd, sw, form, changes, restarts>>
vars == <<engineVars, envVars>>

NoForm == [telemetry |-> {}, switched |-> FALSE, wanted |-> {}, todo |-> {}]

EnvTypeOK ==
    /\ wd \in {"sleep", "reset"}
    /\ sw \in {"rest", "telemetry", "apply", "wake", "sync"}
    /\ form \in [telemetry : SUBSET Task, switched : BOOLEAN,
                 wanted : SUBSET Task, todo : SUBSET Task]
    /\ changes \in 0..MaxChanges
    /\ restarts \in 0..MaxRestarts

TypeOK == TableTypeOK /\ WorkerTypeOK /\ SchedTypeOK /\ EnvTypeOK

Init ==
    /\ TableInit /\ WorkerInit /\ SchedInit
    /\ wd = "sleep" /\ sw = "rest" /\ form = NoForm
    /\ changes = 0 /\ restarts = 0

ExecutingTask(t) == \E w \in Worker : wpc[w] \in Executing /\ wtask[w] = t

\* A row that says "running" while no thread runs it.
Orphan(t) == row[t].status = "running" /\ ~ExecutingTask(t)

----------------------------------------------------------------------------
\* recover_stuck_tasks, every 300 seconds.  Its COUNT has no effect of its own:
\* a row counted or reset is one that was stale already at the look.

StaleRunning == {t \in Task : row[t].status = "running" /\ row[t].stale}

\* Mutant: the watchdog does not ask whether a worker lives.
WatchdogLooksOnlyAtRows ==
    /\ wd = "sleep" /\ StaleRunning # {}
    /\ wd' = "reset"
    /\ UNCHANGED <<engineVars, sw, form, changes, restarts>>

WatchdogLooks ==
    /\ wd = "sleep" /\ ~lease /\ StaleRunning # {}
    /\ wd' = "reset"
    /\ UNCHANGED <<engineVars, sw, form, changes, restarts>>

WatchdogResets ==
    /\ wd = "reset"
    /\ Change(StaleRunning, BackToIdle)
    /\ wd' = "sleep"
    /\ UNCHANGED <<cronOn, workerVars, schedVars, sw, form, changes, restarts>>

\* 30 minutes pass in a run that is slow, or after one that died; never between
\* the watchdog's look and its UPDATE.
Ageing(t) ==
    /\ wd = "sleep" /\ (t \in Slow \/ Orphan(t))
    /\ GrowsStale(t)
    /\ UNCHANGED <<workerVars, schedVars, envVars>>

Clock(t) ==
    /\ RetryFallsDue(t) \/ RunFallsDue(t)
    /\ UNCHANGED <<workerVars, schedVars, envVars>>

----------------------------------------------------------------------------
Counted == changes < MaxChanges /\ changes' = changes + 1

\* Saving the settings (routes/settings.py): the setting, the telemetry row,
\* every row when the master switch has changed, the forced runs, and the expiry
\* rows one by one; expiry_mode wants one of them enabled, or none.

SaveSettings ==
    /\ sw = "rest" /\ Counted
    /\ \E on \in BOOLEAN, telemetry \in {{}, Telemetry},
          wanted \in {{}} \cup {{t} : t \in ExpiryTask} :
          /\ cronOn' = on
          /\ form' = [telemetry |-> telemetry, switched |-> on # cronOn,
                      wanted |-> wanted, todo |-> ExpiryTask]
    /\ sw' = "telemetry"
    /\ UNCHANGED <<row, older, workerVars, schedVars, wd, restarts>>

WriteTelemetry ==
    /\ sw = "telemetry"
    /\ Change(Telemetry, LAMBDA r : TelemetryWritten(r, form.telemetry # {}))
    /\ sw' = IF form.switched THEN "apply" ELSE "wake"
    /\ UNCHANGED <<cronOn, workerVars, schedVars, wd, form, changes, restarts>>

ApplySwitch ==
    /\ sw = "apply"
    /\ IF cronOn THEN Change(Task, SwitchedOn) ELSE Change(Task, SwitchedOff)
    /\ sw' = "wake"
    /\ UNCHANGED <<cronOn, workerVars, schedVars, wd, form, changes, restarts>>

ForceWakened ==
    /\ sw = "wake"
    /\ forced' = forced \cup Wakened \cup form.telemetry
    /\ sw' = "sync"
    /\ UNCHANGED <<tableVars, workerVars, spc, plan, cur, wd, form, changes, restarts>>

SyncExpiry ==
    /\ sw = "sync"
    /\ \E t \in form.todo :
          /\ \A u \in form.todo : t <= u
          /\ IF ~cronOn THEN ChangeQuietly({t}, LAMBDA r : Remembered(r, t \in form.wanted))
             ELSE IF t \in form.wanted THEN Change({t}, Enabled) ELSE Change({t}, Disabled)
          /\ form' = [form EXCEPT !.todo = @ \ {t}]
    /\ UNCHANGED <<cronOn, workerVars, schedVars, wd, sw, changes, restarts>>

SaveEnds ==
    /\ sw = "sync" /\ form.todo = {}
    /\ sw' = "rest"
    /\ form' = NoForm
    /\ UNCHANGED <<engineVars, wd, changes, restarts>>

SettingsStep == WriteTelemetry \/ ApplySwitch \/ ForceWakened \/ SyncExpiry \/ SaveEnds

----------------------------------------------------------------------------
\* What administrators, the auto-enable pass and running tasks do to a row.

SetEnabled(t) ==
    /\ Counted
    /\ \/ Change({t}, Enabled) \/ Change({t}, Disabled)
       \/ Change({t}, NamedEnabled)
    /\ UNCHANGED <<cronOn, workerVars, schedVars, wd, sw, form, restarts>>

SetForAutoMode(t) ==
    /\ Counted
    /\ \/ Change({t}, AutoEnabled) \/ Change({t}, AutoDisabled)
    /\ UNCHANGED <<cronOn, workerVars, schedVars, wd, sw, form, restarts>>

ForceRun(t) ==
    /\ Counted
    /\ t \notin forced
    /\ forced' = forced \cup {t}
    /\ UNCHANGED <<tableVars, workerVars, spc, plan, cur, wd, sw, form, restarts>>

\* From inside a run: check_mailing_status disables another row and withdraws
\* its request (it has read the row before, and spares one already disabled);
\* migration_worker disables its own.
RunDisables(w, t) ==
    /\ Counted
    /\ wpc[w] = "run"
    /\ IF t = wtask[w] THEN ChangeQuietly({t}, Retired) ELSE Change({t}, MailDisabled)
    /\ UNCHANGED <<cronOn, workerVars, schedVars, wd, sw, form, restarts>>

----------------------------------------------------------------------------
\* The process dies and is started again: threads and memory are gone, the table
\* is as the last statement left it, and db_bootstrap runs over it.

Booted(rule) == {t \in Task : BootRule[t] = rule}

\* The seed enables some rows; with the master switch off every row is switched
\* off again; then a row that never ran is repaired, whatever the switch says.
Seeded(t) ==
    CASE t \in Booted("enable")   -> AutoEnabled(row[t])
      [] t \in Booted("onDemand") -> [OnDemand(row[t]) EXCEPT !.stale = FALSE]
      [] OTHER                    -> row[t]

Enforced(t) == IF cronOn THEN Seeded(t) ELSE [SwitchedOff(Seeded(t)) EXCEPT !.stale = FALSE]

Bootstrap ==
    LET written == IF cronOn THEN Booted("onDemand") ELSE Task
        mended  == {t \in Booted("repair") : Repaired(Enforced(t)) # Enforced(t)}
    IN  /\ row' = [t \in Task |->
                     IF t \in mended THEN [Repaired(Enforced(t)) EXCEPT !.stale = FALSE]
                                     ELSE Enforced(t)]
        /\ older' = Touch(mended, Touch(written, older))

Restart ==
    /\ restarts < MaxRestarts
    /\ restarts' = restarts + 1
    /\ lease' = FALSE
    /\ call' = [th \in Thread |-> NoCall]
    /\ wpc' = [w \in Worker |-> "off"]
    /\ wtask' = [w \in Worker |-> NoTask]
    /\ wseen' = [w \in Worker |-> 0]
    /\ spc' = "start"
    /\ plan' = [t \in Task |-> Skip]
    /\ cur' = NoTask
    /\ forced' = {}
    /\ wd' = "sleep"
    /\ sw' = "rest"
    /\ form' = NoForm
    /\ Bootstrap
    /\ UNCHANGED <<cronOn, faults, changes>>

----------------------------------------------------------------------------
Engine(th) == (CallStep(th) \/ CallFault(th) \/ RequestStep(th)) /\ UNCHANGED <<schedVars, envVars>>
Drain(w)   == (WorkerStep(w) \/ WorkerFault(w)) /\ UNCHANGED <<schedVars, envVars>>
Ask(th, t) ==
    /\ \/ th \in Page /\ RunNow(th, t)
       \/ th \in Client /\ (WakeTask(th, t) \/ EnqueueByName(th, t))
       \/ th \in Worker /\ RunRequests(th, t)
    /\ UNCHANGED <<schedVars, envVars>>
Schedule == (SchedStep \/ SchedFault) /\ UNCHANGED envVars
AdminStep(t) == SetEnabled(t) \/ SetForAutoMode(t) \/ ForceRun(t) \/ \E w \in Worker : RunDisables(w, t)

Next ==
    \/ \E th \in Thread : Engine(th)
    \/ \E w \in Worker : Drain(w)
    \/ \E th \in Thread, t \in Task : Ask(th, t)
    \/ Schedule
    \/ WatchdogLooks \/ WatchdogResets
    \/ SaveSettings \/ SettingsStep
    \/ \E t \in Task : AdminStep(t) \/ Clock(t) \/ Ageing(t)
    \/ Restart

Spec == Init /\ [][Next]_vars

(***************************************************************************)
(* Threads that are runnable run, a task's run() returns, instants that are *)
(* planned arrive.  Nobody is obliged to ask, to change anything, or to     *)
(* fail.                                                                    *)
(***************************************************************************)
Fairness ==
    /\ \A th \in Thread : WF_vars((CallStep(th) \/ RequestStep(th)) /\ UNCHANGED <<schedVars, envVars>>)
    /\ \A w \in Worker : WF_vars(WorkerStep(w) /\ UNCHANGED <<schedVars, envVars>>)
    /\ WF_vars(SchedStep /\ UNCHANGED envVars)
    /\ WF_vars(WatchdogLooks) /\ WF_vars(WatchdogResets)
    /\ WF_vars(SettingsStep)
    /\ \A t \in Task : WF_vars(Clock(t)) /\ WF_vars(Ageing(t))

FairSpec == Spec /\ Fairness

----------------------------------------------------------------------------
(***************************************************************************)
(* "Strictly sequential": two worker threads never both hold the lease,     *)
(* although an exiting worker, the scheduler and request threads may each   *)
(* try to start one at the same moment.                                     *)
(***************************************************************************)
OneWorker == \A v, w \in Worker : wpc[v] \in HoldsLease /\ wpc[w] \in HoldsLease => v = w

(***************************************************************************)
(* The engine implements the queue of tasks.md: deduplicated requests, one  *)
(* execution at a time, and no execution without a request for that task    *)
(* made since its last execution began.                                     *)
(***************************************************************************)
Queue == INSTANCE TaskQueue WITH
    requested <- {t \in Task : row[t].queued > 0},
    executing <- IF \E w \in Worker : wpc[w] \in Executing
                 THEN wtask[CHOOSE w \in Worker : wpc[w] \in Executing] ELSE NoTask
QueueSpec == Queue!Spec

(***************************************************************************)
(* No lost wake-up: while a task is pending there is a worker, or a thread  *)
(* bound to start one.  The engine never leaves that state by itself, the   *)
(* race between an empty fetch and an enqueue included; only re-enabling a  *)
(* row that was requested earlier, or a fault, leaves it, and then the      *)
(* scheduler's kick every 30 seconds has to notice.                         *)
(***************************************************************************)
Attended ==
    \/ Pending = {}
    \/ lease
    \/ \E th \in Thread : call[th].at \in {"kick", "count", "claim"}
    \/ spc \in {"start", "startCall", "recover"}
NoLostWakeup ==
    [][ Attended /\ faults' = faults /\ (\A t \in Task : row'[t].enabled => row[t].enabled)
        => Attended' ]_vars

(***************************************************************************)
(* The watchdog never resets the row of a task that is really running: the  *)
(* lease it looked at was free, and a row a worker has since marked is not  *)
(* 30 minutes old.                                                          *)
(***************************************************************************)
WatchdogSparesLive ==
    [][ WatchdogResets => \A t \in Task : ExecutingTask(t) => row'[t].status = row[t].status ]_vars

(***************************************************************************)
(* A row is left in "running" without a thread only by the death of the     *)
(* process or by a database that fails: no order of manual runs, toggles,   *)
(* switches, retries and finalizations leaves one behind.                   *)
(***************************************************************************)
OrphansComeFromFaults ==
    [][ \A t \in Task : Orphan(t)' => Orphan(t) \/ faults' # faults \/ restarts' # restarts ]_vars

(***************************************************************************)
(* A retry the engine has announced (next_retry_at is set, the log says     *)
(* "retry scheduled (n/max)") is one the scheduler will recognise.          *)
(***************************************************************************)
AnnouncedRetryIsPending ==
    \A t \in Task : row[t].status = "error" /\ row[t].retryAt # "null" => RetryIsPending(t, row[t])

(***************************************************************************)
(* "Run now queues work": a row shown as queued is executed, unless it is   *)
(* disabled meanwhile.                                                      *)
(***************************************************************************)
QueuedIsServed ==
    \A t \in Task : row[t].status = "queued" ~> ExecutingTask(t) \/ ~row[t].enabled

(***************************************************************************)
(* Every request is served: a pending task is executed, or disabled, or its *)
(* request withdrawn, as long as the scheduler thread lives, however often  *)
(* other tasks of its priority are requested meanwhile.  A request for the  *)
(* same task moves it to the back of the queue (updated_at), so only "run   *)
(* now" on, or requests by the name of, that very task, again and again,    *)
(* may keep it waiting.                                                     *)
(***************************************************************************)
LeftAlone(t) == \A th \in Page \cup Client : call[th].task # t

PendingIsServed ==
    \A t \in Task :
        <>[](LeftAlone(t) /\ spc # "dead")
            => (t \in Pending ~> ExecutingTask(t) \/ t \notin Pending)

(***************************************************************************)
(* The schedule never dies: a scheduled task that stays enabled under a     *)
(* master switch that stays on is executed again and again, through         *)
(* failures, exhausted retries and manual runs.                             *)
(***************************************************************************)
ScheduleNeverDies ==
    \A t \in Scheduled :
        <>[](row[t].enabled /\ cronOn /\ LeftAlone(t) /\ spc # "dead")
            => []<>ExecutingTask(t)
====
