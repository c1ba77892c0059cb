---- MODULE TaskTable ----
(***************************************************************************)
(* The `tasks` table (tables.sql) and the SQL statements the task engine    *)
(* executes on it.  Every statement is one transaction of the shared SQLite *)
(* connection (db_manager.py takes a lock and commits), hence one update of *)
(* `row`.  Timestamps are kept as far as the code compares them:            *)
(*   retryAt, nextRun   NULL, still in the future, or due;                  *)
(*   ran                last_run IS NOT NULL;                               *)
(*   stale              updated_at is older than the watchdog's 30 minutes; *)
(*   older              pairs <<x, y>> with x.updated_at < y.updated_at.    *)
(***************************************************************************)
EXTENDS Integers, FiniteSets

CONSTANTS
    Task,         \* the ids of the rows of the table
    Priority,     \* the worker's ORDER BY rank of each task's name
    MaxRetries,   \* tasks.max_retries
    Scheduled     \* the rows whose schedule is not NULL

ASSUME TaskIds == Task \subseteq Nat
ASSUME PriorityType == Priority \in [Task -> Nat]
ASSUME MaxRetriesType == MaxRetries \in [Task -> Nat]
ASSUME ScheduledType == Scheduled \subseteq Task

VARIABLES
    row,          \* the table
    older,        \* the order of updated_at
    cronOn        \* settings.enable_cron_jobs

tableVars == <<row, older, cronOn>>

Status == {"disabled", "idle", "queued", "running", "error"}
Moment == {"null", "later", "due"}

Row == [status  : Status,
        enabled : BOOLEAN,
        prev    : {"null", "on", "off"},     \* enabled_prev
        queued  : {0, 1},                    \* queued_count
        retry   : Nat,                       \* retry_count
        retryAt : Moment,                    \* next_retry_at
        nextRun : Moment,
        ran     : BOOLEAN,
        stale   : BOOLEAN]

TableTypeOK ==
    /\ row \in [Task -> Row]
    /\ older \in SUBSET (Task \X Task)
    /\ cronOn \in BOOLEAN

Flag(on) == IF on THEN "on" ELSE "off"

(***************************************************************************)
(* A row as the catalogue seeds it: never run, nothing planned.             *)
(***************************************************************************)
SeedRow(on) ==
    [status |-> IF on THEN "idle" ELSE "disabled", enabled |-> on,
     prev |-> "null", queued |-> 0, retry |-> 0, retryAt |-> "null",
     nextRun |-> "null", ran |-> FALSE, stale |-> FALSE]

TableInit ==
    /\ row \in [Task -> {SeedRow(TRUE), SeedRow(FALSE)}]
    /\ older = {}
    /\ cronOn = TRUE

\* The rows of T are written now, all at once.
Touch(T, order) ==
    {p \in Task \X Task : p[1] \notin T /\ (p[2] \in T \/ p \in order)}

(***************************************************************************)
(* UPDATE tasks SET ... WHERE id IN T.  Upd is the SET clause.  Change also *)
(* sets updated_at (and so makes the rows of T the latest); ChangeQuietly   *)
(* is for the statements that leave updated_at alone.                       *)
(***************************************************************************)
ChangeQuietly(T, Upd(_)) ==
    /\ row' = [t \in Task |-> IF t \in T THEN Upd(row[t]) ELSE row[t]]
    /\ older' = older

Change(T, Upd(_)) ==
    /\ row' = [t \in Task |->
                  IF t \in T THEN [Upd(row[t]) EXCEPT !.stale = FALSE] ELSE row[t]]
    /\ older' = Touch(T, older)

(***************************************************************************)
(* The SET clauses of tasks_engine.py.                                      *)
(***************************************************************************)
\* enqueue_task: one outstanding request at most, whoever asks.
Requested(r) == [r EXCEPT !.queued = 1,
                          !.status = IF @ = "running" THEN @ ELSE "queued"]

\* Mutant: the request is not consumed.
StartedStillQueued(r) == [r EXCEPT !.status = "running", !.retryAt = "null"]

\* _mark_task_running: consumes the request; does not look at `enabled`.
Started(r) == [r EXCEPT !.status = "running", !.retryAt = "null", !.queued = 0]

\* _handle_task_success, first statement.
Succeeded(r) == [r EXCEPT !.status = IF r.queued > 0 THEN "queued" ELSE "idle",
                          !.ran = TRUE, !.retry = 0, !.retryAt = "null"]

\* _mark_task_retry_or_error with retries left: `attempt` is the one announced.
RetryPlanned(r, attempt) ==
    [r EXCEPT !.status = IF r.queued > 0 THEN "queued" ELSE "error",
              !.ran = TRUE, !.retry = attempt, !.retryAt = "later"]

\* _mark_task_retry_or_error with no retry left.
GivenUp(r) == [r EXCEPT !.status = IF r.queued > 0 THEN "queued" ELSE "error",
                        !.ran = TRUE, !.retryAt = "null"]

\* _finalize_task_running_failsafe, and recover_stuck_tasks.
BackToIdle(r) == [r EXCEPT !.status = "idle"]

\* mark_task_manual_run_requested and mark_task_queue_failed.
ManualRun(r) == [r EXCEPT !.status = IF @ = "running" THEN @ ELSE "queued",
                          !.retryAt = "null"]
QueueFailed(r) == [r EXCEPT !.status = "error"]

(***************************************************************************)
(* The SET clauses of core/tasks: scheduler, runtime and configuration.     *)
(***************************************************************************)
RetryTaken(r)  == [r EXCEPT !.retryAt = "null"]
Advanced(r)    == [r EXCEPT !.nextRun = "later"]
FirstRunSeen(r) == [r EXCEPT !.ran = TRUE]

\* recover_state; its WHERE is in RecoverState of TaskScheduler.
Recovered(r) == IF ~r.enabled THEN r
                ELSE [r EXCEPT !.status = IF r.queued > 0 THEN "queued" ELSE "idle"]

\* set_task_enabled (the Tasks page).
Enabled(r)  == [r EXCEPT !.enabled = TRUE, !.status = "idle", !.nextRun = "null",
                         !.retry = 0, !.retryAt = "null"]
Disabled(r) == [r EXCEPT !.enabled = FALSE, !.status = "disabled"]

\* set_task(s)_enabled..._for_auto_mode and ensure_tasks_enabled.
AutoEnabled(r)  == [r EXCEPT !.enabled = TRUE,
                             !.status = IF @ = "disabled" THEN "idle" ELSE @]
AutoDisabled(r) == [r EXCEPT !.enabled = FALSE,
                             !.status = IF @ \in {"running", "queued"} THEN @
                                                                      ELSE "disabled"]

\* set_tasks_enabled_by_names, enabling (the mailing switch).
NamedEnabled(r) == [r EXCEPT !.enabled = TRUE, !.status = "idle"]

\* routes/settings.py writes send_telemetry with every save, unlike the others
\* whatever the master switch says.
TelemetryWritten(r, on) == [r EXCEPT !.enabled = on, !.nextRun = "null",
                                     !.status = IF on THEN "idle" ELSE "disabled"]

\* check_mailing_status, _set_task_state: of the statements of a running engine,
\* the only one that withdraws a request.  migration_worker: out of work, it
\* disables itself and nothing else.
MailDisabled(r) == [r EXCEPT !.enabled = FALSE, !.status = "disabled",
                             !.nextRun = "null", !.queued = 0]
Retired(r) == [r EXCEPT !.enabled = FALSE]

\* db_bootstrap: import_tautulli, which has no schedule, and the repair of a task
\* that never ran.
OnDemand(r) == [r EXCEPT !.enabled = TRUE, !.nextRun = "null",
                         !.status = IF @ = "running" THEN @ ELSE "idle"]
Repaired(r) == IF r.enabled \/ r.ran THEN r
               ELSE [r EXCEPT !.enabled = TRUE, !.status = "idle"]

\* sync_expiry_tasks_from_settings while the master switch is off.
Remembered(r, on) == [r EXCEPT !.prev = Flag(on)]

\* apply_cron_master_switch.
SwitchedOff(r) == [r EXCEPT !.prev = IF @ = "null" THEN Flag(r.enabled) ELSE @,
                            !.enabled = FALSE, !.status = "disabled"]
SwitchedOn(r) ==
    LET on == IF r.prev = "null" THEN r.enabled ELSE r.prev = "on"
    IN  [r EXCEPT !.enabled = on, !.prev = "null",
                  !.status = IF on THEN "idle" ELSE "disabled"]

(***************************************************************************)
(* The WHERE clause and the ORDER BY of the worker's SELECT ... LIMIT 1.    *)
(***************************************************************************)
Pending == {t \in Task : row[t].queued > 0 /\ row[t].enabled}

\* Mutant: last in, first out.
BeforeIfNewer(t, u) ==
    Priority[t] < Priority[u] \/ (Priority[t] = Priority[u] /\ <<t, u>> \notin older)

Before(t, u) ==
    \/ Priority[t] < Priority[u]
    \/ Priority[t] = Priority[u] /\ <<t, u>> \in older
    \/ Priority[t] = Priority[u] /\ <<u, t>> \notin older /\ t <= u

NextPending(t) == t \in Pending /\ \A u \in Pending : Before(t, u)

(***************************************************************************)
(* scheduler_rules.py.                                                      *)
(***************************************************************************)
RetryIsPending(t, r) ==
    r.status = "error" /\ r.retryAt # "null" /\ r.retry < MaxRetries[t]

\* Mutant: a failed task counts as busy.
TaskIsBusyInError(r) == r.status \in {"running", "queued", "error"} \/ r.queued > 0

TaskIsBusy(r) == r.status \in {"running", "queued"} \/ r.queued > 0

(***************************************************************************)
(* The clock: a planned instant is reached; a row in `running` has not been *)
(* written for 30 minutes (the watchdog looks at no other row).             *)
(***************************************************************************)
RetryFallsDue(t) ==
    /\ row[t].retryAt = "later"
    /\ row' = [row EXCEPT ![t].retryAt = "due"]
    /\ UNCHANGED <<older, cronOn>>

RunFallsDue(t) ==
    /\ row[t].nextRun = "later"
    /\ row' = [row EXCEPT ![t].nextRun = "due"]
    /\ UNCHANGED <<older, cronOn>>

GrowsStale(t) ==
    /\ row[t].status = "running" /\ ~row[t].stale
    /\ row' = [row EXCEPT ![t].stale = TRUE]
    /\ UNCHANGED <<older, cronOn>>
====
