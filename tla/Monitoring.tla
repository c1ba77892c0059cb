---- MODULE Monitoring ----
(***************************************************************************)
(* Monitoring of one media server: the refresh jobs (monitor_enqueue_refresh *)
(* and media_jobs_worker), the collections they and the websocket make, the *)
(* stream enforcer and check_servers.  All but the websocket run one at a   *)
(* time in the worker of the task engine.                                   *)
(***************************************************************************)
EXTENDS StreamEnforcer

CONSTANT MaxTries \* max_attempts of a job

ASSUME MaxTriesType == MaxTries \in Nat \ {0}

VARIABLE job \* the refresh job of the server

vars == <<provider, sessionVars, budget, enf, job>>

\* A recovered job is claimed without a look at its attempts.  A job that has
\* succeeded or failed for good counts as none.
Job == [status   : {"none", "queued", "running"},
        attempts : 0..(MaxTries + MaxBudget["death"]),
        later    : BOOLEAN,    \* run_after is to come
        lease    : {"none", "held", "expired"}]

NoJob == [status |-> "none", attempts |-> 0, later |-> FALSE, lease |-> "none"]

TypeOK == SessionsType /\ EnforcerType /\ job \in Job

Init ==
    /\ SessionsInit
    /\ enf = NoRun
    /\ job = NoJob

WorkerIdle == coll[Worker].step = "rest" /\ enf.step = "rest"
Quiet == \A c \in Collector : coll[c].step = "rest"

outOfSessions == <<enf, job>>
sessions == <<provider, sessionVars, budget>>

----------------------------------------------------------------------------
(***************************************************************************)
(* The refresh job.                                                         *)
(***************************************************************************)
\* A queued job is brought forward, whatever its backoff; a running one is
\* taken back when its lease has run out.
EnqueueRefresh ==
    /\ WorkerIdle /\ ~Skipped
    /\ \/ /\ job.status = "none"
          /\ job' = [NoJob EXCEPT !.status = "queued"]
       \/ /\ job.status = "queued" /\ job.later
          /\ job' = [job EXCEPT !.later = FALSE, !.lease = "none"]
       \/ /\ job.status = "running" /\ job.lease # "held"
          /\ job' = [job EXCEPT !.status = "queued", !.later = FALSE, !.lease = "none"]
    /\ UNCHANGED <<sessions, enf>>

\* _recover_expired_running_refresh_jobs
RecoveredJob ==
    IF job.status = "running" /\ job.lease = "expired"
    THEN [job EXCEPT !.status = "queued", !.lease = "none"] ELSE job

\* A run of media_jobs_worker up to the call of the collector.
StartRefresh ==
    /\ WorkerIdle
    /\ RecoveredJob.status = "queued" /\ ~RecoveredJob.later
    /\ job' = [status |-> "running", attempts |-> RecoveredJob.attempts + 1,
               later |-> FALSE, lease |-> "held"]
    /\ coll' = [coll EXCEPT ![Worker].step = "begin"]
    /\ UNCHANGED <<provider, server, row, history, lives, overlapped, budget, enf>>

\* _mark_success, _mark_retry_or_error
EndRefresh ==
    /\ coll[Worker].step \in {"done", "failed"}
    /\ job' = IF coll[Worker].step = "done" \/ job.attempts >= MaxTries THEN NoJob
              ELSE [job EXCEPT !.status = "queued", !.later = TRUE, !.lease = "none"]
    /\ coll' = [coll EXCEPT ![Worker] = Resting]
    /\ UNCHANGED <<provider, server, row, history, lives, overlapped, budget, enf>>

----------------------------------------------------------------------------
(***************************************************************************)
(* The websocket, check_servers, deaths and time.                           *)
(***************************************************************************)
WebsocketEvent(c) ==
    /\ c # Worker
    /\ coll[c].step = "rest"
    /\ Pay("event")
    /\ coll' = [coll EXCEPT ![c].step = "begin"]
    /\ UNCHANGED <<provider, server, row, history, lives, overlapped, outOfSessions>>

\* Mutant: check_servers skips what the collector skips.
CheckServersUp ==
    /\ WorkerIdle /\ ~Skipped
    /\ server' = IF reachable THEN [status |-> "up", cooling |-> FALSE]
                 ELSE [status |-> "down", cooling |-> TRUE]
    /\ server' # server
    /\ UNCHANGED <<provider, row, history, lives, coll, overlapped, budget, outOfSessions>>

\* A server in its cooldown is not asked.
CheckServers ==
    /\ WorkerIdle /\ ~server.cooling
    /\ server' = IF reachable THEN [status |-> "up", cooling |-> FALSE]
                 ELSE [status |-> "down", cooling |-> TRUE]
    /\ server' # server
    /\ UNCHANGED <<provider, row, history, lives, coll, overlapped, budget, outOfSessions>>

\* The process dies and starts again.
Death ==
    /\ ~Quiet \/ enf.step # "rest"
    /\ Pay("death")
    /\ coll' = [c \in Collector |-> Resting]
    /\ enf' = NoRun
    /\ UNCHANGED <<provider, server, row, history, lives, overlapped, job>>

LeaseExpires ==
    /\ coll[Worker].step = "rest" /\ job.lease = "held"
    /\ job' = [job EXCEPT !.lease = "expired"]
    /\ UNCHANGED <<sessions, enf>>

BackoffEnds ==
    /\ job.later
    /\ job' = [job EXCEPT !.later = FALSE]
    /\ UNCHANGED <<sessions, enf>>

\* What the provider does is read by AskProvider and by Kill only: it is enough
\* to let it happen before them.
ProviderMayAct == Quiet \/ \E c \in Collector : At(c, "ask")

ProviderActs ==
    /\ ProviderMayAct
    /\ \E s \in Session : StartPlaying(s) \/ StopPlaying(s)
    /\ UNCHANGED outOfSessions

Outage == ProviderMayAct /\ GoDown /\ UNCHANGED outOfSessions
Recovery == ComeBack /\ UNCHANGED outOfSessions

\* A collection takes less than ten seconds; the enforcer counts its own time.
TimePasses == WorkerIdle /\ Quiet /\ RowsAge /\ UNCHANGED outOfSessions

CooldownPasses == CooldownEnds /\ UNCHANGED outOfSessions

CollectionStep(c) == Collect(c) /\ UNCHANGED outOfSessions
EnforcementStarts == WorkerIdle /\ StartEnforcer /\ UNCHANGED job
EnforcementStep == Enforce /\ UNCHANGED job

Next ==
    \/ ProviderActs \/ Outage \/ Recovery
    \/ TimePasses \/ CooldownPasses \/ LeaseExpires \/ BackoffEnds
    \/ EnqueueRefresh \/ StartRefresh \/ EndRefresh \/ CheckServers
    \/ EnforcementStarts \/ EnforcementStep
    \/ \E c \in Collector : CollectionStep(c) \/ WebsocketEvent(c)
    \/ Death

Spec == Init /\ [][Next]_vars

\* The enforcer is queued by the refresh that has just written the rows.
EnforcementInTime ==
    /\ \A s \in Session : row[s].in => row[s].seen = "fresh"
    /\ EnforcementStarts

Fairness ==
    /\ WF_vars(Recovery)
    /\ WF_vars(CooldownPasses) /\ WF_vars(LeaseExpires) /\ WF_vars(BackoffEnds)
    /\ SF_vars(TimePasses)
    /\ SF_vars(EnqueueRefresh) /\ SF_vars(StartRefresh) /\ WF_vars(EndRefresh)
    /\ SF_vars(CheckServers)
    /\ SF_vars(EnforcementInTime) /\ WF_vars(EnforcementStep)
    /\ \A c \in Collector : WF_vars(CollectionStep(c))

FairSpec == Spec /\ Fairness

----------------------------------------------------------------------------
(***************************************************************************)
(* Properties.                                                              *)
(***************************************************************************)
\* Unless two collections met, a playback has one line of history, even when
\* the process died between the history and the removal of the live row
\* (collector.py: the UPDATE of the history row that an INSERT would repeat).
RecordedOnce ==
    overlapped \/ \A g, h \in history : g.watch = h.watch => g = h

\* A live session is not forgotten: its row goes after its playback is in the
\* history, whatever dies in between (collector.py: history first, then DELETE).
NothingIsLost ==
    [][\A s \in Session : row[s].in /\ ~row'[s].in =>
          overlapped \/ \E h \in history : h.session = s /\ h.watch = row[s].watch]_vars

\* A session that has ended leaves the live sessions, through outages, cooldowns,
\* deaths and expired leases, unless it plays again meanwhile.
StoppedSessionsEnd ==
    \A s \in Session : row[s].in /\ play[s] = 0 ~> ~row[s].in \/ play[s] # 0

Playing(u) == {s \in Session : owner[s] = u /\ play[s] # 0}
Excessive(u) == IF u \in Barred THEN Playing(u) # {} ELSE Cardinality(Playing(u)) > Limit[u]

\* A user above the limit, and an expired one who watches, is stopped, although
\* the recheck is made on rows that nobody has renewed (stream_enforcer.py).
ViolatorsAreStopped == \A u \in User : Excessive(u) ~> ~Excessive(u)
====
