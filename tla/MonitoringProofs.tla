---- MODULE MonitoringProofs ----
(***************************************************************************)
(* Theorems about Monitoring, for every set of sessions and users, whatever *)
(* limits and policies they have, any number of playbacks, outages, deaths  *)
(* and events.                                                              *)
(***************************************************************************)
EXTENDS Monitoring, FiniteSetTheorems, WellFoundedInduction, TLAPS

\* The collection has rows or an answer of the provider in hand.
Idle(k) == k.step \in {"rest", "begin", "done", "failed"}
Busy(c) == ~Idle(coll[c])
Removing(c) == coll[c].step \in {"record", "remove"}

\* Where the loops are.
Placed(k) ==
    /\ k.step \in {"upsert", "sort"} => k.todo # {}
    /\ k.step \in {"replace", "upsert"} => k.todo \subseteq Present(k)
    /\ k.step \in {"record", "remove"} => k.hand \in Session

StepInv ==
    /\ enf.step \in {"wait", "recheck"} => enf.hand \in User
    /\ \A c \in Collector : Placed(coll[c])

\* Only a death leaves a running job without a worker, and each gives it one
\* attempt more than the failures do.
Deaths == MaxBudget["death"] - budget["death"]

JobInv ==
    /\ \A h \in Hazard : budget[h] <= MaxBudget[h]
    /\ coll[Worker].step # "rest" => job.status = "running"
    /\ job.attempts <= MaxTries + Deaths
    /\ job.status = "queued" \/ coll[Worker].step = "rest" => job.attempts < MaxTries + Deaths

\* The playbacks somebody has a note of, with their sessions.
Noted(s, w) ==
    \/ play[s] = w
    \/ row[s].in /\ row[s].watch = w
    \/ \E h \in history : h.session = s /\ h.watch = w
    \/ \E c \in Collector : coll[c].cur[s] = w
    \/ \E c \in Collector : Removing(c) /\ coll[c].hand = s /\ coll[c].watch = w

PlayInv == \A w \in Playback \ {0} :
    /\ \A s \in Session : Noted(s, w) => w <= plays
    /\ \A s, t \in Session : Noted(s, w) /\ Noted(t, w) => s = t

\* One collection at a time.
AloneInv == \A c, d \in Collector : Busy(c) /\ Busy(d) => c = d

RowInv == \A s \in Session : IF row[s].in THEN row[s].life # 0 /\ row[s].watch # 0
                             ELSE row[s].life = 0

\* What a collection knows of the rows, and of the playbacks.
Known(k) ==
    /\ k.step \in {"ask", "replace", "upsert"} => \A s \in k.prev : row[s].in
    /\ ~Idle(k) /\ k.step # "ask" => \A s \in Session :
         /\ k.cur[s] = 0 /\ row[s].in => play[s] # row[s].watch
         /\ k.cur[s] # 0 => \A h \in history : h.watch # k.cur[s]
    /\ k.step \in {"record", "remove"} =>
         /\ row[k.hand].in /\ k.cur[k.hand] = 0
         /\ k.life = row[k.hand].life /\ k.watch = row[k.hand].watch
    /\ k.step = "remove" => \E h \in history : h.session = k.hand /\ h.watch = k.watch

HandInv == \A c \in Collector : Known(coll[c])

\* What is in the history has ended; the live row of it, if it is still there,
\* has the same start.
HistoryInv == \A h \in history :
    /\ h.watch # 0
    /\ \A s \in Session : play[s] # h.watch
    /\ \A s \in Session : row[s].in /\ row[s].watch = h.watch => row[s].life = h.life
    /\ \A g \in history : g.watch = h.watch => g = h

OneHand == AloneInv /\ RowInv /\ HandInv /\ HistoryInv

OnceInv == overlapped \/ OneHand

\* Starts are numbered.
LifeInv == \A s \in Session : row[s].life <= lives

IInv == TypeOK /\ LifeInv /\ StepInv /\ JobInv /\ PlayInv /\ OnceInv

----------------------------------------------------------------------------
(***************************************************************************)
(* Types.                                                                   *)
(***************************************************************************)
ProviderType ==
    /\ owner \in [Session -> User]
    /\ play \in [Session -> Playback] /\ plays \in Playback
    /\ reachable \in BOOLEAN

ServerType == server \in [status : {"up", "down"}, cooling : BOOLEAN]
HistoryType == history \subseteq [session : Session, life : Nat, watch : Playback]
BudgetType == budget \in [Hazard -> Nat]

Types ==
    /\ ProviderType /\ ServerType /\ HistoryType /\ BudgetType
    /\ row \in [Session -> Row] /\ lives \in Nat
    /\ coll \in [Collector -> Collection]
    /\ overlapped \in BOOLEAN
    /\ enf \in Run /\ job \in Job

LEMMA TypeParts == (TypeOK <=> Types) /\ (TypeOK' <=> Types')
  BY DEF TypeOK, SessionsType, EnforcerType, Types, ProviderType, ServerType, HistoryType, BudgetType

LEMMA Nothings ==
    /\ Worker \in Collector
    /\ 0 \in Playback
    /\ NoRow \in Row /\ Resting \in Collection /\ NoRun \in Run /\ NoJob \in Job
  BY WorkerCollects, MonitoringBounds, MaxTriesType
  DEF Playback, NoRow, Row, Resting, Collection, Step, NoRun, Run, NoJob, Job, Hazard

LEMMA PayType == ASSUME BudgetType, NEW h \in Hazard, Pay(h) PROVE BudgetType'
  BY DEF BudgetType, Pay

LEMMA CollectionParts ==
    ASSUME NEW k \in Collection
    PROVE  /\ k.step \in Step /\ k.prev \subseteq Session /\ k.cur \in [Session -> Playback]
           /\ k.todo \subseteq Session /\ k.hand \in Session \cup {NoSession}
           /\ k.life \in Nat /\ k.watch \in Playback
           /\ \A p \in Step : [k EXCEPT !.step = p] \in Collection
           /\ \A todo \in SUBSET Session : [k EXCEPT !.todo = todo] \in Collection
           /\ Onward(k) \in Collection
           /\ Onward(k).step \in {k.step, "sort", "finish"}
           /\ Onward(k).prev = k.prev /\ Onward(k).cur = k.cur /\ Onward(k).hand = k.hand
           /\ Onward(k).life = k.life /\ Onward(k).watch = k.watch
           /\ Onward(k).step \in {"upsert", "sort"} => Onward(k).todo # {}
           /\ Onward(k).step = k.step /\ k.step # "finish" => Onward(k).todo = k.todo
  BY DEF Collection, Onward, Step

LEMMA RowParts ==
    ASSUME NEW r \in Row
    PROVE  /\ r.in \in BOOLEAN /\ r.life \in Nat /\ r.watch \in Playback
           /\ r.seen \in {"fresh", "live", "old"} /\ r.stable \in BOOLEAN
           /\ Older(r) \in Row
           /\ Older(r).in = r.in /\ Older(r).life = r.life /\ Older(r).watch = r.watch
           /\ \A m \in 0..1 : [r EXCEPT !.missing = m] \in Row
  BY DEF Row, Older

LEMMA InitTypes == Init => TypeOK
<1> SUFFICES ASSUME Init PROVE TypeOK
  OBVIOUS
<1>1. BudgetType
  BY DEF Init, SessionsInit, Budgets, BudgetType
<1>2. ProviderType /\ ServerType /\ HistoryType
  BY Nothings DEF Init, SessionsInit, ProviderType, ServerType, HistoryType
<1>3. row \in [Session -> Row] /\ coll \in [Collector -> Collection]
  BY Nothings DEF Init, SessionsInit
<1> QED
  BY <1>1, <1>2, <1>3, Nothings, TypeParts DEF Init, SessionsInit, Types

LEMMA ProviderTypes ==
    ASSUME TypeOK, ProviderActs \/ Outage \/ Recovery PROVE TypeOK'
<1> USE TypeParts DEF Types
<1>1. ASSUME NEW s \in Session, StartPlaying(s) \/ StopPlaying(s) PROVE ProviderType'
  BY <1>1, MonitoringBounds DEF StartPlaying, StopPlaying, ProviderType, Playback
<1>2. BudgetType'
  BY PayType DEF ProviderActs, StartPlaying, StopPlaying, Outage, GoDown, Recovery, ComeBack, BudgetType, Hazard
<1>3. ProviderType'
  BY <1>1 DEF ProviderActs, Outage, GoDown, Recovery, ComeBack, ProviderType
<1> QED
  BY <1>2, <1>3 DEF ProviderActs, StartPlaying, StopPlaying, Outage, GoDown, Recovery, ComeBack,
     sessionVars, outOfSessions, ServerType, HistoryType

LEMMA TimeTypes ==
    ASSUME TypeOK, TimePasses \/ CooldownPasses \/ LeaseExpires \/ BackoffEnds \/ CheckServers
    PROVE  TypeOK'
<1> USE TypeParts DEF Types
<1>1. CASE TimePasses
  <2>1. row' \in [Session -> Row]
    BY <1>1, RowParts DEF TimePasses, RowsAge, Aged
  <2> QED
    BY <1>1, <2>1 DEF TimePasses, RowsAge, provider, outOfSessions, ProviderType, ServerType, HistoryType, BudgetType
<1>2. CASE CooldownPasses \/ CheckServers
  <2>1. ServerType'
    <3>1. CooldownPasses => ServerType'
      BY DEF CooldownPasses, CooldownEnds, ServerType
    <3>2. CheckServers => ServerType'
      BY DEF CheckServers, ServerType
    <3> QED
      BY <1>2, <3>1, <3>2
  <2> QED
    BY <1>2, <2>1 DEF CooldownPasses, CooldownEnds, CheckServers, provider, outOfSessions,
       ProviderType, HistoryType, BudgetType
<1>3. CASE LeaseExpires \/ BackoffEnds
  <2>1. job' \in Job
    BY <1>3 DEF LeaseExpires, BackoffEnds, Job
  <2> QED
    BY <1>3, <2>1 DEF LeaseExpires, BackoffEnds, sessions, provider, sessionVars,
       ProviderType, ServerType, HistoryType, BudgetType
<1> QED
  BY <1>1, <1>2, <1>3

LEMMA JobTypes ==
    ASSUME TypeOK, JobInv, EnqueueRefresh \/ StartRefresh \/ EndRefresh PROVE TypeOK'
<1> USE TypeParts DEF Types
<1>1. MaxTries \in Nat /\ MaxBudget["death"] \in Nat /\ budget["death"] \in Nat
  BY MaxTriesType, MonitoringBounds DEF Hazard, BudgetType
<1>2. CASE EnqueueRefresh
  <2>1. job' \in Job
    BY <1>2, Nothings DEF EnqueueRefresh, Job
  <2> QED
    BY <1>2, <2>1 DEF EnqueueRefresh, sessions, provider, sessionVars,
       ProviderType, ServerType, HistoryType, BudgetType
<1>3. CASE StartRefresh
  <2>1. job.attempts + 1 \in 0..(MaxTries + MaxBudget["death"])
    BY <1>1, <1>3 DEF JobInv, StartRefresh, WorkerIdle, Deaths, Job
  <2>2. RecoveredJob.attempts = job.attempts
    BY DEF RecoveredJob, Job
  <2>3. job' \in Job
    BY <1>3, <2>1, <2>2 DEF StartRefresh, Job
  <2>4. coll' \in [Collector -> Collection]
    BY <1>3, CollectionParts, Nothings DEF StartRefresh, Step
  <2> QED
    BY <1>3, <2>3, <2>4 DEF StartRefresh, provider, ProviderType, ServerType, HistoryType, BudgetType
<1>4. CASE EndRefresh
  <2>1. job' \in Job
    BY <1>4, Nothings DEF EndRefresh, Job
  <2>2. coll' \in [Collector -> Collection]
    BY <1>4, Nothings DEF EndRefresh
  <2> QED
    BY <1>4, <2>1, <2>2 DEF EndRefresh, provider, ProviderType, ServerType, HistoryType, BudgetType
<1> QED
  BY <1>2, <1>3, <1>4

\* The newest session exists, because starts are numbered.
LEMMA LeastBy ==
    ASSUME NEW R, IsWellFoundedOn(R, Nat), \A x, y \in Nat : <<y, x>> \in R <=> y < x,
           NEW T \in SUBSET Nat, T # {}
    PROVE  \E x \in T : \A y \in T : x <= y
<1>1. PICK x \in T : \A y \in T : ~ (<<y, x>> \in R)
  BY WFMin
<1>2. x \in Nat /\ \A y \in T : y \in Nat
  OBVIOUS
<1>3. \A y \in T : ~(y < x)
  BY <1>1, <1>2
<1>4. \A y \in T : x <= y
  BY <1>2, <1>3
<1> QED
  BY <1>4

LEMMA LeastNat == ASSUME NEW T \in SUBSET Nat, T # {} PROVE \E x \in T : \A y \in T : x <= y
<1>1. IsWellFoundedOn(OpToRel(<, Nat), Nat)
  BY NatLessThanWellFounded
<1>2. \A x, y \in Nat : <<y, x>> \in OpToRel(<, Nat) <=> y < x
  BY DEF OpToRel
<1> QED
  BY <1>1, <1>2, LeastBy

LEMMA NewestIsOne ==
    ASSUME TypeOK, LifeInv, NEW u \in User, Violates(u)
    PROVE  Newest(u) \in Session
<1>1. Counted(u) # {}
  <2>1. Limit[u] \in Nat
    BY PoliciesType
  <2> QED
    BY <2>1, FS_EmptySet DEF Violates
<1>2. Counted(u) \subseteq Session
  BY DEF Counted
<1>3. \A s \in Session : row[s].life \in Nat /\ row[s].life <= lives /\ lives \in Nat
  BY TypeParts, RowParts DEF Types, LifeInv
<1> DEFINE T == {lives - row[s].life : s \in Counted(u)}
<1>4. T \in SUBSET Nat /\ T # {}
  BY <1>1, <1>2, <1>3
<1>5. PICK x \in T : \A y \in T : x <= y
  BY <1>4, LeastNat
<1>6. PICK s \in Counted(u) : x = lives - row[s].life
  BY <1>5
<1>7. ASSUME NEW t \in Counted(u) PROVE row[t].life <= row[s].life
  <2>1. lives - row[s].life <= lives - row[t].life
    BY <1>5, <1>6
  <2> QED
    BY <1>2, <1>3, <2>1
<1> QED
  BY <1>2, <1>7 DEF Newest

LEMMA EnforcerTypes ==
    ASSUME TypeOK, LifeInv, StepInv, EnforcementStarts \/ EnforcementStep PROVE TypeOK'
<1> USE TypeParts DEF Types
<1>1. CASE EnforcementStarts
  <2>1. \A u \in User : Violates(u) => Violation(u) \in [user : User, victim : Session \cup {NoSession}]
    BY NewestIsOne DEF Violation
  <2>3. {Violation(u) : u \in {x \in User : Violates(x)}} \subseteq [user : User, victim : Session \cup {NoSession}]
    BY <2>1
  <2>2. enf' \in Run
    BY <1>1, <2>3 DEF EnforcementStarts, StartEnforcer, NoRun, Run
  <2> QED
    BY <1>1, <2>2 DEF EnforcementStarts, StartEnforcer, provider, sessionVars,
       ProviderType, ServerType, HistoryType, BudgetType
<1>2. CASE TakeViolation
  <2>1. PICK v \in enf.todo :
          enf' = [step |-> IF v.user \in Barred THEN "kill" ELSE "wait",
                  todo |-> enf.todo \ {v}, hand |-> v.user, victim |-> v.victim]
    BY <1>2 DEF TakeViolation
  <2>2. v \in [user : User, victim : Session \cup {NoSession}]
    BY DEF Run
  <2>3. enf' \in Run
    BY <2>1, <2>2 DEF Run
  <2> QED
    BY <1>2, <2>3 DEF EnforcementStarts, EnforcementStep, TakeViolation, provider, sessionVars,
       ProviderType, ServerType, HistoryType, BudgetType
<1>3. CASE WaitBeforeRecheck
  <2>1. enf' \in Run
    BY <1>3 DEF WaitBeforeRecheck, Run
  <2>2. ASSUME NEW r \in Row, NEW seen \in {"live", "old"} PROVE [Older(r) EXCEPT !.seen = seen] \in Row
    <3>1. Older(r) \in Row
      BY RowParts
    <3> QED
      BY <3>1 DEF Row
  <2>3. row' \in [Session -> Row]
    <3>1. PICK gone \in SUBSET {s \in Session : row[s].seen = "live"} :
            row' = [s \in Session |->
                      [Older(row[s]) EXCEPT !.seen = IF row[s].seen = "fresh" \/
                                                       (row[s].seen = "live" /\ s \notin gone)
                                                     THEN "live" ELSE "old"]]
      BY <1>3 DEF WaitBeforeRecheck
    <3>2. \A s \in Session : row'[s] \in Row
      BY <2>2, <3>1
    <3> QED
      BY <3>1, <3>2
  <2> QED
    BY <1>3, <2>1, <2>3 DEF EnforcementStarts, EnforcementStep, WaitBeforeRecheck, provider,
       ProviderType, ServerType, HistoryType, BudgetType
<1>4. CASE Recheck
  <2>1. enf.hand \in User
    BY <1>4 DEF Recheck, StepInv
  <2>2. enf' \in Run
    BY <1>4, <2>1, NewestIsOne DEF Recheck, Run
  <2> QED
    BY <1>4, <2>2 DEF EnforcementStarts, EnforcementStep, Recheck, provider, sessionVars,
       ProviderType, ServerType, HistoryType, BudgetType
<1>5. CASE Kill
  <2>1. enf' \in Run
    BY <1>5 DEF Kill, Run
  <2>2. play' \in [Session -> Playback]
    BY <1>5, Nothings DEF Kill, ProviderType
  <2>3. BudgetType'
    BY <1>5, PayType DEF Kill, BudgetType, Hazard
  <2> QED
    BY <1>5, <2>1, <2>2, <2>3 DEF EnforcementStarts, EnforcementStep, Kill, sessionVars, ProviderType, ServerType, HistoryType
<1>6. CASE EndEnforcer
  BY <1>6, Nothings DEF EnforcementStarts, EnforcementStep, EndEnforcer, provider, sessionVars,
     ProviderType, ServerType, HistoryType, BudgetType
<1> QED
  BY <1>1, <1>2, <1>3, <1>4, <1>5, <1>6 DEF EnforcementStarts, EnforcementStep, Enforce

LEMMA CollectTypes ==
    ASSUME TypeOK, StepInv, NEW c \in Collector, CollectionStep(c) PROVE TypeOK'
<1> USE TypeParts DEF Types, outOfSessions
<1>1. coll[c] \in Collection
  OBVIOUS
<1>2. ASSUME NEW k \in Collection, coll' = [coll EXCEPT ![c] = k] PROVE coll' \in [Collector -> Collection]
  BY <1>2
<1>3. ASSUME NEW how \in {"done", "failed"}, Over(c, how) PROVE coll' \in [Collector -> Collection]
  <2>1. [Resting EXCEPT !.step = how] \in Collection
    BY Nothings, CollectionParts DEF Step
  <2> QED
    BY <1>3, <2>1, Nothings DEF Over
<1>4. ASSUME coll' \in [Collector -> Collection], provider' = provider, ServerType',
             row' \in [Session -> Row], HistoryType', lives' \in Nat, overlapped' \in BOOLEAN,
             budget' = budget, UNCHANGED outOfSessions
      PROVE  TypeOK'
  BY <1>4 DEF provider, ProviderType, BudgetType
<1>5. CASE Begin(c)
  <2>1. coll' \in [Collector -> Collection]
    <3>1. CASE Skipped
      BY <1>3, <1>5, <3>1 DEF Begin
    <3>2. CASE ~Skipped
      <4>1. [coll[c] EXCEPT !.step = "ask", !.prev = {s \in Session : row[s].in}] \in Collection
        BY <1>1 DEF Collection, Step
      <4> QED
        BY <1>5, <3>2, <4>1 DEF Begin
    <3> QED
      BY <3>1, <3>2
  <2>2. overlapped' \in BOOLEAN
    BY <1>5 DEF Begin
  <2> QED
    BY <1>4, <1>5, <2>1, <2>2 DEF CollectionStep, Begin, ServerType, HistoryType
<1>6. CASE AskProvider(c)
  <2> DEFINE k == [coll[c] EXCEPT !.step = "upsert", !.cur = play, !.todo = {s \in Session : play[s] # 0}]
  <2>1. k \in Collection
    BY <1>1 DEF Collection, Step, ProviderType
  <2>2. Onward(k) \in Collection /\ [k EXCEPT !.step = "replace"] \in Collection
    BY <2>1, CollectionParts DEF Step
  <2>3. coll' = [coll EXCEPT ![c] = Onward(k)] \/ coll' = [coll EXCEPT ![c] = [k EXCEPT !.step = "replace"]]
    BY <1>6 DEF AskProvider
  <2>4. coll' \in [Collector -> Collection]
    BY <2>2, <2>3
  <2> QED
    BY <1>4, <1>6, <2>4 DEF CollectionStep, AskProvider, ServerType, HistoryType
<1>7. CASE ProviderFails(c)
  <2>1. coll' \in [Collector -> Collection]
    BY <1>3, <1>7 DEF ProviderFails
  <2>2. ServerType'
    <3>1. server' = [status |-> "up", cooling |-> TRUE] \/ server' = [status |-> "down", cooling |-> TRUE]
      BY <1>7, Zenon DEF ProviderFails
    <3>2. /\ [status |-> "up", cooling |-> TRUE] \in [status : {"up", "down"}, cooling : BOOLEAN]
          /\ [status |-> "down", cooling |-> TRUE] \in [status : {"up", "down"}, cooling : BOOLEAN]
      OBVIOUS
    <3> QED
      BY <3>1, <3>2, Zenon DEF ServerType
  <2> QED
    BY <1>4, <1>7, <2>1, <2>2 DEF CollectionStep, ProviderFails, HistoryType
<1>8. CASE CloseReplaced(c)
  <2>1. ASSUME NEW r \in Row
        PROVE  [r EXCEPT !.missing = 1, !.seen = IF @ = "fresh" THEN "live" ELSE @] \in Row
    <3> DEFINE q == [r EXCEPT !.missing = 1]
    <3>1. q \in Row /\ q.seen = r.seen
      BY RowParts DEF Row
    <3>2. \A seen \in {"fresh", "live", "old"} : [q EXCEPT !.seen = seen] \in Row
      BY <3>1 DEF Row
    <3>3. (IF r.seen = "fresh" THEN "live" ELSE r.seen) \in {"fresh", "live", "old"}
      BY RowParts
    <3>4. [r EXCEPT !.missing = 1, !.seen = IF @ = "fresh" THEN "live" ELSE @]
          = [q EXCEPT !.seen = IF r.seen = "fresh" THEN "live" ELSE r.seen]
      BY <3>1 DEF Row
    <3> HIDE DEF q
    <3> QED
      BY <3>2, <3>3, <3>4
  <2>2. row' \in [Session -> Row]
    BY <1>8, <2>1 DEF CloseReplaced
  <2>3. Onward([coll[c] EXCEPT !.step = "upsert"]) \in Collection
    BY <1>1, CollectionParts DEF Step
  <2>4. coll' \in [Collector -> Collection]
    BY <1>8, <2>3 DEF CloseReplaced
  <2> QED
    BY <1>4, <1>8, <2>2, <2>4 DEF CollectionStep, CloseReplaced, ServerType, HistoryType
<1>9. CASE UpsertNext(c)
  <2>1. NextOf(c) \in Session
    BY <1>1, <1>9, CollectionParts DEF UpsertNext, At, StepInv, Placed, NextOf
  <2>2. row' \in [Session -> Row] /\ lives' \in Nat
    BY <1>1, <1>9, <2>1, CollectionParts, RowParts DEF UpsertNext, Upsert, Row
  <2>3. Rest(c) \in Collection
    BY <1>1 DEF Rest, Collection
  <2>4. Onward(Rest(c)) \in Collection
    BY <2>3, CollectionParts
  <2>5. coll' \in [Collector -> Collection]
    BY <1>9, <2>4 DEF UpsertNext
  <2> QED
    BY <1>4, <1>9, <2>2, <2>5 DEF CollectionStep, UpsertNext, ServerType, HistoryType
<1>10. CASE SortNext(c)
  <2>1. NextOf(c) \in Session
    BY <1>1, <1>10, CollectionParts DEF SortNext, At, StepInv, Placed, NextOf
  <2> DEFINE r == [row[NextOf(c)] EXCEPT !.missing = IF row[NextOf(c)].in /\ NextOf(c) \notin Present(coll[c])
                                                    THEN 1 ELSE 0]
             gone == [Rest(c) EXCEPT !.step = "record", !.hand = NextOf(c), !.life = r.life, !.watch = r.watch]
  <2>2. r \in Row
    <3>1. (IF row[NextOf(c)].in /\ NextOf(c) \notin Present(coll[c]) THEN 1 ELSE 0) \in 0..1
      OBVIOUS
    <3>2. row[NextOf(c)] \in Row
      BY <2>1
    <3> QED
      BY <3>1, <3>2, RowParts
  <2>3. row' \in [Session -> Row]
    BY <1>10, <2>1, <2>2 DEF SortNext
  <2>4. Rest(c) \in Collection
    BY <1>1 DEF Rest, Collection
  <2>5. Onward(Rest(c)) \in Collection
    BY <2>4, CollectionParts
  <2>6. gone \in Collection
    BY <2>1, <2>2, <2>4, RowParts DEF Collection, Step
  <2>7. coll' = [coll EXCEPT ![c] = gone] \/ coll' = [coll EXCEPT ![c] = Onward(Rest(c))]
    BY <1>10 DEF SortNext
  <2>8. coll' \in [Collector -> Collection]
    BY <2>5, <2>6, <2>7
  <2> QED
    BY <1>4, <1>10, <2>3, <2>8 DEF CollectionStep, SortNext, ServerType, HistoryType
<1>11. CASE Record(c)
  <2>1. coll[c].hand \in Session
    BY <1>11 DEF Record, At, StepInv, Placed
  <2>2. HistoryType' /\ lives' \in Nat
    BY <1>1, <1>11, <2>1, CollectionParts DEF Record, HistoryType
  <2>3. coll' \in [Collector -> Collection]
    BY <1>1, <1>11, CollectionParts DEF Record, Go, Step
  <2> QED
    BY <1>4, <1>11, <2>2, <2>3 DEF CollectionStep, Record, ServerType
<1>12. CASE Remove(c)
  <2>1. NextRow(c) \in Collection
    BY <1>1, Nothings DEF NextRow, Collection, Step
  <2>2. Onward(NextRow(c)) \in Collection
    BY <2>1, CollectionParts
  <2>3. coll' \in [Collector -> Collection]
    BY <1>12, <2>2 DEF Remove
  <2>4. row' \in [Session -> Row]
    BY <1>12, Nothings DEF Remove
  <2> QED
    BY <1>4, <1>12, <2>3, <2>4 DEF CollectionStep, Remove, ServerType, HistoryType
<1>13. CASE Finish(c)
  <2>1. coll' \in [Collector -> Collection]
    BY <1>3, <1>13 DEF Finish
  <2>2. ServerType'
    BY <1>13 DEF Finish, ServerType
  <2> QED
    BY <1>4, <1>13, <2>1, <2>2 DEF CollectionStep, Finish, HistoryType
<1> QED
  BY <1>5, <1>6, <1>7, <1>8, <1>9, <1>10, <1>11, <1>12, <1>13 DEF CollectionStep, Collect

LEMMA TypeNext ==
    ASSUME TypeOK, LifeInv, StepInv, JobInv, [Next]_vars PROVE TypeOK'
<1> USE TypeParts DEF Types
<1>1. ASSUME NEW c \in Collector, WebsocketEvent(c) PROVE TypeOK'
  <2>1. coll' \in [Collector -> Collection]
    <3>1. [coll[c] EXCEPT !.step = "begin"] \in Collection
      BY CollectionParts DEF Step
    <3> QED
      BY <1>1, <3>1 DEF WebsocketEvent
  <2>2. BudgetType'
    BY <1>1, PayType DEF WebsocketEvent, Hazard
  <2> QED
    BY <1>1, <2>1, <2>2 DEF WebsocketEvent, provider, outOfSessions, ProviderType, ServerType, HistoryType
<1>2. CASE Death
  <2>1. BudgetType'
    BY <1>2, PayType DEF Death, Hazard
  <2> QED
    BY <1>2, <2>1, Nothings DEF Death, provider, ProviderType, ServerType, HistoryType
<1>3. CASE UNCHANGED vars
  BY <1>3 DEF vars, provider, sessionVars, ProviderType, ServerType, HistoryType, BudgetType
<1> QED
  BY <1>1, <1>2, <1>3, ProviderTypes, TimeTypes, JobTypes, EnforcerTypes, CollectTypes DEF Next

----------------------------------------------------------------------------
(***************************************************************************)
(* Where the loops are, and the attempts of the job.                        *)
(***************************************************************************)
LEMMA OnwardIsPlaced ==
    ASSUME NEW k \in Collection, k.step \in {"upsert", "sort"},
           k.step = "upsert" => k.todo \subseteq Present(k)
    PROVE  Placed(Onward(k))
<1>1. CASE k.todo # {}
  BY <1>1 DEF Placed, Onward
<1>2. CASE k.todo = {}
  BY <1>2 DEF Placed, Onward, Collection
<1> QED
  BY <1>1, <1>2

\* A collection step changes one collection, and only the websocket forgets it.
Moves(c) ==
    \E k \in Collection : /\ coll' = [coll EXCEPT ![c] = k]
                          /\ Placed(k)
                          /\ c = Worker => k.step # "rest"

LEMMA OverMoves ==
    ASSUME NEW c \in Collector, NEW how \in {"done", "failed"}, Over(c, how) PROVE Moves(c)
<1>1. [Resting EXCEPT !.step = how] \in Collection
  BY Nothings, CollectionParts DEF Step
<1>2. Placed(Resting) /\ Placed([Resting EXCEPT !.step = how])
  BY DEF Placed, Resting
<1>3. [Resting EXCEPT !.step = how].step # "rest"
  BY DEF Resting
<1> QED
  BY <1>1, <1>2, <1>3, Nothings DEF Over, Moves

LEMMA CollectionMoves ==
    ASSUME TypeOK, StepInv, NEW c \in Collector, CollectionStep(c) PROVE Moves(c)
<1> USE TypeParts DEF Types
<1>1. coll[c] \in Collection /\ Placed(coll[c])
  BY DEF StepInv
<1>2. CASE Begin(c)
  <2>1. CASE Skipped
    BY <1>2, <2>1, OverMoves DEF Begin
  <2>2. CASE ~Skipped
    <3> DEFINE k == [coll[c] EXCEPT !.step = "ask", !.prev = {s \in Session : row[s].in}]
    <3>1. k \in Collection /\ k.step = "ask"
      BY <1>1 DEF Collection, Step
    <3>2. coll' = [coll EXCEPT ![c] = k]
      BY <1>2, <2>2 DEF Begin
    <3>3. Placed(k)
      BY <3>1 DEF Placed
    <3> HIDE DEF k
    <3> QED
      BY <3>1, <3>2, <3>3 DEF Moves
  <2> QED
    BY <2>1, <2>2
<1>3. CASE AskProvider(c)
  <2> DEFINE k == [coll[c] EXCEPT !.step = "upsert", !.cur = play, !.todo = {s \in Session : play[s] # 0}]
  <2>1. k \in Collection /\ k.step = "upsert" /\ k.todo = Present(k)
    BY <1>1 DEF Collection, Step, ProviderType, Present
  <2>2. coll' = [coll EXCEPT ![c] = Onward(k)] \/ coll' = [coll EXCEPT ![c] = [k EXCEPT !.step = "replace"]]
    BY <1>3 DEF AskProvider
  <2> HIDE DEF k
  <2>3. Placed(Onward(k)) /\ Placed([k EXCEPT !.step = "replace"])
    BY <2>1, OnwardIsPlaced DEF Placed, Present, Collection
  <2>4. Onward(k) \in Collection /\ [k EXCEPT !.step = "replace"] \in Collection
    BY <2>1, CollectionParts DEF Step
  <2>5. Onward(k).step # "rest" /\ [k EXCEPT !.step = "replace"].step # "rest"
    BY <2>1, CollectionParts DEF Collection
  <2> QED
    BY <2>2, <2>3, <2>4, <2>5 DEF Moves
<1>4. CASE ProviderFails(c)
  BY <1>4, OverMoves DEF ProviderFails
<1>5. CASE CloseReplaced(c)
  <2> DEFINE k == [coll[c] EXCEPT !.step = "upsert"]
  <2>1. k \in Collection /\ k.step = "upsert" /\ k.todo \subseteq Present(k)
    BY <1>1, <1>5 DEF Collection, Step, CloseReplaced, At, Placed, Present
  <2>2. coll' = [coll EXCEPT ![c] = Onward(k)]
    BY <1>5 DEF CloseReplaced
  <2> HIDE DEF k
  <2>3. Placed(Onward(k)) /\ Onward(k) \in Collection /\ Onward(k).step # "rest"
    BY <2>1, OnwardIsPlaced, CollectionParts
  <2> QED
    BY <2>2, <2>3 DEF Moves
<1>6. CASE UpsertNext(c)
  <2>1. /\ Rest(c) \in Collection /\ Rest(c).step = "upsert"
        /\ Rest(c).todo \subseteq Present(Rest(c))
    BY <1>1, <1>6 DEF Rest, Collection, UpsertNext, At, Placed, Present
  <2>2. /\ Placed(Onward(Rest(c))) /\ Onward(Rest(c)) \in Collection
        /\ Onward(Rest(c)).step # "rest"
    BY <2>1, OnwardIsPlaced, CollectionParts
  <2> QED
    BY <1>6, <2>2 DEF UpsertNext, Moves
<1>7. CASE SortNext(c)
  <2>1. NextOf(c) \in Session
    BY <1>1, <1>7, CollectionParts DEF SortNext, At, Placed, NextOf
  <2> DEFINE r == [row[NextOf(c)] EXCEPT !.missing = IF row[NextOf(c)].in /\ NextOf(c) \notin Present(coll[c])
                                                    THEN 1 ELSE 0]
             gone == [Rest(c) EXCEPT !.step = "record", !.hand = NextOf(c), !.life = r.life, !.watch = r.watch]
  <2>2. r.life \in Nat /\ r.watch \in Playback
    BY <2>1, RowParts DEF Row
  <2>3. Rest(c) \in Collection /\ Rest(c).step = "sort"
    BY <1>1, <1>7 DEF Rest, Collection, SortNext, At
  <2>4. gone \in Collection /\ gone.step = "record" /\ gone.hand = NextOf(c)
    BY <2>1, <2>2, <2>3 DEF Collection, Step
  <2>5. /\ Placed(Onward(Rest(c))) /\ Onward(Rest(c)) \in Collection
        /\ Onward(Rest(c)).step # "rest"
    BY <2>3, OnwardIsPlaced, CollectionParts
  <2>6. coll' = [coll EXCEPT ![c] = gone] \/ coll' = [coll EXCEPT ![c] = Onward(Rest(c))]
    BY <1>7 DEF SortNext
  <2> HIDE DEF gone
  <2>7. Placed(gone)
    BY <2>1, <2>4 DEF Placed
  <2> QED
    BY <2>4, <2>5, <2>6, <2>7 DEF Moves
<1>8. CASE Record(c)
  <2> DEFINE k == [coll[c] EXCEPT !.step = "remove"]
  <2>1. k \in Collection /\ k.step = "remove" /\ k.hand \in Session
    BY <1>1, <1>8 DEF Collection, Step, Record, At, Placed
  <2>2. coll' = [coll EXCEPT ![c] = k]
    BY <1>8 DEF Record, Go
  <2> HIDE DEF k
  <2> QED
    BY <2>1, <2>2 DEF Moves, Placed
<1>9. CASE Remove(c)
  <2>1. NextRow(c) \in Collection /\ NextRow(c).step = "sort"
    BY <1>1, Nothings DEF NextRow, Collection, Step
  <2>2. /\ Placed(Onward(NextRow(c))) /\ Onward(NextRow(c)) \in Collection
        /\ Onward(NextRow(c)).step # "rest"
    BY <2>1, OnwardIsPlaced, CollectionParts
  <2> QED
    BY <1>9, <2>2 DEF Remove, Moves
<1>10. CASE Finish(c)
  BY <1>10, OverMoves DEF Finish
<1> QED
  BY <1>2, <1>3, <1>4, <1>5, <1>6, <1>7, <1>8, <1>9, <1>10 DEF CollectionStep, Collect

LEMMA StepNext ==
    ASSUME TypeOK, LifeInv, StepInv, [Next]_vars PROVE StepInv'
<1>1. ASSUME UNCHANGED <<coll, enf>> PROVE StepInv'
  BY <1>1 DEF StepInv, Placed, Present
<1>2. ASSUME enf' = enf, NEW c \in Collector, NEW k, coll' = [coll EXCEPT ![c] = k], Placed(k)
      PROVE  StepInv'
  <2>1. \A d \in Collector : Placed(coll'[d])
    BY <1>2, TypeParts DEF Types, StepInv
  <2> QED
    BY <1>2, <2>1 DEF StepInv, Placed, Present
<1>3. ASSUME coll' = coll, enf'.step \in {"wait", "recheck"} => enf'.hand \in User PROVE StepInv'
  BY <1>3 DEF StepInv, Placed, Present
<1>4. ASSUME NEW k \in {"rest", "begin", "done", "failed"}, NEW r \in Collection
      PROVE  Placed(Resting) /\ Placed([r EXCEPT !.step = k])
  BY DEF Placed, Resting, Collection
<1>5. CASE ProviderActs \/ Outage \/ Recovery \/ TimePasses \/ CooldownPasses
  BY <1>1, <1>5 DEF ProviderActs, StartPlaying, StopPlaying, Outage, GoDown, Recovery, ComeBack,
     TimePasses, RowsAge, CooldownPasses, CooldownEnds, sessionVars, outOfSessions
<1>6. CASE LeaseExpires \/ BackoffEnds \/ EnqueueRefresh \/ CheckServers
  BY <1>1, <1>6 DEF LeaseExpires, BackoffEnds, EnqueueRefresh, CheckServers, sessions, sessionVars, outOfSessions
<1>7. CASE StartRefresh
  BY <1>2, <1>4, <1>7, Nothings, TypeParts DEF StartRefresh, Types
<1>8. CASE EndRefresh
  BY <1>2, <1>4, <1>8, Nothings DEF EndRefresh
<1>9. CASE EnforcementStarts
  BY <1>3, <1>9 DEF EnforcementStarts, StartEnforcer, sessionVars, NoRun
<1>10. CASE EnforcementStep
  <2>1. ASSUME TakeViolation PROVE StepInv'
    <3>1. enf'.hand \in User
      BY <2>1, TypeParts DEF TakeViolation, Types, Run
    <3> QED
      BY <1>3, <2>1, <3>1 DEF TakeViolation, sessionVars
  <2>2. ASSUME WaitBeforeRecheck PROVE StepInv'
    BY <1>3, <2>2, TypeParts DEF WaitBeforeRecheck, StepInv, Types, Run
  <2>3. ASSUME Recheck \/ Kill \/ EndEnforcer PROVE StepInv'
    <3>1. enf \in Run
      BY TypeParts DEF Types
    <3>2. Recheck => enf'.step \notin {"wait", "recheck"}
      BY <3>1 DEF Recheck, Run
    <3>3. Kill => enf'.step = "next"
      BY <3>1 DEF Kill, Run
    <3>4. EndEnforcer => enf'.step = "rest"
      BY DEF EndEnforcer, NoRun
    <3>5. enf'.step \notin {"wait", "recheck"}
      BY <2>3, <3>2, <3>3, <3>4
    <3> QED
      BY <1>3, <2>3, <3>5 DEF Recheck, Kill, EndEnforcer, sessionVars
  <2> QED
    BY <1>10, <2>1, <2>2, <2>3 DEF EnforcementStep, Enforce
<1>11. ASSUME NEW c \in Collector, CollectionStep(c) PROVE StepInv'
  BY <1>2, <1>11, CollectionMoves DEF Moves, CollectionStep, outOfSessions
<1>12. ASSUME NEW c \in Collector, WebsocketEvent(c) PROVE StepInv'
  BY <1>2, <1>4, <1>12, TypeParts DEF WebsocketEvent, outOfSessions, Types
<1>13. CASE Death
  <2>1. \A d \in Collector : Placed(coll'[d])
    BY <1>4, <1>13, Nothings DEF Death
  <2> QED
    BY <1>13, <2>1 DEF Death, StepInv, NoRun, Placed, Present
<1>14. CASE UNCHANGED vars
  BY <1>1, <1>14 DEF vars, sessionVars
<1> QED
  BY <1>5, <1>6, <1>7, <1>8, <1>9, <1>10, <1>11, <1>12, <1>13, <1>14 DEF Next

LEMMA JobNext ==
    ASSUME TypeOK, StepInv, JobInv, [Next]_vars PROVE JobInv'
<1>1. /\ MaxTries \in Nat \ {0} /\ \A h \in Hazard : MaxBudget[h] \in Nat /\ budget[h] \in Nat
      /\ "death" \in Hazard /\ Worker \in Collector
      /\ job.attempts \in Nat
  BY TypeParts, MaxTriesType, MonitoringBounds, Nothings DEF Types, BudgetType, Hazard, Job
<1>2. ASSUME job'.attempts = job.attempts, job'.status = job.status, UNCHANGED budget,
             coll'[Worker].step = "rest" <=> coll[Worker].step = "rest"
      PROVE  JobInv'
  BY <1>2 DEF JobInv, Deaths
<1>3. ASSUME job' = job, NEW h \in Hazard, Pay(h),
             coll'[Worker].step = "rest" <=> coll[Worker].step = "rest"
      PROVE  JobInv'
  <2>1. /\ \A g \in Hazard : budget'[g] \in Nat /\ budget'[g] <= budget[g]
        /\ budget' \in [Hazard -> Nat]
    BY <1>1, <1>3, TypeParts DEF Pay, Types, BudgetType
  <2>2. \A g \in Hazard : budget'[g] <= MaxBudget[g]
    BY <1>1, <2>1 DEF JobInv
  <2>3. Deaths \in Int /\ Deaths' \in Int /\ Deaths <= Deaths'
    BY <1>1, <2>1 DEF Deaths
  <2> HIDE DEF Deaths
  <2>4. job.attempts <= MaxTries + Deaths'
    BY <1>1, <2>3 DEF JobInv
  <2>5. job.status = "queued" \/ coll[Worker].step = "rest" => job.attempts < MaxTries + Deaths'
    BY <1>1, <2>3 DEF JobInv
  <2> QED
    BY <1>3, <2>2, <2>4, <2>5 DEF JobInv
<1>4. ASSUME UNCHANGED <<coll, job, budget>> PROVE JobInv'
  BY <1>2, <1>4
<1>5. CASE ProviderActs \/ Recovery \/ TimePasses \/ CooldownPasses \/ CheckServers
  BY <1>4, <1>5 DEF ProviderActs, StartPlaying, StopPlaying, Recovery, ComeBack,
     TimePasses, RowsAge, CooldownPasses, CooldownEnds, CheckServers, sessionVars, outOfSessions
<1>6. CASE Outage
  BY <1>3, <1>6 DEF Outage, GoDown, sessionVars, outOfSessions, Hazard
<1>7. CASE LeaseExpires \/ BackoffEnds
  BY <1>2, <1>7, TypeParts DEF LeaseExpires, BackoffEnds, sessions, sessionVars, Types, Job
<1>8. ASSUME coll[Worker].step = "rest" => coll'[Worker].step = "rest",
             coll'[Worker].step # "rest" => job'.status = "running", UNCHANGED budget,
             job'.attempts \in Nat,
             job'.attempts < MaxTries + Deaths
      PROVE  JobInv'
  BY <1>1, <1>8 DEF JobInv, Deaths
<1>9. CASE EnqueueRefresh
  <2>1. job'.attempts \in {0, job.attempts}
    BY <1>9, TypeParts DEF EnqueueRefresh, NoJob, Types, Job
  <2>2. job.attempts < MaxTries + Deaths
    BY <1>9 DEF EnqueueRefresh, WorkerIdle, JobInv
  <2>3. Deaths \in Int
    BY <1>1 DEF Deaths
  <2>4. job'.attempts \in Nat /\ job'.attempts < MaxTries + Deaths
    BY <1>1, <2>1, <2>2, <2>3
  <2> QED
    BY <1>8, <1>9, <2>4 DEF EnqueueRefresh, WorkerIdle, sessions, sessionVars
<1>10. CASE StartRefresh
  <2>1. RecoveredJob.attempts = job.attempts
    BY TypeParts DEF RecoveredJob, Types, Job
  <2>2. job'.attempts = job.attempts + 1 /\ job'.status = "running"
    BY <1>10, <2>1 DEF StartRefresh
  <2>3. coll'[Worker].step = "begin"
    BY <1>1, <1>10, TypeParts DEF StartRefresh, Types, Collection
  <2>4. job.attempts < MaxTries + Deaths
    BY <1>10 DEF StartRefresh, WorkerIdle, JobInv
  <2> QED
    BY <1>1, <1>10, <2>2, <2>3, <2>4 DEF StartRefresh, JobInv, Deaths
<1>11. CASE EndRefresh
  <2>1. coll'[Worker].step = "rest"
    BY <1>1, <1>11, TypeParts DEF EndRefresh, Types, Resting
  <2>2. job'.attempts \in Nat /\ job'.attempts < MaxTries
    BY <1>1, <1>11, TypeParts DEF EndRefresh, NoJob, Types, Job
  <2>3. Deaths \in Nat
    BY <1>1 DEF Deaths, JobInv
  <2> QED
    BY <1>1, <1>11, <2>1, <2>2, <2>3 DEF EndRefresh, JobInv, Deaths
<1>12. CASE EnforcementStarts \/ EnforcementStep
  <2>1. CASE EnforcementStep /\ Kill
    <3>1. UNCHANGED budget \/ Pay("refusal")
      BY <2>1 DEF Kill
    <3> QED
      BY <1>3, <1>4, <2>1, <3>1 DEF Kill, EnforcementStep, sessionVars, Hazard
  <2> QED
    BY <1>4, <1>12, <2>1 DEF EnforcementStarts, StartEnforcer, EnforcementStep, Enforce, TakeViolation,
       WaitBeforeRecheck, Recheck, EndEnforcer, sessionVars
<1>13. ASSUME NEW c \in Collector, CollectionStep(c) PROVE JobInv'
  <2>1. UNCHANGED <<budget, job>>
    BY <1>13 DEF CollectionStep, Collect, Begin, AskProvider, ProviderFails, CloseReplaced, UpsertNext,
       SortNext, Record, Remove, Finish, outOfSessions
  <2>2. PICK k \in Collection : coll' = [coll EXCEPT ![c] = k] /\ (c = Worker => k.step # "rest")
    BY <1>13, CollectionMoves DEF Moves
  <2>3. c = Worker => coll[Worker].step # "rest"
    BY <1>13 DEF CollectionStep, Collect, Begin, AskProvider, ProviderFails, CloseReplaced, UpsertNext,
       SortNext, Record, Remove, Finish, At
  <2>4. coll'[Worker] = IF c = Worker THEN k ELSE coll[Worker]
    BY <1>1, <2>2, TypeParts DEF Types
  <2> QED
    BY <1>2, <2>1, <2>2, <2>3, <2>4
<1>14. ASSUME NEW c \in Collector, WebsocketEvent(c) PROVE JobInv'
  <2>1. coll'[Worker] = coll[Worker]
    BY <1>1, <1>14, TypeParts DEF WebsocketEvent, Types
  <2> QED
    BY <1>3, <1>14, <2>1 DEF WebsocketEvent, outOfSessions, Hazard
<1>15. CASE Death
  <2>1. coll'[Worker].step = "rest"
    BY <1>1, <1>15 DEF Death, Resting
  <2>2. /\ \A g \in Hazard : budget'[g] \in Nat /\ budget'[g] <= budget[g]
        /\ budget'["death"] = budget["death"] - 1
    BY <1>1, <1>15, TypeParts DEF Death, Pay, Types, BudgetType
  <2>3. Deaths \in Int /\ Deaths' = Deaths + 1
    BY <1>1, <2>2 DEF Deaths
  <2>4. \A g \in Hazard : budget'[g] <= MaxBudget[g]
    BY <1>1, <2>2 DEF JobInv
  <2>5. job.attempts <= MaxTries + Deaths' /\ job.attempts < MaxTries + Deaths'
    BY <1>1, <2>3 DEF JobInv
  <2> QED
    BY <1>15, <2>1, <2>4, <2>5 DEF Death, JobInv
<1>16. CASE UNCHANGED vars
  BY <1>4, <1>16 DEF vars, sessionVars
<1> QED
  BY <1>5, <1>6, <1>7, <1>9, <1>10, <1>11, <1>12, <1>13, <1>14, <1>15, <1>16 DEF Next

----------------------------------------------------------------------------
(***************************************************************************)
(* What the steps do to rows, playbacks, history and collections.  Most keep *)
(* what the invariant speaks of: they are Still.                            *)
(***************************************************************************)
RowsKept == \A s \in Session : /\ row'[s].in = row[s].in /\ row'[s].life = row[s].life
                               /\ row'[s].watch = row[s].watch

Still ==
    /\ RowsKept
    /\ lives' = lives
    /\ \A s \in Session : play'[s] \in {0, play[s]}
    /\ plays' = plays /\ history' = history /\ overlapped' = overlapped
    /\ \A c \in Collector :
         \/ coll'[c] = coll[c]
         \/ /\ Idle(coll'[c])
            /\ \A s \in Session : coll'[c].cur[s] \in {0, coll[c].cur[s]}

\* One collection goes on with what it has.
Passes(c) ==
    /\ RowsKept
    /\ lives' = lives
    /\ play' = play /\ plays' = plays /\ history' = history /\ overlapped' = overlapped
    /\ coll[c].step \in {"replace", "sort"}
    /\ \E k \in Collection :
         /\ coll' = [coll EXCEPT ![c] = k]
         /\ k.step \in {"upsert", "sort", "finish"}
         /\ k.step = "upsert" => coll[c].step = "replace"
         /\ k.prev = coll[c].prev /\ k.cur = coll[c].cur

\* One collection finds a row to remove.
Picks(c) ==
    /\ RowsKept
    /\ lives' = lives
    /\ play' = play /\ plays' = plays /\ history' = history /\ overlapped' = overlapped
    /\ coll[c].step = "sort"
    /\ \E k \in Collection :
         /\ coll' = [coll EXCEPT ![c] = k]
         /\ k.step = "record" /\ k.hand \in Session
         /\ k.cur = coll[c].cur /\ k.cur[k.hand] = 0
         /\ row[k.hand].in /\ k.life = row[k.hand].life /\ k.watch = row[k.hand].watch

\* The other kinds of step are one action each.
Kinds(c) ==
    \/ Passes(c) \/ Picks(c)
    \/ Begin(c) /\ ~Skipped
    \/ AskProvider(c) \/ UpsertNext(c) \/ Record(c) \/ Remove(c)

LEMMA IdleMoves == Idle(Resting) /\ \A s \in Session : Resting.cur[s] = 0
  BY DEF Idle, Resting

LEMMA AgingKeepsRows ==
    ASSUME TypeOK, RowsAge \/ WaitBeforeRecheck PROVE RowsKept
<1>1. \A s \in Session : row[s] \in Row
  BY TypeParts DEF Types
<1>2. ASSUME RowsAge PROVE RowsKept
  BY <1>1, <1>2, RowParts DEF RowsAge, Aged, RowsKept
<1>3. ASSUME WaitBeforeRecheck PROVE RowsKept
  <2>1. PICK gone \in SUBSET {s \in Session : row[s].seen = "live"} :
          row' = [s \in Session |->
                    [Older(row[s]) EXCEPT !.seen = IF row[s].seen = "fresh" \/
                                                     (row[s].seen = "live" /\ s \notin gone)
                                                   THEN "live" ELSE "old"]]
    BY <1>3 DEF WaitBeforeRecheck
  <2>2. ASSUME NEW r \in Row, NEW seen \in {"live", "old"}
        PROVE  /\ [Older(r) EXCEPT !.seen = seen].in = r.in
               /\ [Older(r) EXCEPT !.seen = seen].life = r.life
               /\ [Older(r) EXCEPT !.seen = seen].watch = r.watch
    <3>1. Older(r) \in Row /\ Older(r).in = r.in /\ Older(r).life = r.life /\ Older(r).watch = r.watch
      BY RowParts
    <3> QED
      BY <3>1 DEF Row
  <2>3. ASSUME NEW s \in Session
        PROVE  row'[s].in = row[s].in /\ row'[s].life = row[s].life /\ row'[s].watch = row[s].watch
    <3>1. PICK seen \in {"live", "old"} : row'[s] = [Older(row[s]) EXCEPT !.seen = seen]
      BY <2>1
    <3> QED
      BY <1>1, <2>2, <3>1
  <2> QED
    BY <2>3 DEF RowsKept
<1> QED
  BY <1>2, <1>3

LEMMA OverIsStill ==
    ASSUME TypeOK, NEW c \in Collector, NEW how \in {"done", "failed"}, Over(c, how),
           UNCHANGED <<row, play, plays, history, lives, overlapped>>
    PROVE  Still
<1>1. [Resting EXCEPT !.step = how].cur = Resting.cur /\ Idle([Resting EXCEPT !.step = how])
  BY DEF Resting, Idle
<1>2. \A d \in Collector : coll'[d] = coll[d] \/ d = c
  BY TypeParts DEF Types, Over
<1>3. Idle(coll'[c]) /\ coll'[c].cur = Resting.cur
  BY <1>1, IdleMoves, TypeParts DEF Types, Over
<1> QED
  BY <1>2, <1>3, IdleMoves DEF Still, RowsKept

LEMMA CollectionKinds ==
    ASSUME TypeOK, StepInv, NEW c \in Collector, CollectionStep(c) PROVE Still \/ Kinds(c)
<1> USE TypeParts DEF Types
<1>1. coll[c] \in Collection /\ Placed(coll[c])
  BY DEF StepInv
<1>2. CASE Begin(c) /\ Skipped
  <2>1. overlapped' = overlapped
    BY <1>2 DEF Begin
  <2> QED
    BY <1>2, <2>1, OverIsStill DEF Begin, provider
<1>3. CASE ProviderFails(c)
  BY <1>3, OverIsStill DEF ProviderFails, provider
<1>4. CASE Finish(c)
  BY <1>4, OverIsStill DEF Finish, provider
<1>5. CASE CloseReplaced(c)
  <2> DEFINE k == [coll[c] EXCEPT !.step = "upsert"]
  <2>1. k \in Collection /\ k.step = "upsert" /\ k.prev = coll[c].prev /\ k.cur = coll[c].cur
    BY <1>1 DEF Collection, Step
  <2>2. coll' = [coll EXCEPT ![c] = Onward(k)]
    BY <1>5 DEF CloseReplaced
  <2>3. RowsKept
    <3>1. ASSUME NEW r \in Row
          PROVE  /\ [r EXCEPT !.missing = 1, !.seen = IF @ = "fresh" THEN "live" ELSE @].in = r.in
                 /\ [r EXCEPT !.missing = 1, !.seen = IF @ = "fresh" THEN "live" ELSE @].life = r.life
                 /\ [r EXCEPT !.missing = 1, !.seen = IF @ = "fresh" THEN "live" ELSE @].watch = r.watch
      BY DEF Row
    <3> QED
      BY <1>5, <3>1 DEF CloseReplaced, RowsKept
  <2> HIDE DEF k
  <2>4. /\ Onward(k) \in Collection /\ Onward(k).step \in {"upsert", "sort", "finish"}
        /\ Onward(k).prev = coll[c].prev /\ Onward(k).cur = coll[c].cur
    BY <2>1, CollectionParts
  <2>5. Passes(c)
    BY <1>5, <2>2, <2>3, <2>4 DEF Passes, CloseReplaced, At, provider
  <2> QED
    BY <2>5 DEF Kinds
<1>6. CASE SortNext(c)
  <2> DEFINE s == NextOf(c)
             r == [row[s] EXCEPT !.missing = IF row[s].in /\ s \notin Present(coll[c]) THEN 1 ELSE 0]
             gone == [Rest(c) EXCEPT !.step = "record", !.hand = s, !.life = r.life, !.watch = r.watch]
  <2>1. s \in Session /\ row[s] \in Row
    BY <1>1, <1>6, CollectionParts DEF SortNext, At, Placed, NextOf
  <2>2. /\ r.in = row[s].in /\ r.life = row[s].life /\ r.watch = row[s].watch
        /\ r.missing = 1 => row[s].in /\ s \notin Present(coll[c])
    BY <2>1 DEF Row
  <2>3. row' = [row EXCEPT ![s] = r]
    BY <1>6 DEF SortNext
  <2>4. \/ r.missing = 1 /\ coll' = [coll EXCEPT ![c] = gone]
        \/ coll' = [coll EXCEPT ![c] = Onward(Rest(c))]
    BY <1>6 DEF SortNext
  <2>5. /\ Rest(c) \in Collection /\ Rest(c).step = "sort"
        /\ Rest(c).prev = coll[c].prev /\ Rest(c).cur = coll[c].cur
    BY <1>1, <1>6 DEF Rest, Collection, SortNext, At
  <2>6. r.life \in Nat /\ r.watch \in Playback
    BY <2>1, <2>2, RowParts
  <2>7. /\ gone \in Collection /\ gone.step = "record" /\ gone.hand = s /\ gone.cur = coll[c].cur
        /\ gone.life = row[s].life /\ gone.watch = row[s].watch
    BY <2>1, <2>2, <2>5, <2>6 DEF Collection, Step
  <2> HIDE DEF r, s, gone
  <2>8. RowsKept
    BY <2>1, <2>2, <2>3 DEF RowsKept
  <2>9. UNCHANGED <<lives, play, plays, history, overlapped>> /\ coll[c].step = "sort"
    BY <1>6 DEF SortNext, At, provider
  <2>10. CASE r.missing = 1 /\ coll' = [coll EXCEPT ![c] = gone]
    <3>1. coll[c].cur[s] = 0
      BY <2>1, <2>2, <2>10 DEF Present
    <3>2. Picks(c)
      BY <2>1, <2>2, <2>7, <2>8, <2>9, <2>10, <3>1 DEF Picks
    <3> QED
      BY <3>2 DEF Kinds
  <2>11. CASE coll' = [coll EXCEPT ![c] = Onward(Rest(c))]
    <3>1. /\ Onward(Rest(c)) \in Collection /\ Onward(Rest(c)).step \in {"sort", "finish"}
          /\ Onward(Rest(c)).prev = coll[c].prev /\ Onward(Rest(c)).cur = coll[c].cur
      BY <2>5, CollectionParts
    <3>2. Passes(c)
      BY <2>8, <2>9, <2>11, <3>1 DEF Passes
    <3> QED
      BY <3>2 DEF Kinds
  <2> QED
    BY <2>4, <2>10, <2>11
<1> QED
  BY <1>2, <1>3, <1>4, <1>5, <1>6 DEF CollectionStep, Collect, Kinds

LEMMA StepKinds ==
    ASSUME TypeOK, StepInv, [Next]_vars
    PROVE  \/ Still
           \/ \E s \in Session : StartPlaying(s)
           \/ \E c \in Collector : Kinds(c)
<1> USE TypeParts DEF Types
<1>1. ASSUME UNCHANGED <<row, lives, plays, history, overlapped, coll>>,
             \A s \in Session : play'[s] \in {0, play[s]}
      PROVE  Still
  BY <1>1 DEF Still, RowsKept
<1>2. ASSUME UNCHANGED <<row, lives, play, plays, history, overlapped, coll>> PROVE Still
  BY <1>1, <1>2
<1>3. ASSUME RowsKept, UNCHANGED <<lives, play, plays, history, overlapped, coll>> PROVE Still
  BY <1>3 DEF Still
<1>4. ASSUME UNCHANGED <<row, lives, play, plays, history, overlapped>>,
             NEW c \in Collector, NEW k, coll' = [coll EXCEPT ![c] = k], Idle(k),
             \A s \in Session : k.cur[s] \in {0, coll[c].cur[s]}
      PROVE  Still
  <2>1. \A d \in Collector : coll'[d] = coll[d] \/ (d = c /\ coll'[d] = k)
    BY <1>4
  <2> QED
    BY <1>4, <2>1 DEF Still, RowsKept
<1>5. ASSUME NEW s \in Session, StopPlaying(s) PROVE \A t \in Session : play'[t] \in {0, play[t]}
  BY <1>5 DEF StopPlaying, ProviderType
<1>6. CASE ProviderActs
  BY <1>1, <1>5, <1>6 DEF ProviderActs, StopPlaying, sessionVars
<1>7. CASE Outage \/ Recovery \/ CooldownPasses \/ CheckServers
  BY <1>2, <1>7 DEF Outage, GoDown, Recovery, ComeBack, CooldownPasses, CooldownEnds, CheckServers,
     sessionVars, provider
<1>8. CASE TimePasses
  BY <1>3, <1>8, AgingKeepsRows DEF TimePasses, RowsAge, provider
<1>9. CASE LeaseExpires \/ BackoffEnds \/ EnqueueRefresh
  BY <1>2, <1>9 DEF LeaseExpires, BackoffEnds, EnqueueRefresh, sessions, sessionVars, provider
<1>10. ASSUME NEW c \in Collector PROVE LET k == [coll[c] EXCEPT !.step = "begin"]
                                        IN  Idle(k) /\ k.cur = coll[c].cur
  BY DEF Collection, Idle
<1>11. CASE StartRefresh
  BY <1>4, <1>10, <1>11, Nothings DEF StartRefresh, provider
<1>12. CASE EndRefresh
  BY <1>4, <1>12, IdleMoves, Nothings DEF EndRefresh, provider
<1>13. CASE EnforcementStarts
  BY <1>2, <1>13 DEF EnforcementStarts, StartEnforcer, sessionVars, provider
<1>14. CASE EnforcementStep
  <2>1. ASSUME Kill PROVE \A t \in Session : play'[t] \in {0, play[t]}
    BY <2>1 DEF Kill, ProviderType
  <2>2. CASE Kill
    BY <1>1, <2>1, <2>2 DEF Kill, sessionVars
  <2>3. CASE WaitBeforeRecheck
    BY <1>3, <2>3, AgingKeepsRows DEF WaitBeforeRecheck, provider
  <2>4. CASE TakeViolation \/ Recheck \/ EndEnforcer
    BY <1>2, <2>4 DEF TakeViolation, Recheck, EndEnforcer, sessionVars, provider
  <2> QED
    BY <1>14, <2>2, <2>3, <2>4 DEF EnforcementStep, Enforce
<1>15. ASSUME NEW c \in Collector, WebsocketEvent(c) PROVE Still
  BY <1>4, <1>10, <1>15 DEF WebsocketEvent, provider
<1>16. CASE Death
  <2>1. \A c \in Collector : coll'[c] = Resting
    BY <1>16 DEF Death
  <2> QED
    BY <1>16, <2>1, IdleMoves DEF Death, Still, RowsKept, provider
<1>17. CASE UNCHANGED vars
  BY <1>2, <1>17 DEF vars, sessionVars, provider
<1> QED
  BY <1>6, <1>7, <1>8, <1>9, <1>11, <1>12, <1>13, <1>14, <1>15, <1>16, <1>17, CollectionKinds DEF Next

----------------------------------------------------------------------------
(***************************************************************************)
(* Starts are numbered, and a playback is of one session.                   *)
(***************************************************************************)
LEMMA UpsertedRow ==
    ASSUME TypeOK, StepInv, NEW c \in Collector, UpsertNext(c)
    PROVE  /\ NextOf(c) \in Session /\ coll[c].cur[NextOf(c)] # 0
           /\ \A s \in Session \ {NextOf(c)} : row'[s] = row[s]
           /\ row'[NextOf(c)].in /\ row'[NextOf(c)].watch = coll[c].cur[NextOf(c)]
           /\ row'[NextOf(c)].life \in {row[NextOf(c)].life, lives + 1}
           /\ \/ lives' = lives /\ row'[NextOf(c)].life = row[NextOf(c)].life
              \/ lives' = lives + 1 /\ row'[NextOf(c)].life = lives + 1
           /\ row'[NextOf(c)].life = 0 => NextOf(c) \in coll[c].prev /\ ~row[NextOf(c)].in
<1> DEFINE s == NextOf(c)
           fresh == row[s].life = 0 /\ (s \notin coll[c].prev \/ row[s].in)
           r == [in |-> TRUE, life |-> IF fresh THEN lives + 1 ELSE row[s].life,
                 watch |-> coll[c].cur[s], seen |-> "fresh",
                 stable |-> row[s].stable /\ ~fresh, missing |-> 0]
<1>1. coll[c] \in Collection /\ Placed(coll[c]) /\ coll[c].step = "upsert" /\ lives \in Nat
  BY TypeParts DEF Types, StepInv, UpsertNext, At
<1>2. s \in coll[c].todo /\ s \in Session /\ coll[c].cur[s] # 0
  BY <1>1 DEF Placed, NextOf, Present, Collection
<1>3. row' = [row EXCEPT ![s] = r] /\ lives' = IF fresh THEN lives + 1 ELSE lives
  BY DEF UpsertNext, Upsert
<1>4. row'[s] = r /\ \A t \in Session \ {s} : row'[t] = row[t]
  BY <1>2, <1>3, TypeParts DEF Types
<1>5. CASE fresh
  BY <1>1, <1>2, <1>3, <1>4, <1>5
<1>6. CASE ~fresh
  BY <1>1, <1>2, <1>3, <1>4, <1>6
<1> QED
  BY <1>5, <1>6

LEMMA RemovedRow ==
    ASSUME TypeOK, StepInv, NEW c \in Collector, Remove(c)
    PROVE  /\ coll[c].hand \in Session
           /\ ~row'[coll[c].hand].in /\ row'[coll[c].hand].life = 0
           /\ \A s \in Session \ {coll[c].hand} : row'[s] = row[s]
           /\ \E k \in Collection : /\ coll' = [coll EXCEPT ![c] = k]
                                    /\ k.step \in {"sort", "finish"} /\ k.cur = coll[c].cur
<1>1. coll[c] \in Collection /\ Placed(coll[c]) /\ coll[c].step = "remove"
  BY TypeParts DEF Types, StepInv, Remove, At
<1>2. coll[c].hand \in Session
  BY <1>1 DEF Placed
<1>3. NextRow(c) \in Collection /\ NextRow(c).step = "sort" /\ NextRow(c).cur = coll[c].cur
  BY <1>1, Nothings DEF NextRow, Collection, Step
<1>4. /\ Onward(NextRow(c)) \in Collection /\ Onward(NextRow(c)).step \in {"sort", "finish"}
      /\ Onward(NextRow(c)).cur = coll[c].cur
  BY <1>3, CollectionParts
<1>5. row' = [row EXCEPT ![coll[c].hand] = NoRow] /\ coll' = [coll EXCEPT ![c] = Onward(NextRow(c))]
  BY DEF Remove
<1> QED
  BY <1>2, <1>4, <1>5, TypeParts DEF Types, NoRow

\* What the provider answered, with what it was asked by.
LEMMA AskedCollection ==
    ASSUME TypeOK, NEW c \in Collector, AskProvider(c)
    PROVE  \E k \in Collection :
             /\ coll' = [coll EXCEPT ![c] = k]
             /\ k.step \in {"replace", "upsert", "sort", "finish"}
             /\ k.prev = coll[c].prev /\ k.cur = play
<1> DEFINE k == [coll[c] EXCEPT !.step = "upsert", !.cur = play, !.todo = {s \in Session : play[s] # 0}]
           q == [k EXCEPT !.step = "replace"]
<1>1. k \in Collection /\ k.step = "upsert" /\ k.prev = coll[c].prev /\ k.cur = play
  <2>1. coll[c] \in Collection /\ play \in [Session -> Playback]
    BY TypeParts DEF Types, ProviderType
  <2>2. "upsert" \in Step /\ {s \in Session : play[s] # 0} \in SUBSET Session
    BY DEF Step
  <2> QED
    BY <2>1, <2>2 DEF Collection
<1>2. coll' = [coll EXCEPT ![c] = Onward(k)] \/ coll' = [coll EXCEPT ![c] = q]
  BY DEF AskProvider
<1> HIDE DEF k
<1>3. q \in Collection /\ q.step = "replace" /\ q.prev = k.prev /\ q.cur = k.cur
  BY <1>1 DEF Collection, Step
<1>4. /\ Onward(k) \in Collection /\ Onward(k).step \in {"upsert", "sort", "finish"}
      /\ Onward(k).prev = k.prev /\ Onward(k).cur = k.cur
  BY <1>1, CollectionParts
<1> QED
  BY <1>1, <1>2, <1>3, <1>4

LEMMA LifeNext ==
    ASSUME TypeOK, StepInv, LifeInv, [Next]_vars PROVE LifeInv'
<1>1. lives \in Nat /\ \A s \in Session : row[s].life \in Nat
  BY TypeParts, RowParts DEF Types
<1>2. ASSUME RowsKept, lives' = lives PROVE LifeInv'
  BY <1>2 DEF LifeInv, RowsKept
<1>3. ASSUME row' = row, lives' \in {lives, lives + 1} PROVE LifeInv'
  BY <1>1, <1>3 DEF LifeInv
<1>4. ASSUME NEW s \in Session, StartPlaying(s) PROVE LifeInv'
  BY <1>3, <1>4 DEF StartPlaying, sessionVars
<1>5. ASSUME NEW c \in Collector, UpsertNext(c) PROVE LifeInv'
  <2>1. /\ \A s \in Session \ {NextOf(c)} : row'[s] = row[s]
        /\ \/ lives' = lives /\ row'[NextOf(c)].life = row[NextOf(c)].life
           \/ lives' = lives + 1 /\ row'[NextOf(c)].life = lives + 1
        /\ NextOf(c) \in Session
    BY <1>5, UpsertedRow
  <2> QED
    BY <1>1, <2>1 DEF LifeInv
<1>6. ASSUME NEW c \in Collector, Remove(c) PROVE LifeInv'
  <2>1. \A s \in Session : row'[s].life \in {0, row[s].life}
    BY <1>6, RemovedRow
  <2>2. lives' = lives
    BY <1>6 DEF Remove
  <2> QED
    BY <1>1, <2>1, <2>2 DEF LifeInv
<1>7. ASSUME NEW c \in Collector, Begin(c) \/ AskProvider(c) \/ Record(c) PROVE LifeInv'
  BY <1>3, <1>7 DEF Begin, AskProvider, Record
<1> QED
  BY <1>2, <1>4, <1>5, <1>6, <1>7, StepKinds DEF Still, Kinds, Passes, Picks

\* Nobody learns of a playback but from somebody who knows of it.
NotesKept == \A s \in Session, w \in Playback \ {0} : Noted(s, w)' => Noted(s, w)

LEMMA NotesFrom ==
    ASSUME \A s \in Session : play'[s] \in {0, play[s]},
           \A s \in Session : row'[s].in =>
              \/ row[s].in /\ row'[s].watch = row[s].watch
              \/ \E c \in Collector : coll[c].cur[s] = row'[s].watch,
           \A h \in history' :
              h \in history \/ \E c \in Collector : /\ Removing(c) /\ coll[c].hand = h.session
                                                    /\ coll[c].watch = h.watch,
           \A c \in Collector, s \in Session : coll'[c].cur[s] \in {0, coll[c].cur[s], play[s]},
           \A c \in Collector : coll'[c].step \in {"record", "remove"} =>
              \/ Removing(c) /\ coll'[c].hand = coll[c].hand /\ coll'[c].watch = coll[c].watch
              \/ row[coll'[c].hand].in /\ row[coll'[c].hand].watch = coll'[c].watch
    PROVE  NotesKept
<1> SUFFICES ASSUME NEW s \in Session, NEW w \in Playback \ {0}, Noted(s, w)' PROVE Noted(s, w)
  BY DEF NotesKept
<1>1. ASSUME play'[s] = w PROVE Noted(s, w)
  BY <1>1 DEF Noted
<1>2. ASSUME row'[s].in /\ row'[s].watch = w PROVE Noted(s, w)
  BY <1>2 DEF Noted
<1>3. ASSUME NEW h \in history', h.session = s /\ h.watch = w PROVE Noted(s, w)
  BY <1>3 DEF Noted
<1>4. ASSUME NEW c \in Collector, coll'[c].cur[s] = w PROVE Noted(s, w)
  BY <1>4 DEF Noted
<1>5. ASSUME NEW c \in Collector, coll'[c].step \in {"record", "remove"},
             coll'[c].hand = s /\ coll'[c].watch = w
      PROVE  Noted(s, w)
  BY <1>5 DEF Noted
<1> QED
  BY <1>1, <1>2, <1>3, <1>4, <1>5 DEF Noted, Removing

LEMMA StillKeepsNotes == ASSUME TypeOK, Still PROVE NotesKept
<1>1. \A c \in Collector : coll'[c].step \in {"record", "remove"} =>
        Removing(c) /\ coll'[c].hand = coll[c].hand /\ coll'[c].watch = coll[c].watch
  BY DEF Still, Idle, Removing
<1>2. \A c \in Collector, s \in Session : coll'[c].cur[s] \in {0, coll[c].cur[s], play[s]}
  BY DEF Still
<1>3. /\ \A s \in Session : play'[s] \in {0, play[s]}
      /\ \A s \in Session : row'[s].in => row[s].in /\ row'[s].watch = row[s].watch
      /\ history' = history
  BY DEF Still, RowsKept
<1> QED
  BY <1>1, <1>2, <1>3, NotesFrom

LEMMA KindsKeepNotes ==
    ASSUME TypeOK, StepInv, NEW c \in Collector, Kinds(c) PROVE NotesKept
<1> USE TypeParts DEF Types
<1>1. ASSUME NEW k \in Collection, coll' = [coll EXCEPT ![c] = k],
             \A s \in Session : play'[s] \in {0, play[s]},
             \A s \in Session : row'[s].in =>
                \/ row[s].in /\ row'[s].watch = row[s].watch
                \/ \E d \in Collector : coll[d].cur[s] = row'[s].watch,
             \A h \in history' : h \in history \/ (/\ Removing(c) /\ coll[c].hand = h.session
                                                   /\ coll[c].watch = h.watch),
             \A s \in Session : k.cur[s] \in {0, coll[c].cur[s], play[s]},
             k.step \in {"record", "remove"} =>
                \/ Removing(c) /\ k.hand = coll[c].hand /\ k.watch = coll[c].watch
                \/ row[k.hand].in /\ row[k.hand].watch = k.watch
      PROVE  NotesKept
  <2>1. \A d \in Collector : coll'[d] = IF d = c THEN k ELSE coll[d]
    BY <1>1
  <2>2. \A d \in Collector : coll'[d].step \in {"record", "remove"} =>
           \/ Removing(d) /\ coll'[d].hand = coll[d].hand /\ coll'[d].watch = coll[d].watch
           \/ row[coll'[d].hand].in /\ row[coll'[d].hand].watch = coll'[d].watch
    BY <1>1, <2>1 DEF Removing
  <2>3. \A d \in Collector, s \in Session : coll'[d].cur[s] \in {0, coll[d].cur[s], play[s]}
    BY <1>1, <2>1
  <2>4. \A h \in history' : h \in history \/ \E d \in Collector : /\ Removing(d) /\ coll[d].hand = h.session
                                                                  /\ coll[d].watch = h.watch
    BY <1>1
  <2> QED
    BY <1>1, <2>2, <2>3, <2>4, NotesFrom
<1>2. CASE Passes(c)
  <2>1. PICK k \in Collection : coll' = [coll EXCEPT ![c] = k] /\ k.step \in {"upsert", "sort", "finish"}
                                /\ k.cur = coll[c].cur
    BY <1>2 DEF Passes
  <2> QED
    BY <1>1, <1>2, <2>1 DEF Passes, RowsKept
<1>3. CASE Picks(c)
  <2>1. PICK k \in Collection : /\ coll' = [coll EXCEPT ![c] = k] /\ k.cur = coll[c].cur
                                /\ row[k.hand].in /\ k.watch = row[k.hand].watch
    BY <1>3 DEF Picks
  <2> QED
    BY <1>1, <1>3, <2>1 DEF Picks, RowsKept
<1>4. CASE Begin(c) /\ ~Skipped
  <2> DEFINE k == [coll[c] EXCEPT !.step = "ask", !.prev = {s \in Session : row[s].in}]
  <2>1. k \in Collection /\ k.step = "ask" /\ k.cur = coll[c].cur
    BY DEF Collection, Step
  <2>2. coll' = [coll EXCEPT ![c] = k] /\ UNCHANGED <<play, row, history>>
    BY <1>4 DEF Begin, provider
  <2> HIDE DEF k
  <2> QED
    BY <1>1, <2>1, <2>2
<1>5. CASE AskProvider(c)
  <2>1. PICK k \in Collection : /\ coll' = [coll EXCEPT ![c] = k] /\ k.cur = play
                                /\ k.step \in {"replace", "upsert", "sort", "finish"}
    BY <1>5, AskedCollection
  <2>2. UNCHANGED <<play, row, history>>
    BY <1>5 DEF AskProvider, provider
  <2> QED
    BY <1>1, <2>1, <2>2
<1>6. CASE UpsertNext(c)
  <2>1. /\ Rest(c) \in Collection /\ Rest(c).step = "upsert" /\ Rest(c).cur = coll[c].cur
    <3>1. coll[c] \in Collection /\ coll[c].step = "upsert"
      BY <1>6 DEF UpsertNext, At
    <3> QED
      BY <3>1 DEF Rest, Collection
  <2>2. /\ Onward(Rest(c)) \in Collection /\ Onward(Rest(c)).step \in {"upsert", "sort", "finish"}
        /\ Onward(Rest(c)).cur = coll[c].cur
    BY <2>1, CollectionParts
  <2>3. coll' = [coll EXCEPT ![c] = Onward(Rest(c))] /\ UNCHANGED <<play, history>>
    BY <1>6 DEF UpsertNext, provider
  <2>4. \A s \in Session : row'[s].in =>
                \/ row[s].in /\ row'[s].watch = row[s].watch
                \/ \E d \in Collector : coll[d].cur[s] = row'[s].watch
    BY <1>6, UpsertedRow
  <2> QED
    BY <1>1, <2>2, <2>3, <2>4
<1>7. CASE Record(c)
  <2> DEFINE k == [coll[c] EXCEPT !.step = "remove"]
  <2>1. /\ k \in Collection /\ k.cur = coll[c].cur /\ k.hand = coll[c].hand /\ k.watch = coll[c].watch
        /\ Removing(c)
    BY <1>7 DEF Collection, Step, Record, At, Removing
  <2>2. coll' = [coll EXCEPT ![c] = k] /\ UNCHANGED <<play, row>>
    BY <1>7 DEF Record, Go, provider
  <2>3. \A h \in history' : h \in history \/ (coll[c].hand = h.session /\ coll[c].watch = h.watch)
    BY <1>7 DEF Record
  <2> HIDE DEF k
  <2> QED
    BY <1>1, <2>1, <2>2, <2>3
<1>8. CASE Remove(c)
  <2>1. PICK k \in Collection : /\ coll' = [coll EXCEPT ![c] = k] /\ k.cur = coll[c].cur
                                /\ k.step \in {"sort", "finish"}
    BY <1>8, RemovedRow
  <2>2. \A s \in Session : row'[s].in => row[s].in /\ row'[s].watch = row[s].watch
    BY <1>8, RemovedRow
  <2>3. UNCHANGED <<play, history>>
    BY <1>8 DEF Remove, provider
  <2> QED
    BY <1>1, <2>1, <2>2, <2>3
<1> QED
  BY <1>2, <1>3, <1>4, <1>5, <1>6, <1>7, <1>8 DEF Kinds

LEMMA PlayNext ==
    ASSUME TypeOK, TypeOK', StepInv, PlayInv, [Next]_vars PROVE PlayInv'
<1>1. ASSUME NotesKept, plays' = plays PROVE PlayInv'
  BY <1>1 DEF NotesKept, PlayInv
<1>2. ASSUME Still PROVE PlayInv'
  BY <1>1, <1>2, StillKeepsNotes DEF Still
<1>3. ASSUME NEW c \in Collector, Kinds(c) PROVE PlayInv'
  <2>1. plays' = plays
    BY <1>3 DEF Kinds, Passes, Picks, Begin, AskProvider, UpsertNext, Record, Remove, provider
  <2> QED
    BY <1>1, <1>3, <2>1, KindsKeepNotes
<1>4. ASSUME NEW s \in Session, StartPlaying(s) PROVE PlayInv'
  <2>1. plays \in Nat /\ plays' = plays + 1 /\ UNCHANGED <<row, history, coll>>
    BY <1>4, TypeParts DEF StartPlaying, sessionVars, Types, ProviderType, Playback
  <2>2. \A t \in Session : play'[t] = IF t = s THEN plays + 1 ELSE play[t]
    BY <1>4, TypeParts DEF StartPlaying, Types, ProviderType
  <2>3. ASSUME NEW t \in Session, NEW w \in Playback \ {0}, Noted(t, w)'
        PROVE  Noted(t, w) \/ (t = s /\ w = plays + 1)
    BY <2>1, <2>2, <2>3 DEF Noted, Removing
  <2>4. \A t \in Session, w \in Playback \ {0} : Noted(t, w) => w <= plays
    BY DEF PlayInv
  <2>5. \A w \in Playback : w \in Nat
    BY DEF Playback
  <2>6. ASSUME NEW w \in Playback \ {0}, NEW t \in Session, Noted(t, w)' PROVE w <= plays'
    BY <2>1, <2>3, <2>4, <2>5, <2>6
  <2>7. ASSUME NEW w \in Playback \ {0}, NEW t \in Session, NEW v \in Session, Noted(t, w)', Noted(v, w)'
        PROVE  t = v
    <3>1. CASE w = plays + 1
      <4>1. ~Noted(t, w) /\ ~Noted(v, w)
        BY <2>1, <2>4, <3>1
      <4> QED
        BY <2>3, <2>7, <4>1
    <3>2. CASE w # plays + 1
      BY <2>3, <2>7, <3>2 DEF PlayInv
    <3> QED
      BY <3>1, <3>2
  <2> QED
    BY <2>6, <2>7 DEF PlayInv
<1> QED
  BY <1>2, <1>3, <1>4, StepKinds

----------------------------------------------------------------------------
(***************************************************************************)
(* What one collection at a time keeps.                                     *)
(***************************************************************************)
LEMMA IdleKnowsNothing == \A k : Idle(k) => Known(k) /\ Known(k)'
  BY DEF Idle, Known

LEMMA KnownNext == ASSUME NEW c, NEW k, coll'[c] = k, Known(k)' PROVE Known(coll[c])'
  BY DEF Known

LEMMA StillKeepsOne == ASSUME TypeOK, StepInv, OneHand, Still PROVE OneHand'
<1>1. /\ \A s \in Session : row'[s].in = row[s].in /\ row'[s].life = row[s].life /\ row'[s].watch = row[s].watch
      /\ \A s \in Session : play'[s] \in {0, play[s]}
      /\ history' = history
      /\ \A c \in Collector : coll'[c] = coll[c] \/ Idle(coll'[c])
  BY DEF Still, RowsKept
<1>2. \A s \in Session : row[s].in => row[s].watch # 0
  BY DEF OneHand, RowInv
<1>3. AloneInv'
  BY <1>1 DEF OneHand, AloneInv, Busy
<1>4. RowInv'
  BY <1>1 DEF OneHand, RowInv
<1>5. HistoryInv'
  BY <1>1 DEF OneHand, HistoryInv
<1>6. HandInv'
  <2>1. ASSUME NEW k \in Collection, Known(k), Placed(k) PROVE Known(k)'
    <3>1. k.prev \subseteq Session /\ (k.step \in {"record", "remove"} => k.hand \in Session)
      BY <2>1, CollectionParts DEF Placed
    <3> QED
      BY <1>1, <1>2, <2>1, <3>1 DEF Known
  <2>2. ASSUME NEW c \in Collector PROVE Known(coll[c])'
    <3>1. coll[c] \in Collection /\ Placed(coll[c]) /\ Known(coll[c])
      BY TypeParts DEF Types, StepInv, OneHand, HandInv
    <3>2. CASE coll'[c] = coll[c]
      <4>1. PICK k \in Collection : k = coll[c]
        BY <3>1
      <4>2. Known(k)'
        BY <2>1, <3>1, <4>1
      <4> QED
        BY <3>2, <4>1, <4>2, KnownNext
    <3>3. CASE Idle(coll'[c])
      BY <3>3 DEF Known, Idle
    <3> QED
      BY <1>1, <3>2, <3>3
  <2> QED
    BY <2>2 DEF HandInv
<1> QED
  BY <1>3, <1>4, <1>5, <1>6 DEF OneHand

\* The collection that has the rows goes on, and the others have none.
LEMMA OneMoves ==
    ASSUME TypeOK, NEW c \in Collector, \A d \in Collector \ {c} : Idle(coll[d]),
           NEW k \in Collection, coll' = [coll EXCEPT ![c] = k], Known(k)'
    PROVE  AloneInv' /\ HandInv'
<1>1. coll'[c] = k /\ \A d \in Collector \ {c} : coll'[d] = coll[d]
  BY TypeParts DEF Types
<1>2. AloneInv'
  BY <1>1 DEF AloneInv, Busy
<1>3. Known(coll[c])'
  BY <1>1, KnownNext
<1>4. ASSUME NEW d \in Collector \ {c} PROVE Known(coll[d])'
  <2>1. Idle(coll'[d])
    BY <1>1
  <2> QED
    BY <2>1 DEF Known, Idle
<1>5. HandInv'
  BY <1>3, <1>4 DEF HandInv
<1> QED
  BY <1>2, <1>5

LEMMA StartKeepsOne ==
    ASSUME TypeOK, StepInv, PlayInv, OneHand, NEW s \in Session, StartPlaying(s) PROVE OneHand'
<1>1. /\ plays \in Nat /\ plays + 1 \in Playback \ {0}
      /\ UNCHANGED <<row, history, coll>>
  BY MonitoringBounds, TypeParts DEF StartPlaying, sessionVars, Types, ProviderType, Playback
<1>2. \A t \in Session : play'[t] \in {play[t], plays + 1}
  BY TypeParts DEF StartPlaying, Types, ProviderType
<1>3. ASSUME NEW t \in Session PROVE ~Noted(t, plays + 1)
  BY <1>1 DEF PlayInv
<1>4. \A t \in Session : row[t].in => row[t].watch # plays + 1
  BY <1>3 DEF Noted
<1>5. \A h \in history : h.watch # plays + 1
  BY <1>3, TypeParts DEF Noted, Types, HistoryType
<1>6. AloneInv' /\ RowInv'
  BY <1>1 DEF OneHand, AloneInv, RowInv, Busy
<1>7. HistoryInv'
  BY <1>1, <1>2, <1>5 DEF OneHand, HistoryInv
<1>8. ASSUME NEW c \in Collector PROVE Known(coll[c])'
  <2>1. Known(coll[c])
    BY DEF OneHand, HandInv
  <2> QED
    BY <1>1, <1>2, <1>4, <2>1 DEF Known
<1> QED
  BY <1>6, <1>7, <1>8 DEF OneHand, HandInv

\* The rows are as they were, and so are the playbacks and their history.
LEMMA CalmKeepsOne ==
    ASSUME TypeOK, StepInv, OneHand, RowsKept, UNCHANGED <<play, history>>,
           NEW c \in Collector, \A d \in Collector \ {c} : Idle(coll[d]),
           NEW k \in Collection, coll' = [coll EXCEPT ![c] = k], Placed(k), Known(k)
    PROVE  OneHand'
<1>1. k.prev \subseteq Session /\ (k.step \in {"record", "remove"} => k.hand \in Session)
  BY CollectionParts DEF Placed
<1>2. Known(k)'
  BY <1>1 DEF RowsKept, Known
<1>3. RowInv' /\ HistoryInv'
  BY DEF OneHand, RowInv, HistoryInv, RowsKept
<1> QED
  BY <1>2, <1>3, OneMoves DEF OneHand

LEMMA BeginKeepsOne ==
    ASSUME TypeOK, StepInv, OneHand, ~overlapped', NEW c \in Collector, Begin(c), ~Skipped
    PROVE  OneHand'
<1> DEFINE k == [coll[c] EXCEPT !.step = "ask", !.prev = {s \in Session : row[s].in}]
<1>1. k \in Collection /\ k.step = "ask" /\ k.prev = {s \in Session : row[s].in}
  BY TypeParts DEF Types, Collection, Step
<1>2. coll' = [coll EXCEPT ![c] = k] /\ UNCHANGED <<play, row, history>>
  BY DEF Begin, provider
<1>3. \A d \in Collector \ {c} : Idle(coll[d])
  BY DEF Begin, Idle
<1> HIDE DEF k
<1>4. Known(k) /\ Placed(k)
  BY <1>1 DEF Known, Placed
<1>5. RowsKept
  BY <1>2 DEF RowsKept
<1> QED
  BY <1>1, <1>2, <1>3, <1>4, <1>5, CalmKeepsOne

LEMMA PassesKeepsOne ==
    ASSUME TypeOK, StepInv, OneHand, NEW c \in Collector, Passes(c) \/ Picks(c),
           \A d \in Collector \ {c} : Idle(coll[d]), Placed(coll[c])'
    PROVE  OneHand'
<1>1. coll[c] \in Collection /\ Known(coll[c])
  BY TypeParts DEF Types, OneHand, HandInv
<1>2. CASE Passes(c)
  <2>1. PICK k \in Collection : /\ coll' = [coll EXCEPT ![c] = k] /\ k.step \in {"upsert", "sort", "finish"}
                                /\ k.step = "upsert" => coll[c].step = "replace"
                                /\ k.prev = coll[c].prev /\ k.cur = coll[c].cur
    BY <1>2 DEF Passes
  <2>2. coll[c].step \in {"replace", "sort"} /\ RowsKept /\ UNCHANGED <<play, history>>
    BY <1>2 DEF Passes
  <2>3. Known(k)
    BY <1>1, <2>1, <2>2 DEF Known, Idle
  <2>4. coll'[c] = k
    BY <2>1, TypeParts DEF Types
  <2>5. Placed(k)
    BY <2>4 DEF Placed, Present
  <2> QED
    BY <2>1, <2>2, <2>3, <2>5, CalmKeepsOne
<1>3. CASE Picks(c)
  <2>1. PICK k \in Collection :
          /\ coll' = [coll EXCEPT ![c] = k]
          /\ k.step = "record" /\ k.hand \in Session
          /\ k.cur = coll[c].cur /\ k.cur[k.hand] = 0
          /\ row[k.hand].in /\ k.life = row[k.hand].life /\ k.watch = row[k.hand].watch
    BY <1>3 DEF Picks
  <2>2. coll[c].step = "sort" /\ RowsKept /\ UNCHANGED <<play, history>>
    BY <1>3 DEF Picks
  <2>3. Known(k) /\ Placed(k)
    BY <1>1, <2>1, <2>2 DEF Known, Idle, Placed
  <2> QED
    BY <2>1, <2>2, <2>3, CalmKeepsOne
<1> QED
  BY <1>2, <1>3

LEMMA AskKeepsOne ==
    ASSUME TypeOK, StepInv, OneHand, NEW c \in Collector, AskProvider(c),
           \A d \in Collector \ {c} : Idle(coll[d]), Placed(coll[c])'
    PROVE  OneHand'
<1>1. Known(coll[c]) /\ coll[c].step = "ask" /\ UNCHANGED <<play, row, history>>
  BY DEF OneHand, HandInv, AskProvider, At, provider
<1>2. PICK k \in Collection :
         /\ coll' = [coll EXCEPT ![c] = k]
         /\ k.step \in {"replace", "upsert", "sort", "finish"}
         /\ k.prev = coll[c].prev /\ k.cur = play
  BY AskedCollection
<1>3. \A s \in Session : /\ row[s].in => row[s].watch # 0
                         /\ \A h \in history : h.watch # play[s]
  BY DEF OneHand, RowInv, HistoryInv
<1>4. Known(k)
  BY <1>1, <1>2, <1>3 DEF Known
<1>5. coll'[c] = k
  BY <1>2, TypeParts DEF Types
<1>6. Placed(k)
  BY <1>5 DEF Placed, Present
<1>7. RowsKept
  BY <1>1 DEF RowsKept
<1> QED
  BY <1>1, <1>2, <1>4, <1>6, <1>7, CalmKeepsOne

LEMMA UpsertKeepsOne ==
    ASSUME TypeOK, StepInv, OneHand, NEW c \in Collector, UpsertNext(c),
           \A d \in Collector \ {c} : Idle(coll[d])
    PROVE  OneHand'
<1> DEFINE s == NextOf(c)
<1>1. Known(coll[c]) /\ coll[c].step = "upsert" /\ coll[c] \in Collection /\ UNCHANGED <<play, history>>
  BY TypeParts DEF Types, OneHand, HandInv, UpsertNext, At, provider
<1>2. /\ s \in Session /\ coll[c].cur[s] # 0
      /\ \A t \in Session \ {s} : row'[t] = row[t]
      /\ row'[s].in /\ row'[s].watch = coll[c].cur[s]
      /\ row'[s].life = 0 => s \in coll[c].prev /\ ~row[s].in
  BY UpsertedRow
<1>3. row'[s].life # 0
  BY <1>1, <1>2 DEF Known
<1>4. RowInv'
  BY <1>2, <1>3 DEF OneHand, RowInv
<1>5. HistoryInv'
  <2>1. \A h \in history : h.watch # coll[c].cur[s]
    BY <1>1, <1>2 DEF Known, Idle
  <2>2. \A h \in history, t \in Session : row'[t].in /\ row'[t].watch = h.watch => row'[t].life = h.life
    BY <1>2, <2>1 DEF OneHand, HistoryInv
  <2> QED
    BY <1>1, <2>2 DEF OneHand, HistoryInv
<1>6. /\ Onward(Rest(c)) \in Collection /\ Onward(Rest(c)).step \in {"upsert", "sort", "finish"}
      /\ Onward(Rest(c)).prev = coll[c].prev /\ Onward(Rest(c)).cur = coll[c].cur
  <2>1. /\ Rest(c) \in Collection /\ Rest(c).step = "upsert" /\ Rest(c).cur = coll[c].cur
        /\ Rest(c).prev = coll[c].prev
    BY <1>1 DEF Rest, Collection
  <2> QED
    BY <2>1, CollectionParts
<1>7. PICK k \in Collection : k = Onward(Rest(c))
  BY <1>6
<1>8. Known(k)'
  <2>1. k.step \in {"upsert", "sort", "finish"} /\ k.prev = coll[c].prev /\ k.cur = coll[c].cur
    BY <1>6, <1>7
  <2>2. /\ \A t \in coll[c].prev : row[t].in
        /\ \A t \in Session :
              /\ coll[c].cur[t] = 0 /\ row[t].in => play[t] # row[t].watch
              /\ coll[c].cur[t] # 0 => \A h \in history : h.watch # coll[c].cur[t]
    BY <1>1 DEF Known, Idle
  <2>3. \A t \in coll[c].prev : row'[t].in
    BY <1>1, <1>2, <2>2, CollectionParts
  <2>4. \A t \in Session : coll[c].cur[t] = 0 /\ row'[t].in => play'[t] # row'[t].watch
    BY <1>1, <1>2, <2>2
  <2> HIDE DEF s
  <2> QED
    BY <1>1, <2>1, <2>2, <2>3, <2>4 DEF Known
<1>9. coll' = [coll EXCEPT ![c] = k]
  BY <1>7 DEF UpsertNext
<1> HIDE DEF s
<1>10. AloneInv' /\ HandInv'
  BY <1>8, <1>9, OneMoves
<1> QED
  BY <1>4, <1>5, <1>10 DEF OneHand

LEMMA RecordKeepsOne ==
    ASSUME TypeOK, StepInv, PlayInv, OneHand, NEW c \in Collector, Record(c),
           \A d \in Collector \ {c} : Idle(coll[d])
    PROVE  OneHand'
<1> DEFINE s == coll[c].hand
           w == coll[c].watch
           new == [session |-> s, life |-> coll[c].life, watch |-> w]
           k == [coll[c] EXCEPT !.step = "remove"]
<1>1. /\ coll[c] \in Collection /\ Known(coll[c]) /\ coll[c].step = "record" /\ s \in Session
      /\ UNCHANGED <<play, row>>
  BY TypeParts DEF Types, OneHand, HandInv, StepInv, Placed, Record, At, provider
<1>2. /\ row[s].in /\ coll[c].cur[s] = 0 /\ coll[c].life = row[s].life /\ w = row[s].watch
      /\ play[s] # w
  BY <1>1 DEF Known, Idle
<1>3. coll[c].life # 0 /\ w # 0 /\ w \in Playback
  BY <1>1, <1>2, CollectionParts DEF OneHand, RowInv
<1>4. history' = history \cup {new}
  BY <1>3 DEF Record
<1>5. coll' = [coll EXCEPT ![c] = k]
  BY DEF Record, Go
<1>6. /\ k \in Collection /\ k.step = "remove" /\ k.prev = coll[c].prev /\ k.cur = coll[c].cur
      /\ k.hand = s /\ k.life = coll[c].life /\ k.watch = w
  BY <1>1 DEF Collection, Step
<1>7. Noted(s, w) /\ \A t \in Session : Noted(t, w) => t = s
  BY <1>1, <1>2, <1>3 DEF Noted, PlayInv
<1>8. new.session = s /\ new.life = row[s].life /\ new.watch = w
  BY <1>2
<1>9. \A h \in history : h.watch = w => h = new
  <2> SUFFICES ASSUME NEW h \in history, h.watch = w PROVE h = new
    OBVIOUS
  <2>1. h \in [session : Session, life : Nat, watch : Playback]
    BY TypeParts DEF Types, HistoryType
  <2>2. h.session = s
    BY <1>7, <2>1 DEF Noted
  <2>3. h.life = row[s].life
    BY <1>1, <1>2 DEF OneHand, HistoryInv
  <2> QED
    BY <1>2, <2>1, <2>2, <2>3
<1> HIDE DEF s, w, new, k
<1>10. HistoryInv'
  <2>1. ASSUME NEW h \in history'
        PROVE  /\ h.watch # 0 /\ \A t \in Session : play[t] # h.watch
               /\ \A t \in Session : row[t].in /\ row[t].watch = h.watch => row[t].life = h.life
    <3>1. CASE h = new
      <4>1. \A t \in Session : play[t] # w
        BY <1>2, <1>7 DEF Noted
      <4>2. \A t \in Session : row[t].in /\ row[t].watch = w => t = s
        BY <1>7 DEF Noted
      <4> QED
        BY <1>3, <1>8, <3>1, <4>1, <4>2
    <3>2. CASE h \in history
      BY <3>2 DEF OneHand, HistoryInv
    <3> QED
      BY <1>4, <3>1, <3>2
  <2>2. ASSUME NEW g \in history', NEW h \in history', g.watch = h.watch PROVE g = h
    <3>1. \A x \in history' : x = new \/ (x \in history /\ (x.watch = w => x = new))
      BY <1>4, <1>9
    <3> QED
      BY <1>8, <2>2, <3>1 DEF OneHand, HistoryInv
  <2> QED
    BY <1>1, <2>1, <2>2 DEF HistoryInv
<1>11. PICK q \in Collection : q = k
  BY <1>6
<1>12. Known(q)'
  <2>1. \A t \in Session : coll[c].cur[t] # w
    BY <1>1, <1>2, <1>3, <1>7 DEF Noted
  <2>2. \A t \in Session : /\ coll[c].cur[t] = 0 /\ row[t].in => play[t] # row[t].watch
                           /\ coll[c].cur[t] # 0 => \A h \in history : h.watch # coll[c].cur[t]
    BY <1>1 DEF Known, Idle
  <2>3. \A t \in Session : coll[c].cur[t] # 0 => \A h \in history' : h.watch # coll[c].cur[t]
    BY <1>4, <1>8, <2>1, <2>2
  <2>4. new \in history'
    BY <1>4
  <2> QED
    BY <1>1, <1>2, <1>6, <1>8, <1>11, <2>2, <2>3, <2>4 DEF Known
<1>13. AloneInv' /\ HandInv'
  BY <1>5, <1>11, <1>12, OneMoves
<1>14. RowInv'
  BY <1>1 DEF OneHand, RowInv
<1> QED
  BY <1>10, <1>13, <1>14 DEF OneHand

LEMMA RemoveKeepsOne ==
    ASSUME TypeOK, StepInv, OneHand, NEW c \in Collector, Remove(c),
           \A d \in Collector \ {c} : Idle(coll[d])
    PROVE  OneHand'
<1>1. /\ Known(coll[c]) /\ coll[c].step = "remove" /\ UNCHANGED <<play, history>>
  BY DEF OneHand, HandInv, Remove, At, provider
<1>2. \A s \in Session : row'[s] = row[s] \/ (~row'[s].in /\ row'[s].life = 0)
  BY RemovedRow
<1>3. PICK k \in Collection : /\ coll' = [coll EXCEPT ![c] = k]
                              /\ k.step \in {"sort", "finish"} /\ k.cur = coll[c].cur
  BY RemovedRow
<1>4. \A t \in Session : /\ coll[c].cur[t] = 0 /\ row[t].in => play[t] # row[t].watch
                         /\ coll[c].cur[t] # 0 => \A h \in history : h.watch # coll[c].cur[t]
  BY <1>1 DEF Known, Idle
<1>5. Known(k)'
  BY <1>1, <1>2, <1>3, <1>4 DEF Known
<1>6. AloneInv' /\ HandInv'
  BY <1>3, <1>5, OneMoves
<1>7. RowInv' /\ HistoryInv'
  BY <1>1, <1>2 DEF OneHand, RowInv, HistoryInv
<1> QED
  BY <1>6, <1>7 DEF OneHand

LEMMA OnceNext ==
    ASSUME TypeOK, StepInv, StepInv', PlayInv, OnceInv, [Next]_vars PROVE OnceInv'
<1>1. ASSUME NEW c \in Collector, Kinds(c), overlapped PROVE overlapped'
  BY <1>1 DEF Kinds, Passes, Picks, Begin, AskProvider, UpsertNext, Record, Remove
<1>2. CASE Still
  BY <1>2, StillKeepsOne DEF OnceInv, Still
<1>3. ASSUME NEW s \in Session, StartPlaying(s) PROVE OnceInv'
  BY <1>3, StartKeepsOne DEF OnceInv, StartPlaying, sessionVars
<1>4. ASSUME NEW c \in Collector, Kinds(c) PROVE OnceInv'
  <2> SUFFICES ASSUME ~overlapped', OneHand PROVE OneHand'
    BY <1>1, <1>4 DEF OnceInv
  <2>1. CASE Begin(c) /\ ~Skipped
    BY <2>1, BeginKeepsOne
  <2>2. CASE ~(Begin(c) /\ ~Skipped)
    <3>1. Busy(c)
      BY <1>4, <2>2 DEF Kinds, Passes, Picks, AskProvider, UpsertNext, Record, Remove, At, Busy, Idle
    <3>2. \A d \in Collector \ {c} : Idle(coll[d])
      BY <3>1 DEF OneHand, AloneInv, Busy
    <3>3. Placed(coll[c])'
      BY DEF StepInv
    <3> QED
      BY <1>4, <2>2, <3>2, <3>3, PassesKeepsOne, AskKeepsOne, UpsertKeepsOne, RecordKeepsOne, RemoveKeepsOne
      DEF Kinds
  <2> QED
    BY <2>1, <2>2
<1> QED
  BY <1>2, <1>3, <1>4, StepKinds

----------------------------------------------------------------------------
(***************************************************************************)
(* The theorems.                                                            *)
(***************************************************************************)
LEMMA InitInv == Init => IInv
<1> SUFFICES ASSUME Init PROVE IInv
  OBVIOUS
<1>1. TypeOK
  BY InitTypes
<1>2. /\ coll = [c \in Collector |-> Resting] /\ enf = NoRun /\ job = NoJob
      /\ row = [s \in Session |-> NoRow] /\ play = [s \in Session |-> 0]
      /\ history = {} /\ lives = 0
  BY DEF Init, SessionsInit
<1>3. LifeInv /\ StepInv
  BY <1>2 DEF LifeInv, StepInv, NoRow, NoRun, Placed, Resting
<1>4. JobInv
  <2>1. \A h \in Hazard : budget[h] \in Nat /\ MaxBudget[h] \in Nat /\ budget[h] <= MaxBudget[h]
    BY <1>1, TypeParts, MonitoringBounds DEF Init, SessionsInit, Budgets, Types, BudgetType
  <2>2. Deaths \in Nat /\ MaxTries \in Nat \ {0}
    BY <2>1, MaxTriesType DEF Deaths, Hazard
  <2>3. job.attempts = 0 /\ coll[Worker].step = "rest"
    BY <1>2, Nothings DEF NoJob, Resting
  <2> HIDE DEF Deaths
  <2> QED
    BY <2>1, <2>2, <2>3 DEF JobInv
<1>5. \A s \in Session, w \in Playback \ {0} : ~Noted(s, w)
  BY <1>2 DEF Noted, NoRow, Resting, Removing
<1>6. PlayInv
  BY <1>5 DEF PlayInv
<1>7. OneHand
  BY <1>2, IdleMoves, IdleKnowsNothing
  DEF OneHand, AloneInv, RowInv, HandInv, HistoryInv, Busy, NoRow
<1> QED
  BY <1>1, <1>3, <1>4, <1>6, <1>7 DEF IInv, OnceInv

LEMMA NextInv == IInv /\ [Next]_vars => IInv'
<1> SUFFICES ASSUME IInv, [Next]_vars PROVE IInv'
  OBVIOUS
<1>1. TypeOK'
  BY TypeNext DEF IInv
<1>2. LifeInv' /\ StepInv' /\ JobInv'
  BY LifeNext, StepNext, JobNext DEF IInv
<1>3. PlayInv'
  BY <1>1, PlayNext DEF IInv
<1>4. OnceInv'
  BY <1>2, OnceNext DEF IInv
<1> QED
  BY <1>1, <1>2, <1>3, <1>4 DEF IInv

LEMMA Invariance == Spec => []IInv
  BY InitInv, NextInv, PTL DEF Spec

\* Every variable has its type; above all, no job makes more attempts than
\* max_attempts and one for each death (media_jobs_worker.py: a recovered job is
\* claimed without a look at its attempts), and every session the enforcer is to
\* kill is one.
THEOREM TypeCorrect == Spec => []TypeOK
  BY Invariance, PTL DEF IInv

\* Unless two collections met, a playback has one line of history, whatever dies
\* between the history and the removal of the live row (collector.py).
THEOREM OneLineOfHistory == Spec => []RecordedOnce
<1>1. IInv => RecordedOnce
  BY DEF IInv, OnceInv, OneHand, HistoryInv, RecordedOnce
<1> QED
  BY <1>1, Invariance, PTL

\* Unless two collections met, a live row goes only after its playback is in the
\* history (collector.py: history first, then DELETE).
THEOREM HistoryFirst == Spec => NothingIsLost
<1> DEFINE Written == \A s \in Session : row[s].in /\ ~row'[s].in =>
             overlapped \/ \E h \in history : h.session = s /\ h.watch = row[s].watch
<1>1. IInv /\ [Next]_vars => [Written]_vars
  <2> SUFFICES ASSUME IInv, [Next]_vars, NEW s \in Session, row[s].in, ~row'[s].in, ~overlapped
               PROVE  \E h \in history : h.session = s /\ h.watch = row[s].watch
    OBVIOUS
  <2>1. TypeOK /\ StepInv /\ OneHand
    BY DEF IInv, OnceInv
  <2>2. ~RowsKept /\ row' # row
    BY DEF RowsKept
  <2>3. PICK c \in Collector : UpsertNext(c) \/ Remove(c)
    BY <2>1, <2>2, StepKinds DEF Still, StartPlaying, sessionVars, Kinds, Passes, Picks, Begin, AskProvider, Record
  <2>4. CASE UpsertNext(c)
    BY <2>1, <2>4, UpsertedRow
  <2>5. CASE Remove(c)
    <3>1. s = coll[c].hand
      BY <2>1, <2>5, RemovedRow
    <3>2. coll[c].step = "remove" /\ Known(coll[c])
      BY <2>1, <2>5 DEF Remove, At, OneHand, HandInv
    <3> QED
      BY <3>1, <3>2 DEF Known
  <2> QED
    BY <2>3, <2>4, <2>5
<1> QED
  BY <1>1, Invariance, PTL DEF Spec, NothingIsLost
====
