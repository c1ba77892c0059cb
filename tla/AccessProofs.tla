---- MODULE AccessProofs ----
(***************************************************************************)
(* Theorems about AccessControl, for every set of libraries, of request     *)
(* threads and of expiry modes, and any number of changes, failures, deaths *)
(* and attempts.                                                            *)
(***************************************************************************)
EXTENDS AccessControl, TLAPS

\* The job has still to read the rows.
Unserved(i) == Exists(i) /\ ~jobs[i].done

\* Somebody is still about to queue a job.  At the INSERT it only counts if no
\* job that is through keeps the new one out.
Owes(a) ==
    \/ ask[a].step \in {"count", "cleanup", "look", "cancel", "clean"}
    \/ /\ ask[a].step = "insert"
       /\ \A i \in DOMAIN jobs : ~(Indexed(i) /\ jobs[i].done /\ jobs[i].key = ask[a].key)

\* ... also when the job in hand is through.
OwesStill(a) ==
    \/ ask[a].step \in {"count", "cleanup", "look", "cancel"}
    \/ ask[a].step \in {"clean", "insert"} /\ ~Queued(run.job) /\ Owes(a)

Explained == Pending \/ \E a \in Actor : Owes(a)

ExplainedBesides ==
    \/ \E i \in DOMAIN jobs : i # run.job /\ Unserved(i)
    \/ \E a \in Actor : OwesStill(a)

\* What the tasks of a Jellyfin server do not do, and what they have in hand.
FlowInv == provider = "jellyfin" =>
    /\ \A i \in DOMAIN jobs : jobs[i].status # "running"
    /\ run.phase # "invite"
    /\ run.batch \subseteq DOMAIN jobs
    /\ run.phase \in {"read", "call", "ok", "failed"} => run.job \in DOMAIN jobs
    /\ ask[Tasks].step # "rest" => run.phase = "asking" /\ ask[Tasks].key.source = "expiry"

\* A difference between the rows and Jellyfin is explained by a job or by
\* somebody who owes one; a difference between the rows and what the job in
\* hand will send, or has sent, by somebody else than this job.
ViewInv == provider = "jellyfin" /\ ~torn =>
    /\ run.phase = "write" => want \subseteq remote \/ Explained
    /\ run.phase # "write" => want = remote \/ Explained
    /\ run.phase \in {"wipe", "write", "ok"} => run.plan = remote
    /\ run.phase \in {"call", "ok"} => want = run.plan \/ ExplainedBesides

IInv == TypeOK /\ FlowInv /\ ViewInv

----------------------------------------------------------------------------
(***************************************************************************)
(* The queue.                                                               *)
(***************************************************************************)
LEMMA JobTypes ==
    /\ \A key \in Key : NewJob(key) \in Job
    /\ \A j \in Job :
         /\ Deleted(j) \in Job /\ Canceled(j) \in Job /\ Recovered(j) \in Job
         /\ Claimed(j) \in Job /\ Requeued(j) \in Job /\ GivenUp(j) \in Job
         /\ [j EXCEPT !.due = TRUE] \in Job
         /\ [j EXCEPT !.lock = "expired"] \in Job
         /\ [j EXCEPT !.done = TRUE] \in Job
<1>1. ASSUME NEW key \in Key PROVE NewJob(key) \in Job
  <2>1. 0 \in 0..MaxAttempts
    BY AttemptsType
  <2>2. (~key.after) \in BOOLEAN
    BY DEF Key
  <2> QED
    BY <2>1, <2>2 DEF NewJob, Job
<1>2. ASSUME NEW j \in Job
      PROVE  /\ Deleted(j) \in Job /\ Canceled(j) \in Job /\ Recovered(j) \in Job
             /\ Claimed(j) \in Job /\ Requeued(j) \in Job /\ GivenUp(j) \in Job
             /\ [j EXCEPT !.due = TRUE] \in Job
             /\ [j EXCEPT !.lock = "expired"] \in Job
             /\ [j EXCEPT !.done = TRUE] \in Job
  <2>1. j.key \in Key
    BY DEF Job
  <2>2. Deleted(j) \in Job
    BY <2>1, <1>1 DEF Deleted, Job
  <2>3. (IF j.tries < MaxAttempts THEN j.tries + 1 ELSE j.tries) \in 0..MaxAttempts
    BY AttemptsType DEF Job
  <2>4. Claimed(j) \in Job
    BY <2>3 DEF Claimed, Job
  <2>5. /\ Canceled(j) \in Job /\ Recovered(j) \in Job /\ Requeued(j) \in Job /\ GivenUp(j) \in Job
    BY DEF Canceled, Recovered, Requeued, GivenUp, Job
  <2>6. /\ [j EXCEPT !.due = TRUE] \in Job
        /\ [j EXCEPT !.lock = "expired"] \in Job
        /\ [j EXCEPT !.done = TRUE] \in Job
    BY DEF Job
  <2> QED
    BY <2>2, <2>4, <2>5, <2>6
<1> QED
  BY <1>1, <1>2

\* An UPDATE keeps the ids.
LEMMA Updated ==
    ASSUME NEW s \in Seq(Job), NEW t \in [DOMAIN s -> Job]
    PROVE  t \in Seq(Job) /\ DOMAIN t = DOMAIN s
  OBVIOUS

\* INSERT: the ids in use keep their rows.
LEMMA Inserted ==
    ASSUME NEW s \in Seq(Job), NEW n \in 0..Len(s), NEW j \in Job,
           NEW t, t = Append(SubSeq(s, 1, n), j)
    PROVE  /\ t \in Seq(Job)
           /\ DOMAIN t = 1..n+1
           /\ t[n+1] = j
           /\ \A i \in 1..n : i \in DOMAIN s /\ t[i] = s[i]
  OBVIOUS

LEMMA InitHolds == Init => IInv
<1> SUFFICES ASSUME Init PROVE IInv
  OBVIOUS
<1>1. Resting \in Ask
  BY DEF Resting, Ask, Step, Key, KeyOf
<1>2. Idle \in Run
  BY DEF Idle, Run, Phase
<1>3. TypeOK
  <2>1. jobs \in Seq(Job)
    BY DEF Init
  <2>2. left \in [{"change", "fault"} -> Nat]
    BY AccessBounds DEF Init
  <2>3. ask \in [Actor -> Ask] /\ run \in Run
    BY <1>1, <1>2 DEF Init
  <2> QED
    BY <2>1, <2>2, <2>3 DEF Init, TypeOK
<1>4. FlowInv
  BY DEF Init, FlowInv, Idle, Actor, Resting
<1>5. ViewInv
  BY DEF Init, ViewInv, Idle
<1> QED
  BY <1>3, <1>4, <1>5 DEF IInv

----------------------------------------------------------------------------
(***************************************************************************)
(* Types.                                                                   *)
(***************************************************************************)
ContextType ==
    /\ provider \in {"plex", "jellyfin"} /\ mode \in Mode
    /\ over \in BOOLEAN /\ late \in BOOLEAN
    /\ status \in {"active", "expired"}
    /\ policy \in BOOLEAN /\ torn \in BOOLEAN

TableType == want \in SUBSET Lib /\ remote \in SUBSET Lib

LEMMA TypeParts ==
    TypeOK <=> /\ ContextType /\ TableType
               /\ jobs \in Seq(Job) /\ ask \in [Actor -> Ask] /\ run \in Run
               /\ left \in [{"change", "fault"} -> Nat]
  BY DEF TypeOK, ContextType, TableType

LEMMA AskTypes ==
    /\ Resting \in Ask /\ [Resting EXCEPT !.step = "lift"] \in Ask
    /\ \A action \in {"grant", "sync", "revoke"},
          source \in {"toggle", "bulk", "force", "expiry", "renewal"},
          lib \in Lib \cup {NoLib} : KeyOf(action, source, lib) \in Key
    /\ Tasks \in Actor /\ \A r \in Thread : r \in Actor
  BY DEF Resting, Ask, Step, Key, KeyOf, Actor

LEMMA RunTypes ==
    ASSUME run \in Run
    PROVE  /\ Idle \in Run
           /\ \A p \in Phase : [run EXCEPT !.phase = p] \in Run /\ [Idle EXCEPT !.phase = p] \in Run
  BY DEF Idle, Run, Phase

LEMMA SpendType ==
    ASSUME left \in [{"change", "fault"} -> Nat], NEW what \in {"change", "fault"}, Spend(what)
    PROVE  left' \in [{"change", "fault"} -> Nat]
  BY DEF Spend

LEMMA UpdateType ==
    ASSUME jobs \in Seq(Job), jobs' \in [DOMAIN jobs -> Job]
    PROVE  jobs' \in Seq(Job) /\ DOMAIN jobs' = DOMAIN jobs
  BY Updated

LEMMA RowTypes == ASSUME jobs \in Seq(Job) PROVE \A i \in DOMAIN jobs : jobs[i] \in Job
  OBVIOUS

LEMMA QueueTypes == ASSUME TypeOK, NEW a \in Actor, QueueJob(a) PROVE TypeOK'
<1> USE TypeParts
<1>1. CASE LookForRunning(a)
  <2>1. PICK after \in BOOLEAN :
          ask' = [ask EXCEPT ![a].step = "cancel", ![a].key.after = after]
    BY <1>1 DEF LookForRunning
  <2>2. [ask[a].key EXCEPT !.after = after] \in Key
    BY DEF Ask, Key
  <2>3. ask'[a] \in Ask
    <3>1. ask[a] \in Ask
      OBVIOUS
    <3>2. ask'[a] = [[ask[a] EXCEPT !.step = "cancel"] EXCEPT !.key = [ask[a].key EXCEPT !.after = after]]
      BY <2>1, <3>1 DEF Ask
    <3> QED
      BY <2>2, <3>1, <3>2 DEF Ask, Step
  <2>4. ask' = [ask EXCEPT ![a] = ask'[a]]
    BY <2>1
  <2>5. ask' \in [Actor -> Ask]
    BY <2>3, <2>4
  <2> QED
    BY <1>1, <2>5 DEF LookForRunning, context, TypeOK
<1>2. CASE CancelQueued(a)
  <2>1. jobs' \in [DOMAIN jobs -> Job]
    BY <1>2, JobTypes, RowTypes DEF CancelQueued, UpdateJobs
  <2>2. jobs' \in Seq(Job)
    BY <2>1, UpdateType
  <2>3. ask' \in [Actor -> Ask]
    BY <1>2 DEF CancelQueued, GoTo, Ask, Step
  <2> QED
    BY <1>2, <2>2, <2>3 DEF CancelQueued, context, TypeOK
<1>3. CASE CleanKey(a)
  <2>1. jobs' \in [DOMAIN jobs -> Job]
    BY <1>3, JobTypes, RowTypes DEF CleanKey, UpdateJobs
  <2>2. jobs' \in Seq(Job)
    BY <2>1, UpdateType
  <2>3. ask' \in [Actor -> Ask]
    BY <1>3 DEF CleanKey, GoTo, Ask, Step
  <2> QED
    BY <1>3, <2>2, <2>3 DEF CleanKey, context, TypeOK
<1>4. CASE InsertJob(a)
  <2>1. jobs' \in Seq(Job)
    <3>1. PICK n \in 0..Len(jobs) :
            jobs' = jobs \/ jobs' = Append(SubSeq(jobs, 1, n), NewJob(ask[a].key))
      BY <1>4 DEF InsertJob
    <3>2. NewJob(ask[a].key) \in Job
      BY JobTypes DEF Ask
    <3> QED
      BY <3>1, <3>2, Inserted
  <2>2. ask' \in [Actor -> Ask]
    BY <1>4, AskTypes DEF InsertJob
  <2>3. run' \in Run
    BY <1>4, RunTypes DEF InsertJob, Phase
  <2> QED
    BY <1>4, <2>1, <2>2, <2>3 DEF InsertJob, context, TypeOK
<1> QED
  BY <1>1, <1>2, <1>3, <1>4 DEF QueueJob

LEMMA RequestTypes ==
    ASSUME TypeOK, NEW r \in Thread, Request(r) \/ Continue(r) PROVE TypeOK'
<1> USE TypeParts, AskTypes
<1>1. ASSUME NEW step \in Step, NEW key \in Key, NEW removed \in BOOLEAN, Asks(r, step, key, removed)
      PROVE  ask' \in [Actor -> Ask]
  BY <1>1 DEF Asks, Ask
<1>2. ASSUME NEW l \in Lib, ToggleLibrary(r, l) PROVE TypeOK'
  <2>1. ask' \in [Actor -> Ask]
    <3>1. (l \in want) \in BOOLEAN
      OBVIOUS
    <3>2. Asks(r, "count", KeyOf("grant", "toggle", l), l \in want)
      BY <1>2 DEF ToggleLibrary
    <3> QED
      BY <3>1, <3>2, <1>1 DEF Step
  <2>2. left' \in [{"change", "fault"} -> Nat]
    BY <1>2, SpendType DEF ToggleLibrary, Ready
  <2>3. want' \in SUBSET Lib
    BY <1>2 DEF ToggleLibrary, TableType
  <2> QED
    BY <1>2, <2>1, <2>2, <2>3 DEF ToggleLibrary, context, TypeOK
<1>3. ASSUME NEW l \in Lib, GrantToActiveUsers(r, l) PROVE TypeOK'
  <2>1. ask' \in [Actor -> Ask]
    BY <1>3, <1>1 DEF GrantToActiveUsers, Step
  <2>2. left' \in [{"change", "fault"} -> Nat]
    BY <1>3, SpendType DEF GrantToActiveUsers, Ready
  <2> QED
    BY <1>3, <2>1, <2>2 DEF GrantToActiveUsers, context, TypeOK
<1>4. ASSUME NEW l \in Lib, RemoveFromUsers(r, l) PROVE TypeOK'
  <2>1. ask' \in [Actor -> Ask]
    BY <1>4, <1>1 DEF RemoveFromUsers, Step
  <2>2. left' \in [{"change", "fault"} -> Nat]
    BY <1>4, SpendType DEF RemoveFromUsers, Ready
  <2> QED
    BY <1>4, <2>1, <2>2 DEF RemoveFromUsers, context, TypeOK
<1>5. CASE ForceResync(r)
  <2>1. ask' \in [Actor -> Ask]
    BY <1>5, <1>1 DEF ForceResync, Step
  <2>2. left' \in [{"change", "fault"} -> Nat]
    BY <1>5, SpendType DEF ForceResync, Ready
  <2> QED
    BY <1>5, <2>1, <2>2 DEF ForceResync, context, TypeOK
<1>6. CASE Renew(r)
  <2>1. ask' \in [Actor -> Ask]
    BY <1>6, <1>1 DEF Renew, Step
  <2>2. left' \in [{"change", "fault"} -> Nat]
    BY <1>6, SpendType DEF Renew, Ready
  <2> QED
    BY <1>6, <2>1, <2>2 DEF Renew, TypeOK
<1>7. CASE CountRemaining(r)
  <2>1. ask[r].key \in Key /\ ask[r].key.source \in {"toggle", "bulk", "force", "expiry", "renewal"}
    BY DEF Ask, Key
  <2>2. ask' \in [Actor -> Ask]
    BY <1>7, <2>1 DEF CountRemaining, Ask, Step
  <2> QED
    BY <1>7, <2>2 DEF CountRemaining, context, TypeOK
<1>8. CASE CleanupPending(r)
  <2>1. jobs' \in [DOMAIN jobs -> Job]
    BY <1>8, JobTypes, RowTypes DEF CleanupPending, UpdateJobs
  <2>2. jobs' \in Seq(Job)
    BY <2>1, UpdateType
  <2>3. ask' \in [Actor -> Ask]
    BY <1>8 DEF CleanupPending, GoTo, Ask, Step
  <2> QED
    BY <1>8, <2>2, <2>3 DEF CleanupPending, context, TypeOK
<1>9. CASE LiftPolicy(r)
  <2>1. ask' \in [Actor -> Ask]
    BY <1>9 DEF LiftPolicy
  <2> QED
    BY <1>9, <2>1 DEF LiftPolicy, TypeOK
<1> QED
  BY <1>2, <1>3, <1>4, <1>5, <1>6, <1>7, <1>8, <1>9 DEF Request, Continue

\* An UPDATE by the task, and what it does to the job it has in hand.
LEMMA RequeueTypes ==
    ASSUME jobs \in Seq(Job), run \in Run, NEW i, Requeue(i)
    PROVE  jobs' \in Seq(Job) /\ run' \in Run
<1> USE RowTypes
<1>1. run' \in Run
  BY RunTypes DEF Requeue, TaskGoes, Phase
<1>2. jobs' = jobs \/ jobs' \in [DOMAIN jobs -> Job]
  BY JobTypes DEF Requeue, UpdateJobs
<1> QED
  BY <1>1, <1>2, UpdateType

LEMMA ClockTypes ==
    ASSUME TypeOK, NEW i \in DOMAIN jobs, RunAfterPasses(i) \/ LockExpires(i) PROVE TypeOK'
<1> USE TypeParts
<1>1. jobs' \in [DOMAIN jobs -> Job]
  BY RowTypes, JobTypes DEF RunAfterPasses, LockExpires, UpdateJobs
<1>2. jobs' \in Seq(Job)
  BY <1>1, UpdateType
<1> QED
  BY <1>2 DEF RunAfterPasses, LockExpires, context, TypeOK

LEMMA FetchTypes ==
    ASSUME TypeOK, FetchPlexJobs \/ FetchJellyfinJobs \/ EndBatch \/ ClaimPlexJob \/ TakeJellyfinJob
    PROVE  TypeOK'
<1> USE TypeParts
<1>1. \A i \in DOMAIN jobs : i \in Nat
  OBVIOUS
<1>2. ASSUME NEW ids \in SUBSET (DOMAIN jobs), Fetch(ids) PROVE run' \in Run
  BY <1>1, <1>2 DEF Fetch, Run, Idle, Phase
<1>3. CASE FetchPlexJobs
  <2>1. run' \in Run
    BY <1>3, <1>2 DEF FetchPlexJobs
  <2>2. jobs' \in [DOMAIN jobs -> Job]
    BY <1>3, RowTypes, JobTypes DEF FetchPlexJobs, UpdateJobs
  <2>3. jobs' \in Seq(Job)
    BY <2>2, UpdateType
  <2> QED
    BY <1>3, <2>1, <2>3 DEF FetchPlexJobs, context, TypeOK
<1>4. CASE FetchJellyfinJobs
  <2>1. run' \in Run
    BY <1>4, <1>2 DEF FetchJellyfinJobs
  <2> QED
    BY <1>4, <2>1 DEF FetchJellyfinJobs, context, TypeOK
<1>5. CASE EndBatch
  BY <1>5, RunTypes DEF EndBatch, context, TypeOK
<1>6. CASE ClaimPlexJob
  <2>1. PICK i \in run.batch :
          /\ run' = [run EXCEPT !.batch = @ \ {i}, !.job = IF Queued(i) THEN i ELSE 0,
                                !.phase = IF Queued(i) THEN "read" ELSE "next"]
          /\ UpdateJobs({k \in {i} : Queued(k)}, Claimed)
    BY <1>6 DEF ClaimPlexJob
  <2>2. i \in Nat
    BY DEF Run
  <2>3. run' \in Run
    BY <2>1, <2>2 DEF Run, Phase
  <2>4. jobs' \in [DOMAIN jobs -> Job]
    BY <2>1, RowTypes, JobTypes DEF UpdateJobs
  <2>5. jobs' \in Seq(Job)
    BY <2>4, UpdateType
  <2> QED
    BY <1>6, <2>3, <2>5 DEF ClaimPlexJob, context, TypeOK
<1>7. CASE TakeJellyfinJob
  <2>1. PICK i \in run.batch : run' = [run EXCEPT !.batch = @ \ {i}, !.job = i, !.phase = "read"]
    BY <1>7 DEF TakeJellyfinJob
  <2>2. run.batch \in SUBSET Nat
    BY DEF Run
  <2>3. run.batch \ {i} \in SUBSET Nat /\ i \in Nat
    BY <2>2
  <2>4. run' \in Run
    BY <2>1, <2>3 DEF Run, Phase
  <2> QED
    BY <1>7, <2>4 DEF TakeJellyfinJob, context, TypeOK
<1> QED
  BY <1>3, <1>4, <1>5, <1>6, <1>7

LEMMA PlanTypes ==
    ASSUME TypeOK, ApplyGrant \/ ApplyRevoke \/ ApplySync \/ DesiredFolders
    PROVE  TypeOK'
<1> USE TypeParts
<1>1. ASSUME NEW libs \in SUBSET Lib, Plan(libs) PROVE TypeOK'
  <2>1. run' \in Run
    BY <1>1 DEF Plan, Run, Phase
  <2> QED
    BY <1>1, <2>1 DEF Plan, context, TypeOK
<1>2. want \in SUBSET Lib
  BY DEF TableType
<1>3. CASE ApplyGrant
  BY <1>1, <1>2, <1>3 DEF ApplyGrant
<1>4. CASE ApplyRevoke
  BY <1>1, <1>4 DEF ApplyRevoke
<1>5. CASE ApplySync
  <2>1. CASE want # {}
    BY <1>1, <1>2, <1>5, <2>1 DEF ApplySync
  <2>2. CASE want = {}
    BY <1>5, <2>2, RunTypes DEF ApplySync, TaskGoes, Phase, context, TypeOK
  <2> QED
    BY <2>1, <2>2
<1>6. CASE DesiredFolders
  BY <1>1, <1>2, <1>6 DEF DesiredFolders
<1> QED
  BY <1>3, <1>4, <1>5, <1>6

LEMMA CallTypes ==
    ASSUME TypeOK, PutShare \/ SetPolicy \/ CallFails \/ InviteIsPending
    PROVE  TypeOK'
<1> USE TypeParts
<1>1. run' \in Run
  BY RunTypes DEF PutShare, SetPolicy, CallFails, InviteIsPending, TaskGoes, Phase
<1>2. run.plan \in SUBSET Lib /\ remote \in SUBSET Lib
  BY DEF Run, TableType
<1>3. left' \in [{"change", "fault"} -> Nat]
  BY SpendType DEF PutShare, SetPolicy, CallFails, InviteIsPending
<1> QED
  BY <1>1, <1>2, <1>3 DEF PutShare, SetPolicy, CallFails, InviteIsPending, context, TypeOK

LEMMA EndTypes ==
    ASSUME TypeOK, PlexSucceeded \/ JellyfinSucceeded \/ DeferForInvite \/ PlexFailed \/ JellyfinFailed
    PROVE  TypeOK'
<1> USE TypeParts
<1>1. CASE PlexSucceeded
  <2>1. jobs' \in [DOMAIN jobs -> Job]
    BY <1>1, RowTypes, JobTypes DEF PlexSucceeded, UpdateJobs
  <2>2. jobs' \in Seq(Job)
    BY <2>1, UpdateType
  <2> QED
    BY <1>1, <2>2, RunTypes DEF PlexSucceeded, TaskGoes, Phase, context, TypeOK
<1>2. CASE JellyfinSucceeded
  <2>1. jobs' \in [DOMAIN jobs -> Job]
    BY <1>2, RowTypes, JobTypes DEF JellyfinSucceeded, UpdateJobs
  <2>2. jobs' \in Seq(Job)
    BY <2>1, UpdateType
  <2> QED
    BY <1>2, <2>2, RunTypes DEF JellyfinSucceeded, TaskGoes, Phase, context, TypeOK
<1>3. CASE DeferForInvite
  BY <1>3, RequeueTypes DEF DeferForInvite, context, TypeOK
<1>4. CASE PlexFailed
  <2>1. CASE jobs[run.job].tries >= MaxAttempts
    <3>1. jobs' \in [DOMAIN jobs -> Job]
      BY <1>4, <2>1, RowTypes, JobTypes DEF PlexFailed, UpdateJobs
    <3>2. jobs' \in Seq(Job)
      BY <3>1, UpdateType
    <3>3. run' \in Run
      BY <1>4, <2>1, RunTypes DEF PlexFailed, TaskGoes, Phase
    <3> QED
      BY <1>4, <3>2, <3>3 DEF PlexFailed, context, TypeOK
  <2>2. CASE ~(jobs[run.job].tries >= MaxAttempts)
    BY <1>4, <2>2, RequeueTypes DEF PlexFailed, context, TypeOK
  <2> QED
    BY <2>1, <2>2
<1>5. CASE JellyfinFailed
  BY <1>5, RunTypes DEF JellyfinFailed, TaskGoes, Phase, context, TypeOK
<1> QED
  BY <1>1, <1>2, <1>3, <1>4, <1>5

LEMMA ExpiryTypes ==
    ASSUME TypeOK, Expire \/ DelayPasses \/ ReadDate \/ WriteStatus \/ Expiry
    PROVE  TypeOK'
<1> USE TypeParts
<1>1. CASE Expire \/ DelayPasses
  BY <1>1, SpendType DEF Expire, DelayPasses, ContextType, TypeOK
<1>2. CASE ReadDate
  <2>1. run' \in Run
    BY <1>2 DEF ReadDate, Idle, Run, Phase, ContextType
  <2> QED
    BY <1>2, <2>1 DEF ReadDate, context, TypeOK
<1>3. CASE WriteStatus
  BY <1>3, RunTypes DEF WriteStatus, ContextType, TypeOK
<1>4. CASE Expiry
  <2>1. run' \in Run
    BY <1>4, RunTypes DEF Expiry, SelectExpired, EraseRows, StartManager, CreatePolicy, DeletePolicy, TaskGoes, Phase
  <2>2. ask' \in [Actor -> Ask]
    <3>1. ASSUME EraseRows PROVE ask' \in [Actor -> Ask]
      <4>1. PICK action \in {"sync", "revoke"} : Asks(Tasks, "look", KeyOf(action, "expiry", NoLib), TRUE)
        BY <3>1 DEF EraseRows
      <4>2. KeyOf(action, "expiry", NoLib) \in Key
        BY AskTypes
      <4> QED
        BY <4>1, <4>2, AskTypes DEF Asks, Ask, Step
    <3> QED
      BY <1>4, <3>1 DEF Expiry, SelectExpired, StartManager, CreatePolicy, DeletePolicy
  <2> QED
    BY <1>4, <2>1, <2>2
    DEF Expiry, SelectExpired, EraseRows, StartManager, CreatePolicy, DeletePolicy, context, TypeOK
<1> QED
  BY <1>1, <1>2, <1>3, <1>4

LEMMA SyncTypes == ASSUME TypeOK, Sync PROVE TypeOK'
<1> USE TypeParts
<1>1. CASE StartPlexSync \/ StartJellyfinSync
  BY <1>1, RunTypes DEF StartPlexSync, StartJellyfinSync, TaskGoes, Phase, context, TypeOK
<1>2. CASE FetchPlexAccess \/ FetchJellyfinAccess
  <2>1. run' \in Run
    BY <1>2 DEF FetchPlexAccess, FetchJellyfinAccess, Run, Phase, TableType
  <2> QED
    BY <1>2, <2>1 DEF FetchPlexAccess, FetchJellyfinAccess, context, TypeOK
<1>3. CASE WipeRows
  BY <1>3, RunTypes DEF WipeRows, TaskGoes, Phase, context, TypeOK
<1>4. CASE WriteRows
  <2>1. run.plan \in SUBSET Lib /\ want \in SUBSET Lib
    BY DEF Run, TableType
  <2> QED
    BY <1>4, <2>1, RunTypes DEF WriteRows, context, TypeOK
<1> QED
  BY <1>1, <1>2, <1>3, <1>4 DEF Sync

LEMMA DeathTypes == ASSUME TypeOK, Death PROVE TypeOK'
<1>1. torn' \in BOOLEAN
  BY DEF Death, TypeOK, MidChange, AtTask
<1>2. ask' \in [Actor -> Ask] /\ run' \in Run /\ left' \in [{"change", "fault"} -> Nat]
  BY TypeParts, AskTypes, RunTypes, SpendType DEF Death
<1> QED
  BY <1>1, <1>2 DEF Death, TypeOK

LEMMA TypeNext == ASSUME TypeOK, [Next]_vars PROVE TypeOK'
<1>1. CASE \E a \in Actor : QueueJob(a)
  BY <1>1, QueueTypes
<1>2. CASE \E r \in Thread : Request(r) \/ Continue(r)
  BY <1>2, RequestTypes
<1>3. CASE \E i \in DOMAIN jobs : RunAfterPasses(i) \/ LockExpires(i)
  BY <1>3, ClockTypes
<1>4. CASE Expire \/ DelayPasses \/ ReadDate \/ WriteStatus \/ Expiry
  BY <1>4, ExpiryTypes
<1>5. CASE Apply \/ CallFails \/ InviteIsPending
  BY <1>5, FetchTypes, PlanTypes, CallTypes, EndTypes DEF Apply
<1>6. CASE Sync
  BY <1>6, SyncTypes
<1>7. CASE Death
  BY <1>7, DeathTypes
<1>8. CASE UNCHANGED vars
  BY <1>8 DEF vars, context, TypeOK
<1> QED
  BY <1>1, <1>2, <1>3, <1>4, <1>5, <1>6, <1>7, <1>8 DEF Next

----------------------------------------------------------------------------
(***************************************************************************)
(* A step of a Jellyfin server is of one of these kinds.                    *)
(***************************************************************************)
\* The jobs are the same, but for their times and locks.
SameJobs ==
    /\ DOMAIN jobs' = DOMAIN jobs
    /\ \A i \in DOMAIN jobs :
         /\ jobs'[i].key = jobs[i].key
         /\ jobs'[i].status = jobs[i].status
         /\ jobs'[i].done = jobs[i].done

\* Whoever is queueing a job is where he was.
SameAsking == \A a \in Actor : ask[a].step \notin {"rest", "lift"} => ask'[a] = ask[a]

SameView == want' = want /\ remote' = remote /\ torn' = torn

\* The task comes to a step without having changed anything.
TaskMoves ==
    \/ run' = run
    \/ /\ run.phase # "write" /\ run'.phase \notin {"ok", "write"}
       /\ run'.phase = "call" => run'.plan = want
       /\ run'.phase = "wipe" => run'.plan = remote

\* Rows, jobs and provider stay as they are, and so does who owes a job.
Quiet == SameView /\ SameJobs /\ SameAsking /\ TaskMoves

\* Somebody is now before the UPDATE that cancels what is queued.
Begins ==
    /\ remote' = remote /\ torn' = torn
    /\ run' = run \/ run'.phase = "asking"
    /\ \E a \in Actor : ask'[a].step \in {"count", "cleanup", "look", "cancel"}

Transfers ==
    /\ want' = want /\ jobs' = jobs /\ ask' = ask /\ torn' = torn
    /\ run.phase = "call" /\ run'.plan = run.plan /\ run'.job = run.job
    /\ \/ remote' = run.plan /\ run'.phase = "ok"
       \/ remote' \in {remote, run.plan} /\ run'.phase = "failed"

Kind ==
    \/ Quiet \/ Begins \/ Transfers
    \/ \E a \in Actor : CancelQueued(a) \/ CleanKey(a) \/ InsertJob(a)
    \/ JellyfinSucceeded \/ WipeRows \/ WriteRows \/ Death

LEMMA QuietJobs ==
    ASSUME TypeOK, NEW i \in DOMAIN jobs, RunAfterPasses(i) \/ LockExpires(i) PROVE Quiet
<1>1. \A k \in DOMAIN jobs : jobs[k] \in Job
  BY RowTypes DEF TypeOK
<1>2. SameJobs
  BY <1>1 DEF SameJobs, RunAfterPasses, LockExpires, UpdateJobs, Job
<1> QED
  BY <1>2 DEF Quiet, SameView, SameAsking, TaskMoves, RunAfterPasses, LockExpires, context

LEMMA Kinds == ASSUME TypeOK, FlowInv, provider = "jellyfin", [Next]_vars PROVE Kind
<1> USE DEF Kind
<1>1. ASSUME NEW a \in Actor, QueueJob(a) PROVE Kind
  <2>1. LookForRunning(a) => Begins
    BY DEF LookForRunning, Begins, TypeOK, context, Ask
  <2> QED
    BY <1>1, <2>1 DEF QueueJob
<1>2. ASSUME NEW r \in Thread, Request(r) \/ Continue(r) PROVE Kind
  <2>1. r \in Actor /\ ask \in [Actor -> Ask]
    BY AskTypes DEF TypeOK
  <2>2. ASSUME NEW l \in Lib, ToggleLibrary(r, l) \/ GrantToActiveUsers(r, l) \/ RemoveFromUsers(r, l)
        PROVE  Begins
    BY <2>1, <2>2 DEF ToggleLibrary, GrantToActiveUsers, RemoveFromUsers, Asks, Begins, context
  <2>3. ForceResync(r) => Begins
    BY <2>1 DEF ForceResync, Asks, Begins, context
  <2>4. Renew(r) => Quiet
    BY <2>1 DEF Renew, Ready, At, Asks, Quiet, SameView, SameJobs, SameAsking, TaskMoves
  <2>5. CountRemaining(r) => Begins
    BY <2>1 DEF CountRemaining, Begins, context, Ask
  <2>6. CleanupPending(r) => Begins
    BY <2>1 DEF CleanupPending, GoTo, Begins, context, Ask
  <2>7. LiftPolicy(r) => Quiet
    BY <2>1 DEF LiftPolicy, At, Quiet, SameView, SameJobs, SameAsking, TaskMoves
  <2> QED
    BY <1>2, <2>2, <2>3, <2>4, <2>5, <2>6, <2>7 DEF Request, Continue
<1>3. CASE \E i \in DOMAIN jobs : RunAfterPasses(i) \/ LockExpires(i)
  BY <1>3, QuietJobs
<1>4. CASE Expire \/ DelayPasses \/ ReadDate \/ WriteStatus \/ SelectExpired \/ StartManager \/ CreatePolicy \/ DeletePolicy
  <2>1. SameView /\ SameJobs /\ SameAsking
    BY <1>4 DEF Expire, DelayPasses, ReadDate, WriteStatus, SelectExpired, StartManager, CreatePolicy, DeletePolicy,
       SameView, SameJobs, SameAsking, context
  <2>2. run \in Run /\ Idle.phase = "idle"
    BY DEF TypeOK, Idle
  <2>3. Expire \/ DelayPasses => TaskMoves
    BY DEF Expire, DelayPasses, TaskMoves
  <2>4. ReadDate => TaskMoves
    BY <2>2 DEF ReadDate, AtTask, TaskMoves, Idle
  <2>5. WriteStatus \/ DeletePolicy => TaskMoves
    BY <2>2 DEF WriteStatus, DeletePolicy, AtTask, TaskMoves
  <2>6. SelectExpired \/ StartManager => TaskMoves
    BY <2>2 DEF SelectExpired, StartManager, TaskGoes, AtTask, TaskMoves, Run
  <2>7. CreatePolicy => TaskMoves
    BY <2>2 DEF CreatePolicy, AtTask, TaskMoves, Idle
  <2> QED
    BY <1>4, <2>1, <2>3, <2>4, <2>5, <2>6, <2>7 DEF Quiet
<1>5. CASE EraseRows
  BY <1>5, AskTypes DEF EraseRows, Asks, TaskGoes, Begins, context, TypeOK, Run
<1>6. CASE FetchJellyfinJobs \/ EndBatch \/ TakeJellyfinJob \/ DesiredFolders \/ JellyfinFailed
           \/ StartJellyfinSync \/ FetchJellyfinAccess
  <2>1. SameView /\ SameJobs /\ SameAsking
    BY <1>6 DEF FetchJellyfinJobs, EndBatch, TakeJellyfinJob, DesiredFolders, Plan, JellyfinFailed,
       StartJellyfinSync, FetchJellyfinAccess, SameView, SameJobs, SameAsking, context
  <2>2. run \in Run /\ Idle.phase = "idle"
    BY DEF TypeOK, Idle
  <2>3. FetchJellyfinJobs \/ EndBatch => TaskMoves
    BY <2>2 DEF FetchJellyfinJobs, Fetch, EndBatch, AtTask, TaskMoves, Idle
  <2>4. TakeJellyfinJob => TaskMoves
    BY <2>2 DEF TakeJellyfinJob, AtTask, TaskMoves, Run
  <2>5. DesiredFolders \/ FetchJellyfinAccess => TaskMoves
    BY <2>2 DEF DesiredFolders, Plan, FetchJellyfinAccess, AtTask, TaskMoves, Run
  <2>6. JellyfinFailed \/ StartJellyfinSync => TaskMoves
    BY <2>2 DEF JellyfinFailed, StartJellyfinSync, TaskGoes, AtTask, TaskMoves, Run
  <2> QED
    BY <1>6, <2>1, <2>3, <2>4, <2>5, <2>6 DEF Quiet
<1>7. CASE SetPolicy \/ CallFails
  BY <1>7 DEF SetPolicy, CallFails, AtTask, TaskGoes, Transfers, context, TypeOK, Run
<1>8. CASE JellyfinSucceeded \/ WipeRows \/ WriteRows \/ Death
  BY <1>8
<1>9. CASE UNCHANGED vars
  BY <1>9 DEF vars, context, Quiet, SameView, SameJobs, SameAsking, TaskMoves
<1>10. /\ ~FetchPlexJobs /\ ~ClaimPlexJob /\ ~ApplyGrant /\ ~ApplyRevoke /\ ~ApplySync
       /\ ~PutShare /\ ~PlexSucceeded /\ ~DeferForInvite /\ ~PlexFailed /\ ~InviteIsPending
       /\ ~StartPlexSync /\ ~FetchPlexAccess
  BY DEF FetchPlexJobs, ClaimPlexJob, ApplyGrant, ApplyRevoke, ApplySync, PlexJobIs, PutShare,
     PlexSucceeded, DeferForInvite, PlexFailed, InviteIsPending, StartPlexSync, FetchPlexAccess, FlowInv, AtTask
<1> QED
  BY <1>1, <1>2, <1>3, <1>4, <1>5, <1>6, <1>7, <1>8, <1>9, <1>10 DEF Next, Apply, Expiry, Sync

LEMMA Lasting == ASSUME [Next]_vars PROVE provider' = provider /\ (torn' \/ ~torn)
<1>1. CASE \E a \in Actor : QueueJob(a)
  BY <1>1 DEF QueueJob, LookForRunning, CancelQueued, CleanKey, InsertJob, context
<1>2. ASSUME NEW r \in Thread, Request(r) \/ Continue(r) PROVE provider' = provider /\ torn' = torn
  <2>1. CASE Renew(r) \/ LiftPolicy(r)
    BY <2>1 DEF Renew, LiftPolicy
  <2>2. CASE ~(Renew(r) \/ LiftPolicy(r))
    BY <1>2, <2>2 DEF Request, Continue, ToggleLibrary, GrantToActiveUsers, RemoveFromUsers, ForceResync,
       CountRemaining, CleanupPending, context
  <2> QED
    BY <2>1, <2>2
<1>3. CASE \E i \in DOMAIN jobs : RunAfterPasses(i) \/ LockExpires(i)
  BY <1>3 DEF RunAfterPasses, LockExpires, context
<1>4. CASE Expire \/ DelayPasses \/ WriteStatus \/ SelectExpired \/ CreatePolicy \/ DeletePolicy
  BY <1>4 DEF Expire, DelayPasses, WriteStatus, SelectExpired, CreatePolicy, DeletePolicy
<1>5. CASE ReadDate \/ EraseRows \/ StartManager
  <2>1. context' = context
    BY <1>5 DEF ReadDate, EraseRows, StartManager
  <2> QED
    BY <2>1 DEF context
<1>6. CASE Apply \/ CallFails \/ InviteIsPending
  <2>1. context' = context
    BY <1>6 DEF Apply, FetchPlexJobs, FetchJellyfinJobs, EndBatch, ClaimPlexJob, TakeJellyfinJob, ApplyGrant,
       ApplyRevoke, ApplySync, DesiredFolders, Plan, PutShare, SetPolicy, PlexSucceeded, JellyfinSucceeded,
       DeferForInvite, PlexFailed, JellyfinFailed, CallFails, InviteIsPending
  <2> QED
    BY <2>1 DEF context
<1>7. CASE Sync
  BY <1>7 DEF Sync, StartPlexSync, StartJellyfinSync, FetchPlexAccess, FetchJellyfinAccess, WipeRows, WriteRows, context
<1>8. CASE Death
  BY <1>8 DEF Death
<1>9. CASE UNCHANGED vars
  BY <1>9 DEF vars, context
<1> QED
  BY <1>1, <1>2, <1>3, <1>4, <1>5, <1>6, <1>7, <1>8, <1>9 DEF Next, Expiry

\* The ids the task knows survive an INSERT.
LEMMA KnownIds ==
    ASSUME TypeOK, NEW a \in Actor, InsertJob(a)
    PROVE  \/ jobs' = jobs
           \/ \E n \in 0..Len(jobs) :
                /\ jobs' \in Seq(Job) /\ DOMAIN jobs' = 1..n+1
                /\ jobs'[n+1] = NewJob(ask[a].key)
                /\ \A i \in 1..n : i \in DOMAIN jobs /\ jobs'[i] = jobs[i]
                /\ \A i \in DOMAIN jobs : Exists(i) \/ i = run.job \/ i \in run.batch => i \in 1..n
<1>1. CASE jobs' = jobs
  BY <1>1
<1>2. CASE jobs' # jobs
  <2>1. PICK n \in 0..Len(jobs) : LastInUse(n) /\ jobs' = Append(SubSeq(jobs, 1, n), NewJob(ask[a].key))
    BY <1>2 DEF InsertJob
  <2>2. jobs \in Seq(Job) /\ NewJob(ask[a].key) \in Job
    BY JobTypes DEF TypeOK, Ask
  <2>3. /\ jobs' \in Seq(Job) /\ DOMAIN jobs' = 1..n+1
        /\ jobs'[n+1] = NewJob(ask[a].key)
        /\ \A i \in 1..n : i \in DOMAIN jobs /\ jobs'[i] = jobs[i]
    BY <2>1, <2>2, Inserted
  <2>4. ASSUME NEW i \in DOMAIN jobs, Exists(i) \/ i = run.job \/ i \in run.batch PROVE i \in 1..n
    BY <2>1, <2>2, <2>4 DEF LastInUse, InUse
  <2> QED
    BY <2>3, <2>4
<1> QED
  BY <1>1, <1>2

LEMMA NewOrKnown ==
    ASSUME TypeOK, NEW a \in Actor, InsertJob(a), NEW i \in DOMAIN jobs'
    PROVE  jobs'[i] = NewJob(ask[a].key) \/ (i \in DOMAIN jobs /\ jobs'[i] = jobs[i])
<1>1. CASE jobs' = jobs
  BY <1>1
<1>2. CASE jobs' # jobs
  <2>1. PICK n \in 0..Len(jobs) :
          /\ DOMAIN jobs' = 1..n+1
          /\ jobs'[n+1] = NewJob(ask[a].key)
          /\ \A k \in 1..n : k \in DOMAIN jobs /\ jobs'[k] = jobs[k]
    BY <1>2, KnownIds
  <2>2. Len(jobs) \in Nat
    BY DEF TypeOK
  <2> QED
    BY <2>1, <2>2
<1> QED
  BY <1>1, <1>2

LEMMA StillThere ==
    ASSUME TypeOK, NEW a \in Actor, InsertJob(a), NEW i \in DOMAIN jobs,
           Exists(i) \/ i = run.job \/ i \in run.batch
    PROVE  i \in DOMAIN jobs' /\ jobs'[i] = jobs[i]
<1>1. CASE jobs' = jobs
  BY <1>1
<1>2. CASE jobs' # jobs
  <2>1. PICK n \in 0..Len(jobs) :
          /\ DOMAIN jobs' = 1..n+1
          /\ \A k \in 1..n : k \in DOMAIN jobs /\ jobs'[k] = jobs[k]
          /\ i \in 1..n
    BY <1>2, KnownIds
  <2>2. Len(jobs) \in Nat
    BY DEF TypeOK
  <2> QED
    BY <2>1, <2>2
<1> QED
  BY <1>1, <1>2

LEMMA FlowQueue ==
    ASSUME TypeOK, FlowInv, provider = "jellyfin", NEW a \in Actor, QueueJob(a), provider' = provider
    PROVE  FlowInv'
<1> USE DEF FlowInv
<1>1. ask \in [Actor -> Ask] /\ Tasks \in Actor /\ run \in Run
  BY AskTypes DEF TypeOK
<1>2. CASE LookForRunning(a)
  <2>1. ask'[Tasks].key.source = ask[Tasks].key.source /\ (ask[Tasks].step = "rest" => ask'[Tasks].step = "rest")
    BY <1>1, <1>2 DEF LookForRunning, At, Ask, Key
  <2> QED
    BY <1>2, <2>1 DEF LookForRunning
<1>3. CASE CancelQueued(a) \/ CleanKey(a)
  <2>1. ask'[Tasks].key = ask[Tasks].key /\ (ask[Tasks].step = "rest" => ask'[Tasks].step = "rest")
    BY <1>1, <1>3 DEF CancelQueued, CleanKey, GoTo, At, Ask
  <2>2. DOMAIN jobs' = DOMAIN jobs
    BY <1>3 DEF CancelQueued, CleanKey, UpdateJobs
  <2>3. \A i \in DOMAIN jobs : jobs[i] \in Job
    BY RowTypes DEF TypeOK
  <2>4. \A i \in DOMAIN jobs : jobs'[i].status # "running"
    <3>1. \A j \in Job : Canceled(j).status = "canceled" /\ Deleted(j).status = "deleted"
      BY DEF Canceled, Deleted, NewJob, Job
    <3> QED
      BY <1>3, <2>3, <3>1 DEF CancelQueued, CleanKey, UpdateJobs
  <2> QED
    BY <1>3, <2>1, <2>2, <2>4 DEF CancelQueued, CleanKey
<1>4. CASE InsertJob(a)
  <2>1. CASE a = Tasks
    <3>1. ask'[Tasks].step = "rest"
      BY <1>1, <1>4, <2>1 DEF InsertJob, At, Resting
    <3>2. run'.batch = {} /\ run'.phase \in {"idle", "lift"}
      BY <1>4, <2>1 DEF InsertJob, Idle
    <3>3. \A i \in DOMAIN jobs' : jobs'[i].status # "running"
      BY <1>4, NewOrKnown DEF NewJob
    <3> QED
      BY <3>1, <3>2, <3>3
  <2>2. CASE a # Tasks
    <3>1. run' = run /\ ask'[Tasks] = ask[Tasks]
      BY <1>1, <1>4, <2>2 DEF InsertJob
    <3>2. \A i \in DOMAIN jobs' : jobs'[i].status # "running"
      BY <1>4, NewOrKnown DEF NewJob
    <3>3. \A i \in DOMAIN jobs : i = run.job \/ i \in run.batch => i \in DOMAIN jobs'
      BY <1>4, StillThere
    <3> QED
      BY <3>1, <3>2, <3>3
  <2> QED
    BY <2>1, <2>2
<1> QED
  BY <1>2, <1>3, <1>4 DEF QueueJob

LEMMA FlowNext == ASSUME TypeOK, FlowInv, [Next]_vars PROVE FlowInv'
<1> SUFFICES ASSUME provider = "jellyfin", provider' = provider PROVE FlowInv'
  BY Lasting DEF FlowInv
<1> USE DEF FlowInv
<1>1. ask \in [Actor -> Ask] /\ Tasks \in Actor /\ run \in Run
  BY AskTypes DEF TypeOK
<1>2. \A i \in DOMAIN jobs : jobs[i] \in Job
  BY RowTypes DEF TypeOK
<1>3. CASE \E a \in Actor : QueueJob(a)
  BY <1>3, FlowQueue
<1>4. ASSUME NEW r \in Thread, Request(r) \/ Continue(r) PROVE FlowInv'
  <2>1. ask'[Tasks] = ask[Tasks] /\ run' = run
    BY <1>1, <1>4, TasksIsNoRequest
    DEF Request, ToggleLibrary, GrantToActiveUsers, RemoveFromUsers, ForceResync, Renew, Asks,
        Continue, CountRemaining, CleanupPending, LiftPolicy, GoTo
  <2>2. jobs' = jobs \/ CleanupPending(r)
    BY <1>4 DEF Request, ToggleLibrary, GrantToActiveUsers, RemoveFromUsers, ForceResync, Renew,
       Continue, CountRemaining, LiftPolicy
  <2>3. DOMAIN jobs' = DOMAIN jobs /\ \A i \in DOMAIN jobs : jobs'[i].status # "running"
    BY <1>2, <2>2 DEF CleanupPending, UpdateJobs, Canceled, Job
  <2> QED
    BY <2>1, <2>3
<1>5. ASSUME NEW i \in DOMAIN jobs, RunAfterPasses(i) \/ LockExpires(i) PROVE FlowInv'
  BY <1>5, QuietJobs DEF Quiet, SameJobs, RunAfterPasses, LockExpires
<1>6. CASE JellyfinSucceeded
  <2>1. DOMAIN jobs' = DOMAIN jobs /\ \A i \in DOMAIN jobs : jobs'[i].status # "running"
    BY <1>2, <1>6 DEF JellyfinSucceeded, UpdateJobs, Job
  <2> QED
    BY <1>1, <1>6, <2>1 DEF JellyfinSucceeded, AtTask, TaskGoes, Run
<1>7. CASE EraseRows
  BY <1>1, <1>7 DEF EraseRows, AtTask, TaskGoes, Asks, KeyOf, Run
<1>8. CASE Death
  BY <1>8, <1>1 DEF Death, Idle, Resting
<1>9. ASSUME jobs' = jobs, ask' = ask, ask[Tasks].step = "rest" \/ run' = run,
             run'.phase \notin {"read", "call", "ok", "failed", "invite"} \/ run'.job \in DOMAIN jobs,
             run'.batch \subseteq DOMAIN jobs, run'.phase # "invite"
      PROVE  FlowInv'
  BY <1>9
<1> USE <1>9
<1>10. CASE Expire \/ DelayPasses \/ UNCHANGED vars
  BY <1>10 DEF Expire, DelayPasses, vars
<1>11. Idle.batch = {} /\ Idle.phase = "idle"
  BY DEF Idle
<1>12. CASE WriteStatus \/ DeletePolicy \/ EndBatch \/ WriteRows
  BY <1>12, <1>11 DEF WriteStatus, DeletePolicy, EndBatch, WriteRows, AtTask
<1>13. CASE ReadDate \/ CreatePolicy
  BY <1>13 DEF ReadDate, CreatePolicy, AtTask, Idle
<1>14. CASE SelectExpired \/ StartManager \/ JellyfinFailed \/ StartJellyfinSync \/ WipeRows
  BY <1>1, <1>14 DEF SelectExpired, StartManager, JellyfinFailed, StartJellyfinSync, WipeRows, AtTask, TaskGoes, Run
<1>15. CASE FetchJellyfinJobs
  BY <1>15 DEF FetchJellyfinJobs, Fetch, AtTask, Idle
<1>16. CASE TakeJellyfinJob
  BY <1>1, <1>16 DEF TakeJellyfinJob, AtTask, Run
<1>17. CASE DesiredFolders \/ FetchJellyfinAccess
  BY <1>1, <1>17 DEF DesiredFolders, Plan, FetchJellyfinAccess, AtTask, Run
<1>18. CASE SetPolicy \/ CallFails
  BY <1>1, <1>18 DEF SetPolicy, CallFails, AtTask, TaskGoes, Run
<1>19. /\ ~FetchPlexJobs /\ ~ClaimPlexJob /\ ~ApplyGrant /\ ~ApplyRevoke /\ ~ApplySync
       /\ ~PutShare /\ ~PlexSucceeded /\ ~DeferForInvite /\ ~PlexFailed /\ ~InviteIsPending
       /\ ~StartPlexSync /\ ~FetchPlexAccess
  BY DEF FetchPlexJobs, ClaimPlexJob, ApplyGrant, ApplyRevoke, ApplySync, PlexJobIs, PutShare,
     PlexSucceeded, DeferForInvite, PlexFailed, InviteIsPending, StartPlexSync, FetchPlexAccess, AtTask
<1> QED
  BY <1>3, <1>4, <1>5, <1>6, <1>7, <1>8, <1>10, <1>12, <1>13, <1>14, <1>15, <1>16, <1>17, <1>18, <1>19
  DEF Next, Apply, Expiry, Sync

----------------------------------------------------------------------------
(***************************************************************************)
(* Who explains a difference.                                               *)
(***************************************************************************)
LEMMA BesidesIsMore == ExplainedBesides => Explained
  BY DEF ExplainedBesides, Explained, OwesStill, Owes, Pending, Unserved

LEMMA SameJobsSame ==
    ASSUME SameJobs, NEW i \in DOMAIN jobs
    PROVE  /\ i \in DOMAIN jobs'
           /\ Unserved(i)' <=> Unserved(i)
           /\ Queued(i)' <=> Queued(i)
           /\ Indexed(i)' <=> Indexed(i)
  BY DEF SameJobs, Unserved, Exists, Queued, Indexed

LEMMA SameOwes ==
    ASSUME SameJobs, SameAsking, NEW a \in Actor
    PROVE  /\ Owes(a) => Owes(a)'
           /\ run'.job = run.job /\ run.job \in DOMAIN jobs /\ OwesStill(a) => OwesStill(a)'
<1>1. Owes(a) => Owes(a)'
  BY SameJobsSame DEF SameJobs, SameAsking, Owes
<1>2. run'.job = run.job /\ run.job \in DOMAIN jobs => (Queued(run.job)' <=> Queued(run.job))
  BY DEF SameJobs, Queued
<1> QED
  BY <1>1, <1>2 DEF SameAsking, OwesStill

LEMMA SameExplained ==
    ASSUME SameJobs, SameAsking
    PROVE  /\ Explained => Explained'
           /\ run'.job = run.job /\ run.job \in DOMAIN jobs /\ ExplainedBesides => ExplainedBesides'
<1>1. Explained => Explained'
  BY SameJobsSame, SameOwes DEF Explained, Pending, Unserved
<1>2. ASSUME run'.job = run.job, run.job \in DOMAIN jobs, ExplainedBesides PROVE ExplainedBesides'
  <2>1. CASE \E i \in DOMAIN jobs : i # run.job /\ Unserved(i)
    BY <1>2, <2>1, SameJobsSame DEF ExplainedBesides
  <2>2. CASE \E a \in Actor : OwesStill(a)
    BY <1>2, <2>2, SameOwes DEF ExplainedBesides
  <2> QED
    BY <1>2, <2>1, <2>2 DEF ExplainedBesides
<1> QED
  BY <1>1, <1>2

\* What is to be shown of each kind of step.
Before ==
    /\ TypeOK /\ FlowInv /\ ViewInv
    /\ provider = "jellyfin" /\ provider' = provider /\ ~torn /\ ~torn'

LEMMA QuietView == ASSUME Before, Quiet PROVE ViewInv'
<1> USE DEF Before
<1>1. SameView /\ (Explained => Explained')
  BY SameExplained DEF Quiet
<1>2. CASE run' = run
  <2>1. run.phase \in {"call", "ok"} => (ExplainedBesides => ExplainedBesides')
    BY <1>2, SameExplained DEF Quiet, FlowInv
  <2> QED
    BY <1>1, <1>2, <2>1 DEF ViewInv, SameView
<1>3. CASE run' # run
  BY <1>1, <1>3 DEF Quiet, TaskMoves, ViewInv, SameView
<1> QED
  BY <1>2, <1>3

LEMMA BeginsView == ASSUME Before, Begins PROVE ViewInv'
<1>1. Explained' /\ ExplainedBesides'
  BY DEF Begins, Explained, ExplainedBesides, Owes, OwesStill
<1> QED
  BY <1>1 DEF Before, Begins, ViewInv

LEMMA TransfersView == ASSUME Before, Transfers PROVE ViewInv'
<1>1. Explained' <=> Explained
  BY DEF Transfers, Explained, Pending, Exists, Owes, Indexed
<1>2. ExplainedBesides' <=> ExplainedBesides
  <2>1. \A a \in Actor : OwesStill(a)' <=> OwesStill(a)
    BY DEF Transfers, OwesStill, Owes, Indexed, Queued
  <2> QED
    BY <2>1 DEF Transfers, ExplainedBesides, Unserved, Exists
<1> QED
  BY <1>1, <1>2, BesidesIsMore DEF Before, Transfers, ViewInv

LEMMA CancelView == ASSUME Before, NEW a \in Actor, CancelQueued(a) PROVE ViewInv'
<1> USE DEF Before
<1>1. ask'[a].step = "clean"
  BY DEF CancelQueued, GoTo, TypeOK, Ask
<1>2. Explained'
  BY <1>1 DEF Explained, Owes
<1>3. ASSUME run.phase \in {"call", "ok"} PROVE ExplainedBesides'
  <2>1. run.job \in DOMAIN jobs /\ jobs[run.job] \in Job
    BY <1>3, RowTypes DEF FlowInv, TypeOK
  <2>2. Canceled(jobs[run.job]).status = "canceled"
    BY <2>1 DEF Canceled, Job
  <2>3. run' = run /\ (jobs'[run.job].status = "canceled" \/ (jobs'[run.job] = jobs[run.job] /\ ~Queued(run.job)))
    BY <2>1, <2>2 DEF CancelQueued, UpdateJobs
  <2>4. ~Queued(run.job)'
    BY <2>3 DEF Queued
  <2> QED
    BY <1>1, <2>4 DEF ExplainedBesides, OwesStill, Owes
<1> QED
  BY <1>2, <1>3 DEF CancelQueued, context, ViewInv

LEMMA CleanView == ASSUME Before, NEW a \in Actor, CleanKey(a) PROVE ViewInv'
<1> USE DEF Before
<1>1. /\ ask \in [Actor -> Ask] /\ ask[a].step = "clean"
      /\ ask' = [ask EXCEPT ![a].step = "insert"]
      /\ DOMAIN jobs' = DOMAIN jobs
      /\ run' = run
  BY DEF CleanKey, At, GoTo, UpdateJobs, TypeOK
<1>2. ask'[a].step = "insert" /\ ask'[a].key = ask[a].key
  BY <1>1 DEF Ask
<1>3. ASSUME NEW i \in DOMAIN jobs
      PROVE  \/ jobs'[i].status = "deleted" /\ jobs[i].done
             \/ jobs'[i] = jobs[i] /\ ~(jobs[i].done /\ jobs[i].key = ask[a].key)
  <2>1. Deleted(jobs[i]).status = "deleted"
    BY DEF Deleted, NewJob
  <2> QED
    BY <2>1 DEF CleanKey, UpdateJobs
<1>4. \A i \in DOMAIN jobs : Indexed(i)' /\ jobs'[i].done => Indexed(i) /\ jobs[i].done /\ jobs'[i].key = jobs[i].key
  BY <1>3 DEF Indexed
<1>5. Owes(a)'
  BY <1>1, <1>2, <1>3 DEF Owes, Indexed
<1>6. Explained'
  BY <1>5 DEF Explained
<1>7. ASSUME run.phase \in {"call", "ok"}, ExplainedBesides PROVE ExplainedBesides'
  <2>1. run.job \in DOMAIN jobs
    BY <1>7 DEF FlowInv
  <2>2. Queued(run.job)' => Queued(run.job)
    BY <1>1, <1>3, <2>1 DEF Queued
  <2>3. CASE \E i \in DOMAIN jobs : i # run.job /\ Unserved(i)
    BY <1>1, <1>3, <2>3 DEF ExplainedBesides, Unserved, Exists
  <2>4. ASSUME NEW b \in Actor, OwesStill(b) PROVE OwesStill(b)'
    <3>1. CASE b = a
      BY <1>1, <1>2, <1>5, <2>2, <2>4, <3>1 DEF OwesStill
    <3>2. CASE b # a
      <4>1. ask'[b] = ask[b]
        BY <1>1, <3>2
      <4>2. Owes(b) => Owes(b)'
        BY <1>1, <1>4, <4>1 DEF Owes
      <4> QED
        BY <2>2, <2>4, <4>1, <4>2 DEF OwesStill
    <3> QED
      BY <3>1, <3>2
  <2> QED
    BY <1>7, <2>3, <2>4 DEF ExplainedBesides
<1> QED
  BY <1>1, <1>6, <1>7 DEF CleanKey, context, ViewInv

\* The INSERT is ignored: the job that keeps it out has still to read the rows,
\* or nobody relied on it.
LEMMA IgnoredView ==
    ASSUME Before, NEW a \in Actor, InsertJob(a), jobs' = jobs,
           NEW k \in DOMAIN jobs, Indexed(k), jobs[k].key = ask[a].key
    PROVE  ViewInv'
<1> USE DEF Before
<1>1. ask[a].step = "insert" /\ \A b \in Actor : b # a => ask'[b] = ask[b]
  BY DEF InsertJob, At, TypeOK
<1>2. Owes(a) => Unserved(k) /\ Queued(k)
  BY <1>1 DEF Owes, Unserved, Exists, Indexed, Queued, FlowInv
<1>3. \A i \in DOMAIN jobs : Unserved(i)' <=> Unserved(i)
  BY DEF Unserved, Exists
<1>4. \A b \in Actor : b # a => (Owes(b)' <=> Owes(b))
  BY <1>1 DEF Owes, Indexed
<1>5. Explained => Explained'
  <2>1. CASE Pending
    BY <2>1 DEF Explained, Pending, Exists
  <2>2. ASSUME NEW b \in Actor, Owes(b) PROVE Explained'
    <3>1. CASE b = a
      BY <1>2, <1>3, <2>2, <3>1 DEF Explained, Pending, Unserved
    <3>2. CASE b # a
      BY <1>4, <2>2, <3>2 DEF Explained
    <3> QED
      BY <3>1, <3>2
  <2> QED
    BY <2>1, <2>2 DEF Explained
<1>6. ASSUME run' = run, ExplainedBesides PROVE ExplainedBesides'
  <2>1. CASE \E i \in DOMAIN jobs : i # run.job /\ Unserved(i)
    BY <1>3, <1>6, <2>1 DEF ExplainedBesides
  <2>2. ASSUME NEW b \in Actor, OwesStill(b) PROVE ExplainedBesides'
    <3>1. CASE b = a
      <4>1. Owes(a) /\ ~Queued(run.job)
        BY <1>1, <2>2, <3>1 DEF OwesStill
      <4>2. k # run.job /\ Unserved(k)
        BY <1>2, <4>1
      <4> QED
        BY <1>3, <1>6, <4>2 DEF ExplainedBesides
    <3>2. CASE b # a
      <4>1. OwesStill(b)'
        BY <1>1, <1>4, <1>6, <2>2, <3>2 DEF OwesStill, Queued
      <4> QED
        BY <4>1 DEF ExplainedBesides
    <3> QED
      BY <3>1, <3>2
  <2> QED
    BY <1>6, <2>1, <2>2 DEF ExplainedBesides
<1>7. run' = run \/ run'.phase \in {"idle", "lift"}
  BY DEF InsertJob, Idle
<1>8. run.phase # "write" \/ run' = run
  BY <1>1 DEF InsertJob, FlowInv
<1> QED
  BY <1>5, <1>6, <1>7, <1>8 DEF InsertJob, context, ViewInv

LEMMA InsertView == ASSUME Before, NEW a \in Actor, InsertJob(a) PROVE ViewInv'
<1> USE DEF Before
<1>1. CASE \E k \in DOMAIN jobs : Indexed(k) /\ jobs[k].key = ask[a].key
  BY <1>1, IgnoredView DEF InsertJob
<1>2. CASE ~ \E k \in DOMAIN jobs : Indexed(k) /\ jobs[k].key = ask[a].key
  <2>1. PICK n \in 0..Len(jobs) :
          LastInUse(n) /\ jobs' = Append(SubSeq(jobs, 1, n), NewJob(ask[a].key))
    BY <1>2 DEF InsertJob
  <2>2. jobs \in Seq(Job) /\ NewJob(ask[a].key) \in Job
    BY JobTypes DEF TypeOK, Ask, InsertJob
  <2>3. DOMAIN jobs' = 1..n+1 /\ jobs'[n+1] = NewJob(ask[a].key)
    BY <2>1, <2>2, Inserted
  <2>4. n+1 \in DOMAIN jobs' /\ Unserved(n+1)'
    BY <2>2, <2>3 DEF Unserved, Exists, NewJob
  <2>5. Explained'
    BY <2>4 DEF Explained, Pending, Unserved
  <2>6. ASSUME run' = run, run.phase \in {"call", "ok"} PROVE ExplainedBesides'
    <3>1. run.job \in InUse
      BY <2>6 DEF FlowInv, InUse
    <3>2. run.job <= n /\ run.job \in Nat
      BY <2>1, <3>1 DEF LastInUse, TypeOK, Run
    <3> QED
      BY <2>4, <2>6, <3>2 DEF ExplainedBesides
  <2>7. run' = run \/ run'.phase \in {"idle", "lift"}
    BY DEF InsertJob, Idle
  <2> QED
    BY <2>5, <2>6, <2>7 DEF InsertJob, context, ViewInv
<1> QED
  BY <1>1, <1>2

LEMMA SucceededView == ASSUME Before, JellyfinSucceeded PROVE ViewInv'
<1> USE DEF Before
<1>1. /\ run.phase = "ok" /\ run' = [run EXCEPT !.phase = "next"] /\ run.job \in DOMAIN jobs
      /\ DOMAIN jobs' = DOMAIN jobs
      /\ want' = want /\ remote' = remote /\ ask' = ask
  BY DEF JellyfinSucceeded, AtTask, TaskGoes, UpdateJobs, FlowInv
<1>2. \A i \in DOMAIN jobs : i # run.job => jobs'[i] = jobs[i]
  BY DEF JellyfinSucceeded, UpdateJobs
<1>3. jobs'[run.job].status = jobs[run.job].status /\ jobs'[run.job].key = jobs[run.job].key
  <2>1. jobs[run.job] \in Job
    BY <1>1, RowTypes DEF TypeOK
  <2> QED
    BY <1>1, <2>1 DEF JellyfinSucceeded, UpdateJobs, Job
<1>4. ASSUME NEW a \in Actor, OwesStill(a) PROVE Owes(a)'
  <2>1. CASE ask[a].step # "insert"
    BY <1>1, <1>4, <2>1 DEF OwesStill, Owes
  <2>2. CASE ask[a].step = "insert"
    <3>1. ~Queued(run.job) /\ Owes(a)
      BY <1>4, <2>2 DEF OwesStill
    <3>2. ASSUME NEW i \in DOMAIN jobs, Indexed(i)', jobs'[i].done
          PROVE  Indexed(i) /\ jobs[i].done /\ jobs'[i].key = jobs[i].key
      <4>1. CASE i = run.job
        BY <1>3, <3>1, <3>2, <4>1 DEF Indexed, Queued, FlowInv
      <4>2. CASE i # run.job
        BY <1>2, <3>2, <4>2 DEF Indexed
      <4> QED
        BY <4>1, <4>2
    <3> QED
      BY <1>1, <2>2, <3>1, <3>2 DEF Owes
  <2> QED
    BY <2>1, <2>2
<1>5. ASSUME NEW i \in DOMAIN jobs, i # run.job, Unserved(i) PROVE Unserved(i)'
  BY <1>2, <1>5 DEF Unserved, Exists
<1>6. ExplainedBesides => Explained'
  BY <1>1, <1>4, <1>5 DEF ExplainedBesides, Explained, Pending, Unserved
<1>7. want = remote \/ ExplainedBesides
  BY <1>1 DEF ViewInv
<1>8. run'.phase = "next"
  BY <1>1 DEF TypeOK, Run
<1> QED
  BY <1>1, <1>6, <1>7, <1>8 DEF ViewInv

LEMMA WipeView == ASSUME Before, WipeRows PROVE ViewInv'
<1>1. run'.phase = "write" /\ run'.plan = run.plan
  BY DEF Before, WipeRows, TaskGoes, TypeOK, Run
<1> QED
  BY <1>1 DEF Before, WipeRows, AtTask, ViewInv

LEMMA WriteView == ASSUME Before, WriteRows PROVE ViewInv'
<1> USE DEF Before
<1>1. run.phase = "write" /\ run'.phase = "idle" /\ remote' = remote /\ want' = want \cup run.plan
  BY DEF WriteRows, AtTask, Idle
<1>2. Explained' <=> Explained
  BY DEF WriteRows, Explained, Pending, Exists, Owes, Indexed
<1>3. want' = remote \/ Explained
  BY <1>1 DEF ViewInv
<1> QED
  BY <1>1, <1>2, <1>3 DEF ViewInv

LEMMA DeathView == ASSUME Before, Death PROVE ViewInv'
<1> USE DEF Before
<1>1. ~MidChange
  BY DEF Death
<1>2. run.phase # "write" /\ \A a \in Actor : ~Owes(a)
  BY <1>1 DEF MidChange, AtTask, Owes
<1>3. want = remote \/ Pending
  BY <1>2 DEF ViewInv, Explained
<1>4. want' = want /\ remote' = remote /\ jobs' = jobs /\ run'.phase = "idle"
  BY DEF Death, Idle
<1>5. Pending' <=> Pending
  BY <1>4 DEF Pending, Exists
<1> QED
  BY <1>3, <1>4, <1>5 DEF ViewInv, Explained

LEMMA ViewNext == ASSUME TypeOK, FlowInv, ViewInv, [Next]_vars PROVE ViewInv'
<1> SUFFICES ASSUME Before PROVE ViewInv'
  BY Lasting DEF Before, ViewInv
<1>1. Kind
  BY Kinds DEF Before
<1> QED
  BY <1>1, QuietView, BeginsView, TransfersView, CancelView, CleanView, InsertView,
     SucceededView, WipeView, WriteView, DeathView DEF Kind

LEMMA Inductive == Spec => []IInv
<1>1. IInv /\ [Next]_vars => IInv'
  BY TypeNext, FlowNext, ViewNext DEF IInv
<1> QED
  BY InitHolds, <1>1, PTL DEF Spec

----------------------------------------------------------------------------
(***************************************************************************)
(* Theorems.                                                                *)
(***************************************************************************)
\* Rows, jobs, policy, requests and the task in hand keep to their types; no
\* job is tried more often than max_attempts.
THEOREM TypeCorrect == Spec => []TypeOK
BY Inductive, PTL DEF IInv

\* A Jellyfin server that shares something else than the rows say has a job
\* that will read them, or somebody is about to queue one, whatever requests,
\* expiry, synchronisation and failures do; only a death between a change and
\* its job leaves them apart.
THEOREM NothingIsForgotten == Spec => []JellyfinForgetsNothing
<1>1. IInv => JellyfinForgetsNothing
  <2>1. Explained => Pending \/ MidChange
    BY DEF Explained, Owes, MidChange
  <2> QED
    BY <2>1 DEF IInv, ViewInv, JellyfinForgetsNothing, MidChange, AtTask
<1> QED
  BY <1>1, Inductive, PTL
====
