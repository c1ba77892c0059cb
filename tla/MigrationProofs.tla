---- MODULE MigrationProofs ----
(***************************************************************************)
(* Proofs about Migrations: its type invariant, and that the lock of the    *)
(* destination and the completion of campaigns hold for any campaigns,      *)
(* users, batch and bounds.                                                 *)
(***************************************************************************)
EXTENDS Migrations, TLAPS

LEMMA BoundsAreNat == /\ Batch \in Nat /\ MaxAsks \in Nat
                      /\ MaxFailures \in Nat /\ MaxDeaths \in Nat
  BY BoundsType

\* What a request pays with leaves the bounds in their type.
LEMMA PayKeepsType ==
  ASSUME TypeOK, NEW what \in {"asks", "failures", "deaths"}, Pay(what)
  PROVE  budget' \in [asks : 0..MaxAsks, failures : 0..MaxFailures, deaths : 0..MaxDeaths]
  BY BoundsAreNat DEF TypeOK, CampaignsType, Pay

LEMMA RefreshedIsStatus ==
  ASSUME NEW c, NEW rows
  PROVE  Refreshed(c, rows) \in {"scheduled", "running", "waiting_users", "needs_attention", "completed"}
  BY DEF Refreshed

LEMMA NoRunHasType == TargetsType => NoRun \in Run
  BY BoundsAreNat DEF NoRun, Run

LEMMA InitHasType == Init => TypeOK
  <1> SUFFICES ASSUME Init PROVE TypeOK
    OBVIOUS
  <1>1. row \in [Rows -> Row]
    BY DEF Init, CampaignsInit, Row, InWork
  <1>2. run \in Run
    BY BoundsAreNat DEF Init, CampaignsInit, NoRun, Run
  <1>3. account \in [User -> Account]
    BY DEF Init, CampaignsInit, Account
  <1>4. campaign \in [Campaign -> [status : Active \cup {"draft", "completed"}, ahead : BOOLEAN]]
    BY DEF Init, CampaignsInit
  <1>5. budget \in [asks : 0..MaxAsks, failures : 0..MaxFailures, deaths : 0..MaxDeaths]
    BY BoundsAreNat DEF Init, CampaignsInit
  <1>6. request \in Request
    BY DEF Init, CampaignsInit, NoRequest, Request
  <1>7. /\ links \in [User -> SUBSET Library]
        /\ snapshot \in [Rows -> SUBSET Library]
        /\ removal \in [Rows -> Removal]
        /\ kept \subseteq Library
        /\ drafted \in [User -> SUBSET Library]
    <2>1. links \in [User -> SUBSET Library]
      BY DEF Init, Library
    <2>2. \A r \in Rows : r[2] \in User
      BY DEF Rows
    <2> QED BY <2>1, <2>2 DEF Init, Library, Removal
  <1> QED BY <1>1, <1>2, <1>3, <1>4, <1>5, <1>6, <1>7 DEF TypeOK, CampaignsType, Init, CampaignsInit

----------------------------------------------------------------------------
(***************************************************************************)
(* Types.                                                                   *)
(***************************************************************************)
CampaignRow == [status : Active \cup {"draft", "completed"}, ahead : BOOLEAN]

LEMMA BecomesKeepsType ==
  ASSUME TypeOK, NEW c \in Campaign, NEW s \in Active \cup {"completed"}, Becomes(c, s)
  PROVE  campaign' \in [Campaign -> CampaignRow]
  BY DEF TypeOK, CampaignsType, Becomes, CampaignRow

LEMMA StatusIsKnown ==
  ASSUME TypeOK, NEW c \in Campaign, NEW rows
  PROVE  Launched(c) \in Active /\ Refreshed(c, rows) \in Active \cup {"completed"}
  BY DEF Launched, Refreshed, Active

LEMMA CampaignRequestsKeepType ==
  ASSUME TypeOK, NEW c \in Campaign,
         Start(c) \/ Pause(c) \/ Resume(c) \/ RetryFailed(c) \/ CheckInvitations(c),
         UNCHANGED sourceVars
  PROVE  TypeOK'
  <1>1. budget' \in [asks : 0..MaxAsks, failures : 0..MaxFailures, deaths : 0..MaxDeaths]
    BY PayKeepsType DEF Asks, Start, Pause, Resume, RetryFailed, CheckInvitations
  <1>2. campaign' \in [Campaign -> CampaignRow]
    <2>1. CASE CheckInvitations(c)
      BY <2>1 DEF CheckInvitations, TypeOK, CampaignsType, CampaignRow
    <2>2. CASE ~CheckInvitations(c)
      BY <2>2, BecomesKeepsType, StatusIsKnown DEF Start, Pause, Resume, RetryFailed, Active
    <2> QED BY <2>1, <2>2
  <1>3. row' \in [Rows -> Row]
    <2>1. CASE RetryFailed(c)
      BY <2>1 DEF RetryFailed, TypeOK, CampaignsType, Row, InWork
    <2>2. CASE CheckInvitations(c)
      BY <2>2 DEF CheckInvitations, TypeOK, CampaignsType, Row
    <2>3. CASE UNCHANGED row
      BY <2>3 DEF TypeOK, CampaignsType
    <2> QED BY <2>1, <2>2, <2>3 DEF Start, Pause, Resume
  <1>4. task' \in BOOLEAN
    BY DEF Start, Pause, Resume, RetryFailed, CheckInvitations, TypeOK, CampaignsType
  <1>5. UNCHANGED <<others, run, request, ghosts>>
    BY DEF Start, Pause, Resume, RetryFailed, CheckInvitations
  <1> QED
    BY <1>1, <1>2, <1>3, <1>4, <1>5 DEF TypeOK, CampaignsType, others, ghosts, sourceVars, CampaignRow

LEMMA UserRequestsKeepType ==
  ASSUME TypeOK, NEW r \in Rows, ReadToSet(r) \/ Validate(r), UNCHANGED sourceVars
  PROVE  TypeOK'
  <1>1. budget' \in [asks : 0..MaxAsks, failures : 0..MaxFailures, deaths : 0..MaxDeaths]
    BY PayKeepsType DEF Asks, ReadToSet, Validate
  <1>2. r[1] \in Campaign
    BY DEF Rows
  <1>3. CASE ReadToSet(r)
    <2>1. request' \in Request
      BY <1>3 DEF ReadToSet, Request
    <2> QED BY <1>1, <1>3, <2>1 DEF ReadToSet, TypeOK, CampaignsType, others, ghosts, sourceVars
  <1>4. CASE Validate(r)
    <2>1. row' \in [Rows -> Row]
      BY <1>4 DEF Validate, TypeOK, CampaignsType, Row, Settled
    <2>2. campaign' \in [Campaign -> CampaignRow]
      BY <1>2, <1>4, BecomesKeepsType, StatusIsKnown DEF Validate
    <2> QED
      BY <1>1, <1>4, <2>1, <2>2 DEF Validate, TypeOK, CampaignsType, others, ghosts, sourceVars, CampaignRow
  <1> QED BY <1>3, <1>4

LEMMA SourceRequestsKeepType ==
  ASSUME TypeOK, \/ \E r \in Rows : Unlink(r) \/ Restore(r) \/ ReconcileJob(r)
                 \/ \E u \in User : Link(u)
                 \/ RecordRemoval
  PROVE  TypeOK'
  <1>1. ASSUME NEW r \in Rows, Unlink(r) PROVE TypeOK'
    <2>1. budget' \in [asks : 0..MaxAsks, failures : 0..MaxFailures, deaths : 0..MaxDeaths]
      BY <1>1, PayKeepsType DEF Asks, Unlink
    <2>2. r[2] \in User
      BY DEF Rows
    <2>3. request' \in Request
      BY <1>1 DEF Unlink, Request
    <2>4. kept' \subseteq Library /\ links' \in [User -> SUBSET Library]
      BY <1>1, <2>2 DEF Unlink, Kept, TypeOK
    <2> QED BY <1>1, <2>1, <2>3, <2>4 DEF Unlink, TypeOK, CampaignsType, others, ghosts
  <1>2. ASSUME NEW r \in Rows, Restore(r) PROVE TypeOK'
    <2>1. budget' \in [asks : 0..MaxAsks, failures : 0..MaxFailures, deaths : 0..MaxDeaths]
      BY <1>2, PayKeepsType DEF Asks, Restore
    <2>2. r[2] \in User
      BY DEF Rows
    <2>3. links' \in [User -> SUBSET Library]
      BY <1>2, <2>2 DEF Restore, TypeOK
    <2>4. removal' \in [Rows -> Removal]
      BY <1>2 DEF Restore, TypeOK, Removal
    <2> QED BY <1>2, <2>1, <2>3, <2>4 DEF Restore, TypeOK, CampaignsType, others, ghosts
  <1>3. ASSUME NEW r \in Rows, ReconcileJob(r) PROVE TypeOK'
    <2>1. removal' \in [Rows -> Removal]
      BY <1>3 DEF ReconcileJob, TypeOK, Removal
    <2> QED BY <1>3, <2>1 DEF ReconcileJob, TypeOK, CampaignsType, campaignVars
  <1>4. ASSUME NEW u \in User, Link(u) PROVE TypeOK'
    <2>1. budget' \in [asks : 0..MaxAsks, failures : 0..MaxFailures, deaths : 0..MaxDeaths]
      BY <1>4, PayKeepsType DEF Asks, Link
    <2>2. links' \in [User -> SUBSET Library]
      BY <1>4 DEF Link, TypeOK, Library
    <2> QED BY <1>4, <2>1, <2>2 DEF Link, TypeOK, CampaignsType, others, ghosts
  <1>5. CASE RecordRemoval
    <2>1. snapshot' \in [Rows -> SUBSET Library] /\ removal' \in [Rows -> Removal]
      BY <1>5 DEF RecordRemoval, TypeOK, Removal
    <2>2. request' \in Request
      BY <1>5 DEF RecordRemoval, NoRequest, Request
    <2> QED BY <1>5, <2>1, <2>2 DEF RecordRemoval, TypeOK, CampaignsType, others, ghosts
  <1> QED BY <1>1, <1>2, <1>3, <1>4, <1>5

LEMMA ServingKeepsType == ASSUME TypeOK, WriteSet, UNCHANGED sourceVars PROVE TypeOK'
  <1>1. row' \in [Rows -> Row]
    <2>1. PICK r \in request.on :
            row' = [row EXCEPT
              ![r].status = IF request.act = "exclude" THEN "excluded" ELSE "pending",
              ![r].ready  = request.act = "include"]
      BY DEF WriteSet
    <2>2. (request.act = "include") \in BOOLEAN
      OBVIOUS
    <2>3. PICK s \in {"excluded", "pending"}, b \in BOOLEAN :
            row' = [row EXCEPT ![r].status = s, ![r].ready = b]
      BY <2>1, <2>2
    <2> QED BY <2>3 DEF TypeOK, CampaignsType, Row, Settled, InWork
  <1>2. request' \in Request
    BY DEF WriteSet, NoRequest, Request
  <1>3. overruled' \subseteq Rows
    BY DEF WriteSet, TypeOK, CampaignsType, Request
  <1> QED BY <1>1, <1>2, <1>3 DEF WriteSet, TypeOK, CampaignsType, others, sourceVars

LEMMA WorldKeepsType == ASSUME TypeOK, World, UNCHANGED sourceVars PROVE TypeOK'
  <1>1. ASSUME NEW u \in User, Accept(u) \/ Play(u) PROVE TypeOK'
    BY <1>1 DEF Accept, Play, TypeOK, CampaignsType, Account, ghosts, sourceVars
  <1>2. ASSUME NEW c \in Campaign, DateComes(c) PROVE TypeOK'
    BY <1>2 DEF DateComes, TypeOK, CampaignsType, others, ghosts, sourceVars
  <1>3. CASE TenMinutesPass
    <2>1. row' \in [Rows -> Row]
      BY <1>3 DEF TenMinutesPass, TypeOK, CampaignsType, Row
    <2> QED BY <1>3, <2>1 DEF TenMinutesPass, TypeOK, CampaignsType, others, ghosts, sourceVars
  <1> QED BY <1>1, <1>2, <1>3 DEF World

LEMMA StartRunKeepsType == ASSUME TypeOK, StartRun, UNCHANGED sourceVars PROVE TypeOK'
  <1>1. row' \in [Rows -> Row]
    BY DEF StartRun, Reconciled, TypeOK, CampaignsType, Row, Settled
  <1>2. campaign' \in [Campaign -> CampaignRow]
    BY DEF StartRun, Due, TypeOK, CampaignsType, CampaignRow, Active
  <1>3. \A r \in Rows : Claimable(r) => row[r].status \in {"pending", "waiting_acceptance"}
    BY DEF Claimable
  <1>4. run' \in Run
    <2>1. NoRun \in Run
      BY NoRunHasType, TargetsType
    <2>2. {<<r, row[r].status>> : r \in {r \in Rows : Claimable(r)}}
            \subseteq Rows \X {"pending", "waiting_acceptance"}
      BY <1>3
    <2>3. {c \in Campaign : Due(c).status \in {"running", "waiting_users"}} \subseteq Campaign
      OBVIOUS
    <2> QED BY <2>1, <2>2, <2>3 DEF StartRun, Run
  <1> QED
    BY <1>1, <1>2, <1>4 DEF StartRun, TypeOK, CampaignsType, CampaignRow, others, ghosts, sourceVars

LEMMA ClaimKeepsType == ASSUME TypeOK, Claim, UNCHANGED sourceVars PROVE TypeOK'
  <1> DEFINE next == CHOOSE t \in run.todo : TRUE
  <1> DEFINE r == next[1]
  <1>1. next \in run.todo
    BY DEF Claim
  <1>2. next \in Rows \X {"pending", "waiting_acceptance"} /\ r \in Rows /\ r[1] \in Campaign
    BY <1>1 DEF TypeOK, CampaignsType, Run, Rows
  <1> HIDE DEF next
  <1>3. row' \in [Rows -> Row]
    <2>1. row' \in {row, [row EXCEPT ![r].status = "processing"]}
      BY DEF Claim, next
    <2> QED BY <1>2, <2>1 DEF TypeOK, CampaignsType, Row, InWork
  <1>4. run' \in Run
    <2>1. run.done \in [Campaign -> 0..Batch]
      BY DEF TypeOK, CampaignsType, Run
    <2>2. WithinBatch(r[1]) => run.done[r[1]] + 1 \in 0..Batch
      BY <1>2, <2>1, BoundsAreNat DEF WithinBatch
    <2>3. WithinBatch(r[1]) => DoneOneMore(r[1]) \in [Campaign -> 0..Batch]
      BY <1>2, <2>1, <2>2 DEF DoneOneMore
    <2>4. run.todo \ {next} \in SUBSET (Rows \X {"pending", "waiting_acceptance"})
          /\ {next} \in SUBSET (Rows \X {"pending", "waiting_acceptance"})
      BY <1>2 DEF TypeOK, CampaignsType, Run
    <2> DEFINE took == row[r].status = next[2] /\ WithinBatch(r[1])
    <2> DEFINE hand == IF took THEN {next} ELSE {}
    <2> DEFINE done == IF took THEN DoneOneMore(r[1]) ELSE run.done
    <2> DEFINE step == IF ~took THEN "rows"
                       ELSE IF provider = "jellyfin" /\ account[r[2]] \in {"none", "remote"}
                            THEN "create" ELSE "grant"
    <2>5. run' = [run EXCEPT !.todo = run.todo \ {next}, !.hand = hand, !.done = done, !.step = step]
      BY DEF Claim, next, TypeOK, CampaignsType, Run
    <2>6. hand \in SUBSET (Rows \X {"pending", "waiting_acceptance"})
      BY <2>4
    <2>7. done \in [Campaign -> 0..Batch]
      BY <2>1, <2>3
    <2>8. step \in {"rows", "create", "grant"}
      OBVIOUS
    <2> HIDE DEF took, hand, done, step
    <2> QED BY <2>4, <2>5, <2>6, <2>7, <2>8 DEF TypeOK, CampaignsType, Run
  <1> QED
    BY <1>3, <1>4 DEF Claim, TypeOK, CampaignsType, others, ghosts, sourceVars

LEMMA WriteRowKeepsType ==
  ASSUME TypeOK, NEW r \in Rows, NEW v \in BOOLEAN,
         NEW s \in Waiting \cup {"completed", "failed"}, WriteRow(r, s, v)
  PROVE  row' \in [Rows -> Row] /\ run' \in Run
  <1>1. row' \in [Rows -> Row]
    <2>1. (row[r].validated \/ v) \in BOOLEAN
      OBVIOUS
    <2>2. PICK b \in BOOLEAN :
            row' = [row EXCEPT ![r].status = s, ![r].rested = FALSE, ![r].validated = b]
      BY <2>1 DEF WriteRow
    <2>3. s \in InWork \cup Waiting \cup Settled \cup {"failed"}
      BY DEF Settled
    <2>4. [row EXCEPT ![r].status = s] \in [Rows -> Row]
      BY <2>3 DEF TypeOK, CampaignsType, Row
    <2>5. \A f \in [Rows -> Row] : [f EXCEPT ![r].rested = FALSE, ![r].validated = b] \in [Rows -> Row]
      BY DEF Row
    <2> QED BY <2>2, <2>4, <2>5 DEF TypeOK, CampaignsType
  <1>2. run' \in Run
    BY DEF WriteRow, TypeOK, CampaignsType, Run
  <1> QED BY <1>1, <1>2

LEMMA GaveUpKeepsType ==
  ASSUME TypeOK, NEW r \in Rows, NEW was, GaveUp(r, was)
  PROVE  row' \in [Rows -> Row] /\ run' \in Run
  BY WriteRowKeepsType DEF GaveUp, Waiting

LEMMA HandHasType ==
  ASSUME TypeOK, NEW t \in run.hand
  PROVE  t[1] \in Rows /\ t[1][1] \in Campaign /\ t[1][2] \in User
  BY DEF TypeOK, CampaignsType, Run, Rows

LEMMA CreateAccountKeepsType == ASSUME TypeOK, CreateAccount, UNCHANGED sourceVars PROVE TypeOK'
  <1>1. PICK t \in run.hand :
          LET r == t[1] IN
          \/ /\ account' = [account EXCEPT ![r[2]] = r[1]]
             /\ run' = [run EXCEPT !.step = "grant"]
             /\ UNCHANGED <<row, budget>>
          \/ /\ Pay("failures")
             /\ account' = [account EXCEPT ![r[2]] = "remote"]
             /\ GaveUp(r, t[2])
          \/ /\ GaveUp(r, t[2])
             /\ UNCHANGED <<account, budget>>
    BY DEF CreateAccount
  <1>2. account' \in [User -> Account]
    BY <1>1, HandHasType DEF TypeOK, CampaignsType, Account
  <1>3. row' \in [Rows -> Row] /\ run' \in Run
    <2>1. CASE GaveUp(t[1], t[2])
      BY <2>1, HandHasType, GaveUpKeepsType
    <2>2. CASE UNCHANGED row /\ run' = [run EXCEPT !.step = "grant"]
      BY <2>2 DEF TypeOK, CampaignsType, Run
    <2> QED BY <1>1, <2>1, <2>2
  <1>4. budget' \in [asks : 0..MaxAsks, failures : 0..MaxFailures, deaths : 0..MaxDeaths]
    BY <1>1, PayKeepsType DEF TypeOK, CampaignsType
  <1> QED
    BY <1>2, <1>3, <1>4 DEF CreateAccount, TypeOK, CampaignsType, ghosts, sourceVars

LEMMA GrantKeepsType == ASSUME TypeOK, Grant, UNCHANGED sourceVars PROVE TypeOK'
  <1>1. PICK t \in run.hand :
          LET r == t[1] IN
          \/ Pay("failures") /\ GaveUp(r, t[2]) /\ UNCHANGED account
          \/ WriteRow(r, "completed", TRUE) /\ UNCHANGED <<account, budget>>
          \/ WriteRow(r, "waiting_validation", FALSE) /\ UNCHANGED <<account, budget>>
          \/ /\ account' = [account EXCEPT ![r[2]] = "invited"]
             /\ WriteRow(r, "waiting_acceptance", FALSE) /\ UNCHANGED budget
    BY DEF Grant
  <1>2. account' \in [User -> Account]
    BY <1>1, HandHasType DEF TypeOK, CampaignsType, Account
  <1>3. row' \in [Rows -> Row] /\ run' \in Run
    BY <1>1, HandHasType, GaveUpKeepsType, WriteRowKeepsType DEF Waiting
  <1>4. budget' \in [asks : 0..MaxAsks, failures : 0..MaxFailures, deaths : 0..MaxDeaths]
    BY <1>1, PayKeepsType DEF TypeOK, CampaignsType
  <1> QED
    BY <1>2, <1>3, <1>4 DEF Grant, TypeOK, CampaignsType, ghosts, sourceVars

LEMMA EndOfRunKeepsType ==
  ASSUME TypeOK, NEW jobs, RefreshCampaigns \/ LookForWork(jobs) \/ SwitchOff, UNCHANGED sourceVars
  PROVE  TypeOK'
  <1>1. CASE RefreshCampaigns
    <2>1. campaign' \in [Campaign -> CampaignRow]
      <3>1. \A c \in Campaign : Refreshed(c, row) \in Active \cup {"completed"}
        BY StatusIsKnown
      <3> QED BY <1>1, <3>1 DEF RefreshCampaigns, TypeOK, CampaignsType, CampaignRow
    <2>2. run' \in Run
      BY <1>1 DEF RefreshCampaigns, TypeOK, CampaignsType, Run
    <2> QED
      BY <1>1, <2>1, <2>2 DEF RefreshCampaigns, TypeOK, CampaignsType, CampaignRow, others, ghosts, sourceVars
  <1>2. CASE LookForWork(jobs)
    <2>1. run' \in Run
      BY <1>2, NoRunHasType, TargetsType DEF LookForWork, TypeOK, CampaignsType, Run
    <2> QED BY <1>2, <2>1 DEF LookForWork, TypeOK, CampaignsType, others, ghosts, sourceVars
  <1>3. CASE SwitchOff
    <2>1. run' \in Run
      BY <1>3, NoRunHasType, TargetsType DEF SwitchOff
    <2> QED BY <1>3, <2>1 DEF SwitchOff, TypeOK, CampaignsType, others, sourceVars
  <1> QED BY <1>1, <1>2, <1>3

LEMMA DeathKeepsType == ASSUME TypeOK, DieUndone PROVE TypeOK'
  <1>1. run' \in Run
    BY NoRunHasType, TargetsType DEF DieUndone, Die
  <1>2. request' \in Request
    BY DEF DieUndone, Die, NoRequest, Request
  <1>3. orphaned' \subseteq Rows
    BY HandHasType DEF DieUndone, Die, TypeOK, CampaignsType
  <1>4. account' \in [User -> Account]
    BY HandHasType DEF DieUndone, Die, TypeOK, CampaignsType, Account
  <1>5. budget' \in [asks : 0..MaxAsks, failures : 0..MaxFailures, deaths : 0..MaxDeaths]
    BY PayKeepsType DEF DieUndone, Die
  <1> QED
    BY <1>1, <1>2, <1>3, <1>4, <1>5 DEF DieUndone, Die, TypeOK, CampaignsType

LEMMA StepKeepsType == TypeOK /\ [Next]_vars => TypeOK'
  <1> SUFFICES ASSUME TypeOK, [Next]_vars PROVE TypeOK'
    OBVIOUS
  <1>1. CASE Administrator
    BY <1>1, CampaignRequestsKeepType, UserRequestsKeepType, SourceRequestsKeepType DEF Administrator
  <1>2. CASE Serve
    BY <1>2, ServingKeepsType, SourceRequestsKeepType DEF Serve
  <1>3. CASE StartRun /\ UNCHANGED sourceVars
    BY <1>3, StartRunKeepsType
  <1>4. CASE MigrationWorker /\ UNCHANGED sourceVars
    BY <1>4, ClaimKeepsType, CreateAccountKeepsType, GrantKeepsType, EndOfRunKeepsType DEF MigrationWorker
  <1>5. CASE \E r \in Rows : ReconcileJob(r)
    BY <1>5, SourceRequestsKeepType
  <1>6. CASE World /\ UNCHANGED sourceVars
    BY <1>6, WorldKeepsType
  <1>7. CASE DieUndone
    BY <1>7, DeathKeepsType
  <1>8. CASE UNCHANGED vars
    BY <1>8 DEF vars, campaignVars, sourceVars, TypeOK, CampaignsType
  <1> QED BY <1>1, <1>2, <1>3, <1>4, <1>5, <1>6, <1>7, <1>8 DEF Next

(***************************************************************************)
(* Every variable keeps its type; a batch is never exceeded.                *)
(***************************************************************************)
THEOREM TypeCorrect == Spec => []TypeOK
  <1>1. Init => TypeOK
    BY InitHasType
  <1>2. TypeOK /\ [Next]_vars => TypeOK'
    BY StepKeepsType
  <1> QED BY <1>1, <1>2, PTL DEF Spec

----------------------------------------------------------------------------
(***************************************************************************)
(* The lock of the destination.  Neither it nor the completion of campaigns *)
(* is inductive: the worker writes rows and campaigns blindly, so it must   *)
(* be known that no run has a draft in view, that a row in its hand is      *)
(* still in processing unless it was overruled, and what is completed.      *)
(***************************************************************************)
DraftsRest ==
    \A c \in Campaign : campaign[c].status = "draft" =>
        /\ c \notin run.seen
        /\ \A r \in RowsOf(c) : row[r].status \in {"pending", "excluded"}
        /\ \A t \in run.todo \cup run.hand : t[1][1] # c

HandIsHeld == \A t \in run.hand : row[t[1]].status = "processing" \/ t[1] \in overruled

\* A row about to be included again has stayed excluded.
IncludedIsOut ==
    request.act = "include" =>
        \A r \in request.on : row[r].status = "excluded" \/ r \in overruled

Inv == DraftsRest /\ HandIsHeld /\ IncludedIsOut /\ OneCampaignPerUser /\ CompletedLeavesNobody

\* A row is no more at work, or no more unsettled in a completed campaign,
\* than it was, or else it is overruled.
NoNewWork ==
    \A r \in Rows :
        /\ AtWork(r)' => AtWork(r) \/ r \in overruled'
        /\ campaign'[r[1]].status = "completed" /\ row'[r].status \notin Settled
             => \/ r \in overruled'
                \/ campaign[r[1]].status = "completed" /\ row[r].status \notin Settled

LEMMA NoNewWorkKeepsLock ==
  ASSUME OneCampaignPerUser, CompletedLeavesNobody, NoNewWork, overruled \subseteq overruled'
  PROVE  OneCampaignPerUser' /\ CompletedLeavesNobody'
  BY DEF OneCampaignPerUser, CompletedLeavesNobody, NoNewWork, AtWork, Rows

LEMMA InitHasInv == Init => Inv
  <1> SUFFICES ASSUME Init PROVE Inv
    OBVIOUS
  <1>1. /\ \A c \in Campaign : campaign[c].status = "draft"
        /\ \A r \in Rows : row[r].status = "pending" /\ r[1] \in Campaign
        /\ run.todo = {} /\ run.hand = {} /\ run.seen = {}
    BY DEF Init, CampaignsInit, NoRun, Rows
  <1> QED
    BY <1>1 DEF Inv, DraftsRest, HandIsHeld, IncludedIsOut, OneCampaignPerUser,
                CompletedLeavesNobody, AtWork, Active, RowsOf, Init, CampaignsInit, NoRequest

\* Start takes a draft to work: nobody else is at work on its users.
LEMMA StartKeepsInv ==
  ASSUME TypeOK, TypeOK', Inv, NEW c \in Campaign, Start(c) PROVE Inv'
  <1>1. /\ ~Conflict(c) /\ campaign[c].status = "draft"
        /\ campaign' = [campaign EXCEPT ![c].status = Launched(c)]
        /\ UNCHANGED <<row, run, request, overruled>>
    BY DEF Start, Becomes, ghosts
  <1>2. Launched(c) \in Active
    BY DEF Launched, Active
  <1>3. \A d \in Campaign : /\ d # c => campaign'[d] = campaign[d]
                            /\ campaign'[c].status \in Active
    BY <1>1, <1>2 DEF TypeOK, CampaignsType
  <1>4. DraftsRest'
    BY <1>1, <1>3 DEF Inv, DraftsRest, Active, RowsOf
  <1>5. HandIsHeld'
    BY <1>1 DEF Inv, HandIsHeld
  <1>6. CompletedLeavesNobody'
    BY <1>1, <1>3 DEF Inv, CompletedLeavesNobody, Active, Rows
  <1>7. OneCampaignPerUser'
    <2> SUFFICES ASSUME NEW r \in Rows, NEW other \in Rows,
                        r # other, r[2] = other[2], AtWork(r)', AtWork(other)'
                 PROVE  ({r, other} \cap overruled # {})'
      BY DEF OneCampaignPerUser
    <2>1. r[1] \in Campaign /\ other[1] \in Campaign /\ r[1] # other[1]
      BY DEF Rows
    <2>2. CASE r[1] # c /\ other[1] # c
      BY <1>1, <1>3, <2>1, <2>2 DEF Inv, OneCampaignPerUser, AtWork
    <2>3. CASE r[1] = c
      BY <1>1, <1>3, <2>1, <2>3 DEF Conflict, AtWork, Settled
    <2>4. CASE other[1] = c
      BY <1>1, <1>3, <2>1, <2>4 DEF Conflict, AtWork, Settled
    <2> QED BY <2>2, <2>3, <2>4
  <1> QED BY <1>1, <1>4, <1>5, <1>6, <1>7 DEF Inv, IncludedIsOut

LEMMA OtherCampaignRequestsKeepInv ==
  ASSUME TypeOK, TypeOK', Inv, NEW c \in Campaign,
         Pause(c) \/ Resume(c) \/ RetryFailed(c) \/ CheckInvitations(c)
  PROVE  Inv'
  <1>1. UNCHANGED <<run, request, overruled>> /\ request.act = "none"
    BY DEF Pause, Resume, RetryFailed, CheckInvitations, ghosts, Asks
  <1>2. \/ UNCHANGED campaign
        \/ /\ campaign[c].status \in Active
           /\ \E s \in Active : campaign' = [campaign EXCEPT ![c].status = s]
    <2>1. Launched(c) \in Active
      BY DEF Launched, Active
    <2> QED
      BY <2>1 DEF Pause, Resume, RetryFailed, CheckInvitations, Becomes, Active
  <1>3. \A d \in Campaign :
          /\ campaign'[d].status = "draft" <=> campaign[d].status = "draft"
          /\ campaign'[d].status \in Active <=> campaign[d].status \in Active
          /\ campaign'[d].status = "completed" <=> campaign[d].status = "completed"
    <2>1. CASE UNCHANGED campaign
      BY <2>1
    <2>2. CASE ~UNCHANGED campaign
      BY <1>2, <2>2 DEF TypeOK, CampaignsType, Active
    <2> QED BY <2>1, <2>2
  <1>4. \A r \in Rows : \/ row'[r].status = row[r].status
                        \/ /\ row[r].status = "failed" /\ row'[r].status = "pending"
                           /\ campaign[r[1]].status \in Active
    <2>1. CASE RetryFailed(c)
      BY <2>1 DEF RetryFailed, TypeOK, CampaignsType, Row, Active
    <2>2. CASE CheckInvitations(c)
      BY <2>2 DEF CheckInvitations, TypeOK, CampaignsType, Row
    <2>3. CASE UNCHANGED row
      BY <2>3
    <2> QED BY <2>1, <2>2, <2>3 DEF Pause, Resume
  <1>5. \A r \in Rows : r[1] \in Campaign
    BY DEF Rows
  <1>6. DraftsRest'
    <2> SUFFICES ASSUME NEW d \in Campaign, (campaign[d].status = "draft")'
                 PROVE  (/\ d \notin run.seen
                         /\ \A r \in RowsOf(d) : row[r].status \in {"pending", "excluded"}
                         /\ \A t \in run.todo \cup run.hand : t[1][1] # d)'
      BY DEF DraftsRest
    <2> QED BY <1>1, <1>3, <1>4 DEF Inv, DraftsRest, RowsOf
  <1>7. HandIsHeld'
    BY <1>1, <1>4, HandHasType DEF Inv, HandIsHeld
  <1>8. NoNewWork
    BY <1>3, <1>4, <1>5 DEF NoNewWork, AtWork, Settled
  <1> QED BY <1>1, <1>6, <1>7, <1>8, NoNewWorkKeepsLock DEF Inv, IncludedIsOut

LEMMA RefreshedCompletes ==
  ASSUME NEW c \in Campaign, NEW rows \in [Rows -> Row], Refreshed(c, rows) = "completed",
         NEW r \in RowsOf(c)
  PROVE  rows[r].status \in Settled
  <1>1. rows[r].status \in StatusesOf(c, rows)
    BY DEF StatusesOf
  <1>2. rows[r].status \in InWork \cup Waiting \cup Settled \cup {"failed"}
    BY DEF RowsOf, Row
  <1> QED BY <1>1, <1>2 DEF Refreshed

\* A blind refresh of a campaign that has left its draft.
LEMMA RefreshKeepsLock ==
  ASSUME TypeOK, TypeOK', Inv, NEW S \in SUBSET Campaign,
         \A c \in S : campaign[c].status # "draft",
         \A c \in Campaign : campaign'[c].status = IF c \in S THEN Refreshed(c, row')
                                                   ELSE campaign[c].status,
         \A r \in Rows : row'[r].status # row[r].status => row'[r].status \in Settled,
         UNCHANGED overruled
  PROVE  NoNewWork
  <1> SUFFICES ASSUME NEW r \in Rows
               PROVE  /\ AtWork(r)' => AtWork(r) \/ r \in overruled'
                      /\ campaign'[r[1]].status = "completed" /\ row'[r].status \notin Settled
                           => \/ r \in overruled'
                              \/ campaign[r[1]].status = "completed" /\ row[r].status \notin Settled
    BY DEF NoNewWork
  <1>1. r[1] \in Campaign /\ r \in RowsOf(r[1])
    BY DEF Rows, RowsOf
  <1>2. CASE r[1] \notin S
    BY <1>1, <1>2 DEF AtWork
  <1>3. CASE r[1] \in S
    <2>1. campaign[r[1]].status \in Active \cup {"completed"}
      BY <1>1, <1>3 DEF TypeOK, CampaignsType
    <2>2. campaign'[r[1]].status = "completed" => row'[r].status \in Settled
      BY <1>1, <1>3, RefreshedCompletes DEF TypeOK, CampaignsType
    <2>3. AtWork(r)' => AtWork(r) \/ r \in overruled'
      BY <1>1, <2>1 DEF AtWork, Inv, CompletedLeavesNobody
    <2> QED BY <2>2, <2>3
  <1> QED BY <1>2, <1>3

LEMMA UserRequestsKeepInv ==
  ASSUME TypeOK, TypeOK', Inv, NEW r \in Rows, ReadToSet(r) \/ Validate(r)
  PROVE  Inv'
  <1>1. CASE ReadToSet(r)
    BY <1>1 DEF ReadToSet, ghosts, Inv, DraftsRest, HandIsHeld, IncludedIsOut,
                OneCampaignPerUser, CompletedLeavesNobody, AtWork, RowsOf
  <1>2. CASE Validate(r)
    <2> DEFINE c == r[1]
    <2>1. c \in Campaign /\ r \in RowsOf(c)
      BY DEF Rows, RowsOf
    <2>2. /\ campaign' = [campaign EXCEPT ![c].status = Refreshed(c, row')]
          /\ UNCHANGED <<run, request, overruled>> /\ request.act = "none"
          /\ row[r].status = "waiting_validation"
          /\ row' = [row EXCEPT ![r].status = "completed", ![r].validated = TRUE]
      BY <1>2 DEF Validate, Becomes, ghosts, Asks
    <2>3. campaign[c].status # "draft"
      BY <2>1, <2>2 DEF Inv, DraftsRest
    <2>4. /\ \A q \in Rows : q # r => row'[q] = row[q]
          /\ row'[r].status = "completed"
      BY <2>2 DEF TypeOK, CampaignsType, Row
    <2>5. \A d \in Campaign : campaign'[d].status = IF d \in {c} THEN Refreshed(d, row')
                                                    ELSE campaign[d].status
      <3>1. PICK s : s = Refreshed(c, row')
        OBVIOUS
      <3>2. campaign' = [campaign EXCEPT ![c].status = s]
        BY <2>2, <3>1
      <3>3. \A d \in Campaign : campaign'[d].status = IF d = c THEN s ELSE campaign[d].status
        BY <2>1, <3>2 DEF TypeOK, CampaignsType
      <3> QED BY <3>1, <3>3
    <2>6. NoNewWork
      <3>1. {c} \in SUBSET Campaign /\ \A d \in {c} : campaign[d].status # "draft"
        BY <2>1, <2>3
      <3>2. \A q \in Rows : row'[q].status # row[q].status => row'[q].status \in Settled
        BY <2>4 DEF Settled
      <3>3. UNCHANGED overruled
        BY <2>2
      <3> HIDE DEF c
      <3> QED BY <2>5, <3>1, <3>2, <3>3, RefreshKeepsLock
    <2>7. DraftsRest'
      <3>1. Refreshed(c, row') # "draft"
        BY RefreshedIsStatus
      <3> SUFFICES ASSUME NEW d \in Campaign, campaign'[d].status = "draft"
                   PROVE  /\ d \notin run'.seen
                          /\ \A q \in RowsOf(d) : row'[q].status \in {"pending", "excluded"}
                          /\ \A t \in run'.todo \cup run'.hand : t[1][1] # d
        BY DEF DraftsRest, RowsOf
      <3>2. d # c /\ campaign[d].status = "draft"
        BY <2>5, <3>1
      <3>3. \A q \in RowsOf(d) : row'[q] = row[q]
        BY <2>4, <3>2 DEF RowsOf
      <3> QED BY <2>2, <3>2, <3>3 DEF Inv, DraftsRest
    <2>8. HandIsHeld'
      BY <2>2, <2>4, HandHasType DEF Inv, HandIsHeld
    <2> QED BY <2>2, <2>6, <2>7, <2>8, NoNewWorkKeepsLock DEF Inv, IncludedIsOut
  <1> QED BY <1>1, <1>2

\* What set_user_excluded overrules is left out of the lock.
LEMMA WriteSetKeepsInv == ASSUME TypeOK, TypeOK', Inv, WriteSet PROVE Inv'
  <1>1. PICK r \in request.on :
          /\ request.act \in {"exclude", "include"}
          /\ row' = [row EXCEPT
               ![r].status = IF request.act = "exclude" THEN "excluded" ELSE "pending",
               ![r].ready  = request.act = "include"]
          /\ overruled' =
               IF \/ request.act = "exclude" /\ row[r].status \notin {"pending", "failed"}
                  \/ request.act = "include" /\ (campaign[r[1]].status = "completed" \/ Elsewhere(r))
               THEN overruled \cup {r} ELSE overruled
          /\ UNCHANGED <<campaign, run>>
          /\ request' = NoRequest
    BY DEF WriteSet
  <1>2. r \in Rows /\ r[1] \in Campaign
    BY DEF TypeOK, CampaignsType, Request, Rows
  <1>3. /\ \A q \in Rows : q # r => row'[q] = row[q]
        /\ row'[r].status = IF request.act = "exclude" THEN "excluded" ELSE "pending"
    BY <1>1, <1>2 DEF TypeOK, CampaignsType, Row
  <1>4. overruled \subseteq overruled'
    BY <1>1
  <1>5. DraftsRest'
    BY <1>1, <1>2, <1>3 DEF Inv, DraftsRest, RowsOf
  <1>6. HandIsHeld'
    <2> SUFFICES ASSUME NEW t \in run.hand
                 PROVE  row'[t[1]].status = "processing" \/ t[1] \in overruled'
      BY <1>1 DEF HandIsHeld
    <2>1. row[t[1]].status = "processing" \/ t[1] \in overruled
      BY DEF Inv, HandIsHeld
    <2>2. CASE t[1] # r
      BY <1>3, <1>4, <2>1, <2>2, HandHasType
    <2>3. CASE t[1] = r /\ request.act = "exclude"
      BY <1>1, <1>4, <2>1, <2>3
    <2>4. CASE t[1] = r /\ request.act = "include"
      BY <1>4, <2>1, <2>4 DEF Inv, IncludedIsOut
    <2> QED BY <1>1, <2>2, <2>3, <2>4
  <1>7. CompletedLeavesNobody'
    BY <1>1, <1>2, <1>3, <1>4 DEF Inv, CompletedLeavesNobody, Settled
  <1>8. OneCampaignPerUser'
    <2> SUFFICES ASSUME NEW a \in Rows, NEW b \in Rows,
                        a # b, a[2] = b[2], AtWork(a)', AtWork(b)'
                 PROVE  {a, b} \cap overruled' # {}
      BY DEF OneCampaignPerUser
    <2>1. \A q \in Rows : q # r => (AtWork(q)' <=> AtWork(q))
      BY <1>1, <1>3 DEF AtWork
    <2>2. CASE r \notin {a, b}
      BY <1>4, <2>1, <2>2 DEF Inv, OneCampaignPerUser
    <2>3. CASE r \in {a, b} /\ request.act = "exclude"
      BY <1>3, <2>3 DEF AtWork, Settled
    <2>4. CASE r \in {a, b} /\ request.act = "include"
      <3>1. Elsewhere(r)
        BY <2>1, <2>4 DEF Elsewhere, AtWork
      <3> QED BY <1>1, <2>4, <3>1
    <2> QED BY <1>1, <2>2, <2>3, <2>4
  <1> QED BY <1>1, <1>5, <1>6, <1>7, <1>8 DEF Inv, IncludedIsOut, NoRequest

LEMMA StartRunKeepsInv == ASSUME TypeOK, TypeOK', Inv, StartRun PROVE Inv'
  <1>1. \A r \in Rows : r[1] \in Campaign /\ r \in RowsOf(r[1])
    BY DEF Rows, RowsOf
  <1>2. \A r \in Rows : \/ row'[r].status = row[r].status
                        \/ row[r].status = "waiting_validation" /\ row'[r].status = "completed"
    <2> SUFFICES ASSUME NEW r \in Rows
                 PROVE  \/ row'[r].status = row[r].status
                        \/ row[r].status = "waiting_validation" /\ row'[r].status = "completed"
      OBVIOUS
    <2>1. row'[r] = Reconciled(r) /\ row[r] \in Row
      BY DEF StartRun, TypeOK, CampaignsType
    <2>2. [row[r] EXCEPT !.status = "completed", !.validated = TRUE].status = "completed"
      BY <2>1 DEF Row
    <2> QED BY <2>1, <2>2 DEF Reconciled
  <1>3. \A c \in Campaign : \/ campaign'[c].status = campaign[c].status
                            \/ campaign[c].status = "scheduled" /\ campaign'[c].status = "running"
    BY DEF StartRun, Due, TypeOK, CampaignsType
  <1>4. /\ \A c \in run'.seen : campaign'[c].status \in {"running", "waiting_users"}
        /\ \A t \in run'.todo : t[1] \in Rows /\ campaign'[t[1][1]].status \in {"running", "waiting_users"}
        /\ run'.hand = {}
        /\ UNCHANGED <<request, overruled>>
    <2>1. \A c \in Campaign : campaign'[c] = Due(c)
      BY DEF StartRun
    <2>2. \A r \in Rows : Claimable(r) => Due(r[1]).status \in {"running", "waiting_users"}
      BY DEF Claimable
    <2>3. \A t \in run'.todo : \E r \in Rows : Claimable(r) /\ t = <<r, row[r].status>>
      BY DEF StartRun, NoRun
    <2> QED BY <1>1, <2>1, <2>2, <2>3 DEF StartRun, NoRun, ghosts
  <1>5. DraftsRest'
    <2> SUFFICES ASSUME NEW c \in Campaign, campaign'[c].status = "draft"
                 PROVE  /\ c \notin run'.seen
                        /\ \A r \in RowsOf(c) : row'[r].status \in {"pending", "excluded"}
                        /\ \A t \in run'.todo \cup run'.hand : t[1][1] # c
      BY DEF DraftsRest, RowsOf
    <2>1. campaign[c].status = "draft"
      BY <1>3
    <2>2. \A r \in RowsOf(c) : row'[r].status \in {"pending", "excluded"}
      BY <1>2, <2>1 DEF Inv, DraftsRest, RowsOf
    <2> QED BY <1>4, <2>2
  <1>6. HandIsHeld' /\ IncludedIsOut'
    BY <1>2, <1>4 DEF Inv, HandIsHeld, IncludedIsOut, TypeOK, CampaignsType, Request
  <1>7. NoNewWork
    BY <1>1, <1>2, <1>3 DEF NoNewWork, AtWork, Active, Settled
  <1> QED BY <1>4, <1>5, <1>6, <1>7, NoNewWorkKeepsLock DEF Inv

LEMMA ClaimKeepsInv == ASSUME TypeOK, TypeOK', Inv, Claim PROVE Inv'
  <1> DEFINE next == CHOOSE t \in run.todo : TRUE
  <1>1. PICK n \in run.todo :
          /\ \/ UNCHANGED row /\ run'.hand = {}
             \/ /\ row[n[1]].status = n[2]
                /\ row' = [row EXCEPT ![n[1]].status = "processing"]
                /\ run'.hand = {n}
          /\ run'.todo = run.todo \ {n} /\ run'.seen = run.seen
          /\ UNCHANGED <<campaign, request, overruled>>
    <2>1. next \in run.todo
      BY DEF Claim
    <2>2. /\ \/ UNCHANGED row /\ run'.hand = {}
             \/ /\ row[next[1]].status = next[2]
                /\ row' = [row EXCEPT ![next[1]].status = "processing"]
                /\ run'.hand = {next}
          /\ run'.todo = run.todo \ {next} /\ run'.seen = run.seen
      BY DEF Claim, TypeOK, CampaignsType, Run
    <2>3. UNCHANGED <<campaign, request, overruled>>
      BY DEF Claim, ghosts
    <2> HIDE DEF next
    <2> QED BY <2>1, <2>2, <2>3
  <1>2. n[1] \in Rows /\ n[2] \in {"pending", "waiting_acceptance"} /\ n[1][1] \in Campaign
    BY DEF TypeOK, CampaignsType, Run, Rows
  <1>3. \A r \in Rows : \/ row'[r].status = row[r].status
                        \/ /\ r = n[1] /\ run'.hand = {n} /\ row'[r].status = "processing"
                           /\ row[r].status \in {"pending", "waiting_acceptance"}
    BY <1>1, <1>2 DEF TypeOK, CampaignsType, Row
  <1>4. run'.hand = {n} => row'[n[1]].status = "processing"
    BY <1>1, <1>2 DEF TypeOK, CampaignsType, Row
  <1>5. DraftsRest'
    BY <1>1, <1>2, <1>3 DEF Inv, DraftsRest, RowsOf
  <1>6. HandIsHeld'
    BY <1>1, <1>4 DEF HandIsHeld
  <1>7. IncludedIsOut'
    BY <1>1, <1>3 DEF Inv, IncludedIsOut, TypeOK, CampaignsType, Request
  <1>8. NoNewWork
    BY <1>1, <1>3 DEF NoNewWork, AtWork, Settled, Waiting
  <1> QED BY <1>1, <1>5, <1>6, <1>7, <1>8, NoNewWorkKeepsLock DEF Inv

\* A row in hand was at work, or overruled, before it is written.
LEMMA WriteRowKeepsInv ==
  ASSUME TypeOK, TypeOK', Inv, NEW t \in run.hand, NEW s, NEW v, WriteRow(t[1], s, v),
         UNCHANGED <<campaign, request, overruled>>
  PROVE  Inv'
  <1>1. t[1] \in Rows /\ t[1][1] \in Campaign
    BY HandHasType
  <1>2. \A r \in Rows : r # t[1] => row'[r] = row[r]
    BY <1>1 DEF WriteRow, TypeOK, CampaignsType, Row
  <1>3. run'.hand = {} /\ run'.todo = run.todo /\ run'.seen = run.seen
    BY DEF WriteRow, TypeOK, CampaignsType, Run
  <1>4. row[t[1]].status = "processing" \/ t[1] \in overruled
    BY DEF Inv, HandIsHeld
  <1>5. campaign[t[1][1]].status # "draft"
    BY <1>1 DEF Inv, DraftsRest
  <1>6. DraftsRest'
    BY <1>2, <1>3, <1>5 DEF Inv, DraftsRest, RowsOf
  <1>7. HandIsHeld'
    BY <1>3 DEF HandIsHeld
  <1>8. IncludedIsOut'
    BY <1>2, <1>4 DEF Inv, IncludedIsOut, TypeOK, CampaignsType, Request
  <1>9. NoNewWork
    BY <1>2, <1>4 DEF NoNewWork, AtWork, Settled
  <1> QED BY <1>6, <1>7, <1>8, <1>9, NoNewWorkKeepsLock DEF Inv

LEMMA ProcessingKeepsInv ==
  ASSUME TypeOK, TypeOK', Inv, CreateAccount \/ Grant PROVE Inv'
  <1>1. UNCHANGED <<campaign, request, overruled>>
    BY DEF CreateAccount, Grant, ghosts
  <1>2. \/ \E t \in run.hand : \E s, v : WriteRow(t[1], s, v)
        \/ UNCHANGED row /\ run' = [run EXCEPT !.step = "grant"]
    <2>1. ASSUME NEW t \in run.hand, GaveUp(t[1], t[2])
          PROVE  \E s, v : WriteRow(t[1], s, v)
      BY <2>1 DEF GaveUp
    <2>2. CASE CreateAccount
      BY <2>1, <2>2 DEF CreateAccount
    <2>3. CASE Grant
      BY <2>1, <2>3 DEF Grant
    <2> QED BY <2>2, <2>3
  <1>3. CASE UNCHANGED row /\ run' = [run EXCEPT !.step = "grant"]
    <2>1. run'.hand = run.hand /\ run'.todo = run.todo /\ run'.seen = run.seen
      BY <1>3 DEF TypeOK, CampaignsType, Run
    <2> QED
      BY <1>1, <1>3, <2>1 DEF Inv, DraftsRest, HandIsHeld, IncludedIsOut, OneCampaignPerUser,
                              CompletedLeavesNobody, AtWork, RowsOf
  <1> QED BY <1>1, <1>2, <1>3, WriteRowKeepsInv

LEMMA EndOfRunKeepsInv ==
  ASSUME TypeOK, TypeOK', Inv, NEW jobs, RefreshCampaigns \/ LookForWork(jobs) \/ SwitchOff
  PROVE  Inv'
  <1>1. CASE RefreshCampaigns
    <2>1. /\ UNCHANGED <<row, request, overruled>>
          /\ run'.hand = run.hand /\ run'.todo = run.todo /\ run'.seen = run.seen
      BY <1>1 DEF RefreshCampaigns, ghosts, TypeOK, CampaignsType, Run
    <2>2. \A c \in Campaign : campaign'[c].status = IF c \in run.seen THEN Refreshed(c, row')
                                                    ELSE campaign[c].status
      <3>1. ASSUME NEW c \in Campaign, NEW s
            PROVE  [campaign[c] EXCEPT !.status = s].status = s
        BY DEF TypeOK, CampaignsType
      <3> QED BY <1>1, <2>1, <3>1 DEF RefreshCampaigns
    <2>3. run.seen \in SUBSET Campaign /\ \A c \in run.seen : campaign[c].status # "draft"
      BY DEF Inv, DraftsRest, TypeOK, CampaignsType, Run
    <2>4. NoNewWork
      BY <2>1, <2>2, <2>3, RefreshKeepsLock
    <2>5. \A c \in run.seen : campaign'[c].status # "draft"
      BY <2>2, <2>3, RefreshedIsStatus
    <2>6. DraftsRest'
      BY <2>1, <2>2, <2>5 DEF Inv, DraftsRest, RowsOf
    <2>7. HandIsHeld' /\ IncludedIsOut'
      BY <2>1 DEF Inv, HandIsHeld, IncludedIsOut
    <2> QED BY <2>1, <2>4, <2>6, <2>7, NoNewWorkKeepsLock DEF Inv
  <1>2. CASE LookForWork(jobs) \/ SwitchOff
    <2>1. UNCHANGED <<campaign, row, request, overruled>>
      BY <1>2 DEF LookForWork, SwitchOff, ghosts
    <2>2. run'.hand \subseteq run.hand /\ run'.todo \subseteq run.todo /\ run'.seen \subseteq run.seen
      BY <1>2 DEF LookForWork, SwitchOff, NoRun, TypeOK, CampaignsType, Run
    <2> QED
      BY <2>1, <2>2 DEF Inv, DraftsRest, HandIsHeld, IncludedIsOut, OneCampaignPerUser,
                        CompletedLeavesNobody, AtWork, RowsOf
  <1> QED BY <1>1, <1>2

LEMMA WorldKeepsInv == ASSUME TypeOK, TypeOK', Inv, World PROVE Inv'
  <1>1. UNCHANGED <<run, request, overruled>>
    BY DEF World, Accept, Play, DateComes, TenMinutesPass, ghosts
  <1>2. \A c \in Campaign : campaign'[c].status = campaign[c].status
    BY DEF World, Accept, Play, DateComes, TenMinutesPass, TypeOK, CampaignsType
  <1>3. \A r \in Rows : row'[r].status = row[r].status /\ r[1] \in Campaign
    BY DEF World, Accept, Play, DateComes, TenMinutesPass, TypeOK, CampaignsType, Row, Rows
  <1>4. DraftsRest'
    BY <1>1, <1>2, <1>3 DEF Inv, DraftsRest, RowsOf
  <1>5. HandIsHeld' /\ IncludedIsOut'
    BY <1>1, <1>3, HandHasType DEF Inv, HandIsHeld, IncludedIsOut, TypeOK, CampaignsType, Request
  <1>6. NoNewWork
    BY <1>2, <1>3 DEF NoNewWork, AtWork
  <1> QED BY <1>1, <1>4, <1>5, <1>6, NoNewWorkKeepsLock DEF Inv

\* The requests on the source, a death and a stutter leave all that is viewed,
\* but for the request and the run they end.
LEMMA OthersKeepInv ==
  ASSUME TypeOK, Inv, UNCHANGED <<campaign, row, overruled>>,
         UNCHANGED run \/ run' = NoRun,
         UNCHANGED request \/ request'.act # "include"
  PROVE  Inv'
  <1>1. run'.hand \subseteq run.hand /\ run'.todo \subseteq run.todo /\ run'.seen \subseteq run.seen
    BY DEF NoRun
  <1> QED
    BY <1>1 DEF Inv, DraftsRest, HandIsHeld, IncludedIsOut, OneCampaignPerUser,
                CompletedLeavesNobody, AtWork, RowsOf

LEMMA StepKeepsInv == TypeOK /\ Inv /\ [Next]_vars => Inv'
  <1> SUFFICES ASSUME TypeOK, Inv, [Next]_vars PROVE Inv'
    OBVIOUS
  <1>0. TypeOK'
    BY StepKeepsType
  <1>1. CASE Administrator
    <2>1. ASSUME NEW r \in Rows, Unlink(r) \/ Restore(r) PROVE Inv'
      BY <2>1, OthersKeepInv DEF Unlink, Restore, ghosts
    <2>2. ASSUME NEW u \in User, Link(u) PROVE Inv'
      BY <2>2, OthersKeepInv DEF Link, ghosts
    <2> QED
      BY <1>0, <1>1, <2>1, <2>2, StartKeepsInv, OtherCampaignRequestsKeepInv, UserRequestsKeepInv
         DEF Administrator
  <1>2. CASE Serve
    <2>1. CASE RecordRemoval
      BY <2>1, OthersKeepInv DEF RecordRemoval, NoRequest, ghosts
    <2> QED BY <1>0, <1>2, <2>1, WriteSetKeepsInv DEF Serve
  <1>3. CASE StartRun /\ UNCHANGED sourceVars
    BY <1>0, <1>3, StartRunKeepsInv
  <1>4. CASE MigrationWorker /\ UNCHANGED sourceVars
    BY <1>0, <1>4, ClaimKeepsInv, ProcessingKeepsInv, EndOfRunKeepsInv DEF MigrationWorker
  <1>5. CASE \E r \in Rows : ReconcileJob(r)
    BY <1>5, OthersKeepInv DEF ReconcileJob, campaignVars
  <1>6. CASE World /\ UNCHANGED sourceVars
    BY <1>0, <1>6, WorldKeepsInv
  <1>7. CASE DieUndone
    BY <1>7, OthersKeepInv DEF DieUndone, Die, NoRequest
  <1>8. CASE UNCHANGED vars
    BY <1>8, OthersKeepInv DEF vars, campaignVars
  <1> QED BY <1>1, <1>2, <1>3, <1>4, <1>5, <1>6, <1>7, <1>8 DEF Next

LEMMA InvHolds == Spec => [](TypeOK /\ Inv)
  <1>1. Init => TypeOK /\ Inv
    BY InitHasType, InitHasInv
  <1>2. (TypeOK /\ Inv) /\ [Next]_vars => (TypeOK /\ Inv)'
    BY StepKeepsType, StepKeepsInv
  <1> QED BY <1>1, <1>2, PTL DEF Spec

(***************************************************************************)
(* The destination is locked: no two campaigns are at work on one user but  *)
(* for rows written by set_user_excluded without a look.                    *)
(***************************************************************************)
THEOREM LockHolds == Spec => []OneCampaignPerUser
  <1>1. Inv => OneCampaignPerUser
    BY DEF Inv
  <1> QED BY <1>1, InvHolds, PTL

(***************************************************************************)
(* A completed campaign has no user left to migrate, whoever wrote its      *)
(* status last, but for such rows.                                          *)
(***************************************************************************)
THEOREM CompletionIsComplete == Spec => []CompletedLeavesNobody
  <1>1. Inv => CompletedLeavesNobody
    BY DEF Inv
  <1> QED BY <1>1, InvHolds, PTL

----------------------------------------------------------------------------
(***************************************************************************)
(* The removal of access.  A death between the deletion of the links and    *)
(* the record of the removal leaves a row that must still be Removable:     *)
(* nobody may take a completed row back.                                    *)
(***************************************************************************)
HandIsOpen == \A t \in run.hand : row[t[1]].status \in {"processing", "pending", "failed", "excluded"}

\* The row is completed, and no request is about to write it.
Done(r) == /\ row[r].status = "completed" /\ row[r].validated
           /\ ~(request.act \in {"exclude", "include"} /\ r \in request.on)

SnapshotsKeep ==
    /\ \A r \in Rows : drafted[r[2]] \subseteq snapshot[r]
    /\ request.act = "remove" => \A r \in request.on : drafted[r[2]] \subseteq kept

RemovalIsKnown ==
    \A u \in User :
        \/ drafted[u] \subseteq links[u]
        \/ \E r \in Rows : r[2] = u /\ (removal[r] # "none" \/ (r[1] \in Moving /\ Done(r)))

SourceInv == HandIsOpen /\ SnapshotsKeep /\ RemovalIsKnown

LEMMA InitHasSourceInv == Init => SourceInv
  BY DEF Init, CampaignsInit, NoRun, NoRequest, SourceInv, HandIsOpen, SnapshotsKeep, RemovalIsKnown

LEMMA SourceInvImplies == TypeOK /\ SourceInv => RemovalCanBeUndone
  <1> SUFFICES ASSUME TypeOK, SourceInv, NEW u \in User,
                      ~(drafted[u] \subseteq links[u])
               PROVE  \E r \in Rows : /\ r[2] = u /\ drafted[u] \subseteq snapshot[r]
                                      /\ (Undoable(r) \/ Removable(r))
    BY DEF RemovalCanBeUndone
  <1>1. PICK r \in Rows : r[2] = u /\ (removal[r] # "none" \/ (r[1] \in Moving /\ Done(r)))
    BY DEF SourceInv, RemovalIsKnown
  <1>2. drafted[u] \subseteq snapshot[r] /\ snapshot[r] # {}
    BY <1>1 DEF SourceInv, SnapshotsKeep
  <1> QED BY <1>1, <1>2 DEF Undoable, Removable, Done

\* A row that is done stays so, and no removal begins.
RowsStay ==
    /\ \A r \in Rows : Done(r) => Done(r)'
    /\ request'.act = "remove" => UNCHANGED request

LEMMA RowsStayKeepsSourceInv ==
  ASSUME TypeOK, SourceInv, UNCHANGED sourceVars, RowsStay, HandIsOpen'
  PROVE  SourceInv'
  <1>1. SnapshotsKeep'
    BY DEF SourceInv, SnapshotsKeep, RowsStay, sourceVars
  <1>2. RemovalIsKnown'
    BY DEF SourceInv, RemovalIsKnown, RowsStay, sourceVars
  <1> QED BY <1>1, <1>2 DEF SourceInv

LEMMA AdministratorKeepsSourceInv ==
  ASSUME TypeOK, SourceInv, UNCHANGED sourceVars,
         \/ \E c \in Campaign : Start(c) \/ Pause(c) \/ Resume(c) \/ RetryFailed(c) \/ CheckInvitations(c)
         \/ \E r \in Rows : ReadToSet(r) \/ Validate(r)
  PROVE  SourceInv'
  <1>1. UNCHANGED run /\ (UNCHANGED request \/ \E r \in Rows : ReadToSet(r))
    <2>1. ASSUME NEW c \in Campaign,
                 Start(c) \/ Pause(c) \/ Resume(c) \/ RetryFailed(c) \/ CheckInvitations(c)
          PROVE  UNCHANGED <<run, request>>
      BY <2>1 DEF Start, Pause, Resume, RetryFailed, CheckInvitations
    <2>2. ASSUME NEW r \in Rows, Validate(r) PROVE UNCHANGED <<run, request>>
      BY <2>2 DEF Validate
    <2>3. ASSUME NEW r \in Rows, ReadToSet(r) PROVE UNCHANGED run
      BY <2>3 DEF ReadToSet
    <2> QED BY <2>1, <2>2, <2>3
  <1>2. \A r \in Rows :
          \/ row'[r].status = row[r].status /\ row'[r].validated = row[r].validated
          \/ row[r].status = "failed" /\ row'[r].status = "pending"
          \/ row[r].status = "waiting_validation"
    <2>1. ASSUME NEW c \in Campaign, Start(c) \/ Pause(c) \/ Resume(c) PROVE UNCHANGED row
      BY <2>1 DEF Start, Pause, Resume
    <2>2. ASSUME NEW c \in Campaign, RetryFailed(c), NEW r \in Rows
          PROVE  \/ row'[r] = row[r]
                 \/ row[r].status = "failed" /\ row'[r] = [row[r] EXCEPT !.status = "pending"]
      BY <2>2 DEF RetryFailed
    <2>3. ASSUME NEW c \in Campaign, CheckInvitations(c), NEW r \in Rows
          PROVE  \/ row'[r] = row[r]
                 \/ row'[r] = [row[r] EXCEPT !.rested = TRUE]
      BY <2>3 DEF CheckInvitations
    <2>4. ASSUME NEW q \in Rows, Validate(q), NEW r \in Rows
          PROVE  row'[r] = row[r] \/ row[r].status = "waiting_validation"
      BY <2>4 DEF Validate, TypeOK, CampaignsType
    <2>5. ASSUME NEW q \in Rows, ReadToSet(q) PROVE UNCHANGED row
      BY <2>5 DEF ReadToSet
    <2>6. \A r \in Rows : row[r] \in Row
      BY DEF TypeOK, CampaignsType
    <2> SUFFICES ASSUME NEW r \in Rows
                 PROVE  \/ row'[r].status = row[r].status /\ row'[r].validated = row[r].validated
                        \/ row[r].status = "failed" /\ row'[r].status = "pending"
                        \/ row[r].status = "waiting_validation"
      OBVIOUS
    <2>7. \/ row'[r] = row[r]
          \/ row[r].status = "failed" /\ row'[r] = [row[r] EXCEPT !.status = "pending"]
          \/ row'[r] = [row[r] EXCEPT !.rested = TRUE]
          \/ row[r].status = "waiting_validation"
      BY <2>1, <2>2, <2>3, <2>4, <2>5
    <2> QED BY <2>6, <2>7 DEF Row
  <1>3. HandIsOpen'
    BY <1>1, <1>2, HandHasType DEF SourceInv, HandIsOpen
  <1>4. \A r \in Rows : Done(r) => Done(r)'
    <2> SUFFICES ASSUME NEW r \in Rows, Done(r) PROVE Done(r)'
      OBVIOUS
    <2>1. row'[r].status = "completed" /\ row'[r].validated
      BY <1>2 DEF Done
    <2>2. ~(request'.act \in {"exclude", "include"} /\ r \in request'.on)
      <3>1. CASE UNCHANGED request
        BY <3>1 DEF Done
      <3>2. ASSUME NEW q \in Rows, ReadToSet(q) PROVE q # r /\ request'.on = {q}
        BY <3>2 DEF ReadToSet, Done
      <3> QED BY <1>1, <3>1, <3>2
    <2> QED BY <2>1, <2>2 DEF Done
  <1>5. request'.act = "remove" => UNCHANGED request
    BY <1>1 DEF ReadToSet
  <1> QED BY <1>3, <1>4, <1>5, RowsStayKeepsSourceInv DEF RowsStay

LEMMA WriteSetKeepsSourceInv ==
  ASSUME TypeOK, SourceInv, WriteSet, UNCHANGED sourceVars PROVE SourceInv'
  <1>1. PICK r \in request.on :
          /\ request.act \in {"exclude", "include"}
          /\ \A q \in Rows : q # r => row'[q] = row[q]
          /\ r \in Rows => row'[r].status \in {"excluded", "pending"}
          /\ UNCHANGED run /\ request' = NoRequest
    BY DEF WriteSet, TypeOK, CampaignsType, Row
  <1>2. HandIsOpen'
    BY <1>1, HandHasType DEF SourceInv, HandIsOpen
  <1>3. \A q \in Rows : Done(q) => Done(q)'
    BY <1>1 DEF Done, NoRequest
  <1> QED BY <1>1, <1>2, <1>3, RowsStayKeepsSourceInv DEF RowsStay, NoRequest

LEMMA RunKeepsSourceInv ==
  ASSUME TypeOK, SourceInv, StartRun \/ MigrationWorker \/ World, UNCHANGED sourceVars
  PROVE  SourceInv'
  <1>1. UNCHANGED request
    BY DEF StartRun, MigrationWorker, Claim, CreateAccount, Grant, RefreshCampaigns, LookForWork,
           SwitchOff, World, Accept, Play, DateComes, TenMinutesPass
  <1> SUFFICES HandIsOpen' /\ \A r \in Rows : row[r].status = "completed" /\ row[r].validated
                                 => row'[r].status = "completed" /\ row'[r].validated
    BY <1>1, RowsStayKeepsSourceInv DEF RowsStay, Done
  <1>2. CASE StartRun
    <2>1. \A r \in Rows : row'[r] = Reconciled(r)
      BY <1>2 DEF StartRun
    <2>2. run'.hand = {}
      BY <1>2 DEF StartRun, NoRun
    <2> QED BY <2>1, <2>2 DEF HandIsOpen, Reconciled
  <1>3. CASE Claim
    <2> DEFINE next == CHOOSE t \in run.todo : TRUE
    <2>1. next \in Rows \X {"pending", "waiting_acceptance"}
      BY <1>3 DEF Claim, TypeOK, CampaignsType, Run
    <2>2. \/ UNCHANGED row /\ run'.hand = {}
          \/ /\ row[next[1]].status = next[2]
             /\ row' = [row EXCEPT ![next[1]].status = "processing"]
             /\ run'.hand = {next}
      BY <1>3 DEF Claim, TypeOK, CampaignsType, Run
    <2> HIDE DEF next
    <2>3. \A t \in run'.hand : t[1] = next[1] /\ row'[next[1]].status = "processing"
      BY <2>1, <2>2 DEF TypeOK, CampaignsType, Row
    <2>4. \A r \in Rows : r # next[1] \/ row[r].status \in {"pending", "waiting_acceptance"}
                            \/ row'[r] = row[r]
      BY <2>1, <2>2 DEF TypeOK, CampaignsType
    <2>5. \A r \in Rows : row[r].status = "completed" => row'[r] = row[r]
      BY <2>1, <2>2, <2>4 DEF TypeOK, CampaignsType
    <2> QED BY <2>3, <2>5 DEF HandIsOpen
  <1>4. ASSUME NEW t \in run.hand, NEW s, NEW v, WriteRow(t[1], s, v)
        PROVE  HandIsOpen' /\ \A r \in Rows : row[r].status = "completed" /\ row[r].validated
                                 => row'[r].status = "completed" /\ row'[r].validated
    <2>1. run'.hand = {} /\ \A r \in Rows : r # t[1] => row'[r] = row[r]
      BY <1>4, HandHasType DEF WriteRow, TypeOK, CampaignsType, Row, Run
    <2>2. row[t[1]].status # "completed"
      BY DEF SourceInv, HandIsOpen
    <2> QED BY <2>1, <2>2 DEF HandIsOpen
  <1>5. CASE CreateAccount \/ Grant
    <2>1. \/ \E t \in run.hand : \E s, v : WriteRow(t[1], s, v)
          \/ UNCHANGED row /\ run' = [run EXCEPT !.step = "grant"]
      <3>1. ASSUME NEW t \in run.hand, GaveUp(t[1], t[2])
            PROVE  \E s, v : WriteRow(t[1], s, v)
        BY <3>1 DEF GaveUp
      <3>2. CASE CreateAccount
        BY <3>1, <3>2 DEF CreateAccount
      <3>3. CASE Grant
        BY <3>1, <3>3 DEF Grant
      <3> QED BY <1>5, <3>2, <3>3
    <2>2. CASE UNCHANGED row /\ run' = [run EXCEPT !.step = "grant"]
      BY <2>2 DEF SourceInv, HandIsOpen, TypeOK, CampaignsType, Run
    <2> QED BY <1>4, <2>1, <2>2
  <1>6. CASE RefreshCampaigns \/ SwitchOff \/ \E jobs \in BOOLEAN : LookForWork(jobs)
    <2>1. UNCHANGED row /\ run'.hand \subseteq run.hand
      BY <1>6 DEF RefreshCampaigns, SwitchOff, LookForWork, NoRun, TypeOK, CampaignsType, Run
    <2> QED BY <2>1 DEF SourceInv, HandIsOpen
  <1>7. CASE World
    <2>1. /\ UNCHANGED run
          /\ \A r \in Rows : row'[r].status = row[r].status /\ row'[r].validated = row[r].validated
      BY <1>7 DEF World, Accept, Play, DateComes, TenMinutesPass, TypeOK, CampaignsType, Row
    <2> QED BY <2>1, HandHasType DEF SourceInv, HandIsOpen
  <1> QED BY <1>2, <1>3, <1>5, <1>6, <1>7 DEF MigrationWorker

LEMMA SourceStepsKeepSourceInv ==
  ASSUME TypeOK, SourceInv,
         \/ \E r \in Rows : Unlink(r) \/ Restore(r) \/ ReconcileJob(r)
         \/ \E u \in User : Link(u)
         \/ RecordRemoval \/ DieUndone \/ UNCHANGED vars
  PROVE  SourceInv'
  <1>0. \A r \in Rows : r[2] \in User
    BY DEF Rows
  <1>1. UNCHANGED row /\ run'.hand \subseteq run.hand /\ UNCHANGED drafted
    BY DEF Unlink, Restore, ReconcileJob, Link, RecordRemoval, DieUndone, Die, vars, campaignVars,
           sourceVars, NoRun
  <1>2. HandIsOpen'
    BY <1>1 DEF SourceInv, HandIsOpen
  <1>3. ASSUME NEW r \in Rows, Unlink(r) PROVE SnapshotsKeep' /\ RemovalIsKnown'
    <2>1. drafted[r[2]] \subseteq Kept(r)
      BY DEF Kept, SourceInv, SnapshotsKeep
    <2>2. request' = [act |-> "remove", on |-> {r}] /\ kept' = Kept(r)
          /\ UNCHANGED <<snapshot, removal, drafted>>
      BY <1>3 DEF Unlink
    <2>3. SnapshotsKeep'
      BY <2>1, <2>2 DEF SourceInv, SnapshotsKeep
    <2>4. \A u \in User : u # r[2] => links'[u] = links[u]
      BY <1>0, <1>3 DEF Unlink, TypeOK
    <2>5. request.act = "none"
      BY <1>3 DEF Unlink, Asks
    <2>6. \A q \in Rows : Done(q) => Done(q)'
      BY <1>1, <2>2 DEF Done
    <2>7. Done(r)' /\ r[1] \in Moving
      BY <1>1, <1>3, <2>2 DEF Unlink, Removable, Done
    <2>8. ASSUME NEW u \in User
          PROVE  \/ drafted'[u] \subseteq links'[u]
                 \/ \E q \in Rows : q[2] = u /\ (removal'[q] # "none" \/ (q[1] \in Moving /\ Done(q)'))
      <3>1. CASE u = r[2]
        BY <2>7, <3>1
      <3>2. CASE u # r[2]
        BY <2>2, <2>4, <2>6, <3>2 DEF SourceInv, RemovalIsKnown
      <3> QED BY <3>1, <3>2
    <2>9. RemovalIsKnown'
      BY <2>8 DEF RemovalIsKnown
    <2> QED BY <2>3, <2>9
  <1>4. ASSUME NEW r \in Rows, Restore(r) PROVE SnapshotsKeep' /\ RemovalIsKnown'
    <2>1. /\ UNCHANGED <<snapshot, kept, request>>
          /\ links' = [links EXCEPT ![r[2]] = @ \cup snapshot[r]]
          /\ \A q \in Rows : removal[q] # "none" => removal'[q] # "none"
      BY <1>4 DEF Restore, TypeOK
    <2>2. \A u \in User : links[u] \subseteq links'[u]
      BY <1>0, <2>1 DEF TypeOK
    <2> QED BY <1>1, <2>1, <2>2 DEF SourceInv, SnapshotsKeep, RemovalIsKnown, Done
  <1>5. ASSUME NEW r \in Rows, ReconcileJob(r) PROVE SnapshotsKeep' /\ RemovalIsKnown'
    <2>1. /\ UNCHANGED <<snapshot, kept, request, links>>
          /\ \A q \in Rows : removal[q] # "none" => removal'[q] # "none"
      BY <1>5 DEF ReconcileJob, TypeOK, campaignVars
    <2> QED BY <1>1, <2>1 DEF SourceInv, SnapshotsKeep, RemovalIsKnown, Done
  <1>6. ASSUME NEW u \in User, Link(u) PROVE SnapshotsKeep' /\ RemovalIsKnown'
    <2>1. /\ UNCHANGED <<snapshot, kept, request, removal>>
          /\ \A w \in User : links[w] \subseteq links'[w]
      BY <1>6 DEF Link, TypeOK
    <2> QED BY <1>1, <2>1 DEF SourceInv, SnapshotsKeep, RemovalIsKnown, Done
  <1>7. CASE RecordRemoval
    <2>1. PICK r \in request.on :
            /\ snapshot' = [snapshot EXCEPT ![r] = kept]
            /\ removal' = [removal EXCEPT ![r] = "queued"]
            /\ request.act = "remove"
      BY <1>7 DEF RecordRemoval
    <2>2. request' = NoRequest /\ UNCHANGED links /\ r \in Rows
      BY <1>7, <2>1 DEF RecordRemoval, TypeOK, CampaignsType, Request
    <2>3. \A q \in Rows : drafted[q[2]] \subseteq snapshot'[q]
      BY <2>1, <2>2 DEF SourceInv, SnapshotsKeep, TypeOK
    <2>4. SnapshotsKeep'
      BY <1>1, <2>2, <2>3 DEF SnapshotsKeep, NoRequest
    <2>5. \A q \in Rows : removal[q] # "none" => removal'[q] # "none"
      BY <2>1, <2>2 DEF TypeOK
    <2>6. \A q \in Rows : Done(q) => Done(q)'
      BY <1>1, <2>2 DEF Done, NoRequest
    <2>7. RemovalIsKnown'
      BY <1>1, <2>2, <2>5, <2>6 DEF SourceInv, RemovalIsKnown
    <2> QED BY <1>2, <2>4, <2>7 DEF SourceInv
  <1>8. CASE DieUndone
    <2>1. request' = NoRequest /\ UNCHANGED <<snapshot, removal, links>>
      BY <1>8 DEF DieUndone, Die
    <2>2. \A q \in Rows : Done(q) => Done(q)'
      BY <1>1, <2>1 DEF Done, NoRequest
    <2>3. SnapshotsKeep'
      BY <1>1, <2>1 DEF SourceInv, SnapshotsKeep, NoRequest
    <2>4. RemovalIsKnown'
      BY <1>1, <2>1, <2>2 DEF SourceInv, RemovalIsKnown
    <2> QED BY <1>2, <2>3, <2>4 DEF SourceInv
  <1>9. CASE UNCHANGED vars
    <2>1. UNCHANGED <<row, request, snapshot, removal, links, kept, drafted>>
      BY <1>9 DEF vars, campaignVars, sourceVars
    <2>2. \A q \in Rows : Done(q) => Done(q)'
      BY <2>1 DEF Done
    <2>3. SnapshotsKeep'
      BY <2>1 DEF SourceInv, SnapshotsKeep
    <2>4. RemovalIsKnown'
      BY <2>1, <2>2 DEF SourceInv, RemovalIsKnown
    <2> QED BY <1>2, <2>3, <2>4 DEF SourceInv
  <1> QED BY <1>2, <1>3, <1>4, <1>5, <1>6, <1>7, <1>8, <1>9 DEF SourceInv

LEMMA StepKeepsSourceInv == TypeOK /\ SourceInv /\ [Next]_vars => SourceInv'
  <1> SUFFICES ASSUME TypeOK, SourceInv, [Next]_vars PROVE SourceInv'
    OBVIOUS
  <1>1. CASE Administrator
    BY <1>1, AdministratorKeepsSourceInv, SourceStepsKeepSourceInv DEF Administrator
  <1>2. CASE Serve
    BY <1>2, WriteSetKeepsSourceInv, SourceStepsKeepSourceInv DEF Serve
  <1>3. CASE (StartRun \/ MigrationWorker \/ World) /\ UNCHANGED sourceVars
    BY <1>3, RunKeepsSourceInv
  <1>4. CASE (\E r \in Rows : ReconcileJob(r)) \/ DieUndone \/ UNCHANGED vars
    BY <1>4, SourceStepsKeepSourceInv
  <1> QED BY <1>1, <1>2, <1>3, <1>4 DEF Next

(***************************************************************************)
(* No request, answer of the provider or death loses what a user could see  *)
(* on the source: a campaign can still give it back or take it once more.   *)
(***************************************************************************)
THEOREM RemovalIsReversible == Spec => []RemovalCanBeUndone
  <1>1. Init => TypeOK /\ SourceInv
    BY InitHasType, InitHasSourceInv
  <1>2. (TypeOK /\ SourceInv) /\ [Next]_vars => (TypeOK /\ SourceInv)'
    BY StepKeepsType, StepKeepsSourceInv
  <1>3. TypeOK /\ SourceInv => RemovalCanBeUndone
    BY SourceInvImplies
  <1> QED BY <1>1, <1>2, <1>3, PTL DEF Spec
====
