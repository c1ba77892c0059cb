---- MODULE ReferralProofs ----
(***************************************************************************)
(* Theorems about Referrals, for every set of users, every length of the    *)
(* waits and rewards, and any number of requests, failures and deaths.      *)
(***************************************************************************)
EXTENDS Referrals, TLAPS

\* The referrals the run has in hand, each read while it could be paid.
InHand == job.todo \cup ({job.cur} \ {None})

Records(u) == job.at = "record" /\ job.cur = u

JobInv ==
    /\ job.at \in {"rest", "archiveRewarded", "archiveExpired"} => job.todo = {}
    /\ IF job.at \in {"pay", "record"} THEN job.cur \in Referred \ job.todo ELSE job.cur = None
    /\ \A u \in InHand : /\ job.seen[u].status = "pending" /\ job.seen[u].by \in User
                         /\ job.seen[u].due \div 2 <= Today
                         /\ referral[u].by \in User

PageInv ==
    /\ page.at # "rest" => page.user \in User
    /\ page.row.by # None => page.user \in Referred

\* What the dates of a row say about its status.
RowFits(r, m) ==
    /\ r.status \in Archivable \cup {"archived"} => r.by \in User
    /\ r.status \in {"pending", "expired"} => r.granted = Never
    /\ r.status = "rewarded" => r.granted # Never
    /\ \/ "revived" \in m
       \/ /\ r.status = "pending" => r.expired = Never
          /\ r.status = "expired" => r.expired # Never
          /\ r.status = "archived" => Restored(r) = r.was

RowInv == \A u \in Referred : RowFits(referral[u], marks[u])

\* What was paid can be seen from the row, or is about to be written there.
PaidInv == \A u \in Referred :
    \/ marks[u] \cap {"torn", "crossed", "rearmed"} # {}
    \/ /\ paid[u] <= 1
       /\ u \in job.todo \/ (job.at = "pay" /\ job.cur = u) => paid[u] = 0
       /\ \/ paid[u] = 0
          \/ Records(u)
          \/ referral[u].granted # Never /\ referral[u].status \in {"rewarded", "archived", "cancelled"}

\* A referral that has begun again since it was read falls due on a later day.
RecordInv == \A u \in Referred :
    Records(u) => \/ marks[u] \cap {"torn", "crossed"} # {}
                  \/ paidTo[u] = job.seen[u].by
                  \/ referral[u].due # job.seen[u].due

\* Whoever holds a reading of a date that nobody has overtaken holds the date.
DateInv == \A u \in User \ raced :
    /\ date[u] = fair[u]
    /\ job.at = "pay" /\ job.seen[job.cur].by = u => job.base = date[u]
    /\ page.at # "rest" /\ page.user = u => page.shown = date[u]
    /\ page.at \in {"read", "date"} /\ page.user = u => page.read = date[u]
    /\ u \in gift.todo => gift.seen[u] = date[u]

\* A referral that waits past its day has been looked at, or will be.
ChanceInv == \A u \in Referred :
    referral[u].status = "pending" /\ Due(u) => u \in heard \cup InHand \/ "rewards" \in duty

IInv == /\ TypeOK /\ JobInv /\ PageInv /\ RowInv /\ PaidInv
        /\ RecordInv /\ RewardsAreOnRecord /\ DateInv /\ ChanceInv

----------------------------------------------------------------------------
(* The values that stand for nothing in hand are of the types.              *)
LEMMA Nothings == /\ NoReferral \in Row /\ Idle \in Run /\ NoForm \in Form
                  /\ NoGift \in [todo : SUBSET User, seen : [User -> Nat]]
  BY DEF NoReferral, Idle, NoForm, NoGift, Row, Run, Form, None, Never

(***************************************************************************)
(* Who writes what: everybody else leaves it alone.                         *)
(***************************************************************************)
RunStep ==
    \/ \E u \in Referred : SkipReferral(u) \/ ReadReferrer(u)
    \/ PayReferrer \/ RecordReward \/ EndRewards \/ ArchiveRewarded \/ ArchiveExpired \/ FailRun

RowStep ==
    \/ RecordReward \/ ExpirePending \/ ArchiveRewarded \/ ArchiveExpired
    \/ CancelReferral \/ ChangeReferrer
    \/ \E S \in SUBSET Referred : ArchiveReferrals(S) \/ RestoreReferrals(S)

DateStep == PayReferrer \/ SaveDate \/ \E u \in User : GiveDays(u)

PageStep ==
    \/ \E u \in User : ShowForm(u)
    \/ ReadUser \/ RefuseReferrer \/ KeepReferrer \/ CancelReferral \/ ChangeReferrer \/ SaveDate

EachWrites ==
    /\ UNCHANGED now \/ Tick
    /\ UNCHANGED duty \/ StartRewards \/ ExpirePending \/ (\E t \in Task : RunNow(t)) \/ Tick \/ Death
    /\ UNCHANGED job \/ StartRewards \/ ExpirePending \/ RunStep \/ Death
    /\ UNCHANGED referral \/ RowStep
    /\ UNCHANGED <<date, fair, raced>> \/ DateStep
    /\ UNCHANGED page \/ PageStep \/ Death
    /\ UNCHANGED gift \/ (\E S \in SUBSET User : AskGift(S)) \/ (\E u \in User : GiveDays(u)) \/ Death
    /\ UNCHANGED paid \/ PayReferrer
    /\ UNCHANGED paidTo \/ PayReferrer \/ ChangeReferrer
    /\ \/ UNCHANGED heard \/ StartRewards \/ (\E u \in Referred : SkipReferral(u))
       \/ ChangeReferrer \/ (\E S \in SUBSET Referred : RestoreReferrals(S)) \/ FailRun \/ Death
    /\ UNCHANGED marks \/ RecordReward \/ CancelReferral \/ ChangeReferrer \/ FailRun \/ Death

LEMMA Writers == [Next]_vars => EachWrites
<1> SUFFICES ASSUME [Next]_vars PROVE EachWrites
  OBVIOUS
<1> USE DEF tables, ghosts, actors, RunStep, RowStep, DateStep, PageStep
<1>1. CASE StartRewards
  BY <1>1 DEF StartRewards, EachWrites
<1>2. CASE PayReferrer
  BY <1>2 DEF PayReferrer, EachWrites
<1>3. CASE RecordReward
  BY <1>3 DEF RecordReward, EachWrites
<1>4. CASE EndRewards
  BY <1>4 DEF EndRewards, EachWrites
<1>5. ASSUME NEW u \in Referred, SkipReferral(u) PROVE EachWrites
  BY <1>5 DEF SkipReferral, EachWrites
<1>6. ASSUME NEW u \in Referred, ReadReferrer(u) PROVE EachWrites
  BY <1>6 DEF ReadReferrer, EachWrites
<1>7. CASE ExpirePending
  BY <1>7 DEF ExpirePending, EachWrites
<1>8. CASE ArchiveRewarded
  BY <1>8 DEF ArchiveRewarded, EachWrites
<1>9. CASE ArchiveExpired
  BY <1>9 DEF ArchiveExpired, EachWrites
<1>10. ASSUME NEW u \in User, ShowForm(u) PROVE EachWrites
  BY <1>10 DEF ShowForm, EachWrites
<1>11. CASE ReadUser
  BY <1>11 DEF ReadUser, EachWrites
<1>12. CASE RefuseReferrer
  BY <1>12 DEF RefuseReferrer, EachWrites
<1>13. CASE KeepReferrer
  BY <1>13 DEF KeepReferrer, EachWrites
<1>14. CASE CancelReferral
  BY <1>14 DEF CancelReferral, EachWrites
<1>15. CASE ChangeReferrer
  BY <1>15 DEF ChangeReferrer, EachWrites
<1>16. CASE SaveDate
  BY <1>16 DEF SaveDate, EachWrites
<1>17. ASSUME NEW S \in SUBSET User, AskGift(S) PROVE EachWrites
  BY <1>17 DEF AskGift, EachWrites
<1>18. ASSUME NEW u \in User, GiveDays(u) PROVE EachWrites
  BY <1>18 DEF GiveDays, EachWrites
<1>19. ASSUME NEW S \in SUBSET Referred, ArchiveReferrals(S) PROVE EachWrites
  BY <1>19 DEF ArchiveReferrals, EachWrites
<1>20. ASSUME NEW S \in SUBSET Referred, RestoreReferrals(S) PROVE EachWrites
  BY <1>20 DEF RestoreReferrals, EachWrites
<1>21. CASE SaveSettings
  BY <1>21 DEF SaveSettings, EachWrites
<1>22. ASSUME NEW t \in Task, RunNow(t) PROVE EachWrites
  BY <1>22 DEF RunNow, EachWrites
<1>23. CASE UpdateStatus
  BY <1>23 DEF UpdateStatus, EachWrites
<1>24. CASE Tick
  BY <1>24 DEF Tick, EachWrites
<1>25. CASE FailRun
  BY <1>25 DEF FailRun, EachWrites
<1>26. CASE Death
  BY <1>26 DEF Death, EachWrites
<1>27. CASE UNCHANGED vars
  BY <1>27 DEF vars, EachWrites
<1> QED
  BY <1>1, <1>2, <1>3, <1>4, <1>5, <1>6, <1>7, <1>8, <1>9, <1>10, <1>11, <1>12, <1>13, <1>14, <1>15, <1>16, <1>17, <1>18, <1>19, <1>20, <1>21, <1>22, <1>23, <1>24, <1>25, <1>26, <1>27
     DEF Next, Rewards, Cleanup, SaveUser, Gifts, ReferralPage, Active

(* What the statements write is a row.                                      *)
LEMMA RowUpdates ==
    ASSUME now \in Nat, NEW r \in Row
    PROVE  /\ Rewarded(r) \in Row /\ Expired(r) \in Row /\ Cancelled(r) \in Row /\ Recovered(r) \in Row
           /\ r.status \in Archivable => PutAway(r) \in Row
           /\ \A by \in User : Begun(r, by) \in Row
<1>1. Rewarded(r) \in Row /\ Expired(r) \in Row /\ Cancelled(r) \in Row
  BY DEF Row, Rewarded, Expired, Cancelled
<1>2. Restored(r) \in {"pending", "rewarded", "expired"}
  BY DEF Restored
<1>3. Recovered(r) \in Row
  BY <1>2 DEF Row, Recovered
<1>4. r.status \in Archivable => PutAway(r) \in Row
  BY DEF Row, PutAway, Archivable
<1>5. \A by \in User : Begun(r, by) \in Row
  <2>1. now + 2 * Qualify \in Nat
    BY WaitsType
  <2> QED
    BY <2>1 DEF Row, Begun
<1> QED
  BY <1>1, <1>3, <1>4, <1>5

(* Every step keeps the types.                                              *)
LEMMA NextType == TypeOK /\ JobInv /\ PageInv /\ [Next]_vars => TypeOK'
<1> SUFFICES ASSUME TypeOK, JobInv, PageInv, [Next]_vars PROVE TypeOK'
  OBVIOUS
<1> USE DaysType, WaitsType, DatesType, Nothings, RowUpdates DEF tables, ghosts, actors
<1>1. CASE StartRewards
  <2>1. \A T \in SUBSET Referred, E \in SUBSET User :
           [Idle EXCEPT !.at = "row", !.todo = T, !.eligible = E, !.seen = referral, !.dates = date] \in Run
    BY <1>1 DEF StartRewards, TypeOK, Run, Idle
  <2>2. [Idle EXCEPT !.at = "row", !.todo = {u \in Referred : Payable(u) /\ Due(u)},
                     !.eligible = {u \in User : status[u] = "active"},
                     !.seen = referral, !.dates = date] \in Run
    BY <2>1
  <2>4. job' \in Run
    BY <1>1, <2>2 DEF StartRewards, TypeOK
  <2>3. heard' \subseteq Referred
    BY <1>1 DEF StartRewards, TypeOK
  <2> QED
    BY <1>1, <2>3, <2>4 DEF StartRewards, TypeOK
<1>2. CASE PayReferrer
  <2>1. job.cur \in Referred /\ job.base \in Nat
    BY <1>2 DEF PayReferrer, TypeOK, JobInv, Run
  <2>2. job.seen[job.cur].by \in User
    BY <1>2, <2>1, ReferredType, NoneIsNobody DEF PayReferrer, JobInv, InHand
  <2>3. job' \in Run
    BY <1>2 DEF PayReferrer, TypeOK, Run
  <2>4. Today \in Nat
    BY <1>2 DEF PayReferrer, TypeOK, Today
  <2>5. \A x \in Nat : Later(x, Today) + Reward \in Nat
    BY <2>4 DEF Later
  <2>6. date' \in [User -> Nat]
    BY <1>2, <2>1, <2>2, <2>5 DEF PayReferrer, TypeOK, update_user_expiration
  <2>7. fair' \in [User -> Nat]
    BY <1>2, <2>2, <2>5 DEF PayReferrer, TypeOK, update_user_expiration
  <2>8. status' \in [User -> {"active", "expired"}]
    BY <1>2 DEF PayReferrer, TypeOK, update_user_expiration, Status
  <2>9. paid' \in [Referred -> Nat]
    BY <1>2, <2>1 DEF PayReferrer, TypeOK
  <2>10. paidTo' \in [Referred -> User \cup {None}]
    <3>1. paidTo' = [paidTo EXCEPT ![job.cur] = job.seen[job.cur].by]
      BY <1>2 DEF PayReferrer
    <3> QED
      BY <2>1, <2>2, <3>1 DEF TypeOK
  <2>11. raced' \subseteq User
    BY <1>2, <2>2 DEF PayReferrer, TypeOK, update_user_expiration
  <2> QED
    BY <1>2, <2>3, <2>6, <2>7, <2>8, <2>9, <2>10, <2>11 DEF PayReferrer, TypeOK
<1>3. CASE RecordReward
  <2>1. job' \in Run
    BY <1>3 DEF RecordReward, TypeOK, Run
  <2>2. referral' \in [Referred -> Row]
    BY <1>3 DEF RecordReward, TypeOK, Change
  <2>3. marks' \in [Referred -> SUBSET {"torn", "rearmed", "crossed", "revived"}]
    BY <1>3 DEF RecordReward, TypeOK, Mark
  <2> QED
    BY <1>3, <2>1, <2>2, <2>3 DEF RecordReward, TypeOK
<1>4. CASE EndRewards
  BY <1>4 DEF EndRewards, TypeOK
<1>5. ASSUME NEW u \in Referred, SkipReferral(u) PROVE TypeOK'
  <2>1. job' \in Run
    BY <1>5 DEF SkipReferral, TypeOK, Run
  <2> QED
    BY <1>5, <2>1 DEF SkipReferral, TypeOK
<1>6. ASSUME NEW u \in Referred, ReadReferrer(u) PROVE TypeOK'
  <2>1. job.seen[u].by \in User
    BY <1>6 DEF ReadReferrer, TypeOK, JobInv, InHand, IsNext, None
  <2>2. job' \in Run
    BY <1>6, <2>1 DEF ReadReferrer, TypeOK, Run, Base, IsNext
  <2> QED
    BY <1>6, <2>1, <2>2 DEF ReadReferrer, TypeOK
<1>7. CASE ExpirePending
  <2>1. job' \in Run
    BY <1>7 DEF ExpirePending, TypeOK, Run
  <2>2. referral' \in [Referred -> Row]
    BY <1>7 DEF ExpirePending, TypeOK, Change, Overdue, InStatus
  <2>3. duty' \subseteq Task
    BY <1>7 DEF ExpirePending, TypeOK
  <2> QED
    BY <1>7, <2>1, <2>2, <2>3 DEF ExpirePending, TypeOK
<1>8. CASE ArchiveRewarded
  <2>1. job' \in Run
    BY <1>8 DEF ArchiveRewarded, TypeOK, Run
  <2>2. referral' \in [Referred -> Row]
    BY <1>8 DEF ArchiveRewarded, TypeOK, Change, Overdue, InStatus, Archivable
  <2> QED
    BY <1>8, <2>1, <2>2 DEF ArchiveRewarded, TypeOK
<1>9. CASE ArchiveExpired
  <2>1. referral' \in [Referred -> Row]
    BY <1>9 DEF ArchiveExpired, TypeOK, Change, Overdue, InStatus, Archivable
  <2> QED
    BY <1>9, <2>1 DEF ArchiveExpired, TypeOK
<1>10. ASSUME NEW u \in User, ShowForm(u) PROVE TypeOK'
  <2>1. page' \in Form
    BY <1>10 DEF ShowForm, TypeOK, Form
  <2>2. budget' \in [asks : 0..MaxAsks, faults : 0..MaxFaults]
    BY <1>10 DEF ShowForm, TypeOK, Pay
  <2> QED
    BY <1>10, <2>1, <2>2 DEF ShowForm, TypeOK
<1>11. CASE ReadUser
  <2>1. ReferralOf(page.user) \in Row /\ page.user \in User
    BY <1>11 DEF ReadUser, TypeOK, ReferralOf, PageInv
  <2>2. date[page.user] \in Nat /\ page.shown \in Nat
    BY <2>1 DEF TypeOK, Form
  <2>3. \A d \in Nat, by \in User \cup {None} :
          [page EXCEPT !.at = "read", !.entered = d, !.by = by,
                       !.read = date[page.user], !.row = ReferralOf(page.user)] \in Form
    BY <2>1, <2>2 DEF TypeOK, Form
  <2>4. PICK d \in DateChoice \cup {page.shown}, by \in User \cup {None} :
          page' = [page EXCEPT !.at = "read", !.entered = d, !.by = by,
                               !.read = date[page.user], !.row = ReferralOf(page.user)]
    BY <1>11 DEF ReadUser
  <2>5. page' \in Form
    BY <2>2, <2>3, <2>4
  <2> QED
    BY <1>11, <2>5 DEF ReadUser, TypeOK
<1>12. CASE RefuseReferrer
  BY <1>12 DEF RefuseReferrer, TypeOK
<1>13. CASE KeepReferrer
  BY <1>13 DEF KeepReferrer, TypeOK, Form
<1>14. CASE CancelReferral
  <2>1. page' \in Form
    BY <1>14 DEF CancelReferral, TypeOK, Form
  <2>2. referral' \in [Referred -> Row]
    BY <1>14 DEF CancelReferral, TypeOK, Change
  <2>3. marks' \in [Referred -> SUBSET {"torn", "rearmed", "crossed", "revived"}]
    BY <1>14 DEF CancelReferral, TypeOK, Mark, Crossed
  <2> QED
    BY <1>14, <2>1, <2>2, <2>3 DEF CancelReferral, TypeOK
<1>15. CASE ChangeReferrer
  <2>1. page' \in Form /\ page.by \in User
    BY <1>15 DEF ChangeReferrer, TypeOK, Form
  <2>2. referral' \in [Referred -> Row]
    BY <1>15, <2>1 DEF ChangeReferrer, TypeOK, Change
  <2>3. marks' \in [Referred -> SUBSET {"torn", "rearmed", "crossed", "revived"}]
    BY <1>15 DEF ChangeReferrer, TypeOK, Mark, Crossed
  <2>4. paidTo' \in [Referred -> User \cup {None}]
    BY <1>15 DEF ChangeReferrer, TypeOK
  <2> QED
    BY <1>15, <2>1, <2>2, <2>3, <2>4 DEF ChangeReferrer, TypeOK
<1>16. CASE SaveDate
  <2>1. page.entered \in Nat /\ page.user \in User
    BY <1>16 DEF SaveDate, TypeOK, Form, PageInv
  <2>2. date' \in [User -> Nat] /\ fair' \in [User -> Nat]
    BY <1>16, <2>1 DEF SaveDate, TypeOK, update_user_expiration
  <2>3. status' \in [User -> {"active", "expired"}]
    BY <1>16 DEF SaveDate, TypeOK, update_user_expiration, Status
  <2>4. raced' \subseteq User
    BY <1>16, <2>1, <2>2, <2>3 DEF SaveDate, TypeOK, update_user_expiration
  <2> QED
    BY <1>16, <2>1, <2>2, <2>3, <2>4 DEF SaveDate, TypeOK
<1>17. ASSUME NEW S \in SUBSET User, AskGift(S) PROVE TypeOK'
  <2>1. budget' \in [asks : 0..MaxAsks, faults : 0..MaxFaults]
    BY <1>17 DEF AskGift, TypeOK, Pay
  <2> QED
    BY <1>17, <2>1 DEF AskGift, TypeOK
<1>18. ASSUME NEW u \in User, GiveDays(u) PROVE TypeOK'
  BY <1>18 DEF GiveDays, update_user_expiration, Status, TypeOK
<1>19. ASSUME NEW S \in SUBSET Referred, ArchiveReferrals(S) PROVE TypeOK'
  <2>1. referral' \in [Referred -> Row]
    BY <1>19 DEF ArchiveReferrals, TypeOK, Change
  <2>2. budget' \in [asks : 0..MaxAsks, faults : 0..MaxFaults]
    BY <1>19 DEF ArchiveReferrals, TypeOK, Pay
  <2> QED
    BY <1>19, <2>1, <2>2 DEF ArchiveReferrals, TypeOK
<1>20. ASSUME NEW S \in SUBSET Referred, RestoreReferrals(S) PROVE TypeOK'
  <2>1. referral' \in [Referred -> Row]
    BY <1>20 DEF RestoreReferrals, TypeOK, Change
  <2>2. budget' \in [asks : 0..MaxAsks, faults : 0..MaxFaults]
    BY <1>20 DEF RestoreReferrals, TypeOK, Pay
  <2>3. heard' \subseteq Referred
    BY <1>20 DEF RestoreReferrals, TypeOK
  <2> QED
    BY <1>20, <2>1, <2>2, <2>3 DEF RestoreReferrals, TypeOK
<1>21. CASE SaveSettings
  <2>1. budget' \in [asks : 0..MaxAsks, faults : 0..MaxFaults]
    BY <1>21 DEF SaveSettings, TypeOK, Pay
  <2>2. settings' \in [enabled : BOOLEAN, change : BOOLEAN, expire : BOOLEAN]
    BY <1>21 DEF SaveSettings, TypeOK
  <2> QED
    BY <1>21, <2>1, <2>2 DEF SaveSettings, TypeOK
<1>22. ASSUME NEW t \in Task, RunNow(t) PROVE TypeOK'
  <2>1. budget' \in [asks : 0..MaxAsks, faults : 0..MaxFaults]
    BY <1>22 DEF RunNow, TypeOK, Pay
  <2> QED
    BY <1>22, <2>1 DEF RunNow, TypeOK
<1>23. CASE UpdateStatus
  BY <1>23 DEF UpdateStatus, Status, TypeOK
<1>24. CASE Tick
  BY <1>24 DEF Tick, Task, TypeOK
<1>25. CASE FailRun
  <2>1. heard' \subseteq Referred
    BY <1>25 DEF FailRun, TypeOK, Torn, Run, None
  <2>2. marks' \in [Referred -> SUBSET {"torn", "rearmed", "crossed", "revived"}]
    BY <1>25 DEF FailRun, TypeOK, Torn
  <2>3. budget' \in [asks : 0..MaxAsks, faults : 0..MaxFaults]
    BY <1>25 DEF FailRun, TypeOK, Pay
  <2> QED
    BY <1>25, <2>1, <2>2, <2>3 DEF FailRun, Torn, TypeOK
<1>26. CASE Death
  <2>1. heard' \subseteq Referred
    BY <1>26 DEF Death, TypeOK, Torn, Run
  <2>2. marks' \in [Referred -> SUBSET {"torn", "rearmed", "crossed", "revived"}]
    BY <1>26 DEF Death, TypeOK, Torn
  <2>3. budget' \in [asks : 0..MaxAsks, faults : 0..MaxFaults]
    BY <1>26 DEF Death, TypeOK, Pay
  <2>4. duty' \subseteq Task
    BY <1>26 DEF Death, TypeOK, Task
  <2> QED
    BY <1>26, <2>1, <2>2, <2>3, <2>4 DEF Death, Torn, TypeOK
<1>27. CASE UNCHANGED vars
  BY <1>27 DEF vars, TypeOK
<1> QED
  BY <1>1, <1>2, <1>3, <1>4, <1>5, <1>6, <1>7, <1>8, <1>9, <1>10, <1>11, <1>12, <1>13, <1>14, <1>15, <1>16, <1>17, <1>18, <1>19, <1>20, <1>21, <1>22, <1>23, <1>24, <1>25, <1>26, <1>27
     DEF Next, Rewards, Cleanup, SaveUser, Gifts, ReferralPage, Active

(* What a step may make of a row.                                           *)
LEMMA RowChange ==
    ASSUME [Next]_vars, TypeOK, NEW u \in Referred
    PROVE  \/ referral'[u] = referral[u]
           \/ RecordReward /\ u = job.cur /\ referral'[u] = Rewarded(referral[u])
           \/ ExpirePending /\ referral[u].status = "pending" /\ referral'[u] = Expired(referral[u])
           \/ CancelReferral /\ u = page.user /\ referral'[u] = Cancelled(referral[u])
           \/ ChangeReferrer /\ u = page.user /\ referral'[u] = Begun(referral[u], page.by)
           \/ referral[u].status \in Archivable /\ referral'[u] = PutAway(referral[u])
           \/ /\ referral[u].status = "archived" /\ referral'[u] = Recovered(referral[u])
              /\ \E S \in SUBSET Referred : u \in S /\ RestoreReferrals(S)
<1> USE DEF TypeOK, Change
<1>1. CASE UNCHANGED referral
  BY <1>1
<1>2. CASE RecordReward
  BY <1>2 DEF RecordReward
<1>3. CASE ExpirePending
  <2>1. PICK S \in SUBSET InStatus("pending") : Change(IF settings.expire THEN S ELSE {}, Expired)
    BY <1>3 DEF ExpirePending, Overdue
  <2>2. \/ referral'[u] = referral[u]
        \/ referral[u].status = "pending" /\ referral'[u] = Expired(referral[u])
    BY <2>1 DEF InStatus
  <2> QED
    BY <1>3, <2>2
<1>4. CASE ArchiveRewarded
  BY <1>4 DEF ArchiveRewarded, Overdue, InStatus, Archivable
<1>5. CASE ArchiveExpired
  BY <1>5 DEF ArchiveExpired, Overdue, InStatus, Archivable
<1>6. CASE CancelReferral
  BY <1>6 DEF CancelReferral
<1>7. CASE ChangeReferrer
  BY <1>7 DEF ChangeReferrer
<1>8. ASSUME NEW S \in SUBSET Referred, ArchiveReferrals(S)
      PROVE  \/ referral[u].status \in Archivable /\ referral'[u] = PutAway(referral[u])
             \/ referral'[u] = referral[u]
  BY <1>8 DEF ArchiveReferrals
<1>9. ASSUME NEW S \in SUBSET Referred, RestoreReferrals(S)
      PROVE  \/ u \in S /\ referral[u].status = "archived" /\ referral'[u] = Recovered(referral[u])
             \/ referral'[u] = referral[u]
  BY <1>9 DEF RestoreReferrals, InStatus
<1> QED
  BY <1>1, <1>2, <1>3, <1>4, <1>5, <1>6, <1>7, <1>8, <1>9, Writers DEF EachWrites, RowStep

(* The columns each statement leaves alone.                                 *)
LEMMA RowKeeps ==
    ASSUME NEW r \in Row
    PROVE  /\ \A s \in {Expired(r), Cancelled(r), PutAway(r), Recovered(r)} :
                  s.by = r.by /\ s.due = r.due /\ s.granted = r.granted
           /\ Rewarded(r).by = r.by /\ Rewarded(r).due = r.due
           /\ Rewarded(r).status = "rewarded" /\ Rewarded(r).granted = now
           /\ Cancelled(r).status = "cancelled" /\ PutAway(r).status = "archived"
           /\ Expired(r).status = "expired"
           /\ Recovered(r).status = Restored(r)
           /\ \A by \in User : /\ Begun(r, by).by = by /\ Begun(r, by).due = now + 2 * Qualify
                               /\ Begun(r, by).granted = Never /\ Begun(r, by).status = "pending"
  BY DEF Row, Rewarded, Expired, Cancelled, PutAway, Recovered, Begun

(* A referral keeps a referrer, and keeps what has happened to it.          *)
LEMMA Monotone ==
    ASSUME TypeOK, JobInv, PageInv, [Next]_vars, NEW u \in Referred
    PROVE  /\ referral[u].by \in User => referral'[u].by \in User
           /\ marks[u] \subseteq marks'[u]
<1>1. referral[u].by \in User => referral'[u].by \in User
  <2>1. referral[u] \in Row
    BY DEF TypeOK
  <2>2. ChangeReferrer => page.by \in User
    BY DEF ChangeReferrer, TypeOK, Form
  <2> QED
    BY <2>1, <2>2, RowChange, RowKeeps
<1>2. marks[u] \subseteq marks'[u]
  <2>1. UNCHANGED marks \/ RecordReward \/ CancelReferral \/ ChangeReferrer \/ FailRun \/ Death
    BY Writers DEF EachWrites
  <2> QED
    BY <2>1 DEF Mark, RecordReward, CancelReferral, ChangeReferrer, FailRun, Death, Torn, TypeOK
<1> QED
  BY <1>1, <1>2

LEMMA RowFitsStays ==
    ASSUME TypeOK, NEW u \in Referred, NEW m, NEW n, m \subseteq n,
           RowFits(referral[u], m)
    PROVE  /\ RowFits(referral[u], n)
           /\ referral[u].by \in User => RowFits(Rewarded(referral[u]), n)
           /\ referral[u].status = "pending" => RowFits(Expired(referral[u]), n)
           /\ RowFits(Cancelled(referral[u]), n)
           /\ referral[u].status \in Archivable => RowFits(PutAway(referral[u]), n)
           /\ referral[u].status = "archived" => RowFits(Recovered(referral[u]), n)
           /\ \A by \in User : referral[u].expired = Never \/ "revived" \in n
                                => RowFits(Begun(referral[u], by), n)
<1> DEFINE r == referral[u]
<1>1. r \in Row /\ now \in Nat
  BY DEF TypeOK
<1>2. RowFits(r, n)
  BY DEF RowFits
<1>3. r.by \in User => RowFits(Rewarded(r), n)
  BY <1>1 DEF RowFits, Rewarded, Archivable, Row, Never
<1>4. r.status = "pending" => RowFits(Expired(r), n)
  BY <1>1, <1>2 DEF RowFits, Expired, Archivable, Row, Never
<1>5. RowFits(Cancelled(r), n)
  BY <1>1 DEF RowFits, Cancelled, Archivable, Row
<1>6. r.status \in Archivable => RowFits(PutAway(r), n)
  BY <1>1, <1>2 DEF RowFits, PutAway, Archivable, Row, Restored
<1>7. r.status = "archived" => RowFits(Recovered(r), n)
  BY <1>1, <1>2 DEF RowFits, Recovered, Archivable, Row, Restored
<1>8. \A by \in User : r.expired = Never \/ "revived" \in n => RowFits(Begun(r, by), n)
  BY <1>1 DEF RowFits, Begun, Archivable, Row
<1> QED
  BY <1>2, <1>3, <1>4, <1>5, <1>6, <1>7, <1>8

(* Every step keeps the rows in order.                                      *)
LEMMA RowNext == IInv /\ [Next]_vars => RowInv'
<1> SUFFICES ASSUME IInv, [Next]_vars, NEW u \in Referred
             PROVE  RowFits(referral'[u], marks'[u])
  BY DEF RowInv
<1> USE DEF IInv
<1>1. RowFits(referral[u], marks[u]) /\ marks[u] \subseteq marks'[u]
  BY Monotone DEF RowInv
<1>2. RecordReward /\ u = job.cur => referral[u].by \in User
  BY NoneIsNobody, ReferredType DEF RecordReward, JobInv, InHand
<1>3. ChangeReferrer => page.by \in User
  BY DEF ChangeReferrer, TypeOK, Form
<1>4. ChangeReferrer /\ u = page.user => referral[u].expired = Never \/ "revived" \in marks'[u]
  BY DEF ChangeReferrer, Mark, TypeOK
<1> QED
  BY <1>1, <1>2, <1>3, <1>4, RowFitsStays, RowChange

(* What the rewards run reads.                                              *)
LEMMA StartReads ==
    ASSUME StartRewards
    PROVE  \/ UNCHANGED job
           \/ /\ job'.at = "row" /\ job'.cur = None /\ job'.seen = referral
              /\ job'.todo = {u \in Referred : Payable(u) /\ Due(u)} /\ now' = now
<1>1. CASE ~settings.enabled
  BY <1>1 DEF StartRewards
<1>2. CASE settings.enabled
  BY <1>2 DEF StartRewards, Idle
<1> QED
  BY <1>1, <1>2

(* A program that is off has had its chance with all that is due.           *)
LEMMA StartEnds ==
    ASSUME StartRewards, UNCHANGED job PROVE \A u \in Referred : Due(u) => u \in heard'
<1>1. ~settings.enabled
  <2>1. settings.enabled => job'.at = "row"
    BY DEF StartRewards, Idle
  <2> QED
    BY <2>1 DEF StartRewards
<1> QED
  BY <1>1 DEF StartRewards

(* What the run has in hand it has read while it could be paid.             *)
LEMMA JobNext == IInv /\ [Next]_vars => JobInv'
<1> SUFFICES ASSUME IInv, [Next]_vars PROVE JobInv'
  OBVIOUS
<1> USE NoneIsNobody, ReferredType DEF IInv
<1>1. job \in Run /\ now \in Nat
  BY DEF TypeOK
<1>2. \A u \in Referred : referral[u].by \in User => referral'[u].by \in User
  BY Monotone
<1>3. CASE UNCHANGED job
  <2>1. InHand \subseteq Referred
    BY <1>1 DEF InHand, Run
  <2>2. InHand' = InHand
    BY <1>3 DEF InHand
  <2>3. UNCHANGED now \/ InHand = {}
    <3>1. Tick => InHand = {}
      BY DEF Tick, JobInv, InHand
    <3> QED
      BY <3>1, Writers DEF EachWrites
  <2> QED
    BY <1>2, <1>3, <2>1, <2>2, <2>3 DEF JobInv, Today
<1>4. CASE StartRewards
  <2>1. CASE UNCHANGED job
    BY <1>3, <2>1
  <2>2. CASE ~UNCHANGED job
    <3>1. /\ job'.at = "row" /\ job'.cur = None /\ job'.seen = referral
          /\ job'.todo = {u \in Referred : Payable(u) /\ Due(u)} /\ now' = now
      BY <1>4, <2>2, StartReads
    <3>2. \A u \in job'.todo : /\ referral[u].status = "pending" /\ referral[u].by \in User
                              /\ referral[u].due \div 2 <= Today /\ u \in Referred
      BY <3>1 DEF Payable, Due, RowInv, RowFits, Archivable
    <3> QED
      BY <1>2, <3>1, <3>2 DEF JobInv, InHand, Today
  <2> QED
    BY <2>1, <2>2
<1>5. CASE ExpirePending
  BY <1>5 DEF ExpirePending, JobInv, InHand, Idle
<1>6. CASE RunStep
  <2>1. ASSUME NEW u \in Referred, SkipReferral(u) PROVE JobInv'
    BY <1>1, <1>2, <2>1 DEF SkipReferral, JobInv, InHand, Run, Today
  <2>2. ASSUME NEW u \in Referred, ReadReferrer(u) PROVE JobInv'
    <3>1. /\ job'.at = "pay" /\ job'.cur = u /\ job'.todo = job.todo \ {u}
          /\ job'.seen = job.seen /\ UNCHANGED <<now, referral>> /\ u \in job.todo
      BY <1>1, <2>2 DEF ReadReferrer, IsNext, Run, tables
    <3> QED
      BY <3>1 DEF JobInv, InHand, Today
  <2>3. CASE PayReferrer
    BY <1>1, <2>3 DEF PayReferrer, JobInv, InHand, Run, Today
  <2>4. CASE RecordReward
    BY <1>1, <1>2, <2>4 DEF RecordReward, JobInv, InHand, Run, Today
  <2>5. CASE EndRewards \/ ArchiveRewarded \/ ArchiveExpired \/ FailRun
    BY <2>5 DEF EndRewards, ArchiveRewarded, ArchiveExpired, FailRun, Torn, JobInv, InHand, Idle
  <2> QED
    BY <1>6, <2>1, <2>2, <2>3, <2>4, <2>5 DEF RunStep
<1>7. CASE Death
  BY <1>7 DEF Death, Torn, JobInv, InHand, Idle
<1> QED
  BY <1>3, <1>4, <1>5, <1>6, <1>7, Writers DEF EachWrites

(* The form belongs to a user, who has a referral if the form has one.      *)
LEMMA PageNext == TypeOK /\ PageInv /\ [Next]_vars => PageInv'
<1> SUFFICES ASSUME TypeOK, PageInv, [Next]_vars PROVE PageInv'
  OBVIOUS
<1>1. page \in Form
  BY DEF TypeOK
<1>2. CASE UNCHANGED page
  BY <1>2 DEF PageInv
<1>3. ASSUME NEW u \in User, ShowForm(u) PROVE PageInv'
  BY <1>3 DEF ShowForm, PageInv, NoForm, NoReferral
<1>4. CASE ReadUser
  <2>1. page'.user = page.user /\ page'.row = ReferralOf(page.user) /\ page.user \in User
    BY <1>1, <1>4 DEF ReadUser, Form, PageInv
  <2> QED
    BY <2>1 DEF PageInv, ReferralOf, NoReferral
<1>5. CASE KeepReferrer \/ CancelReferral \/ ChangeReferrer
  BY <1>1, <1>5 DEF KeepReferrer, CancelReferral, ChangeReferrer, PageInv, Form
<1>6. CASE RefuseReferrer \/ SaveDate \/ Death
  BY <1>6 DEF RefuseReferrer, SaveDate, Death, PageInv, NoForm, NoReferral
<1> QED
  BY <1>2, <1>3, <1>4, <1>5, <1>6, Writers DEF EachWrites, PageStep

(* When a referral begins or ends to be recorded.                           *)
LEMMA RecordsChange ==
    ASSUME [Next]_vars, TypeOK, NEW u \in Referred
    PROVE  \/ Records(u)' = Records(u) /\ (Records(u) => UNCHANGED <<now, job>>)
           \/ PayReferrer /\ u = job.cur /\ ~Records(u) /\ Records(u)'
           \/ (RecordReward \/ FailRun \/ Death) /\ Records(u) /\ ~Records(u)'
<1> USE DEF TypeOK, Records
<1>1. job \in Run
  OBVIOUS
<1>2. UNCHANGED now \/ job.at = "rest"
  BY Writers DEF EachWrites, Tick
<1>3. CASE UNCHANGED job
  BY <1>2, <1>3
<1>4. CASE StartRewards
  BY <1>4 DEF StartRewards, Idle
<1>5. CASE ExpirePending \/ ArchiveRewarded \/ ArchiveExpired \/ EndRewards
  BY <1>5 DEF ExpirePending, ArchiveRewarded, ArchiveExpired, EndRewards, Idle
<1>6. ASSUME NEW v \in Referred, SkipReferral(v) \/ ReadReferrer(v)
      PROVE  ~Records(u) /\ ~Records(u)'
  BY <1>1, <1>6 DEF SkipReferral, ReadReferrer, Run
<1>7. CASE PayReferrer
  BY <1>1, <1>7 DEF PayReferrer, Run
<1>8. CASE RecordReward
  BY <1>1, <1>8 DEF RecordReward, Run
<1>9. CASE FailRun \/ Death
  <2>1. job' = Idle
    BY <1>9 DEF FailRun, Death, Torn
  <2>2. Records(u)' = FALSE
    BY <2>1 DEF Idle
  <2> QED
    BY <1>9, <2>2
<1> QED
  BY <1>3, <1>4, <1>5, <1>6, <1>7, <1>8, <1>9, Writers DEF EachWrites, RunStep

(* Whoever is about to be rewarded was not before.                          *)
LEMMA PaidNext == IInv /\ [Next]_vars => PaidInv'
<1> DEFINE Odd == {"torn", "crossed", "rearmed"}
           Shown(r) == r.granted # Never /\ r.status \in {"rewarded", "archived", "cancelled"}
           Waits(u) == u \in job.todo \/ (job.at = "pay" /\ job.cur = u)
<1> SUFFICES ASSUME IInv, [Next]_vars, NEW u \in Referred, marks'[u] \cap Odd = {}
             PROVE  /\ paid'[u] <= 1
                    /\ Waits(u)' => paid'[u] = 0
                    /\ paid'[u] = 0 \/ Records(u)' \/ Shown(referral'[u])
  BY DEF PaidInv
<1> USE DEF IInv
<1>1. /\ paid[u] <= 1 /\ paid[u] \in Nat
      /\ Waits(u) => paid[u] = 0
      /\ paid[u] = 0 \/ Records(u) \/ Shown(referral[u])
  BY Monotone DEF PaidInv, TypeOK
<1>2. referral[u] \in Row /\ job \in Run /\ now \in Nat
  BY DEF TypeOK
<1>3. Waits(u)' => Waits(u) \/ (StartRewards /\ Payable(u))
  <2>1. CASE UNCHANGED job
    BY <2>1
  <2>2. CASE StartRewards
    BY <2>2, StartReads
  <2>3. ASSUME NEW v \in Referred, SkipReferral(v) \/ ReadReferrer(v)
        PROVE  Waits(u)' => Waits(u)
    <3>1. /\ job'.todo = job.todo \ {v} /\ v \in job.todo
          /\ job'.at # "pay" \/ job'.cur = v
      BY <1>2, <2>3 DEF SkipReferral, ReadReferrer, IsNext, Run
    <3> QED
      BY <3>1
  <2>4. CASE PayReferrer \/ RecordReward
    BY <1>2, <2>4 DEF PayReferrer, RecordReward, Run
  <2>5. CASE EndRewards \/ ExpirePending \/ ArchiveRewarded \/ ArchiveExpired \/ FailRun \/ Death
    BY <2>5 DEF EndRewards, ExpirePending, ArchiveRewarded, ArchiveExpired, FailRun, Death, Torn, Idle
  <2> QED
    BY <2>1, <2>2, <2>3, <2>4, <2>5, Writers DEF EachWrites, RunStep
<1>4. StartRewards /\ Payable(u) => paid[u] = 0
  BY <1>1 DEF StartRewards, Payable, Records
<1>5. CASE PayReferrer /\ u = job.cur
  <2>1. paid'[u] = 1
    BY <1>1, <1>5 DEF PayReferrer, TypeOK
  <2>2. ~Waits(u)' /\ Records(u)'
    BY <1>2, <1>5 DEF PayReferrer, JobInv, Records, Run
  <2> QED
    BY <2>1, <2>2
<1>6. CASE ~(PayReferrer /\ u = job.cur)
  <2>1. paid'[u] = paid[u]
    BY <1>6, Writers DEF EachWrites, PayReferrer, TypeOK
  <2>2. paid[u] = 0 \/ Records(u)' \/ Shown(referral'[u])
    <3>1. CASE paid[u] # 0 /\ Records(u) /\ ~Records(u)'
      <4>1. RecordReward \/ FailRun \/ Death
        BY <3>1, RecordsChange
      <4>2. ~(FailRun \/ Death)
        <5>1. Torn /\ job.at = "record" /\ job.cur = u => "torn" \in marks'[u]
          BY DEF Torn, TypeOK
        <5> QED
          BY <3>1, <5>1 DEF FailRun, Death, Records
      <4> QED
        BY <1>2, <3>1, <4>1, <4>2, RowKeeps DEF RecordReward, Change, Records, Never, TypeOK
    <3>2. CASE paid[u] # 0 /\ Shown(referral[u])
      <4>1. \/ referral'[u] = Rewarded(referral[u]) \/ referral'[u] = Cancelled(referral[u])
            \/ referral'[u] = PutAway(referral[u]) \/ referral'[u] = Recovered(referral[u])
            \/ referral'[u] = referral[u]
            \/ ChangeReferrer /\ u = page.user
        BY <3>2, RowChange
      <4>2. ~(ChangeReferrer /\ u = page.user)
        <5>1. ASSUME ChangeReferrer, u = page.user PROVE FALSE
          <6>1. /\ Crossed \subseteq marks'[u]
                /\ page.row.status \in {"archived", "cancelled"} /\ paid[u] > 0 => "rearmed" \in marks'[u]
            BY <5>1 DEF ChangeReferrer, Mark, TypeOK
          <6>2. page.row = referral[u]
            BY <5>1, <6>1 DEF Crossed
          <6>3. page.row.status # "rewarded"
            BY <5>1 DEF ChangeReferrer, Refused
          <6> QED
            BY <1>1, <3>2, <6>1, <6>2, <6>3
        <5> QED
          BY <5>1
      <4>3. Restored(referral[u]) = "rewarded"
        BY <3>2 DEF Restored
      <4> QED
        BY <1>2, <3>2, <4>1, <4>2, <4>3, RowKeeps DEF Never
    <3> QED
      BY <1>1, <3>1, <3>2
  <2> QED
    BY <1>1, <1>3, <1>4, <2>1, <2>2
<1> QED
  BY <1>5, <1>6

(* A reward is recorded for whom it was paid to.                            *)
LEMMA RecordNext == IInv /\ [Next]_vars => RecordInv' /\ RewardsAreOnRecord'
<1> DEFINE Odd == {"torn", "crossed"}
           Fits(u) == \/ referral[u].granted = Never /\ paidTo[u] = None
                      \/ referral[u].granted # Never /\ paidTo[u] = referral[u].by
           Owed(u) == paidTo[u] = job.seen[u].by \/ referral[u].due # job.seen[u].due
<1> SUFFICES ASSUME IInv, [Next]_vars, NEW u \in Referred, marks'[u] \cap Odd = {}
             PROVE  (Records(u)' => Owed(u)') /\ (Records(u)' \/ Fits(u)')
  BY DEF RecordInv, RewardsAreOnRecord, Records
<1> USE DEF IInv
<1>1. (Records(u) => Owed(u)) /\ (Records(u) \/ Fits(u))
  BY Monotone DEF RecordInv, RewardsAreOnRecord, Records
<1>2. /\ referral[u] \in Row /\ job \in Run /\ now \in Nat
      /\ paidTo \in [Referred -> User \cup {None}] /\ page \in Form
  BY DEF TypeOK
<1>3. CASE ChangeReferrer /\ u = page.user
  <2>1. page.by \in User /\ UNCHANGED <<job, now>>
    BY <1>2, <1>3 DEF ChangeReferrer, Form
  <2>2. /\ referral'[u] = Begun(referral[u], page.by) /\ paidTo'[u] = None
    BY <1>2, <1>3 DEF ChangeReferrer, Change, TypeOK
  <2>3. Fits(u)'
    BY <1>2, <2>1, <2>2, RowKeeps
  <2>4. Records(u)' => job.seen[u].due \div 2 <= now \div 2 /\ job.seen[u].due \in Nat
    BY <1>2, <2>1, NoneIsNobody, ReferredType DEF Records, JobInv, InHand, Today, Run, Row
  <2>5. \A d \in Nat : d \div 2 <= now \div 2 => d # now + 2 * Qualify
    <3>1. Qualify \in Nat /\ Qualify > 0
      BY WaitsType
    <3>2. (now + 2 * Qualify) \div 2 = now \div 2 + Qualify
      BY <1>2, <3>1
    <3> QED
      BY <1>2, <3>1, <3>2
  <2> QED
    BY <1>2, <2>1, <2>2, <2>3, <2>4, <2>5, RowKeeps
<1>4. CASE PayReferrer /\ u = job.cur
  <2>1. paidTo'[u] = job.seen[u].by /\ job'.seen = job.seen /\ Records(u)'
    BY <1>2, <1>4 DEF PayReferrer, Run, Records
  <2> QED
    BY <2>1
<1>5. CASE RecordReward /\ u = job.cur
  <2>1. referral[u] = job.seen[u]
    BY <1>2, <1>5 DEF RecordReward, Mark, TypeOK
  <2>2. Records(u) /\ paidTo[u] = referral[u].by /\ UNCHANGED paidTo
    BY <1>1, <1>5, <2>1 DEF RecordReward, Records
  <2>3. referral'[u] = Rewarded(referral[u])
    BY <1>5 DEF RecordReward, Change
  <2>4. ~Records(u)'
    BY <1>2, <1>5 DEF RecordReward, Records, Run
  <2> QED
    BY <1>2, <2>2, <2>3, <2>4, RowKeeps DEF Never
<1>6. CASE ~(ChangeReferrer /\ u = page.user) /\ ~(PayReferrer /\ u = job.cur) /\ ~(RecordReward /\ u = job.cur)
  <2>1. paidTo'[u] = paidTo[u]
    BY <1>2, <1>6, Writers DEF EachWrites, PayReferrer, ChangeReferrer
  <2>2. referral'[u].by = referral[u].by /\ referral'[u].due = referral[u].due /\ referral'[u].granted = referral[u].granted
    BY <1>2, <1>6, RowChange, RowKeeps
  <2>3. ~(Records(u) /\ (FailRun \/ Death))
    <3>1. Torn /\ job.at = "record" /\ job.cur = u => "torn" \in marks'[u]
      BY DEF Torn, TypeOK
    <3> QED
      BY <3>1 DEF FailRun, Death, Records
  <2>4. ~(Records(u) /\ RecordReward)
    BY <1>6 DEF Records
  <2>5. Records(u)' = Records(u) /\ (Records(u) => UNCHANGED job)
    BY <1>6, <2>3, <2>4, RecordsChange
  <2> QED
    BY <1>1, <2>1, <2>2, <2>5
<1> QED
  BY <1>3, <1>4, <1>5, <1>6

(* Nobody writes a date unseen by those who hold a reading of it.           *)
LEMMA DateNext == IInv /\ [Next]_vars => DateInv'
<1> DEFINE Held(u) == job.at = "pay" /\ job.seen[job.cur].by = u
           Shows(u) == page.at # "rest" /\ page.user = u
           Good(u) ==
              /\ date[u] = fair[u]
              /\ Held(u) => job.base = date[u]
              /\ Shows(u) => page.shown = date[u]
              /\ page.at \in {"read", "date"} /\ page.user = u => page.read = date[u]
              /\ u \in gift.todo => gift.seen[u] = date[u]
<1> SUFFICES ASSUME IInv, [Next]_vars, NEW u \in User, u \notin raced'
             PROVE  Good(u)'
  BY DEF DateInv
<1> USE DEF IInv
<1>1. job \in Run /\ page \in Form /\ date \in [User -> Nat] /\ fair \in [User -> Nat]
      /\ gift \in [todo : SUBSET User, seen : [User -> Nat]]
  BY DEF TypeOK
<1>2. u \notin raced /\ Good(u)
  BY Writers DEF DateInv, EachWrites, DateStep, PayReferrer, SaveDate, GiveDays, update_user_expiration
<1>3. ASSUME UNCHANGED <<date, fair>> PROVE Good(u)'
  <2>1. Held(u)' => job'.base = date[u]
    <3>1. CASE UNCHANGED job
      BY <1>2, <3>1
    <3>2. ASSUME NEW v \in Referred, ReadReferrer(v) PROVE Held(u)' => job'.base = date[u]
      <4>1. job'.cur = v /\ job'.seen = job.seen /\ job'.base = date[job.seen[v].by]
        BY <1>1, <3>2 DEF ReadReferrer, Base, Run
      <4> QED
        BY <4>1
    <3>3. ASSUME NEW v \in Referred, SkipReferral(v) PROVE Held(u)' => job'.base = date[u]
      BY <1>1, <3>3 DEF SkipReferral, Run
    <3>4. CASE StartRewards
      BY <1>2, <3>4, StartReads
    <3>5. CASE PayReferrer \/ RecordReward
      BY <1>1, <3>5 DEF PayReferrer, RecordReward, Run
    <3>6. CASE EndRewards \/ ExpirePending \/ ArchiveRewarded \/ ArchiveExpired \/ FailRun \/ Death
      BY <3>6 DEF EndRewards, ExpirePending, ArchiveRewarded, ArchiveExpired, FailRun, Death, Torn, Idle
    <3> QED
      BY <3>1, <3>2, <3>3, <3>4, <3>5, <3>6, Writers DEF EachWrites, RunStep
  <2>2. /\ Shows(u)' => page'.shown = date[u]
        /\ (page.at \in {"read", "date"} /\ page.user = u)' => page'.read = date[u]
    <3> DEFINE Seen == /\ Shows(u)' => page'.shown = date[u]
                       /\ (page.at \in {"read", "date"} /\ page.user = u)' => page'.read = date[u]
    <3>1. CASE UNCHANGED page
      BY <1>2, <3>1
    <3>2. ASSUME NEW v \in User, ShowForm(v) PROVE Seen
      BY <3>2 DEF ShowForm, NoForm
    <3>3. CASE ReadUser
      <4>1. /\ page'.user = page.user /\ page'.shown = page.shown /\ page'.read = date[page.user]
            /\ page.at # "rest"
        BY <1>1, <3>3 DEF ReadUser, Form
      <4> QED
        BY <1>2, <4>1
    <3>4. CASE KeepReferrer \/ CancelReferral \/ ChangeReferrer
      BY <1>1, <1>2, <3>4 DEF KeepReferrer, CancelReferral, ChangeReferrer, Form
    <3>5. CASE RefuseReferrer \/ SaveDate
      BY <3>5 DEF RefuseReferrer, SaveDate, NoForm
    <3>6. CASE Death
      BY <1>2, <3>6 DEF Death, NoForm
    <3> QED
      BY <3>1, <3>2, <3>3, <3>4, <3>5, <3>6, Writers DEF EachWrites, PageStep
  <2>3. u \in gift'.todo => gift'.seen[u] = date[u]
    <3>1. CASE UNCHANGED gift
      BY <1>2, <3>1
    <3>2. ASSUME NEW S \in SUBSET User, AskGift(S) PROVE u \in gift'.todo => gift'.seen[u] = date[u]
      BY <3>2 DEF AskGift
    <3>3. ASSUME NEW v \in User, GiveDays(v) PROVE u \in gift'.todo => gift'.seen[u] = date[u]
      BY <1>1, <1>2, <3>3 DEF GiveDays, NoGift
    <3>4. CASE Death
      BY <3>4 DEF Death, NoGift
    <3> QED
      BY <3>1, <3>2, <3>3, <3>4, Writers DEF EachWrites
  <2> QED
    BY <1>2, <1>3, <2>1, <2>2, <2>3
<1>4. CASE PayReferrer
  <2> DEFINE by == job.seen[job.cur].by
  <2>1. /\ job'.at = "record" /\ UNCHANGED <<page, gift>>
    BY <1>1, <1>4 DEF PayReferrer, Run
  <2>2. CASE u # by
    <3>1. date'[u] = date[u] /\ fair'[u] = fair[u]
      BY <1>1, <1>4, <2>2 DEF PayReferrer, update_user_expiration
    <3> QED
      BY <1>2, <2>1, <3>1
  <2>3. CASE u = by
    <3>1. Holders(u) \subseteq {"job"}
      BY <1>2, <1>4, <2>3 DEF PayReferrer, update_user_expiration
    <3>2. ~Shows(u) /\ u \notin gift.todo
      BY <3>1 DEF Holders
    <3>3. date'[u] = Later(job.base, Today) + Reward /\ fair'[u] = Later(fair[u], Today) + Reward
      BY <1>1, <1>4, <2>3 DEF PayReferrer, update_user_expiration
    <3>4. job.base = fair[u]
      BY <1>2, <1>4, <2>3 DEF PayReferrer
    <3> QED
      BY <2>1, <3>2, <3>3, <3>4
  <2> QED
    BY <2>2, <2>3
<1>5. CASE SaveDate
  <2>1. page'.at = "rest" /\ UNCHANGED <<job, gift>>
    BY <1>5 DEF SaveDate, NoForm
  <2>2. CASE page.entered = page.read \/ u # page.user
    <3>1. date'[u] = date[u] /\ fair'[u] = fair[u]
      BY <1>1, <1>5, <2>2 DEF SaveDate, update_user_expiration
    <3> QED
      BY <1>2, <2>1, <3>1
  <2>3. CASE page.entered # page.read /\ u = page.user
    <3>1. Holders(u) \subseteq {"page"}
      BY <1>2, <1>5, <2>3 DEF SaveDate, update_user_expiration
    <3>2. ~Held(u) /\ u \notin gift.todo
      BY <3>1 DEF Holders
    <3>3. /\ date'[u] = page.entered
          /\ fair'[u] = IF page.entered = page.shown THEN fair[u] ELSE page.entered
      BY <1>1, <1>5, <2>3 DEF SaveDate, update_user_expiration
    <3>4. page.shown = page.read
      BY <1>2, <1>5, <2>3 DEF SaveDate
    <3> QED
      BY <2>1, <2>3, <3>2, <3>3, <3>4
  <2> QED
    BY <2>2, <2>3
<1>6. ASSUME NEW v \in User, GiveDays(v) PROVE Good(u)'
  <2>1. UNCHANGED <<job, page>> /\ v \in gift.todo
    BY <1>6 DEF GiveDays
  <2>2. CASE u # v
    <3>1. date'[u] = date[u] /\ fair'[u] = fair[u]
      BY <1>1, <1>6, <2>2 DEF GiveDays, update_user_expiration
    <3>2. u \in gift'.todo => u \in gift.todo /\ gift'.seen[u] = gift.seen[u]
      BY <1>1, <1>6 DEF GiveDays, NoGift
    <3> QED
      BY <1>2, <2>1, <3>1, <3>2
  <2>3. CASE u = v
    <3>1. Holders(u) \subseteq {"gift"}
      BY <1>2, <1>6, <2>3 DEF GiveDays, update_user_expiration
    <3>2. ~Held(u) /\ ~Shows(u)
      BY <3>1 DEF Holders
    <3>3. date'[u] = gift.seen[u] + Gift /\ fair'[u] = fair[u] + Gift
      BY <1>1, <1>6, <2>3 DEF GiveDays, update_user_expiration
    <3>4. u \notin gift'.todo
      BY <1>1, <1>6, <2>3 DEF GiveDays, NoGift
    <3> QED
      BY <1>2, <2>1, <2>3, <3>2, <3>3, <3>4
  <2> QED
    BY <2>2, <2>3
<1> QED
  BY <1>3, <1>4, <1>5, <1>6, Writers DEF EachWrites, DateStep

(* A referral that waits past its day is in hand, was heard, or is to be.   *)
LEMMA ChanceNext == IInv /\ [Next]_vars => ChanceInv'
<1> DEFINE Waits(u) == referral[u].status = "pending" /\ Due(u)
           Safe(u) == u \in heard \cup InHand \/ "rewards" \in duty
<1> SUFFICES ASSUME IInv, [Next]_vars, NEW u \in Referred, Waits(u)'
             PROVE  Safe(u)'
  BY DEF ChanceInv
<1> USE DEF IInv
<1>1. /\ job \in Run /\ now \in Nat /\ page \in Form /\ referral[u] \in Row
      /\ duty \subseteq Task /\ heard \subseteq Referred
  BY DEF TypeOK
<1>2. Waits(u) => Safe(u)
  BY DEF ChanceInv
<1>3. CASE Tick
  <2>1. CASE now' % 2 = 0
    BY <1>3, <2>1 DEF Tick
  <2>2. CASE now' % 2 # 0
    <3>1. now' \div 2 = now \div 2
      BY <1>1, <1>3, <2>2 DEF Tick
    <3>2. UNCHANGED <<referral, heard, job>> /\ "rewards" \notin duty
      BY <1>3 DEF Tick, tables, ghosts, actors
    <3>3. Waits(u) /\ InHand' = InHand
      BY <3>1, <3>2 DEF Due, Today, InHand
    <3> QED
      BY <1>2, <3>2, <3>3
  <2> QED
    BY <2>1, <2>2
<1>4. CASE ChangeReferrer /\ u = page.user
  <2>1. page.by \in User /\ UNCHANGED now
    BY <1>1, <1>4 DEF ChangeReferrer, Form
  <2>2. referral'[u] = Begun(referral[u], page.by)
    BY <1>1, <1>4 DEF ChangeReferrer, Change, TypeOK
  <2>3. ~Waits(u)'
    <3>1. Qualify \in Nat /\ Qualify > 0
      BY WaitsType
    <3>2. (now + 2 * Qualify) \div 2 = now \div 2 + Qualify
      BY <1>1, <3>1
    <3> QED
      BY <1>1, <2>1, <2>2, <3>1, <3>2, RowKeeps DEF Due, Today
  <2> QED
    BY <2>3
<1>5. CASE UNCHANGED now /\ ~(ChangeReferrer /\ u = page.user)
  <2>1. CASE ~Waits(u)
    <3>1. referral'[u].due = referral[u].due /\ Due(u)
      BY <1>1, <1>5, RowChange, RowKeeps DEF Due, Today
    <3>2. PICK S \in SUBSET Referred : u \in S /\ RestoreReferrals(S)
      BY <1>1, <1>5, <2>1, <3>1, RowChange, RowKeeps
    <3> QED
      BY <3>1, <3>2 DEF RestoreReferrals
  <2>2. CASE Waits(u)
    <3>1. Safe(u)
      BY <1>2, <2>2
    <3>2. u \in heard => u \in heard'
      <4>1. StartRewards \/ (\E v \in Referred : SkipReferral(v)) \/ (\E S \in SUBSET Referred : RestoreReferrals(S))
               => heard \subseteq heard'
        BY DEF StartRewards, SkipReferral, RestoreReferrals
      <4>2. FailRun \/ Death => heard \subseteq heard'
        BY DEF FailRun, Death, Torn
      <4>3. ChangeReferrer => heard' = heard \ {page.user}
        BY DEF ChangeReferrer
      <4> QED
        BY <1>5, <4>1, <4>2, <4>3, Writers DEF EachWrites
    <3>3. ASSUME "rewards" \in duty PROVE Safe(u)'
      <4>1. CASE StartRewards
        <5>1. CASE UNCHANGED job
          BY <1>5, <2>2, <4>1, <5>1, StartEnds
        <5>2. CASE ~UNCHANGED job
          <6>1. u \in {v \in Referred : Payable(v) /\ Due(v)}
            BY <1>1, <2>2 DEF Payable, RowInv, RowFits
          <6>2. u \in job'.todo
            BY <4>1, <5>2, <6>1, StartReads
          <6> QED
            BY <6>2 DEF InHand
        <5> QED
          BY <5>1, <5>2
      <4>2. CASE ExpirePending \/ (\E t \in Task : RunNow(t)) \/ Death
        BY <3>3, <4>2 DEF ExpirePending, RunNow, Death
      <4> QED
        BY <1>5, <3>3, <4>1, <4>2, Writers DEF EachWrites, Tick
    <3>4. ASSUME u \in InHand PROVE Safe(u)'
      <4>1. CASE UNCHANGED job
        BY <3>2, <3>4, <4>1 DEF InHand
      <4>2. CASE StartRewards \/ ExpirePending \/ EndRewards \/ ArchiveRewarded \/ ArchiveExpired
        BY <3>4, <4>2 DEF StartRewards, ExpirePending, EndRewards, ArchiveRewarded, ArchiveExpired, JobInv, InHand
      <4>3. ASSUME NEW v \in Referred, SkipReferral(v) PROVE Safe(u)'
        BY <1>1, <3>4, <4>3 DEF SkipReferral, InHand, Run
      <4>4. ASSUME NEW v \in Referred, ReadReferrer(v) PROVE Safe(u)'
        <5>1. job'.todo = job.todo \ {v} /\ job'.cur = v /\ job.cur = None
          BY <1>1, <4>4 DEF ReadReferrer, Run, JobInv
        <5> QED
          BY <3>4, <5>1, NoneIsNobody, ReferredType DEF InHand
      <4>5. CASE PayReferrer
        BY <1>1, <3>4, <4>5 DEF PayReferrer, Run, InHand
      <4>6. CASE RecordReward
        <5>1. u # job.cur
          BY <1>1, <4>6, RowKeeps DEF RecordReward, Change
        <5>2. job'.todo = job.todo
          BY <1>1, <4>6 DEF RecordReward, Run
        <5> QED
          BY <3>4, <5>1, <5>2 DEF InHand
      <4>7. CASE FailRun \/ Death
        BY <3>4, <4>7 DEF FailRun, Death, Torn, InHand
      <4> QED
        BY <4>1, <4>2, <4>3, <4>4, <4>5, <4>6, <4>7, Writers DEF EachWrites, RunStep
    <3> QED
      BY <3>1, <3>2, <3>3, <3>4
  <2> QED
    BY <2>1, <2>2
<1> QED
  BY <1>3, <1>4, <1>5, Writers DEF EachWrites

----------------------------------------------------------------------------
LEMMA InitInv == Init => IInv
<1> SUFFICES ASSUME Init PROVE IInv
  OBVIOUS
<1> USE DaysType, WaitsType, DatesType, ReferredType, NoneIsNobody, Nothings DEF Init
<1>1. \A u \in Referred :
         /\ referral[u] \in Row /\ referral[u].granted = Never /\ referral[u].expired = Never
         /\ \/ referral[u].status = None /\ referral[u].due = 0
            \/ referral[u].status = "pending" /\ referral[u].by \in User
  <2>1. NoReferral.granted = Never /\ NoReferral.expired = Never /\ NoReferral.status = None /\ NoReferral.due = 0
    BY DEF NoReferral
  <2>2. \A u \in User : /\ Begun(NoReferral, u).granted = Never /\ Begun(NoReferral, u).expired = Never
                        /\ Begun(NoReferral, u).status = "pending" /\ Begun(NoReferral, u).by = u
                        /\ Begun(NoReferral, u) \in Row
    BY RowUpdates DEF NoReferral, Begun
  <2> QED
    BY <2>1, <2>2
<1>2. TypeOK
  <2>1. duty \subseteq Task
    BY DEF Task
  <2>2. status \in [User -> {"active", "expired"}]
    BY DEF Status
  <2>3. date \in [User -> Nat]
    OBVIOUS
  <2>4. referral \in [Referred -> Row]
    BY <1>1
  <2> QED
    BY <2>1, <2>2, <2>3, <2>4 DEF TypeOK
<1>3. JobInv /\ PageInv
  BY DEF JobInv, PageInv, Idle, NoForm, NoReferral, InHand
<1>4. RowInv
  BY <1>1 DEF RowInv, RowFits, Archivable, None
<1>5. PaidInv /\ RecordInv /\ RewardsAreOnRecord
  BY <1>1 DEF PaidInv, RecordInv, RewardsAreOnRecord, Records, Idle
<1>6. DateInv
  BY DEF DateInv, Idle, NoForm, NoGift
<1>7. ChanceInv
  BY DEF ChanceInv
<1> QED
  BY <1>2, <1>3, <1>4, <1>5, <1>6, <1>7 DEF IInv

(* The invariant holds throughout.                                          *)
LEMMA Invariance == Spec => []IInv
<1>1. IInv /\ [Next]_vars => IInv'
  <2> SUFFICES ASSUME IInv, [Next]_vars PROVE IInv'
    OBVIOUS
  <2> QED
    BY NextType, JobNext, PageNext, RowNext, PaidNext, RecordNext, DateNext, ChanceNext DEF IInv
<1> QED
  BY InitInv, <1>1, PTL DEF Spec

(***************************************************************************)
(* The variables keep their types, whatever is requested, fails or dies.    *)
(***************************************************************************)
THEOREM TypeCorrect == Spec => []TypeOK
<1>1. IInv => TypeOK
  BY DEF IInv
<1> QED
  BY Invariance, <1>1, PTL

(***************************************************************************)
(* process_referral_rewards pays no referral a second time, except where    *)
(* RewardedOnce says so: any number of runs, and of referrals archived,     *)
(* restored and given to another referrer between the steps of a run.       *)
(***************************************************************************)
THEOREM RewardedOnceAlways == Spec => []RewardedOnce
<1>1. IInv => RewardedOnce
  BY DEF IInv, PaidInv, RewardedOnce
<1> QED
  BY Invariance, <1>1, PTL

(***************************************************************************)
(* reward_granted_at is set exactly on the referrals whose present referrer *)
(* was paid, but between the payment and its record.                        *)
(***************************************************************************)
THEOREM RewardsOnRecord == Spec => []RewardsAreOnRecord
<1>1. IInv => RewardsAreOnRecord
  BY DEF IInv
<1> QED
  BY Invariance, <1>1, PTL

(***************************************************************************)
(* No day is lost on a date that nobody wrote while the rewards run, a      *)
(* gift or the page of the user held a reading of it.                       *)
(***************************************************************************)
THEOREM DaysAddUpAlways == Spec => []DaysAddUp
<1>1. IInv => DaysAddUp
  BY DEF IInv, DateInv, DaysAddUp
<1> QED
  BY Invariance, <1>1, PTL

(***************************************************************************)
(* bulk_update_referrals restores a referral to the status it was archived  *)
(* in, which it tells from the dates of the row, but for those begun again. *)
(***************************************************************************)
THEOREM RestoreGivesBackAlways == Spec => []RestoreGivesBack
<1>1. IInv => RestoreGivesBack
  BY DEF IInv, RowInv, RowFits, RestoreGivesBack, InStatus
<1> QED
  BY Invariance, <1>1, PTL

(***************************************************************************)
(* referral_cleanup expires no referral before the rewards run has had its  *)
(* chance with it, whatever became of the runs of the days before.          *)
(***************************************************************************)
THEOREM ChanceFirst == Spec => ExpiredHadItsChance
<1>1. IInv /\ [Next]_vars =>
        [\A u \in Referred :
            referral[u].status = "pending" /\ referral'[u].status = "expired"
                => u \in heard \/ "rewards" \in duty]_vars
  <2> SUFFICES ASSUME IInv, [Next]_vars, NEW u \in Referred,
                      referral[u].status = "pending", referral'[u].status = "expired"
               PROVE  u \in heard \/ "rewards" \in duty
    OBVIOUS
  <2>1. referral[u] \in Row /\ now \in Nat /\ TypeOK
    BY DEF IInv, TypeOK
  <2>2. ExpirePending
    <3>1. ChangeReferrer => page.by \in User
      BY <2>1 DEF ChangeReferrer, TypeOK, Form
    <3> QED
      BY <2>1, <3>1, RowChange, RowKeeps
  <2>3. referral[u].due <= now
    <3>1. PICK S \in Overdue(InStatus("pending"), [v \in Referred |-> referral[v].due]) :
             Change(IF settings.expire THEN S ELSE {}, Expired)
      BY <2>2 DEF ExpirePending
    <3>2. u \in S
      BY <3>1 DEF Change
    <3> QED
      BY <3>1, <3>2 DEF Overdue
  <2>4. InHand = {}
    BY <2>2 DEF ExpirePending, IInv, JobInv, InHand
  <2>5. Due(u)
    BY <2>1, <2>3 DEF Due, Today, Row
  <2> QED
    BY <2>4, <2>5 DEF IInv, ChanceInv
<1> QED
  BY Invariance, <1>1, PTL DEF Spec, ExpiredHadItsChance
====
