---- MODULE Referrals ----
(***************************************************************************)
(* Referrals and the expiration dates they extend: process_referral_rewards *)
(* pays the referrers of the referrals that fall due, referral_cleanup      *)
(* expires and archives referrals, and gifts and the page of a user write   *)
(* the same dates and rows while these runs are under way.                  *)
(***************************************************************************)
EXTENDS Integers, FiniteSets

CONSTANTS
    User,
    Referred,    \* the users who may have a referral
    Reward,      \* reward_days_snapshot
    Gift,        \* days of a gift
    Qualify,     \* qualification_days, of which the page takes one at least
    Archiving,   \* rewarded_archive_days and expired_archive_days, likewise
    DateChoice,  \* the dates an administrator may enter
    FirstDate,   \* the dates at the beginning
    MaxDay,      \* bound: days
    MaxAsks,     \* bound: requests of the administrator
    MaxFaults    \* bound: runs that fail, deaths of the process

ASSUME ReferredType == Referred \subseteq User
ASSUME DaysType == {Reward, Gift, MaxDay, MaxAsks, MaxFaults} \subseteq Nat
ASSUME WaitsType == {Qualify, Archiving} \subseteq Nat \ {0}
ASSUME DatesType == DateChoice \cup FirstDate \subseteq Nat

VARIABLES
    now,       \* the clock, in half days: a run of rewards in one, of the cleanup in the next
    duty,      \* the tasks whose run is requested
    date,      \* vodum_users.expiration_date, in days
    status,    \* vodum_users.status
    referral,  \* user_referrals, by referred_user_id
    settings,  \* user_referral_settings
    job,       \* the run under way
    page,      \* the form of a user, shown or being saved
    gift,      \* the request that gives days
    paid,      \* how often each referral was rewarded
    paidTo,    \* who was rewarded for it as it stands, if anybody
    fair,      \* the dates if nobody had written from an old reading
    raced,     \* the users whose date was written under another's reading of it
    heard,     \* the referrals that the rewards run had its chance with
    marks,     \* what happened to each referral that the properties except
    budget

tables == <<date, status, referral, settings>>
ghosts == <<paid, paidTo, fair, raced, heard, marks>>
actors == <<job, page, gift>>
vars == <<now, duty, tables, actors, ghosts, budget>>

None == "none"
Never == -1
Today == now \div 2

ASSUME NoneIsNobody == None \notin User

Task == {"rewards", "cleanup"}
Row == [status : {None, "pending", "rewarded", "expired", "archived", "cancelled"},
        by : User \cup {None}, due : Nat, granted : Nat \cup {Never}, expired : Nat \cup {Never},
        was : {None, "pending", "rewarded", "expired"}] \* ghost: what it was archived from
Run == [at : {"rest", "row", "pay", "record", "archiveRewarded", "archiveExpired"},
        todo : SUBSET Referred, eligible : SUBSET User, seen : [Referred -> Row],
        dates : [User -> Nat], cur : Referred \cup {None}, base : Nat]
Form == [at : {"rest", "form", "read", "date"}, user : User \cup {None}, shown : Nat,
         entered : Nat, by : User \cup {None}, read : Nat, row : Row]
NoReferral ==
    [status |-> None, by |-> None, due |-> 0, granted |-> Never, expired |-> Never, was |-> None]
Idle == [at |-> "rest", todo |-> {}, eligible |-> {}, seen |-> [u \in Referred |-> NoReferral],
         dates |-> [u \in User |-> 0], cur |-> None, base |-> 0]
NoForm == [at |-> "rest", user |-> None, shown |-> 0, entered |-> 0, by |-> None,
           read |-> 0, row |-> NoReferral]
NoGift == [todo |-> {}, seen |-> [u \in User |-> 0]]

TypeOK ==
    /\ now \in Nat /\ duty \subseteq Task
    /\ date \in [User -> Nat]
    /\ status \in [User -> {"active", "expired"}]
    /\ referral \in [Referred -> Row]
    /\ settings \in [enabled : BOOLEAN, change : BOOLEAN, expire : BOOLEAN]
    /\ job \in Run /\ page \in Form
    /\ gift \in [todo : SUBSET User, seen : [User -> Nat]]
    /\ paid \in [Referred -> Nat] /\ paidTo \in [Referred -> User \cup {None}]
    /\ fair \in [User -> Nat] /\ raced \subseteq User /\ heard \subseteq Referred
    /\ marks \in [Referred -> SUBSET {"torn", "rearmed", "crossed", "revived"}]
    /\ budget \in [asks : 0..MaxAsks, faults : 0..MaxFaults]

\* compute_status, of the statuses only whether it is an eligible one.
Status(d) == IF d <= Today THEN "expired" ELSE "active"

\* Mutant: an earlier reward is not reset.
BegunStillGranted(r, by) == [r EXCEPT !.status = "pending", !.by = by, !.due = now + 2 * Qualify]

\* create_user: a user may come with a referral that waits.
Begun(r, by) ==
    [r EXCEPT !.status = "pending", !.by = by, !.due = now + 2 * Qualify, !.granted = Never]

Rewarded(r)  == [r EXCEPT !.status = "rewarded", !.granted = now]
Expired(r)   == [r EXCEPT !.status = "expired", !.expired = now]
Cancelled(r) == [r EXCEPT !.status = "cancelled"]
PutAway(r)   == [r EXCEPT !.status = "archived", !.was = r.status]

\* Mutant: the reward is not looked at.
RestoredUnpaid(r) == IF r.expired # Never THEN "expired" ELSE "pending"

Restored(r) ==
    CASE r.granted # Never -> "rewarded"
      [] r.granted = Never /\ r.expired # Never -> "expired"
      [] OTHER -> "pending"

Recovered(r) == [r EXCEPT !.status = Restored(r)]

\* UPDATE user_referrals SET ... WHERE referred_user_id IN S.
Change(S, Upd(_)) ==
    referral' = [u \in Referred |-> IF u \in S THEN Upd(referral[u]) ELSE referral[u]]

Init ==
    /\ now = 0 /\ duty = {"rewards"}
    /\ date \in [User -> FirstDate]
    /\ status = [u \in User |-> Status(date[u])]
    /\ referral \in [Referred -> {NoReferral} \cup {Begun(NoReferral, u) : u \in User}]
    /\ \A u \in Referred : referral[u].by # u
    /\ settings = [enabled |-> TRUE, change |-> TRUE, expire |-> TRUE]
    /\ job = Idle /\ page = NoForm /\ gift = NoGift
    /\ paid = [u \in Referred |-> 0] /\ paidTo = [u \in Referred |-> None]
    /\ fair = date /\ raced = {} /\ heard = {}
    /\ marks = [u \in Referred |-> {}]
    /\ budget \in [asks : 0..MaxAsks, faults : 0..MaxFaults]

Pay(what) == budget[what] > 0 /\ budget' = [budget EXCEPT ![what] = @ - 1]
Mark(u, m) == marks' = [marks EXCEPT ![u] = @ \cup m]

----------------------------------------------------------------------------
(***************************************************************************)
(* update_user_expiration: d is written whatever the date is by then.  What *)
(* the caller meant is fairly; others who have read the date are overtaken. *)
(***************************************************************************)
Holders(u) ==
    (IF job.at = "pay" /\ job.seen[job.cur].by = u THEN {"job"} ELSE {})
      \cup (IF page.at # "rest" /\ page.user = u THEN {"page"} ELSE {})
      \cup (IF u \in gift.todo THEN {"gift"} ELSE {})

update_user_expiration(who, u, d, fairly) ==
    /\ date' = [date EXCEPT ![u] = d]
    /\ status' = [status EXCEPT ![u] = Status(d)]
    /\ fair' = [fair EXCEPT ![u] = fairly]
    /\ raced' = IF Holders(u) \subseteq {who} THEN raced ELSE raced \cup {u}

Later(a, b) == IF a >= b THEN a ELSE b

----------------------------------------------------------------------------
(***************************************************************************)
(* process_referral_rewards.                                                *)
(***************************************************************************)
\* Mutant: due means overdue.
DueYesterday(u) == referral[u].due \div 2 < Today

Due(u) == referral[u].due \div 2 <= Today

Payable(u) == referral[u].status = "pending" /\ referral[u].granted = Never

\* One SELECT with both users' columns; a program that is off reads nothing.
StartRewards ==
    /\ job.at = "rest" /\ "rewards" \in duty
    /\ duty' = duty \ {"rewards"}
    /\ IF settings.enabled
       THEN /\ job' = [Idle EXCEPT !.at = "row", !.todo = {u \in Referred : Payable(u) /\ Due(u)},
                                   !.eligible = {u \in User : status[u] = "active"},
                                   !.seen = referral, !.dates = date]
            /\ UNCHANGED heard
       ELSE /\ heard' = heard \cup {u \in Referred : Due(u)}
            /\ UNCHANGED job
    /\ UNCHANGED <<now, tables, page, gift, paid, paidTo, fair, raced, marks, budget>>

\* ORDER BY qualification_due_at.
IsNext(u) == u \in job.todo /\ \A v \in job.todo : job.seen[u].due <= job.seen[v].due

\* The row keeps an error and waits for the next run.
SkipReferral(u) ==
    /\ job.at = "row" /\ IsNext(u)
    /\ u \notin job.eligible
    /\ job' = [job EXCEPT !.todo = @ \ {u}]
    /\ heard' = heard \cup {u}
    /\ UNCHANGED <<now, duty, tables, page, gift, paid, paidTo, fair, raced, marks, budget>>

\* Mutant: the date that came with the row.
BaseFromRow(by) == job.dates[by]

\* The referrer's date is read again for each row.
Base(by) == date[by]

ReadReferrer(u) ==
    /\ job.at = "row" /\ IsNext(u)
    /\ u \in job.eligible
    /\ job' = [job EXCEPT !.at = "pay", !.cur = u, !.todo = @ \ {u}, !.base = Base(job.seen[u].by)]
    /\ UNCHANGED <<now, duty, tables, page, gift, ghosts, budget>>

PayReferrer ==
    /\ job.at = "pay"
    /\ LET by == job.seen[job.cur].by
       IN  /\ update_user_expiration("job", by, Later(job.base, Today) + Reward,
                                     Later(fair[by], Today) + Reward)
           /\ paidTo' = [paidTo EXCEPT ![job.cur] = by]
    /\ paid' = [paid EXCEPT ![job.cur] = @ + 1]
    /\ job' = [job EXCEPT !.at = "record"]
    /\ UNCHANGED <<now, duty, referral, settings, page, gift, heard, marks, budget>>

\* UPDATE user_referrals WHERE id: whatever has become of the row.
RecordReward ==
    /\ job.at = "record"
    /\ Change({job.cur}, Rewarded)
    /\ Mark(job.cur, IF referral[job.cur] = job.seen[job.cur] THEN {} ELSE {"crossed"})
    /\ job' = [job EXCEPT !.at = "row", !.cur = None, !.base = 0]
    /\ UNCHANGED <<now, duty, date, status, settings, page, gift, paid, paidTo, fair, raced, heard, budget>>

EndRewards ==
    /\ job.at = "row" /\ job.todo = {}
    /\ job' = Idle
    /\ UNCHANGED <<now, duty, tables, page, gift, ghosts, budget>>

----------------------------------------------------------------------------
(***************************************************************************)
(* referral_cleanup: three UPDATEs.  What lies in the same half day as the  *)
(* clock may be past or not.                                                *)
(***************************************************************************)
Overdue(rows, at) ==
    {S \in SUBSET rows : \A u \in rows : IF u \in S THEN at[u] <= now ELSE now <= at[u]}

InStatus(s) == {u \in Referred : referral[u].status = s}

ExpirePending ==
    /\ job.at = "rest" /\ "cleanup" \in duty
    /\ duty' = duty \ {"cleanup"}
    /\ \E S \in Overdue(InStatus("pending"), [u \in Referred |-> referral[u].due]) :
           Change(IF settings.expire THEN S ELSE {}, Expired)
    /\ job' = [Idle EXCEPT !.at = "archiveRewarded"]
    /\ UNCHANGED <<now, date, status, settings, page, gift, ghosts, budget>>

ArchiveRewarded ==
    /\ job.at = "archiveRewarded"
    /\ \E S \in Overdue({u \in InStatus("rewarded") : referral[u].granted # Never},
                        [u \in Referred |-> referral[u].granted + 2 * Archiving]) :
           Change(S, PutAway)
    /\ job' = [Idle EXCEPT !.at = "archiveExpired"]
    /\ UNCHANGED <<now, duty, date, status, settings, page, gift, ghosts, budget>>

ArchiveExpired ==
    /\ job.at = "archiveExpired"
    /\ \E S \in Overdue({u \in InStatus("expired") : referral[u].expired # Never},
                        [u \in Referred |-> referral[u].expired + 2 * Archiving]) :
           Change(S, PutAway)
    /\ job' = Idle
    /\ UNCHANGED <<now, duty, date, status, settings, page, gift, ghosts, budget>>

----------------------------------------------------------------------------
(***************************************************************************)
(* The page of a user.  The form carries the date and the referrer as they  *)
(* were when it was shown; the request reads the user and the referral,     *)
(* writes the referral, and the date if it is not the one it has read.      *)
(***************************************************************************)
ShowForm(u) ==
    /\ page.at = "rest"
    /\ Pay("asks")
    /\ page' = [NoForm EXCEPT !.at = "form", !.user = u, !.shown = date[u]]
    /\ UNCHANGED <<now, duty, tables, job, gift, ghosts>>

ReferralOf(u) == IF u \in Referred THEN referral[u] ELSE NoReferral

ReadUser ==
    /\ page.at = "form"
    /\ \E d \in DateChoice \cup {page.shown},
          by \in (IF page.user \in Referred THEN User \cup {None} ELSE {None}) \ {page.user} :
           page' = [page EXCEPT !.at = "read", !.entered = d, !.by = by,
                                !.read = date[page.user], !.row = ReferralOf(page.user)]
    /\ UNCHANGED <<now, duty, tables, job, gift, ghosts, budget>>

SameReferrer == page.by = page.row.by

\* Mutant: a rewarded referral may be given another referrer.
RefusedIfOff ==
    \/ page.row.status # None /\ ~settings.change
    \/ page.by # None /\ status[page.by] # "active"

Refused ==
    \/ page.row.status = "rewarded"
    \/ page.row.status # None /\ ~settings.change
    \/ page.by # None /\ status[page.by] # "active"

\* The request ends, the date it carries is not written either.
RefuseReferrer ==
    /\ page.at = "read" /\ ~SameReferrer /\ Refused
    /\ page' = NoForm
    /\ UNCHANGED <<now, duty, tables, job, gift, ghosts, budget>>

KeepReferrer ==
    /\ page.at = "read" /\ SameReferrer
    /\ page' = [page EXCEPT !.at = "date"]
    /\ UNCHANGED <<now, duty, tables, job, gift, ghosts, budget>>

Crossed == IF page.row = referral[page.user] THEN {} ELSE {"crossed"}

CancelReferral ==
    /\ page.at = "read" /\ ~SameReferrer /\ ~Refused /\ page.by = None
    /\ Change({page.user}, Cancelled)
    /\ Mark(page.user, Crossed)
    /\ page' = [page EXCEPT !.at = "date"]
    /\ UNCHANGED <<now, duty, date, status, settings, job, gift, paid, paidTo, fair, raced, heard, budget>>

\* The referral begins again; expired_at is not among the columns reset.
ChangeReferrer ==
    /\ page.at = "read" /\ ~SameReferrer /\ ~Refused /\ page.by # None
    /\ LET u == page.user
       IN  /\ Change({u}, LAMBDA r : Begun(r, page.by))
           /\ paidTo' = [paidTo EXCEPT ![u] = None]
           /\ heard' = heard \ {u}
           /\ Mark(u, Crossed
                \cup (IF page.row.status \in {"archived", "cancelled"} /\ paid[u] > 0 THEN {"rearmed"} ELSE {})
                \cup (IF referral[u].expired # Never THEN {"revived"} ELSE {}))
    /\ page' = [page EXCEPT !.at = "date"]
    /\ UNCHANGED <<now, duty, date, status, settings, job, gift, paid, fair, raced, budget>>

SaveDate ==
    /\ page.at = "date"
    /\ IF page.entered = page.read THEN UNCHANGED <<date, status, fair, raced>>
       ELSE update_user_expiration("page", page.user, page.entered,
                IF page.entered = page.shown THEN fair[page.user] ELSE page.entered)
    /\ page' = NoForm
    /\ UNCHANGED <<now, duty, referral, settings, job, gift, paid, paidTo, heard, marks, budget>>

----------------------------------------------------------------------------
(***************************************************************************)
(* Gifts: the dates of all are read, then written one by one.  Only one of  *)
(* the two requests asks for a status.                                      *)
(***************************************************************************)
AskGift(S) ==
    /\ gift.todo = {} /\ S # {}
    /\ Pay("asks")
    /\ gift' = [todo |-> S, seen |-> date]
    /\ UNCHANGED <<now, duty, tables, job, page, ghosts>>

GiveDays(u) ==
    /\ u \in gift.todo
    /\ update_user_expiration("gift", u, gift.seen[u] + Gift, fair[u] + Gift)
    /\ gift' = IF gift.todo = {u} THEN NoGift ELSE [gift EXCEPT !.todo = @ \ {u}]
    /\ UNCHANGED <<now, duty, referral, settings, job, page, paid, paidTo, heard, marks, budget>>

----------------------------------------------------------------------------
(***************************************************************************)
(* bulk_update_referrals and users_referral_settings_save.                  *)
(***************************************************************************)
Archivable == {"pending", "rewarded", "expired"}

ArchiveReferrals(S) ==
    /\ S # {} /\ \A u \in S : referral[u].status \in Archivable
    /\ Pay("asks")
    /\ Change(S, PutAway)
    /\ UNCHANGED <<now, duty, date, status, settings, actors, ghosts>>

\* Too late for the run of its day.
RestoreReferrals(S) ==
    /\ S # {} /\ S \subseteq InStatus("archived")
    /\ Pay("asks")
    /\ Change(S, Recovered)
    /\ heard' = heard \cup {u \in S : Due(u) /\ "rewards" \notin duty}
    /\ UNCHANGED <<now, duty, date, status, settings, actors, paid, paidTo, fair, raced, marks>>

SaveSettings ==
    /\ Pay("asks")
    /\ \E s \in DOMAIN settings : settings' = [settings EXCEPT ![s] = ~@]
    /\ UNCHANGED <<now, duty, date, status, referral, actors, ghosts>>

RunNow(t) ==
    /\ t \notin duty
    /\ Pay("asks")
    /\ duty' = duty \cup {t}
    /\ UNCHANGED <<now, tables, actors, ghosts>>

----------------------------------------------------------------------------
(***************************************************************************)
(* The day: update_user_status every hour, the rewards at 2:15, the cleanup *)
(* at noon; what is due when VODUM starts late is run then.                 *)
(***************************************************************************)
UpdateStatus ==
    /\ job.at = "rest"
    /\ status' = [u \in User |-> Status(date[u])]
    /\ status' # status
    /\ UNCHANGED <<now, duty, date, referral, settings, actors, ghosts, budget>>

Tick ==
    /\ job.at = "rest" /\ duty = {}
    /\ now \div 2 < MaxDay
    /\ now' = now + 1
    /\ duty' = IF now' % 2 = 0 THEN {"rewards"} ELSE {"cleanup"}
    /\ UNCHANGED <<tables, actors, ghosts, budget>>

\* The rewards of a run that ends early: what it had not come to had its chance.
Torn ==
    /\ job' = Idle
    /\ heard' = heard \cup job.todo \cup ({job.cur} \ {None})
    /\ marks' = IF job.at = "record" THEN [marks EXCEPT ![job.cur] = @ \cup {"torn"}] ELSE marks

\* An exception in a run.
FailRun ==
    /\ job.at # "rest"
    /\ Pay("faults")
    /\ Torn
    /\ UNCHANGED <<now, duty, tables, page, gift, paid, paidTo, fair, raced>>

\* The process dies; the run may be made again when it is back.
Death ==
    /\ Pay("faults")
    /\ Torn
    /\ page' = IF page.at = "form" THEN page ELSE NoForm
    /\ gift' = NoGift
    /\ \E again \in {{}} \cup (CASE job.at \in {"row", "pay", "record"} -> {{"rewards"}}
                                 [] job.at \in {"archiveRewarded", "archiveExpired"} -> {{"cleanup"}}
                                 [] OTHER -> {}) :
           duty' = duty \cup again
    /\ UNCHANGED <<now, tables, paid, paidTo, fair, raced>>

----------------------------------------------------------------------------
Rewards ==
    \/ StartRewards \/ PayReferrer \/ RecordReward \/ EndRewards
    \/ \E u \in Referred : SkipReferral(u) \/ ReadReferrer(u)

Cleanup == ExpirePending \/ ArchiveRewarded \/ ArchiveExpired

SaveUser ==
    \/ \E u \in User : ShowForm(u)
    \/ ReadUser \/ RefuseReferrer \/ KeepReferrer \/ CancelReferral \/ ChangeReferrer \/ SaveDate

Active == {u \in User : status[u] = "active"}

Gifts ==
    \/ \E S \in {User, Active} \cup {{u} : u \in Active} : AskGift(S)
    \/ \E u \in User : GiveDays(u)

ReferralPage ==
    \/ \E S \in SUBSET Referred : ArchiveReferrals(S) \/ RestoreReferrals(S)
    \/ SaveSettings
    \/ \E t \in Task : RunNow(t)

Next ==
    \/ Rewards \/ Cleanup \/ SaveUser \/ Gifts \/ ReferralPage
    \/ UpdateStatus \/ Tick \/ FailRun \/ Death

Spec == Init /\ [][Next]_vars

----------------------------------------------------------------------------
(***************************************************************************)
(* A referral is rewarded once: no order of runs, failures, archiving and   *)
(* changes of the referrer pays it again.  The exceptions: the run broke    *)
(* off between the payment and its record; the row changed under the hands  *)
(* of the page or the run; the referral was begun again after it had been   *)
(* archived (which the page does not take for "after qualification/reward").*)
(***************************************************************************)
RewardedOnce ==
    \A u \in Referred : paid[u] <= 1 \/ marks[u] \cap {"torn", "crossed", "rearmed"} # {}

(***************************************************************************)
(* The record is right: a referral says it was rewarded exactly if its      *)
(* present referrer was, but for the time between the two writes.           *)
(***************************************************************************)
RewardsAreOnRecord ==
    \A u \in Referred :
        \/ marks[u] \cap {"torn", "crossed"} # {}
        \/ job.at = "record" /\ job.cur = u
        \/ referral[u].granted = Never /\ paidTo[u] = None
        \/ referral[u].granted # Never /\ paidTo[u] = referral[u].by

(***************************************************************************)
(* Days add up: rewards, gifts and entered dates follow each other without  *)
(* loss on every date that nobody wrote while another held a reading of it  *)
(* (a form that was shown is such a reading: saved as it is, it puts the    *)
(* old date back).                                                          *)
(***************************************************************************)
DaysAddUp == \A u \in User : date[u] = fair[u] \/ u \in raced

(***************************************************************************)
(* The archive gives back what it took, whatever happened before; except    *)
(* that a referral which had expired and was begun again comes back expired.*)
(***************************************************************************)
RestoreGivesBack ==
    \A u \in InStatus("archived") :
        Restored(referral[u]) = referral[u].was \/ "revived" \in marks[u]

(***************************************************************************)
(* No referral expires without its chance: the cleanup, which does not ask  *)
(* whether it qualifies, takes none that the rewards run has not looked at  *)
(* since it fell due, found ineligible, or dropped by breaking off (or that *)
(* came out of the archive too late, or while the program was off).         *)
(***************************************************************************)
ExpiredHadItsChance ==
    [][\A u \in Referred :
         referral[u].status = "pending" /\ referral'[u].status = "expired"
             => u \in heard \/ "rewards" \in duty]_vars
====
