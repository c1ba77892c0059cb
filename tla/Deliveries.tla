---- MODULE Deliveries ----
(***************************************************************************)
(* The rows of the two outboxes, comm_campaign_targets and comm_scheduled,  *)
(* and what both sending tasks do with a row: read it, send through         *)
(* send_to_user, write the outcome back.  Campaigns and ScheduledMessages   *)
(* add what is different; Communications composes them.                     *)
(*                                                                          *)
(* Both tasks run on the engine's only worker, hence one `run`.  A time in  *)
(* a row is null, still to come, or past.                                   *)
(***************************************************************************)
EXTENDS Integers, Sequences, FiniteSets

CONSTANTS
    User,         \* the recipients of the campaign
    NeverUsed,    \* those passed over by skip_never_used_accounts
    Thread,       \* request threads
    MaxAttempts,  \* max_attempts of a row (10)
    MaxCatchups,  \* catch-up cycles of a scheduled message (3)
    MaxAsks,      \* bound: requests
    MaxFailures,  \* bound: messages that some channel refuses
    MaxDeaths     \* bound: deaths of the process

Msg == "message"   \* the key of the scheduled message

ASSUME NeverUsedType == NeverUsed \subseteq User
ASSUME UsersAreFinite == IsFiniteSet(User)
ASSUME MsgIsNoUser == Msg \notin User
ASSUME AttemptBounds == MaxAttempts \in Nat \ {0} /\ MaxCatchups \in Nat
ASSUME CommBounds == MaxAsks \in Nat /\ MaxFailures \in Nat /\ MaxDeaths \in Nat

Channel == {"email", "discord"}

VARIABLES
    sendMode,   \* settings.notifications_send_mode
    avail,      \* the channels that are configured
    row,        \* the rows, by recipient or Msg
    run,        \* the sending task in hand
    got,        \* history: per row, how often each channel has delivered it
    excused,    \* history: a death or a change of mode explains a repetition
    budget      \* requests, failures and deaths still allowed

settings == <<sendMode, avail>>
history == <<got, excused>>

Key == User \cup {Msg}

Row == [status : {"none", "pending", "sent", "error"},
        id     : Nat,                       \* AUTOINCREMENT
        tries  : 0..MaxAttempts,            \* attempt_count
        when   : {"null", "later", "now"},  \* send_at if pending, next_attempt_at if not
        used   : SUBSET Channel]            \* channels_sent

Phase == {"idle", "tests", "summary", "reconcile", "read", "start", "testing", "next",
          "send", "sent", "effects", "store", "tally", "apply", "catchup", "schedule"}

CampaignStatus == {"draft", "pending", "sending", "finished", "error", "deleted"}

Run == [task    : {"none", "campaigns", "messages"},
        phase   : Phase,
        mode    : {"first", "all"},          \* the settings it has read
        avail   : SUBSET Channel,
        batch   : Seq([key : Key, row : Row]),
        ok      : SUBSET Channel,            \* the attempts that succeeded
        again   : BOOLEAN,                   \* the second flush
        verdict : CampaignStatus \ {"deleted"}]  \* the status computed from the targets

NoRow == [status |-> "none", id |-> 0, tries |-> 0, when |-> "null", used |-> {}]

AtRest == [task |-> "none", phase |-> "idle", mode |-> "first", avail |-> {},
           batch |-> <<>>, ok |-> {}, again |-> FALSE, verdict |-> "draft"]

Pay(what) ==
    /\ budget[what] > 0
    /\ budget' = [budget EXCEPT ![what] = @ - 1]

DeliveriesType ==
    /\ sendMode \in {"first", "all"}
    /\ avail \in SUBSET Channel
    /\ row \in [Key -> Row]
    /\ run \in Run
    /\ got \in [Key -> [Channel -> 0..2]]
    /\ excused \in BOOLEAN
    /\ budget \in [{"ask", "failure", "death"} -> Nat]

DeliveriesInit ==
    /\ sendMode \in {"first", "all"}
    /\ avail \in (SUBSET Channel) \ {{}}
    /\ row = [k \in Key |-> NoRow]
    /\ run = AtRest
    /\ got = [k \in Key |-> [c \in Channel |-> 0]]
    /\ excused = FALSE
    /\ budget = [ask |-> MaxAsks, failure |-> MaxFailures, death |-> MaxDeaths]

----------------------------------------------------------------------------
(***************************************************************************)
(* Rows.                                                                    *)
(***************************************************************************)
NewRow(old, when) ==
    [status |-> "pending", id |-> old.id + 1, tries |-> 0, when |-> when, used |-> {}]

Deleted(old) == [NoRow EXCEPT !.id = old.id]

IsFinal(r) == r.status = "error" /\ r.tries >= MaxAttempts
IsRetryable(r) == r.status = "error" /\ r.tries < MaxAttempts
\* Mutant: no second attempt.
IsDueOnce(r) == r.when = "now" /\ r.status = "pending"
IsDue(r) == r.when = "now" /\ (r.status = "pending" \/ IsRetryable(r))
IsSettled(r) == r.status = "sent" \/ IsFinal(r)

MarkedSent(r, used) == [r EXCEPT !.status = "sent", !.when = "null", !.used = used]

\* The next attempt is counted from the row as it was read.
MarkedFailed(r, seen, used) ==
    [r EXCEPT !.status = "error", !.tries = seen.tries + 1, !.used = used,
              !.when = IF seen.tries + 1 >= MaxAttempts THEN "null" ELSE "later"]

\* Mutant: the channels that have been used are forgotten.
RevivedAfresh(r) == [r EXCEPT !.status = "pending", !.tries = 0, !.when = "now", !.used = {}]

\* A fresh cycle of attempts; channels_sent stays.
Revived(r) == [r EXCEPT !.status = "pending", !.tries = 0, !.when = "now"]

----------------------------------------------------------------------------
(***************************************************************************)
(* The sending tasks.                                                       *)
(***************************************************************************)
TaskAt(task, phase) == run.task = task /\ run.phase = phase
TaskTo(phase) == run' = [run EXCEPT !.phase = phase]

Begin(task, phase) ==
    /\ run.task = "none"
    /\ run' = [AtRest EXCEPT !.task = task, !.phase = phase, !.mode = sendMode,
                             !.avail = avail]

InHand == Head(run.batch)

\* The row a statement with WHERE id = ? still finds.
SameRow(k, id) == row[k].status # "none" /\ row[k].id = id

\* Mutant: by campaign and user instead of by id.
UpdateInHandByKey(r) == row' = [row EXCEPT ![InHand.key] = r]

UpdateInHand(r) ==
    row' = IF SameRow(InHand.key, InHand.row.id) THEN [row EXCEPT ![InHand.key] = r] ELSE row

NextInBatch(phase) == run' = [run EXCEPT !.phase = phase, !.batch = Tail(@), !.ok = {}]

\* The channels a row needs to have gone through; none in mode "first", where
\* one success is enough.
Required(mailOnly) ==
    IF mailOnly THEN {"email"} ELSE IF run.mode = "all" THEN run.avail ELSE {}

\* The channels that still have to be gone through.
Forced(required) == required \ InHand.row.used

\* send_to_user: forced channels are all tried, otherwise one after the other
\* until the first success.
Outcomes(forced) ==
    IF forced # {} THEN SUBSET (forced \cap run.avail)
    ELSE {{}} \cup {{c} : c \in run.avail}

Succeeds(required, ok) ==
    IF run.mode = "all" THEN required # {} /\ required \subseteq InHand.row.used \cup ok
    ELSE ok # {}

Count(k, ok) ==
    got' = [got EXCEPT ![k] = [c \in Channel |-> IF c \in ok /\ @[c] < 2 THEN @[c] + 1 ELSE @[c]]]

\* No channel has refused: whatever is missing is not configured.
NothingRefused(forced, ok) == ok = (IF forced = {} THEN run.avail ELSE forced \cap run.avail)

\* Provider calls, then record_history.
SendToUser(required) ==
    /\ \E ok \in Outcomes(Forced(required)) :
        /\ IF Succeeds(required, ok) \/ NothingRefused(Forced(required), ok)
           THEN UNCHANGED budget ELSE Pay("failure")
        /\ IF SameRow(InHand.key, InHand.row.id) THEN Count(InHand.key, ok) ELSE UNCHANGED got
        /\ run' = [run EXCEPT !.ok = ok, !.phase = "sent"]
    /\ UNCHANGED <<settings, row, excused>>

UsedByNow == InHand.row.used \cup run.ok

WriteOutcome(required) ==
    UpdateInHand(IF Succeeds(required, run.ok)
                 THEN MarkedSent(row[InHand.key], UsedByNow)
                 ELSE MarkedFailed(row[InHand.key], InHand.row, UsedByNow))

\* In mode "all", or for mail only, nothing may be missing any more.
NothingMissing(required) == required # {} /\ required \subseteq InHand.row.used

\* Time passes between tasks: a task reads what is due before it sends anything.
TimeComes(k) ==
    /\ run.task = "none"
    /\ row[k].when = "later"
    /\ row' = [row EXCEPT ![k].when = "now"]
    /\ UNCHANGED <<settings, run, history, budget>>
====
