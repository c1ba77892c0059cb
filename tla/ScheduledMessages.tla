---- MODULE ScheduledMessages ----
(***************************************************************************)
(* One message of comm_scheduled, known by its dedupe_key: the producers    *)
(* that schedule it (schedule_template_notification), the task              *)
(* send_expiration_emails that sends it and does what follows a delivery,   *)
(* its catch-up of final failures, and the manual retry.                    *)
(*                                                                          *)
(* The message is a notice of expiration, which the task schedules itself;  *)
(* a suggestion to upgrade, which begins a cooldown when it is delivered;   *)
(* or the welcome of a new user, which goes by email only; "none" when no   *)
(* message is considered.                                                   *)
(***************************************************************************)
EXTENDS Deliveries

CONSTANT Event   \* the kinds of message to consider

ASSUME EventType == Event \subseteq {"expiration", "suggestion", "creation", "none"}

VARIABLES
    event,    \* the kind of the message
    extras,   \* what else is kept of it
    order     \* per thread: the message being scheduled

messageVars == <<event, extras, order>>

Extras == [catchups : 0..MaxCatchups,
           cooling  : BOOLEAN,            \* last_catchup_at is within 24 hours
           marked   : SUBSET Channel,     \* sent_emails, sent_discord
           noted    : BOOLEAN]            \* the cooldown of suggestions has begun

Order == [step : {"rest", "store"}, found : Row]

NoOrder == [step |-> "rest", found |-> NoRow]

MessagesType ==
    /\ event \in Event
    /\ extras \in Extras
    /\ order \in [Thread -> Order]

MessagesInit ==
    /\ event \in Event
    /\ extras = [catchups |-> 0, cooling |-> FALSE, marked |-> {}, noted |-> FALSE]
    /\ order = [t \in Thread |-> NoOrder]

MailOnly == event = "creation"

----------------------------------------------------------------------------
(***************************************************************************)
(* schedule_template_notification: look for the dedupe_key, then insert the *)
(* row or revive it.                                                        *)
(***************************************************************************)
Store(found, when) ==
    row' = [row EXCEPT ![Msg] =
              IF found.status = "none" THEN IF @.status = "none" THEN NewRow(@, when) ELSE @
              ELSE IF IsFinal(found) THEN [Revived(@) EXCEPT !.when = when]
              ELSE @]

LookUp(t) ==
    /\ order[t].step = "rest"
    /\ event = "creation"
    /\ Pay("ask")
    /\ order' = [order EXCEPT ![t] = [step |-> "store", found |-> row[Msg]]]
    /\ UNCHANGED <<settings, row, run, history, event, extras>>

\* A welcome may be due only days after the user was created.
StoreMessage(t) ==
    /\ order[t].step = "store"
    /\ \E when \in {"later", "now"} :
        Store(order[t].found, when)
    /\ order' = [order EXCEPT ![t] = NoOrder]
    /\ UNCHANGED <<settings, run, history, budget, event, extras>>

\* usage_risk_notifications, a task of the same worker.
ScheduleSuggestion ==
    /\ event = "suggestion" /\ ~extras.noted
    /\ run.task = "none"
    /\ Pay("ask")
    /\ Store(row[Msg], "now")
    /\ UNCHANGED <<settings, run, history, messageVars>>

\* retry_failed_scheduled_communications.
RetryFailed(t) ==
    /\ row[Msg].status = "error"
    /\ Pay("ask")
    /\ row' = [row EXCEPT ![Msg] = Revived(@)]
    /\ UNCHANGED <<settings, run, history, event, extras, order>>

----------------------------------------------------------------------------
(***************************************************************************)
(* send_expiration_emails: catch-up, flush, notices of expiration, flush.   *)
(***************************************************************************)
CanCatchUp ==
    /\ IsFinal(row[Msg])
    /\ extras.catchups < MaxCatchups
    /\ ~extras.cooling
    /\ "email" \notin row[Msg].used

\* _already_sent_for_current_mode.
AlreadySent ==
    IF run.mode = "all" THEN run.avail # {} /\ run.avail \subseteq extras.marked
    ELSE run.avail \cap extras.marked # {}

\* Scheduled runs that would find nothing are left out, and so is the run that
\* finds no channel configured.
StartMessages ==
    /\ avail # {}
    /\ \/ IsDue(row[Msg])
       \/ CanCatchUp /\ "email" \in avail
       \/ event = "expiration" /\ (row[Msg].status = "none" \/ IsFinal(row[Msg]))
    /\ Begin("messages", "catchup")
    /\ UNCHANGED <<settings, row, history, budget, messageVars>>

\* recover_missed_scheduled_emails; the thirty days do not pass here.
CatchUp ==
    /\ TaskAt("messages", "catchup")
    /\ IF CanCatchUp /\ "email" \in run.avail
       THEN /\ row' = [row EXCEPT ![Msg] = Revived(@)]
            /\ extras' = [extras EXCEPT !.catchups = @ + 1, !.cooling = TRUE]
       ELSE UNCHANGED <<row, extras>>
    /\ TaskTo("read")
    /\ UNCHANGED <<settings, history, budget, event, order>>

\* The first flush is followed by the notices, the second by the end.
AfterFlush == IF run.again THEN AtRest ELSE [run EXCEPT !.phase = "schedule", !.batch = <<>>]

ReadMessages ==
    /\ TaskAt("messages", "read")
    /\ run' = IF IsDue(row[Msg])
              THEN [run EXCEPT !.phase = "next", !.batch = <<[key |-> Msg, row |-> row[Msg]]>>]
              ELSE AfterFlush
    /\ UNCHANGED <<settings, row, history, budget, messageVars>>

TakeMessage ==
    /\ TaskAt("messages", "next")
    /\ ~NothingMissing(Required(MailOnly))
    /\ TaskTo("send")
    /\ UNCHANGED <<settings, row, history, budget, messageVars>>

PassMessage ==
    /\ TaskAt("messages", "next")
    /\ NothingMissing(Required(MailOnly))
    /\ UpdateInHand(MarkedSent(row[Msg], InHand.row.used))
    /\ run' = AfterFlush
    /\ UNCHANGED <<settings, history, budget, messageVars>>

SendMessage == TaskAt("messages", "send") /\ SendToUser(Required(MailOnly)) /\ UNCHANGED messageVars

\* History and markers come before the row.
MarkChannels ==
    /\ TaskAt("messages", "sent")
    /\ extras' = IF event = "expiration" THEN [extras EXCEPT !.marked = @ \cup run.ok] ELSE extras
    /\ TaskTo("store")
    /\ UNCHANGED <<settings, row, history, budget, event, order>>

WriteMessage ==
    /\ TaskAt("messages", "store")
    /\ WriteOutcome(Required(MailOnly))
    /\ run' = IF Succeeds(Required(MailOnly), run.ok) THEN [run EXCEPT !.phase = "effects"]
              ELSE AfterFlush
    /\ UNCHANGED <<settings, history, budget, messageVars>>

\* usage_risk_recommendations: the cooldown begins.
NoteDelivery ==
    /\ TaskAt("messages", "effects")
    /\ extras' = IF event = "suggestion" THEN [extras EXCEPT !.noted = TRUE] ELSE extras
    /\ run' = AfterFlush
    /\ UNCHANGED <<settings, row, history, budget, event, order>>

\* The notice of a user whose date is near, unless it has been sent.
ScheduleNotice ==
    /\ TaskAt("messages", "schedule")
    /\ IF event = "expiration" /\ ~AlreadySent THEN Store(row[Msg], "now") ELSE UNCHANGED row
    /\ run' = [run EXCEPT !.phase = "read", !.again = TRUE]
    /\ UNCHANGED <<settings, history, budget, messageVars>>

RunMessages ==
    \/ CatchUp \/ ReadMessages \/ TakeMessage \/ PassMessage
    \/ SendMessage \/ MarkChannels \/ WriteMessage \/ NoteDelivery \/ ScheduleNotice

ADayPasses ==
    /\ run.task = "none"
    /\ extras.cooling
    /\ extras' = [extras EXCEPT !.cooling = FALSE]
    /\ UNCHANGED <<settings, row, run, history, budget, event, order>>

\* A delivered suggestion is followed by another one, under another key, when
\* its cooldown is over.
CooldownEnds ==
    /\ extras.noted
    /\ run.task = "none"
    /\ Pay("ask")
    /\ row' = [row EXCEPT ![Msg] = Deleted(@)]
    /\ got' = [got EXCEPT ![Msg] = [c \in Channel |-> 0]]
    /\ extras' = [catchups |-> 0, cooling |-> FALSE, marked |-> {}, noted |-> FALSE]
    /\ UNCHANGED <<settings, run, excused, event, order>>
====
