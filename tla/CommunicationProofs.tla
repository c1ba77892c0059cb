---- MODULE CommunicationProofs ----
(***************************************************************************)
(* Theorems about Communications, for every set of users and of requests,   *)
(* every number of attempts and of catch-ups, and any number of failures    *)
(* and deaths; the campaign and the message share the worker.               *)
(***************************************************************************)
EXTENDS Communications, FiniteSetTheorems, TLAPS

\* The phases in which the task has rows in hand, and those in which a
\* message has left that its row does not say yet.
Holds == run.phase \in {"next", "send", "sent", "store"}
Sent == run.phase \in {"sent", "store"}

InFlight(k, c) == Sent /\ InHand.key = k /\ SameRow(k, InHand.row.id) /\ c \in run.ok

KeysOf(task) == IF task = "campaigns" THEN User ELSE {Msg}

ToSend == IF run.task = "campaigns" THEN Required(FALSE) ELSE Required(MailOnly)

Entry == [key : Key, row : Row]

RowInv == \A k \in Key :
    /\ row[k].status = "pending" => row[k].tries = 0
    /\ row[k].status = "none" => row[k].used = {}
    /\ row[k].status = "none" /\ k = Msg => \A c \in Channel : got[k][c] = 0

RunInv ==
    /\ run.task = "none" => run = AtRest
    /\ Holds => run.task # "none"
    /\ Holds /\ (run.phase # "next" \/ run.task = "messages") => run.batch # <<>>
    /\ run.phase = "store" => run.task = "messages"
    /\ run.phase = "send" => ~NothingMissing(ToSend)

\* A row in hand is the one that was read, but for its tries and its time, or
\* another one has taken its place.
BatchInv == Holds =>
    /\ \A i \in 1..Len(run.batch) :
        /\ run.batch[i].key \in KeysOf(run.task)
        /\ run.batch[i].row.tries < MaxAttempts
        /\ run.batch[i].row.id <= row[run.batch[i].key].id
        /\ SameRow(run.batch[i].key, run.batch[i].row.id) =>
             /\ row[run.batch[i].key].used = run.batch[i].row.used
             /\ row[run.batch[i].key].status # "sent"
    /\ \A i, j \in 1..Len(run.batch) : run.batch[i].key = run.batch[j].key => i = j

\* Which rows there can be.
EventInv ==
    /\ campaign.status = "deleted" => \A u \in User : row[u].status = "none"
    /\ extras.noted => event = "suggestion"
    /\ \A t \in Thread : order[t].step = "store" =>
         event = "creation" /\ (order[t].found.status # "none" => row[Msg].status # "none")

\* A channel that a row says was used, or is about to say, was used.
DeliveredInv ==
    /\ \A k \in Key : \A c \in row[k].used : got[k][c] > 0
    /\ \A k \in Key, c \in Channel : InFlight(k, c) => got[k][c] > 0

\* A row that is not finished has used no channel, unless every channel is
\* wanted, or the message goes by mail only.
FirstIsEnough == \A k \in Key :
    (k = Msg /\ MailOnly) \/ row[k].status = "sent" \/ row[k].used = {}

OnceInv == ~excused =>
    /\ \A k \in Key, c \in Channel :
         /\ got[k][c] <= 1
         /\ row[k].status # "none" /\ got[k][c] > 0 => c \in row[k].used \/ InFlight(k, c)
    /\ run.mode = "all" => sendMode = "all"
    /\ sendMode = "first" \/ (run.task # "none" /\ run.mode = "first") => FirstIsEnough

IInv == /\ TypeOK /\ RowInv /\ RunInv /\ BatchInv /\ EventInv
        /\ DeliveredInv /\ SentWasDelivered /\ OnceInv

----------------------------------------------------------------------------
(***************************************************************************)
(* The operators on rows.                                                   *)
(***************************************************************************)
LEMMA Nothings == /\ NoRow \in Row /\ AtRest \in Run /\ NoOrder \in Order /\ Quiet \in Request
                  /\ Msg \in Key /\ User \subseteq Key
  BY AttemptBounds DEF NoRow, AtRest, NoOrder, Quiet, Row, Run, Order, Request, Phase, CampaignStatus, Key

\* What a row keeps when it gets another turn.
RowKeeps(r, s) ==
    /\ s \in Row
    /\ s.id = r.id /\ s.used = r.used
    /\ s.status = "none" <=> r.status = "none"
    /\ s.status = "sent" => r.status = "sent"
    /\ s.status = "pending" => s.tries = 0

\* A new row in the place of none.
RowBegins(r, s) ==
    /\ s \in Row
    /\ s.id = r.id + 1 /\ s.used = {} /\ s.status = "pending" /\ s.tries = 0

\* No row any more.
RowGoes(r, s) == s \in Row /\ s.id = r.id /\ s.used = {} /\ s.status = "none"

LEMMA RowOps ==
    ASSUME NEW r \in Row
    PROVE  /\ \A when \in {"later", "now"} : RowBegins(r, NewRow(r, when))
           /\ RowGoes(r, Deleted(r))
           /\ r.status # "none" => RowKeeps(r, Revived(r))
           /\ \A when \in {"later", "now"} :
                r.status # "none" => RowKeeps(r, [Revived(r) EXCEPT !.when = when])
           /\ (r.status = "pending" => r.tries = 0) => RowKeeps(r, [r EXCEPT !.when = "now"])
<1> USE AttemptBounds DEF Row
<1>1. ASSUME NEW when \in {"later", "now"} PROVE RowBegins(r, NewRow(r, when))
  BY DEF RowBegins, NewRow
<1>2. RowGoes(r, Deleted(r))
  BY DEF RowGoes, Deleted, NoRow
<1>0. /\ Revived(r) \in Row /\ Revived(r).status = "pending" /\ Revived(r).tries = 0
      /\ Revived(r).id = r.id /\ Revived(r).used = r.used
  <2>1. 0 \in 0..MaxAttempts
    OBVIOUS
  <2> QED
    BY <2>1 DEF Revived
<1>3. r.status # "none" => RowKeeps(r, Revived(r))
  BY <1>0 DEF RowKeeps
<1>4. ASSUME NEW when \in {"later", "now"}, r.status # "none"
      PROVE  RowKeeps(r, [Revived(r) EXCEPT !.when = when])
  <2> DEFINE s == Revived(r)
  <2>1. s \in Row /\ s.status = "pending" /\ s.tries = 0 /\ s.id = r.id /\ s.used = r.used
    BY <1>0
  <2> SUFFICES RowKeeps(r, [s EXCEPT !.when = when])
    OBVIOUS
  <2> HIDE DEF s
  <2> QED
    BY <1>4, <2>1 DEF RowKeeps
<1>5. (r.status = "pending" => r.tries = 0) => RowKeeps(r, [r EXCEPT !.when = "now"])
  BY DEF RowKeeps
<1> QED
  BY <1>1, <1>2, <1>3, <1>4, <1>5

\* The outcomes of an attempt.
LEMMA RowOutcomes ==
    ASSUME NEW r \in Row, NEW seen \in Row, NEW used \in SUBSET Channel
    PROVE  /\ MarkedSent(r, used) \in Row /\ MarkedSent(r, used).id = r.id
           /\ MarkedSent(r, used).used = used /\ MarkedSent(r, used).status = "sent"
           /\ seen.tries < MaxAttempts => MarkedFailed(r, seen, used) \in Row
           /\ MarkedFailed(r, seen, used).id = r.id
           /\ MarkedFailed(r, seen, used).used = used /\ MarkedFailed(r, seen, used).status = "error"
<1>1. /\ MarkedSent(r, used) \in Row /\ MarkedSent(r, used).id = r.id
      /\ MarkedSent(r, used).used = used /\ MarkedSent(r, used).status = "sent"
  BY DEF Row, MarkedSent
<1>2. /\ MarkedFailed(r, seen, used).id = r.id
      /\ MarkedFailed(r, seen, used).used = used /\ MarkedFailed(r, seen, used).status = "error"
  BY DEF Row, MarkedFailed
<1>3. ASSUME seen.tries < MaxAttempts PROVE MarkedFailed(r, seen, used) \in Row
  <2>1. seen.tries + 1 \in 0..MaxAttempts
    BY <1>3, AttemptBounds DEF Row
  <2> QED
    BY <2>1 DEF Row, MarkedFailed
<1> QED
  BY <1>1, <1>2, <1>3

\* A row that is due has attempts left.
LEMMA DueHasTries ==
    ASSUME NEW r \in Row, IsDue(r), r.status = "pending" => r.tries = 0
    PROVE  r.tries < MaxAttempts /\ r.status \in {"pending", "error"}
  BY AttemptBounds DEF IsDue, IsRetryable, Row

\* What one sending adds to the deliveries of a row.
LEMMA Counting ==
    ASSUME got \in [Key -> [Channel -> 0..2]], NEW k \in Key, NEW ok \in SUBSET Channel, Count(k, ok)
    PROVE  /\ got' \in [Key -> [Channel -> 0..2]]
           /\ \A j \in Key \ {k} : got'[j] = got[j]
           /\ \A c \in ok : got'[k][c] > 0 /\ (got[k][c] = 0 => got'[k][c] = 1)
           /\ \A c \in Channel \ ok : got'[k][c] = got[k][c]
           /\ \A c \in Channel : got[k][c] <= got'[k][c]
<1> DEFINE more == [c \in Channel |-> IF c \in ok /\ got[k][c] < 2 THEN got[k][c] + 1 ELSE got[k][c]]
<1>1. got' = [got EXCEPT ![k] = more]
  BY DEF Count
<1>2. more \in [Channel -> 0..2]
  OBVIOUS
<1>3. got'[k] = more
  BY <1>1
<1> QED
  BY <1>1, <1>2, <1>3

\* A row in the hands of somebody else than the sending task.
Kept(k) ==
    /\ RowKeeps(row[k], row'[k])
    /\ row[k].status = "sent" => row'[k].status = "sent" \/ (k = Msg /\ MailOnly)
    /\ got'[k] = got[k] \/ (row[k].status = "none" /\ \A c \in Channel : got'[k][c] = 0)

Begun(k) ==
    /\ row[k].status = "none" /\ RowBegins(row[k], row'[k])
    /\ \A c \in Channel : got'[k][c] = 0

Gone(k) ==
    /\ RowGoes(row[k], row'[k])
    /\ IF k = Msg THEN run = AtRest /\ event = "suggestion" /\ \A c \in Channel : got'[k][c] = 0
                   ELSE got'[k] = got[k]

RowsAside ==
    /\ row' \in [Key -> Row] /\ got' \in [Key -> [Channel -> 0..2]]
    /\ \A k \in Key : Kept(k) \/ Begun(k) \/ Gone(k)

Leaves ==
    /\ run'.phase \notin {"next", "send", "sent", "store"}
    /\ \/ run' = AtRest
       \/ run'.task = run.task /\ run'.mode = run.mode /\ run.task # "none"
       \/ run'.task # "none" /\ run'.mode = sendMode /\ run.task = "none"

(***************************************************************************)
(* The steps, as far as a delivery goes.                                    *)
(***************************************************************************)
Apart == RowsAside /\ UNCHANGED <<run, sendMode, excused>>

Resting ==
    /\ RowsAside /\ Leaves
    /\ UNCHANGED sendMode
    /\ excused => excused'
    /\ Sent => excused' \/ run.ok = {} \/ ~SameRow(InHand.key, InHand.row.id)

Changing == SaveConfiguration

Reading ==
    /\ run.task # "none" /\ run.phase = "read"
    /\ run'.phase = "next" /\ run'.task = run.task /\ run'.mode = run.mode
    /\ run.task = "messages" => run'.batch # <<>>
    /\ run'.batch \in Seq(Entry)
    /\ \A i \in 1..Len(run'.batch) :
        /\ run'.batch[i].key \in KeysOf(run.task)
        /\ run'.batch[i].row = row[run'.batch[i].key]
        /\ IsDue(run'.batch[i].row)
    /\ \A i, j \in 1..Len(run'.batch) : run'.batch[i].key = run'.batch[j].key => i = j
    /\ UNCHANGED <<row, got, sendMode, excused>>

Taking ==
    /\ run.phase = "next" /\ run.batch # <<>>
    /\ ~NothingMissing(ToSend)
    /\ TaskTo("send")
    /\ UNCHANGED <<row, got, sendMode, excused>>

Sending == run.phase = "send" /\ SendToUser(ToSend)

Marking ==
    /\ run.phase = "sent" /\ run.task = "messages"
    /\ TaskTo("store")
    /\ UNCHANGED <<row, got, sendMode, excused>>

\* What is written to the row in hand.
Written(s) ==
    /\ s \in Row /\ s.id = row[InHand.key].id /\ s.status \in {"sent", "error"}
    /\ s.used = InHand.row.used \cup (IF Sent THEN run.ok ELSE {})
    /\ s.status = "sent" => s.used # {} \/ InHand.key \in NeverUsed
    /\ s.status = "error" => Sent /\ (run.mode = "first" => run.ok = {})

Writing ==
    /\ run.phase \in {"next", "sent", "store"} /\ run.batch # <<>>
    /\ \E s \in Row : Written(s) /\ UpdateInHand(s)
    /\ Leaves \/ (run.task = "campaigns" /\ NextInBatch("next"))
    /\ UNCHANGED <<got, sendMode, excused>>

Kind == Apart \/ Resting \/ Changing \/ Reading \/ Taking \/ Sending \/ Marking \/ Writing

LEMMA HeadInHand ==
    ASSUME TypeOK, run.batch # <<>>
    PROVE  /\ run.batch \in Seq(Entry) /\ InHand = run.batch[1] /\ InHand \in Entry
           /\ 1 \in 1..Len(run.batch)
<1>1. run.batch \in Seq(Entry) /\ run \in Run
  BY DEF TypeOK, DeliveriesType, Run, Entry
<1> QED
  BY <1>1 DEF InHand

\* The row in hand, when the task of it holds one.
LEMMA InHandIs ==
    ASSUME IInv, Holds, run.batch # <<>>
    PROVE  /\ InHand \in Entry /\ InHand.key \in Key /\ InHand.row \in Row
           /\ InHand.key \in KeysOf(run.task) /\ InHand.row.tries < MaxAttempts
           /\ InHand.row.id <= row[InHand.key].id
           /\ SameRow(InHand.key, InHand.row.id) => /\ row[InHand.key].used = InHand.row.used
                                                    /\ row[InHand.key].status # "sent"
<1>1. InHand = run.batch[1] /\ InHand \in Entry /\ 1 \in 1..Len(run.batch)
  BY HeadInHand DEF IInv
<1> QED
  BY <1>1 DEF IInv, BatchInv, Entry

\* The rows that nobody writes are kept.
LEMMA NoRowMoves ==
    ASSUME IInv, UNCHANGED <<row, got>>
    PROVE  RowsAside
  BY DEF IInv, TypeOK, DeliveriesType, RowInv, RowsAside, Kept, RowKeeps

\* One row is written.
LEMMA OneRowMoves ==
    ASSUME IInv, NEW k \in Key, NEW s, row' = [row EXCEPT ![k] = s], UNCHANGED got,
           row[k].status = "sent" => s.status = "sent" \/ (k = Msg /\ MailOnly),
           RowKeeps(row[k], s) \/ (k = Msg /\ row[k].status = "none" /\ RowBegins(row[k], s))
    PROVE  RowsAside
<1>1. row \in [Key -> Row] /\ got \in [Key -> [Channel -> 0..2]] /\ row'[k] = s /\ s \in Row
  BY DEF IInv, TypeOK, DeliveriesType, RowKeeps, RowBegins
<1>2. ASSUME NEW j \in Key \ {k} PROVE Kept(j)
  BY <1>1 DEF IInv, RowInv, Kept, RowKeeps
<1>3. Kept(k) \/ Begun(k)
  BY <1>1 DEF IInv, RowInv, Kept, Begun
<1> QED
  BY <1>1, <1>2, <1>3 DEF RowsAside

\* The rows of the campaign are deleted.
LEMMA TargetsGo ==
    ASSUME IInv, UNCHANGED got,
           row' = [k \in Key |-> IF k \in User THEN Deleted(row[k]) ELSE row[k]]
    PROVE  RowsAside
<1>1. row \in [Key -> Row] /\ got \in [Key -> [Channel -> 0..2]]
  BY DEF IInv, TypeOK, DeliveriesType
<1>2. ASSUME NEW k \in User PROVE k \in Key /\ k # Msg /\ Gone(k)
  BY <1>1, RowOps, MsgIsNoUser DEF Gone, Key
<1>3. ASSUME NEW k \in Key \ User PROVE Kept(k)
  BY <1>1 DEF IInv, RowInv, Kept, RowKeeps
<1>4. row' \in [Key -> Row]
  BY <1>1, RowOps DEF RowGoes
<1> QED
  BY <1>1, <1>2, <1>3, <1>4 DEF RowsAside

\* The message is stored, or revived.
LEMMA StoreMoves ==
    ASSUME IInv, NEW found, NEW when \in {"later", "now"}, Store(found, when), UNCHANGED got,
           found.status # "none" => row[Msg].status # "none" /\ (found = row[Msg] \/ MailOnly)
    PROVE  RowsAside
<1>1. row[Msg] \in Row /\ Msg \in Key
  BY Nothings DEF IInv, TypeOK, DeliveriesType
<1>2. CASE found.status = "none" /\ row[Msg].status = "none"
  <2>1. row' = [row EXCEPT ![Msg] = NewRow(row[Msg], when)]
    BY <1>2 DEF Store
  <2> QED
    BY <1>1, <1>2, <2>1, RowOps, OneRowMoves
<1>3. CASE found.status # "none" /\ IsFinal(found)
  <2>1. row' = [row EXCEPT ![Msg] = [Revived(row[Msg]) EXCEPT !.when = when]]
    BY <1>3 DEF Store
  <2>2. row[Msg].status = "sent" => MailOnly
    BY <1>3 DEF IsFinal
  <2> QED
    BY <1>1, <1>3, <2>1, <2>2, RowOps, OneRowMoves
<1>4. CASE ~(found.status = "none" /\ row[Msg].status = "none") /\ ~(found.status # "none" /\ IsFinal(found))
  <2>1. row' = [row EXCEPT ![Msg] = row[Msg]]
    BY <1>4 DEF Store
  <2>2. RowKeeps(row[Msg], row[Msg])
    BY <1>1 DEF IInv, RowInv, RowKeeps
  <2> QED
    BY <1>1, <2>1, <2>2, OneRowMoves
<1> QED
  BY <1>2, <1>3, <1>4

LEMMA RequestKinds ==
    ASSUME IInv,
           \/ \E t \in Thread : AskCampaign(t) \/ QueueCampaign(t) \/ LookUp(t) \/ StoreMessage(t) \/ RetryFailed(t)
           \/ ScheduleSuggestion \/ CooldownEnds
           \/ HalfAnHourPasses \/ ADayPasses \/ \E k \in Key : TimeComes(k)
    PROVE  Apart
<1> USE DEF settings, history, campaignVars, messageVars
<1>0. row \in [Key -> Row] /\ got \in [Key -> [Channel -> 0..2]] /\ Msg \in Key
  BY Nothings DEF IInv, TypeOK, DeliveriesType
<1> SUFFICES RowsAside /\ UNCHANGED <<run, sendMode, excused>>
  BY DEF Apart
<1>1. ASSUME NEW t \in Thread, SendCampaign(t) \/ SendTest(t) \/ SaveCampaign(t) PROVE Apart
  BY <1>1, NoRowMoves DEF Apart, SendCampaign, SendTest, SaveCampaign
<1>2. ASSUME NEW t \in Thread, DeleteCampaign(t) \/ ClearTargets(t) PROVE Apart
  BY <1>2, TargetsGo DEF Apart, DeleteCampaign, ClearTargets
<1>3. ASSUME NEW t \in Thread, InsertTarget(t) PROVE Apart
  <2>1. PICK u \in request[t].todo :
          /\ row' = IF row[u].status = "none" /\ campaign.status # "deleted"
                    THEN [row EXCEPT ![u] = NewRow(row[u], "now")] ELSE row
          /\ got' = IF row[u].status = "none" THEN [got EXCEPT ![u] = [c \in Channel |-> 0]] ELSE got
    BY <1>3 DEF InsertTarget
  <2>2. UNCHANGED <<run, sendMode, excused>>
    BY <1>3 DEF InsertTarget
  <2>3. u \in User /\ u \in Key
    BY <2>1 DEF IInv, TypeOK, CampaignsType, Request, Key
  <2>4. RowBegins(row[u], NewRow(row[u], "now")) /\ RowKeeps(row[u], row[u])
    BY <1>0, <2>3, RowOps DEF IInv, RowInv, RowKeeps
  <2>5. ASSUME NEW k \in Key \ {u} PROVE Kept(k)
    BY <1>0, <2>1, <2>3 DEF IInv, RowInv, Kept, RowKeeps
  <2>6. Kept(u) \/ Begun(u)
    BY <1>0, <2>1, <2>3, <2>4 DEF Kept, Begun
  <2>7. row' \in [Key -> Row] /\ got' \in [Key -> [Channel -> 0..2]]
    <3>1. NewRow(row[u], "now") \in Row
      BY <2>4 DEF RowBegins
    <3>2. [c \in Channel |-> 0] \in [Channel -> 0..2]
      OBVIOUS
    <3> QED
      BY <1>0, <2>1, <2>3, <3>1, <3>2
  <2> QED
    BY <2>2, <2>5, <2>6, <2>7 DEF Apart, RowsAside
<1>4. ASSUME NEW t \in Thread, MarkSending(t) \/ CountQueued(t) \/ EnqueueDelivery(t) \/ CheckQueued(t) \/ MarkError(t)
      PROVE  Apart
  BY <1>4, NoRowMoves DEF Apart, MarkSending, CountQueued, EnqueueDelivery, CheckQueued, MarkError
<1>5. ASSUME NEW t \in Thread, LookUp(t) PROVE Apart
  BY <1>5, NoRowMoves DEF Apart, LookUp
<1>6. ASSUME NEW t \in Thread, StoreMessage(t) PROVE Apart
  <2>1. order[t].step = "store" /\ UNCHANGED <<run, got, sendMode, excused>>
    BY <1>6 DEF StoreMessage
  <2>2. PICK when \in {"later", "now"} : Store(order[t].found, when)
    BY <1>6 DEF StoreMessage
  <2>3. order[t].found.status # "none" => row[Msg].status # "none" /\ MailOnly
    BY <2>1 DEF IInv, EventInv, MailOnly
  <2> QED
    BY <2>1, <2>2, <2>3, StoreMoves DEF Apart
<1>7. ASSUME NEW t \in Thread, RetryFailed(t) PROVE Apart
  <2>1. /\ row[Msg].status = "error" /\ row' = [row EXCEPT ![Msg] = Revived(row[Msg])]
        /\ UNCHANGED <<run, got, sendMode, excused>>
    BY <1>7 DEF RetryFailed
  <2>2. RowKeeps(row[Msg], Revived(row[Msg]))
    BY <1>0, <2>1, RowOps
  <2> QED
    BY <1>0, <2>1, <2>2, OneRowMoves DEF Apart
<1>8. CASE ScheduleSuggestion
  BY <1>8, StoreMoves DEF Apart, ScheduleSuggestion
<1>9. CASE CooldownEnds
  <2>1. /\ row' = [row EXCEPT ![Msg] = Deleted(row[Msg])] /\ got' = [got EXCEPT ![Msg] = [c \in Channel |-> 0]]
        /\ run.task = "none" /\ extras.noted /\ UNCHANGED <<run, sendMode, excused>>
    BY <1>9 DEF CooldownEnds
  <2>2. RowGoes(row[Msg], Deleted(row[Msg])) /\ run = AtRest /\ event = "suggestion"
    BY <1>0, <2>1, RowOps DEF IInv, RunInv, EventInv
  <2>3. Gone(Msg)
    BY <1>0, <2>1, <2>2 DEF Gone
  <2>4. ASSUME NEW k \in Key \ {Msg} PROVE Kept(k)
    BY <1>0, <2>1 DEF IInv, RowInv, Kept, RowKeeps
  <2>5. row' \in [Key -> Row] /\ got' \in [Key -> [Channel -> 0..2]]
    <3>1. [c \in Channel |-> 0] \in [Channel -> 0..2]
      OBVIOUS
    <3> QED
      BY <1>0, <2>1, <2>2, <3>1 DEF RowGoes
  <2> QED
    BY <2>1, <2>3, <2>4, <2>5 DEF Apart, RowsAside
<1>10. CASE HalfAnHourPasses \/ ADayPasses
  BY <1>10, NoRowMoves DEF Apart, HalfAnHourPasses, ADayPasses
<1>11. ASSUME NEW k \in Key, TimeComes(k) PROVE Apart
  <2>1. /\ row' = [row EXCEPT ![k] = [row[k] EXCEPT !.when = "now"]]
        /\ UNCHANGED <<run, got, sendMode, excused>>
    BY <1>0, <1>11 DEF TimeComes
  <2>2. RowKeeps(row[k], [row[k] EXCEPT !.when = "now"])
    BY <1>0, RowOps DEF IInv, RowInv
  <2>3. [row[k] EXCEPT !.when = "now"].status = row[k].status
    BY <1>0 DEF Row
  <2> QED
    BY <2>1, <2>2, <2>3, OneRowMoves DEF Apart
<1> QED
  BY <1>1, <1>2, <1>3, <1>4, <1>5, <1>6, <1>7, <1>8, <1>9, <1>10, <1>11 DEF Apart, AskCampaign, QueueCampaign

LEMMA CampaignTaskKinds == ASSUME IInv, StartCampaigns \/ RunCampaigns PROVE Kind
<1> USE DEF settings, history, campaignVars
<1>0. run \in Run /\ row \in [Key -> Row] /\ Phase = Phase
  BY DEF IInv, TypeOK, DeliveriesType
<1>1. CASE StartCampaigns
  <2>1. Leaves /\ run.task = "none" /\ UNCHANGED <<row, got, sendMode, excused>>
    BY <1>1 DEF StartCampaigns, Begin, Leaves, AtRest
  <2>2. ~Sent
    BY <2>1 DEF IInv, RunInv, AtRest, Sent
  <2> QED
    BY <2>1, <2>2, NoRowMoves DEF Kind, Resting
<1>2. CASE RecoverTests \/ ReadSummary \/ Reconcile \/ StartTest \/ FinishTest \/ ReadTally \/ ApplyStatus
  <2>1. ~Sent /\ run.task = "campaigns" /\ UNCHANGED <<row, got, sendMode, excused>>
    BY <1>2 DEF RecoverTests, ReadSummary, Reconcile, StartTest, FinishTest, ReadTally, ApplyStatus, TaskAt, Sent
  <2>2. Leaves
    <3> DEFINE p == {"summary", "read", "testing", "tally", "apply", "reconcile"}
    <3>1. \/ run' = AtRest
          \/ \E q \in p : \/ run' = [run EXCEPT !.phase = q]
                         \/ \E v \in CampaignStatus \ {"deleted"} : run' = [run EXCEPT !.phase = q, !.verdict = v]
      <4>1. CASE RecoverTests \/ Reconcile \/ StartTest
        BY <4>1 DEF RecoverTests, Reconcile, StartTest, TaskTo
      <4>2. CASE ReadSummary \/ ReadTally
        BY <4>2 DEF ReadSummary, ReadTally, Verdict, CampaignStatus
      <4>3. CASE FinishTest
        BY <4>3 DEF FinishTest
      <4>4. CASE ApplyStatus
        BY <4>4 DEF ApplyStatus
      <4> QED
        BY <1>2, <4>1, <4>2, <4>3, <4>4
    <3> QED
      <4>1. CASE run' = AtRest
        BY <4>1 DEF Leaves, AtRest
      <4>2. ASSUME NEW q \in p, run' = [run EXCEPT !.phase = q] PROVE Leaves
        BY <1>0, <2>1, <4>2 DEF Leaves, Run
      <4>3. ASSUME NEW q \in p, NEW v \in CampaignStatus \ {"deleted"}, run' = [run EXCEPT !.phase = q, !.verdict = v] PROVE Leaves
        BY <1>0, <2>1, <4>3 DEF Leaves, Run
      <4> QED
        BY <3>1, <4>1, <4>2, <4>3
  <2> QED
    BY <2>1, <2>2, NoRowMoves DEF Kind, Resting
<1>3. CASE ReadWork
  <2>1. /\ run.task = "campaigns" /\ run.phase = "read"
        /\ UNCHANGED <<row, got, sendMode, excused>>
    BY <1>3 DEF ReadWork, TaskAt
  <2>2. CASE TaskTo("start") \/ run' = AtRest
    <3>1. Leaves /\ ~Sent
      BY <1>0, <2>1, <2>2 DEF TaskTo, Leaves, Sent, Run, AtRest
    <3> QED
      BY <2>1, <3>1, NoRowMoves DEF Kind, Resting
  <2>3. ASSUME NEW turn \in [1..Cardinality(DueTargets) -> DueTargets],
               \A i, j \in DOMAIN turn : turn[i] = turn[j] => i = j,
               run' = [run EXCEPT !.phase = "next",
                                  !.batch = [i \in DOMAIN turn |-> [key |-> turn[i], row |-> row[turn[i]]]]]
        PROVE  Reading
    <3> DEFINE n == Cardinality(DueTargets)
               b == [i \in DOMAIN turn |-> [key |-> turn[i], row |-> row[turn[i]]]]
    <3>1. n \in Nat
      BY UsersAreFinite, FS_Subset, FS_CardinalityType DEF DueTargets
    <3>2. \A i \in 1..n : /\ turn[i] \in User /\ turn[i] \in Key /\ IsDue(row[turn[i]])
                          /\ b[i].key = turn[i] /\ b[i].row = row[turn[i]] /\ b[i] \in Entry
      BY <1>0 DEF DueTargets, Key, Entry
    <3>3. b \in Seq(Entry) /\ Len(b) = n
      BY <3>1, <3>2
    <3>4. run'.batch = b /\ run'.phase = "next" /\ run'.task = run.task /\ run'.mode = run.mode
      BY <1>0, <2>3 DEF Run
    <3> HIDE DEF b
    <3> QED
      BY <2>1, <2>3, <3>2, <3>3, <3>4 DEF Reading, KeysOf
  <2> QED
    BY <1>3, <2>2, <2>3 DEF ReadWork, Kind
<1>4. CASE TakeTarget
  BY <1>4 DEF TakeTarget, Kind, Taking, TaskAt, NothingLeft, NothingMissing, CampaignRequired, ToSend, Required
<1>5. CASE PassTarget
  <2>1. /\ run.task = "campaigns" /\ run.phase = "next" /\ run.batch # <<>>
        /\ NothingLeft \/ InHand.key \in NeverUsed
        /\ UpdateInHand(MarkedSent(row[InHand.key], InHand.row.used))
        /\ NextInBatch("next") /\ UNCHANGED <<got, sendMode, excused>>
    BY <1>5 DEF PassTarget, TaskAt
  <2>2. InHand.key \in Key /\ InHand.row \in Row /\ row[InHand.key] \in Row /\ InHand.row.used \in SUBSET Channel
    BY <1>0, <2>1, InHandIs DEF Holds, Row
  <2>3. Written(MarkedSent(row[InHand.key], InHand.row.used)) /\ MarkedSent(row[InHand.key], InHand.row.used) \in Row
    BY <2>1, <2>2, RowOutcomes DEF Written, Sent, NothingLeft, NothingMissing
  <2> QED
    BY <2>1, <2>3 DEF Kind, Writing
<1>6. CASE SendTarget
  BY <1>6 DEF SendTarget, Kind, Sending, ToSend, CampaignRequired, TaskAt
<1>7. CASE WriteTarget
  <2>1. /\ run.task = "campaigns" /\ run.phase = "sent" /\ run.batch # <<>> /\ Holds /\ Sent
        /\ UNCHANGED <<got, sendMode, excused>>
    BY <1>7 DEF WriteTarget, TaskAt, IInv, RunInv, Holds, Sent
  <2>2. /\ InHand.key \in Key /\ InHand.row \in Row /\ row[InHand.key] \in Row /\ InHand.key \in User
        /\ InHand.row.tries < MaxAttempts
    BY <1>0, <2>1, InHandIs DEF KeysOf
  <2>3. CASE campaign.status = "deleted" /\ run.avail # {}
    <3>1. run' = AtRest /\ row' = row
      BY <1>7, <2>3 DEF WriteTarget
    <3>2. ~SameRow(InHand.key, InHand.row.id)
      BY <2>2, <2>3 DEF SameRow, IInv, EventInv
    <3>3. Leaves
      BY <3>1 DEF Leaves, AtRest
    <3> QED
      BY <2>1, <3>1, <3>2, <3>3, NoRowMoves DEF Kind, Resting
  <2>4. CASE ~(campaign.status = "deleted" /\ run.avail # {})
    <3>1. WriteOutcome(CampaignRequired) /\ NextInBatch("next")
      BY <1>7, <2>4 DEF WriteTarget
    <3>2. UsedByNow \in SUBSET Channel
      BY <1>0, <2>2 DEF UsedByNow, Run, Row
    <3>3. CASE Succeeds(CampaignRequired, run.ok)
      <4>0. UsedByNow # {}
        BY <3>3 DEF Succeeds, UsedByNow
      <4>1. Written(MarkedSent(row[InHand.key], UsedByNow)) /\ MarkedSent(row[InHand.key], UsedByNow) \in Row
        <5>1. UsedByNow = InHand.row.used \cup (IF Sent THEN run.ok ELSE {})
          BY <2>1 DEF UsedByNow
        <5> QED
          BY <2>2, <3>2, <4>0, <5>1, RowOutcomes DEF Written
      <4> QED
        BY <2>1, <3>1, <3>3, <4>1 DEF Kind, Writing, WriteOutcome
    <3>4. CASE ~Succeeds(CampaignRequired, run.ok)
      <4> DEFINE s == MarkedFailed(row[InHand.key], InHand.row, UsedByNow)
      <4>1. Written(s) /\ s \in Row
        BY <1>0, <2>1, <2>2, <3>2, <3>4, RowOutcomes DEF Written, Succeeds, UsedByNow, Run
      <4> QED
        BY <2>1, <3>1, <3>4, <4>1 DEF Kind, Writing, WriteOutcome
    <3> QED
      BY <3>3, <3>4
  <2> QED
    BY <2>3, <2>4
<1>8. CASE EndTargets
  <2>1. ~Sent /\ Leaves /\ UNCHANGED <<row, got, sendMode, excused>>
    BY <1>0, <1>8 DEF EndTargets, TaskAt, TaskTo, Sent, Leaves, Run
  <2> QED
    BY <2>1, NoRowMoves DEF Kind, Resting
<1> QED
  BY <1>1, <1>2, <1>3, <1>4, <1>5, <1>6, <1>7, <1>8 DEF RunCampaigns

LEMMA AfterFlushLeaves ==
    ASSUME IInv, run.task = "messages", run' = AfterFlush
    PROVE  Leaves
<1>1. run \in Run
  BY DEF IInv, TypeOK, DeliveriesType
<1> QED
  BY <1>1 DEF AfterFlush, Leaves, Run, AtRest

LEMMA MessageTaskKinds == ASSUME IInv, StartMessages \/ RunMessages PROVE Kind
<1> USE DEF settings, history, messageVars
<1>0. run \in Run /\ row \in [Key -> Row] /\ Msg \in Key
  BY Nothings DEF IInv, TypeOK, DeliveriesType
<1>1. CASE StartMessages
  <2>1. Leaves /\ run.task = "none" /\ UNCHANGED <<row, got, sendMode, excused>>
    BY <1>1 DEF StartMessages, Begin, Leaves, AtRest
  <2>2. ~Sent
    BY <2>1 DEF IInv, RunInv, AtRest, Sent
  <2> QED
    BY <2>1, <2>2, NoRowMoves DEF Kind, Resting
<1>2. CASE CatchUp
  <2>1. run.task = "messages" /\ ~Sent /\ Leaves /\ UNCHANGED <<got, sendMode, excused>>
    BY <1>0, <1>2 DEF CatchUp, TaskAt, TaskTo, Leaves, Sent, Run
  <2>2. CASE UNCHANGED row
    BY <2>1, <2>2, NoRowMoves DEF Kind, Resting
  <2>3. CASE CanCatchUp /\ row' = [row EXCEPT ![Msg] = Revived(row[Msg])]
    <3>1. RowKeeps(row[Msg], Revived(row[Msg])) /\ row[Msg].status = "error"
      BY <1>0, <2>3, RowOps DEF CanCatchUp, IsFinal
    <3> QED
      BY <1>0, <2>1, <2>3, <3>1, OneRowMoves DEF Kind, Resting
  <2> QED
    BY <1>2, <2>2, <2>3 DEF CatchUp
<1>3. CASE ReadMessages
  <2>1. run.task = "messages" /\ run.phase = "read" /\ UNCHANGED <<row, got, sendMode, excused>>
    BY <1>3 DEF ReadMessages, TaskAt
  <2>2. CASE run' = AfterFlush
    BY <2>1, <2>2, AfterFlushLeaves, NoRowMoves DEF Kind, Resting, Sent
  <2>3. CASE IsDue(row[Msg])
    <3> DEFINE b == <<[key |-> Msg, row |-> row[Msg]]>>
    <3>1. run' = [run EXCEPT !.phase = "next", !.batch = b]
      BY <1>3, <2>3 DEF ReadMessages
    <3>2. b \in Seq(Entry) /\ Len(b) = 1 /\ b[1].key = Msg /\ b[1].row = row[Msg] /\ b # <<>>
      BY <1>0 DEF Entry
    <3>3. run'.batch = b /\ run'.phase = "next" /\ run'.task = run.task /\ run'.mode = run.mode
      BY <1>0, <3>1 DEF Run
    <3>4. \A i \in 1..Len(b) : i = 1
      BY <3>2
    <3> HIDE DEF b
    <3>5. Reading
      BY <2>1, <2>3, <3>2, <3>3, <3>4 DEF Reading, KeysOf
    <3> QED
      BY <3>5 DEF Kind
  <2> QED
    BY <1>3, <2>2, <2>3 DEF ReadMessages
<1>4. ASSUME run.task = "messages", run.phase \in {"next", "send", "sent", "store"}
      PROVE  /\ run.batch # <<>> /\ InHand.key = Msg /\ InHand.row \in Row /\ row[InHand.key] \in Row
             /\ InHand.row.tries < MaxAttempts /\ ToSend = Required(MailOnly)
  <2>1. run.batch # <<>> /\ Holds
    BY <1>4 DEF IInv, RunInv, Holds
  <2> QED
    BY <1>0, <1>4, <2>1, InHandIs DEF KeysOf, ToSend
<1>5. CASE TakeMessage
  BY <1>4, <1>5 DEF TakeMessage, Kind, Taking, TaskAt
<1>6. CASE PassMessage
  <2>1. /\ run.task = "messages" /\ run.phase = "next"
        /\ NothingMissing(Required(MailOnly))
        /\ UpdateInHand(MarkedSent(row[InHand.key], InHand.row.used))
        /\ run' = AfterFlush /\ UNCHANGED <<got, sendMode, excused>>
    BY <1>4, <1>6 DEF PassMessage, TaskAt
  <2>2. InHand.row.used \in SUBSET Channel /\ row[InHand.key] \in Row
    BY <1>4, <2>1 DEF Row
  <2>3. Written(MarkedSent(row[InHand.key], InHand.row.used)) /\ MarkedSent(row[InHand.key], InHand.row.used) \in Row
    BY <2>1, <2>2, RowOutcomes DEF Written, Sent, NothingMissing
  <2> QED
    BY <1>4, <2>1, <2>3, AfterFlushLeaves DEF Kind, Writing
<1>7. CASE SendMessage
  BY <1>4, <1>7 DEF SendMessage, Kind, Sending, TaskAt
<1>8. CASE MarkChannels
  BY <1>8 DEF MarkChannels, Kind, Marking, TaskAt
<1>9. CASE WriteMessage
  <2>1. /\ run.task = "messages" /\ run.phase = "store" /\ Sent
        /\ WriteOutcome(ToSend)
        /\ run' = [run EXCEPT !.phase = "effects"] \/ run' = AfterFlush
        /\ UNCHANGED <<got, sendMode, excused>>
    BY <1>4, <1>9 DEF WriteMessage, TaskAt, Sent
  <2>2. Leaves
    <3>1. CASE run' = [run EXCEPT !.phase = "effects"]
      BY <1>0, <2>1, <3>1 DEF Leaves, Run
    <3> QED
      BY <2>1, <3>1, AfterFlushLeaves
  <2>3. UsedByNow \in SUBSET Channel /\ UsedByNow = InHand.row.used \cup (IF Sent THEN run.ok ELSE {})
    BY <1>0, <1>4, <2>1 DEF UsedByNow, Run, Row
  <2>4. CASE Succeeds(ToSend, run.ok)
    <3>1. UsedByNow # {}
      BY <2>4 DEF Succeeds, UsedByNow
    <3>2. Written(MarkedSent(row[InHand.key], UsedByNow)) /\ MarkedSent(row[InHand.key], UsedByNow) \in Row
      BY <1>4, <2>1, <2>3, <3>1, RowOutcomes DEF Written
    <3> QED
      BY <1>4, <2>1, <2>2, <2>4, <3>2 DEF Kind, Writing, WriteOutcome
  <2>5. CASE ~Succeeds(ToSend, run.ok)
    <3> DEFINE s == MarkedFailed(row[InHand.key], InHand.row, UsedByNow)
    <3>1. run.mode = "first" => run.ok = {}
      BY <2>5 DEF Succeeds
    <3>2. Written(s) /\ s \in Row
      BY <1>4, <2>1, <2>3, <3>1, RowOutcomes DEF Written
    <3> QED
      BY <1>4, <2>1, <2>2, <2>5, <3>2 DEF Kind, Writing, WriteOutcome
  <2> QED
    BY <2>4, <2>5
<1>10. CASE NoteDelivery
  BY <1>10, AfterFlushLeaves, NoRowMoves DEF NoteDelivery, TaskAt, Kind, Resting, Sent
<1>11. CASE ScheduleNotice
  <2>1. run.task = "messages" /\ ~Sent /\ Leaves /\ UNCHANGED <<got, sendMode, excused>>
    BY <1>0, <1>11 DEF ScheduleNotice, TaskAt, Leaves, Sent, Run
  <2>2. RowsAside
    BY <1>11, <2>1, NoRowMoves, StoreMoves DEF ScheduleNotice
  <2> QED
    BY <2>1, <2>2 DEF Kind, Resting
<1> QED
  BY <1>1, <1>2, <1>3, <1>5, <1>6, <1>7, <1>8, <1>9, <1>10, <1>11 DEF RunMessages

LEMMA Kinds == ASSUME IInv, [Next]_vars PROVE Kind
<1>1. CASE CampaignStep
  BY <1>1, RequestKinds, CampaignTaskKinds DEF CampaignStep, Kind
<1>2. CASE MessageStep
  BY <1>2, RequestKinds, MessageTaskKinds DEF MessageStep, Kind
<1>3. ASSUME NEW k \in Key, TimeComes(k) PROVE Kind
  BY <1>3, RequestKinds DEF Kind
<1>4. CASE SaveConfiguration
  BY <1>4 DEF Kind, Changing
<1>5. CASE Death
  <2>1. run' = AtRest /\ UNCHANGED <<row, got, sendMode>>
        /\ excused' = (excused \/ (run.phase \in {"sent", "store"} /\ run.ok # {}))
    BY <1>5 DEF Death, settings
  <2>2. Leaves
    BY <2>1 DEF Leaves, AtRest
  <2> QED
    BY <2>1, <2>2, NoRowMoves DEF Kind, Resting, Sent
<1>6. CASE UNCHANGED vars
  BY <1>6, NoRowMoves DEF vars, settings, history, Kind, Apart
<1> QED
  BY <1>1, <1>2, <1>3, <1>4, <1>5, <1>6 DEF Next

----------------------------------------------------------------------------
(***************************************************************************)
(* What each kind of step does to the invariants.                           *)
(***************************************************************************)
\* The kind of a message never changes.
LEMMA EventStays == [Next]_vars => event' = event
<1> SUFFICES ASSUME Next PROVE event' = event
  BY DEF vars, messageVars
<1> USE DEF messageVars
<1>1. CASE CampaignStep
  BY <1>1 DEF CampaignStep
<1>2. ASSUME NEW t \in Thread, LookUp(t) \/ StoreMessage(t) \/ RetryFailed(t) PROVE event' = event
  BY <1>2 DEF LookUp, StoreMessage, RetryFailed
<1>3. CASE ScheduleSuggestion \/ StartMessages \/ ADayPasses \/ CooldownEnds
  BY <1>3 DEF ScheduleSuggestion, StartMessages, ADayPasses, CooldownEnds
<1>4. CASE RunMessages
  BY <1>4 DEF RunMessages, CatchUp, ReadMessages, TakeMessage, PassMessage, SendMessage, MarkChannels,
              WriteMessage, NoteDelivery, ScheduleNotice
<1>5. CASE (\E k \in Key : TimeComes(k)) /\ UNCHANGED <<campaignVars, messageVars>>
  BY <1>5
<1>6. CASE SaveConfiguration \/ Death
  BY <1>6 DEF SaveConfiguration, Death
<1> QED
  BY <1>1, <1>2, <1>3, <1>4, <1>5, <1>6 DEF Next, MessageStep

\* What a step that only moves on keeps of the task.
LEMMA MovesOn ==
    ASSUME IInv, Taking \/ Sending \/ Marking
    PROVE  /\ run'.task = run.task /\ run'.mode = run.mode /\ run'.avail = run.avail
           /\ run'.batch = run.batch /\ run.batch # <<>> /\ InHand' = InHand
           /\ Taking => run'.phase = "send" /\ run'.ok = run.ok
           /\ Sending => run'.phase = "sent" /\ run'.ok \in SUBSET Channel
           /\ Marking => run'.phase = "store" /\ run'.ok = run.ok
           /\ Holds /\ Holds' /\ row' = row /\ UNCHANGED <<sendMode, excused>>
<1>0. run \in Run
  BY DEF IInv, TypeOK, DeliveriesType
<1>1. CASE Taking
  BY <1>0, <1>1 DEF Taking, Sending, Marking, TaskTo, Run, Holds, InHand
<1>2. CASE Sending
  <2>1. PICK ok \in Outcomes(Forced(ToSend)) : run' = [run EXCEPT !.ok = ok, !.phase = "sent"]
    BY <1>2 DEF Sending, SendToUser
  <2>2. ok \in SUBSET Channel
    BY <1>0, <2>1 DEF Outcomes, Run
  <2>3. run.phase = "send" /\ run.batch # <<>> /\ UNCHANGED <<row, sendMode, excused>>
    BY <1>2 DEF Sending, SendToUser, settings, IInv, RunInv, Holds
  <2> QED
    BY <1>0, <2>1, <2>2, <2>3 DEF Run, Holds, InHand, Taking, Marking
<1>3. CASE Marking
  <2>1. run.phase = "sent" /\ run.batch # <<>>
    BY <1>3 DEF Marking, IInv, RunInv, Holds
  <2> QED
    BY <1>0, <1>3, <2>1 DEF Marking, Taking, Sending, TaskTo, Run, Holds, InHand
<1> QED
  BY <1>1, <1>2, <1>3

\* The rest of the rows in hand.
LEMMA RestOfBatch ==
    ASSUME IInv, Writing, NextInBatch("next")
    PROVE  /\ run'.phase = "next" /\ run'.task = run.task /\ run'.mode = run.mode /\ run'.ok = {}
           /\ Len(run'.batch) \in Nat
           /\ \A i \in 1..Len(run'.batch) : i + 1 \in 1..Len(run.batch) /\ run'.batch[i] = run.batch[i + 1]
<1>1. run \in Run /\ run.batch \in Seq(Entry) /\ run.batch # <<>>
  BY HeadInHand DEF IInv, TypeOK, DeliveriesType, Writing
<1>2. run' = [run EXCEPT !.phase = "next", !.batch = Tail(run.batch), !.ok = {}]
  BY DEF NextInBatch
<1>3. /\ run'.phase = "next" /\ run'.task = run.task /\ run'.mode = run.mode /\ run'.ok = {}
      /\ run'.batch = Tail(run.batch)
  BY <1>1, <1>2 DEF Run
<1> QED
  BY <1>1, <1>3

LEMMA RowKept == ASSUME IInv, Kind PROVE RowInv'
<1>0. row \in [Key -> Row] /\ got \in [Key -> [Channel -> 0..2]]
  BY DEF IInv, TypeOK, DeliveriesType
<1>1. CASE Apart \/ Resting
  <2> SUFFICES ASSUME NEW k \in Key
               PROVE  /\ row'[k].status = "pending" => row'[k].tries = 0
                      /\ row'[k].status = "none" => row'[k].used = {}
                      /\ row'[k].status = "none" /\ k = Msg => \A c \in Channel : got'[k][c] = 0
    BY DEF RowInv
  <2>1. Kept(k) \/ Begun(k) \/ Gone(k)
    BY <1>1 DEF Apart, Resting, RowsAside
  <2> QED
    BY <2>1 DEF IInv, RowInv, Kept, Begun, Gone, RowKeeps, RowBegins, RowGoes
<1>2. CASE Changing
  BY <1>2 DEF Changing, SaveConfiguration, IInv, RowInv
<1>3. CASE Reading \/ Taking \/ Marking
  BY <1>3 DEF Reading, Taking, Marking, IInv, RowInv
<1>4. CASE Sending
  <2>1. row' = row /\ run.batch # <<>> /\ Holds
    BY <1>4, MovesOn
  <2>2. CASE ~SameRow(InHand.key, InHand.row.id)
    <3>1. got' = got
      BY <1>4, <2>2 DEF Sending, SendToUser
    <3> QED
      BY <2>1, <3>1 DEF IInv, RowInv
  <2>3. CASE SameRow(InHand.key, InHand.row.id)
    <3>1. InHand.key \in Key
      BY <2>1, InHandIs
    <3>2. PICK ok \in SUBSET Channel : Count(InHand.key, ok)
      <4>1. PICK ok \in Outcomes(Forced(ToSend)) : Count(InHand.key, ok)
        BY <1>4, <2>3 DEF Sending, SendToUser
      <4>2. ok \in SUBSET Channel
        BY <4>1 DEF Outcomes, IInv, TypeOK, DeliveriesType, Run
      <4> QED
        BY <4>1, <4>2
    <3>3. \A k \in Key : row[k].status = "none" => got'[k] = got[k]
      BY <1>0, <2>3, <3>1, <3>2, Counting DEF SameRow
    <3> QED
      BY <2>1, <3>3 DEF IInv, RowInv
  <2> QED
    BY <2>2, <2>3
<1>5. CASE Writing
  <2>1. PICK s \in Row : Written(s) /\ UpdateInHand(s)
    BY <1>5 DEF Writing
  <2>2. \A k \in Key : row'[k] = row[k] \/ (row'[k] = s /\ s.status \in {"sent", "error"})
    BY <1>0, <2>1 DEF UpdateInHand, Written
  <2> QED
    BY <1>5, <2>2 DEF Writing, IInv, RowInv
<1> QED
  BY <1>1, <1>2, <1>3, <1>4, <1>5 DEF Kind

LEMMA RunKept == ASSUME IInv, Kind, event' = event PROVE RunInv'
<1>1. CASE Apart \/ Changing
  BY <1>1 DEF Apart, Changing, SaveConfiguration, IInv, RunInv, Holds, ToSend, Required, MailOnly, NothingMissing, InHand
<1>2. CASE Leaves
  BY <1>2 DEF Leaves, RunInv, Holds, AtRest
<1>3. CASE Reading
  BY <1>3 DEF Reading, RunInv, Holds
<1>4. CASE Taking
  <2>1. ToSend' = ToSend /\ ~NothingMissing(ToSend)' /\ run'.batch # <<>> /\ run'.phase = "send" /\ run'.task = run.task
    BY <1>4, MovesOn DEF Taking, ToSend, Required, MailOnly, NothingMissing
  <2>2. run.task # "none"
    BY <1>4, MovesOn DEF IInv, RunInv
  <2> QED
    BY <2>1, <2>2 DEF RunInv
<1>5. CASE Sending \/ Marking
  <2>1. run.task # "none"
    BY <1>5, MovesOn DEF IInv, RunInv
  <2> QED
    BY <1>5, <2>1, MovesOn DEF RunInv, Marking
<1>6. CASE Writing /\ run.task = "campaigns" /\ NextInBatch("next")
  BY <1>6, RestOfBatch DEF RunInv
<1> QED
  BY <1>1, <1>2, <1>3, <1>4, <1>5, <1>6 DEF Kind, Resting, Writing

LEMMA BatchKept == ASSUME IInv, Kind PROVE BatchInv'
<1>0. row \in [Key -> Row] /\ run \in Run /\ KeysOf("campaigns") \subseteq Key /\ \A t : KeysOf(t) \subseteq Key
  BY DEF IInv, TypeOK, DeliveriesType, KeysOf, Key
<1>1. CASE Apart
  <2> SUFFICES ASSUME Holds, NEW i \in 1..Len(run.batch)
               PROVE  LET b == run.batch[i]
                      IN  /\ b.row.id <= row'[b.key].id
                          /\ row'[b.key].status # "none" /\ row'[b.key].id = b.row.id =>
                               row'[b.key].used = b.row.used /\ row'[b.key].status # "sent"
    BY <1>1 DEF Apart, IInv, BatchInv, Holds, SameRow
  <2> DEFINE k == run.batch[i].key
             r == run.batch[i].row
  <2>1. /\ k \in Key /\ r.id <= row[k].id
        /\ SameRow(k, r.id) => row[k].used = r.used /\ row[k].status # "sent"
    BY <1>0 DEF IInv, BatchInv
  <2>2. r.id \in Nat /\ row[k].id \in Nat
    <3>0. run.batch \in Seq(Entry)
      BY <1>0 DEF Run, Entry
    <3>1. run.batch[i] \in Entry
      BY <3>0
    <3> QED
      BY <1>0, <2>1, <3>1 DEF Entry, Row
  <2> HIDE DEF k, r
  <2>3. Kept(k) \/ Begun(k) \/ Gone(k)
    BY <1>1, <2>1 DEF Apart, RowsAside
  <2>4. /\ r.id <= row'[k].id
        /\ row'[k].status # "none" /\ row'[k].id = r.id => row'[k].used = r.used /\ row'[k].status # "sent"
    <3>1. CASE Kept(k)
      BY <2>1, <3>1 DEF Kept, RowKeeps, SameRow
    <3>2. CASE Begun(k)
      BY <2>1, <2>2, <3>2 DEF Begun, RowBegins
    <3>3. CASE Gone(k)
      BY <2>1, <3>3 DEF Gone, RowGoes
    <3> QED
      BY <2>3, <3>1, <3>2, <3>3
  <2> QED
    BY <2>4 DEF k, r
<1>2. CASE Leaves
  BY <1>2 DEF Leaves, BatchInv, Holds
<1>3. CASE Changing
  BY <1>3 DEF Changing, SaveConfiguration, IInv, BatchInv, Holds, SameRow
<1>4. CASE Reading
  <2> SUFFICES ASSUME NEW i \in 1..Len(run'.batch)
               PROVE  LET b == run'.batch[i]
                      IN  /\ b.row.tries < MaxAttempts
                          /\ b.row.id <= row[b.key].id
                          /\ row[b.key].used = b.row.used /\ row[b.key].status # "sent"
    BY <1>4 DEF Reading, BatchInv, SameRow
  <2> DEFINE b == run'.batch[i]
  <2>1. b.key \in Key /\ b.row = row[b.key] /\ IsDue(b.row)
    BY <1>0, <1>4 DEF Reading
  <2>2. b.row \in Row /\ (b.row.status = "pending" => b.row.tries = 0)
    BY <1>0, <2>1 DEF IInv, RowInv
  <2>3. b.row.tries < MaxAttempts /\ b.row.status \in {"pending", "error"}
    BY <2>1, <2>2, DueHasTries
  <2> QED
    BY <2>1, <2>2, <2>3 DEF Row
<1>5. CASE Taking \/ Sending \/ Marking
  BY <1>5, MovesOn DEF IInv, BatchInv, SameRow
<1>6. CASE Writing /\ run.task = "campaigns" /\ NextInBatch("next")
  <2>1. PICK s \in Row : UpdateInHand(s)
    BY <1>6 DEF Writing
  <2>2. Holds /\ run.batch # <<>> /\ InHand = run.batch[1] /\ 1 \in 1..Len(run.batch)
    BY <1>6, HeadInHand DEF Writing, Holds, IInv
  <2>3. ASSUME NEW i \in 1..Len(run'.batch)
        PROVE  /\ i + 1 \in 1..Len(run.batch) /\ run'.batch[i] = run.batch[i + 1]
               /\ run.batch[i + 1].key \in Key /\ row'[run.batch[i + 1].key] = row[run.batch[i + 1].key]
    <3>1. i + 1 \in 1..Len(run.batch) /\ run'.batch[i] = run.batch[i + 1] /\ i + 1 # 1
      BY <1>6, RestOfBatch
    <3>2. run.batch[i + 1].key \in Key /\ run.batch[i + 1].key # InHand.key
      BY <1>0, <2>2, <3>1 DEF IInv, BatchInv
    <3>3. row'[run.batch[i + 1].key] = row[run.batch[i + 1].key]
      BY <1>0, <2>1, <3>2 DEF UpdateInHand
    <3> QED
      BY <3>1, <3>2, <3>3
  <2>4. ASSUME NEW i \in 1..Len(run'.batch)
        PROVE  LET b == run'.batch[i]
               IN  /\ b.key \in KeysOf(run'.task)
                   /\ b.row.tries < MaxAttempts
                   /\ b.row.id <= row'[b.key].id
                   /\ row'[b.key].status # "none" /\ row'[b.key].id = b.row.id =>
                        row'[b.key].used = b.row.used /\ row'[b.key].status # "sent"
    <3> DEFINE b == run.batch[i + 1]
    <3>1. /\ b.key \in KeysOf(run.task) /\ b.row.tries < MaxAttempts /\ b.row.id <= row[b.key].id
          /\ row[b.key].status # "none" /\ row[b.key].id = b.row.id =>
               row[b.key].used = b.row.used /\ row[b.key].status # "sent"
      BY <2>2, <2>3 DEF IInv, BatchInv, SameRow
    <3>2. run'.batch[i] = b /\ row'[b.key] = row[b.key] /\ run'.task = run.task
      BY <1>6, <2>3, RestOfBatch
    <3> HIDE DEF b
    <3> QED
      BY <3>1, <3>2
  <2>5. ASSUME NEW i \in 1..Len(run'.batch), NEW j \in 1..Len(run'.batch), run'.batch[i].key = run'.batch[j].key
        PROVE  i = j
    <3>0. /\ \A m, n \in 1..Len(run.batch) : run.batch[m].key = run.batch[n].key => m = n
          /\ i + 1 \in 1..Len(run.batch) /\ j + 1 \in 1..Len(run.batch)
          /\ run.batch[i + 1].key = run.batch[j + 1].key
      BY <2>2, <2>3, <2>5 DEF IInv, BatchInv
    <3>1. i + 1 = j + 1
      BY <3>0
    <3> QED
      BY <1>6, <3>1, RestOfBatch
  <2> QED
    BY <2>4, <2>5 DEF BatchInv, SameRow
<1> QED
  BY <1>1, <1>2, <1>3, <1>4, <1>5, <1>6 DEF Kind, Resting, Writing

LEMMA DeliveredKept == ASSUME IInv, Kind PROVE DeliveredInv'
<1>0. row \in [Key -> Row] /\ got \in [Key -> [Channel -> 0..2]] /\ run \in Run
  BY DEF IInv, TypeOK, DeliveriesType
<1>1. ASSUME RowsAside, NEW k \in Key, NEW c \in row'[k].used PROVE got'[k][c] > 0
  <2>1. CASE Kept(k)
    <3>1. row[k].status # "none" /\ c \in row[k].used
      BY <1>1, <2>1 DEF Kept, RowKeeps, IInv, RowInv
    <3> QED
      BY <2>1, <3>1 DEF Kept, IInv, DeliveredInv
  <2> QED
    BY <1>1, <2>1 DEF RowsAside, Begun, Gone, RowBegins, RowGoes
<1>2. CASE Apart
  <2> SUFFICES ASSUME NEW k \in Key, NEW c \in Channel, InFlight(k, c)' PROVE got'[k][c] > 0
    BY <1>1, <1>2 DEF Apart, DeliveredInv
  <2>1. Sent /\ InHand.key = k /\ c \in run.ok /\ row'[k].status # "none" /\ row'[k].id = InHand.row.id
    BY <1>2 DEF Apart, InFlight, Sent, InHand, SameRow
  <2>2. InHand.row \in Row /\ InHand.row.id <= row[k].id
    BY <2>1, InHandIs DEF Sent, Holds, IInv, RunInv
  <2>3. Kept(k)
    BY <1>0, <1>2, <2>1, <2>2 DEF Apart, RowsAside, Begun, Gone, RowBegins, RowGoes, Row
  <2>4. SameRow(k, InHand.row.id)
    BY <2>1, <2>3 DEF Kept, RowKeeps, SameRow
  <2> QED
    BY <2>1, <2>3, <2>4 DEF Kept, InFlight, SameRow, IInv, DeliveredInv
<1>3. CASE Resting
  BY <1>1, <1>3 DEF Resting, Leaves, DeliveredInv, InFlight, Sent
<1>4. CASE Changing
  BY <1>4 DEF Changing, SaveConfiguration, IInv, DeliveredInv, InFlight, Sent, InHand, SameRow
<1>5. CASE Reading
  BY <1>5 DEF Reading, IInv, DeliveredInv, InFlight, Sent
<1>6. CASE Taking \/ Marking
  <2>1. UNCHANGED got
    BY <1>6 DEF Taking, Marking
  <2>2. ASSUME NEW k \in Key, NEW c \in Channel, InFlight(k, c)' PROVE InFlight(k, c)
    BY <1>6, <2>2, MovesOn DEF InFlight, Sent, SameRow, Marking
  <2> QED
    BY <1>6, <2>1, <2>2, MovesOn DEF IInv, DeliveredInv
<1>7. CASE Sending
  <2> DEFINE h == InHand.key
  <2>1. /\ row' = row /\ InHand' = InHand /\ run.batch # <<>> /\ Holds
        /\ h \in Key
    BY <1>7, MovesOn, InHandIs
  <2>2. PICK ok \in Outcomes(Forced(ToSend)) :
          /\ IF SameRow(InHand.key, InHand.row.id) THEN Count(InHand.key, ok) ELSE UNCHANGED got
          /\ run' = [run EXCEPT !.ok = ok, !.phase = "sent"]
    BY <1>7 DEF Sending, SendToUser
  <2>3. ok \in SUBSET Channel /\ run'.ok = ok
    BY <1>0, <2>2 DEF Outcomes, Run
  <2>4. CASE ~SameRow(InHand.key, InHand.row.id)
    BY <2>1, <2>2, <2>4 DEF SameRow, InFlight, IInv, DeliveredInv
  <2>5. CASE SameRow(InHand.key, InHand.row.id)
    <3>1. /\ \A j \in Key \ {h} : got'[j] = got[j]
          /\ \A c \in ok : got'[h][c] > 0
          /\ \A c \in Channel : got[h][c] <= got'[h][c] /\ got'[h][c] \in Nat /\ got[h][c] \in Nat
      BY <1>0, <2>1, <2>2, <2>3, <2>5, Counting
    <3>2. ASSUME NEW k \in Key, NEW c \in row[k].used PROVE got'[k][c] > 0
      <4>1. got[k][c] > 0 /\ c \in Channel
        BY <1>0 DEF IInv, DeliveredInv, Row
      <4> QED
        BY <3>1, <4>1
    <3>3. ASSUME NEW k \in Key, NEW c \in Channel, InFlight(k, c)' PROVE got'[k][c] > 0
      BY <2>1, <2>3, <3>1, <3>3 DEF InFlight
    <3> QED
      BY <2>1, <3>2, <3>3 DEF DeliveredInv
  <2> QED
    BY <2>4, <2>5
<1>8. CASE Writing
  <2>1. PICK s \in Row : Written(s) /\ UpdateInHand(s)
    BY <1>8 DEF Writing
  <2>2. /\ Holds /\ InHand.key \in Key /\ InHand.row \in Row
        /\ SameRow(InHand.key, InHand.row.id) => row[InHand.key].used = InHand.row.used
    BY <1>8, InHandIs DEF Writing, Holds
  <2>3. ASSUME NEW k \in Key, NEW c \in row'[k].used PROVE got[k][c] > 0
    <3>1. CASE row'[k] = row[k]
      BY <2>3, <3>1 DEF IInv, DeliveredInv
    <3>2. CASE row'[k] # row[k]
      <4>1. k = InHand.key /\ SameRow(k, InHand.row.id) /\ row'[k] = s
        BY <1>0, <2>1, <2>2, <3>2 DEF UpdateInHand
      <4>2. c \in InHand.row.used \/ (Sent /\ c \in run.ok)
        BY <2>1, <2>3, <4>1 DEF Written
      <4>3. run.ok \in SUBSET Channel
        BY <1>0 DEF Run
      <4> QED
        BY <2>2, <4>1, <4>2, <4>3 DEF InFlight, IInv, DeliveredInv
    <3> QED
      BY <3>1, <3>2
  <2>4. ~Sent'
    BY <1>8, RestOfBatch DEF Writing, Leaves, Sent
  <2> QED
    BY <1>8, <2>3, <2>4 DEF Writing, DeliveredInv, InFlight
<1> QED
  BY <1>2, <1>3, <1>4, <1>5, <1>6, <1>7, <1>8 DEF Kind

\* Deliveries are never taken back while there is a row.
LEMMA SendingAdds ==
    ASSUME IInv, Sending
    PROVE  \A k \in Key, c \in Channel : got[k][c] > 0 => got'[k][c] > 0
<1>0. got \in [Key -> [Channel -> 0..2]] /\ run \in Run
  BY DEF IInv, TypeOK, DeliveriesType
<1>1. PICK ok \in Outcomes(Forced(ToSend)) :
         IF SameRow(InHand.key, InHand.row.id) THEN Count(InHand.key, ok) ELSE UNCHANGED got
  BY DEF Sending, SendToUser
<1>2. ok \in SUBSET Channel /\ InHand.key \in Key
  BY <1>0, <1>1, MovesOn, InHandIs DEF Outcomes, Run
<1>3. CASE SameRow(InHand.key, InHand.row.id)
  <2>1. /\ \A j \in Key \ {InHand.key} : got'[j] = got[j]
        /\ \A c \in Channel : got[InHand.key][c] <= got'[InHand.key][c]
        /\ got' \in [Key -> [Channel -> 0..2]]
    BY <1>0, <1>1, <1>2, <1>3, Counting
  <2> QED
    BY <1>0, <1>2, <2>1
<1> QED
  BY <1>1, <1>3

LEMMA SentKept == ASSUME IInv, Kind PROVE SentWasDelivered'
<1> SUFFICES ASSUME NEW k \in Key \ NeverUsed, row'[k].status = "sent"
             PROVE  \E c \in Channel : got'[k][c] > 0
  BY DEF SentWasDelivered
<1>0. row \in [Key -> Row]
  BY DEF IInv, TypeOK, DeliveriesType
<1>1. CASE RowsAside
  <2>1. row[k].status = "sent" /\ got'[k] = got[k]
    BY <1>1 DEF RowsAside, Kept, Begun, Gone, RowKeeps, RowBegins, RowGoes
  <2> QED
    BY <2>1 DEF IInv, SentWasDelivered
<1>2. CASE Changing \/ Reading \/ Taking \/ Marking
  <2>1. row' = row /\ got' = got
    BY <1>2 DEF Changing, SaveConfiguration, Reading, Taking, Marking
  <2> QED
    BY <2>1 DEF IInv, SentWasDelivered
<1>3. CASE Sending
  BY <1>3, MovesOn, SendingAdds DEF IInv, SentWasDelivered
<1>4. CASE Writing
  <2>1. PICK s \in Row : Written(s) /\ UpdateInHand(s)
    BY <1>4 DEF Writing
  <2>2. CASE row'[k] = row[k]
    BY <1>4, <2>2 DEF Writing, IInv, SentWasDelivered
  <2>3. CASE row'[k] # row[k]
    <3>1. k = InHand.key /\ row'[k] = s
      BY <1>0, <2>1, <2>3 DEF UpdateInHand
    <3>2. PICK c \in s.used : c \in Channel
      BY <2>1, <3>1 DEF Written, Row
    <3> QED
      BY <3>1, <3>2, DeliveredKept DEF DeliveredInv
  <2> QED
    BY <2>2, <2>3
<1> QED
  BY <1>1, <1>2, <1>3, <1>4 DEF Kind, Apart, Resting

----------------------------------------------------------------------------
(***************************************************************************)
(* Never twice.                                                             *)
(***************************************************************************)
\* The parts of OnceInv.
OnlyOnce(k, c) ==
    /\ got[k][c] <= 1
    /\ row[k].status # "none" /\ got[k][c] > 0 => c \in row[k].used \/ InFlight(k, c)

\* A channel that is about to be tried has not delivered the row yet.
LEMMA NotYet ==
    ASSUME IInv, ~excused, run.phase = "send", SameRow(InHand.key, InHand.row.id),
           NEW ok \in Outcomes(Forced(ToSend)), NEW c \in ok
    PROVE  got[InHand.key][c] = 0
<1> DEFINE k == InHand.key
<1>0. run \in Run /\ got \in [Key -> [Channel -> 0..2]]
  BY DEF IInv, TypeOK, DeliveriesType
<1>1. /\ Holds /\ run.batch # <<>> /\ ~NothingMissing(ToSend) /\ run.task # "none"
  BY DEF IInv, RunInv, Holds
<1>2. /\ k \in Key /\ k \in KeysOf(run.task) /\ row[k].used = InHand.row.used
      /\ row[k].status # "sent" /\ row[k].status # "none"
  BY <1>1, InHandIs DEF SameRow
<1>3. c \in Channel
  BY <1>0 DEF Outcomes, Run
<1>4. c \notin row[k].used => got[k][c] = 0
  BY <1>0, <1>2, <1>3 DEF IInv, OnceInv, InFlight, Sent
<1>5. CASE Forced(ToSend) # {}
  BY <1>2, <1>4, <1>5 DEF Outcomes, Forced
<1>6. CASE Forced(ToSend) = {}
  <2>1. ToSend = {} /\ c \in run.avail
    BY <1>1, <1>6 DEF NothingMissing, Forced, Outcomes
  <2>2. run.mode = "first" /\ ~(run.task = "messages" /\ MailOnly)
    BY <1>0, <1>1, <2>1 DEF ToSend, Required, Run
  <2>3. ~(k = Msg /\ MailOnly)
    BY <1>0, <1>1, <1>2, <2>2, MsgIsNoUser DEF KeysOf, Run
  <2>4. row[k].used = {}
    BY <1>1, <1>2, <2>2, <2>3 DEF IInv, OnceInv, FirstIsEnough
  <2> QED
    BY <1>4, <2>4
<1> QED
  BY <1>5, <1>6

LEMMA OnceKept == ASSUME IInv, Kind, event' = event PROVE OnceInv'
<1> SUFFICES ASSUME ~excused'
             PROVE  /\ \A k \in Key, c \in Channel : OnlyOnce(k, c)'
                    /\ run'.mode = "all" => sendMode' = "all"
                    /\ sendMode' = "first" \/ (run'.task # "none" /\ run'.mode = "first") => FirstIsEnough'
  BY DEF OnceInv, OnlyOnce
<1>0. /\ row \in [Key -> Row] /\ got \in [Key -> [Channel -> 0..2]] /\ run \in Run /\ Msg \in Key
      /\ sendMode \in {"first", "all"}
  BY Nothings DEF IInv, TypeOK, DeliveriesType
<1>1. ~excused
  BY DEF Kind, Apart, Resting, Changing, SaveConfiguration, Reading, Taking, Sending, SendToUser, Marking, Writing
<1>2. /\ \A k \in Key, c \in Channel : OnlyOnce(k, c)
      /\ run.mode = "all" => sendMode = "all"
      /\ sendMode = "first" \/ (run.task # "none" /\ run.mode = "first") => FirstIsEnough
  BY <1>1 DEF IInv, OnceInv, OnlyOnce
<1>3. ASSUME RowsAside, FirstIsEnough PROVE FirstIsEnough'
  <2> SUFFICES ASSUME NEW k \in Key, ~(k = Msg /\ MailOnly)
               PROVE  row'[k].status = "sent" \/ row'[k].used = {}
    BY DEF FirstIsEnough, MailOnly
  <2>1. row[k].status = "sent" \/ row[k].used = {}
    BY <1>3 DEF FirstIsEnough
  <2> QED
    BY <1>3, <2>1 DEF RowsAside, Kept, Begun, Gone, RowKeeps, RowBegins, RowGoes
<1>4. ASSUME RowsAside, NEW k \in Key, NEW c \in Channel, ~Sent \/ run.ok = {} \/ ~SameRow(InHand.key, InHand.row.id)
      PROVE  got'[k][c] <= 1 /\ (row'[k].status # "none" /\ got'[k][c] > 0 => c \in row'[k].used)
  <2>1. ~InFlight(k, c)
    BY <1>4 DEF InFlight
  <2>2. got[k][c] <= 1 /\ (row[k].status # "none" /\ got[k][c] > 0 => c \in row[k].used)
    BY <1>2, <2>1 DEF OnlyOnce
  <2> QED
    BY <1>4, <2>2 DEF RowsAside, Kept, Begun, Gone, RowKeeps, RowBegins, RowGoes
<1>5. CASE Apart
  <2>1. ASSUME NEW k \in Key, NEW c \in Channel PROVE OnlyOnce(k, c)'
    <3>1. Kept(k) \/ Begun(k) \/ Gone(k)
      BY <1>5 DEF Apart, RowsAside
    <3>2. InFlight(k, c) /\ Kept(k) => InFlight(k, c)'
      BY <1>5 DEF Apart, InFlight, Sent, InHand, SameRow, Kept, RowKeeps
    <3> QED
      BY <1>2, <3>1, <3>2 DEF OnlyOnce, Kept, Begun, Gone, RowKeeps, RowBegins, RowGoes
  <2> QED
    BY <1>2, <1>3, <1>5, <2>1 DEF Apart
<1>6. CASE Resting
  <2>1. \A k \in Key, c \in Channel : OnlyOnce(k, c)'
    BY <1>4, <1>6 DEF Resting, OnlyOnce
  <2>2. run'.mode = "all" => sendMode' = "all"
    BY <1>2, <1>6 DEF Resting, Leaves, AtRest
  <2>3. sendMode' = "first" \/ (run'.task # "none" /\ run'.mode = "first") => FirstIsEnough
    BY <1>2, <1>6 DEF Resting, Leaves, AtRest
  <2> QED
    BY <1>3, <1>6, <2>1, <2>2, <2>3 DEF Resting
<1>7. CASE Changing
  <2>1. /\ UNCHANGED <<row, run, got>> /\ sendMode' \in {"first", "all"}
        /\ ~(sendMode = "all" /\ sendMode' = "first" /\ (PartlyDelivered \/ run.mode = "all"))
    BY <1>7 DEF Changing, SaveConfiguration
  <2>2. \A k \in Key, c \in Channel : OnlyOnce(k, c)'
    BY <1>2, <2>1 DEF OnlyOnce, InFlight, Sent, InHand, SameRow
  <2>3. run'.mode = "all" => sendMode' = "all"
    BY <1>2, <2>1
  <2>4. ~PartlyDelivered => FirstIsEnough
    BY DEF PartlyDelivered, FirstIsEnough
  <2>5. FirstIsEnough => FirstIsEnough'
    BY <2>1 DEF FirstIsEnough, MailOnly
  <2> QED
    BY <1>0, <1>2, <2>1, <2>2, <2>3, <2>4, <2>5
<1>8. CASE Reading
  <2>1. \A k \in Key, c \in Channel : OnlyOnce(k, c)'
    BY <1>2, <1>8 DEF Reading, OnlyOnce, InFlight, Sent
  <2> QED
    BY <1>2, <1>8, <2>1 DEF Reading, FirstIsEnough, MailOnly
<1>9. ASSUME Taking \/ Sending \/ Marking
      PROVE  /\ run'.mode = "all" => sendMode' = "all"
             /\ sendMode' = "first" \/ (run'.task # "none" /\ run'.mode = "first") => FirstIsEnough'
  BY <1>2, <1>9, MovesOn DEF FirstIsEnough, MailOnly
<1>10. CASE Taking \/ Marking
  <2>1. UNCHANGED got /\ run'.ok = run.ok /\ (Sent => Sent')
    BY <1>10, MovesOn DEF Taking, Marking, Sent
  <2>2. ASSUME NEW k \in Key, NEW c \in Channel, InFlight(k, c) PROVE InFlight(k, c)'
    BY <1>10, <2>1, <2>2, MovesOn DEF InFlight, SameRow
  <2>3. \A k \in Key, c \in Channel : OnlyOnce(k, c)'
    BY <1>2, <1>10, <2>1, <2>2, MovesOn DEF OnlyOnce
  <2> QED
    BY <1>9, <1>10, <2>3
<1>11. CASE Sending
  <2> DEFINE h == InHand.key
  <2>1. /\ row' = row /\ InHand' = InHand /\ run.batch # <<>> /\ h \in Key /\ Sent' /\ ~Sent
        /\ run.phase = "send"
    BY <1>11, MovesOn, InHandIs DEF Sent, Sending
  <2>2. PICK ok \in Outcomes(Forced(ToSend)) :
          /\ IF SameRow(InHand.key, InHand.row.id) THEN Count(InHand.key, ok) ELSE UNCHANGED got
          /\ run' = [run EXCEPT !.ok = ok, !.phase = "sent"]
    BY <1>11 DEF Sending, SendToUser
  <2>3. ok \in SUBSET Channel /\ run'.ok = ok
    BY <1>0, <2>2 DEF Outcomes, Run
  <2>4. ASSUME NEW k \in Key, NEW c \in Channel, got'[k][c] = got[k][c] PROVE OnlyOnce(k, c)'
    BY <1>2, <2>1, <2>4 DEF OnlyOnce, InFlight
  <2>5. CASE ~SameRow(InHand.key, InHand.row.id)
    BY <1>9, <1>11, <2>2, <2>4, <2>5
  <2>6. CASE SameRow(InHand.key, InHand.row.id)
    <3>1. /\ \A j \in Key \ {h} : got'[j] = got[j]
          /\ \A c \in ok : got[h][c] = 0 => got'[h][c] = 1
          /\ \A c \in Channel \ ok : got'[h][c] = got[h][c]
      BY <1>0, <2>1, <2>2, <2>3, <2>6, Counting
    <3>2. ASSUME NEW k \in Key, k = h, NEW c \in ok PROVE OnlyOnce(k, c)'
      <4>1. got'[k][c] = 1
        BY <1>1, <2>1, <2>6, <3>1, <3>2, NotYet
      <4>2. InFlight(k, c)'
        BY <2>1, <2>3, <2>6, <3>2 DEF InFlight, SameRow
      <4> QED
        BY <4>1, <4>2 DEF OnlyOnce
    <3>3. \A k \in Key, c \in Channel : OnlyOnce(k, c)'
      BY <2>4, <3>1, <3>2
    <3> QED
      BY <1>9, <1>11, <3>3
  <2> QED
    BY <2>5, <2>6
<1>12. CASE Writing
  <2> DEFINE h == InHand.key
  <2>1. PICK s \in Row : Written(s) /\ UpdateInHand(s)
    BY <1>12 DEF Writing
  <2>2. /\ Holds /\ h \in Key /\ InHand.row \in Row /\ run.task # "none"
        /\ SameRow(h, InHand.row.id) => row[h].used = InHand.row.used /\ row[h].status # "sent"
    BY <1>12, InHandIs DEF Writing, Holds, IInv, RunInv
  <2>3. UNCHANGED <<got, sendMode>> /\ run'.mode \in {run.mode, "first"} /\ (run'.task # "none" => run'.mode = run.mode)
    BY <1>12, <2>2, RestOfBatch DEF Writing, Leaves, AtRest
  <2>4. ASSUME NEW k \in Key PROVE row'[k] = row[k] \/ (k = h /\ SameRow(h, InHand.row.id) /\ row'[k] = s)
    BY <1>0, <2>1, <2>2 DEF UpdateInHand
  <2>5. ASSUME NEW k \in Key, NEW c \in Channel PROVE OnlyOnce(k, c)'
    <3>1. CASE ~(k = h /\ SameRow(h, InHand.row.id))
      <4>1. row'[k] = row[k] /\ ~InFlight(k, c)
        BY <2>4, <3>1 DEF InFlight
      <4> QED
        BY <1>2, <2>3, <4>1 DEF OnlyOnce
    <3>2. CASE k = h /\ SameRow(h, InHand.row.id)
      <4>1. row'[k] = s
        BY <1>0, <2>1, <2>2, <3>2 DEF UpdateInHand
      <4>2. InFlight(k, c) => c \in s.used
        BY <2>1 DEF Written, InFlight
      <4>3. c \in row[k].used => c \in s.used
        BY <2>1, <2>2, <3>2 DEF Written
      <4>4. row[k].status # "none"
        BY <3>2 DEF SameRow
      <4> QED
        BY <1>2, <2>3, <4>1, <4>2, <4>3, <4>4 DEF OnlyOnce
    <3> QED
      BY <3>1, <3>2
  <2>6. ASSUME sendMode' = "first" \/ (run'.task # "none" /\ run'.mode = "first") PROVE FirstIsEnough'
    <3>1. run.mode = "first" /\ FirstIsEnough
      BY <1>0, <1>2, <2>2, <2>3, <2>6 DEF Run
    <3> SUFFICES ASSUME NEW k \in Key, ~(k = Msg /\ MailOnly)
                 PROVE  row'[k].status = "sent" \/ row'[k].used = {}
      BY DEF FirstIsEnough, MailOnly
    <3>2. CASE row'[k] = row[k]
      BY <3>1, <3>2 DEF FirstIsEnough
    <3>3. CASE k = h /\ SameRow(h, InHand.row.id) /\ row'[k] = s
      <4>1. row[k].used = {} /\ InHand.row.used = {}
        BY <2>2, <3>1, <3>3 DEF FirstIsEnough
      <4> QED
        BY <2>1, <3>1, <3>3, <4>1 DEF Written
    <3> QED
      BY <2>4, <3>2, <3>3
  <2> QED
    BY <1>2, <2>3, <2>5, <2>6
<1> QED
  BY <1>5, <1>6, <1>7, <1>8, <1>10, <1>11, <1>12 DEF Kind

----------------------------------------------------------------------------
(***************************************************************************)
(* Who writes what, and the types.                                          *)
(***************************************************************************)
CampaignStatusStep ==
    \/ \E t \in Thread : SendTest(t) \/ SaveCampaign(t) \/ DeleteCampaign(t) \/ MarkSending(t) \/ MarkError(t)
    \/ RecoverTests \/ Reconcile \/ StartTest \/ FinishTest \/ ApplyStatus \/ HalfAnHourPasses

RequestStep == \E t \in Thread :
    \/ SendCampaign(t) \/ ClearTargets(t) \/ InsertTarget(t) \/ MarkSending(t)
    \/ CountQueued(t) \/ EnqueueDelivery(t) \/ CheckQueued(t) \/ MarkError(t)

QueueStep == (\E t \in Thread : SendTest(t) \/ EnqueueDelivery(t)) \/ StartCampaigns

TargetStep ==
    \/ \E t \in Thread : DeleteCampaign(t) \/ ClearTargets(t) \/ InsertTarget(t)
    \/ PassTarget \/ WriteTarget \/ \E k \in Key : TimeComes(k)

MessageRowStep ==
    \/ \E t \in Thread : StoreMessage(t) \/ RetryFailed(t)
    \/ ScheduleSuggestion \/ CatchUp \/ PassMessage \/ WriteMessage \/ ScheduleNotice \/ CooldownEnds

EachWrites ==
    /\ UNCHANGED <<sendMode, avail>> \/ SaveConfiguration
    /\ UNCHANGED budget \/ \E what \in {"ask", "failure", "death"} : Pay(what)
    /\ UNCHANGED excused \/ SaveConfiguration \/ Death
    /\ UNCHANGED row \/ TargetStep \/ MessageRowStep
    /\ UNCHANGED run \/ StartCampaigns \/ RunCampaigns \/ StartMessages \/ RunMessages \/ Death
    /\ UNCHANGED campaign \/ CampaignStatusStep
    /\ UNCHANGED request \/ RequestStep \/ Death
    /\ UNCHANGED queued \/ QueueStep
    /\ UNCHANGED extras \/ CatchUp \/ MarkChannels \/ NoteDelivery \/ ADayPasses \/ CooldownEnds
    /\ UNCHANGED order \/ (\E t \in Thread : LookUp(t) \/ StoreMessage(t)) \/ Death

LEMMA CampaignWriters == ASSUME CampaignStep PROVE EachWrites
<1> USE DEF settings, history, campaignVars, messageVars, CampaignStatusStep, RequestStep, QueueStep, TargetStep
<1>1. ASSUME NEW t \in Thread, AskCampaign(t), UNCHANGED messageVars PROVE EachWrites
  BY <1>1 DEF AskCampaign, SendCampaign, SendTest, SaveCampaign, DeleteCampaign, Asks, EachWrites
<1>2. ASSUME NEW t \in Thread, QueueCampaign(t), UNCHANGED messageVars PROVE EachWrites
  BY <1>2 DEF QueueCampaign, ClearTargets, InsertTarget, MarkSending, CountQueued, EnqueueDelivery, CheckQueued,
              MarkError, EachWrites
<1>3. CASE StartCampaigns /\ UNCHANGED messageVars
  BY <1>3 DEF StartCampaigns, EachWrites
<1>4. CASE HalfAnHourPasses /\ UNCHANGED messageVars
  BY <1>4 DEF HalfAnHourPasses, EachWrites
<1>5. CASE RunCampaigns /\ UNCHANGED messageVars
  <2>1. UNCHANGED budget \/ \E what \in {"ask", "failure", "death"} : Pay(what)
    BY <1>5 DEF RunCampaigns, RecoverTests, ReadSummary, Reconcile, ReadWork, StartTest, FinishTest, TakeTarget,
                PassTarget, SendTarget, SendToUser, WriteTarget, EndTargets, ReadTally, ApplyStatus
  <2>2. UNCHANGED <<sendMode, avail, excused, request, queued, extras, order>>
    BY <1>5 DEF RunCampaigns, RecoverTests, ReadSummary, Reconcile, ReadWork, StartTest, FinishTest, TakeTarget,
                PassTarget, SendTarget, SendToUser, WriteTarget, EndTargets, ReadTally, ApplyStatus
  <2>3. (UNCHANGED row \/ PassTarget \/ WriteTarget) /\ (UNCHANGED campaign \/ CampaignStatusStep)
    BY <1>5 DEF RunCampaigns, RecoverTests, ReadSummary, Reconcile, ReadWork, StartTest, FinishTest, TakeTarget,
                PassTarget, SendTarget, SendToUser, WriteTarget, EndTargets, ReadTally, ApplyStatus
  <2> QED
    BY <1>5, <2>1, <2>2, <2>3 DEF EachWrites
<1> QED
  BY <1>1, <1>2, <1>3, <1>4, <1>5 DEF CampaignStep

LEMMA MessageWriters == ASSUME MessageStep PROVE EachWrites
<1> USE DEF settings, history, campaignVars, messageVars, MessageRowStep
<1>1. ASSUME NEW t \in Thread, LookUp(t) \/ StoreMessage(t) \/ RetryFailed(t), UNCHANGED campaignVars
      PROVE  EachWrites
  BY <1>1 DEF LookUp, StoreMessage, RetryFailed, EachWrites
<1>2. CASE (ScheduleSuggestion \/ StartMessages \/ ADayPasses \/ CooldownEnds) /\ UNCHANGED campaignVars
  BY <1>2 DEF ScheduleSuggestion, StartMessages, ADayPasses, CooldownEnds, EachWrites
<1>3. CASE RunMessages /\ UNCHANGED campaignVars
  <2>1. UNCHANGED budget \/ \E what \in {"ask", "failure", "death"} : Pay(what)
    BY <1>3 DEF RunMessages, CatchUp, ReadMessages, TakeMessage, PassMessage, SendMessage, SendToUser, MarkChannels,
                WriteMessage, NoteDelivery, ScheduleNotice
  <2>2. UNCHANGED <<sendMode, avail, excused, order>>
    BY <1>3 DEF RunMessages, CatchUp, ReadMessages, TakeMessage, PassMessage, SendMessage, SendToUser, MarkChannels,
                WriteMessage, NoteDelivery, ScheduleNotice
  <2>3. /\ UNCHANGED row \/ MessageRowStep
        /\ UNCHANGED extras \/ CatchUp \/ MarkChannels \/ NoteDelivery
    BY <1>3 DEF RunMessages, CatchUp, ReadMessages, TakeMessage, PassMessage, SendMessage, SendToUser, MarkChannels,
                WriteMessage, NoteDelivery, ScheduleNotice
  <2> QED
    BY <1>3, <2>1, <2>2, <2>3 DEF EachWrites
<1> QED
  BY <1>1, <1>2, <1>3 DEF MessageStep

LEMMA Writers == [Next]_vars => EachWrites
<1> SUFFICES ASSUME [Next]_vars PROVE EachWrites
  OBVIOUS
<1> USE DEF settings, history, campaignVars, messageVars
<1>1. ASSUME NEW k \in Key, TimeComes(k), UNCHANGED <<campaignVars, messageVars>> PROVE EachWrites
  BY <1>1 DEF TimeComes, EachWrites, TargetStep
<1>2. CASE SaveConfiguration
  BY <1>2 DEF SaveConfiguration, EachWrites
<1>3. CASE Death
  BY <1>3 DEF Death, EachWrites
<1>4. CASE UNCHANGED vars
  BY <1>4 DEF vars, EachWrites
<1> QED
  BY <1>1, <1>2, <1>3, <1>4, CampaignWriters, MessageWriters DEF Next

\* The task moves to a phase, with a status or with what it has sent.
LEMMA RunMoves ==
    ASSUME run \in Run
    PROVE  /\ \A p \in Phase : [run EXCEPT !.phase = p] \in Run
           /\ \A p \in Phase, v \in CampaignStatus \ {"deleted"} : [run EXCEPT !.phase = p, !.verdict = v] \in Run
           /\ \A p \in Phase, ok \in SUBSET Channel : [run EXCEPT !.ok = ok, !.phase = p] \in Run
           /\ \A p \in Phase, b \in Seq(Entry) : [run EXCEPT !.phase = p, !.batch = b] \in Run
           /\ \A p \in Phase, b \in Seq(Entry), ok \in SUBSET Channel :
                [run EXCEPT !.phase = p, !.batch = b, !.ok = ok] \in Run
           /\ \A p \in Phase : [run EXCEPT !.phase = p, !.again = TRUE] \in Run
<1> USE DEF Run, Entry
<1>1. \A p \in Phase : [run EXCEPT !.phase = p] \in Run
  OBVIOUS
<1>2. \A p \in Phase, v \in CampaignStatus \ {"deleted"} : [run EXCEPT !.phase = p, !.verdict = v] \in Run
  OBVIOUS
<1>3. \A p \in Phase, ok \in SUBSET Channel : [run EXCEPT !.ok = ok, !.phase = p] \in Run
  OBVIOUS
<1>4. \A p \in Phase, b \in Seq(Entry) : [run EXCEPT !.phase = p, !.batch = b] \in Run
  OBVIOUS
<1>5. \A p \in Phase, b \in Seq(Entry), ok \in SUBSET Channel :
        [run EXCEPT !.phase = p, !.batch = b, !.ok = ok] \in Run
  OBVIOUS
<1>6. \A p \in Phase : [run EXCEPT !.phase = p, !.again = TRUE] \in Run
  OBVIOUS
<1> QED
  BY ONLY <1>1, <1>2, <1>3, <1>4, <1>5, <1>6

LEMMA RunTyped == ASSUME IInv, [Next]_vars PROVE run' \in Run
<1>0. /\ run \in Run /\ {"summary", "reconcile", "read", "start", "testing", "tally", "next", "send", "sent",
                         "apply", "store", "effects", "schedule"} \subseteq Phase
      /\ <<>> \in Seq(Entry) /\ AtRest \in Run /\ row \in [Key -> Row] /\ avail \in SUBSET Channel
      /\ sendMode \in {"first", "all"}
  BY Nothings DEF IInv, TypeOK, DeliveriesType, Phase
<1>1. CASE UNCHANGED run \/ Death
  BY <1>0, <1>1 DEF Death
<1>2. CASE StartCampaigns \/ StartMessages
  <2>1. PICK task \in {"campaigns", "messages"}, phase \in {"tests", "catchup"} :
           run' = [AtRest EXCEPT !.task = task, !.phase = phase, !.mode = sendMode, !.avail = avail]
    BY <1>2 DEF StartCampaigns, StartMessages, Begin
  <2>2. phase \in Phase
    BY <2>1 DEF Phase
  <2> QED
    BY <1>0, <2>1, <2>2 DEF Run
<1>3. CASE RecoverTests \/ Reconcile \/ StartTest \/ FinishTest \/ TakeTarget \/ EndTargets \/ ApplyStatus
  <2>1. run' = AtRest \/ \E p \in {"summary", "read", "testing", "tally", "send"} : run' = [run EXCEPT !.phase = p]
    BY <1>3 DEF RecoverTests, Reconcile, StartTest, FinishTest, TakeTarget, EndTargets, ApplyStatus, TaskTo
  <2>2. ASSUME NEW p \in Phase, run' = [run EXCEPT !.phase = p] PROVE run' \in Run
    BY <1>0, <2>2, RunMoves
  <2> QED
    BY <1>0, <2>1, <2>2
<1>4. CASE ReadSummary \/ ReadTally
  <2>1. \/ run' = [run EXCEPT !.phase = "read"]
        \/ \E p \in {"reconcile", "apply"}, v \in CampaignStatus \ {"deleted"} :
             run' = [run EXCEPT !.phase = p, !.verdict = v]
    BY <1>4 DEF ReadSummary, ReadTally, Verdict, CampaignStatus
  <2>2. ASSUME NEW p \in Phase, NEW v \in CampaignStatus \ {"deleted"},
               run' = [run EXCEPT !.phase = p, !.verdict = v]
        PROVE  run' \in Run
    BY <1>0, <2>2, RunMoves
  <2>3. [run EXCEPT !.phase = "read"] \in Run
    BY <1>0, RunMoves
  <2> QED
    BY <1>0, <2>1, <2>2, <2>3
<1>5. CASE ReadWork
  <2>1. CASE TaskTo("start") \/ run' = AtRest
    BY <1>0, <2>1, RunMoves DEF TaskTo
  <2>2. ASSUME NEW turn \in [1..Cardinality(DueTargets) -> DueTargets],
               run' = [run EXCEPT !.phase = "next",
                                  !.batch = [i \in DOMAIN turn |-> [key |-> turn[i], row |-> row[turn[i]]]]]
        PROVE  run' \in Run
    <3>1. Cardinality(DueTargets) \in Nat
      BY UsersAreFinite, FS_Subset, FS_CardinalityType DEF DueTargets
    <3>2. \A i \in DOMAIN turn : [key |-> turn[i], row |-> row[turn[i]]] \in Entry
      BY <1>0 DEF DueTargets, Key, Entry
    <3>3. [i \in DOMAIN turn |-> [key |-> turn[i], row |-> row[turn[i]]]] \in Seq(Entry)
      BY <3>1, <3>2
    <3> QED
      BY <1>0, <2>2, <3>3, RunMoves
  <2> QED
    BY <1>5, <2>1, <2>2 DEF ReadWork
<1>6. CASE Sending
  <2>1. PICK ok \in Outcomes(Forced(ToSend)) : run' = [run EXCEPT !.ok = ok, !.phase = "sent"]
    BY <1>6 DEF Sending, SendToUser
  <2>2. ok \in SUBSET Channel
    BY <1>0, <2>1 DEF Outcomes, Run
  <2> QED
    BY <1>0, <2>1, <2>2, RunMoves
<1>7. ASSUME NextInBatch("next"), run.batch # <<>> PROVE run' \in Run
  <2>1. run' = [run EXCEPT !.phase = "next", !.batch = Tail(run.batch), !.ok = {}]
    BY <1>7 DEF NextInBatch
  <2>2. Tail(run.batch) \in Seq(Entry)
    BY <1>7, HeadInHand DEF IInv
  <2> QED
    BY <1>0, <2>1, <2>2, RunMoves
<1>8. CASE PassTarget \/ WriteTarget
  BY <1>0, <1>7, <1>8 DEF PassTarget, WriteTarget, TaskAt, IInv, RunInv, Holds
<1>9. ASSUME run' = AfterFlush PROVE run' \in Run
  BY <1>0, <1>9, RunMoves DEF AfterFlush
<1>10. CASE ReadMessages
  <2>1. <<[key |-> Msg, row |-> row[Msg]]>> \in Seq(Entry)
    BY <1>0, Nothings DEF Entry
  <2> QED
    BY <1>0, <1>9, <1>10, <2>1, RunMoves DEF ReadMessages
<1>11. CASE CatchUp \/ TakeMessage \/ MarkChannels
  BY <1>0, <1>11, RunMoves DEF CatchUp, TakeMessage, MarkChannels, TaskTo
<1>12. CASE PassMessage \/ NoteDelivery \/ WriteMessage
  BY <1>0, <1>9, <1>12, RunMoves DEF PassMessage, NoteDelivery, WriteMessage
<1>13. CASE ScheduleNotice
  BY <1>0, <1>13, RunMoves DEF ScheduleNotice
<1>14. ASSUME SendTarget \/ SendMessage PROVE Sending
  <2>1. InHand.key = InHand.key /\ ToSend = (IF SendTarget THEN CampaignRequired ELSE Required(MailOnly))
    BY <1>14 DEF SendTarget, SendMessage, ToSend, CampaignRequired, TaskAt
  <2> QED
    BY <1>14, <2>1 DEF SendTarget, SendMessage, Sending, TaskAt, ToSend, CampaignRequired
<1> QED
  BY <1>1, <1>2, <1>3, <1>4, <1>5, <1>6, <1>8, <1>10, <1>11, <1>12, <1>13, <1>14, Writers
     DEF EachWrites, RunCampaigns, RunMessages

LEMMA RowsTyped ==
    ASSUME IInv, Kind PROVE row' \in [Key -> Row] /\ got' \in [Key -> [Channel -> 0..2]]
<1>0. row \in [Key -> Row] /\ got \in [Key -> [Channel -> 0..2]] /\ run \in Run
  BY DEF IInv, TypeOK, DeliveriesType
<1>1. CASE Apart \/ Resting
  BY <1>1 DEF Apart, Resting, RowsAside
<1>2. CASE Changing \/ Reading \/ Taking \/ Marking
  BY <1>0, <1>2 DEF Changing, SaveConfiguration, Reading, Taking, Marking
<1>3. CASE Sending
  <2>1. PICK ok \in Outcomes(Forced(ToSend)) :
           IF SameRow(InHand.key, InHand.row.id) THEN Count(InHand.key, ok) ELSE UNCHANGED got
    BY <1>3 DEF Sending, SendToUser
  <2>2. ok \in SUBSET Channel /\ InHand.key \in Key /\ row' = row
    BY <1>0, <1>3, <2>1, MovesOn, InHandIs DEF Outcomes, Run
  <2> QED
    BY <1>0, <2>1, <2>2, Counting
<1>4. CASE Writing
  BY <1>0, <1>4 DEF Writing, UpdateInHand
<1> QED
  BY <1>1, <1>2, <1>3, <1>4 DEF Kind

\* Who deletes a campaign.
LEMMA CampaignTyped ==
    ASSUME IInv, [Next]_vars
    PROVE  /\ campaign' \in Campaign
           /\ campaign'.status = "deleted" => campaign.status = "deleted" \/ \E t \in Thread : DeleteCampaign(t)
<1>0. campaign \in Campaign /\ run.verdict \in CampaignStatus \ {"deleted"}
  BY DEF IInv, TypeOK, DeliveriesType, CampaignsType, Run
<1>1. ASSUME NEW s \in CampaignStatus \ {"deleted"}, SetStatus(s) \/ WriteStatus(s)
      PROVE  campaign' \in Campaign /\ (campaign'.status = "deleted" => campaign.status = "deleted")
  BY <1>0, <1>1 DEF SetStatus, WriteStatus, Campaign
<1>2. CASE UNCHANGED campaign
  BY <1>0, <1>2
<1>3. {"pending", "sending", "error", "finished"} \subseteq CampaignStatus \ {"deleted"} /\ "deleted" \in CampaignStatus
  BY DEF CampaignStatus
<1>4. ASSUME NEW t \in Thread, SendTest(t) \/ MarkSending(t) \/ MarkError(t)
      PROVE  campaign' \in Campaign /\ (campaign'.status = "deleted" => campaign.status = "deleted")
  BY <1>1, <1>3, <1>4 DEF SendTest, MarkSending, MarkError
<1>5. ASSUME NEW t \in Thread, SaveCampaign(t)
      PROVE  campaign' \in Campaign /\ (campaign'.status = "deleted" => campaign.status = "deleted")
  BY <1>0, <1>5 DEF SaveCampaign, Campaign
<1>6. ASSUME NEW t \in Thread, DeleteCampaign(t) PROVE campaign' \in Campaign
  BY <1>0, <1>3, <1>6 DEF DeleteCampaign, Campaign
<1>7. CASE RecoverTests \/ HalfAnHourPasses
  BY <1>0, <1>3, <1>7 DEF RecoverTests, HalfAnHourPasses, Campaign
<1>8. CASE Reconcile \/ StartTest \/ FinishTest \/ ApplyStatus
  BY <1>0, <1>1, <1>3, <1>8 DEF Reconcile, StartTest, FinishTest, ApplyStatus
<1> QED
  BY <1>2, <1>4, <1>5, <1>6, <1>7, <1>8, Writers DEF EachWrites, CampaignStatusStep

LEMMA RequestTyped == ASSUME IInv, [Next]_vars PROVE request' \in [Thread -> Request]
<1>0. request \in [Thread -> Request] /\ queued \in BOOLEAN
  BY DEF IInv, TypeOK, CampaignsType
<1>1. CASE UNCHANGED request
  BY <1>0, <1>1
<1>2. CASE Death
  BY <1>2, Nothings DEF Death
<1>3. ASSUME NEW t \in Thread, SendCampaign(t) PROVE request' \in [Thread -> Request]
  <2>1. \E step \in {"insert", "clear"} :
           request' = [request EXCEPT ![t] = [step |-> step, todo |-> User, before |-> FALSE]]
    BY <1>3 DEF SendCampaign
  <2>2. \A step \in {"insert", "clear"} : [step |-> step, todo |-> User, before |-> FALSE] \in Request
    BY DEF Request
  <2> QED
    BY <1>0, <2>1, <2>2
<1>4. ASSUME NEW t \in Thread, NEW r \in Request, request' = [request EXCEPT ![t] = r]
      PROVE  request' \in [Thread -> Request]
  BY <1>0, <1>4
<1>5. ASSUME NEW t \in Thread,
             ClearTargets(t) \/ MarkSending(t) \/ EnqueueDelivery(t) \/ CheckQueued(t) \/ MarkError(t)
      PROVE  request' \in [Thread -> Request]
  <2>1. PICK step \in {"insert", "count", "check", "rest", "fail"} :
           request' = [request EXCEPT ![t] = [request[t] EXCEPT !.step = step]]
    BY <1>0, <1>5 DEF ClearTargets, MarkSending, EnqueueDelivery, CheckQueued, MarkError, RequestTo
  <2>2. [request[t] EXCEPT !.step = step] \in Request
    BY <1>0 DEF Request
  <2> QED
    BY <1>4, <2>1, <2>2
<1>6. ASSUME NEW t \in Thread, InsertTarget(t) PROVE request' \in [Thread -> Request]
  <2>1. PICK u \in request[t].todo :
           request' = [request EXCEPT
             ![t].todo = @ \ {u},
             ![t].step = IF campaign.status = "deleted" THEN "rest"
                         ELSE IF request[t].todo = {u} THEN "mark" ELSE @]
    BY <1>6 DEF InsertTarget
  <2> DEFINE step == IF campaign.status = "deleted" THEN "rest"
                     ELSE IF request[t].todo = {u} THEN "mark" ELSE request[t].step
             r == [request[t] EXCEPT !.todo = request[t].todo \ {u}, !.step = step]
  <2>2. request' = [request EXCEPT ![t] = r]
    BY <1>0, <2>1 DEF Request
  <2>3. step \in {"rest", "mark", request[t].step}
    OBVIOUS
  <2> HIDE DEF step
  <2>4. r \in Request
    BY <1>0, <2>3 DEF Request
  <2> QED
    BY <1>4, <2>2, <2>4
<1>7. ASSUME NEW t \in Thread, CountQueued(t) PROVE request' \in [Thread -> Request]
  BY <1>0, <1>7 DEF CountQueued, Request
<1> QED
  BY <1>1, <1>2, <1>3, <1>5, <1>6, <1>7, Writers DEF EachWrites, RequestStep

LEMMA ExtrasTyped ==
    ASSUME IInv, [Next]_vars
    PROVE  extras' \in Extras /\ (extras'.noted => event = "suggestion")
<1>0. extras \in Extras /\ (extras.noted => event = "suggestion") /\ run.ok \in SUBSET Channel
  BY DEF IInv, TypeOK, DeliveriesType, MessagesType, EventInv, Run
<1>1. CASE UNCHANGED extras
  BY <1>0, <1>1
<1>2. CASE CatchUp
  <2>1. CASE UNCHANGED extras
    BY <1>0, <2>1
  <2>2. CASE CanCatchUp /\ extras' = [extras EXCEPT !.catchups = extras.catchups + 1, !.cooling = TRUE]
    <3>1. extras.catchups + 1 \in 0..MaxCatchups
      BY <1>0, <2>2, AttemptBounds DEF CanCatchUp, Extras
    <3> QED
      BY <1>0, <2>2, <3>1 DEF Extras
  <2> QED
    BY <1>2, <2>1, <2>2 DEF CatchUp
<1>3. CASE MarkChannels
  BY <1>0, <1>3 DEF MarkChannels, Extras
<1>4. CASE NoteDelivery
  BY <1>0, <1>4 DEF NoteDelivery, Extras
<1>5. CASE ADayPasses
  BY <1>0, <1>5 DEF ADayPasses, Extras
<1>6. CASE CooldownEnds
  BY <1>6, AttemptBounds DEF CooldownEnds, Extras
<1> QED
  BY <1>1, <1>2, <1>3, <1>4, <1>5, <1>6, Writers DEF EachWrites

LEMMA OrderTyped ==
    ASSUME IInv, [Next]_vars
    PROVE  /\ order' \in [Thread -> Order]
           /\ \A t \in Thread : order'[t].step = "store" =>
                \/ order'[t] = order[t]
                \/ event = "creation" /\ order'[t].found = row[Msg] /\ UNCHANGED row
<1>0. order \in [Thread -> Order] /\ row[Msg] \in Row
  BY Nothings DEF IInv, TypeOK, MessagesType, DeliveriesType
<1>1. CASE UNCHANGED order
  BY <1>0, <1>1
<1>2. CASE Death
  BY <1>2, Nothings DEF Death, NoOrder
<1>3. ASSUME NEW t \in Thread, StoreMessage(t) PROVE order' = [order EXCEPT ![t] = NoOrder]
  BY <1>3 DEF StoreMessage
<1>4. ASSUME NEW t \in Thread, LookUp(t)
      PROVE  /\ order' = [order EXCEPT ![t] = [step |-> "store", found |-> row[Msg]]]
             /\ event = "creation" /\ UNCHANGED row
  BY <1>4 DEF LookUp
<1>5. [step |-> "store", found |-> row[Msg]] \in Order /\ NoOrder \in Order /\ NoOrder.step = "rest"
  BY <1>0, Nothings DEF Order, NoOrder
<1>6. ASSUME NEW t \in Thread, StoreMessage(t)
      PROVE  order' \in [Thread -> Order] /\ \A s \in Thread : order'[s].step = "store" => order'[s] = order[s]
  BY <1>0, <1>3, <1>5, <1>6
<1>7. ASSUME NEW t \in Thread, LookUp(t)
      PROVE  /\ order' \in [Thread -> Order]
             /\ \A s \in Thread : order'[s] = order[s] \/ order'[s].found = row[Msg]
             /\ event = "creation" /\ UNCHANGED row
  BY <1>0, <1>4, <1>5, <1>7
<1> QED
  BY <1>1, <1>2, <1>6, <1>7, Writers DEF EachWrites

\* A deleted campaign has no targets, and gets none.
LEMMA NoTargets ==
    ASSUME IInv, [Next]_vars, NEW u \in User,
           \/ row[u].status = "none" /\ campaign.status = "deleted"
           \/ \E t \in Thread : DeleteCampaign(t)
    PROVE  row'[u].status = "none"
<1>0. row \in [Key -> Row] /\ u \in Key /\ u # Msg /\ Msg \in Key
  BY Nothings, MsgIsNoUser DEF IInv, TypeOK, DeliveriesType, Key
<1>1. ASSUME NEW t \in Thread, DeleteCampaign(t) \/ ClearTargets(t) PROVE row'[u].status = "none"
  BY <1>0, <1>1, RowOps DEF DeleteCampaign, ClearTargets, RowGoes
<1> SUFFICES ASSUME row[u].status = "none", campaign.status = "deleted"
             PROVE  row'[u].status = "none"
  BY <1>1
<1>2. ASSUME NEW t \in Thread, InsertTarget(t) PROVE row' = row
  BY <1>2 DEF InsertTarget
<1>3. ASSUME NEW k \in Key, TimeComes(k) PROVE row'[u].status = "none"
  BY <1>0, <1>3 DEF TimeComes, Row
<1>4. ASSUME PassTarget \/ WriteTarget PROVE row'[u] = row[u]
  <2>1. Holds /\ run.batch # <<>>
    BY <1>4 DEF PassTarget, WriteTarget, TaskAt, Holds, IInv, RunInv
  <2>2. InHand.key \in Key
    BY <2>1, InHandIs
  <2> QED
    BY <1>0, <1>4, <2>2 DEF PassTarget, WriteTarget, WriteOutcome, UpdateInHand, SameRow
<1>5. ASSUME MessageRowStep PROVE row'[u] = row[u]
  <2>1. ASSUME NEW found, NEW when, Store(found, when) PROVE row'[u] = row[u]
    BY <1>0, <2>1 DEF Store
  <2>2. ASSUME NEW t \in Thread, StoreMessage(t) \/ RetryFailed(t) PROVE row'[u] = row[u]
    BY <1>0, <2>1, <2>2 DEF StoreMessage, RetryFailed
  <2>3. CASE ScheduleSuggestion \/ ScheduleNotice \/ CatchUp \/ CooldownEnds
    BY <1>0, <2>1, <2>3 DEF ScheduleSuggestion, ScheduleNotice, CatchUp, CooldownEnds
  <2>4. CASE PassMessage \/ WriteMessage
    <3>1. Holds /\ run.batch # <<>> /\ run.task = "messages"
      BY <2>4 DEF PassMessage, WriteMessage, TaskAt, Holds, IInv, RunInv
    <3>2. InHand.key = Msg
      BY <3>1, InHandIs DEF KeysOf
    <3> QED
      BY <1>0, <2>4, <3>2 DEF PassMessage, WriteMessage, WriteOutcome, UpdateInHand
  <2> QED
    BY <1>5, <2>2, <2>3, <2>4 DEF MessageRowStep
<1> QED
  BY <1>1, <1>2, <1>3, <1>4, <1>5, Writers DEF EachWrites, TargetStep

\* The row of the message goes only when a cooldown ends.
LEMMA MessageStays ==
    ASSUME IInv, [Next]_vars, row[Msg].status # "none", event # "suggestion"
    PROVE  row'[Msg].status # "none"
<1>0. Msg \in Key /\ row \in [Key -> Row]
  BY Nothings DEF IInv, TypeOK, DeliveriesType
<1>1. Kind
  BY Kinds
<1>2. CASE Apart \/ Resting
  BY <1>0, <1>2 DEF Apart, Resting, RowsAside, Kept, Begun, Gone, RowKeeps, RowBegins
<1>3. CASE Changing \/ Reading \/ Taking \/ Sending \/ Marking
  BY <1>3 DEF Changing, SaveConfiguration, Reading, Taking, Sending, SendToUser, Marking
<1>4. CASE Writing
  BY <1>0, <1>4 DEF Writing, Written, UpdateInHand
<1> QED
  BY <1>1, <1>2, <1>3, <1>4 DEF Kind

LEMMA EventKept == ASSUME IInv, [Next]_vars PROVE EventInv'
<1>1. campaign'.status = "deleted" => \A u \in User : row'[u].status = "none"
  BY CampaignTyped, NoTargets DEF IInv, EventInv
<1>2. extras'.noted => event' = "suggestion"
  BY ExtrasTyped, EventStays
<1>3. ASSUME NEW t \in Thread, order'[t].step = "store"
      PROVE  event' = "creation" /\ (order'[t].found.status # "none" => row'[Msg].status # "none")
  <2>1. CASE order'[t] = order[t]
    <3>1. event = "creation" /\ (order[t].found.status # "none" => row[Msg].status # "none")
      BY <1>3, <2>1 DEF IInv, EventInv
    <3> QED
      BY <2>1, <3>1, MessageStays, EventStays
  <2>2. CASE event = "creation" /\ order'[t].found = row[Msg] /\ UNCHANGED row
    BY <2>2, EventStays
  <2> QED
    BY <1>3, <2>1, <2>2, OrderTyped
<1> QED
  BY <1>1, <1>2, <1>3 DEF EventInv

LEMMA TypesKept == ASSUME IInv, [Next]_vars PROVE TypeOK'
<1>1. sendMode' \in {"first", "all"} /\ avail' \in SUBSET Channel
  BY Writers DEF EachWrites, SaveConfiguration, IInv, TypeOK, DeliveriesType
<1>2. excused' \in BOOLEAN
  <2>1. CASE UNCHANGED excused
    BY <2>1 DEF IInv, TypeOK, DeliveriesType
  <2>2. CASE SaveConfiguration \/ Death
    BY <2>2 DEF SaveConfiguration, Death
  <2> QED
    BY <2>1, <2>2, Writers DEF EachWrites
<1>3. budget' \in [{"ask", "failure", "death"} -> Nat]
  BY Writers DEF EachWrites, Pay, IInv, TypeOK, DeliveriesType
<1>4. queued' \in BOOLEAN
  <2>1. CASE UNCHANGED queued
    BY <2>1 DEF IInv, TypeOK, CampaignsType
  <2>2. CASE QueueStep
    BY <2>2 DEF QueueStep, SendTest, EnqueueDelivery, StartCampaigns
  <2> QED
    BY <2>1, <2>2, Writers DEF EachWrites
<1>5. event' \in Event
  BY EventStays DEF IInv, TypeOK, MessagesType
<1>6. row' \in [Key -> Row] /\ got' \in [Key -> [Channel -> 0..2]]
  BY Kinds, RowsTyped
<1>7. DeliveriesType'
  BY <1>1, <1>2, <1>3, <1>6, RunTyped DEF DeliveriesType
<1>8. CampaignsType'
  BY <1>4, CampaignTyped, RequestTyped DEF CampaignsType
<1>9. MessagesType'
  BY <1>5, ExtrasTyped, OrderTyped DEF MessagesType
<1> QED
  BY <1>7, <1>8, <1>9 DEF TypeOK

LEMMA InitHolds == Init => IInv
<1> SUFFICES ASSUME Init PROVE IInv
  OBVIOUS
<1> USE DEF Init, DeliveriesInit, CampaignsInit, MessagesInit
<1>1. /\ row = [k \in Key |-> NoRow] /\ run = AtRest /\ got = [k \in Key |-> [c \in Channel |-> 0]]
      /\ NoRow \in Row /\ AtRest \in Run
  BY Nothings
<1>2. TypeOK
  <2>1. DeliveriesType
    <3>1. [c \in Channel |-> 0] \in [Channel -> 0..2]
      OBVIOUS
    <3>2. budget \in [{"ask", "failure", "death"} -> Nat]
      BY CommBounds
    <3> QED
      BY <1>1, <3>1, <3>2 DEF DeliveriesType
  <2>2. CampaignsType
    BY Nothings DEF CampaignsType, Campaign, CampaignStatus
  <2>3. MessagesType
    BY Nothings, AttemptBounds DEF MessagesType, Extras
  <2> QED
    BY <2>1, <2>2, <2>3 DEF TypeOK
<1>3. \A k \in Key : row[k].status = "none" /\ row[k].used = {}
  BY <1>1 DEF NoRow
<1>4. ~Holds /\ ~Sent /\ run.phase = "idle"
  BY <1>1 DEF AtRest, Holds, Sent
<1>5. RowInv /\ DeliveredInv /\ SentWasDelivered /\ FirstIsEnough
  BY <1>1, <1>3, <1>4 DEF RowInv, DeliveredInv, SentWasDelivered, InFlight, FirstIsEnough
<1>6. RunInv /\ BatchInv
  BY <1>1, <1>4 DEF RunInv, BatchInv
<1>7. EventInv
  BY <1>3, Nothings DEF EventInv, NoOrder
<1>8. OnceInv
  BY <1>1, <1>3, <1>5 DEF OnceInv, AtRest
<1> QED
  BY <1>2, <1>5, <1>6, <1>7, <1>8 DEF IInv

LEMMA Inductive == Spec => []IInv
<1>1. IInv /\ [Next]_vars => IInv'
  BY Kinds, EventStays, TypesKept, RowKept, RunKept, BatchKept, EventKept, DeliveredKept, SentKept, OnceKept
     DEF IInv
<1> QED
  BY InitHolds, <1>1, PTL DEF Spec

----------------------------------------------------------------------------
(***************************************************************************)
(* Theorems.                                                                *)
(***************************************************************************)
\* Rows, campaign, message, requests and the task in hand keep to their types;
\* no row is ever tried more often than max_attempts.
THEOREM TypeCorrect == Spec => []TypeOK
BY Inductive, PTL DEF IInv

\* A row that reads 'sent' was delivered, or its recipient is passed over,
\* whatever was rebuilt, deleted or revived while a task held it.
THEOREM SentWasDeliveredAlways == Spec => []SentWasDelivered
BY Inductive, PTL DEF IInv

\* Attempts, catch-ups, revivals and changes of the configuration never bring
\* a message twice through a channel, unless an outcome was lost by a death or
\* the mode went back to "first" under a partial delivery.
THEOREM NeverTwice == Spec => []NoDoubleDelivery
<1>1. IInv => NoDoubleDelivery
  BY DEF IInv, OnceInv, NoDoubleDelivery
<1> QED
  BY <1>1, Inductive, PTL

====
