---- MODULE SessionCollector ----
(***************************************************************************)
(* The live sessions of one media server: collect_sessions_for_server,      *)
(* which the job worker calls and, for Plex, the websocket thread calls     *)
(* too, one statement at a time.                                            *)
(*                                                                          *)
(* Playbacks are numbered in the order they begin and each is of a media of *)
(* its own: Plex may reuse the key of a session.  The age of last_seen_at   *)
(* is fresh (10 seconds), live (90 seconds) or old.                         *)
(***************************************************************************)
EXTENDS Integers, FiniteSets

CONSTANTS
    Session,          \* session keys
    Collector,        \* who collects: the worker, the websocket
    User,
    SameClient(_, _), \* one device
    MaxPlays,         \* bound: playbacks
    MaxBudget         \* bounds: outages, deaths, refused terminations, events

Worker == "worker"
Hazard == {"outage", "death", "refusal", "event"}

ASSUME WorkerCollects == Worker \in Collector /\ Collector \subseteq {Worker, "socket"}
ASSUME MonitoringBounds == MaxPlays \in Nat /\ MaxBudget \in [Hazard -> Nat]

VARIABLES
    owner,      \* at the provider: the user of each session
    play,       \* at the provider: the playback of each session, 0 if none
    plays,      \* playbacks so far
    reachable,  \* at the provider: the server answers
    server,     \* status and cooldown of the row of servers
    row,        \* media_sessions
    history,    \* media_session_history
    lives,      \* values of started_at used so far
    coll,       \* the collections in hand
    overlapped, \* history: two collections have met
    budget

provider == <<play, plays, reachable, owner>>
sessionVars == <<server, row, history, lives, coll, overlapped>>

NoSession == "no session"
ASSUME NoSessionIsNone == NoSession \notin Session

Playback == 0..MaxPlays

Row == [in      : BOOLEAN,
        life    : Nat,          \* started_at, 0 if null
        watch   : Playback,     \* the playback it describes
        seen    : {"fresh", "live", "old"},
        stable  : BOOLEAN,      \* started 15 seconds ago
        missing : 0..1]         \* missing_count, 1 for more

Step == {"rest", "begin", "ask", "replace", "upsert", "sort",
         "record", "remove", "finish", "done", "failed"}

Collection == [step : Step,
               prev : SUBSET Session,           \* rows it has read
               cur  : [Session -> Playback],    \* what the provider answered
               todo : SUBSET Session,
               hand : Session \cup {NoSession}, \* the row being removed
               life : Nat, watch : Playback]    \* and its data

NoRow == [in |-> FALSE, life |-> 0, watch |-> 0, seen |-> "old", stable |-> FALSE, missing |-> 0]

Resting == [step |-> "rest", prev |-> {}, cur |-> [s \in Session |-> 0], todo |-> {},
            hand |-> NoSession, life |-> 0, watch |-> 0]

Pay(what) ==
    /\ budget[what] > 0
    /\ budget' = [budget EXCEPT ![what] = @ - 1]

SessionsType ==
    /\ owner \in [Session -> User]
    /\ play \in [Session -> Playback] /\ plays \in Playback
    /\ reachable \in BOOLEAN
    /\ server \in [status : {"up", "down"}, cooling : BOOLEAN]
    /\ row \in [Session -> Row]
    /\ history \subseteq [session : Session, life : Nat, watch : Playback]
    /\ lives \in Nat
    /\ coll \in [Collector -> Collection]
    /\ overlapped \in BOOLEAN
    /\ budget \in [Hazard -> Nat]

Budgets == {b \in [Hazard -> UNION {0..MaxBudget[h] : h \in Hazard}] :
              \A h \in Hazard : b[h] <= MaxBudget[h]}

SessionsInit ==
    /\ owner \in [Session -> User]
    /\ play = [s \in Session |-> 0] /\ plays = 0
    /\ reachable = TRUE
    /\ server = [status |-> "up", cooling |-> FALSE]
    /\ row = [s \in Session |-> NoRow]
    /\ history = {}
    /\ lives = 0
    /\ coll = [c \in Collector |-> Resting]
    /\ overlapped = FALSE
    /\ budget \in Budgets

----------------------------------------------------------------------------
(***************************************************************************)
(* The provider and the passing of time.                                    *)
(***************************************************************************)
StartPlaying(s) ==
    /\ play[s] = 0 /\ plays < MaxPlays
    /\ plays' = plays + 1
    /\ play' = [play EXCEPT ![s] = plays + 1]
    /\ UNCHANGED <<owner, reachable, sessionVars, budget>>

StopPlaying(s) ==
    /\ play[s] # 0
    /\ play' = [play EXCEPT ![s] = 0]
    /\ UNCHANGED <<owner, plays, reachable, sessionVars, budget>>

GoDown ==
    /\ reachable
    /\ Pay("outage")
    /\ reachable' = FALSE
    /\ UNCHANGED <<owner, play, plays, sessionVars>>

ComeBack ==
    /\ ~reachable
    /\ reachable' = TRUE
    /\ UNCHANGED <<owner, play, plays, sessionVars, budget>>

Older(r) == [r EXCEPT !.stable = @ \/ r.in,
                      !.seen = IF @ = "fresh" THEN "live" ELSE "old"]

Aged == [s \in Session |-> Older(row[s])]

RowsAge ==
    /\ Aged # row
    /\ row' = Aged
    /\ UNCHANGED <<provider, server, history, lives, coll, overlapped, budget>>

CooldownEnds ==
    /\ server.cooling
    /\ server' = [server EXCEPT !.cooling = FALSE]
    /\ UNCHANGED <<provider, row, history, lives, coll, overlapped, budget>>

\* should_skip_unreachable_server
Skipped == server.status = "down" \/ server.cooling

----------------------------------------------------------------------------
(***************************************************************************)
(* A collection.                                                            *)
(***************************************************************************)
At(c, step) == coll[c].step = step
Go(c, step) == coll' = [coll EXCEPT ![c].step = step]

\* A loop that is over gives way to the next: the upserts to the sorting of the
\* rows read at the beginning, that to the end.
Onward(k) ==
    IF k.todo # {} THEN k
    ELSE IF k.step = "upsert" /\ k.prev # {} THEN [k EXCEPT !.step = "sort", !.todo = k.prev]
    ELSE [k EXCEPT !.step = "finish"]

\* The worker is told how it went; the websocket does not care.
Over(c, how) == coll' = [coll EXCEPT ![c] = IF c = Worker THEN [Resting EXCEPT !.step = how]
                                            ELSE Resting]

NextRow(c) == [coll[c] EXCEPT !.step = "sort", !.hand = NoSession, !.life = 0, !.watch = 0]

\* A server that is down or cooling is not asked, and nothing is reported.
Begin(c) ==
    /\ At(c, "begin")
    /\ IF Skipped THEN Over(c, "done")
       ELSE coll' = [coll EXCEPT ![c].step = "ask", ![c].prev = {s \in Session : row[s].in}]
    /\ overlapped' = (overlapped \/ \E d \in Collector \ {c} :
                        ~Skipped /\ coll[d].step \notin {"rest", "begin", "done", "failed"})
    /\ UNCHANGED <<provider, server, row, history, lives, budget>>

\* Rows read at the beginning whose client has gone on to another session.
Present(k) == {s \in Session : k.cur[s] # 0}
Replaced(k) == {s \in k.prev \ Present(k) :
                  \E n \in Present(k) : owner[s] = owner[n] /\ SameClient(s, n)}

AskProvider(c) ==
    /\ At(c, "ask")
    /\ reachable
    /\ LET k == [coll[c] EXCEPT !.step = "upsert", !.cur = play,
                                !.todo = {s \in Session : play[s] # 0}]
       IN  coll' = [coll EXCEPT ![c] = IF Replaced(k) = {} THEN Onward(k)
                                       ELSE [k EXCEPT !.step = "replace"]]
    /\ UNCHANGED <<provider, server, row, history, lives, overlapped, budget>>

\* mark_server_unreachable; then, while sessions were seen of late, the server
\* counts as up and the collection as made.  The window is 180 seconds.
ProviderFails(c) ==
    /\ At(c, "ask")
    /\ ~reachable
    /\ LET shown == {row[s].seen : s \in {x \in Session : row[x].in}}
       IN  \/ /\ shown # {}
              /\ server' = [status |-> "up", cooling |-> TRUE]
              /\ Over(c, "done")
           \/ /\ shown \subseteq {"old"}
              /\ server' = [status |-> "down", cooling |-> TRUE]
              /\ Over(c, "failed")
    /\ UNCHANGED <<provider, row, history, lives, overlapped, budget>>

\* No grace for them.
CloseReplaced(c) ==
    /\ At(c, "replace")
    /\ row' = [s \in Session |->
                 IF s \in Replaced(coll[c]) /\ row[s].in
                 THEN [row[s] EXCEPT !.missing = 1, !.seen = IF @ = "fresh" THEN "live" ELSE @]
                 ELSE row[s]]
    /\ coll' = [coll EXCEPT ![c] = Onward([@ EXCEPT !.step = "upsert"])]
    /\ UNCHANGED <<provider, server, history, lives, overlapped, budget>>

\* started_at is set when the session is new to this collection, or when the
\* row that is updated has none.
Upsert(c, s) ==
    LET new == s \notin coll[c].prev
        fresh == row[s].life = 0 /\ (new \/ row[s].in)
    IN  /\ row' = [row EXCEPT ![s] =
                     [in      |-> TRUE,
                      life    |-> IF fresh THEN lives + 1 ELSE row[s].life,
                      watch   |-> coll[c].cur[s],
                      seen    |-> "fresh",
                      stable  |-> row[s].stable /\ ~fresh,
                      missing |-> 0]]
        /\ lives' = IF fresh THEN lives + 1 ELSE lives

\* The provider lists its sessions in one order, and SQLite its rows.
NextOf(c) == CHOOSE s \in coll[c].todo : TRUE
Rest(c) == [coll[c] EXCEPT !.todo = @ \ {NextOf(c)}]

UpsertNext(c) ==
    /\ At(c, "upsert")
    /\ Upsert(c, NextOf(c))
    /\ coll' = [coll EXCEPT ![c] = Onward(Rest(c))]
    /\ UNCHANGED <<provider, server, history, overlapped, budget>>

\* Mutant: the row goes before the history is written.
SortNextRemoves(c) ==
    /\ At(c, "sort")
    /\ LET s == NextOf(c)
           gone == row[s].in /\ s \notin Present(coll[c]) /\ row[s].seen # "fresh"
       IN  /\ row' = [row EXCEPT ![s] = IF gone THEN NoRow ELSE @]
           /\ coll' = [coll EXCEPT ![c] =
                         IF gone THEN [Rest(c) EXCEPT !.step = "record", !.hand = s,
                                           !.life = row[s].life, !.watch = row[s].watch]
                         ELSE Onward(Rest(c))]
    /\ UNCHANGED <<provider, server, history, lives, overlapped, budget>>

\* missing_count goes to zero for what plays.  For what does not it goes up; one
\* miss is enough, unless the row was seen just now, and the stop event written.
SortNext(c) ==
    /\ At(c, "sort")
    /\ LET s == NextOf(c)
           r == [row[s] EXCEPT !.missing = IF row[s].in /\ s \notin Present(coll[c]) THEN 1 ELSE 0]
       IN  /\ row' = [row EXCEPT ![s] = r]
           /\ coll' = [coll EXCEPT ![c] =
                         IF r.missing = 1 /\ r.seen # "fresh"
                         THEN [Rest(c) EXCEPT !.step = "record", !.hand = s,
                                           !.life = r.life, !.watch = r.watch]
                         ELSE Onward(Rest(c))]
    /\ UNCHANGED <<provider, server, history, lives, overlapped, budget>>

\* Mutant: the row that may have been written already is not looked for.
RecordAgain(c) ==
    /\ At(c, "record")
    /\ history' = history \cup
           {[session |-> coll[c].hand, life |-> lives + 1, watch |-> coll[c].watch]}
    /\ lives' = lives + 1
    /\ Go(c, "remove")
    /\ UNCHANGED <<provider, server, row, overlapped, budget>>

\* An UPDATE of the history row of the same session, media and start, otherwise an
\* INSERT.  A row without a start takes the time it was last seen.
Record(c) ==
    LET s == coll[c].hand
        start == IF coll[c].life = 0 THEN lives + 1 ELSE coll[c].life
    IN  /\ At(c, "record")
        /\ history' = history \cup {[session |-> s, life |-> start, watch |-> coll[c].watch]}
        /\ lives' = IF coll[c].life = 0 THEN lives + 1 ELSE lives
        /\ Go(c, "remove")
        /\ UNCHANGED <<provider, server, row, overlapped, budget>>

Remove(c) ==
    /\ At(c, "remove")
    /\ row' = [row EXCEPT ![coll[c].hand] = NoRow]
    /\ coll' = [coll EXCEPT ![c] = Onward(NextRow(c))]
    /\ UNCHANGED <<provider, server, history, lives, overlapped, budget>>

\* The server has answered: up, and no cooldown.
Finish(c) ==
    /\ At(c, "finish")
    /\ server' = [status |-> "up", cooling |-> FALSE]
    /\ Over(c, "done")
    /\ UNCHANGED <<provider, row, history, lives, overlapped, budget>>

Collect(c) ==
    \/ Begin(c) \/ AskProvider(c) \/ ProviderFails(c) \/ CloseReplaced(c)
    \/ UpsertNext(c) \/ SortNext(c) \/ Record(c) \/ Remove(c) \/ Finish(c)
====
