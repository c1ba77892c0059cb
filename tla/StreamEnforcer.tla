---- MODULE StreamEnforcer ----
(***************************************************************************)
(* The task stream_enforcer, one provider call at a time, for two policies: *)
(* a number of streams per user, warned and checked again before the kill,  *)
(* and the policy of expired subscriptions, which kills at once.            *)
(*                                                                          *)
(* It runs in the only worker of the task engine: while it sleeps, no       *)
(* refresh job runs, and only the websocket can renew the rows.             *)
(*                                                                          *)
(* Left out: warnings and the log of enforcements, the grace given to a     *)
(* probable change of device, household merging, the other rule types.      *)
(***************************************************************************)
EXTENDS SessionCollector

CONSTANTS Limit,   \* streams allowed to each user
          Barred   \* users whose subscription has expired

ASSUME PoliciesType == Limit \in [User -> Nat] /\ Barred \subseteq User

NoUser == "no user"
ASSUME NoUserIsNone == NoUser \notin User

VARIABLE enf \* the run of the task

Run == [step : {"rest", "next", "wait", "recheck", "kill"},
        todo : SUBSET [user : User, victim : Session \cup {NoSession}],
        hand : User \cup {NoUser},
        victim : Session \cup {NoSession}]

NoRun == [step |-> "rest", todo |-> {}, hand |-> NoUser, victim |-> NoSession]

EnforcerType == enf \in Run

\* load_live_sessions.  The rows of an expired user need not be stable.
Counted(u) == {s \in Session : /\ owner[s] = u
                               /\ row[s].in /\ row[s].missing = 0
                               /\ row[s].seen # "old" /\ ~Skipped
                               /\ u \in Barred \/ row[s].stable}

Violates(u) == IF u \in Barred THEN Counted(u) # {} ELSE Cardinality(Counted(u)) > Limit[u]

\* pick_kill_target with kill_newest
Newest(u) == CHOOSE s \in Counted(u) : \A x \in Counted(u) : row[x].life <= row[s].life

\* A violation carries the session to kill; a rechecked one is given another.
Violation(u) == [user |-> u, victim |-> IF u \in Barred THEN Newest(u) ELSE NoSession]

StartEnforcer ==
    /\ enf.step = "rest"
    /\ \E u \in User : Violates(u)
    /\ enf' = [NoRun EXCEPT !.step = "next",
                            !.todo = {Violation(u) : u \in {x \in User : Violates(x)}}]
    /\ UNCHANGED <<provider, sessionVars, budget>>

TakeViolation ==
    /\ enf.step = "next"
    /\ \E v \in enf.todo :
        enf' = [step |-> IF v.user \in Barred THEN "kill" ELSE "wait",
                todo |-> enf.todo \ {v}, hand |-> v.user, victim |-> v.victim]
    /\ UNCHANGED <<provider, sessionVars, budget>>

\* time.sleep(RECHECK_DELAY_SECONDS): 45 seconds
WaitBeforeRecheck ==
    /\ enf.step = "wait"
    /\ \E gone \in SUBSET {s \in Session : row[s].seen = "live"} :
        row' = [s \in Session |->
                  [Older(row[s]) EXCEPT !.seen = IF row[s].seen = "fresh" \/
                                                   (row[s].seen = "live" /\ s \notin gone)
                                                 THEN "live" ELSE "old"]]
    /\ enf' = [enf EXCEPT !.step = "recheck"]
    /\ UNCHANGED <<provider, server, history, lives, coll, overlapped, budget>>

\* Mutant: only a target seen just now is killed, as though rows were renewed.
RecheckAtLeisure ==
    /\ enf.step = "recheck"
    /\ enf' = IF Violates(enf.hand) /\ row[Newest(enf.hand)].seen = "fresh"
              THEN [enf EXCEPT !.step = "kill", !.victim = Newest(enf.hand)]
              ELSE [enf EXCEPT !.step = "next"]
    /\ UNCHANGED <<provider, sessionVars, budget>>

\* _recheck_violation: the policy over the rows as they are now.
Recheck ==
    /\ enf.step = "recheck"
    /\ enf' = IF Violates(enf.hand)
              THEN [enf EXCEPT !.step = "kill", !.victim = Newest(enf.hand)]
              ELSE [enf EXCEPT !.step = "next"]
    /\ UNCHANGED <<provider, sessionVars, budget>>

\* The call fails when the session has ended or the server does not answer,
\* and the provider may refuse it.
KillFails == play[enf.victim] = 0 \/ ~reachable

Kill ==
    /\ enf.step = "kill"
    /\ IF KillFails THEN UNCHANGED <<play, budget>>
       ELSE \/ /\ play' = [play EXCEPT ![enf.victim] = 0]
               /\ UNCHANGED budget
            \/ Pay("refusal") /\ UNCHANGED play
    /\ enf' = [enf EXCEPT !.step = "next", !.victim = NoSession]
    /\ UNCHANGED <<owner, plays, reachable, sessionVars>>

EndEnforcer ==
    /\ enf.step = "next"
    /\ enf.todo = {}
    /\ enf' = NoRun
    /\ UNCHANGED <<provider, sessionVars, budget>>

Enforce == TakeViolation \/ WaitBeforeRecheck \/ Recheck \/ Kill \/ EndEnforcer
====
