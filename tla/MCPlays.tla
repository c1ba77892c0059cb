---- MODULE MCPlays ----
(***************************************************************************)
(* Plays of TaskEngine.  The plays of MCSpec: "changes" has two tasks, two  *)
(* worker slots, every change of a row and two forms of the settings (all   *)
(* on, all off), and nothing fails; "deaths" has one slow task, a database  *)
(* fault and a death of the process, also in the middle of a save.  The     *)
(* plays of MCFairSpec: task 2 is asked for by a page, 1 by running tasks,  *)
(* and nothing fails; or something fails, and only task 1 is asked for, by  *)
(* a page or by its name, while 2 is disabled.  Changes, requests and       *)
(* faults are what is restricted, and none of them is owed to anybody.      *)
(***************************************************************************)
EXTENDS MCTaskEngine

VARIABLE play

AskedFor(t, who) == \E th \in who : call[th].task = t

AtMostOneSlot == \A v, w \in Worker : wpc[v] # "off" /\ wpc[w] # "off" => v = w

AllOrNothing == (form.wanted # {} <=> cronOn) /\ (form.telemetry # {} <=> cronOn)

Allowed ==
    /\ play = "changes" => faults + restarts = 0 /\ changes < MaxChanges /\ ~row[1].stale /\ wd = "sleep"
                           /\ (sw # "rest" => AllOrNothing)
    /\ play = "deaths"  => ~row[2].enabled /\ form.telemetry \cup form.wanted = {} /\ AtMostOneSlot
                           /\ (sw = "rest" \/ changes < MaxChanges)
    /\ play = "many"    => faults = 0 /\ ~AskedFor(1, Page \cup Client) /\ ~AskedFor(2, Client)
    /\ play = "page"    => ~AskedFor(1, Client) /\ ~AskedFor(2, Thread)
    /\ play = "byName"  => ~AskedFor(1, Page) /\ ~AskedFor(2, Thread)

MCInit ==
    /\ Init /\ play \in {"changes", "deaths"}
    /\ row[2].enabled => play = "changes"

MCFairInit ==
    /\ Init /\ play \in {"many", "page", "byName"}
    /\ row[2].enabled => play = "many"

MCNext == Next /\ play' = play /\ Allowed'

MCSpec == MCInit /\ [][MCNext]_<<vars, play>>

MCFairSpec == MCFairInit /\ [][MCNext]_<<vars, play>> /\ Fairness
====
