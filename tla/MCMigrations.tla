---- MODULE MCMigrations ----
(***************************************************************************)
(* A campaign that moves two users, one of them known at the destination,   *)
(* and one, maybe scheduled, that copies the other user.  Either a call of  *)
(* the provider fails or the process dies.                                  *)
(***************************************************************************)
EXTENDS Migrations, TLC

CONSTANTS c1, c2, u1, u2

Overlapping == (c1 :> {u1, u2}) @@ (c2 :> {u2})

OneFault ==
    /\ ~campaign[c1].ahead
    /\ account[u1] # "none"
    /\ links[u2] = {}
    /\ budget.failures + budget.deaths = 1

MCInit == Init /\ OneFault
MCSpec == MCInit /\ [][Next]_vars /\ Fairness
====
