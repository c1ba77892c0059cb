---- MODULE MCReferrals ----
(***************************************************************************)
(* Two users referred by a third, who may be given another referrer.  With  *)
(* two requests nothing fails; one request and one fault.                   *)
(***************************************************************************)
EXTENDS Referrals, TLC

CONSTANTS a, b, c

MCUser == {a, b, c}
MCReferred == {b, c}
Alike == Permutations(MCReferred)

MCInit ==
    /\ Init
    /\ \A u \in Referred : referral[u].by \in {a, None}
    /\ referral[b].by = a
    /\ date[a] = 2 /\ date[c] = 2
    /\ \/ budget = [asks |-> MaxAsks, faults |-> 0]
       \/ budget = [asks |-> MaxAsks - 1, faults |-> MaxFaults]

MCSpec == MCInit /\ [][Next]_vars
====
