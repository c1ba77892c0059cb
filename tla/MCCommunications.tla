---- MODULE MCCommunications ----
(***************************************************************************)
(* Two recipients, of whom one has never used the account.  The campaign    *)
(* and the message share the worker and the settings, and no row; either is *)
(* explored without the other, which keeps the instance small.              *)
(***************************************************************************)
EXTENDS Communications, TLC

CONSTANTS u1, u2, r1

OneOutbox ==
    IF event = "none" THEN campaign.status = "draft"
    ELSE campaign.status = "deleted" /\ ~campaign.test

MCInit == Init /\ OneOutbox
MCSpec == MCInit /\ [][Next]_vars /\ Fairness
====
