---- MODULE MCMonitoring ----
(* Two sessions of one device.  Both belong to a user allowed one stream, or  *)
(* one of them to a user whose subscription has expired.  What may go wrong   *)
(* is one of three sets of hazards, once each.                                *)
EXTENDS Monitoring, TLC

CONSTANTS s1, s2, u1, u2

MCLimit == u1 :> 1 @@ u2 :> 0
MCSameClient(s, n) == TRUE
MCBudget == [h \in Hazard |-> 1]

Only(hazards) == [h \in Hazard |-> IF h \in hazards THEN 1 ELSE 0]

OneKind ==
    /\ owner[s1] = u1
    /\ \/ owner[s2] = u1 /\ budget \in {Only({"outage", "death"}), Only({"event"})}
       \/ budget = Only({"refusal", "death"})

MCInit == Init /\ OneKind
MCSpec == MCInit /\ [][Next]_vars /\ Fairness
====
