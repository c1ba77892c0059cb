---- MODULE MCTaskEngine ----
(***************************************************************************)
(* Instances of TaskEngine for TLC.                                         *)
(***************************************************************************)
EXTENDS TaskEngine, TLC

SamePriority == [t \in Task |-> 10]
NoRetry == [t \in Task |-> 0]
OneRetry == [t \in Task |-> 1]
BootEnables == [t \in Task |-> IF t = 1 THEN "enable" ELSE "onDemand"]
SlotSymmetry == Permutations(Worker)
====
