---- MODULE MCAccessControl ----
(***************************************************************************)
(* Instances of AccessControl for TLC.                                      *)
(***************************************************************************)
EXTENDS AccessControl, TLC
====
