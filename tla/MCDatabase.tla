---- MODULE MCDatabase ----
(***************************************************************************)
(* Two plays around the database file: backups are restored while VODUM     *)
(* runs (two archives, one of them without an encryption key), or VODUM is  *)
(* started on an older database.                                            *)
(***************************************************************************)
EXTENDS Restore, Upgrade

CONSTANTS b1, b2

MCBackup == {b1, b2}
MCKeyed == {b1}

VARIABLE play

\* While backups are restored, the database is one that has been upgraded.
Running ==
    /\ db = Installed(Table, {}, {}) /\ disk = db /\ tx = FALSE
    /\ there = TRUE /\ kept = {} /\ import = FALSE
    /\ stage = "serve" /\ at = <<1, 0>>
    /\ owned = {} /\ scars = {} /\ deleted = {}
    /\ spare = [kills |-> 0, faults |-> 0]

MCNext == \/ play = "restore" /\ Next /\ UNCHANGED upgradeVars
          \/ play = "upgrade" /\ UpgradeNext /\ UNCHANGED vars

MCInit ==
    /\ Init
    /\ \/ play = "upgrade" /\ UpgradeInit
       \/ play = "restore" /\ Running

MCFairSpec ==
    /\ MCInit
    /\ [][MCNext /\ play' = play]_<<vars, upgradeVars, play>>
    /\ Fairness /\ UpgradeFairness
====
