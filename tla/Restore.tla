---- MODULE Restore ----
(***************************************************************************)
(* Restoration of a backup (restore_backup): the worker replaces the        *)
(* database under the feet of the other threads, then ends the process, and *)
(* the next start gives the tasks back.  What is followed is where each     *)
(* commit is: in the database file, in the log that lies next to it, or in  *)
(* a log without a name that only an open connection still has.             *)
(***************************************************************************)
EXTENDS Integers

CONSTANTS
    Backup,       \* the archives that can be asked for
    Keyed,        \* those that contain an encryption key
    MaxAsks,      \* bound: requests
    MaxFailures,  \* bound: operations that fail
    MaxDeaths     \* bound: deaths of the process, but for the ends of restores

ASSUME KeyedType == Keyed \subseteq Backup
ASSUME NamesAreNoBackup == {"present", "none", "empty", "mixed"} \cap Backup = {}
ASSUME RestoreBounds == {MaxAsks, MaxFailures, MaxDeaths} \subseteq Nat

VARIABLES
    marker,  \* restore_request_path.txt
    place,   \* the file at Config.DATABASE: whose content, with which commits
    log,     \* its "-wal": written to which file, with which commits
    conn,    \* the connection of the DBManager cached for the path
    adrift,  \* the commits in its log, when that has been unlinked
    key,     \* whose encryption key is installed
    copy,    \* the .pre_restore copies of the database and of the key
    step,    \* of the worker
    hand,    \* the archive being restored
    process, \* up, down, or how far its start is
    made,    \* what threads have committed to the present database
    marks,   \* what happened that the properties make an exception of
    budget

files == <<marker, place, log, key, copy>>
vars == <<files, conn, adrift, step, hand, process, made, marks, budget>>

None == "none"
Owner == Backup \cup {"present"}

\* What the threads have stored, and the statements of prepare_restored_database.
Commit == {"user", "maintenance", "parked"}

Place == [of : Owner \cup {None, "empty", "mixed"}, has : SUBSET Commit]
Log == [to : {None, "place", "gone"}, has : SUBSET Commit]
NoLog == [to |-> None, has |-> {}]

Step == {"rest", "copy", "close", "unlog", "stage", "swap", "unlogAgain", "key",
         "open", "maintenance", "park", "release", "exit", "unlink", "putBack", "keyBack"}

TypeOK ==
    /\ marker \in Backup \cup {None}
    /\ place \in Place /\ log \in Log
    /\ conn \in {"closed", "open", "adrift", "stray"} \* stray: on a file that is gone
    /\ adrift \subseteq Commit
    /\ key \in Owner
    /\ copy.key \in Owner /\ copy.place \in Place
    /\ step \in Step /\ hand \in Owner
    /\ process \in {"up", "down", "started", "cleared"}
    /\ made \subseteq {"user"}
    /\ marks \subseteq {"reopened", "rolledBack", "leftOpen", "torn", "unparked"}
    /\ budget \in [asks : 0..MaxAsks, failures : 0..MaxFailures, deaths : 0..MaxDeaths]

Init ==
    /\ marker = None
    /\ place = [of |-> "present", has |-> {}]
    /\ log = [to |-> "place", has |-> {}]
    /\ conn = "open" /\ adrift = {}
    /\ key = "present"
    /\ copy = [place |-> place, key |-> key]
    /\ step = "rest" /\ hand = "present"
    /\ process = "up"
    /\ made = {} /\ marks = {}
    /\ budget = [asks |-> MaxAsks, failures |-> MaxFailures, deaths |-> MaxDeaths]

Pay(what) == budget[what] > 0 /\ budget' = [budget EXCEPT ![what] = @ - 1]

At(s) == process = "up" /\ step = s

----------------------------------------------------------------------------
(***************************************************************************)
(* SQLite as the code uses it: a commit goes to the log of its connection,  *)
(* the last connection to close moves the log into the file and removes it, *)
(* and whoever opens a file takes the log that lies next to it for its own. *)
(***************************************************************************)
Stores(c) ==
    /\ log' = IF conn = "open" \/ (conn = "stray" /\ log.to = "gone")
              THEN [log EXCEPT !.has = @ \cup {c}] ELSE log
    /\ adrift' = IF conn = "adrift" THEN adrift \cup {c} ELSE adrift

Opened(p, l) == IF l.to = "gone" /\ l.has # {} THEN [of |-> "mixed", has |-> p.has \cup l.has] ELSE p

Opens ==
    /\ conn' = "open"
    /\ place' = Opened(place, log)
    /\ log' = [to |-> "place", has |-> {}]

Closes ==
    /\ place' = CASE conn = "open" -> [place EXCEPT !.has = @ \cup log.has]
                  [] conn = "adrift" -> [place EXCEPT !.has = @ \cup adrift]
                  [] OTHER -> place
    /\ log' = NoLog
    /\ conn' = "closed" /\ adrift' = {}

\* The log of an open connection lives on without a name.
Unlogs ==
    /\ adrift' = IF conn = "open" THEN log.has ELSE adrift
    /\ conn' = IF conn = "open" THEN "adrift" ELSE conn
    /\ log' = NoLog

\* Another file, or none, comes to lie at the path.
Replaces(p) ==
    /\ place' = p
    /\ conn' = IF conn = "closed" THEN conn ELSE "stray"
    /\ adrift' = {}
    /\ log' = IF log.to = None THEN log ELSE [log EXCEPT !.to = "gone"]

----------------------------------------------------------------------------
(***************************************************************************)
(* The other threads: the page, and whoever uses the database.              *)
(***************************************************************************)
Ask(b) ==
    /\ At("rest") /\ marker = None
    /\ Pay("asks")
    /\ marker' = b
    /\ UNCHANGED <<place, log, conn, adrift, key, copy, step, hand, process, made, marks>>

Write ==
    /\ process = "up" /\ conn # "closed"
    /\ place.of = "present" /\ made = {}
    /\ Stores("user")
    /\ made' = {"user"}
    /\ UNCHANGED <<marker, place, conn, key, copy, step, hand, process, marks, budget>>

\* get_db, or the engine's own db: nothing keeps them off during a restore.
Reopen ==
    /\ process = "up" /\ conn = "closed" /\ place.of # None
    /\ Opens
    /\ marks' = IF step \in {"unlog", "stage", "swap"} THEN marks \cup {"reopened"} ELSE marks
    /\ UNCHANGED <<marker, adrift, key, copy, step, hand, process, made, budget>>

----------------------------------------------------------------------------
(***************************************************************************)
(* The run of restore_backup.                                               *)
(***************************************************************************)
TakeRequest ==
    /\ At("rest") /\ marker # None
    /\ marker' = None
    /\ hand' = marker
    /\ step' = "copy"
    /\ UNCHANGED <<place, log, conn, adrift, key, copy, process, made, marks, budget>>

\* The file is copied without its log.
CopyPrevious ==
    /\ At("copy")
    /\ copy' = [place |-> place, key |-> key]
    /\ step' = "close"
    /\ UNCHANGED <<marker, place, log, conn, adrift, key, hand, process, made, marks, budget>>

\* Mutant: the connection is forgotten instead of closed.
ForgetConnection ==
    /\ At("close")
    /\ step' = "unlog"
    /\ UNCHANGED <<files, conn, adrift, hand, process, made, marks, budget>>

CloseConnection ==
    /\ At("close")
    /\ Closes
    /\ step' = "unlog"
    /\ UNCHANGED <<marker, key, copy, hand, process, made, marks, budget>>

UnlinkLog ==
    /\ At("unlog")
    /\ Unlogs
    /\ step' = "stage"
    /\ UNCHANGED <<marker, place, key, copy, hand, process, made, marks, budget>>

\* The archive is copied to .restore_tmp and validated once more.
Stage ==
    /\ At("stage")
    /\ step' = "swap"
    /\ UNCHANGED <<files, conn, adrift, hand, process, made, marks, budget>>

Swap ==
    /\ At("swap")
    /\ Replaces([of |-> hand, has |-> {}])
    /\ step' = "unlogAgain"
    /\ UNCHANGED <<marker, key, copy, hand, process, made, marks, budget>>

\* Mutant: the log was unlinked before.
TrustFirstUnlink ==
    /\ At("unlogAgain")
    /\ step' = "key"
    /\ UNCHANGED <<files, conn, adrift, hand, process, made, marks, budget>>

UnlinkLogAgain ==
    /\ At("unlogAgain")
    /\ Unlogs
    /\ step' = "key"
    /\ UNCHANGED <<marker, place, key, copy, hand, process, made, marks, budget>>

\* Without a key in the archive the present one is kept.
InstallKey ==
    /\ At("key")
    /\ key' = IF hand \in Keyed THEN hand ELSE key
    /\ step' = "open"
    /\ UNCHANGED <<marker, place, log, copy, conn, adrift, hand, process, made, marks, budget>>

\* After the attachments: DBManager() gives the cached connection, if any.
OpenRestored ==
    /\ At("open")
    /\ IF conn = "closed" THEN Opens ELSE UNCHANGED <<place, log, conn>>
    /\ step' = "maintenance"
    /\ UNCHANGED <<marker, adrift, key, copy, hand, process, made, marks, budget>>

\* Mutant: maintenance mode alone.
OnlyMaintenance ==
    /\ At("maintenance")
    /\ Stores("maintenance")
    /\ step' = "release"
    /\ UNCHANGED <<marker, place, conn, key, copy, hand, process, made, marks, budget>>

SetMaintenance ==
    /\ At("maintenance")
    /\ Stores("maintenance")
    /\ step' = "park"
    /\ UNCHANGED <<marker, place, conn, key, copy, hand, process, made, marks, budget>>

ParkTasks ==
    /\ At("park")
    /\ Stores("parked")
    /\ step' = "release"
    /\ UNCHANGED <<marker, place, conn, key, copy, hand, process, made, marks, budget>>

CloseRestored ==
    /\ At("release")
    /\ Closes
    /\ step' = "exit"
    /\ UNCHANGED <<marker, key, copy, hand, process, made, marks, budget>>

\* What goes wrong before the swap ends the run; after it, the way is back.
FailBefore ==
    /\ \E s \in {"copy", "stage", "swap"} : At(s)
    /\ Pay("failures")
    /\ step' = "rest"
    /\ UNCHANGED <<files, conn, adrift, hand, process, made, marks>>

FailAfter ==
    /\ \E s \in {"key", "open", "maintenance", "park"} : At(s)
    /\ Pay("failures")
    /\ step' = "unlink"
    /\ UNCHANGED <<files, conn, adrift, hand, process, made, marks>>

UnlinkRestored ==
    /\ At("unlink")
    /\ Replaces([of |-> None, has |-> {}])
    /\ marks' = marks \cup {"rolledBack"} \cup (IF conn = "closed" THEN {} ELSE {"leftOpen"})
    /\ step' = "putBack"
    /\ UNCHANGED <<marker, key, copy, hand, process, made, budget>>

PutBack ==
    /\ At("putBack")
    /\ place' = copy.place
    /\ step' = "keyBack"
    /\ UNCHANGED <<marker, log, key, copy, conn, adrift, hand, process, made, marks, budget>>

\* Mutant: only the database is put back.
KeepKey ==
    /\ At("keyBack")
    /\ step' = "rest"
    /\ UNCHANGED <<files, conn, adrift, hand, process, made, marks, budget>>

PutKeyBack ==
    /\ At("keyBack")
    /\ key' = copy.key
    /\ step' = "rest"
    /\ UNCHANGED <<marker, place, log, copy, conn, adrift, hand, process, made, marks, budget>>

\* "Automatic rollback after failed restore also failed"
RollbackFails ==
    /\ At("putBack") \/ At("keyBack")
    /\ Pay("failures")
    /\ step' = "rest"
    /\ marks' = marks \cup {"torn"}
    /\ UNCHANGED <<files, conn, adrift, hand, process, made>>

Restoring ==
    \/ TakeRequest \/ CopyPrevious \/ CloseConnection \/ UnlinkLog \/ Stage \/ Swap
    \/ UnlinkLogAgain \/ InstallKey \/ OpenRestored \/ SetMaintenance \/ ParkTasks
    \/ CloseRestored \/ UnlinkRestored \/ PutBack \/ PutKeyBack

----------------------------------------------------------------------------
(***************************************************************************)
(* The end of the process, and its next start.                              *)
(***************************************************************************)
Ends ==
    /\ process' = "down"
    /\ step' = "rest"
    /\ conn' = "closed" /\ adrift' = {}
    /\ UNCHANGED <<files, hand, made>>

Exit == At("exit") /\ Ends /\ UNCHANGED <<marks, budget>>

Death ==
    /\ process # "down"
    /\ Pay("deaths")
    /\ Ends
    /\ marks' = marks \cup
         (IF step \in {"unlogAgain", "key", "unlink", "putBack", "keyBack"} THEN {"torn"} ELSE {})
         \cup (IF process = "cleared" THEN {"unparked"} ELSE {})

\* entrypoint.sh creates a missing database; db_bootstrap opens what is there.
Bootstrap ==
    /\ process = "down"
    /\ process' = "started"
    /\ conn' = "open"
    /\ LET found == IF place.of = None THEN [of |-> "empty", has |-> {}] ELSE Opened(place, log)
       IN  place' = [found EXCEPT !.has = @ \cup log.has]
    /\ log' = [to |-> "place", has |-> {}]
    /\ UNCHANGED <<marker, key, copy, adrift, step, hand, made, marks, budget>>

\* _reset_maintenance_on_startup, in two statements.
ClearMaintenance ==
    /\ process = "started"
    /\ place' = [place EXCEPT !.has = @ \ {"maintenance"}]
    /\ process' = IF "maintenance" \in place.has THEN "cleared" ELSE "up"
    /\ UNCHANGED <<marker, log, key, copy, conn, adrift, step, hand, made, marks, budget>>

\* Mutant: only the mode is left.
ClearOnly ==
    /\ process = "cleared"
    /\ process' = "up"
    /\ UNCHANGED <<files, conn, adrift, step, hand, made, marks, budget>>

GiveTasksBack ==
    /\ process = "cleared"
    /\ place' = [place EXCEPT !.has = @ \ {"parked"}]
    /\ process' = "up"
    /\ UNCHANGED <<marker, log, key, copy, conn, adrift, step, hand, made, marks, budget>>

Starting == Bootstrap \/ ClearMaintenance \/ GiveTasksBack

Next ==
    \/ \E b \in Backup : Ask(b)
    \/ Write \/ Reopen
    \/ Restoring \/ FailBefore \/ FailAfter \/ RollbackFails
    \/ Exit \/ Death
    \/ Starting

Spec == Init /\ [][Next]_vars

\* The worker goes on, its process ends after a second and a half, and the
\* container is started again (restart: unless-stopped).
Fairness == WF_vars(Restoring) /\ WF_vars(Exit) /\ WF_vars(Starting)

FairSpec == Spec /\ Fairness

----------------------------------------------------------------------------
Stored == place.has \cup (IF log.to = "place" THEN log.has ELSE {})

(***************************************************************************)
(* No database is ever opened with the log of another: a thread that opens  *)
(* the database while the archive is staged has its log taken away after    *)
(* the swap.  It does happen after a death between the two, and after a     *)
(* rollback under an open connection.                                       *)
(***************************************************************************)
NeverMixed == place.of = "mixed" => marks \cap {"torn", "leftOpen"} # {}

(***************************************************************************)
(* A restore that fails before the swap, or dies, costs the present         *)
(* database no commit, wherever those commits were.  It does when a thread  *)
(* has reopened the database meanwhile; the rollback, whose copy was made   *)
(* before the log was moved into the file, does too.                        *)
(***************************************************************************)
PreviousIsKept ==
    place.of = "present" => made \subseteq Stored \/ marks \cap {"reopened", "rolledBack"} # {}

(***************************************************************************)
(* The database and the encryption key are of one origin, whether a restore *)
(* succeeded, failed or was rolled back, except between the swap and the    *)
(* key, where a death tears them apart.                                     *)
(***************************************************************************)
KeyFits ==
    place.of \in Keyed \cup {"present"} =>
        \/ key = place.of
        \/ step \in {"unlogAgain", "key", "unlink", "keyBack"}
        \/ "torn" \in marks

(***************************************************************************)
(* docs/backup.md: "Restore enters maintenance mode": no task of the backup *)
(* runs in the old process.  When a thread has reopened the database before *)
(* the swap, it is the unlinked one that is put into maintenance.           *)
(***************************************************************************)
BackupWaitsForRestart ==
    step = "exit" => {"maintenance", "parked"} \subseteq Stored \/ "reopened" \in marks

(***************************************************************************)
(* A restore ends, with its tasks given back, through failures and deaths,  *)
(* except when a start dies between its two statements.                     *)
(***************************************************************************)
RestoreEnds ==
    step # "rest" ~> /\ process = "up" /\ step = "rest"
                     /\ "parked" \notin Stored \/ "unparked" \in marks
====
