---- MODULE DatabaseProofs ----
(***************************************************************************)
(* Theorems about what replaces the database as a whole: about Restore, for *)
(* every set of archives and every bound, and about Upgrade, for every      *)
(* number of interruptions and failures.                                    *)
(***************************************************************************)
EXTENDS Restore, Upgrade, WellFoundedInduction, TLAPS

----------------------------------------------------------------------------

\* Threads run in a process that is up, and a start has the database open.
ProcessInv ==
    /\ process # "up" => step = "rest"
    /\ process \in {"started", "cleared"} => conn = "open"
    /\ process = "down" => conn = "closed"
    /\ step # "rest" => hand \in Backup

\* Whose log lies next to the database.
LogInv ==
    /\ log.to = None => log.has = {}
    /\ conn = "open" => log.to = "place"
    /\ log.to = "place" => conn = "open" \/ process = "down"
    /\ log.to = "gone" => \/ marks \cap {"torn", "leftOpen"} # {}
                          \/ step = "unlogAgain" /\ conn = "stray"
    /\ NeverMixed
    /\ copy.place.of = "mixed" => marks \cap {"torn", "leftOpen"} # {}

\* What lies at the path after the swap, and whose key belongs to it.
Fits(p, k) == p.of \in Keyed \cup {"present"} => k = p.of

AfterSwap == {"unlogAgain", "key", "open", "maintenance", "park", "release", "exit", "unlink"}

PlaceInv ==
    /\ step \in AfterSwap => place.of \in {hand, "mixed"}
    /\ step = "putBack" => place.of \notin Owner /\ "rolledBack" \in marks
    /\ step = "keyBack" => place.of \in {copy.place.of, "mixed"}

KeyInv ==
    \/ "torn" \in marks
    \/ /\ step \notin {"unlogAgain", "key", "unlink", "putBack", "keyBack"} => Fits(place, key)
       /\ step \notin {"rest", "copy"} => Fits(copy.place, copy.key)

\* Until a thread reopens the database, the restore has it to itself.
AloneInv ==
    "reopened" \in marks \/ (step \in {"unlog", "stage", "swap"} => conn = "closed")

PreviousInv ==
    \/ place.of # "present"
    \/ marks \cap {"reopened", "rolledBack"} # {}
    \/ conn \in {"open", "closed"} /\ made \subseteq Stored

\* What the connection of the restore reads.
Seen == place.has \cup (IF conn = "open" THEN log.has ELSE {}) \cup (IF conn = "adrift" THEN adrift ELSE {})

PrepareInv ==
    \/ "reopened" \in marks
    \/ /\ step \in AfterSwap => conn # "stray"
       /\ step \in {"maintenance", "park", "release"} => conn \in {"open", "adrift"}
       /\ step \in {"park", "release"} => "maintenance" \in Seen
       /\ step = "release" => "parked" \in Seen
       /\ step = "exit" => {"maintenance", "parked"} \subseteq place.has

IInv == /\ TypeOK /\ ProcessInv /\ LogInv /\ PlaceInv /\ KeyInv
        /\ AloneInv /\ PreviousInv /\ PrepareInv

(* Every step keeps the types.                                              *)
LEMMA NextType == TypeOK /\ [Next]_vars => TypeOK'
<1> SUFFICES ASSUME TypeOK, [Next]_vars PROVE TypeOK'
  OBVIOUS
<1>1. CASE \E b \in Backup : Ask(b)
  BY <1>1, KeyedType, RestoreBounds DEF Ask, Pay, At, TypeOK, Place, Log, NoLog, Owner, Commit, Step, None
<1>2. CASE Write
  BY <1>2, KeyedType, RestoreBounds DEF Write, Stores, TypeOK, Place, Log, NoLog, Owner, Commit, Step, None
<1>3. CASE Reopen
  BY <1>3, KeyedType, RestoreBounds DEF Reopen, Opens, Opened, TypeOK, Place, Log, NoLog, Owner, Commit, Step, None
<1>4. CASE TakeRequest
  BY <1>4, KeyedType, RestoreBounds DEF TakeRequest, At, TypeOK, Place, Log, NoLog, Owner, Commit, Step, None
<1>5. CASE CopyPrevious
  BY <1>5, KeyedType, RestoreBounds DEF CopyPrevious, At, TypeOK, Place, Log, NoLog, Owner, Commit, Step, None
<1>6. CASE CloseConnection
  BY <1>6, KeyedType, RestoreBounds DEF CloseConnection, At, Closes, TypeOK, Place, Log, NoLog, Owner, Commit, Step, None
<1>7. CASE UnlinkLog
  BY <1>7, KeyedType, RestoreBounds DEF UnlinkLog, At, Unlogs, TypeOK, Place, Log, NoLog, Owner, Commit, Step, None
<1>8. CASE Stage
  BY <1>8, KeyedType, RestoreBounds DEF Stage, At, files, TypeOK, Place, Log, NoLog, Owner, Commit, Step, None
<1>9. CASE Swap
  BY <1>9, KeyedType, RestoreBounds DEF Swap, At, Replaces, TypeOK, Place, Log, NoLog, Owner, Commit, Step, None
<1>10. CASE UnlinkLogAgain
  BY <1>10, KeyedType, RestoreBounds DEF UnlinkLogAgain, At, Unlogs, TypeOK, Place, Log, NoLog, Owner, Commit, Step, None
<1>11. CASE InstallKey
  BY <1>11, KeyedType, RestoreBounds DEF InstallKey, At, TypeOK, Place, Log, NoLog, Owner, Commit, Step, None
<1>12. CASE OpenRestored
  BY <1>12, KeyedType, RestoreBounds DEF OpenRestored, At, Opens, Opened, TypeOK, Place, Log, NoLog, Owner, Commit, Step, None
<1>13. CASE SetMaintenance
  BY <1>13, KeyedType, RestoreBounds DEF SetMaintenance, At, Stores, TypeOK, Place, Log, NoLog, Owner, Commit, Step, None
<1>14. CASE ParkTasks
  BY <1>14, KeyedType, RestoreBounds DEF ParkTasks, At, Stores, TypeOK, Place, Log, NoLog, Owner, Commit, Step, None
<1>15. CASE CloseRestored
  BY <1>15, KeyedType, RestoreBounds DEF CloseRestored, At, Closes, TypeOK, Place, Log, NoLog, Owner, Commit, Step, None
<1>16. CASE UnlinkRestored
  BY <1>16, KeyedType, RestoreBounds DEF UnlinkRestored, At, Replaces, TypeOK, Place, Log, NoLog, Owner, Commit, Step, None
<1>17. CASE PutBack
  BY <1>17, KeyedType, RestoreBounds DEF PutBack, At, TypeOK, Place, Log, NoLog, Owner, Commit, Step, None
<1>18. CASE PutKeyBack
  BY <1>18, KeyedType, RestoreBounds DEF PutKeyBack, At, TypeOK, Place, Log, NoLog, Owner, Commit, Step, None
<1>19. CASE FailBefore
  BY <1>19, KeyedType, RestoreBounds DEF FailBefore, At, Pay, files, TypeOK, Place, Log, NoLog, Owner, Commit, Step, None
<1>20. CASE FailAfter
  BY <1>20, KeyedType, RestoreBounds DEF FailAfter, At, Pay, files, TypeOK, Place, Log, NoLog, Owner, Commit, Step, None
<1>21. CASE RollbackFails
  BY <1>21, KeyedType, RestoreBounds DEF RollbackFails, At, Pay, files, TypeOK, Place, Log, NoLog, Owner, Commit, Step, None
<1>22. CASE Exit
  BY <1>22, KeyedType, RestoreBounds DEF Exit, At, Ends, files, TypeOK, Place, Log, NoLog, Owner, Commit, Step, None
<1>23. CASE Death
  BY <1>23, KeyedType, RestoreBounds DEF Death, Ends, Pay, files, TypeOK, Place, Log, NoLog, Owner, Commit, Step, None
<1>24. CASE Bootstrap
  BY <1>24, KeyedType, RestoreBounds DEF Bootstrap, Opened, TypeOK, Place, Log, NoLog, Owner, Commit, Step, None
<1>25. CASE ClearMaintenance
  BY <1>25, KeyedType, RestoreBounds DEF ClearMaintenance, TypeOK, Place, Log, NoLog, Owner, Commit, Step, None
<1>26. CASE GiveTasksBack
  BY <1>26, KeyedType, RestoreBounds DEF GiveTasksBack, TypeOK, Place, Log, NoLog, Owner, Commit, Step, None
<1>27. CASE UNCHANGED vars
  BY <1>27 DEF vars, files, TypeOK, Place, Log, NoLog, Owner, Commit, Step, None
<1>28. QED
  BY <1>1, <1>2, <1>3, <1>4, <1>5, <1>6, <1>7, <1>8, <1>9, <1>10, <1>11, <1>12, <1>13, <1>14, <1>15, <1>16, <1>17, <1>18, <1>19, <1>20, <1>21, <1>22, <1>23, <1>24, <1>25, <1>26, <1>27 DEF Next, Restoring, Starting

(* Only a process that is up restores, and it restores an archive.          *)
LEMMA NextProcess == TypeOK /\ ProcessInv /\ [Next]_vars => ProcessInv'
<1> SUFFICES ASSUME TypeOK, ProcessInv, [Next]_vars PROVE ProcessInv'
  OBVIOUS
<1>1. CASE \E b \in Backup : Ask(b)
  BY <1>1, NamesAreNoBackup DEF Ask, Pay, At, ProcessInv, TypeOK, Place, Log, NoLog, Owner, Commit, Step, None
<1>2. CASE Write
  BY <1>2, NamesAreNoBackup DEF Write, Stores, ProcessInv, TypeOK, Place, Log, NoLog, Owner, Commit, Step, None
<1>3. CASE Reopen
  BY <1>3, NamesAreNoBackup DEF Reopen, Opens, Opened, ProcessInv, TypeOK, Place, Log, NoLog, Owner, Commit, Step, None
<1>4. CASE TakeRequest
  BY <1>4, NamesAreNoBackup DEF TakeRequest, At, ProcessInv, TypeOK, Place, Log, NoLog, Owner, Commit, Step, None
<1>5. CASE CopyPrevious
  BY <1>5, NamesAreNoBackup DEF CopyPrevious, At, ProcessInv, TypeOK, Place, Log, NoLog, Owner, Commit, Step, None
<1>6. CASE CloseConnection
  BY <1>6, NamesAreNoBackup DEF CloseConnection, At, Closes, ProcessInv, TypeOK, Place, Log, NoLog, Owner, Commit, Step, None
<1>7. CASE UnlinkLog
  BY <1>7, NamesAreNoBackup DEF UnlinkLog, At, Unlogs, ProcessInv, TypeOK, Place, Log, NoLog, Owner, Commit, Step, None
<1>8. CASE Stage
  BY <1>8, NamesAreNoBackup DEF Stage, At, files, ProcessInv, TypeOK, Place, Log, NoLog, Owner, Commit, Step, None
<1>9. CASE Swap
  BY <1>9, NamesAreNoBackup DEF Swap, At, Replaces, ProcessInv, TypeOK, Place, Log, NoLog, Owner, Commit, Step, None
<1>10. CASE UnlinkLogAgain
  BY <1>10, NamesAreNoBackup DEF UnlinkLogAgain, At, Unlogs, ProcessInv, TypeOK, Place, Log, NoLog, Owner, Commit, Step, None
<1>11. CASE InstallKey
  BY <1>11, NamesAreNoBackup DEF InstallKey, At, ProcessInv, TypeOK, Place, Log, NoLog, Owner, Commit, Step, None
<1>12. CASE OpenRestored
  BY <1>12, NamesAreNoBackup DEF OpenRestored, At, Opens, Opened, ProcessInv, TypeOK, Place, Log, NoLog, Owner, Commit, Step, None
<1>13. CASE SetMaintenance
  BY <1>13, NamesAreNoBackup DEF SetMaintenance, At, Stores, ProcessInv, TypeOK, Place, Log, NoLog, Owner, Commit, Step, None
<1>14. CASE ParkTasks
  BY <1>14, NamesAreNoBackup DEF ParkTasks, At, Stores, ProcessInv, TypeOK, Place, Log, NoLog, Owner, Commit, Step, None
<1>15. CASE CloseRestored
  BY <1>15, NamesAreNoBackup DEF CloseRestored, At, Closes, ProcessInv, TypeOK, Place, Log, NoLog, Owner, Commit, Step, None
<1>16. CASE UnlinkRestored
  BY <1>16, NamesAreNoBackup DEF UnlinkRestored, At, Replaces, ProcessInv, TypeOK, Place, Log, NoLog, Owner, Commit, Step, None
<1>17. CASE PutBack
  BY <1>17, NamesAreNoBackup DEF PutBack, At, ProcessInv, TypeOK, Place, Log, NoLog, Owner, Commit, Step, None
<1>18. CASE PutKeyBack
  BY <1>18, NamesAreNoBackup DEF PutKeyBack, At, ProcessInv, TypeOK, Place, Log, NoLog, Owner, Commit, Step, None
<1>19. CASE FailBefore
  BY <1>19, NamesAreNoBackup DEF FailBefore, At, Pay, files, ProcessInv, TypeOK, Place, Log, NoLog, Owner, Commit, Step, None
<1>20. CASE FailAfter
  BY <1>20, NamesAreNoBackup DEF FailAfter, At, Pay, files, ProcessInv, TypeOK, Place, Log, NoLog, Owner, Commit, Step, None
<1>21. CASE RollbackFails
  BY <1>21, NamesAreNoBackup DEF RollbackFails, At, Pay, files, ProcessInv, TypeOK, Place, Log, NoLog, Owner, Commit, Step, None
<1>22. CASE Exit
  BY <1>22, NamesAreNoBackup DEF Exit, At, Ends, files, ProcessInv, TypeOK, Place, Log, NoLog, Owner, Commit, Step, None
<1>23. CASE Death
  BY <1>23, NamesAreNoBackup DEF Death, Ends, Pay, files, ProcessInv, TypeOK, Place, Log, NoLog, Owner, Commit, Step, None
<1>24. CASE Bootstrap
  BY <1>24, NamesAreNoBackup DEF Bootstrap, Opened, ProcessInv, TypeOK, Place, Log, NoLog, Owner, Commit, Step, None
<1>25. CASE ClearMaintenance
  BY <1>25, NamesAreNoBackup DEF ClearMaintenance, ProcessInv, TypeOK, Place, Log, NoLog, Owner, Commit, Step, None
<1>26. CASE GiveTasksBack
  BY <1>26, NamesAreNoBackup DEF GiveTasksBack, ProcessInv, TypeOK, Place, Log, NoLog, Owner, Commit, Step, None
<1>27. CASE UNCHANGED vars
  BY <1>27 DEF vars, files, ProcessInv, TypeOK, Place, Log, NoLog, Owner, Commit, Step, None
<1>28. QED
  BY <1>1, <1>2, <1>3, <1>4, <1>5, <1>6, <1>7, <1>8, <1>9, <1>10, <1>11, <1>12, <1>13, <1>14, <1>15, <1>16, <1>17, <1>18, <1>19, <1>20, <1>21, <1>22, <1>23, <1>24, <1>25, <1>26, <1>27 DEF Next, Restoring, Starting

(* A file only gets a foreign log in the two ways NeverMixed excepts: the   *)
(* stray connection is the one whose log the second unlink takes away.      *)
LEMMA NextLog == TypeOK /\ ProcessInv /\ LogInv /\ PlaceInv /\ [Next]_vars => LogInv'
<1> SUFFICES ASSUME TypeOK, ProcessInv, LogInv, PlaceInv, [Next]_vars PROVE LogInv'
  OBVIOUS
<1>1. CASE \E b \in Backup : Ask(b)
  BY <1>1, NamesAreNoBackup DEF Ask, Pay, At, LogInv, NeverMixed, ProcessInv, PlaceInv, AfterSwap, TypeOK, Place, Log, NoLog, Owner, Commit, Step, None
<1>2. CASE Write
  BY <1>2, NamesAreNoBackup DEF Write, Stores, LogInv, NeverMixed, ProcessInv, PlaceInv, AfterSwap, TypeOK, Place, Log, NoLog, Owner, Commit, Step, None
<1>3. CASE Reopen
  BY <1>3, NamesAreNoBackup DEF Reopen, Opens, Opened, LogInv, NeverMixed, ProcessInv, PlaceInv, AfterSwap, TypeOK, Place, Log, NoLog, Owner, Commit, Step, None
<1>4. CASE TakeRequest
  BY <1>4, NamesAreNoBackup DEF TakeRequest, At, LogInv, NeverMixed, ProcessInv, PlaceInv, AfterSwap, TypeOK, Place, Log, NoLog, Owner, Commit, Step, None
<1>5. CASE CopyPrevious
  BY <1>5, NamesAreNoBackup DEF CopyPrevious, At, LogInv, NeverMixed, ProcessInv, PlaceInv, AfterSwap, TypeOK, Place, Log, NoLog, Owner, Commit, Step, None
<1>6. CASE CloseConnection
  BY <1>6, NamesAreNoBackup DEF CloseConnection, At, Closes, LogInv, NeverMixed, ProcessInv, PlaceInv, AfterSwap, TypeOK, Place, Log, NoLog, Owner, Commit, Step, None
<1>7. CASE UnlinkLog
  BY <1>7, NamesAreNoBackup DEF UnlinkLog, At, Unlogs, LogInv, NeverMixed, ProcessInv, PlaceInv, AfterSwap, TypeOK, Place, Log, NoLog, Owner, Commit, Step, None
<1>8. CASE Stage
  BY <1>8, NamesAreNoBackup DEF Stage, At, files, LogInv, NeverMixed, ProcessInv, PlaceInv, AfterSwap, TypeOK, Place, Log, NoLog, Owner, Commit, Step, None
<1>9. CASE Swap
  BY <1>9, NamesAreNoBackup DEF Swap, At, Replaces, LogInv, NeverMixed, ProcessInv, PlaceInv, AfterSwap, TypeOK, Place, Log, NoLog, Owner, Commit, Step, None
<1>10. CASE UnlinkLogAgain
  BY <1>10, NamesAreNoBackup DEF UnlinkLogAgain, At, Unlogs, LogInv, NeverMixed, ProcessInv, PlaceInv, AfterSwap, TypeOK, Place, Log, NoLog, Owner, Commit, Step, None
<1>11. CASE InstallKey
  BY <1>11, NamesAreNoBackup DEF InstallKey, At, LogInv, NeverMixed, ProcessInv, PlaceInv, AfterSwap, TypeOK, Place, Log, NoLog, Owner, Commit, Step, None
<1>12. CASE OpenRestored
  BY <1>12, NamesAreNoBackup DEF OpenRestored, At, Opens, Opened, LogInv, NeverMixed, ProcessInv, PlaceInv, AfterSwap, TypeOK, Place, Log, NoLog, Owner, Commit, Step, None
<1>13. CASE SetMaintenance
  BY <1>13, NamesAreNoBackup DEF SetMaintenance, At, Stores, LogInv, NeverMixed, ProcessInv, PlaceInv, AfterSwap, TypeOK, Place, Log, NoLog, Owner, Commit, Step, None
<1>14. CASE ParkTasks
  BY <1>14, NamesAreNoBackup DEF ParkTasks, At, Stores, LogInv, NeverMixed, ProcessInv, PlaceInv, AfterSwap, TypeOK, Place, Log, NoLog, Owner, Commit, Step, None
<1>15. CASE CloseRestored
  BY <1>15, NamesAreNoBackup DEF CloseRestored, At, Closes, LogInv, NeverMixed, ProcessInv, PlaceInv, AfterSwap, TypeOK, Place, Log, NoLog, Owner, Commit, Step, None
<1>16. CASE UnlinkRestored
  BY <1>16, NamesAreNoBackup DEF UnlinkRestored, At, Replaces, LogInv, NeverMixed, ProcessInv, PlaceInv, AfterSwap, TypeOK, Place, Log, NoLog, Owner, Commit, Step, None
<1>17. CASE PutBack
  BY <1>17, NamesAreNoBackup DEF PutBack, At, LogInv, NeverMixed, ProcessInv, PlaceInv, AfterSwap, TypeOK, Place, Log, NoLog, Owner, Commit, Step, None
<1>18. CASE PutKeyBack
  BY <1>18, NamesAreNoBackup DEF PutKeyBack, At, LogInv, NeverMixed, ProcessInv, PlaceInv, AfterSwap, TypeOK, Place, Log, NoLog, Owner, Commit, Step, None
<1>19. CASE FailBefore
  BY <1>19, NamesAreNoBackup DEF FailBefore, At, Pay, files, LogInv, NeverMixed, ProcessInv, PlaceInv, AfterSwap, TypeOK, Place, Log, NoLog, Owner, Commit, Step, None
<1>20. CASE FailAfter
  BY <1>20, NamesAreNoBackup DEF FailAfter, At, Pay, files, LogInv, NeverMixed, ProcessInv, PlaceInv, AfterSwap, TypeOK, Place, Log, NoLog, Owner, Commit, Step, None
<1>21. CASE RollbackFails
  BY <1>21, NamesAreNoBackup DEF RollbackFails, At, Pay, files, LogInv, NeverMixed, ProcessInv, PlaceInv, AfterSwap, TypeOK, Place, Log, NoLog, Owner, Commit, Step, None
<1>22. CASE Exit
  BY <1>22, NamesAreNoBackup DEF Exit, At, Ends, files, LogInv, NeverMixed, ProcessInv, PlaceInv, AfterSwap, TypeOK, Place, Log, NoLog, Owner, Commit, Step, None
<1>23. CASE Death
  BY <1>23, NamesAreNoBackup DEF Death, Ends, Pay, files, LogInv, NeverMixed, ProcessInv, PlaceInv, AfterSwap, TypeOK, Place, Log, NoLog, Owner, Commit, Step, None
<1>24. CASE Bootstrap
  BY <1>24, NamesAreNoBackup DEF Bootstrap, Opened, LogInv, NeverMixed, ProcessInv, PlaceInv, AfterSwap, TypeOK, Place, Log, NoLog, Owner, Commit, Step, None
<1>25. CASE ClearMaintenance
  BY <1>25, NamesAreNoBackup DEF ClearMaintenance, LogInv, NeverMixed, ProcessInv, PlaceInv, AfterSwap, TypeOK, Place, Log, NoLog, Owner, Commit, Step, None
<1>26. CASE GiveTasksBack
  BY <1>26, NamesAreNoBackup DEF GiveTasksBack, LogInv, NeverMixed, ProcessInv, PlaceInv, AfterSwap, TypeOK, Place, Log, NoLog, Owner, Commit, Step, None
<1>27. CASE UNCHANGED vars
  BY <1>27 DEF vars, files, LogInv, NeverMixed, ProcessInv, PlaceInv, AfterSwap, TypeOK, Place, Log, NoLog, Owner, Commit, Step, None
<1>28. QED
  BY <1>1, <1>2, <1>3, <1>4, <1>5, <1>6, <1>7, <1>8, <1>9, <1>10, <1>11, <1>12, <1>13, <1>14, <1>15, <1>16, <1>17, <1>18, <1>19, <1>20, <1>21, <1>22, <1>23, <1>24, <1>25, <1>26, <1>27 DEF Next, Restoring, Starting

(* Between the swap and the end of the rollback the path holds the archive, *)
(* nothing, or the copy, unless a foreign log was mixed in.                 *)
LEMMA NextPlace == TypeOK /\ ProcessInv /\ PlaceInv /\ [Next]_vars => PlaceInv'
<1> SUFFICES ASSUME TypeOK, ProcessInv, PlaceInv, [Next]_vars PROVE PlaceInv'
  OBVIOUS
<1>1. CASE \E b \in Backup : Ask(b)
  BY <1>1, NamesAreNoBackup DEF Ask, Pay, At, PlaceInv, AfterSwap, ProcessInv, TypeOK, Place, Log, NoLog, Owner, Commit, Step, None
<1>2. CASE Write
  BY <1>2, NamesAreNoBackup DEF Write, Stores, PlaceInv, AfterSwap, ProcessInv, TypeOK, Place, Log, NoLog, Owner, Commit, Step, None
<1>3. CASE Reopen
  BY <1>3, NamesAreNoBackup DEF Reopen, Opens, Opened, PlaceInv, AfterSwap, ProcessInv, TypeOK, Place, Log, NoLog, Owner, Commit, Step, None
<1>4. CASE TakeRequest
  BY <1>4, NamesAreNoBackup DEF TakeRequest, At, PlaceInv, AfterSwap, ProcessInv, TypeOK, Place, Log, NoLog, Owner, Commit, Step, None
<1>5. CASE CopyPrevious
  BY <1>5, NamesAreNoBackup DEF CopyPrevious, At, PlaceInv, AfterSwap, ProcessInv, TypeOK, Place, Log, NoLog, Owner, Commit, Step, None
<1>6. CASE CloseConnection
  BY <1>6, NamesAreNoBackup DEF CloseConnection, At, Closes, PlaceInv, AfterSwap, ProcessInv, TypeOK, Place, Log, NoLog, Owner, Commit, Step, None
<1>7. CASE UnlinkLog
  BY <1>7, NamesAreNoBackup DEF UnlinkLog, At, Unlogs, PlaceInv, AfterSwap, ProcessInv, TypeOK, Place, Log, NoLog, Owner, Commit, Step, None
<1>8. CASE Stage
  BY <1>8, NamesAreNoBackup DEF Stage, At, files, PlaceInv, AfterSwap, ProcessInv, TypeOK, Place, Log, NoLog, Owner, Commit, Step, None
<1>9. CASE Swap
  BY <1>9, NamesAreNoBackup DEF Swap, At, Replaces, PlaceInv, AfterSwap, ProcessInv, TypeOK, Place, Log, NoLog, Owner, Commit, Step, None
<1>10. CASE UnlinkLogAgain
  BY <1>10, NamesAreNoBackup DEF UnlinkLogAgain, At, Unlogs, PlaceInv, AfterSwap, ProcessInv, TypeOK, Place, Log, NoLog, Owner, Commit, Step, None
<1>11. CASE InstallKey
  BY <1>11, NamesAreNoBackup DEF InstallKey, At, PlaceInv, AfterSwap, ProcessInv, TypeOK, Place, Log, NoLog, Owner, Commit, Step, None
<1>12. CASE OpenRestored
  BY <1>12, NamesAreNoBackup DEF OpenRestored, At, Opens, Opened, PlaceInv, AfterSwap, ProcessInv, TypeOK, Place, Log, NoLog, Owner, Commit, Step, None
<1>13. CASE SetMaintenance
  BY <1>13, NamesAreNoBackup DEF SetMaintenance, At, Stores, PlaceInv, AfterSwap, ProcessInv, TypeOK, Place, Log, NoLog, Owner, Commit, Step, None
<1>14. CASE ParkTasks
  BY <1>14, NamesAreNoBackup DEF ParkTasks, At, Stores, PlaceInv, AfterSwap, ProcessInv, TypeOK, Place, Log, NoLog, Owner, Commit, Step, None
<1>15. CASE CloseRestored
  BY <1>15, NamesAreNoBackup DEF CloseRestored, At, Closes, PlaceInv, AfterSwap, ProcessInv, TypeOK, Place, Log, NoLog, Owner, Commit, Step, None
<1>16. CASE UnlinkRestored
  BY <1>16, NamesAreNoBackup DEF UnlinkRestored, At, Replaces, PlaceInv, AfterSwap, ProcessInv, TypeOK, Place, Log, NoLog, Owner, Commit, Step, None
<1>17. CASE PutBack
  BY <1>17, NamesAreNoBackup DEF PutBack, At, PlaceInv, AfterSwap, ProcessInv, TypeOK, Place, Log, NoLog, Owner, Commit, Step, None
<1>18. CASE PutKeyBack
  BY <1>18, NamesAreNoBackup DEF PutKeyBack, At, PlaceInv, AfterSwap, ProcessInv, TypeOK, Place, Log, NoLog, Owner, Commit, Step, None
<1>19. CASE FailBefore
  BY <1>19, NamesAreNoBackup DEF FailBefore, At, Pay, files, PlaceInv, AfterSwap, ProcessInv, TypeOK, Place, Log, NoLog, Owner, Commit, Step, None
<1>20. CASE FailAfter
  BY <1>20, NamesAreNoBackup DEF FailAfter, At, Pay, files, PlaceInv, AfterSwap, ProcessInv, TypeOK, Place, Log, NoLog, Owner, Commit, Step, None
<1>21. CASE RollbackFails
  BY <1>21, NamesAreNoBackup DEF RollbackFails, At, Pay, files, PlaceInv, AfterSwap, ProcessInv, TypeOK, Place, Log, NoLog, Owner, Commit, Step, None
<1>22. CASE Exit
  BY <1>22, NamesAreNoBackup DEF Exit, At, Ends, files, PlaceInv, AfterSwap, ProcessInv, TypeOK, Place, Log, NoLog, Owner, Commit, Step, None
<1>23. CASE Death
  BY <1>23, NamesAreNoBackup DEF Death, Ends, Pay, files, PlaceInv, AfterSwap, ProcessInv, TypeOK, Place, Log, NoLog, Owner, Commit, Step, None
<1>24. CASE Bootstrap
  BY <1>24, NamesAreNoBackup DEF Bootstrap, Opened, PlaceInv, AfterSwap, ProcessInv, TypeOK, Place, Log, NoLog, Owner, Commit, Step, None
<1>25. CASE ClearMaintenance
  BY <1>25, NamesAreNoBackup DEF ClearMaintenance, PlaceInv, AfterSwap, ProcessInv, TypeOK, Place, Log, NoLog, Owner, Commit, Step, None
<1>26. CASE GiveTasksBack
  BY <1>26, NamesAreNoBackup DEF GiveTasksBack, PlaceInv, AfterSwap, ProcessInv, TypeOK, Place, Log, NoLog, Owner, Commit, Step, None
<1>27. CASE UNCHANGED vars
  BY <1>27 DEF vars, files, PlaceInv, AfterSwap, ProcessInv, TypeOK, Place, Log, NoLog, Owner, Commit, Step, None
<1>28. QED
  BY <1>1, <1>2, <1>3, <1>4, <1>5, <1>6, <1>7, <1>8, <1>9, <1>10, <1>11, <1>12, <1>13, <1>14, <1>15, <1>16, <1>17, <1>18, <1>19, <1>20, <1>21, <1>22, <1>23, <1>24, <1>25, <1>26, <1>27 DEF Next, Restoring, Starting

(* The key is changed only after the swap, and put back with the copy.      *)
LEMMA NextKey == TypeOK /\ ProcessInv /\ PlaceInv /\ KeyInv /\ [Next]_vars => KeyInv'
<1> SUFFICES ASSUME TypeOK, ProcessInv, PlaceInv, KeyInv, [Next]_vars PROVE KeyInv'
  OBVIOUS
<1>1. CASE \E b \in Backup : Ask(b)
  BY <1>1, NamesAreNoBackup, KeyedType DEF Ask, Pay, At, KeyInv, Fits, PlaceInv, AfterSwap, ProcessInv, TypeOK, Place, Log, NoLog, Owner, Commit, Step, None
<1>2. CASE Write
  BY <1>2, NamesAreNoBackup, KeyedType DEF Write, Stores, KeyInv, Fits, PlaceInv, AfterSwap, ProcessInv, TypeOK, Place, Log, NoLog, Owner, Commit, Step, None
<1>3. CASE Reopen
  BY <1>3, NamesAreNoBackup, KeyedType DEF Reopen, Opens, Opened, KeyInv, Fits, PlaceInv, AfterSwap, ProcessInv, TypeOK, Place, Log, NoLog, Owner, Commit, Step, None
<1>4. CASE TakeRequest
  BY <1>4, NamesAreNoBackup, KeyedType DEF TakeRequest, At, KeyInv, Fits, PlaceInv, AfterSwap, ProcessInv, TypeOK, Place, Log, NoLog, Owner, Commit, Step, None
<1>5. CASE CopyPrevious
  BY <1>5, NamesAreNoBackup, KeyedType DEF CopyPrevious, At, KeyInv, Fits, PlaceInv, AfterSwap, ProcessInv, TypeOK, Place, Log, NoLog, Owner, Commit, Step, None
<1>6. CASE CloseConnection
  BY <1>6, NamesAreNoBackup, KeyedType DEF CloseConnection, At, Closes, KeyInv, Fits, PlaceInv, AfterSwap, ProcessInv, TypeOK, Place, Log, NoLog, Owner, Commit, Step, None
<1>7. CASE UnlinkLog
  BY <1>7, NamesAreNoBackup, KeyedType DEF UnlinkLog, At, Unlogs, KeyInv, Fits, PlaceInv, AfterSwap, ProcessInv, TypeOK, Place, Log, NoLog, Owner, Commit, Step, None
<1>8. CASE Stage
  BY <1>8, NamesAreNoBackup, KeyedType DEF Stage, At, files, KeyInv, Fits, PlaceInv, AfterSwap, ProcessInv, TypeOK, Place, Log, NoLog, Owner, Commit, Step, None
<1>9. CASE Swap
  BY <1>9, NamesAreNoBackup, KeyedType DEF Swap, At, Replaces, KeyInv, Fits, PlaceInv, AfterSwap, ProcessInv, TypeOK, Place, Log, NoLog, Owner, Commit, Step, None
<1>10. CASE UnlinkLogAgain
  BY <1>10, NamesAreNoBackup, KeyedType DEF UnlinkLogAgain, At, Unlogs, KeyInv, Fits, PlaceInv, AfterSwap, ProcessInv, TypeOK, Place, Log, NoLog, Owner, Commit, Step, None
<1>11. CASE InstallKey
  BY <1>11, NamesAreNoBackup, KeyedType DEF InstallKey, At, KeyInv, Fits, PlaceInv, AfterSwap, ProcessInv, TypeOK, Place, Log, NoLog, Owner, Commit, Step, None
<1>12. CASE OpenRestored
  BY <1>12, NamesAreNoBackup, KeyedType DEF OpenRestored, At, Opens, Opened, KeyInv, Fits, PlaceInv, AfterSwap, ProcessInv, TypeOK, Place, Log, NoLog, Owner, Commit, Step, None
<1>13. CASE SetMaintenance
  BY <1>13, NamesAreNoBackup, KeyedType DEF SetMaintenance, At, Stores, KeyInv, Fits, PlaceInv, AfterSwap, ProcessInv, TypeOK, Place, Log, NoLog, Owner, Commit, Step, None
<1>14. CASE ParkTasks
  BY <1>14, NamesAreNoBackup, KeyedType DEF ParkTasks, At, Stores, KeyInv, Fits, PlaceInv, AfterSwap, ProcessInv, TypeOK, Place, Log, NoLog, Owner, Commit, Step, None
<1>15. CASE CloseRestored
  BY <1>15, NamesAreNoBackup, KeyedType DEF CloseRestored, At, Closes, KeyInv, Fits, PlaceInv, AfterSwap, ProcessInv, TypeOK, Place, Log, NoLog, Owner, Commit, Step, None
<1>16. CASE UnlinkRestored
  BY <1>16, NamesAreNoBackup, KeyedType DEF UnlinkRestored, At, Replaces, KeyInv, Fits, PlaceInv, AfterSwap, ProcessInv, TypeOK, Place, Log, NoLog, Owner, Commit, Step, None
<1>17. CASE PutBack
  BY <1>17, NamesAreNoBackup, KeyedType DEF PutBack, At, KeyInv, Fits, PlaceInv, AfterSwap, ProcessInv, TypeOK, Place, Log, NoLog, Owner, Commit, Step, None
<1>18. CASE PutKeyBack
  BY <1>18, NamesAreNoBackup, KeyedType DEF PutKeyBack, At, KeyInv, Fits, PlaceInv, AfterSwap, ProcessInv, TypeOK, Place, Log, NoLog, Owner, Commit, Step, None
<1>19. CASE FailBefore
  BY <1>19, NamesAreNoBackup, KeyedType DEF FailBefore, At, Pay, files, KeyInv, Fits, PlaceInv, AfterSwap, ProcessInv, TypeOK, Place, Log, NoLog, Owner, Commit, Step, None
<1>20. CASE FailAfter
  BY <1>20, NamesAreNoBackup, KeyedType DEF FailAfter, At, Pay, files, KeyInv, Fits, PlaceInv, AfterSwap, ProcessInv, TypeOK, Place, Log, NoLog, Owner, Commit, Step, None
<1>21. CASE RollbackFails
  BY <1>21, NamesAreNoBackup, KeyedType DEF RollbackFails, At, Pay, files, KeyInv, Fits, PlaceInv, AfterSwap, ProcessInv, TypeOK, Place, Log, NoLog, Owner, Commit, Step, None
<1>22. CASE Exit
  BY <1>22, NamesAreNoBackup, KeyedType DEF Exit, At, Ends, files, KeyInv, Fits, PlaceInv, AfterSwap, ProcessInv, TypeOK, Place, Log, NoLog, Owner, Commit, Step, None
<1>23. CASE Death
  BY <1>23, NamesAreNoBackup, KeyedType DEF Death, Ends, Pay, files, KeyInv, Fits, PlaceInv, AfterSwap, ProcessInv, TypeOK, Place, Log, NoLog, Owner, Commit, Step, None
<1>24. CASE Bootstrap
  BY <1>24, NamesAreNoBackup, KeyedType DEF Bootstrap, Opened, KeyInv, Fits, PlaceInv, AfterSwap, ProcessInv, TypeOK, Place, Log, NoLog, Owner, Commit, Step, None
<1>25. CASE ClearMaintenance
  BY <1>25, NamesAreNoBackup, KeyedType DEF ClearMaintenance, KeyInv, Fits, PlaceInv, AfterSwap, ProcessInv, TypeOK, Place, Log, NoLog, Owner, Commit, Step, None
<1>26. CASE GiveTasksBack
  BY <1>26, NamesAreNoBackup, KeyedType DEF GiveTasksBack, KeyInv, Fits, PlaceInv, AfterSwap, ProcessInv, TypeOK, Place, Log, NoLog, Owner, Commit, Step, None
<1>27. CASE UNCHANGED vars
  BY <1>27 DEF vars, files, KeyInv, Fits, PlaceInv, AfterSwap, ProcessInv, TypeOK, Place, Log, NoLog, Owner, Commit, Step, None
<1>28. QED
  BY <1>1, <1>2, <1>3, <1>4, <1>5, <1>6, <1>7, <1>8, <1>9, <1>10, <1>11, <1>12, <1>13, <1>14, <1>15, <1>16, <1>17, <1>18, <1>19, <1>20, <1>21, <1>22, <1>23, <1>24, <1>25, <1>26, <1>27 DEF Next, Restoring, Starting

(* After the close the restore is alone until somebody reopens.             *)
LEMMA NextAlone == TypeOK /\ ProcessInv /\ AloneInv /\ [Next]_vars => AloneInv'
<1> SUFFICES ASSUME TypeOK, ProcessInv, AloneInv, [Next]_vars PROVE AloneInv'
  OBVIOUS
<1>1. CASE \E b \in Backup : Ask(b)
  BY <1>1 DEF Ask, Pay, At, AloneInv, ProcessInv, TypeOK, Place, Log, NoLog, Owner, Commit, Step, None
<1>2. CASE Write
  BY <1>2 DEF Write, Stores, AloneInv, ProcessInv, TypeOK, Place, Log, NoLog, Owner, Commit, Step, None
<1>3. CASE Reopen
  BY <1>3 DEF Reopen, Opens, Opened, AloneInv, ProcessInv, TypeOK, Place, Log, NoLog, Owner, Commit, Step, None
<1>4. CASE TakeRequest
  BY <1>4 DEF TakeRequest, At, AloneInv, ProcessInv, TypeOK, Place, Log, NoLog, Owner, Commit, Step, None
<1>5. CASE CopyPrevious
  BY <1>5 DEF CopyPrevious, At, AloneInv, ProcessInv, TypeOK, Place, Log, NoLog, Owner, Commit, Step, None
<1>6. CASE CloseConnection
  BY <1>6 DEF CloseConnection, At, Closes, AloneInv, ProcessInv, TypeOK, Place, Log, NoLog, Owner, Commit, Step, None
<1>7. CASE UnlinkLog
  BY <1>7 DEF UnlinkLog, At, Unlogs, AloneInv, ProcessInv, TypeOK, Place, Log, NoLog, Owner, Commit, Step, None
<1>8. CASE Stage
  BY <1>8 DEF Stage, At, files, AloneInv, ProcessInv, TypeOK, Place, Log, NoLog, Owner, Commit, Step, None
<1>9. CASE Swap
  BY <1>9 DEF Swap, At, Replaces, AloneInv, ProcessInv, TypeOK, Place, Log, NoLog, Owner, Commit, Step, None
<1>10. CASE UnlinkLogAgain
  BY <1>10 DEF UnlinkLogAgain, At, Unlogs, AloneInv, ProcessInv, TypeOK, Place, Log, NoLog, Owner, Commit, Step, None
<1>11. CASE InstallKey
  BY <1>11 DEF InstallKey, At, AloneInv, ProcessInv, TypeOK, Place, Log, NoLog, Owner, Commit, Step, None
<1>12. CASE OpenRestored
  BY <1>12 DEF OpenRestored, At, Opens, Opened, AloneInv, ProcessInv, TypeOK, Place, Log, NoLog, Owner, Commit, Step, None
<1>13. CASE SetMaintenance
  BY <1>13 DEF SetMaintenance, At, Stores, AloneInv, ProcessInv, TypeOK, Place, Log, NoLog, Owner, Commit, Step, None
<1>14. CASE ParkTasks
  BY <1>14 DEF ParkTasks, At, Stores, AloneInv, ProcessInv, TypeOK, Place, Log, NoLog, Owner, Commit, Step, None
<1>15. CASE CloseRestored
  BY <1>15 DEF CloseRestored, At, Closes, AloneInv, ProcessInv, TypeOK, Place, Log, NoLog, Owner, Commit, Step, None
<1>16. CASE UnlinkRestored
  BY <1>16 DEF UnlinkRestored, At, Replaces, AloneInv, ProcessInv, TypeOK, Place, Log, NoLog, Owner, Commit, Step, None
<1>17. CASE PutBack
  BY <1>17 DEF PutBack, At, AloneInv, ProcessInv, TypeOK, Place, Log, NoLog, Owner, Commit, Step, None
<1>18. CASE PutKeyBack
  BY <1>18 DEF PutKeyBack, At, AloneInv, ProcessInv, TypeOK, Place, Log, NoLog, Owner, Commit, Step, None
<1>19. CASE FailBefore
  BY <1>19 DEF FailBefore, At, Pay, files, AloneInv, ProcessInv, TypeOK, Place, Log, NoLog, Owner, Commit, Step, None
<1>20. CASE FailAfter
  BY <1>20 DEF FailAfter, At, Pay, files, AloneInv, ProcessInv, TypeOK, Place, Log, NoLog, Owner, Commit, Step, None
<1>21. CASE RollbackFails
  BY <1>21 DEF RollbackFails, At, Pay, files, AloneInv, ProcessInv, TypeOK, Place, Log, NoLog, Owner, Commit, Step, None
<1>22. CASE Exit
  BY <1>22 DEF Exit, At, Ends, files, AloneInv, ProcessInv, TypeOK, Place, Log, NoLog, Owner, Commit, Step, None
<1>23. CASE Death
  BY <1>23 DEF Death, Ends, Pay, files, AloneInv, ProcessInv, TypeOK, Place, Log, NoLog, Owner, Commit, Step, None
<1>24. CASE Bootstrap
  BY <1>24 DEF Bootstrap, Opened, AloneInv, ProcessInv, TypeOK, Place, Log, NoLog, Owner, Commit, Step, None
<1>25. CASE ClearMaintenance
  BY <1>25 DEF ClearMaintenance, AloneInv, ProcessInv, TypeOK, Place, Log, NoLog, Owner, Commit, Step, None
<1>26. CASE GiveTasksBack
  BY <1>26 DEF GiveTasksBack, AloneInv, ProcessInv, TypeOK, Place, Log, NoLog, Owner, Commit, Step, None
<1>27. CASE UNCHANGED vars
  BY <1>27 DEF vars, files, AloneInv, ProcessInv, TypeOK, Place, Log, NoLog, Owner, Commit, Step, None
<1>28. QED
  BY <1>1, <1>2, <1>3, <1>4, <1>5, <1>6, <1>7, <1>8, <1>9, <1>10, <1>11, <1>12, <1>13, <1>14, <1>15, <1>16, <1>17, <1>18, <1>19, <1>20, <1>21, <1>22, <1>23, <1>24, <1>25, <1>26, <1>27 DEF Next, Restoring, Starting

(* What was committed to the present database stays stored with it.         *)
LEMMA NextPrevious == TypeOK /\ ProcessInv /\ LogInv /\ PlaceInv /\ AloneInv /\ PreviousInv /\ [Next]_vars => PreviousInv'
<1> SUFFICES ASSUME TypeOK, ProcessInv, LogInv, PlaceInv, AloneInv, PreviousInv, [Next]_vars PROVE PreviousInv'
  OBVIOUS
<1>1. CASE \E b \in Backup : Ask(b)
  BY <1>1, NamesAreNoBackup DEF Ask, Pay, At, PreviousInv, Stored, AloneInv, LogInv, PlaceInv, AfterSwap, ProcessInv, TypeOK, Place, Log, NoLog, Owner, Commit, Step, None
<1>2. CASE Write
  BY <1>2, NamesAreNoBackup DEF Write, Stores, PreviousInv, Stored, AloneInv, LogInv, PlaceInv, AfterSwap, ProcessInv, TypeOK, Place, Log, NoLog, Owner, Commit, Step, None
<1>3. CASE Reopen
  BY <1>3, NamesAreNoBackup DEF Reopen, Opens, Opened, PreviousInv, Stored, AloneInv, LogInv, PlaceInv, AfterSwap, ProcessInv, TypeOK, Place, Log, NoLog, Owner, Commit, Step, None
<1>4. CASE TakeRequest
  BY <1>4, NamesAreNoBackup DEF TakeRequest, At, PreviousInv, Stored, AloneInv, LogInv, PlaceInv, AfterSwap, ProcessInv, TypeOK, Place, Log, NoLog, Owner, Commit, Step, None
<1>5. CASE CopyPrevious
  BY <1>5, NamesAreNoBackup DEF CopyPrevious, At, PreviousInv, Stored, AloneInv, LogInv, PlaceInv, AfterSwap, ProcessInv, TypeOK, Place, Log, NoLog, Owner, Commit, Step, None
<1>6. CASE CloseConnection
  BY <1>6, NamesAreNoBackup DEF CloseConnection, At, Closes, PreviousInv, Stored, AloneInv, LogInv, PlaceInv, AfterSwap, ProcessInv, TypeOK, Place, Log, NoLog, Owner, Commit, Step, None
<1>7. CASE UnlinkLog
  BY <1>7, NamesAreNoBackup DEF UnlinkLog, At, Unlogs, PreviousInv, Stored, AloneInv, LogInv, PlaceInv, AfterSwap, ProcessInv, TypeOK, Place, Log, NoLog, Owner, Commit, Step, None
<1>8. CASE Stage
  BY <1>8, NamesAreNoBackup DEF Stage, At, files, PreviousInv, Stored, AloneInv, LogInv, PlaceInv, AfterSwap, ProcessInv, TypeOK, Place, Log, NoLog, Owner, Commit, Step, None
<1>9. CASE Swap
  BY <1>9, NamesAreNoBackup DEF Swap, At, Replaces, PreviousInv, Stored, AloneInv, LogInv, PlaceInv, AfterSwap, ProcessInv, TypeOK, Place, Log, NoLog, Owner, Commit, Step, None
<1>10. CASE UnlinkLogAgain
  BY <1>10, NamesAreNoBackup DEF UnlinkLogAgain, At, Unlogs, PreviousInv, Stored, AloneInv, LogInv, PlaceInv, AfterSwap, ProcessInv, TypeOK, Place, Log, NoLog, Owner, Commit, Step, None
<1>11. CASE InstallKey
  BY <1>11, NamesAreNoBackup DEF InstallKey, At, PreviousInv, Stored, AloneInv, LogInv, PlaceInv, AfterSwap, ProcessInv, TypeOK, Place, Log, NoLog, Owner, Commit, Step, None
<1>12. CASE OpenRestored
  BY <1>12, NamesAreNoBackup DEF OpenRestored, At, Opens, Opened, PreviousInv, Stored, AloneInv, LogInv, PlaceInv, AfterSwap, ProcessInv, TypeOK, Place, Log, NoLog, Owner, Commit, Step, None
<1>13. CASE SetMaintenance
  BY <1>13, NamesAreNoBackup DEF SetMaintenance, At, Stores, PreviousInv, Stored, AloneInv, LogInv, PlaceInv, AfterSwap, ProcessInv, TypeOK, Place, Log, NoLog, Owner, Commit, Step, None
<1>14. CASE ParkTasks
  BY <1>14, NamesAreNoBackup DEF ParkTasks, At, Stores, PreviousInv, Stored, AloneInv, LogInv, PlaceInv, AfterSwap, ProcessInv, TypeOK, Place, Log, NoLog, Owner, Commit, Step, None
<1>15. CASE CloseRestored
  BY <1>15, NamesAreNoBackup DEF CloseRestored, At, Closes, PreviousInv, Stored, AloneInv, LogInv, PlaceInv, AfterSwap, ProcessInv, TypeOK, Place, Log, NoLog, Owner, Commit, Step, None
<1>16. CASE UnlinkRestored
  BY <1>16, NamesAreNoBackup DEF UnlinkRestored, At, Replaces, PreviousInv, Stored, AloneInv, LogInv, PlaceInv, AfterSwap, ProcessInv, TypeOK, Place, Log, NoLog, Owner, Commit, Step, None
<1>17. CASE PutBack
  BY <1>17, NamesAreNoBackup DEF PutBack, At, PreviousInv, Stored, AloneInv, LogInv, PlaceInv, AfterSwap, ProcessInv, TypeOK, Place, Log, NoLog, Owner, Commit, Step, None
<1>18. CASE PutKeyBack
  BY <1>18, NamesAreNoBackup DEF PutKeyBack, At, PreviousInv, Stored, AloneInv, LogInv, PlaceInv, AfterSwap, ProcessInv, TypeOK, Place, Log, NoLog, Owner, Commit, Step, None
<1>19. CASE FailBefore
  BY <1>19, NamesAreNoBackup DEF FailBefore, At, Pay, files, PreviousInv, Stored, AloneInv, LogInv, PlaceInv, AfterSwap, ProcessInv, TypeOK, Place, Log, NoLog, Owner, Commit, Step, None
<1>20. CASE FailAfter
  BY <1>20, NamesAreNoBackup DEF FailAfter, At, Pay, files, PreviousInv, Stored, AloneInv, LogInv, PlaceInv, AfterSwap, ProcessInv, TypeOK, Place, Log, NoLog, Owner, Commit, Step, None
<1>21. CASE RollbackFails
  BY <1>21, NamesAreNoBackup DEF RollbackFails, At, Pay, files, PreviousInv, Stored, AloneInv, LogInv, PlaceInv, AfterSwap, ProcessInv, TypeOK, Place, Log, NoLog, Owner, Commit, Step, None
<1>22. CASE Exit
  BY <1>22, NamesAreNoBackup DEF Exit, At, Ends, files, PreviousInv, Stored, AloneInv, LogInv, PlaceInv, AfterSwap, ProcessInv, TypeOK, Place, Log, NoLog, Owner, Commit, Step, None
<1>23. CASE Death
  BY <1>23, NamesAreNoBackup DEF Death, Ends, Pay, files, PreviousInv, Stored, AloneInv, LogInv, PlaceInv, AfterSwap, ProcessInv, TypeOK, Place, Log, NoLog, Owner, Commit, Step, None
<1>24. CASE Bootstrap
  BY <1>24, NamesAreNoBackup DEF Bootstrap, Opened, PreviousInv, Stored, AloneInv, LogInv, PlaceInv, AfterSwap, ProcessInv, TypeOK, Place, Log, NoLog, Owner, Commit, Step, None
<1>25. CASE ClearMaintenance
  BY <1>25, NamesAreNoBackup DEF ClearMaintenance, PreviousInv, Stored, AloneInv, LogInv, PlaceInv, AfterSwap, ProcessInv, TypeOK, Place, Log, NoLog, Owner, Commit, Step, None
<1>26. CASE GiveTasksBack
  BY <1>26, NamesAreNoBackup DEF GiveTasksBack, PreviousInv, Stored, AloneInv, LogInv, PlaceInv, AfterSwap, ProcessInv, TypeOK, Place, Log, NoLog, Owner, Commit, Step, None
<1>27. CASE UNCHANGED vars
  BY <1>27 DEF vars, files, PreviousInv, Stored, AloneInv, LogInv, PlaceInv, AfterSwap, ProcessInv, TypeOK, Place, Log, NoLog, Owner, Commit, Step, None
<1>28. QED
  BY <1>1, <1>2, <1>3, <1>4, <1>5, <1>6, <1>7, <1>8, <1>9, <1>10, <1>11, <1>12, <1>13, <1>14, <1>15, <1>16, <1>17, <1>18, <1>19, <1>20, <1>21, <1>22, <1>23, <1>24, <1>25, <1>26, <1>27 DEF Next, Restoring, Starting

(* The statements of prepare_restored_database reach the file at the path.  *)
LEMMA NextPrepare == TypeOK /\ ProcessInv /\ LogInv /\ PlaceInv /\ AloneInv /\ PrepareInv /\ [Next]_vars => PrepareInv'
<1> SUFFICES ASSUME TypeOK, ProcessInv, LogInv, PlaceInv, AloneInv, PrepareInv, [Next]_vars PROVE PrepareInv'
  OBVIOUS
<1>1. CASE \E b \in Backup : Ask(b)
  BY <1>1, NamesAreNoBackup DEF Ask, Pay, At, PrepareInv, Seen, AloneInv, LogInv, PlaceInv, AfterSwap, ProcessInv, TypeOK, Place, Log, NoLog, Owner, Commit, Step, None
<1>2. CASE Write
  BY <1>2, NamesAreNoBackup DEF Write, Stores, PrepareInv, Seen, AloneInv, LogInv, PlaceInv, AfterSwap, ProcessInv, TypeOK, Place, Log, NoLog, Owner, Commit, Step, None
<1>3. CASE Reopen
  BY <1>3, NamesAreNoBackup DEF Reopen, Opens, Opened, PrepareInv, Seen, AloneInv, LogInv, PlaceInv, AfterSwap, ProcessInv, TypeOK, Place, Log, NoLog, Owner, Commit, Step, None
<1>4. CASE TakeRequest
  BY <1>4, NamesAreNoBackup DEF TakeRequest, At, PrepareInv, Seen, AloneInv, LogInv, PlaceInv, AfterSwap, ProcessInv, TypeOK, Place, Log, NoLog, Owner, Commit, Step, None
<1>5. CASE CopyPrevious
  BY <1>5, NamesAreNoBackup DEF CopyPrevious, At, PrepareInv, Seen, AloneInv, LogInv, PlaceInv, AfterSwap, ProcessInv, TypeOK, Place, Log, NoLog, Owner, Commit, Step, None
<1>6. CASE CloseConnection
  BY <1>6, NamesAreNoBackup DEF CloseConnection, At, Closes, PrepareInv, Seen, AloneInv, LogInv, PlaceInv, AfterSwap, ProcessInv, TypeOK, Place, Log, NoLog, Owner, Commit, Step, None
<1>7. CASE UnlinkLog
  BY <1>7, NamesAreNoBackup DEF UnlinkLog, At, Unlogs, PrepareInv, Seen, AloneInv, LogInv, PlaceInv, AfterSwap, ProcessInv, TypeOK, Place, Log, NoLog, Owner, Commit, Step, None
<1>8. CASE Stage
  BY <1>8, NamesAreNoBackup DEF Stage, At, files, PrepareInv, Seen, AloneInv, LogInv, PlaceInv, AfterSwap, ProcessInv, TypeOK, Place, Log, NoLog, Owner, Commit, Step, None
<1>9. CASE Swap
  BY <1>9, NamesAreNoBackup DEF Swap, At, Replaces, PrepareInv, Seen, AloneInv, LogInv, PlaceInv, AfterSwap, ProcessInv, TypeOK, Place, Log, NoLog, Owner, Commit, Step, None
<1>10. CASE UnlinkLogAgain
  BY <1>10, NamesAreNoBackup DEF UnlinkLogAgain, At, Unlogs, PrepareInv, Seen, AloneInv, LogInv, PlaceInv, AfterSwap, ProcessInv, TypeOK, Place, Log, NoLog, Owner, Commit, Step, None
<1>11. CASE InstallKey
  BY <1>11, NamesAreNoBackup DEF InstallKey, At, PrepareInv, Seen, AloneInv, LogInv, PlaceInv, AfterSwap, ProcessInv, TypeOK, Place, Log, NoLog, Owner, Commit, Step, None
<1>12. CASE OpenRestored
  BY <1>12, NamesAreNoBackup DEF OpenRestored, At, Opens, Opened, PrepareInv, Seen, AloneInv, LogInv, PlaceInv, AfterSwap, ProcessInv, TypeOK, Place, Log, NoLog, Owner, Commit, Step, None
<1>13. CASE SetMaintenance
  BY <1>13, NamesAreNoBackup DEF SetMaintenance, At, Stores, PrepareInv, Seen, AloneInv, LogInv, PlaceInv, AfterSwap, ProcessInv, TypeOK, Place, Log, NoLog, Owner, Commit, Step, None
<1>14. CASE ParkTasks
  BY <1>14, NamesAreNoBackup DEF ParkTasks, At, Stores, PrepareInv, Seen, AloneInv, LogInv, PlaceInv, AfterSwap, ProcessInv, TypeOK, Place, Log, NoLog, Owner, Commit, Step, None
<1>15. CASE CloseRestored
  BY <1>15, NamesAreNoBackup DEF CloseRestored, At, Closes, PrepareInv, Seen, AloneInv, LogInv, PlaceInv, AfterSwap, ProcessInv, TypeOK, Place, Log, NoLog, Owner, Commit, Step, None
<1>16. CASE UnlinkRestored
  BY <1>16, NamesAreNoBackup DEF UnlinkRestored, At, Replaces, PrepareInv, Seen, AloneInv, LogInv, PlaceInv, AfterSwap, ProcessInv, TypeOK, Place, Log, NoLog, Owner, Commit, Step, None
<1>17. CASE PutBack
  BY <1>17, NamesAreNoBackup DEF PutBack, At, PrepareInv, Seen, AloneInv, LogInv, PlaceInv, AfterSwap, ProcessInv, TypeOK, Place, Log, NoLog, Owner, Commit, Step, None
<1>18. CASE PutKeyBack
  BY <1>18, NamesAreNoBackup DEF PutKeyBack, At, PrepareInv, Seen, AloneInv, LogInv, PlaceInv, AfterSwap, ProcessInv, TypeOK, Place, Log, NoLog, Owner, Commit, Step, None
<1>19. CASE FailBefore
  BY <1>19, NamesAreNoBackup DEF FailBefore, At, Pay, files, PrepareInv, Seen, AloneInv, LogInv, PlaceInv, AfterSwap, ProcessInv, TypeOK, Place, Log, NoLog, Owner, Commit, Step, None
<1>20. CASE FailAfter
  BY <1>20, NamesAreNoBackup DEF FailAfter, At, Pay, files, PrepareInv, Seen, AloneInv, LogInv, PlaceInv, AfterSwap, ProcessInv, TypeOK, Place, Log, NoLog, Owner, Commit, Step, None
<1>21. CASE RollbackFails
  BY <1>21, NamesAreNoBackup DEF RollbackFails, At, Pay, files, PrepareInv, Seen, AloneInv, LogInv, PlaceInv, AfterSwap, ProcessInv, TypeOK, Place, Log, NoLog, Owner, Commit, Step, None
<1>22. CASE Exit
  BY <1>22, NamesAreNoBackup DEF Exit, At, Ends, files, PrepareInv, Seen, AloneInv, LogInv, PlaceInv, AfterSwap, ProcessInv, TypeOK, Place, Log, NoLog, Owner, Commit, Step, None
<1>23. CASE Death
  BY <1>23, NamesAreNoBackup DEF Death, Ends, Pay, files, PrepareInv, Seen, AloneInv, LogInv, PlaceInv, AfterSwap, ProcessInv, TypeOK, Place, Log, NoLog, Owner, Commit, Step, None
<1>24. CASE Bootstrap
  BY <1>24, NamesAreNoBackup DEF Bootstrap, Opened, PrepareInv, Seen, AloneInv, LogInv, PlaceInv, AfterSwap, ProcessInv, TypeOK, Place, Log, NoLog, Owner, Commit, Step, None
<1>25. CASE ClearMaintenance
  BY <1>25, NamesAreNoBackup DEF ClearMaintenance, PrepareInv, Seen, AloneInv, LogInv, PlaceInv, AfterSwap, ProcessInv, TypeOK, Place, Log, NoLog, Owner, Commit, Step, None
<1>26. CASE GiveTasksBack
  BY <1>26, NamesAreNoBackup DEF GiveTasksBack, PrepareInv, Seen, AloneInv, LogInv, PlaceInv, AfterSwap, ProcessInv, TypeOK, Place, Log, NoLog, Owner, Commit, Step, None
<1>27. CASE UNCHANGED vars
  BY <1>27 DEF vars, files, PrepareInv, Seen, AloneInv, LogInv, PlaceInv, AfterSwap, ProcessInv, TypeOK, Place, Log, NoLog, Owner, Commit, Step, None
<1>28. QED
  BY <1>1, <1>2, <1>3, <1>4, <1>5, <1>6, <1>7, <1>8, <1>9, <1>10, <1>11, <1>12, <1>13, <1>14, <1>15, <1>16, <1>17, <1>18, <1>19, <1>20, <1>21, <1>22, <1>23, <1>24, <1>25, <1>26, <1>27 DEF Next, Restoring, Starting

----------------------------------------------------------------------------
(* The initial state satisfies the invariant.                               *)
LEMMA InitInv == Init => IInv
<1> SUFFICES ASSUME Init PROVE IInv
  OBVIOUS
<1>1. TypeOK
  BY RestoreBounds DEF Init, TypeOK, Place, Log, Owner, Commit, Step, None
<1>2. ProcessInv /\ LogInv /\ PlaceInv
  BY NamesAreNoBackup DEF Init, ProcessInv, LogInv, NeverMixed, PlaceInv, AfterSwap, None
<1>3. KeyInv /\ AloneInv /\ PreviousInv /\ PrepareInv
  BY DEF Init, KeyInv, Fits, AloneInv, PreviousInv, Stored, PrepareInv, AfterSwap
<1>4. QED
  BY <1>1, <1>2, <1>3 DEF IInv

(* Every reachable state satisfies the invariant.                           *)
LEMMA Invariance == Spec => []IInv
<1>1. IInv /\ [Next]_vars => IInv'
  BY NextType, NextProcess, NextLog, NextPlace, NextKey, NextAlone, NextPrevious, NextPrepare
  DEF IInv
<1>2. QED
  BY InitInv, <1>1, PTL DEF Spec

(* Files, logs, connections and the restore keep their types (Restore).     *)
THEOREM TypeCorrect == Spec => []TypeOK
<1>1. IInv => TypeOK
  BY DEF IInv
<1>2. QED
  BY Invariance, <1>1, PTL

(* No database is opened with another's log, but after a death between the  *)
(* swap and the second unlink or a rollback under an open connection.       *)
THEOREM LogsAreNotMixed == Spec => []NeverMixed
<1>1. IInv => NeverMixed
  BY DEF IInv, LogInv
<1>2. QED
  BY Invariance, <1>1, PTL

(* A failed or interrupted restore loses no commit of the present database, *)
(* but by a reopening or by the rollback of restore_backup.                 *)
THEOREM CommitsAreKept == Spec => []PreviousIsKept
<1>1. IInv => PreviousIsKept
  BY DEF IInv, TypeOK, LogInv, PreviousInv, PreviousIsKept, Stored
<1>2. QED
  BY Invariance, <1>1, PTL

(* Database and key are of one origin, but for the window between swap and  *)
(* key and a death or a failing rollback in it.                             *)
THEOREM KeysAreKept == Spec => []KeyFits
<1>1. IInv => (step = "putBack" => place.of \notin Keyed \cup {"present"})
  BY KeyedType DEF IInv, PlaceInv, Owner
<1>2. IInv => KeyFits
  BY <1>1 DEF IInv, KeyInv, Fits, KeyFits
<1>3. QED
  BY Invariance, <1>2, PTL

(* When the old process is about to exit, the backup is in maintenance and  *)
(* its tasks are parked, unless a thread had reopened the database.         *)
THEOREM BackupIsParked == Spec => []BackupWaitsForRestart
<1>1. IInv => BackupWaitsForRestart
  BY DEF IInv, PrepareInv, BackupWaitsForRestart, Stored
<1>2. QED
  BY Invariance, <1>1, PTL

----------------------------------------------------------------------------
(***************************************************************************)
(* Upgrade: the statements of the bootstrap.                                *)
(* Programs are put together with \o; behind Then and Is the provers see of it *)
(* only what Joined says.                                                   *)
(***************************************************************************)

Op == {"rename", "create", "copy", "drop", "commit", "seed", "mark", "take"}
      \X (DOMAIN Old \cup DOMAIN Sources \cup {"system", "plans", "texts", "all"})

Then(s, t) == s \o t
Is(s, n) == s \in Seq(Op) /\ Len(s) = n

(* Two programs, one after the other.                                       *)
LEMMA Joined ==
    ASSUME NEW s, NEW t, NEW m \in Nat, NEW n \in Nat, Is(s, m), Is(t, n)
    PROVE  /\ Is(Then(s, t), m + n)
           /\ \A i \in 1..m : Then(s, t)[i] = s[i]
           /\ \A i \in 1..n : Then(s, t)[m + i] = t[i]
<1>1. s \in Seq(Op) /\ t \in Seq(Op) /\ Len(s) = m /\ Len(t) = n
  BY DEF Is
<1>2. s \o t \in Seq(Op) /\ Len(s \o t) = m + n
  BY <1>1
<1>3. ASSUME NEW i \in 1..m PROVE (s \o t)[i] = s[i]
  BY <1>1
<1>4. ASSUME NEW i \in 1..n PROVE (s \o t)[m + i] = t[i]
  BY <1>1
<1> QED
  BY <1>2, <1>3, <1>4 DEF Is, Then

LEMMA RebuildIs ==
    ASSUME NEW t \in DOMAIN Old
    PROVE  /\ Is(Rebuild(t), 4)
           /\ Rebuild(t)[1] = <<"rename", t>> /\ Rebuild(t)[2] = <<"create", t>>
           /\ Rebuild(t)[3] = <<"copy", t>> /\ Rebuild(t)[4] = <<"drop", t>>
<1>1. \A v \in {"rename", "create", "copy", "drop"} : <<v, t>> \in Op
  BY DEF Op
<1>2. \A a, b, c, d \in Op :
         /\ Is(<<a, b, c, d>>, 4)
         /\ <<a, b, c, d>>[1] = a /\ <<a, b, c, d>>[2] = b
         /\ <<a, b, c, d>>[3] = c /\ <<a, b, c, d>>[4] = d
  BY DEF Is
<1> QED
  BY <1>1, <1>2 DEF Rebuild

LEMMA CommitIs == Is(Commit1, 1) /\ Commit1[1] = <<"commit", "all">>
<1>1. <<"commit", "all">> \in Op
  BY DEF Op
<1>2. \A a \in Op : Is(<<a>>, 1) /\ <<a>>[1] = a
  BY DEF Is
<1> QED
  BY <1>1, <1>2 DEF Commit1

LEMMA OneRebuild ==
    ASSUME NEW t \in DOMAIN Old, NEW w, w = Then(Rebuild(t), Commit1)
    PROVE  /\ Is(w, 5)
           /\ w[1] = <<"rename", t>> /\ w[2] = <<"create", t>> /\ w[3] = <<"copy", t>>
           /\ w[4] = <<"drop", t>> /\ w[5] = <<"commit", "all">>
<1> DEFINE r == Rebuild(t)
<1>1. Is(r, 4) /\ Is(Commit1, 1)
  BY RebuildIs, CommitIs
<1>3. /\ Is(w, 4 + 1)
      /\ \A i \in 1..4 : w[i] = r[i]
      /\ \A i \in 1..1 : w[4 + i] = Commit1[i]
  BY <1>1, Joined
<1>4. w[4 + 1] = Commit1[1]
  BY <1>3
<1>5. w[5] = Commit1[1] /\ Is(w, 5)
  BY <1>3, <1>4
<1>6. w[1] = r[1] /\ w[2] = r[2] /\ w[3] = r[3] /\ w[4] = r[4]
  BY <1>3
<1> QED
  BY <1>5, <1>6, RebuildIs, CommitIs

LEMMA SystemTextIs ==
    Is(SystemText, 2) /\ SystemText[1] = <<"seed", "system">> /\ SystemText[2] = <<"commit", "all">>
<1> DEFINE a == <<<<"seed", "system">>>>
<1>1. Is(a, 1) /\ a[1] = <<"seed", "system">>
  <2>1. <<"seed", "system">> \in Op
    BY DEF Op
  <2> QED
    BY <2>1 DEF Is
<1>2. SystemText = Then(a, Commit1)
  BY DEF SystemText, Then
<1> HIDE DEF a
<1>3. /\ Is(SystemText, 1 + 1) /\ (\A i \in 1..1 : SystemText[i] = a[i])
      /\ \A i \in 1..1 : SystemText[1 + i] = Commit1[i]
  BY <1>1, <1>2, CommitIs, Joined
<1>4. SystemText[1 + 1] = Commit1[1] /\ SystemText[1] = a[1]
  BY <1>3
<1> QED
  BY <1>1, <1>3, <1>4, CommitIs

LEMMA SeedOnceIs ==
    ASSUME NEW k \in {"plans", "texts"}, NEW w, w = SeedOnce(k)
    PROVE  /\ Is(w, 3)
           /\ w[1] = <<"seed", k>> /\ w[2] = <<"mark", k>> /\ w[3] = <<"commit", "all">>
<1> DEFINE a == <<<<"seed", k>>, <<"mark", k>>>>
<1>1. Is(a, 2) /\ a[1] = <<"seed", k>> /\ a[2] = <<"mark", k>>
  <2>1. <<"seed", k>> \in Op /\ <<"mark", k>> \in Op
    BY DEF Op
  <2>2. \A x \in Op, y \in Op :
           Is(<<x, y>>, 2) /\ <<x, y>>[1] = x /\ <<x, y>>[2] = y
    BY DEF Is
  <2> QED
    BY <2>1, <2>2
<1>2. w = Then(a, Commit1)
  BY DEF SeedOnce, Then
<1> HIDE DEF a
<1>3. /\ Is(w, 2 + 1) /\ (\A i \in 1..2 : w[i] = a[i])
      /\ \A i \in 1..1 : w[2 + i] = Commit1[i]
  BY <1>1, <1>2, CommitIs, Joined
<1>4. w[2 + 1] = Commit1[1] /\ w[1] = a[1] /\ w[2] = a[2]
  BY <1>3
<1> QED
  BY <1>1, <1>3, <1>4, CommitIs

\* The four statements of a rebuild stand in w from n on.
Stands(w, n, t) ==
    /\ w[n] = <<"rename", t>> /\ w[n + 1] = <<"create", t>>
    /\ w[n + 2] = <<"copy", t>> /\ w[n + 3] = <<"drop", t>>

LEMMA RepairsAre ==
    /\ Is(Repairs, 12)
    /\ Stands(Repairs, 1, "comm_scheduled")
    /\ Stands(Repairs, 5, "comm_template_attachments")
    /\ Stands(Repairs, 9, "comm_history")
<1> DEFINE a == Rebuild("comm_scheduled")
           b == Rebuild("comm_template_attachments")
           c == Rebuild("comm_history")
           d == Then(a, b)
<1>1. Repairs = Then(d, c)
  BY DEF Repairs, Then
<1>2. {"comm_scheduled", "comm_template_attachments", "comm_history"} \subseteq DOMAIN Old
  BY DEF Old
<1>3. Is(a, 4) /\ Is(b, 4) /\ Is(c, 4)
  BY <1>2, RebuildIs
<1>4. Is(d, 4 + 4) /\ \A i \in 1..4 : d[i] = a[i] /\ d[4 + i] = b[i]
  BY <1>3, Joined
<1> HIDE DEF d
<1>5. Is(d, 8)
  BY <1>4
<1>6. /\ Is(Repairs, 8 + 4) /\ (\A i \in 1..8 : Repairs[i] = d[i])
      /\ \A i \in 1..4 : Repairs[8 + i] = c[i]
  BY <1>1, <1>3, <1>5, Joined
<1>7. /\ d[4 + 1] = b[1] /\ d[4 + 2] = b[2] /\ d[4 + 3] = b[3] /\ d[4 + 4] = b[4]
      /\ d[1] = a[1] /\ d[2] = a[2] /\ d[3] = a[3] /\ d[4] = a[4]
  BY <1>4
<1>8. /\ Repairs[1] = a[1] /\ Repairs[2] = a[2] /\ Repairs[3] = a[3] /\ Repairs[4] = a[4]
      /\ Repairs[5] = b[1] /\ Repairs[6] = b[2] /\ Repairs[7] = b[3] /\ Repairs[8] = b[4]
  <2> HIDE DEF a, b
  <2> QED
    BY <1>6, <1>7
<1>9. /\ Repairs[8 + 1] = c[1] /\ Repairs[8 + 2] = c[2]
      /\ Repairs[8 + 3] = c[3] /\ Repairs[8 + 4] = c[4]
  BY <1>6
<1> QED
  BY <1>2, <1>6, <1>8, <1>9, RebuildIs DEF Stands

LEMMA TakeIs ==
    ASSUME NEW t \in DOMAIN Sources
    PROVE  Is(<<<<"take", t>>>>, 1) /\ <<<<"take", t>>>>[1] = <<"take", t>>
<1>1. <<"take", t>> \in Op
  BY DEF Op
<1>2. \A a \in Op : Is(<<a>>, 1) /\ <<a>>[1] = a
  BY DEF Is
<1> QED
  BY <1>1, <1>2

LEMMA CommunicationsAre ==
    ASSUME NEW w, w = CommunicationSchema.work
    PROVE  /\ Is(w, 26)
           /\ Stands(w, 1, "comm_templates") /\ w[5] = <<"commit", "all">>
           /\ w[6] = <<"seed", "system">> /\ w[7] = <<"commit", "all">>
           /\ Stands(w, 8, "comm_scheduled") /\ Stands(w, 12, "comm_template_attachments")
           /\ Stands(w, 16, "comm_history") /\ w[20] = <<"commit", "all">>
           /\ w[21] = <<"take", "comm_templates">> /\ w[22] = <<"commit", "all">>
           /\ w[23] = <<"take", "comm_campaigns">> /\ w[24] = <<"commit", "all">>
           /\ w[25] = <<"take", "comm_history">> /\ w[26] = <<"commit", "all">>
<1> DEFINE w1 == Then(Rebuild("comm_templates"), Commit1)
           w2 == Then(w1, SystemText)
           w3 == Then(w2, Repairs)
           w4 == Then(w3, Commit1)
           k1 == <<<<"take", "comm_templates">>>>
           k2 == <<<<"take", "comm_campaigns">>>>
           k3 == <<<<"take", "comm_history">>>>
           w5 == Then(w4, k1)
           w6 == Then(w5, Commit1)
           w7 == Then(w6, k2)
           w8 == Then(w7, Commit1)
           w9 == Then(w8, k3)
<1>1. w = Then(w9, Commit1)
  BY DEF CommunicationSchema, Then
<1>2. /\ Is(k1, 1) /\ k1[1] = <<"take", "comm_templates">>
      /\ Is(k2, 1) /\ k2[1] = <<"take", "comm_campaigns">>
      /\ Is(k3, 1) /\ k3[1] = <<"take", "comm_history">>
  <2>1. {"comm_templates", "comm_campaigns", "comm_history"} \subseteq DOMAIN Sources
    BY DEF Sources
  <2> QED
    BY <2>1, TakeIs
<1>3. Is(w1, 5) /\ Stands(w1, 1, "comm_templates") /\ w1[5] = <<"commit", "all">>
  <2>1. "comm_templates" \in DOMAIN Old
    BY DEF Old
  <2> QED
    BY <2>1, OneRebuild DEF Stands
<1> HIDE DEF k1, k2, k3, w1
<1>4. Is(w2, 5 + 2) /\ (\A i \in 1..5 : w2[i] = w1[i]) /\ \A i \in 1..2 : w2[5 + i] = SystemText[i]
  BY <1>3, SystemTextIs, Joined
<1> HIDE DEF w2
<1>5. Is(w2, 7) /\ w2[6] = SystemText[1] /\ w2[7] = SystemText[2]
  <2>1. w2[5 + 1] = SystemText[1] /\ w2[5 + 2] = SystemText[2]
    BY <1>4
  <2> QED
    BY <1>4, <2>1
<1>6. Is(w3, 7 + 12) /\ (\A i \in 1..7 : w3[i] = w2[i]) /\ \A i \in 1..12 : w3[7 + i] = Repairs[i]
  BY <1>5, RepairsAre, Joined
<1> HIDE DEF w3
<1>7. Is(w3, 19)
  BY <1>6
<1>8. Is(w4, 19 + 1) /\ (\A i \in 1..19 : w4[i] = w3[i]) /\ \A i \in 1..1 : w4[19 + i] = Commit1[i]
  BY <1>7, CommitIs, Joined
<1> HIDE DEF w4
<1>9. Is(w4, 20) /\ w4[20] = Commit1[1]
  <2>1. w4[19 + 1] = Commit1[1]
    BY <1>8
  <2> QED
    BY <1>8, <2>1
<1>10. Is(w5, 20 + 1) /\ (\A i \in 1..20 : w5[i] = w4[i]) /\ \A i \in 1..1 : w5[20 + i] = k1[i]
  BY <1>9, <1>2, Joined
<1> HIDE DEF w5
<1>11. Is(w5, 21) /\ w5[21] = k1[1]
  <2>1. w5[20 + 1] = k1[1]
    BY <1>10
  <2> QED
    BY <1>10, <2>1
<1>12. Is(w6, 21 + 1) /\ (\A i \in 1..21 : w6[i] = w5[i]) /\ \A i \in 1..1 : w6[21 + i] = Commit1[i]
  BY <1>11, CommitIs, Joined
<1> HIDE DEF w6
<1>13. Is(w6, 22) /\ w6[22] = Commit1[1]
  <2>1. w6[21 + 1] = Commit1[1]
    BY <1>12
  <2> QED
    BY <1>12, <2>1
<1>14. Is(w7, 22 + 1) /\ (\A i \in 1..22 : w7[i] = w6[i]) /\ \A i \in 1..1 : w7[22 + i] = k2[i]
  BY <1>13, <1>2, Joined
<1> HIDE DEF w7
<1>15. Is(w7, 23) /\ w7[23] = k2[1]
  <2>1. w7[22 + 1] = k2[1]
    BY <1>14
  <2> QED
    BY <1>14, <2>1
<1>16. Is(w8, 23 + 1) /\ (\A i \in 1..23 : w8[i] = w7[i]) /\ \A i \in 1..1 : w8[23 + i] = Commit1[i]
  BY <1>15, CommitIs, Joined
<1> HIDE DEF w8
<1>17. Is(w8, 24) /\ w8[24] = Commit1[1]
  <2>1. w8[23 + 1] = Commit1[1]
    BY <1>16
  <2> QED
    BY <1>16, <2>1
<1>18. Is(w9, 24 + 1) /\ (\A i \in 1..24 : w9[i] = w8[i]) /\ \A i \in 1..1 : w9[24 + i] = k3[i]
  BY <1>17, <1>2, Joined
<1> HIDE DEF w9
<1>19. Is(w9, 25) /\ w9[25] = k3[1]
  <2>1. w9[24 + 1] = k3[1]
    BY <1>18
  <2> QED
    BY <1>18, <2>1
<1>20. Is(w, 25 + 1) /\ (\A i \in 1..25 : w[i] = w9[i]) /\ \A i \in 1..1 : w[25 + i] = Commit1[i]
  BY <1>1, <1>19, CommitIs, Joined
<1>21. Is(w, 26) /\ w[26] = Commit1[1]
  <2>1. w[25 + 1] = Commit1[1]
    BY <1>20
  <2> QED
    BY <1>20, <2>1
<1>22. /\ \A i \in 1..20 : w[i] = w4[i]
      /\ w[21] = k1[1] /\ w[22] = Commit1[1] /\ w[23] = k2[1] /\ w[24] = Commit1[1]
      /\ w[25] = k3[1] /\ w[26] = Commit1[1]
  BY <1>10, <1>11, <1>12, <1>13, <1>14, <1>15, <1>16, <1>17, <1>18, <1>19, <1>20, <1>21
<1>23. /\ \A i \in 1..5 : w[i] = w1[i]
      /\ w[6] = SystemText[1] /\ w[7] = SystemText[2]
      /\ \A i \in 1..12 : w[7 + i] = Repairs[i]
      /\ w[20] = Commit1[1]
  <2>1. \A i \in 1..19 : w[i] = w3[i]
    BY <1>8, <1>22
  <2>2. \A i \in 1..7 : w[i] = w2[i]
    BY <1>6, <2>1
  <2>3. \A i \in 1..12 : w[7 + i] = w3[7 + i]
    BY <2>1
  <2> QED
    BY <1>4, <1>5, <1>6, <1>9, <1>22, <2>2, <2>3
<1>24. Stands(w, 1, "comm_templates") /\ w[5] = <<"commit", "all">>
  BY <1>3, <1>23 DEF Stands
<1>25. /\ Stands(w, 8, "comm_scheduled") /\ Stands(w, 12, "comm_template_attachments")
      /\ Stands(w, 16, "comm_history")
  <2>1. /\ w[7 + 1] = Repairs[1] /\ w[7 + 2] = Repairs[2] /\ w[7 + 3] = Repairs[3]
        /\ w[7 + 4] = Repairs[4] /\ w[7 + 5] = Repairs[5] /\ w[7 + 6] = Repairs[6]
        /\ w[7 + 7] = Repairs[7] /\ w[7 + 8] = Repairs[8] /\ w[7 + 9] = Repairs[9]
        /\ w[7 + 10] = Repairs[10] /\ w[7 + 11] = Repairs[11] /\ w[7 + 12] = Repairs[12]
    BY <1>23
  <2> QED
    BY <2>1, RepairsAre DEF Stands
<1> QED
  BY <1>2, <1>21, <1>22, <1>23, <1>24, <1>25, CommitIs, SystemTextIs

Size(i) == Len(Steps[i].work)
Line(i, j) == Steps[i].work[j]

(* The steps of the bootstrap that have statements of their own.            *)
LEMMA StepsAre ==
    /\ Len(Steps) = 28
    /\ Steps[8] = ReferralSchema /\ Steps[10] = UserSchema /\ Steps[11] = PlanSchema
    /\ Steps[14] = CommunicationSchema /\ Steps[23] = SeedTexts /\ Steps[28] = UsageRiskTemplate
  BY DEF Steps

(* The others have none.                                                    *)
LEMMA Idle ==
    ASSUME NEW i \in (1..28) \ {8, 10, 11, 14, 23, 28}
    PROVE  Size(i) = 0
<1> DEFINE s == Steps[i]
<1>1. i \in {1, 2, 3, 4, 5, 6, 7, 9, 12, 13, 15, 16, 17, 18, 19, 20, 21, 22, 24, 25, 26, 27}
  OBVIOUS
<1>2. s \in {WelcomeSchema, StreamSchema, ImportMonitoringSchema, MigrationSchema, SchedulerMode,
             CoreSchema, UsageRiskSchema, ReferralEventSchema, SettingsSchema, DiscordSchema, GiftSchema,
             LiveSchema, HistorySchema, MediaJobsSchema, MediaTypes, QueryIndexes, SeedTasks,
             SeedWelcome, SeedMailTexts, BaseSettings, PlaintextSecrets, ScheduleDefaults}
  BY <1>1 DEF Steps
<1>3. \A x, y : Plain(x, y).work = <<>>
  BY DEF Plain
<1>4. s.work = <<>>
  <2> HIDE DEF s
  <2> QED
    BY <1>2, <1>3 DEF WelcomeSchema, StreamSchema, ImportMonitoringSchema, MigrationSchema,
        SchedulerMode, CoreSchema, UsageRiskSchema, ReferralEventSchema, SettingsSchema,
        DiscordSchema, GiftSchema, LiveSchema, HistorySchema, MediaJobsSchema, MediaTypes,
        QueryIndexes, SeedTasks, SeedWelcome, SeedMailTexts, BaseSettings, PlaintextSecrets,
        ScheduleDefaults
<1> QED
  BY <1>4 DEF Size

(* How many statements each has.                                            *)
LEMMA Sizes ==
    /\ Size(8) = 5 /\ Size(10) = 5 /\ Size(11) = 3 /\ Size(14) = 26 /\ Size(23) = 3 /\ Size(28) = 2
    /\ \A i \in 1..28 : Size(i) \in Nat
<1>1. Size(8) = 5 /\ Size(10) = 5
  <2>1. {"user_referrals", "vodum_users"} \subseteq DOMAIN Old
    BY DEF Old
  <2>2. /\ ReferralSchema.work = Then(Rebuild("user_referrals"), Commit1)
        /\ UserSchema.work = Then(Rebuild("vodum_users"), Commit1)
    BY DEF ReferralSchema, UserSchema, Then
  <2>3. Is(ReferralSchema.work, 5) /\ Is(UserSchema.work, 5)
    BY <2>1, <2>2, OneRebuild
  <2> QED
    BY <2>3, StepsAre DEF Size, Is
<1>2. Size(11) = 3 /\ Size(23) = 3
  <2>1. PlanSchema.work = SeedOnce("plans") /\ SeedTexts.work = SeedOnce("texts")
    BY DEF PlanSchema, SeedTexts
  <2>2. Is(PlanSchema.work, 3) /\ Is(SeedTexts.work, 3)
    BY <2>1, SeedOnceIs
  <2> QED
    BY <2>2, StepsAre DEF Size, Is
<1>3. Size(14) = 26
  BY CommunicationsAre, StepsAre DEF Size, Is
<1>4. Size(28) = 2
  BY SystemTextIs, StepsAre DEF Size, Is, UsageRiskTemplate
<1> QED
  BY <1>1, <1>2, <1>3, <1>4, Idle

RebuildAt == [user_referrals |-> <<8, 1>>, vodum_users |-> <<10, 1>>, comm_templates |-> <<14, 1>>,
              comm_scheduled |-> <<14, 8>>, comm_template_attachments |-> <<14, 12>>,
              comm_history |-> <<14, 16>>]

LEMMA OldIs ==
    DOMAIN Old = {"user_referrals", "vodum_users", "comm_templates", "comm_scheduled",
                  "comm_template_attachments", "comm_history"}
  BY DEF Old

LEMMA RebuildAtIs ==
    /\ RebuildAt["user_referrals"] = <<8, 1>> /\ RebuildAt["vodum_users"] = <<10, 1>>
    /\ RebuildAt["comm_templates"] = <<14, 1>> /\ RebuildAt["comm_scheduled"] = <<14, 8>>
    /\ RebuildAt["comm_template_attachments"] = <<14, 12>> /\ RebuildAt["comm_history"] = <<14, 16>>
  BY DEF RebuildAt

\* The statements of the bootstrap, by their places.
LEMMA Program ==
    /\ \A t \in DOMAIN Old : LET r == RebuildAt[t] IN
          /\ Line(r[1], r[2]) = <<"rename", t>> /\ Line(r[1], r[2] + 1) = <<"create", t>>
          /\ Line(r[1], r[2] + 2) = <<"copy", t>> /\ Line(r[1], r[2] + 3) = <<"drop", t>>
    /\ Line(8, 5) = <<"commit", "all">> /\ Line(10, 5) = <<"commit", "all">>
    /\ Line(11, 1) = <<"seed", "plans">> /\ Line(11, 2) = <<"mark", "plans">>
    /\ Line(11, 3) = <<"commit", "all">>
    /\ Line(14, 5) = <<"commit", "all">> /\ Line(14, 6) = <<"seed", "system">>
    /\ Line(14, 7) = <<"commit", "all">> /\ Line(14, 20) = <<"commit", "all">>
    /\ Line(14, 21) = <<"take", "comm_templates">> /\ Line(14, 22) = <<"commit", "all">>
    /\ Line(14, 23) = <<"take", "comm_campaigns">> /\ Line(14, 24) = <<"commit", "all">>
    /\ Line(14, 25) = <<"take", "comm_history">> /\ Line(14, 26) = <<"commit", "all">>
    /\ Line(23, 1) = <<"seed", "texts">> /\ Line(23, 2) = <<"mark", "texts">>
    /\ Line(23, 3) = <<"commit", "all">>
    /\ Line(28, 1) = <<"seed", "system">> /\ Line(28, 2) = <<"commit", "all">>
<1>1. /\ Stands(Steps[8].work, 1, "user_referrals") /\ Line(8, 5) = <<"commit", "all">>
      /\ Stands(Steps[10].work, 1, "vodum_users") /\ Line(10, 5) = <<"commit", "all">>
  <2>1. {"user_referrals", "vodum_users"} \subseteq DOMAIN Old
    BY DEF Old
  <2>2. /\ ReferralSchema.work = Then(Rebuild("user_referrals"), Commit1)
        /\ UserSchema.work = Then(Rebuild("vodum_users"), Commit1)
    BY DEF ReferralSchema, UserSchema, Then
  <2> QED
    BY <2>1, <2>2, OneRebuild, StepsAre DEF Line, Stands
<1>2. /\ Line(11, 1) = <<"seed", "plans">> /\ Line(11, 2) = <<"mark", "plans">>
      /\ Line(11, 3) = <<"commit", "all">>
      /\ Line(23, 1) = <<"seed", "texts">> /\ Line(23, 2) = <<"mark", "texts">>
      /\ Line(23, 3) = <<"commit", "all">>
  <2>1. PlanSchema.work = SeedOnce("plans") /\ SeedTexts.work = SeedOnce("texts")
    BY DEF PlanSchema, SeedTexts
  <2> QED
    BY <2>1, SeedOnceIs, StepsAre DEF Line
<1>3. Line(28, 1) = <<"seed", "system">> /\ Line(28, 2) = <<"commit", "all">>
  BY SystemTextIs, StepsAre DEF Line, UsageRiskTemplate
<1>4. /\ Stands(Steps[14].work, 1, "comm_templates") /\ Line(14, 5) = <<"commit", "all">>
      /\ Line(14, 6) = <<"seed", "system">> /\ Line(14, 7) = <<"commit", "all">>
      /\ Stands(Steps[14].work, 8, "comm_scheduled")
      /\ Stands(Steps[14].work, 12, "comm_template_attachments")
      /\ Stands(Steps[14].work, 16, "comm_history") /\ Line(14, 20) = <<"commit", "all">>
      /\ Line(14, 21) = <<"take", "comm_templates">> /\ Line(14, 22) = <<"commit", "all">>
      /\ Line(14, 23) = <<"take", "comm_campaigns">> /\ Line(14, 24) = <<"commit", "all">>
      /\ Line(14, 25) = <<"take", "comm_history">> /\ Line(14, 26) = <<"commit", "all">>
  BY CommunicationsAre, StepsAre DEF Line
<1>5. ASSUME NEW t \in DOMAIN Old
      PROVE  LET r == RebuildAt[t] IN
                /\ Line(r[1], r[2]) = <<"rename", t>> /\ Line(r[1], r[2] + 1) = <<"create", t>>
                /\ Line(r[1], r[2] + 2) = <<"copy", t>> /\ Line(r[1], r[2] + 3) = <<"drop", t>>
  <2>1. \A i, n : Stands(Steps[i].work, n, t) <=>
           /\ Line(i, n) = <<"rename", t>> /\ Line(i, n + 1) = <<"create", t>>
           /\ Line(i, n + 2) = <<"copy", t>> /\ Line(i, n + 3) = <<"drop", t>>
    BY DEF Stands, Line
  <2>2. Stands(Steps[RebuildAt[t][1]].work, RebuildAt[t][2], t)
    BY <1>1, <1>4, OldIs, RebuildAtIs
  <2> QED
    BY <2>1, <2>2
<1> QED
  BY <1>1, <1>2, <1>3, <1>4, <1>5

----------------------------------------------------------------------------
(***************************************************************************)
(* The inductive invariant of Upgrade.                                      *)
(***************************************************************************)

\* Every table that has a name.
Name == Table \cup {Old[t] : t \in DOMAIN Old} \cup {TablesSql[i] : i \in DOMAIN TablesSql}
        \cup {"users"} \cup Imported \cup MailOnly \cup Related \cup DOMAIN Old \cup DOMAIN Sources
Bundled == {"system", "plans", "texts"}
Content == [have : SUBSET Name, own : SUBSET Name, dated : SUBSET Upgraded,
            stray : SUBSET (Related \X Related), given : SUBSET Bundled, marked : SUBSET Bundled]
Entry == {"create", "look", "keep", "remove", "recreate", "import", "mend"}
Mishap == {"unimported", "refused", "failed", "killed"}

UpgradeType ==
    /\ db \in Content /\ disk \in Content
    /\ tx \in BOOLEAN /\ there \in BOOLEAN /\ import \in BOOLEAN
    /\ stage \in {"off", "boot", "serve"} \cup Entry
    /\ kept \in SUBSET Name /\ owned \in SUBSET Name
    /\ scars \in SUBSET (Mishap \cup {"swept", "served"})
    /\ deleted \in SUBSET {"plans", "texts"}
    /\ spare \in [kills : 0..MaxKills, faults : 0..MaxFaults]

\* Where a start is: at the first place, in the bootstrap, or past it.
AtInv ==
    /\ stage \notin {"boot", "serve"} => at = <<1, 0>>
    /\ stage = "boot" => at[1] \in 1..28 /\ at[2] \in 0..Size(at[1]) /\ at = <<at[1], at[2]>>
    /\ stage = "serve" => at = <<29, 0>>

Doing(op, t) == stage = "boot" /\ at[2] > 0 /\ Line(at[1], at[2]) = <<op, t>>

\* Outside a transaction everything is committed; no step of the bootstrap
\* begins in one, unless a statement has failed.
TxInv ==
    /\ ~tx => db = disk
    /\ stage # "boot" => ~tx
    /\ "failed" \notin scars /\ at[2] = 0 => ~tx

\* Rows of a table that is rebuilt, or anything an administrator did: this is
\* no database of version 1.
Settled ==  \/ owned \cap Upgraded # {} \/ "served" \in scars \/ deleted # {} \/ stage = "serve"

\* Which stages a database with the tables of VODUM, or without them, is at.
PathInv ==
    /\ stage \in {"import", "mend", "boot", "serve"} => "tasks" \in db.have
    /\ stage = "keep" => "tasks" \notin db.have
    /\ Settled => /\ "tasks" \in db.have \cap disk.have
                  /\ stage \notin {"keep", "remove", "recreate", "import"}

\* One of the tables that may hold t's rows does.
Held(t, d) == Places(t) \cap d.own # {}

\* No rows are gone, and a table is only dropped for one that has its rows.
RowsInv ==
    /\ \A t \in owned \cap Upgraded :
          \/ t = "user_referrals" /\ "swept" \in scars
          \/ Held(t, db) /\ Held(t, disk)
    /\ \A t \in Upgraded : Doing("drop", t) /\ Old[t] \in db.own => t \in db.own

\* The users of version 1 are in their table, or in the copy of the file.
UsersInv ==
    "users" \in owned =>
       /\ "users" \in kept \/ "users" \in db.own \cap disk.own
       /\ stage \in {"remove", "recreate", "import"} => "users" \in kept

Clean == scars \subseteq {"swept", "served"}

\* t is renamed and not yet filled again.
Moved(t) == Doing("create", t) \/ Doing("copy", t)
Serves(t) == (IF Moved(t) THEN Old[t] ELSE t) \in db.own

\* A start that nothing has happened to has the rows in the place that the
\* rest of the start reads them from, and takes the path that imports.
CleanInv ==
    Clean =>
      /\ \A t \in owned \cap {"vodum_users", "comm_templates"} : Serves(t)
      /\ "users" \in owned =>
            /\ stage # "create"
            /\ stage \in {"off", "look"} =>
                  /\ there
                  /\ \/ "users" \in db.own /\ "tasks" \notin db.have
                     \/ Serves("vodum_users") /\ "tasks" \in db.have
            /\ stage = "recreate" /\ ~there => "tasks" \notin db.have
            /\ stage \in {"import"} => there
            /\ stage \in {"mend", "boot", "serve"} => there /\ Serves("vodum_users")

\* This start has dealt with t.
Past(t) == LET r == RebuildAt[t] IN
    \/ stage = "serve"
    \/ stage = "boot" /\ (at[1] > r[1] \/ (at[1] = r[1] /\ at[2] > r[2] + 1))
Fresh(d) == d.dated = {} /\ \A c \in DOMAIN Old \ Upgraded : <<c, "comm_templates">> \notin d.stray

\* What a start is past is as the code wants it; and so is all of a database
\* that was served, in which no rebuild is half done.
FreshInv ==
    "failed" \notin scars =>
       /\ \A t \in DOMAIN Old : Past(t) => ~Outdated(t)
       /\ "served" \in scars =>
            /\ Fresh(db) /\ Fresh(disk) /\ disk.own \subseteq db.own
            /\ \A t \in DOMAIN Old : ~Doing("create", t) /\ ~Doing("copy", t) /\ ~Doing("drop", t)

\* A bundled row stands with its mark, or gets it in the same transaction; who
\* deletes it leaves the mark.
DeletedInv ==
    /\ \A k \in {"plans", "texts"} :
          /\ k \in db.given => k \in db.marked \/ Doing("mark", k)
          /\ Doing("mark", k) /\ k \notin db.marked => tx
          /\ k \in disk.given => k \in disk.marked
    /\ deleted \subseteq (db.marked \cap disk.marked) \ (db.given \cup disk.given)

\* What can stand at the place j of the program i.
LEMMA Lines ==
    ASSUME NEW i \in 1..28, NEW j \in 1..Size(i)
    PROVE  \/ \E t \in DOMAIN Old, k \in 0..3 :
                 i = RebuildAt[t][1] /\ j = RebuildAt[t][2] + k
           \/ Line(i, j) = <<"commit", "all">>
           \/ <<i, j>> \in {<<11, 1>>, <<11, 2>>, <<23, 1>>, <<23, 2>>, <<14, 6>>, <<28, 1>>,
                           <<14, 21>>, <<14, 23>>, <<14, 25>>}
<1>1. i \in {8, 10, 11, 14, 23, 28}
  BY Idle
<1>2. CASE i \in {8, 10}
  <2>1. j \in {1, 2, 3, 4, 5}
    BY <1>2, Sizes
  <2> QED
    BY <1>2, <2>1, Program, OldIs, RebuildAtIs
<1>3. CASE i \in {11, 23}
  <2>1. j \in {1, 2, 3}
    BY <1>3, Sizes
  <2> QED
    BY <1>3, <2>1, Program
<1>4. CASE i = 28
  <2>1. j \in {1, 2}
    BY <1>4, Sizes
  <2> QED
    BY <1>4, <2>1, Program
<1>5. CASE i = 14
  <2>1. j \in 1..26
    BY <1>5, Sizes
  <2>2. CASE j \in 1..4
    <3>1. j = RebuildAt["comm_templates"][2] + (j - 1) /\ j - 1 \in 0..3
      BY <2>2, RebuildAtIs
    <3> QED
      BY <1>5, <3>1, OldIs, RebuildAtIs
  <2>3. CASE j \in 8..11
    <3>1. j = RebuildAt["comm_scheduled"][2] + (j - 8) /\ j - 8 \in 0..3
      BY <2>3, RebuildAtIs
    <3> QED
      BY <1>5, <3>1, OldIs, RebuildAtIs
  <2>4. CASE j \in 12..15
    <3>1. j = RebuildAt["comm_template_attachments"][2] + (j - 12) /\ j - 12 \in 0..3
      BY <2>4, RebuildAtIs
    <3> QED
      BY <1>5, <3>1, OldIs, RebuildAtIs
  <2>5. CASE j \in 16..19
    <3>1. j = RebuildAt["comm_history"][2] + (j - 16) /\ j - 16 \in 0..3
      BY <2>5, RebuildAtIs
    <3> QED
      BY <1>5, <3>1, OldIs, RebuildAtIs
  <2>6. CASE j \in {5, 6, 7, 20, 21, 22, 23, 24, 25, 26}
    BY <1>5, <2>6, Program
  <2> QED
    BY <2>1, <2>2, <2>3, <2>4, <2>5, <2>6
<1> QED
  BY <1>1, <1>2, <1>3, <1>4, <1>5

LEMMA RebuildLines ==
    ASSUME NEW t \in DOMAIN Old, NEW k \in 0..3
    PROVE  LET r == RebuildAt[t] IN
           Line(r[1], r[2] + k) = <<IF k = 0 THEN "rename" ELSE IF k = 1 THEN "create"
                                    ELSE IF k = 2 THEN "copy" ELSE "drop", t>>
<1>1. RebuildAt[t][2] \in Nat /\ RebuildAt[t][2] + 0 = RebuildAt[t][2]
  BY OldIs, RebuildAtIs
<1>2. k \in {0, 1, 2, 3}
  OBVIOUS
<1> QED
  BY <1>1, <1>2, Program

Placed(i, j, op, t) ==
    /\ op = "rename" => t \in DOMAIN Old /\ i = RebuildAt[t][1] /\ j = RebuildAt[t][2]
    /\ op = "create" => t \in DOMAIN Old /\ i = RebuildAt[t][1] /\ j = RebuildAt[t][2] + 1
    /\ op = "copy" => t \in DOMAIN Old /\ i = RebuildAt[t][1] /\ j = RebuildAt[t][2] + 2
    /\ op = "drop" => t \in DOMAIN Old /\ i = RebuildAt[t][1] /\ j = RebuildAt[t][2] + 3
    /\ op = "seed" => <<i, j, t>> \in {<<11, 1, "plans">>, <<23, 1, "texts">>,
                                     <<14, 6, "system">>, <<28, 1, "system">>}
    /\ op = "mark" => <<i, j, t>> \in {<<11, 2, "plans">>, <<23, 2, "texts">>}
    /\ op = "take" => <<i, j, t>> \in {<<14, 21, "comm_templates">>,
                                     <<14, 23, "comm_campaigns">>, <<14, 25, "comm_history">>}

\* Where the statements of a kind stand.
LEMMA LinesOf ==
    ASSUME NEW i \in 1..28, NEW j \in 1..Size(i), NEW op, NEW t, Line(i, j) = <<op, t>>
    PROVE  Placed(i, j, op, t)
<1> USE DEF Placed
<1>1. CASE Line(i, j) = <<"commit", "all">>
  BY <1>1
<1>2. CASE <<i, j>> \in {<<11, 1>>, <<11, 2>>, <<23, 1>>, <<23, 2>>, <<14, 6>>, <<28, 1>>,
                        <<14, 21>>, <<14, 23>>, <<14, 25>>}
  BY <1>2, Program
<1>3. ASSUME NEW u \in DOMAIN Old, NEW k \in 0..3, i = RebuildAt[u][1], j = RebuildAt[u][2] + k
      PROVE  /\ t = u /\ op \in {"rename", "create", "copy", "drop"}
             /\ op = "rename" => k = 0
             /\ op = "create" => k = 1
             /\ op = "copy" => k = 2
             /\ op = "drop" => k = 3
  <2>1. Line(i, j) = <<IF k = 0 THEN "rename" ELSE IF k = 1 THEN "create"
                       ELSE IF k = 2 THEN "copy" ELSE "drop", u>>
    BY <1>3, RebuildLines
  <2>2. k \in {0, 1, 2, 3}
    OBVIOUS
  <2> QED
    BY <2>1, <2>2
<1>4. \A u \in DOMAIN Old : RebuildAt[u][2] \in Nat /\ RebuildAt[u][2] + 0 = RebuildAt[u][2]
  BY OldIs, RebuildAtIs
<1>5. CASE \E u \in DOMAIN Old, k \in 0..3 : i = RebuildAt[u][1] /\ j = RebuildAt[u][2] + k
  BY <1>3, <1>4, <1>5
<1> QED
  BY <1>1, <1>2, <1>5, Lines

----------------------------------------------------------------------------
(***************************************************************************)
(* Where each statement leaves the start.                                   *)
(***************************************************************************)

Quiet == stage = "boot" /\ at[2] > 0 => Line(at[1], at[2])[1] \in {"commit", "rename", "seed", "take"}

(* Behind the fourth statement of a rebuild stands a commit or another      *)
(* rebuild.                                                                 *)
LEMMA AfterRebuild ==
    ASSUME NEW t \in DOMAIN Old
    PROVE  LET r == RebuildAt[t] IN
           /\ r = <<r[1], r[2]>> /\ r[1] \in 1..27 /\ r[2] \in 1..16
           /\ r[2] + 4 <= Size(r[1])
           /\ Line(r[1], r[2] + 4)[1] \in {"commit", "rename"}
<1>1. CASE t \in {"user_referrals", "vodum_users"}
  BY <1>1, RebuildAtIs, Program, Sizes
<1>2. CASE t = "comm_templates"
  BY <1>2, RebuildAtIs, Program, Sizes
<1>3. CASE t = "comm_scheduled"
  <2>1. Line(14, 12) = <<"rename", "comm_template_attachments">>
    BY RebuildAtIs, Program, OldIs
  <2> QED
    BY <1>3, <2>1, RebuildAtIs, Sizes
<1>4. CASE t = "comm_template_attachments"
  <2>1. Line(14, 16) = <<"rename", "comm_history">>
    BY RebuildAtIs, Program, OldIs
  <2> QED
    BY <1>4, <2>1, RebuildAtIs, Sizes
<1>5. CASE t = "comm_history"
  BY <1>5, RebuildAtIs, Program, Sizes
<1> QED
  BY <1>1, <1>2, <1>3, <1>4, <1>5, OldIs

(* Where After leads: on in the program, to the next one, or to serving.    *)
LEMMA SkipsIs ==
    ASSUME AtInv, stage = "boot", NEW n \in Nat, Skips(n)
    PROVE  /\ at[1] \in 1..28 /\ at[2] \in 0..Size(at[1]) /\ Size(at[1]) \in Nat
           /\ at[2] + n <= Size(at[1]) => /\ at' = <<at[1], at[2] + n>> /\ stage' = "boot"
                                          /\ at'[1] = at[1] /\ at'[2] = at[2] + n
           /\ at[2] + n > Size(at[1]) => /\ at' = <<at[1] + 1, 0>> /\ at'[1] = at[1] + 1 /\ at'[2] = 0
                                         /\ stage' = IF at[1] = 28 THEN "serve" ELSE "boot"
<1>1. at[1] \in 1..28 /\ at[2] \in 0..Size(at[1]) /\ Size(at[1]) \in Nat
  BY Sizes DEF AtInv
<1>2. After(n) = IF at[2] + n <= Size(at[1]) THEN <<at[1], at[2] + n>> ELSE <<at[1] + 1, 0>>
  BY DEF After, Here, Size
<1>3. at' = After(n) /\ stage' = IF After(n)[1] > 28 THEN "serve" ELSE "boot"
  BY StepsAre DEF Skips
<1>4. CASE at[2] + n <= Size(at[1])
  <2>1. After(n) = <<at[1], at[2] + n>>
    BY <1>2, <1>4
  <2> QED
    BY <1>1, <1>3, <1>4, <2>1
<1>5. CASE ~(at[2] + n <= Size(at[1]))
  <2>1. After(n) = <<at[1] + 1, 0>>
    BY <1>2, <1>5
  <2> QED
    BY <1>1, <1>3, <1>5, <2>1
<1> QED
  BY <1>1, <1>4, <1>5

(* It stays within the programs.                                            *)
LEMMA SkipsType ==
    ASSUME AtInv, stage = "boot", NEW n \in Nat, Skips(n)
    PROVE  AtInv' /\ stage' \in {"boot", "serve"}
<1>1. CASE at[2] + n <= Size(at[1])
  BY <1>1, SkipsIs DEF AtInv
<1>2. CASE at[2] + n > Size(at[1])
  <2>1. \A i \in 1..28 : Size(i) \in Nat
    BY Sizes
  <2> QED
    BY <1>2, <2>1, SkipsIs DEF AtInv
<1>3. at[2] + n <= Size(at[1]) \/ at[2] + n > Size(at[1])
  BY SkipsIs
<1> QED
  BY <1>1, <1>2, <1>3

(* The statement that is next stands at the place of the start.             *)
LEMMA NowIs ==
    ASSUME AtInv, NEW op, Now(op)
    PROVE  /\ stage = "boot" /\ at[1] \in 1..28 /\ at[2] \in 1..Size(at[1])
           /\ Line(at[1], at[2])[1] = op /\ Line(at[1], at[2])[2] = What
  BY Sizes DEF AtInv, Now, What, Here, Line

LEMMA LinePair ==
    ASSUME NEW i \in 1..28, NEW j \in 1..Size(i)
    PROVE  Line(i, j) = <<Line(i, j)[1], Line(i, j)[2]>>
<1>1. ASSUME NEW t \in DOMAIN Old, NEW k \in 0..3, i = RebuildAt[t][1], j = RebuildAt[t][2] + k
      PROVE  Line(i, j) = <<Line(i, j)[1], Line(i, j)[2]>>
  BY <1>1, RebuildLines
<1>2. CASE <<i, j>> \in {<<11, 1>>, <<11, 2>>, <<23, 1>>, <<23, 2>>, <<14, 6>>, <<28, 1>>,
                        <<14, 21>>, <<14, 23>>, <<14, 25>>}
  BY <1>2, Program
<1> QED
  BY <1>1, <1>2, Lines

LEMMA NowDoing ==
    ASSUME AtInv, NEW op, Now(op)
    PROVE  Doing(op, What) /\ Line(at[1], at[2]) = <<op, What>>
  BY NowIs, LinePair DEF Doing

\* One statement further, nothing is past that was not, save what is created.
LEMMA OneFurther ==
    ASSUME AtInv, stage = "boot", stage' = "boot", at'[1] = at[1], at'[2] = at[2] + 1,
           NEW t \in DOMAIN Old, Past(t)', ~Past(t)
    PROVE  Doing("create", t)
<1> DEFINE r == RebuildAt[t]
<1>1. r[1] \in 1..27 /\ r[2] \in 1..16 /\ Line(r[1], r[2] + 1) = <<"create", t>>
  BY AfterRebuild, Program
<1>2. at[1] \in 1..28 /\ at[2] \in 0..Size(at[1]) /\ Size(at[1]) \in Nat
  BY Sizes DEF AtInv
<1> HIDE DEF r
<1>3. at[1] > r[1] \/ (at[1] = r[1] /\ at[2] + 1 > r[2] + 1)
  BY DEF Past, r
<1>4. ~(at[1] > r[1]) /\ ~(at[1] = r[1] /\ at[2] > r[2] + 1)
  BY DEF Past, r
<1>5. at[1] = r[1] /\ at[2] = r[2] + 1
  BY <1>1, <1>2, <1>3, <1>4
<1> QED
  BY <1>1, <1>2, <1>5 DEF Doing

(* From the end of a program, nothing is past that was not.                 *)
LEMMA NextProgram ==
    ASSUME AtInv, stage = "boot", at'[1] = at[1] + 1, at'[2] = 0, at[2] = Size(at[1]),
           stage' = (IF at[1] = 28 THEN "serve" ELSE "boot"),
           NEW t \in DOMAIN Old, Past(t)'
    PROVE  Past(t)
<1> DEFINE r == RebuildAt[t]
<1>1. r[1] \in 1..27 /\ r[2] \in 1..16 /\ r[2] + 4 <= Size(r[1])
  BY AfterRebuild
<1>2. at[1] \in 1..28 /\ Size(at[1]) \in Nat
  BY Sizes DEF AtInv
<1> HIDE DEF r
<1>3. at[1] = 28 \/ (at[1] + 1 > r[1] \/ (at[1] + 1 = r[1] /\ 0 > r[2] + 1))
  BY DEF Past, r
<1>4. at[1] >= r[1]
  BY <1>1, <1>2, <1>3
<1>5. at[1] > r[1] \/ (at[1] = r[1] /\ at[2] > r[2] + 1)
  BY <1>1, <1>2, <1>4
<1> QED
  BY <1>5 DEF Past, r

(* A statement of a rebuild has the rest of the rebuild and one more behind *)
(* it.                                                                      *)
LEMMA RebuildMoves ==
    ASSUME AtInv, NEW k \in 0..3,
           Now(IF k = 0 THEN "rename" ELSE IF k = 1 THEN "create" ELSE IF k = 2 THEN "copy" ELSE "drop")
    PROVE  /\ What \in DOMAIN Old /\ at[1] = RebuildAt[What][1] /\ at[2] = RebuildAt[What][2] + k
           /\ at[1] \in 1..27 /\ at[2] + 4 - k <= Size(at[1])
           /\ stage = "boot" /\ RebuildAt[What][2] \in 1..16
<1> DEFINE op == IF k = 0 THEN "rename" ELSE IF k = 1 THEN "create" ELSE IF k = 2 THEN "copy" ELSE "drop"
<1>1. /\ stage = "boot" /\ at[1] \in 1..28 /\ at[2] \in 1..Size(at[1])
      /\ Line(at[1], at[2]) = <<op, What>>
  BY NowIs, NowDoing
<1>2. k \in {0, 1, 2, 3}
  OBVIOUS
<1>3. What \in DOMAIN Old /\ at[1] = RebuildAt[What][1]
      /\ at[2] = (IF k = 0 THEN RebuildAt[What][2] ELSE RebuildAt[What][2] + k)
  <2> DEFINE w == What
             i == at[1]
             j == at[2]
  <2>0. i \in 1..28 /\ j \in 1..Size(i)
    BY <1>1
  <2>1. Line(i, j) = <<op, w>>
    BY <1>1
  <2> HIDE DEF op, w, i, j
  <2>2. Placed(i, j, op, w)
    BY <2>0, <2>1, LinesOf
  <2>3. CASE k = 0
    <3>1. op = "rename"
      BY <2>3 DEF op
    <3> QED
      BY <2>2, <2>3, <3>1 DEF Placed, w, i, j
  <2>4. CASE k = 1
    <3>1. op = "create"
      BY <2>4 DEF op
    <3> QED
      BY <2>2, <2>4, <3>1 DEF Placed, w, i, j
  <2>5. CASE k = 2
    <3>1. op = "copy"
      BY <2>5 DEF op
    <3> QED
      BY <2>2, <2>5, <3>1 DEF Placed, w, i, j
  <2>6. CASE k = 3
    <3>1. op = "drop"
      BY <2>6 DEF op
    <3> QED
      BY <2>2, <2>6, <3>1 DEF Placed, w, i, j
  <2> QED
    BY <1>2, <2>3, <2>4, <2>5, <2>6
<1>4. RebuildAt[What][1] \in 1..27 /\ RebuildAt[What][2] \in 1..16
      /\ RebuildAt[What][2] + 4 <= Size(RebuildAt[What][1])
  BY <1>3, AfterRebuild
<1>5. at[2] = RebuildAt[What][2] + k
  BY <1>2, <1>3, <1>4
<1>6. at[2] + 4 - k <= Size(at[1])
  <2>1. Size(at[1]) \in Nat
    BY Sizes, <1>1
  <2> QED
    BY <1>2, <1>3, <1>4, <1>5, <2>1
<1> QED
  BY <1>1, <1>3, <1>4, <1>5, <1>6

LEMMA RenameMoves ==
    ASSUME AtInv, Now("rename"), Skips(1)
    PROVE  /\ What \in DOMAIN Old /\ Doing("rename", What)
           /\ \A o, t : Doing(o, t)' <=> o = "create" /\ t = What
           /\ AtInv' /\ stage' = "boot" /\ at'[2] > 0
           /\ \A t \in DOMAIN Old : Past(t)' => Past(t)
<1>1. /\ What \in DOMAIN Old /\ at[1] = RebuildAt[What][1] /\ at[2] = RebuildAt[What][2] + 0
      /\ at[1] \in 1..27 /\ at[2] + 4 - 0 <= Size(at[1])
      /\ stage = "boot" /\ RebuildAt[What][2] \in 1..16
  <2>1. 0 \in 0..3
    OBVIOUS
  <2> QED
    BY <2>1, RebuildMoves
<1>2. at'[1] = at[1] /\ at'[2] = at[2] + 1 /\ stage' = "boot"
  BY <1>1, SkipsIs
<1>3. Line(at'[1], at'[2]) = <<"create", What>>
  BY <1>1, <1>2, Program
<1>4. (\A o, t : Doing(o, t)' <=> o = "create" /\ t = What) /\ at'[2] > 0
  <2>1. at'[2] > 0
    BY <1>1, <1>2
  <2> QED
    BY <1>2, <1>3, <2>1 DEF Doing
<1>5. Doing("rename", What)
  BY NowDoing
<1>6. ASSUME NEW t \in DOMAIN Old, Past(t)' PROVE Past(t)
  <2>1. ~Doing("create", t)
    BY <1>5 DEF Doing
  <2> QED
    BY <1>1, <1>2, <1>6, <2>1, OneFurther
<1> QED
  BY <1>1, <1>2, <1>4, <1>5, <1>6, SkipsType

LEMMA CreateMoves ==
    ASSUME AtInv, Now("create"), Skips(1)
    PROVE  /\ What \in DOMAIN Old /\ Doing("create", What)
           /\ \A o, t : Doing(o, t)' <=> o = "copy" /\ t = What
           /\ AtInv' /\ stage' = "boot" /\ at'[2] > 0
           /\ \A t \in DOMAIN Old : Past(t)' => Past(t) \/ t = What
<1>1. /\ What \in DOMAIN Old /\ at[1] = RebuildAt[What][1] /\ at[2] = RebuildAt[What][2] + 1
      /\ at[1] \in 1..27 /\ at[2] + 4 - 1 <= Size(at[1])
      /\ stage = "boot" /\ RebuildAt[What][2] \in 1..16
  <2>1. 1 \in 0..3
    OBVIOUS
  <2> QED
    BY <2>1, RebuildMoves
<1>2. at'[1] = at[1] /\ at'[2] = at[2] + 1 /\ stage' = "boot"
  BY <1>1, SkipsIs
<1>3. Line(at'[1], at'[2]) = <<"copy", What>>
  <2>1. at'[2] = RebuildAt[What][2] + 2
    BY <1>1, <1>2
  <2> QED
    BY <1>1, <1>2, <2>1, Program
<1>4. (\A o, t : Doing(o, t)' <=> o = "copy" /\ t = What) /\ at'[2] > 0
  <2>1. at'[2] > 0
    BY <1>1, <1>2
  <2> QED
    BY <1>2, <1>3, <2>1 DEF Doing
<1>5. Doing("create", What)
  BY NowDoing
<1>6. ASSUME NEW t \in DOMAIN Old, Past(t)' PROVE Past(t) \/ t = What
  <2>1. CASE t # What
    <3>1. ~Doing("create", t)
      BY <1>5, <2>1 DEF Doing
    <3> QED
      BY <1>1, <1>2, <1>6, <3>1, OneFurther
  <2> QED
    BY <2>1
<1> QED
  BY <1>1, <1>2, <1>4, <1>5, <1>6, SkipsType

LEMMA CopyMoves ==
    ASSUME AtInv, Now("copy"), Skips(1)
    PROVE  /\ What \in DOMAIN Old /\ Doing("copy", What)
           /\ \A o, t : Doing(o, t)' <=> o = "drop" /\ t = What
           /\ AtInv' /\ stage' = "boot" /\ at'[2] > 0
           /\ \A t \in DOMAIN Old : Past(t)' => Past(t)
<1>1. /\ What \in DOMAIN Old /\ at[1] = RebuildAt[What][1] /\ at[2] = RebuildAt[What][2] + 2
      /\ at[1] \in 1..27 /\ at[2] + 4 - 2 <= Size(at[1])
      /\ stage = "boot" /\ RebuildAt[What][2] \in 1..16
  <2>1. 2 \in 0..3
    OBVIOUS
  <2> QED
    BY <2>1, RebuildMoves
<1>2. at'[1] = at[1] /\ at'[2] = at[2] + 1 /\ stage' = "boot"
  BY <1>1, SkipsIs
<1>3. Line(at'[1], at'[2]) = <<"drop", What>>
  <2>1. at'[2] = RebuildAt[What][2] + 3
    BY <1>1, <1>2
  <2> QED
    BY <1>1, <1>2, <2>1, Program
<1>4. (\A o, t : Doing(o, t)' <=> o = "drop" /\ t = What) /\ at'[2] > 0
  <2>1. at'[2] > 0
    BY <1>1, <1>2
  <2> QED
    BY <1>2, <1>3, <2>1 DEF Doing
<1>5. Doing("copy", What)
  BY NowDoing
<1>6. ASSUME NEW t \in DOMAIN Old, Past(t)' PROVE Past(t)
  <2>1. ~Doing("create", t)
    BY <1>5 DEF Doing
  <2> QED
    BY <1>1, <1>2, <1>6, <2>1, OneFurther
<1> QED
  BY <1>1, <1>2, <1>4, <1>5, <1>6, SkipsType

LEMMA DropMoves ==
    ASSUME AtInv, Now("drop"), Skips(1)
    PROVE  /\ What \in DOMAIN Old /\ Doing("drop", What) /\ Quiet'
           /\ AtInv' /\ stage' = "boot" /\ at'[2] > 0
           /\ \A t \in DOMAIN Old : Past(t)' => Past(t)
<1>1. /\ What \in DOMAIN Old /\ at[1] = RebuildAt[What][1] /\ at[2] = RebuildAt[What][2] + 3
      /\ at[1] \in 1..27 /\ at[2] + 4 - 3 <= Size(at[1])
      /\ stage = "boot" /\ RebuildAt[What][2] \in 1..16
  <2>1. 3 \in 0..3
    OBVIOUS
  <2> QED
    BY <2>1, RebuildMoves
<1>2. at'[1] = at[1] /\ at'[2] = at[2] + 1 /\ stage' = "boot"
  BY <1>1, SkipsIs
<1>3. Line(at'[1], at'[2])[1] \in {"commit", "rename"}
  <2>1. at'[2] = RebuildAt[What][2] + 4
    BY <1>1, <1>2
  <2> QED
    BY <1>1, <1>2, <2>1, AfterRebuild
<1>4. Quiet' /\ at'[2] > 0
  BY <1>1, <1>2, <1>3 DEF Quiet
<1>5. Doing("drop", What)
  BY NowDoing
<1>6. ASSUME NEW t \in DOMAIN Old, Past(t)' PROVE Past(t)
  <2>1. ~Doing("create", t)
    BY <1>5 DEF Doing
  <2> QED
    BY <1>1, <1>2, <1>6, <2>1, OneFurther
<1> QED
  BY <1>1, <1>2, <1>4, <1>5, <1>6, SkipsType

LEMMA UpToDateMoves ==
    ASSUME AtInv, Now("rename"), Skips(4)
    PROVE  /\ What \in DOMAIN Old /\ Doing("rename", What) /\ Quiet'
           /\ AtInv' /\ stage' = "boot" /\ at'[2] > 0
           /\ \A t \in DOMAIN Old : Past(t)' => Past(t) \/ t = What
<1>1. /\ What \in DOMAIN Old /\ at[1] = RebuildAt[What][1] /\ at[2] = RebuildAt[What][2] + 0
      /\ at[1] \in 1..27 /\ at[2] + 4 - 0 <= Size(at[1])
      /\ stage = "boot" /\ RebuildAt[What][2] \in 1..16
  <2>1. 0 \in 0..3
    OBVIOUS
  <2> QED
    BY <2>1, RebuildMoves
<1>2. at'[1] = at[1] /\ at'[2] = at[2] + 4 /\ stage' = "boot"
  BY <1>1, SkipsIs
<1>3. Line(at'[1], at'[2])[1] \in {"commit", "rename"}
  <2>1. at'[2] = RebuildAt[What][2] + 4
    BY <1>1, <1>2
  <2> QED
    BY <1>1, <1>2, <2>1, AfterRebuild
<1>4. Quiet' /\ at'[2] > 0
  BY <1>1, <1>2, <1>3 DEF Quiet
<1>5. Doing("rename", What)
  BY NowDoing
<1>6. ASSUME NEW t \in DOMAIN Old, Past(t)', t # What PROVE Past(t)
  <2>1. \/ at[1] > RebuildAt[t][1]
        \/ at[1] = RebuildAt[t][1] /\ RebuildAt[What][2] + 4 > RebuildAt[t][2] + 1
    BY <1>1, <1>2, <1>6 DEF Past
  <2>2. /\ RebuildAt[t][1] = RebuildAt[What][1] /\ RebuildAt[t][2] # RebuildAt[What][2] =>
           \/ RebuildAt[t][2] + 1 < RebuildAt[What][2]
           \/ RebuildAt[t][2] + 1 >= RebuildAt[What][2] + 4
        /\ RebuildAt[t][1] # RebuildAt[What][1] \/ RebuildAt[t][2] # RebuildAt[What][2]
    BY <1>1, <1>6, OldIs, RebuildAtIs
  <2>3. RebuildAt[t][1] \in 1..27 /\ RebuildAt[t][2] \in 1..16
    BY AfterRebuild
  <2> QED
    BY <1>1, <2>1, <2>2, <2>3 DEF Past
<1> QED
  BY <1>1, <1>2, <1>4, <1>5, <1>6, SkipsType

(* The middle of a rebuild, and a mark, follow statements of their own kind *)
(* only.                                                                    *)
LEMMA BeforeMiddle ==
    ASSUME NEW i \in 1..28, NEW j \in 0..Size(i), j + 1 <= Size(i)
    PROVE  \/ Line(i, j + 1)[1] \in {"commit", "rename", "seed", "take"}
           \/ j \in 1..Size(i) /\ Line(i, j)[1] \in {"rename", "create", "copy", "seed"}
<1> DEFINE n == j + 1
<1>1. Size(i) \in Nat /\ n \in 1..Size(i) /\ n = j + 1 /\ j \in Nat
  <2>1. Size(i) \in Nat
    BY Sizes
  <2> QED
    BY <2>1
<1> HIDE DEF n
<1>2. CASE Line(i, n) = <<"commit", "all">>
  BY <1>1, <1>2
<1>3. CASE <<i, n>> \in {<<11, 1>>, <<11, 2>>, <<23, 1>>, <<23, 2>>, <<14, 6>>, <<28, 1>>,
                        <<14, 21>>, <<14, 23>>, <<14, 25>>}
  <2>1. CASE <<i, n>> \in {<<11, 2>>, <<23, 2>>}
    <3>1. j = 1 /\ i \in {11, 23}
      BY <1>1, <2>1
    <3>2. Line(i, j)[1] = "seed"
      BY <3>1, Program
    <3> QED
      BY <3>1, <3>2, Sizes
  <2>2. CASE <<i, n>> \in {<<11, 1>>, <<23, 1>>, <<14, 6>>, <<28, 1>>, <<14, 21>>, <<14, 23>>, <<14, 25>>}
    <3>1. Line(i, n)[1] \in {"seed", "take"}
      BY <2>2, Program
    <3> QED
      BY <3>1, <1>1
  <2> QED
    BY <1>3, <2>1, <2>2
<1>4. ASSUME NEW t \in DOMAIN Old, NEW k \in 0..3, i = RebuildAt[t][1], n = RebuildAt[t][2] + k
      PROVE  \/ Line(i, n)[1] = "rename"
             \/ j \in 1..Size(i) /\ Line(i, j)[1] \in {"rename", "create", "copy"}
  <2>1. RebuildAt[t][2] \in 1..16
    BY AfterRebuild
  <2>2. CASE k = 0
    <3>1. Line(i, n) = <<"rename", t>>
      BY <1>4, <2>1, <2>2, Program
    <3> QED
      BY <3>1
  <2>3. CASE k # 0
    <3> DEFINE m == k - 1
    <3>1. m \in 0..3 /\ j = RebuildAt[t][2] + m /\ m < 3 /\ j \in 1..Size(i)
      BY <1>1, <1>4, <2>1, <2>3
    <3> HIDE DEF m
    <3>2. Line(i, j) = <<IF m = 0 THEN "rename" ELSE IF m = 1 THEN "create"
                         ELSE IF m = 2 THEN "copy" ELSE "drop", t>>
      BY <1>4, <3>1, RebuildLines
    <3>3. m \in {0, 1, 2}
      BY <3>1
    <3>4. Line(i, j)[1] \in {"rename", "create", "copy"}
      BY <3>2, <3>3
    <3> QED
      BY <3>1, <3>4
  <2> QED
    BY <2>2, <2>3
<1>5. CASE \E t \in DOMAIN Old, k \in 0..3 : i = RebuildAt[t][1] /\ n = RebuildAt[t][2] + k
  BY <1>1, <1>4, <1>5
<1> QED
  BY <1>1, <1>2, <1>3, <1>5, Lines

LEMMA PlainMoves ==
    ASSUME AtInv, stage = "boot", Skips(1),
           at[2] = 0 \/ Line(at[1], at[2])[1] \in {"commit", "mark", "take"}
    PROVE  /\ AtInv' /\ Quiet' /\ stage' \in {"boot", "serve"}
           /\ \A t \in DOMAIN Old : Past(t)' => Past(t)
<1>1. at[1] \in 1..28 /\ at[2] \in 0..Size(at[1]) /\ Size(at[1]) \in Nat
  BY SkipsIs
<1>2. AtInv' /\ stage' \in {"boot", "serve"}
  BY SkipsType
<1>3. CASE at[2] + 1 <= Size(at[1])
  <2>1. at'[1] = at[1] /\ at'[2] = at[2] + 1 /\ stage' = "boot"
    BY <1>3, SkipsIs
  <2>2. Line(at'[1], at'[2])[1] \in {"commit", "rename", "seed", "take"}
    <3> DEFINE i == at[1]
               j == at[2]
    <3>1. i \in 1..28 /\ j \in 0..Size(i) /\ j + 1 <= Size(i)
      BY <1>1, <1>3
    <3>2. j = 0 \/ Line(i, j)[1] \in {"commit", "mark", "take"}
      BY <1>1
    <3> HIDE DEF i, j
    <3>3. \/ Line(i, j + 1)[1] \in {"commit", "rename", "seed", "take"}
          \/ j \in 1..Size(i) /\ Line(i, j)[1] \in {"rename", "create", "copy", "seed"}
      BY <3>1, BeforeMiddle
    <3>4. j # 0 => ~(Line(i, j)[1] \in {"rename", "create", "copy", "seed"})
      BY <3>2
    <3>5. j \in 1..Size(i) => j # 0
      OBVIOUS
    <3>6. Line(i, j + 1)[1] \in {"commit", "rename", "seed", "take"}
      BY <3>3, <3>4, <3>5
    <3> QED
      BY <2>1, <3>6 DEF i, j
  <2>3. ASSUME NEW t \in DOMAIN Old, Past(t)' PROVE Past(t)
    <3>1. ~Doing("create", t)
      BY DEF Doing
    <3> QED
      BY <2>1, <2>3, <3>1, OneFurther
  <2> QED
    BY <1>2, <2>2, <2>3 DEF Quiet
<1>4. CASE at[2] + 1 > Size(at[1])
  <2>1. at[2] = Size(at[1]) /\ at'[1] = at[1] + 1 /\ at'[2] = 0
        /\ stage' = (IF at[1] = 28 THEN "serve" ELSE "boot")
    BY <1>1, <1>4, SkipsIs
  <2>2. \A t \in DOMAIN Old : Past(t)' => Past(t)
    BY <2>1, NextProgram
  <2> QED
    BY <1>2, <2>1, <2>2 DEF Quiet
<1> QED
  BY <1>1, <1>3, <1>4

\* The places of seeds, marks, and takes.
LEMMA OtherLines ==
    ASSUME AtInv, NEW op \in {"seed", "mark", "take"}, Now(op)
    PROVE  /\ stage = "boot" /\ Doing(op, What)
           /\ op = "seed" => <<at[1], at[2], What>> \in {<<11, 1, "plans">>, <<23, 1, "texts">>,
                                                     <<14, 6, "system">>, <<28, 1, "system">>}
           /\ op = "mark" => <<at[1], at[2], What>> \in {<<11, 2, "plans">>, <<23, 2, "texts">>}
           /\ op = "take" => <<at[1], at[2], What>> \in {<<14, 21, "comm_templates">>,
                                        <<14, 23, "comm_campaigns">>, <<14, 25, "comm_history">>}
           /\ at[2] + 1 <= Size(at[1])
<1> DEFINE i == at[1]
           j == at[2]
           w == What
<1>1. i \in 1..28 /\ j \in 1..Size(i) /\ Line(i, j) = <<op, w>>
  BY NowIs, NowDoing
<1> HIDE DEF i, j, w
<1>2. /\ op = "seed" => <<i, j, w>> \in {<<11, 1, "plans">>, <<23, 1, "texts">>,
                                       <<14, 6, "system">>, <<28, 1, "system">>}
      /\ op = "mark" => <<i, j, w>> \in {<<11, 2, "plans">>, <<23, 2, "texts">>}
      /\ op = "take" => <<i, j, w>> \in {<<14, 21, "comm_templates">>,
                                       <<14, 23, "comm_campaigns">>, <<14, 25, "comm_history">>}
  <2>1. Placed(i, j, op, w)
    BY <1>1, LinesOf
  <2> QED
    BY <2>1 DEF Placed
<1>3. j + 1 <= Size(i)
  BY <1>2, Sizes
<1> QED
  BY <1>2, <1>3, NowDoing DEF i, j, w, Now

LEMMA LaterMoves ==
    ASSUME AtInv, NEW op \in {"mark", "take"}, Now(op), Skips(1)
    PROVE  /\ AtInv' /\ Quiet' /\ stage' = "boot" /\ at'[2] > 0
           /\ \A t \in DOMAIN Old : Past(t)' => Past(t)
<1>1. stage = "boot" /\ at[2] + 1 <= Size(at[1]) /\ Line(at[1], at[2])[1] = op
  BY OtherLines, NowIs
<1>2. AtInv' /\ Quiet' /\ \A t \in DOMAIN Old : Past(t)' => Past(t)
  BY <1>1, PlainMoves
<1>3. at'[2] = at[2] + 1 /\ stage' = "boot" /\ at[2] \in Nat
  BY <1>1, SkipsIs
<1> QED
  BY <1>2, <1>3

LEMMA SeedMoves ==
    ASSUME AtInv, Now("seed"), Skips(1)
    PROVE  /\ AtInv' /\ stage' = "boot" /\ at'[2] > 0 /\ Doing("seed", What)
           /\ \/ What = "system" /\ Quiet'
              \/ What \in {"plans", "texts"} /\ \A o, k : Doing(o, k)' <=> o = "mark" /\ k = What
           /\ \A t \in DOMAIN Old : Past(t)' => Past(t)
<1>1. /\ stage = "boot" /\ Doing("seed", What) /\ at[2] + 1 <= Size(at[1])
      /\ <<at[1], at[2], What>> \in {<<11, 1, "plans">>, <<23, 1, "texts">>,
                                    <<14, 6, "system">>, <<28, 1, "system">>}
  BY OtherLines
<1>2. at'[1] = at[1] /\ at'[2] = at[2] + 1 /\ stage' = "boot"
  BY <1>1, SkipsIs
<1>3. ASSUME What = "system" PROVE Quiet'
  <2>1. Line(at'[1], at'[2])[1] = "commit"
    BY <1>1, <1>2, <1>3, Program
  <2> QED
    BY <1>3, <2>1 DEF Quiet
<1>4. ASSUME What \in {"plans", "texts"} PROVE \A o, k : Doing(o, k)' <=> o = "mark" /\ k = What
  <2>1. Line(at'[1], at'[2]) = <<"mark", What>> /\ at'[2] = 2
    BY <1>1, <1>2, <1>4, Program
  <2> QED
    BY <1>2, <1>4, <2>1 DEF Doing
<1>5. What = "system" \/ What \in {"plans", "texts"}
  BY <1>1
<1>6. ASSUME NEW t \in DOMAIN Old, Past(t)' PROVE Past(t)
  <2>1. ~Doing("create", t)
    BY <1>1 DEF Doing
  <2> QED
    BY <1>1, <1>2, <1>6, <2>1, OneFurther
<1>7. at'[2] > 0
  BY <1>1, <1>2
<1> QED
  BY <1>1, <1>2, <1>3, <1>4, <1>5, <1>6, <1>7, SkipsType

LEMMA TakeFailsMoves ==
    ASSUME AtInv, Now("take"), Skips(Len(Here.work) - at[2] + 1)
    PROVE  AtInv' /\ Quiet' /\ stage' = "boot"
<1> DEFINE n == Size(at[1]) - at[2] + 1
<1>1. stage = "boot" /\ at[1] = 14 /\ at[2] \in {21, 23, 25}
  BY OtherLines
<1>2. Skips(n) /\ n \in Nat /\ at[2] + n = 27 /\ Size(at[1]) = 26
  <2>1. Skips(n)
    BY DEF Size, Here
  <2>2. Size(at[1]) = 26
    BY <1>1, Sizes
  <2>3. n \in Nat /\ at[2] + n = 27
    BY <1>1, <2>2
  <2> QED
    BY <2>1, <2>2, <2>3
<1> HIDE DEF n
<1>3. at'[2] = 0 /\ stage' = "boot"
  <2>1. at[2] + n > Size(at[1])
    BY <1>2
  <2>2. at'[2] = 0 /\ stage' = IF at[1] = 28 THEN "serve" ELSE "boot"
    BY <1>1, <1>2, <2>1, SkipsIs
  <2> QED
    BY <1>1, <2>2
<1>4. AtInv'
  BY <1>1, <1>2, SkipsType
<1> QED
  BY <1>3, <1>4 DEF Quiet

LEMMA RebuildFailsMoves ==
    ASSUME AtInv, \E op \in {"rename", "create", "copy", "drop"} : Now(op),
           What = "user_referrals", Skips(Len(Here.work) - at[2])
    PROVE  AtInv' /\ Quiet' /\ stage' = "boot" /\ at'[2] > 0
<1> DEFINE n == Size(at[1]) - at[2]
<1>1. stage = "boot" /\ at[1] = 8 /\ at[2] \in 1..4
  <2>1. PICK k \in 0..3 : Now(IF k = 0 THEN "rename" ELSE IF k = 1 THEN "create" ELSE IF k = 2 THEN "copy" ELSE "drop")
    <3>1. 0 \in 0..3 /\ 1 \in 0..3 /\ 2 \in 0..3 /\ 3 \in 0..3
      OBVIOUS
    <3>2. CASE Now("rename")
      BY <3>1, <3>2
    <3>3. CASE Now("create")
      BY <3>1, <3>3
    <3>4. CASE Now("copy")
      BY <3>1, <3>4
    <3>5. CASE Now("drop")
      BY <3>1, <3>5
    <3> QED
      BY <3>2, <3>3, <3>4, <3>5
  <2>2. stage = "boot" /\ at[1] = RebuildAt[What][1] /\ at[2] = RebuildAt[What][2] + k
    BY <2>1, RebuildMoves
  <2> QED
    BY <2>2, RebuildAtIs
<1>2. Skips(n) /\ n \in Nat /\ at[2] + n = 5 /\ Size(at[1]) = 5
  <2>1. Skips(n)
    BY DEF Size, Here
  <2>2. Size(at[1]) = 5
    BY <1>1, Sizes
  <2>3. n \in Nat /\ at[2] + n = 5
    BY <1>1, <2>2
  <2> QED
    BY <2>1, <2>2, <2>3
<1> HIDE DEF n
<1>3. at'[1] = 8 /\ at'[2] = 5 /\ stage' = "boot"
  <2>1. at[2] + n <= Size(at[1])
    BY <1>2
  <2> QED
    BY <1>1, <1>2, <2>1, SkipsIs
<1>4. AtInv'
  BY <1>1, <1>2, SkipsType
<1> QED
  BY <1>3, <1>4, Program DEF Quiet

----------------------------------------------------------------------------
(***************************************************************************)
(* Kinds of step, by what they do to the database; each action is one.      *)
(***************************************************************************)

\* Nothing is written.
Reading ==
    /\ db' = db /\ disk' = disk /\ tx' = tx
    /\ Quiet' /\ stage' # "serve" /\ (stage = "boot" => stage' = "boot")
    /\ (at'[2] = 0 => at[2] = 0 \/ "failed" \in scars')
    /\ scars \subseteq scars' /\ scars' \subseteq scars \cup {"failed"} /\ deleted' = deleted
    /\ "failed" \in scars' \/ \A t \in DOMAIN Old : ~Moved(t) /\ (Past(t)' => Past(t) \/ ~Outdated(t))
    /\ \A k : Doing("mark", k) => k \in db.marked

\* Tables are added, or foreign keys mended.
Adding ==
    /\ db'.own = db.own /\ db'.given = db.given /\ db'.marked = db.marked
    /\ db.have \subseteq db'.have /\ db'.dated \subseteq db.dated /\ db'.stray \subseteq db.stray
    /\ tx' = tx /\ disk' = (IF tx THEN disk ELSE db')
    /\ Quiet /\ Quiet' /\ stage' # "serve" /\ (stage' = stage \/ stage' = "boot") /\ at' = at
    /\ scars' = scars /\ deleted' = deleted
    /\ \A t \in DOMAIN Old : Past(t)' => Past(t)

Ending ==
    /\ db' = disk /\ disk' = disk /\ tx' = FALSE /\ stage' = "off" /\ at' = <<1, 0>>
    /\ stage # "off"
    /\ scars \subseteq scars' /\ deleted' = deleted
    /\ "swept" \in scars' => "swept" \in scars
    /\ "served" \in scars' => "served" \in scars \/ stage = "serve"
    /\ Clean' => stage = "serve" \/ (stage = "boot" /\ at[2] = 0)

Committing ==
    /\ db' = db /\ disk' = db /\ tx' = FALSE
    /\ stage = "boot" /\ stage' \in {"boot", "serve"} /\ Quiet /\ Quiet'
    /\ scars' = scars /\ deleted' = deleted
    /\ \A t \in DOMAIN Old : Past(t)' => Past(t)

\* Within a program: the statement op of t, and where it leaves the start.
Working(op, t) ==
    /\ Doing(op, t) /\ stage' = "boot" /\ at'[2] > 0 /\ deleted' = deleted
    /\ \A u \in DOMAIN Old : Past(u)' => Past(u) \/ (op = "create" /\ u = t)

Changing(d) == db' = d /\ tx' = tx /\ disk' = (IF tx THEN disk ELSE d)
Writing(d) == db' = d /\ tx' = TRUE /\ disk' = disk

Renaming(t) ==
    /\ t \in DOMAIN Old /\ Working("rename", t) /\ Outdated(t) /\ scars' = scars
    /\ \A o, u : Doing(o, u)' <=> o = "create" /\ u = t
    /\ Changing([db EXCEPT !.have = (@ \ {t}) \cup {Old[t]},
                           !.own = IF t \in @ THEN (@ \ {t}) \cup {Old[t]} ELSE @,
                           !.stray = @ \cup {<<r[1], r[2]>> : r \in {s \in Refs : s[2] = t}}])

Creating(t) ==
    /\ t \in DOMAIN Old /\ Working("create", t) /\ scars' = scars
    /\ \A o, u : Doing(o, u)' <=> o = "copy" /\ u = t
    /\ Changing([db EXCEPT !.have = @ \cup {t}, !.dated = @ \ {t}, !.stray = {s \in @ : s[1] # t}])

Copying(t) ==
    /\ t \in DOMAIN Old /\ Working("copy", t) /\ scars' = scars
    /\ \A o, u : Doing(o, u)' <=> o = "drop" /\ u = t
    /\ Writing([db EXCEPT !.own = IF Old[t] \in @ THEN @ \cup {t} ELSE @])

Dropping(t) ==
    /\ t \in DOMAIN Old /\ Working("drop", t) /\ Quiet'
    /\ scars' = scars \cup (IF "user_referrals" \in Swept(t) THEN {"swept"} ELSE {})
    /\ Changing([db EXCEPT !.have = @ \ {Old[t]}, !.own = @ \ (Swept(t) \cup {Old[t]})])

Seeding(k) ==
    /\ k \in Bundled /\ Working("seed", k) /\ scars' = scars
    /\ \/ k = "system" /\ Quiet'
       \/ k \in {"plans", "texts"} /\ \A o, u : Doing(o, u)' <=> o = "mark" /\ u = k
    /\ IF Wanted(k) THEN Writing([db EXCEPT !.given = @ \cup {k}]) ELSE Reads

Marking(k) ==
    /\ k \in {"plans", "texts"} /\ Working("mark", k) /\ Quiet' /\ scars' = scars
    /\ Writing([db EXCEPT !.marked = @ \cup {k}])

Taking(t) ==
    /\ t \in DOMAIN Sources /\ Doing("take", t) /\ Quiet' /\ stage' = "boot" /\ deleted' = deleted
    /\ \/ scars' = scars /\ at'[2] > 0 /\ \A u \in DOMAIN Old : Past(u)' => Past(u)
       \/ scars' = scars \cup {"failed"}
    /\ Writing([db EXCEPT !.own = @ \cup {t}])

Deleting ==
    /\ stage = "serve" /\ stage' = "serve" /\ at' = at /\ scars' = scars
    /\ \E k \in db.given \ {"system"} :
          /\ db' = [db EXCEPT !.given = @ \ {k}] /\ disk' = db' /\ tx' = FALSE
          /\ deleted' = deleted \cup {k}

(* Between rebuilds none of them is under way, and no mark is due.          *)
LEMMA QuietDoing ==
    ASSUME Quiet
    PROVE  \A t : \A o \in {"create", "copy", "drop", "mark"} : ~Doing(o, t)
  BY DEF Quiet, Doing

(* Nor is any statement next before the bootstrap, or while a step of it    *)
(* looks for its tables.                                                    *)
LEMMA NotBooting ==
    ASSUME stage # "boot" \/ at[2] = 0
    PROVE  Quiet /\ \A o, t : ~Doing(o, t)
  BY DEF Quiet, Doing

LEMMA QuietNext ==
    ASSUME Quiet'
    PROVE  \A t : ~Doing("create", t)' /\ ~Doing("copy", t)' /\ ~Doing("drop", t)' /\ ~Doing("mark", t)'
  BY DEF Quiet, Doing

\* One thing at a time.
LEMMA DoingOne ==
    ASSUME NEW o, NEW t, NEW p, NEW u, Doing(o, t), Doing(p, u)
    PROVE  o = p /\ t = u
  BY DEF Doing

LEMMA NotMoving ==
    ASSUME Quiet \/ (\E w : \E o \in {"rename", "drop", "seed", "mark", "take"} : Doing(o, w))
    PROVE  \A t : ~Moved(t)
  BY DEF Quiet, Moved, Doing

\* Before the bootstrap, nothing is past.
LEMMA EntryReads ==
    ASSUME AtInv, Begin \/ AllCreated \/ Look \/ KeepCopy
    PROVE  Reading
<1>1. /\ db' = db /\ disk' = disk /\ tx' = tx /\ scars' = scars /\ deleted' = deleted /\ at' = at
  BY DEF Begin, AllCreated, Look, KeepCopy, Goes, Reads, Elsewhere
<1>2. stage' \in Entry /\ stage' # "serve" /\ stage' # "boot" /\ stage # "boot"
  BY DEF Begin, AllCreated, Look, KeepCopy, Goes, Entry
<1>3. Quiet' /\ \A t \in DOMAIN Old : ~Past(t)'
  BY <1>2 DEF Quiet, Past
<1>4. \A t : ~Moved(t) /\ ~Doing("mark", t)
  BY <1>2, NotBooting DEF Moved
<1> QED
  BY <1>1, <1>2, <1>3, <1>4 DEF Reading

LEMMA UpToDateReads == ASSUME AtInv, UpToDate PROVE Reading
<1>1. /\ Now("rename") /\ ~Outdated(What) /\ Skips(4) /\ db' = db /\ disk' = disk /\ tx' = tx
      /\ scars' = scars /\ deleted' = deleted
  BY DEF UpToDate, Reads, BootOnly, Elsewhere
<1>2. /\ Quiet' /\ stage' = "boot" /\ at'[2] > 0 /\ at'[2] # 0
      /\ \A t \in DOMAIN Old : Past(t)' => Past(t) \/ t = What
  BY <1>1, UpToDateMoves
<1>3. Doing("rename", What)
  BY <1>1, UpToDateMoves
<1>4. \A t : ~Moved(t) /\ ~Doing("mark", t)
  BY <1>3, DoingOne DEF Moved
<1> QED
  BY <1>1, <1>2, <1>4 DEF Reading

LEMMA RebuildFailsReads == ASSUME AtInv, RebuildFails PROVE Reading
<1>1. /\ \E op \in {"rename", "create", "copy", "drop"} : Now(op)
      /\ What = "user_referrals" /\ Skips(Len(Here.work) - at[2])
      /\ db' = db /\ disk' = disk /\ tx' = tx
      /\ scars' = scars \cup {"failed"} /\ deleted' = deleted
  BY DEF RebuildFails, Reads
<1>2. Quiet' /\ stage' = "boot"
  BY <1>1, RebuildFailsMoves
<1>3. \A t : ~Doing("mark", t)
  <2>1. PICK op \in {"rename", "create", "copy", "drop"} : Now(op)
    BY <1>1
  <2>2. Doing(op, What) /\ op # "mark"
    BY <2>1, NowDoing
  <2> QED
    BY <2>2, DoingOne
<1> QED
  BY <1>1, <1>2, <1>3 DEF Reading

LEMMA Adds == ASSUME UpgradeType, AtInv, CreateTable \/ MakeTable \/ Mend PROVE Adding
<1>1. CASE CreateTable
  <2>1. PICK x : Ddl([db EXCEPT !.have = @ \cup x])
    BY <1>1 DEF CreateTable
  <2>2. /\ stage \in {"create", "recreate"} /\ stage' = stage /\ at' = at /\ scars' = scars
        /\ deleted' = deleted
    BY <1>1 DEF CreateTable, Elsewhere
  <2>3. Quiet /\ Quiet' /\ \A t \in DOMAIN Old : Past(t)' => Past(t)
    BY <2>2 DEF Quiet, Past
  <2> QED
    BY <2>1, <2>2, <2>3 DEF Adding, Ddl, UpgradeType, Content
<1>2. CASE MakeTable
  <2>1. PICK t : Ddl([db EXCEPT !.have = @ \cup {t}, !.dated = @ \ {t}])
    BY <1>2 DEF MakeTable
  <2>2. /\ stage = "boot" /\ at[2] = 0 /\ stage' = stage /\ at' = at /\ scars' = scars
        /\ deleted' = deleted
    BY <1>2 DEF MakeTable, BootOnly, Elsewhere
  <2>3. Quiet /\ Quiet' /\ \A u \in DOMAIN Old : Past(u)' => Past(u)
    BY <2>2 DEF Quiet, Past
  <2> QED
    BY <2>1, <2>2, <2>3 DEF Adding, Ddl, UpgradeType, Content
<1>3. CASE Mend
  <2>1. Ddl([db EXCEPT !.stray = {}])
    BY <1>3 DEF Mend, Mended
  <2>2. /\ stage = "mend" /\ stage' = "boot" /\ at' = at /\ at = <<1, 0>> /\ scars' = scars
        /\ deleted' = deleted
    BY <1>3 DEF Mend, Goes, Elsewhere, AtInv
  <2>3. Quiet /\ Quiet'
    BY <2>2 DEF Quiet
  <2>4. ASSUME NEW u \in DOMAIN Old, Past(u)' PROVE FALSE
    BY <2>2, <2>4, AfterRebuild DEF Past
  <2> QED
    BY <2>1, <2>2, <2>3, <2>4 DEF Adding, Ddl, UpgradeType, Content
<1> QED
  BY <1>1, <1>2, <1>3

LEMMA StartEnds ==
    ASSUME AtInv, ImportFails \/ TableMissing \/ DropRefused \/ Kill \/ Stop
    PROVE  Ending
<1>1. /\ db' = disk /\ disk' = disk /\ tx' = FALSE /\ stage' = "off" /\ at' = <<1, 0>>
      /\ deleted' = deleted
  BY DEF ImportFails, TableMissing, DropRefused, Kill, Stop, Ended, Elsewhere, BootOnly
<1>2. /\ stage # "off" /\ scars \subseteq scars'
      /\ "swept" \in scars' => "swept" \in scars
      /\ "served" \in scars' => "served" \in scars \/ stage = "serve"
  BY DEF ImportFails, TableMissing, DropRefused, Kill, Stop, Now
<1>3. Clean' => stage = "serve" \/ (stage = "boot" /\ at[2] = 0)
  BY DEF ImportFails, TableMissing, DropRefused, Kill, Stop, Clean
<1> QED
  BY <1>1, <1>2, <1>3 DEF Ending

LEMMA Commits == ASSUME AtInv, TablesVerified \/ CommitStep PROVE Committing
<1>1. /\ db' = db /\ disk' = db /\ tx' = FALSE /\ scars' = scars /\ deleted' = deleted /\ Skips(1)
  BY DEF TablesVerified, CommitStep, BootOnly, Elsewhere
<1>2. CASE TablesVerified
  <2>1. stage = "boot" /\ at[2] = 0
    BY <1>2 DEF TablesVerified
  <2>2. Quiet /\ Quiet' /\ stage' \in {"boot", "serve"} /\ \A t \in DOMAIN Old : Past(t)' => Past(t)
    BY <1>1, <2>1, PlainMoves, NotBooting
  <2> QED
    BY <1>1, <2>1, <2>2 DEF Committing
<1>3. CASE CommitStep
  <2>1. stage = "boot" /\ Line(at[1], at[2])[1] = "commit"
    BY <1>3, NowIs DEF CommitStep
  <2>2. Quiet /\ Quiet' /\ stage' \in {"boot", "serve"} /\ \A t \in DOMAIN Old : Past(t)' => Past(t)
    BY <1>1, <2>1, PlainMoves DEF Quiet
  <2> QED
    BY <1>1, <2>1, <2>2 DEF Committing
<1> QED
  BY <1>2, <1>3

LEMMA Renames == ASSUME AtInv, Rename PROVE \E t : Renaming(t)
<1> DEFINE w == What
<1>1. /\ Now("rename") /\ Outdated(w) /\ Skips(1) /\ scars' = scars /\ deleted' = deleted
      /\ Changing([db EXCEPT !.have = (@ \ {w}) \cup {Old[w]},
                             !.own = IF w \in @ THEN (@ \ {w}) \cup {Old[w]} ELSE @,
                             !.stray = @ \cup {<<r[1], r[2]>> : r \in {s \in Refs : s[2] = w}}])
  BY DEF Rename, Ddl, Changing, BootOnly, Elsewhere
<1>2. /\ w \in DOMAIN Old /\ Doing("rename", w) /\ stage' = "boot" /\ at'[2] > 0
      /\ \A o, t : Doing(o, t)' <=> o = "create" /\ t = w
      /\ \A t \in DOMAIN Old : Past(t)' => Past(t)
  BY <1>1, RenameMoves
<1> HIDE DEF w
<1> QED
  BY <1>1, <1>2 DEF Renaming, Working

LEMMA Creates == ASSUME AtInv, CreateAnew PROVE \E t : Creating(t)
<1> DEFINE w == What
<1>1. /\ Now("create") /\ Skips(1) /\ scars' = scars /\ deleted' = deleted
      /\ Changing([db EXCEPT !.have = @ \cup {w}, !.dated = @ \ {w}, !.stray = {s \in @ : s[1] # w}])
  BY DEF CreateAnew, Ddl, Changing, BootOnly, Elsewhere
<1>2. /\ w \in DOMAIN Old /\ Doing("create", w) /\ stage' = "boot" /\ at'[2] > 0
      /\ \A o, t : Doing(o, t)' <=> o = "copy" /\ t = w
      /\ \A t \in DOMAIN Old : Past(t)' => Past(t) \/ t = w
  BY <1>1, CreateMoves
<1> HIDE DEF w
<1> QED
  BY <1>1, <1>2 DEF Creating, Working

LEMMA Copies == ASSUME AtInv, CopyRows PROVE \E t : Copying(t)
<1> DEFINE w == What
<1>1. /\ Now("copy") /\ Skips(1) /\ scars' = scars /\ deleted' = deleted
      /\ Writing([db EXCEPT !.own = IF Old[w] \in @ THEN @ \cup {w} ELSE @])
  BY DEF CopyRows, Dml, Writing, BootOnly, Elsewhere
<1>2. /\ w \in DOMAIN Old /\ Doing("copy", w) /\ stage' = "boot" /\ at'[2] > 0
      /\ \A o, t : Doing(o, t)' <=> o = "drop" /\ t = w
      /\ \A t \in DOMAIN Old : Past(t)' => Past(t)
  BY <1>1, CopyMoves
<1> HIDE DEF w
<1> QED
  BY <1>1, <1>2 DEF Copying, Working

LEMMA Drops == ASSUME AtInv, DropOld PROVE \E t : Dropping(t)
<1> DEFINE w == What
<1>1. /\ Now("drop") /\ Skips(1) /\ deleted' = deleted
      /\ scars' = scars \cup (IF "user_referrals" \in Swept(w) THEN {"swept"} ELSE {})
      /\ Changing([db EXCEPT !.have = @ \ {Old[w]}, !.own = @ \ (Swept(w) \cup {Old[w]})])
  BY DEF DropOld, Ddl, Changing, BootOnly, Elsewhere
<1>2. /\ w \in DOMAIN Old /\ Doing("drop", w) /\ stage' = "boot" /\ at'[2] > 0 /\ Quiet'
      /\ \A t \in DOMAIN Old : Past(t)' => Past(t)
  BY <1>1, DropMoves
<1> HIDE DEF w
<1> QED
  BY <1>1, <1>2 DEF Dropping, Working

LEMMA Seeds == ASSUME AtInv, Seed PROVE \E k : Seeding(k)
<1> DEFINE w == What
<1>1. /\ Now("seed") /\ Skips(1) /\ scars' = scars /\ deleted' = deleted
      /\ IF Wanted(w) THEN Writing([db EXCEPT !.given = @ \cup {w}]) ELSE Reads
  BY DEF Seed, Dml, Writing, BootOnly, Elsewhere
<1>2. /\ Doing("seed", w) /\ stage' = "boot" /\ at'[2] > 0
      /\ \/ w = "system" /\ Quiet'
         \/ w \in {"plans", "texts"} /\ \A o, k : Doing(o, k)' <=> o = "mark" /\ k = w
      /\ \A t \in DOMAIN Old : Past(t)' => Past(t)
  BY <1>1, SeedMoves
<1>3. w \in Bundled
  BY <1>2 DEF Bundled
<1> HIDE DEF w
<1> QED
  BY <1>1, <1>2, <1>3 DEF Seeding, Working

LEMMA Marks == ASSUME AtInv, Mark PROVE Reading \/ \E k : Marking(k)
<1> DEFINE w == What
<1>1. /\ Now("mark") /\ Skips(1) /\ scars' = scars /\ deleted' = deleted
      /\ IF Wanted(w) THEN Writing([db EXCEPT !.marked = @ \cup {w}]) ELSE Reads
  BY DEF Mark, Dml, Writing, BootOnly, Elsewhere
<1>2. /\ Quiet' /\ stage' = "boot" /\ at'[2] > 0 /\ at'[2] # 0
      /\ \A t \in DOMAIN Old : Past(t)' => Past(t)
  BY <1>1, LaterMoves
<1>3. Doing("mark", w) /\ w \in {"plans", "texts"}
  <2>1. "mark" \in {"seed", "mark", "take"}
    OBVIOUS
  <2> QED
    BY <1>1, <2>1, OtherLines
<1> HIDE DEF w
<1>4. CASE Wanted(w)
  BY <1>1, <1>2, <1>3, <1>4 DEF Marking, Working
<1>5. CASE ~Wanted(w)
  <2>1. \A t : ~Moved(t) /\ (Doing("mark", t) => t \in db.marked)
    BY <1>3, <1>5, DoingOne DEF Moved, Wanted
  <2> QED
    BY <1>1, <1>2, <1>5, <2>1 DEF Reading, Reads
<1> QED
  BY <1>4, <1>5

LEMMA Takes == ASSUME AtInv, Take \/ TakeFails PROVE Reading \/ \E t : Taking(t)
<1> DEFINE w == What
<1>1. /\ Now("take") /\ deleted' = deleted
      /\ Writing([db EXCEPT !.own = @ \cup {w}]) \/ Reads
      /\ \/ scars' = scars /\ Skips(1)
         \/ scars' = scars \cup {"failed"} /\ Skips(Len(Here.work) - at[2] + 1)
  <2>1. CASE Take
    BY <2>1 DEF Take, Dml, Writing, BootOnly, Elsewhere
  <2>2. CASE TakeFails
    BY <2>2 DEF TakeFails, Dml, Writing
  <2> QED
    BY <2>1, <2>2
<1>2. /\ Quiet' /\ stage' = "boot"
      /\ \/ scars' = scars /\ at'[2] > 0 /\ at'[2] # 0 /\ \A t \in DOMAIN Old : Past(t)' => Past(t)
         \/ scars' = scars \cup {"failed"}
  <2>1. CASE scars' = scars /\ Skips(1)
    BY <1>1, <2>1, LaterMoves
  <2>2. CASE scars' = scars \cup {"failed"} /\ Skips(Len(Here.work) - at[2] + 1)
    BY <1>1, <2>2, TakeFailsMoves
  <2> QED
    BY <1>1, <2>1, <2>2
<1>3. Doing("take", w) /\ w \in DOMAIN Sources
  <2>1. "take" \in {"seed", "mark", "take"}
    OBVIOUS
  <2> QED
    BY <1>1, <2>1, OtherLines DEF Sources
<1> HIDE DEF w
<1>4. CASE Writing([db EXCEPT !.own = @ \cup {w}])
  <2>1. Taking(w)
    BY <1>1, <1>2, <1>3, <1>4 DEF Taking
  <2> QED
    BY <2>1
<1>5. CASE Reads
  <2>1. \A t : ~Moved(t) /\ ~Doing("mark", t)
    BY <1>3, DoingOne DEF Moved
  <2> QED
    BY <1>1, <1>2, <1>5, <2>1 DEF Reading, Reads
<1> QED
  BY <1>1, <1>4, <1>5

LEMMA Deletes == ASSUME AtInv, AdminDeletes PROVE Deleting
<1>1. at' = at /\ stage = "serve" /\ stage' = "serve" /\ scars' = scars
  BY DEF AdminDeletes
<1> QED
  BY <1>1 DEF AdminDeletes, Deleting

----------------------------------------------------------------------------
(***************************************************************************)
(* Types.                                                                   *)
(***************************************************************************)

(* Every step is of one of the kinds, but for the three that replace or     *)
(* mend the whole database.                                                 *)
LEMMA Kinds ==
    ASSUME UpgradeType, AtInv, UpgradeNext
    PROVE  \/ Reading \/ (Adding /\ (CreateTable \/ MakeTable \/ Mend)) \/ Ending \/ Committing \/ Deleting
           \/ \E t : Renaming(t) \/ Creating(t) \/ Copying(t) \/ Dropping(t)
                     \/ Seeding(t) \/ Marking(t) \/ Taking(t)
           \/ Remove \/ Import \/ MendWithOrphans
<1>1. CASE EntryPoint
  <2>1. CASE Begin \/ AllCreated \/ Look \/ KeepCopy
    <3>1. Reading
      BY <2>1, EntryReads
    <3> QED
      BY <3>1
  <2>2. CASE CreateTable \/ Mend
    <3>1. Adding
      BY <2>2, Adds
    <3> QED
      BY <2>2, <3>1
  <2>3. CASE ImportFails
    <3>1. Ending
      BY <2>3, StartEnds
    <3> QED
      BY <3>1
  <2> QED
    BY <1>1, <2>1, <2>2, <2>3 DEF EntryPoint
<1>2. CASE Statement
  <2>1. ASSUME UpToDate PROVE Reading
    BY <2>1, UpToDateReads
  <2>2. ASSUME DropRefused PROVE Ending
    BY <2>2, StartEnds
  <2>3. ASSUME CommitStep PROVE Committing
    BY <2>3, Commits
  <2>4. ASSUME Take PROVE Reading \/ \E t : Taking(t)
    BY <2>4, Takes
  <2>5. Rename => \E t : Renaming(t)
    BY Renames
  <2>6. CreateAnew => \E t : Creating(t)
    BY Creates
  <2>7. CopyRows => \E t : Copying(t)
    BY Copies
  <2>8. DropOld => \E t : Dropping(t)
    BY Drops
  <2>9. Seed => \E t : Seeding(t)
    BY Seeds
  <2>10. Mark => Reading \/ \E t : Marking(t)
    BY Marks
  <2> QED
    BY <1>2, <2>1, <2>2, <2>3, <2>4, <2>5, <2>6, <2>7, <2>8, <2>9, <2>10 DEF Statement
<1>3. CASE MakeTable \/ TablesVerified \/ TableMissing \/ RebuildFails \/ TakeFails
  <2>1. ASSUME MakeTable PROVE Adding
    BY <2>1, Adds
  <2>2. ASSUME TableMissing PROVE Ending
    BY <2>2, StartEnds
  <2>3. ASSUME TablesVerified PROVE Committing
    BY <2>3, Commits
  <2>4. ASSUME TakeFails PROVE Reading \/ \E t : Taking(t)
    BY <2>4, Takes
  <2>5. ASSUME RebuildFails PROVE Reading
    BY <2>5, RebuildFailsReads
  <2> QED
    BY <1>3, <2>1, <2>2, <2>3, <2>4, <2>5
<1>4. CASE Kill \/ Stop \/ AdminDeletes
  <2>1. ASSUME Kill \/ Stop PROVE Ending
    BY <2>1, StartEnds
  <2>2. ASSUME AdminDeletes PROVE Deleting
    BY <2>2, Deletes
  <2> QED
    BY <1>4, <2>1, <2>2
<1> QED
  BY <1>1, <1>2, <1>3, <1>4 DEF UpgradeNext, Booting

(* No step leaves the programs.                                             *)
LEMMA AtNext ==
    ASSUME AtInv, UpgradeNext
    PROVE  AtInv'
<1>1. CASE EntryPoint
  <2>1. \/ at' = at /\ stage' \in {"off", "boot"} \cup Entry /\ stage \in {"off"} \cup Entry
        \/ at' = <<1, 0>> /\ stage' = "off"
    <3>1. CASE Begin \/ AllCreated \/ Look \/ KeepCopy \/ Remove \/ Import \/ Mend
      <4>1. at' = at
        BY <3>1 DEF Begin, AllCreated, Look, KeepCopy, Remove, Import, Mend, Goes
      <4>2. stage' \in {"off", "boot"} \cup Entry /\ stage \in {"off"} \cup Entry
        BY <3>1 DEF Begin, AllCreated, Look, KeepCopy, Remove, Import, Mend, Goes, Entry
      <4> QED
        BY <4>1, <4>2
    <3>2. CASE CreateTable
      <4>1. at' = at /\ stage' = stage /\ stage \in {"create", "recreate"}
        BY <3>2 DEF CreateTable
      <4> QED
        BY <4>1 DEF Entry
    <3>3. CASE ImportFails \/ MendWithOrphans
      BY <3>3 DEF ImportFails, MendWithOrphans, Ended
    <3> QED
      BY <1>1, <3>1, <3>2, <3>3 DEF EntryPoint
  <2>2. 1 \in 1..28 /\ 0 \in 0..Size(1)
    BY Sizes
  <2>3. CASE at' = <<1, 0>> /\ stage' = "off"
    BY <2>3 DEF AtInv
  <2>4. CASE at' = at /\ stage' \in {"off", "boot"} \cup Entry /\ stage \in {"off"} \cup Entry
    <3>1. at = <<1, 0>> /\ at' = <<1, 0>> /\ stage' # "serve"
      BY <2>4 DEF AtInv, Entry
    <3> QED
      BY <2>2, <3>1 DEF AtInv
  <2> QED
    BY <2>1, <2>3, <2>4
<1>2. CASE Statement \/ TablesVerified
  <2>1. CASE TablesVerified
    BY <2>1, SkipsType DEF TablesVerified
  <2>2. CASE UpToDate
    BY <2>2, UpToDateMoves DEF UpToDate
  <2>3. CASE Rename
    BY <2>3, RenameMoves DEF Rename
  <2>4. CASE CreateAnew
    BY <2>4, CreateMoves DEF CreateAnew
  <2>5. CASE CopyRows
    BY <2>5, CopyMoves DEF CopyRows
  <2>6. CASE DropOld
    BY <2>6, DropMoves DEF DropOld
  <2>7. CASE DropRefused
    BY <2>7 DEF DropRefused, Ended, AtInv
  <2>8. CASE CommitStep
    BY <2>8, SkipsType DEF CommitStep, Now
  <2>9. CASE Seed
    BY <2>9, SeedMoves DEF Seed
  <2>10. CASE Mark
    BY <2>10, LaterMoves DEF Mark
  <2>11. CASE Take
    BY <2>11, LaterMoves DEF Take
  <2> QED
    BY <1>2, <2>1, <2>2, <2>3, <2>4, <2>5, <2>6, <2>7, <2>8, <2>9, <2>10, <2>11 DEF Statement
<1>3. CASE MakeTable \/ AdminDeletes
  BY <1>3 DEF MakeTable, AdminDeletes, AtInv
<1>4. CASE TableMissing \/ Kill \/ Stop
  BY <1>4 DEF TableMissing, Kill, Stop, Ended, AtInv
<1>5. CASE RebuildFails
  <2>1. \E op \in {"rename", "create", "copy", "drop"} : Now(op)
    BY <1>5 DEF RebuildFails
  <2>2. What = "user_referrals" /\ Skips(Len(Here.work) - at[2])
    BY <1>5 DEF RebuildFails
  <2> QED
    BY <2>1, <2>2, RebuildFailsMoves
<1>6. CASE TakeFails
  BY <1>6, TakeFailsMoves DEF TakeFails
<1> QED
  BY <1>1, <1>2, <1>3, <1>4, <1>5, <1>6 DEF UpgradeNext, Booting

\* The record that is a database.
LEMMA ContentIs ==
    ASSUME NEW d
    PROVE  d \in Content <=>
              /\ d = [have |-> d.have, own |-> d.own, dated |-> d.dated, stray |-> d.stray,
                      given |-> d.given, marked |-> d.marked]
              /\ d.have \subseteq Name /\ d.own \subseteq Name /\ d.dated \subseteq Upgraded
              /\ d.stray \subseteq Related \X Related
              /\ d.given \subseteq Bundled /\ d.marked \subseteq Bundled
  BY DEF Content

LEMMA NothingType == Nothing \in Content
  BY DEF Nothing, Content

LEMMA MakesType == ASSUME AtInv, stage = "boot" PROVE Here.makes \subseteq Name
<1>1. at[1] \in 1..28
  BY DEF AtInv
<1>2. at[1] \in DOMAIN Steps
  BY <1>1 DEF Steps
<1> QED
  BY <1>2 DEF Here, Name, Table, Created

LEMMA LeastBy ==
    ASSUME NEW R, IsWellFoundedOn(R, Nat), \A x, y \in Nat : <<y, x>> \in R <=> y < x,
           NEW T \in SUBSET Nat, T # {}
    PROVE  \E x \in T : \A y \in T : x <= y
<1>1. PICK x \in T : \A y \in T : ~ (<<y, x>> \in R)
  BY WFMin
<1>2. x \in Nat /\ \A y \in T : y \in Nat
  OBVIOUS
<1>3. \A y \in T : ~(y < x)
  BY <1>1, <1>2
<1>4. \A y \in T : x <= y
  BY <1>2, <1>3
<1> QED
  BY <1>4

(* Of the tables that tables.sql has yet to create one is the first.        *)
LEMMA MissingLeast == Missing # {} => \E i \in Missing : \A j \in Missing : i <= j
<1>1. Missing \in SUBSET Nat
  <2>1. Missing \subseteq DOMAIN TablesSql
    BY DEF Missing
  <2>2. DOMAIN TablesSql \subseteq Nat
    BY DEF TablesSql
  <2> QED
    BY <2>1, <2>2
<1>2. IsWellFoundedOn(OpToRel(<, Nat), Nat)
  BY NatLessThanWellFounded
<1>3. \A x, y \in Nat : <<y, x>> \in OpToRel(<, Nat) <=> y < x
  BY DEF OpToRel
<1> QED
  BY <1>1, <1>2, <1>3, LeastBy

(* What a step leaves is a database.                                        *)
LEMMA DbNext ==
    ASSUME UpgradeType, AtInv, UpgradeNext
    PROVE  db' \in Content /\ disk' \in Content /\ tx' \in BOOLEAN
<1> USE DEF UpgradeType
<1>1. CASE CreateTable
  <2>1. PICK i \in DOMAIN TablesSql :
          Ddl([db EXCEPT !.have = @ \cup {TablesSql[i]} \cup (IF TablesSql[i] = "the rest" THEN Table ELSE {})])
    <3>1. Missing # {} /\ Missing \subseteq DOMAIN TablesSql
      BY <1>1 DEF CreateTable, Missing
    <3>2. \E i \in Missing : \A j \in Missing : i <= j
      BY <3>1, MissingLeast
    <3> QED
      BY <1>1, <3>1, <3>2 DEF CreateTable
  <2>2. {TablesSql[i]} \cup (IF TablesSql[i] = "the rest" THEN Table ELSE {}) \subseteq Name
    BY DEF Name
  <2> QED
    BY <2>1, <2>2 DEF Ddl, Content
<1>2. CASE MakeTable
  <2>1. PICK t \in Here.makes : Ddl([db EXCEPT !.have = @ \cup {t}, !.dated = @ \ {t}])
    BY <1>2 DEF MakeTable
  <2>2. t \in Name
    BY <1>2, MakesType DEF MakeTable
  <2> QED
    BY <2>1, <2>2 DEF Ddl, Content
<1>3. CASE Reading \/ Ending \/ Committing
  BY <1>3 DEF Reading, Ending, Committing
<1>4. CASE Mend \/ MendWithOrphans
  <2>1. Mended \in Content
    BY DEF Mended, Content
  <2> QED
    BY <1>4, <2>1 DEF Mend, MendWithOrphans, Ddl
<1>5. CASE Remove
  BY <1>5, NothingType DEF Remove, Ddl
<1>6. CASE Import
  BY <1>6 DEF Import, Ddl, Content, Name
<1>7. CASE Deleting
  <2>1. PICK k : db' = [db EXCEPT !.given = @ \ {k}] /\ disk' = db' /\ tx' = FALSE
    BY <1>7 DEF Deleting
  <2>2. db' \in Content
    BY <2>1 DEF Content
  <2> QED
    BY <2>1, <2>2
<1>8. ASSUME NEW t, Renaming(t) PROVE db' \in Content /\ disk' \in Content /\ tx' \in BOOLEAN
  <2>1. t \in Name /\ Old[t] \in Name
    BY <1>8 DEF Renaming, Name
  <2>2. {<<r[1], r[2]>> : r \in {s \in Refs : s[2] = t}} \subseteq Related \X Related
    BY DEF Related
  <2> DEFINE d == [db EXCEPT !.have = (@ \ {t}) \cup {Old[t]},
                             !.own = IF t \in @ THEN (@ \ {t}) \cup {Old[t]} ELSE @,
                             !.stray = @ \cup {<<r[1], r[2]>> : r \in {s \in Refs : s[2] = t}}]
  <2>3. d \in Content
    BY <2>1, <2>2 DEF Content
  <2>4. Changing(d)
    BY <1>8 DEF Renaming
  <2> QED
    BY <2>3, <2>4 DEF Changing
<1>9. ASSUME NEW t, Creating(t) PROVE db' \in Content /\ disk' \in Content /\ tx' \in BOOLEAN
  <2>1. t \in Name
    BY <1>9 DEF Creating, Name
  <2> QED
    BY <1>9, <2>1 DEF Creating, Changing, Content
<1>10. ASSUME NEW t, Copying(t) \/ Taking(t) PROVE db' \in Content /\ disk' \in Content /\ tx' \in BOOLEAN
  <2>1. t \in Name
    BY <1>10 DEF Copying, Taking, Name
  <2>2. \E x : x \subseteq {t} /\ Writing([db EXCEPT !.own = @ \cup x])
    <3>1. CASE Copying(t)
      <4> DEFINE x == IF Old[t] \in db.own THEN {t} ELSE {}
      <4>1. (IF Old[t] \in db.own THEN db.own \cup {t} ELSE db.own) = db.own \cup x
        OBVIOUS
      <4>2. x \subseteq {t} /\ Writing([db EXCEPT !.own = @ \cup x])
        BY <3>1, <4>1 DEF Copying
      <4> QED
        BY <4>2
    <3>2. CASE Taking(t)
      BY <3>2 DEF Taking
    <3> QED
      BY <1>10, <3>1, <3>2
  <2>3. PICK x : x \subseteq {t} /\ Writing([db EXCEPT !.own = @ \cup x])
    BY <2>2
  <2> QED
    BY <2>1, <2>3 DEF Writing, Content
<1>11. ASSUME NEW t, Dropping(t) PROVE db' \in Content /\ disk' \in Content /\ tx' \in BOOLEAN
  BY <1>11 DEF Dropping, Changing, Content
<1>12. ASSUME NEW t, Seeding(t) PROVE db' \in Content /\ disk' \in Content /\ tx' \in BOOLEAN
  <2>1. t \in Bundled /\ (Writing([db EXCEPT !.given = @ \cup {t}]) \/ Reads)
    BY <1>12 DEF Seeding
  <2>2. CASE Writing([db EXCEPT !.given = @ \cup {t}])
    BY <2>1, <2>2 DEF Writing, Content
  <2>3. CASE Reads
    BY <2>3 DEF Reads
  <2> QED
    BY <2>1, <2>2, <2>3
<1>13. ASSUME NEW t, Marking(t) PROVE db' \in Content /\ disk' \in Content /\ tx' \in BOOLEAN
  BY <1>13 DEF Marking, Writing, Content, Bundled
<1> QED
  BY <1>1, <1>2, <1>3, <1>4, <1>5, <1>6, <1>7, <1>8, <1>9, <1>10, <1>11, <1>12, <1>13, Kinds

\* What no step does.
LEMMA Frames ==
    ASSUME UpgradeNext
    PROVE  /\ owned' = owned
           /\ kept' = kept \/ kept' = kept \cup db.own
<1>1. CASE EntryPoint
  BY <1>1 DEF EntryPoint, Begin, CreateTable, AllCreated, Look, KeepCopy, Remove, Import, ImportFails, Mend,
              MendWithOrphans, Elsewhere
<1>2. CASE Booting
  <2>1. CASE Statement
    BY <2>1 DEF Statement, UpToDate, Rename, CreateAnew, CopyRows, DropOld, DropRefused, CommitStep, Seed,
                Mark, Take, BootOnly, Elsewhere
  <2>2. CASE ~Statement
    BY <1>2, <2>2 DEF Booting, MakeTable, TablesVerified, TableMissing, RebuildFails, TakeFails,
                      BootOnly, Elsewhere
  <2> QED
    BY <2>1, <2>2
<1>3. CASE Kill \/ Stop \/ AdminDeletes
  BY <1>3 DEF Kill, Stop, AdminDeletes
<1> QED
  BY <1>1, <1>2, <1>3 DEF UpgradeNext

\* What is apart from the database.
Aside ==
    /\ there \in BOOLEAN /\ import \in BOOLEAN
    /\ stage \in {"off", "boot", "serve"} \cup Entry
    /\ scars \in SUBSET (Mishap \cup {"swept", "served"})
    /\ deleted \in SUBSET {"plans", "texts"}
    /\ spare \in [kills : 0..MaxKills, faults : 0..MaxFaults]

LEMMA Spent ==
    ASSUME UpgradeType, NEW w \in {"kills", "faults"}, spare[w] > 0
    PROVE  [spare EXCEPT ![w] = @ - 1] \in [kills : 0..MaxKills, faults : 0..MaxFaults]
<1>1. spare \in [kills : 0..MaxKills, faults : 0..MaxFaults] /\ MaxKills \in Nat /\ MaxFaults \in Nat
  BY UpgradeBounds DEF UpgradeType
<1>2. CASE w = "kills"
  <2>1. spare.kills - 1 \in 0..MaxKills
    BY <1>1, <1>2
  <2> QED
    BY <1>1, <1>2, <2>1
<1>3. CASE w = "faults"
  <2>1. spare.faults - 1 \in 0..MaxFaults
    BY <1>1, <1>3
  <2> QED
    BY <1>1, <1>3, <2>1
<1> QED
  BY <1>2, <1>3

LEMMA AsideNext ==
    ASSUME UpgradeType, AtInv, UpgradeNext
    PROVE  Aside'
<1> USE DEF UpgradeType, Aside, Mishap
<1>1. CASE EntryPoint
  <2>1. CASE Begin \/ CreateTable \/ AllCreated \/ Look
    <3>1. /\ there' \in BOOLEAN /\ import' = import /\ scars' = scars /\ deleted' = deleted /\ spare' = spare
          /\ stage' = stage \/ stage' \in Entry
      BY <2>1 DEF Begin, CreateTable, AllCreated, Look, Goes, Elsewhere, Entry
    <3> QED
      BY <3>1
  <2>2. CASE KeepCopy \/ Remove \/ Import \/ Mend
    <3>1. /\ there' \in BOOLEAN /\ import' \in BOOLEAN /\ scars' = scars /\ deleted' = deleted /\ spare' = spare
          /\ stage' \in Entry \cup {"boot"}
      BY <2>2 DEF KeepCopy, Remove, Import, Mend, Goes, Elsewhere, Entry
    <3> QED
      BY <3>1
  <2>3. CASE ImportFails \/ MendWithOrphans
    BY <2>3 DEF ImportFails, MendWithOrphans, Ended, Elsewhere
  <2> QED
    BY <1>1, <2>1, <2>2, <2>3 DEF EntryPoint
<1>2. CASE UpToDate \/ Rename \/ CreateAnew \/ CopyRows \/ CommitStep \/ Seed \/ Mark \/ Take \/ TablesVerified
      \/ DropOld
  <2>1. Skips(1) \/ Skips(4)
    BY <1>2 DEF UpToDate, Rename, CreateAnew, CopyRows, CommitStep, Seed, Mark, Take, TablesVerified, DropOld
  <2>2. stage' \in {"boot", "serve"}
    BY <2>1 DEF Skips
  <2>3. BootOnly /\ (scars' = scars \/ scars' = scars \cup {"swept"})
    BY <1>2 DEF UpToDate, Rename, CreateAnew, CopyRows, CommitStep, Seed, Mark, Take, TablesVerified, DropOld
  <2> QED
    BY <2>2, <2>3 DEF BootOnly, Elsewhere
<1>3. CASE MakeTable \/ TableMissing \/ DropRefused
  BY <1>3 DEF MakeTable, TableMissing, DropRefused, Ended, BootOnly, Elsewhere
<1>4. CASE RebuildFails \/ TakeFails
  <2>1. PICK n : Skips(n)
    BY <1>4 DEF RebuildFails, TakeFails
  <2>2. stage' \in {"boot", "serve"}
    BY <2>1 DEF Skips
  <2>3. spare' \in [kills : 0..MaxKills, faults : 0..MaxFaults]
    BY <1>4, Spent DEF RebuildFails, TakeFails
  <2> QED
    BY <1>4, <2>2, <2>3 DEF RebuildFails, TakeFails
<1>5. CASE Kill \/ Stop
  <2>1. spare' \in [kills : 0..MaxKills, faults : 0..MaxFaults]
    BY <1>5, Spent DEF Kill, Stop
  <2> QED
    BY <1>5, <2>1 DEF Kill, Stop, Ended
<1>6. CASE AdminDeletes
  <2>1. db.given \subseteq {"system", "plans", "texts"}
    BY DEF Content, Bundled
  <2> QED
    BY <1>6, <2>1 DEF AdminDeletes
<1> QED
  BY <1>1, <1>2, <1>3, <1>4, <1>5, <1>6 DEF UpgradeNext, Booting, Statement

(* Every step keeps the types.                                              *)
LEMMA UpgradeTypeNext ==
    ASSUME UpgradeType, AtInv, UpgradeNext
    PROVE  UpgradeType'
<1>1. kept' \in SUBSET Name /\ owned' \in SUBSET Name
  BY Frames DEF UpgradeType, Content
<1> QED
  BY <1>1, DbNext, AsideNext DEF UpgradeType, Aside

----------------------------------------------------------------------------
(***************************************************************************)
(* Transactions, and the path through the start.                            *)
(***************************************************************************)

(* The statements of the bootstrap are executed in it.                      *)
LEMMA BootingBoots == ASSUME Booting PROVE stage = "boot"
<1>1. CASE Statement
  BY <1>1 DEF Statement, UpToDate, Rename, CreateAnew, CopyRows, DropOld, DropRefused, CommitStep, Seed,
              Mark, Take, Now
<1>2. CASE ~Statement
  BY <1>2 DEF Booting, MakeTable, TablesVerified, TableMissing, RebuildFails, TakeFails, Now
<1> QED
  BY <1>1, <1>2

LEMMA EntryStages == ASSUME EntryPoint PROVE stage \notin {"boot", "serve"}
  BY DEF EntryPoint, Begin, CreateTable, AllCreated, Look, KeepCopy, Remove, Import, ImportFails, Mend,
         MendWithOrphans, Goes

\* A statement of a program, be it as it is.
Inside(t) == \/ Renaming(t) \/ Creating(t) \/ Copying(t) \/ Dropping(t)
             \/ Seeding(t) \/ Marking(t) \/ Taking(t)

\* The kinds of step of the bootstrap, and of what follows it.
LEMMA LaterKinds ==
    ASSUME UpgradeType, AtInv, UpgradeNext
    PROVE  \/ EntryPoint
           \/ Reading /\ stage = "boot"
           \/ Adding /\ stage = "boot"
           \/ Ending \/ Committing \/ Deleting
           \/ \E t : Inside(t)
<1>1. Booting => stage = "boot"
  BY BootingBoots
<1>2. CASE Booting
  <2>1. ~Remove /\ ~Import /\ ~MendWithOrphans
    BY <1>1, <1>2 DEF Remove, Import, MendWithOrphans, Goes
  <2>2. (\E t : Renaming(t) \/ Creating(t) \/ Copying(t) \/ Dropping(t)
                     \/ Seeding(t) \/ Marking(t) \/ Taking(t)) <=> \E t : Inside(t)
    BY DEF Inside
  <2> QED
    BY <1>1, <1>2, <2>1, <2>2, Kinds
<1>3. CASE Kill \/ Stop
  BY <1>3, StartEnds
<1>4. CASE AdminDeletes
  BY <1>4, Deletes
<1> QED
  BY <1>2, <1>3, <1>4 DEF UpgradeNext

(* Only children lose rows with a table that is dropped.                    *)
LEMMA SweptAre ==
    ASSUME NEW t
    PROVE  /\ Swept(t) \subseteq {"media_users", "user_identities", "user_referrals", "user_referral_events",
                                  "comm_scheduled", "comm_template_translations",
                                  "comm_template_attachments", "comm_history"}
<1> DEFINE Child == {"media_users", "user_identities", "user_referrals", "user_referral_events",
                     "comm_scheduled", "comm_template_translations",
                     "comm_template_attachments", "comm_history"}
<1>1. \A c, p, r : <<c, p, r>> \in Refs => c \in Child
  BY DEF Refs, UserRefs, ReferralRefs, CommunicationRefs
<1>2. \A c \in Swept(t) : \E p, r : <<c, p, r>> \in Refs
  BY DEF Swept, Behind
<1> QED
  BY <1>1, <1>2

\* What the statements of the programs have in common.
LEMMA InsideKeeps ==
    ASSUME UpgradeType, NEW t, Inside(t)
    PROVE  /\ stage = "boot" /\ stage' = "boot" /\ deleted' = deleted
           /\ scars \subseteq scars' /\ scars' \subseteq scars \cup {"swept", "failed"}
           /\ disk' = disk \/ disk' = db'
           /\ "tasks" \in db.have => "tasks" \in db'.have
           /\ ~tx' => ~tx /\ (disk' = db' \/ (db' = db /\ disk' = disk))
           /\ "failed" \in scars' \/ at'[2] > 0
<1>1. CASE Renaming(t)
  <2>1. t # "tasks"
    BY <1>1 DEF Renaming, Old
  <2> QED
    BY <1>1, <2>1 DEF Renaming, Working, Changing, UpgradeType, Content, Doing
<1>2. CASE Creating(t)
  BY <1>2 DEF Creating, Working, Changing, UpgradeType, Content, Doing
<1>3. CASE Copying(t)
  BY <1>3 DEF Copying, Working, Writing, UpgradeType, Content, Doing
<1>4. CASE Dropping(t)
  <2>1. Old[t] # "tasks"
    BY <1>4 DEF Dropping, Old
  <2> QED
    BY <1>4, <2>1 DEF Dropping, Working, Changing, UpgradeType, Content, Doing
<1>5. CASE Seeding(t)
  BY <1>5 DEF Seeding, Working, Writing, Reads, UpgradeType, Content, Doing
<1>6. CASE Marking(t)
  BY <1>6 DEF Marking, Working, Writing, UpgradeType, Content, Doing
<1>7. CASE Taking(t)
  BY <1>7 DEF Taking, Writing, UpgradeType, Content, Doing
<1> QED
  BY <1>1, <1>2, <1>3, <1>4, <1>5, <1>6, <1>7 DEF Inside

(* Without a transaction nothing is uncommitted, and there is none outside  *)
(* the bootstrap nor, unless a statement has failed, between its steps.     *)
LEMMA TxNext ==
    ASSUME UpgradeType, AtInv, TxInv, UpgradeNext
    PROVE  TxInv'
<1> USE DEF TxInv
<1>1. CASE EntryPoint
  <2>1. ~tx /\ db = disk
    BY <1>1, EntryStages
  <2>2. CASE Begin \/ AllCreated \/ Look \/ KeepCopy
    BY <2>1, <2>2 DEF Begin, AllCreated, Look, KeepCopy, Reads
  <2>3. CASE CreateTable \/ Remove \/ Import \/ Mend
    <3>1. ~tx' /\ disk' = db'
      <4>1. CASE CreateTable
        BY <2>1, <4>1 DEF CreateTable, Ddl
      <4>2. CASE Remove
        BY <2>1, <4>2 DEF Remove, Ddl
      <4>3. CASE Import
        BY <2>1, <4>3 DEF Import, Ddl
      <4>4. CASE Mend
        BY <2>1, <4>4 DEF Mend, Ddl
      <4> QED
        BY <2>3, <4>1, <4>2, <4>3, <4>4
    <3> QED
      BY <3>1
  <2>4. CASE ImportFails \/ MendWithOrphans
    BY <2>4 DEF ImportFails, MendWithOrphans, Ended
  <2> QED
    BY <1>1, <2>2, <2>3, <2>4 DEF EntryPoint
<1>2. CASE Reading /\ stage = "boot"
  BY <1>2 DEF Reading
<1>3. CASE Adding /\ stage = "boot"
  BY <1>3 DEF Adding
<1>4. CASE Ending \/ Committing \/ Deleting
  BY <1>4 DEF Ending, Committing, Deleting
<1>5. ASSUME NEW t, Inside(t) PROVE TxInv'
  BY <1>5, InsideKeeps
<1> QED
  BY <1>1, <1>2, <1>3, <1>4, <1>5, LaterKinds

(* A database with rows of this version is never taken for one of version   *)
(* 1.                                                                       *)
LEMMA PathNext ==
    ASSUME UpgradeType, AtInv, TxInv, PathInv, UpgradeNext
    PROVE  PathInv'
<1> USE DEF PathInv
<1>1. owned' = owned
  BY Frames
<1>2. CASE EntryPoint
  <2>1. ~tx /\ db = disk
    BY <1>2, EntryStages DEF TxInv
  <2>2. CASE Begin
    BY <1>1, <2>2 DEF Begin, Goes, Reads, Elsewhere, Settled
  <2>3. CASE CreateTable
    <3>1. "tasks" \in db.have => "tasks" \in db'.have
      BY <2>3, Adds DEF Adding
    <3>2. stage \in {"create", "recreate"} /\ stage' = stage /\ disk' = db' /\ scars' = scars /\ deleted' = deleted
      BY <2>1, <2>3 DEF CreateTable, Ddl, Elsewhere
    <3> QED
      BY <1>1, <2>1, <3>1, <3>2 DEF Settled
  <2>4. CASE AllCreated
    <3>1. 14 \in DOMAIN TablesSql /\ TablesSql[14] = "tasks"
      BY DEF TablesSql
    <3>2. "tasks" \in db.have
      BY <2>4, <3>1 DEF AllCreated, Missing
    <3>3. /\ (stage = "create" /\ stage' = "look") \/ (stage = "recreate" /\ stage' = "import")
          /\ db' = db /\ disk' = disk /\ scars' = scars /\ deleted' = deleted
      BY <2>4 DEF AllCreated, Goes, Reads, Elsewhere
    <3> QED
      BY <1>1, <2>1, <3>2, <3>3 DEF Settled
  <2>5. CASE Look
    BY <1>1, <2>1, <2>5 DEF Look, Goes, Reads, Elsewhere, Settled
  <2>6. CASE KeepCopy
    BY <1>1, <2>6 DEF KeepCopy, Goes, Reads, Elsewhere, Settled
  <2>7. CASE Remove
    BY <1>1, <2>7 DEF Remove, Goes, Elsewhere, Settled
  <2>8. CASE Import
    <3>1. stage = "import" /\ stage' = "mend" /\ scars' = scars /\ deleted' = deleted
      BY <2>8 DEF Import, Goes, Elsewhere
    <3>2. db'.have = db.have
      BY <2>8 DEF Import, Ddl, UpgradeType, Content
    <3> QED
      BY <1>1, <3>1, <3>2 DEF Settled
  <2>9. CASE ImportFails
    BY <1>1, <2>1, <2>9 DEF ImportFails, Ended, Elsewhere, Settled
  <2>10. CASE Mend
    <3>1. stage = "mend" /\ stage' = "boot" /\ scars' = scars /\ deleted' = deleted /\ disk' = db'
      BY <2>1, <2>10 DEF Mend, Goes, Elsewhere, Ddl
    <3>2. db'.have = db.have
      BY <2>10 DEF Mend, Mended, Ddl, UpgradeType, Content
    <3> QED
      BY <1>1, <3>1, <3>2 DEF Settled
  <2>11. CASE MendWithOrphans
    <3>1. stage = "mend" /\ stage' = "off" /\ scars' = scars /\ deleted' = deleted /\ disk' = db'
      BY <2>11 DEF MendWithOrphans, Elsewhere
    <3>2. db'.have = db.have
      BY <2>11 DEF MendWithOrphans, Mended, UpgradeType, Content
    <3> QED
      BY <1>1, <3>1, <3>2 DEF Settled
  <2> QED
    BY <1>2, <2>2, <2>3, <2>4, <2>5, <2>6, <2>7, <2>8, <2>9, <2>10, <2>11 DEF EntryPoint
<1>3. CASE Reading /\ stage = "boot"
  BY <1>1, <1>3 DEF Reading, Settled
<1>4. CASE Adding /\ stage = "boot"
  BY <1>1, <1>4 DEF Adding, Settled
<1>5. CASE Ending
  <2>1. Settled' => Settled
    BY <1>1, <1>5 DEF Ending, Settled
  <2> QED
    BY <1>5, <2>1 DEF Ending
<1>6. CASE Committing
  BY <1>6 DEF Committing
<1>7. CASE Deleting
  <2>1. "tasks" \in db'.have /\ disk' = db' /\ stage' = "serve"
    BY <1>7 DEF Deleting, UpgradeType, Content
  <2> QED
    BY <2>1
<1>8. ASSUME NEW t, Inside(t) PROVE PathInv'
  <2>1. Settled' => Settled
    BY <1>1, <1>8, InsideKeeps DEF Settled
  <2> QED
    BY <1>8, <2>1, InsideKeeps
<1> QED
  BY <1>2, <1>3, <1>4, <1>5, <1>6, <1>7, <1>8, LaterKinds

----------------------------------------------------------------------------
(***************************************************************************)
(* Rows of tables that are rebuilt, and those of version 1.                 *)
(***************************************************************************)

(* The name a table is given while it is rebuilt is no other table's.       *)
LEMMA OldNames ==
    ASSUME NEW t \in DOMAIN Old
    PROVE  /\ Old[t] \notin DOMAIN Old /\ Old[t] \notin Upgraded
           /\ Old[t] # "users" /\ t # "users" /\ t # "tasks" /\ Old[t] # "tasks"
           /\ \A u \in DOMAIN Old : Old[t] = Old[u] => t = u
           /\ \A u : Old[t] \notin Swept(u)
<1> DEFINE Child == {"media_users", "user_identities", "user_referrals", "user_referral_events",
                     "comm_scheduled", "comm_template_translations",
                     "comm_template_attachments", "comm_history"}
<1>1. \A u : Swept(u) \subseteq Child
  BY SweptAre
<1>2. Old[t] \notin Child
  BY DEF Old
<1> HIDE DEF Child
<1>3. \A u : Old[t] \notin Swept(u)
  BY <1>1, <1>2
<1> QED
  BY <1>3 DEF Old, Upgraded

LEMMA UpgradedAre ==
    /\ Upgraded \subseteq DOMAIN Old
    /\ \A t \in Upgraded : Places(t) = {t, Old[t]}
    /\ Places("users") = {"users"}
    /\ \A t \in Upgraded : \A u : t \in Swept(u) => t = "user_referrals"
    /\ \A u : "users" \notin Swept(u)
<1>1. Upgraded \subseteq DOMAIN Old /\ "users" \notin DOMAIN Old
  BY DEF Upgraded, Old
<1>2. \A u : /\ "users" \notin Swept(u) /\ "vodum_users" \notin Swept(u) /\ "comm_templates" \notin Swept(u)
  BY SweptAre
<1>3. \A t \in Upgraded : \A u : t \in Swept(u) => t = "user_referrals"
  BY <1>2 DEF Upgraded
<1> QED
  BY <1>1, <1>2, <1>3 DEF Places

\* What becomes of the rows in each kind of step.
LEMMA OwnOf ==
    ASSUME UpgradeType, NEW t
    PROVE  /\ Renaming(t) => db'.own = (IF t \in db.own THEN (db.own \ {t}) \cup {Old[t]} ELSE db.own)
           /\ Creating(t) => db'.own = db.own
           /\ Copying(t) => db'.own = (IF Old[t] \in db.own THEN db.own \cup {t} ELSE db.own)
           /\ Dropping(t) => db'.own = db.own \ (Swept(t) \cup {Old[t]})
           /\ Seeding(t) => db'.own = db.own
           /\ Marking(t) => db'.own = db.own
           /\ Taking(t) => db'.own = db.own \cup {t}
<1> USE DEF UpgradeType, Content
<1>1. Renaming(t) => db'.own = (IF t \in db.own THEN (db.own \ {t}) \cup {Old[t]} ELSE db.own)
  BY DEF Renaming, Changing
<1>2. Creating(t) => db'.own = db.own
  BY DEF Creating, Changing
<1>3. Copying(t) => db'.own = (IF Old[t] \in db.own THEN db.own \cup {t} ELSE db.own)
  BY DEF Copying, Writing
<1>4. Dropping(t) => db'.own = db.own \ (Swept(t) \cup {Old[t]})
  BY DEF Dropping, Changing
<1>5. Seeding(t) => db'.own = db.own
  BY DEF Seeding, Writing, Reads
<1>6. Marking(t) => db'.own = db.own
  BY DEF Marking, Writing
<1>7. Taking(t) => db'.own = db.own \cup {t}
  BY DEF Taking, Writing
<1> QED
  BY <1>1, <1>2, <1>3, <1>4, <1>5, <1>6, <1>7

LEMMA EntryOwn ==
    ASSUME UpgradeType, AtInv, TxInv, EntryPoint, ~Remove, ~Import
    PROVE  /\ db'.own = db.own /\ disk'.own = disk.own /\ scars \subseteq scars' /\ \A o, t : ~Doing(o, t)
           /\ db.own = disk.own
<1>1. ~tx /\ db = disk /\ stage # "boot"
  BY EntryStages DEF TxInv
<1>2. CASE Begin \/ AllCreated \/ Look \/ KeepCopy
  BY <1>1, <1>2, NotBooting DEF Begin, AllCreated, Look, KeepCopy, Reads
<1>3. CASE CreateTable
  <2>1. Adding
    BY <1>3, Adds
  <2> QED
    BY <1>1, <2>1, NotBooting DEF Adding
<1>4. CASE Mend
  <2>1. Adding
    BY <1>4, Adds
  <2> QED
    BY <1>1, <2>1, NotBooting DEF Adding
<1>5. CASE ImportFails
  BY <1>1, <1>5, NotBooting DEF ImportFails, Ended
<1>6. CASE MendWithOrphans
  BY <1>1, <1>6, NotBooting DEF MendWithOrphans, Mended, UpgradeType, Content
<1> QED
  BY <1>2, <1>3, <1>4, <1>5, <1>6 DEF EntryPoint

\* Before the bootstrap, no statement of it is next.
LEMMA EntryNotDoing ==
    ASSUME UpgradeType, AtInv, EntryPoint
    PROVE  (\A o, t : ~Doing(o, t)) /\ Quiet' /\ \A o : \A t : ~Doing(o, t)'
<1>1. stage' # "boot" \/ at'[2] = 0
  <2>1. at = <<1, 0>>
    BY EntryStages DEF AtInv
  <2>2. at' = at \/ at' = <<1, 0>>
    <3>1. CASE Begin \/ AllCreated \/ Look \/ KeepCopy \/ Remove \/ Import \/ Mend
      BY <3>1 DEF Begin, AllCreated, Look, KeepCopy, Remove, Import, Mend, Goes
    <3>2. CASE CreateTable \/ ImportFails \/ MendWithOrphans
      BY <3>2 DEF CreateTable, ImportFails, MendWithOrphans, Ended
    <3> QED
      BY <3>1, <3>2 DEF EntryPoint
  <2> QED
    BY <2>1, <2>2
<1> QED
  BY <1>1, EntryStages, NotBooting DEF Quiet, Doing

(* The rows of a table that is rebuilt are in it or in the one it replaces, *)
(* both as the connection sees it and as committed; they are copied before  *)
(* the old one is dropped.                                                  *)
LEMMA RowsNext ==
    ASSUME UpgradeType, AtInv, TxInv, PathInv, RowsInv, UpgradeNext
    PROVE  RowsInv'
<1>1. owned' = owned
  BY Frames
<1>2. \A t \in Upgraded : \A d : Held(t, d) <=> t \in d.own \/ Old[t] \in d.own
  BY UpgradedAre DEF Held
<1> DEFINE Spared(t) == t = "user_referrals" /\ "swept" \in scars
           Rows == \A t \in owned \cap Upgraded :
                      Spared(t) \/ ((t \in db.own \/ Old[t] \in db.own) /\ (t \in disk.own \/ Old[t] \in disk.own))
           Dropped == \A t \in Upgraded : Doing("drop", t) /\ Old[t] \in db.own => t \in db.own
<1>3. RowsInv <=> Rows /\ Dropped
  BY <1>2 DEF RowsInv
<1>4. ASSUME Rows', Dropped' PROVE RowsInv'
  <2>1. \A t \in Upgraded : Held(t, db)' <=> t \in db'.own \/ Old[t] \in db'.own
    BY UpgradedAre DEF Held
  <2>2. \A t \in Upgraded : Held(t, disk)' <=> t \in disk'.own \/ Old[t] \in disk'.own
    BY UpgradedAre DEF Held
  <2> QED
    BY <1>4, <2>1, <2>2 DEF RowsInv
<1>5. CASE EntryPoint
  <2>1. Dropped'
    BY <1>5, EntryNotDoing
  <2>2. CASE Remove \/ Import
    <3>1. owned \cap Upgraded = {}
      BY <2>2 DEF Remove, Import, Goes, PathInv, Settled
    <3> QED
      BY <1>1, <1>4, <2>1, <3>1
  <2>3. CASE ~Remove /\ ~Import
    BY <1>1, <1>3, <1>4, <1>5, <2>1, <2>3, EntryOwn
  <2> QED
    BY <2>2, <2>3
<1>6. CASE (Reading \/ Adding) /\ stage = "boot"
  <2>1. Quiet' /\ db'.own = db.own /\ (disk' = disk \/ disk' = db') /\ scars \subseteq scars'
    BY <1>6 DEF Reading, Adding
  <2>2. Dropped'
    BY <2>1, QuietNext
  <2> QED
    BY <1>1, <1>3, <1>4, <2>1, <2>2
<1>7. CASE Ending
  <2>1. Dropped'
    BY <1>7 DEF Ending, Doing
  <2> QED
    BY <1>1, <1>3, <1>4, <1>7, <2>1 DEF Ending
<1>8. CASE Committing
  <2>1. Dropped'
    BY <1>8, QuietNext DEF Committing
  <2> QED
    BY <1>1, <1>3, <1>4, <1>8, <2>1 DEF Committing
<1>9. CASE Deleting
  <2>1. Dropped'
    BY <1>9 DEF Deleting, Doing
  <2>2. db'.own = db.own /\ disk' = db' /\ scars' = scars
    BY <1>9 DEF Deleting, UpgradeType, Content
  <2> QED
    BY <1>1, <1>3, <1>4, <2>1, <2>2
<1>10. ASSUME NEW u, Inside(u) PROVE RowsInv'
  <2>0. /\ disk' = disk \/ disk' = db'
        /\ scars \subseteq scars'
    BY <1>10, InsideKeeps
  <2>1. ASSUME Dropped',
               \A t \in owned \cap Upgraded : t \in db.own \/ Old[t] \in db.own =>
                  t \in db'.own \/ Old[t] \in db'.own \/ Spared(t)'
        PROVE  RowsInv'
    BY <1>1, <1>3, <1>4, <2>0, <2>1
  <2>2. CASE Renaming(u)
    <3>1. Dropped'
      BY <2>2 DEF Renaming
    <3>2. u \in DOMAIN Old /\ db'.own = (IF u \in db.own THEN (db.own \ {u}) \cup {Old[u]} ELSE db.own)
      BY <2>2, OwnOf DEF Renaming
    <3>3. \A t \in Upgraded : Old[t] # u
      BY <3>2, OldNames, UpgradedAre
    <3> QED
      BY <2>1, <3>1, <3>2, <3>3
  <2>3. CASE Creating(u)
    <3>1. Dropped'
      BY <2>3 DEF Creating
    <3> QED
      BY <2>1, <2>3, <3>1, OwnOf
  <2>4. CASE Copying(u)
    <3>1. u \in DOMAIN Old /\ db'.own = (IF Old[u] \in db.own THEN db.own \cup {u} ELSE db.own)
          /\ \A t : Doing("drop", t)' => t = u
      BY <2>4, OwnOf DEF Copying
    <3>2. Old[u] # u
      BY <3>1, OldNames
    <3>3. Dropped'
      BY <3>1, <3>2
    <3> QED
      BY <2>1, <3>1, <3>3
  <2>5. CASE Dropping(u)
    <3>1. Dropped'
      BY <2>5, QuietNext DEF Dropping
    <3>2. /\ u \in DOMAIN Old /\ db'.own = db.own \ (Swept(u) \cup {Old[u]})
          /\ Doing("drop", u)
          /\ "user_referrals" \in Swept(u) => "swept" \in scars'
      BY <2>5, OwnOf DEF Dropping, Working
    <3>3. ASSUME NEW t \in owned \cap Upgraded, t \in db.own
          PROVE  t \in db'.own \/ Spared(t)'
      <4>1. t # Old[u]
        BY <3>2, OldNames
      <4> QED
        BY <3>2, <3>3, <4>1, UpgradedAre
    <3>4. ASSUME NEW t \in owned \cap Upgraded, Old[t] \in db.own
          PROVE  t \in db'.own \/ Old[t] \in db'.own \/ Spared(t)'
      <4>1. CASE t = u
        <5>1. t \in db.own
          BY <1>3, <3>2, <3>4, <4>1
        <5> QED
          BY <3>3, <5>1
      <4>2. CASE t # u
        <5>1. t \in DOMAIN Old /\ Old[t] # Old[u] /\ Old[t] \notin Swept(u)
          BY <3>2, <4>2, OldNames, UpgradedAre
        <5> QED
          BY <3>2, <3>4, <5>1
      <4> QED
        BY <4>1, <4>2
    <3> QED
      BY <2>1, <3>1, <3>3, <3>4
  <2>6. CASE Seeding(u) \/ Marking(u)
    <3>1. Dropped'
      BY <2>6, QuietNext DEF Seeding, Marking
    <3> QED
      BY <2>1, <2>6, <3>1, OwnOf
  <2>7. CASE Taking(u)
    <3>1. Dropped'
      BY <2>7, QuietNext DEF Taking
    <3>2. db.own \subseteq db'.own
      BY <2>7, OwnOf
    <3> QED
      BY <2>1, <3>1, <3>2
  <2> QED
    BY <1>10, <2>2, <2>3, <2>4, <2>5, <2>6, <2>7 DEF Inside
<1> QED
  BY <1>5, <1>6, <1>7, <1>8, <1>9, <1>10, LaterKinds

LEMMA ThereStays == ASSUME UpgradeNext, ~Remove PROVE there' = there \/ there' = TRUE
<1>1. CASE EntryPoint
  BY <1>1 DEF EntryPoint, Begin, CreateTable, AllCreated, Look, KeepCopy, Import, ImportFails, Mend,
              MendWithOrphans
<1>2. CASE Booting
  <2>1. CASE Statement
    BY <2>1 DEF Statement, UpToDate, Rename, CreateAnew, CopyRows, DropOld, DropRefused, CommitStep, Seed,
                Mark, Take, BootOnly
  <2>2. CASE ~Statement
    BY <1>2, <2>2 DEF Booting, MakeTable, TablesVerified, TableMissing, RebuildFails, TakeFails, BootOnly
  <2> QED
    BY <2>1, <2>2
<1>3. CASE Kill \/ Stop \/ AdminDeletes
  BY <1>3 DEF Kill, Stop, AdminDeletes
<1> QED
  BY <1>1, <1>2, <1>3 DEF UpgradeNext

\* A table that no statement renames, replaces or sweeps away.
LEMMA UsersStay ==
    ASSUME UpgradeType, NEW u, Inside(u), "users" \in db.own
    PROVE  "users" \in db'.own
<1>1. CASE Renaming(u)
  <2>1. u # "users"
    BY <1>1, OldNames DEF Renaming
  <2>2. db'.own = (IF u \in db.own THEN (db.own \ {u}) \cup {Old[u]} ELSE db.own)
    BY <1>1, OwnOf
  <2> QED
    BY <2>1, <2>2
<1>2. CASE Dropping(u)
  <2>1. Old[u] # "users" /\ "users" \notin Swept(u)
    BY <1>2, OldNames, UpgradedAre DEF Dropping
  <2> QED
    BY <1>2, <2>1, OwnOf
<1>3. CASE Creating(u) \/ Seeding(u) \/ Marking(u)
  BY <1>3, OwnOf
<1>4. CASE Copying(u)
  BY <1>4, OwnOf
<1>5. CASE Taking(u)
  BY <1>5, OwnOf
<1> QED
  BY <1>1, <1>2, <1>3, <1>4, <1>5 DEF Inside

(* The rows of version 1 are there until a copy has them.                   *)
LEMMA UsersNext ==
    ASSUME UpgradeType, AtInv, TxInv, UsersInv, UpgradeNext
    PROVE  UsersInv'
<1> SUFFICES ASSUME "users" \in owned'
             PROVE  /\ "users" \in kept' \/ "users" \in db'.own \cap disk'.own
                    /\ stage' \in {"remove", "recreate", "import"} => "users" \in kept'
  BY DEF UsersInv
<1>1. /\ "users" \in kept \/ "users" \in db.own \cap disk.own
      /\ stage \in {"remove", "recreate", "import"} => "users" \in kept
      /\ kept' = kept \/ kept' = kept \cup db.own
  BY Frames DEF UsersInv
<1>2. CASE EntryPoint
  <2>1. CASE Remove \/ Import
    BY <1>1, <2>1 DEF Remove, Import, Goes
  <2>2. CASE Begin \/ AllCreated \/ Look \/ KeepCopy
    <3>1. db' = db /\ disk' = disk
      BY <2>2 DEF Begin, AllCreated, Look, KeepCopy, Reads
    <3>2. stage' = "remove" => kept' = kept \cup db.own
      BY <2>2 DEF Begin, AllCreated, Look, KeepCopy, Goes
    <3>3. stage' \in {"recreate", "import"} => stage = "recreate"
      BY <2>2 DEF Begin, AllCreated, Look, KeepCopy, Goes
    <3> QED
      BY <1>1, <3>1, <3>2, <3>3
  <2>3. CASE CreateTable \/ Mend \/ ImportFails \/ MendWithOrphans
    <3>1. db'.own = db.own /\ disk'.own = disk.own
      BY <1>2, <2>3, EntryOwn DEF CreateTable, Mend, ImportFails, MendWithOrphans, Remove, Import, Goes
    <3>2. stage' = stage \/ stage' \in {"boot", "off"}
      BY <2>3 DEF CreateTable, Mend, ImportFails, MendWithOrphans, Goes, Ended
    <3> QED
      BY <1>1, <3>1, <3>2
  <2> QED
    BY <1>2, <2>1, <2>2, <2>3 DEF EntryPoint
<1>3. CASE (Reading \/ Adding) /\ stage = "boot"
  <2>1. db'.own = db.own /\ (disk' = disk \/ disk' = db') /\ stage' = "boot"
    BY <1>3 DEF Reading, Adding
  <2> QED
    BY <1>1, <2>1
<1>4. CASE Ending \/ Committing
  BY <1>1, <1>4 DEF Ending, Committing
<1>5. CASE Deleting
  <2>1. db'.own = db.own /\ disk' = db' /\ stage' = "serve"
    BY <1>5 DEF Deleting, UpgradeType, Content
  <2> QED
    BY <1>1, <2>1
<1>6. ASSUME NEW u, Inside(u)
      PROVE  /\ "users" \in kept' \/ "users" \in db'.own \cap disk'.own
             /\ stage' \in {"remove", "recreate", "import"} => "users" \in kept'
  BY <1>1, <1>6, UsersStay, InsideKeeps
<1> QED
  BY <1>2, <1>3, <1>4, <1>5, <1>6, LaterKinds

\* How the rows of a parent go through a rebuild.
LEMMA InsideServes ==
    ASSUME UpgradeType, AtInv, NEW u, Inside(u), NEW t \in {"vodum_users", "comm_templates"}, Serves(t)
    PROVE  Serves(t)'
<1> DEFINE m == Moved(t)
<1>1. t \in DOMAIN Old /\ t \in Upgraded
  BY DEF Old, Upgraded
<1>2. (m /\ Old[t] \in db.own) \/ (~m /\ t \in db.own)
  BY DEF Serves
<1>3. ASSUME ~Moved(t)', t \in db'.own PROVE Serves(t)'
  BY <1>3 DEF Serves
<1>4. ASSUME Moved(t)', Old[t] \in db'.own PROVE Serves(t)'
  BY <1>4 DEF Serves
<1>5. CASE Renaming(u)
  <2>1. ~m
    BY <1>5, NotMoving DEF Renaming, Working
  <2>2. \A o, x : Doing(o, x)' <=> o = "create" /\ x = u
    BY <1>5 DEF Renaming
  <2>3. Moved(t)' <=> t = u
    BY <2>2 DEF Moved
  <2>4. db'.own = (IF u \in db.own THEN (db.own \ {u}) \cup {Old[u]} ELSE db.own)
    BY <1>5, OwnOf
  <2> QED
    BY <1>2, <1>3, <1>4, <2>1, <2>3, <2>4
<1>6. CASE Creating(u)
  <2>1. m <=> t = u
    BY <1>6, DoingOne DEF Creating, Working, Moved
  <2>2. \A o, x : Doing(o, x)' <=> o = "copy" /\ x = u
    BY <1>6 DEF Creating
  <2>3. Moved(t)' <=> t = u
    BY <2>2 DEF Moved
  <2>4. db'.own = db.own
    BY <1>6, OwnOf
  <2> QED
    BY <1>2, <1>3, <1>4, <2>1, <2>3, <2>4
<1>7. CASE Copying(u)
  <2>1. m <=> t = u
    BY <1>7, DoingOne DEF Copying, Working, Moved
  <2>2. \A o, x : Doing(o, x)' <=> o = "drop" /\ x = u
    BY <1>7 DEF Copying
  <2>3. ~Moved(t)'
    BY <2>2 DEF Moved
  <2>4. db'.own = (IF Old[u] \in db.own THEN db.own \cup {u} ELSE db.own)
    BY <1>7, OwnOf
  <2> QED
    BY <1>2, <1>3, <2>1, <2>3, <2>4
<1>8. CASE Dropping(u)
  <2>1. ~m
    BY <1>8, NotMoving DEF Dropping, Working
  <2>2. ~Moved(t)'
    BY <1>8, QuietNext DEF Dropping, Moved
  <2>3. db'.own = db.own \ (Swept(u) \cup {Old[u]}) /\ u \in DOMAIN Old
    BY <1>8, OwnOf DEF Dropping
  <2>4. t # Old[u] /\ t \notin Swept(u)
    BY <1>1, <2>3, OldNames, UpgradedAre
  <2> QED
    BY <1>2, <1>3, <2>1, <2>2, <2>3, <2>4
<1>9. CASE Seeding(u)
  <2>1. ~m
    BY <1>9, NotMoving DEF Seeding, Working
  <2>2. \A x : ~Doing("create", x)' /\ ~Doing("copy", x)'
    <3>1. CASE Quiet'
      BY <3>1, QuietNext
    <3>2. CASE \A o, x : Doing(o, x)' <=> o = "mark" /\ x = u
      BY <3>2
    <3> QED
      BY <1>9, <3>1, <3>2 DEF Seeding
  <2>3. ~Moved(t)'
    BY <2>2 DEF Moved
  <2> QED
    BY <1>2, <1>3, <1>9, <2>1, <2>3, OwnOf
<1>10. CASE Marking(u) \/ Taking(u)
  <2>1. ~m
    BY <1>10, NotMoving DEF Marking, Taking, Working
  <2>2. ~Moved(t)'
    BY <1>10, QuietNext DEF Marking, Taking, Moved
  <2>3. db.own \subseteq db'.own
    BY <1>10, OwnOf
  <2> QED
    BY <1>2, <1>3, <2>1, <2>2, <2>3
<1> QED
  BY <1>5, <1>6, <1>7, <1>8, <1>9, <1>10 DEF Inside

----------------------------------------------------------------------------
(***************************************************************************)
(* A start that nothing has happened to.                                    *)
(***************************************************************************)

\* What a start that nothing has happened to keeps of a database of version 1.
FirstClean ==
    /\ stage # "create"
    /\ stage \in {"off", "look"} =>
          /\ there
          /\ \/ "users" \in db.own /\ "tasks" \notin db.have
             \/ Serves("vodum_users") /\ "tasks" \in db.have
    /\ stage = "recreate" /\ ~there => "tasks" \notin db.have
    /\ stage \in {"import"} => there
    /\ stage \in {"mend", "boot", "serve"} => there /\ Serves("vodum_users")
Foremost == {"vodum_users", "comm_templates"}

LEMMA CleanIs ==
    CleanInv <=> (Clean => (\A t \in owned \cap Foremost : Serves(t)) /\ ("users" \in owned => FirstClean))
  BY DEF CleanInv, FirstClean, Foremost

LEMMA ServesSame ==
    ASSUME NEW t, ~Moved(t)', ~Moved(t), db'.own = db.own
    PROVE  Serves(t)' <=> Serves(t)
  BY DEF Serves

(* Every other kind of step leaves them, too.                               *)
LEMMA LaterServes ==
    ASSUME UpgradeType, AtInv, TxInv, UpgradeNext, ~EntryPoint, Clean', NEW t \in Foremost, Serves(t)
    PROVE  Serves(t)'
<1>1. t \in DOMAIN Old
  BY DEF Foremost, Old
<1>2. CASE Reading /\ stage = "boot"
  <2>1. "failed" \notin scars'
    BY DEF Clean
  <2>2. ~Moved(t) /\ Quiet' /\ db'.own = db.own
    BY <1>1, <1>2, <2>1 DEF Reading
  <2> QED
    BY <2>2, QuietNext, ServesSame DEF Moved
<1>3. CASE Adding /\ stage = "boot"
  <2>1. Quiet /\ Quiet' /\ db'.own = db.own
    BY <1>3 DEF Adding
  <2> QED
    BY <2>1, QuietNext, QuietDoing, ServesSame DEF Moved
<1>4. CASE Ending
  <2>1. stage = "serve" \/ (stage = "boot" /\ at[2] = 0)
    BY <1>4 DEF Ending
  <2>2. "failed" \notin scars
    BY <1>4 DEF Ending, Clean
  <2>3. db = disk /\ ~Moved(t)
    BY <2>1, <2>2, NotBooting DEF TxInv, Moved
  <2>4. ~Moved(t)'
    BY <1>4 DEF Ending, Moved, Doing
  <2> QED
    BY <1>4, <2>3, <2>4, ServesSame DEF Ending
<1>5. CASE Committing
  <2>1. Quiet /\ Quiet' /\ db'.own = db.own
    BY <1>5 DEF Committing
  <2> QED
    BY <2>1, QuietNext, QuietDoing, ServesSame DEF Moved
<1>6. CASE Deleting
  <2>1. db'.own = db.own /\ ~Moved(t) /\ ~Moved(t)'
    BY <1>6 DEF Deleting, Moved, Doing, UpgradeType, Content
  <2> QED
    BY <2>1, ServesSame
<1>7. ASSUME NEW u, Inside(u) PROVE Serves(t)'
  BY <1>7, InsideServes DEF Foremost
<1> QED
  BY <1>2, <1>3, <1>4, <1>5, <1>6, <1>7, LaterKinds

LEMMA ScarsStay == ASSUME UpgradeType, AtInv, UpgradeNext PROVE scars \subseteq scars'
<1>1. CASE EntryPoint
  BY <1>1 DEF EntryPoint, Begin, CreateTable, AllCreated, Look, KeepCopy, Remove, Import, ImportFails, Mend,
              MendWithOrphans
<1>2. ASSUME NEW t, Inside(t) PROVE scars \subseteq scars'
  BY <1>2, InsideKeeps
<1> QED
  BY <1>1, <1>2, LaterKinds DEF Reading, Adding, Ending, Committing, Deleting

\* Where the steps of each kind lead.
LEMMA LaterStages ==
    ASSUME UpgradeType, AtInv, TxInv, PathInv, UpgradeNext, ~EntryPoint, Clean'
    PROVE  /\ stage \in {"boot", "serve"} /\ stage' \in {"off", "boot", "serve"}
           /\ stage' = "off" => "tasks" \in db'.have
<1>1. CASE Ending
  <2>1. stage = "serve" \/ (stage = "boot" /\ at[2] = 0)
    BY <1>1 DEF Ending
  <2>2. "failed" \notin scars
    BY <1>1 DEF Ending, Clean
  <2> QED
    BY <1>1, <2>1, <2>2 DEF Ending, TxInv, PathInv
<1>2. CASE (Reading /\ stage = "boot") \/ (Adding /\ stage = "boot") \/ Committing \/ Deleting
  BY <1>2 DEF Reading, Adding, Committing, Deleting
<1>3. ASSUME NEW t, Inside(t) PROVE stage = "boot" /\ stage' = "boot"
  BY <1>3, InsideKeeps
<1> QED
  BY <1>1, <1>2, <1>3, LaterKinds

(* Where nothing has interrupted a start, the rows are in the table itself  *)
(* but for the middle of its rebuild, and those of version 1 are imported.  *)
LEMMA CleanNext ==
    ASSUME UpgradeType, AtInv, TxInv, PathInv, CleanInv, UpgradeNext
    PROVE  CleanInv'
<1> SUFFICES ASSUME Clean'
             PROVE  (\A t \in owned \cap Foremost : Serves(t)') /\ ("users" \in owned => FirstClean')
  <2>1. owned' = owned
    BY Frames
  <2> QED
    BY <2>1 DEF CleanInv, FirstClean, Foremost
<1>1. Clean
  BY ScarsStay DEF Clean
<1>2. \A t \in owned \cap Foremost : Serves(t)
  BY <1>1, CleanIs
<1>3. "users" \in owned => FirstClean
  BY <1>1, CleanIs
<1>4. CASE ~EntryPoint
  <2>1. \A t \in owned \cap Foremost : Serves(t)'
    BY <1>2, <1>4, LaterServes
  <2>2. ASSUME "users" \in owned PROVE FirstClean'
    <3>1. stage \in {"boot", "serve"} /\ stage' \in {"off", "boot", "serve"} /\ (stage' = "off" => "tasks" \in db'.have)
      BY <1>4, LaterStages
    <3>2. there /\ Serves("vodum_users")
      BY <1>3, <2>2, <3>1 DEF FirstClean
    <3>3. Serves("vodum_users")'
      BY <1>4, <3>2, LaterServes DEF Foremost
    <3>4. there'
      BY <1>4, <3>2, ThereStays DEF EntryPoint
    <3> QED
      BY <3>1, <3>3, <3>4 DEF FirstClean
  <2> QED
    BY <2>1, <2>2
<1>5. CASE EntryPoint /\ (Remove \/ Import)
  <2>1. owned \cap Foremost = {}
    BY <1>5 DEF Remove, Import, Goes, PathInv, Settled, Foremost, Upgraded
  <2>2. ASSUME "users" \in owned, Remove PROVE FirstClean'
    BY <2>2 DEF Remove, Goes, Ddl, Nothing, FirstClean
  <2>3. ASSUME "users" \in owned, Import PROVE FirstClean'
    <3>1. there /\ stage' = "mend"
      BY <1>3, <2>3 DEF Import, Goes, FirstClean
    <3>2. "vodum_users" \in db'.own
      BY <2>3 DEF Import, Ddl, Imported, UpgradeType, Content
    <3>3. ~Moved("vodum_users")'
      BY <3>1 DEF Moved, Doing
    <3>4. there' = there
      BY <2>3 DEF Import
    <3> QED
      BY <3>1, <3>2, <3>3, <3>4 DEF FirstClean, Serves
  <2> QED
    BY <1>5, <2>1, <2>2, <2>3
<1>6. CASE EntryPoint /\ ~Remove /\ ~Import
  <2>1. db'.own = db.own /\ \A t : ~Moved(t) /\ ~Moved(t)'
    BY <1>6, EntryOwn, EntryNotDoing DEF Moved
  <2>2. \A t : Serves(t)' <=> Serves(t)
    BY <2>1, ServesSame
  <2>3. ASSUME "users" \in owned PROVE FirstClean'
    <3> USE <1>3, <2>3
    <3>1. Serves("vodum_users")' <=> Serves("vodum_users")
      BY <2>2
    <3>2. CASE Begin
      BY <2>1, <3>1, <3>2 DEF Begin, Goes, Reads, FirstClean
    <3>3. CASE CreateTable
      <4>1. stage \in {"create", "recreate"} /\ stage' = stage /\ there' = TRUE
        BY <3>3 DEF CreateTable
      <4> QED
        BY <4>1 DEF FirstClean
    <3>4. CASE AllCreated
      <4>1. 14 \in DOMAIN TablesSql /\ TablesSql[14] = "tasks"
        BY DEF TablesSql
      <4>2. "tasks" \in db.have
        BY <3>4, <4>1 DEF AllCreated, Missing
      <4>3. /\ (stage = "create" /\ stage' = "look") \/ (stage = "recreate" /\ stage' = "import")
            /\ there' = there
        BY <3>4 DEF AllCreated, Goes
      <4> QED
        BY <4>2, <4>3 DEF FirstClean
    <3>5. CASE Look
      <4>1. stage = "look" /\ stage' = (IF "tasks" \in db.have THEN "mend" ELSE "keep") /\ there' = there
        BY <3>5 DEF Look, Goes
      <4> QED
        BY <3>1, <4>1 DEF FirstClean
    <3>6. CASE KeepCopy
      BY <3>6 DEF KeepCopy, Goes, FirstClean
    <3>7. CASE ImportFails
      BY <3>7 DEF ImportFails, Clean
    <3>8. CASE Mend
      <4>1. stage = "mend" /\ stage' = "boot" /\ there' = there
        BY <3>8 DEF Mend, Goes
      <4> QED
        BY <3>1, <4>1 DEF FirstClean
    <3>9. CASE MendWithOrphans
      <4>1. stage = "mend" /\ stage' = "off" /\ there' = there /\ db'.have = db.have
        BY <3>9 DEF MendWithOrphans, Mended, UpgradeType, Content
      <4> QED
        BY <3>1, <4>1 DEF FirstClean, PathInv
    <3> QED
      BY <1>6, <3>2, <3>3, <3>4, <3>5, <3>6, <3>7, <3>8, <3>9 DEF EntryPoint
  <2> QED
    BY <1>2, <2>2, <2>3
<1> QED
  BY <1>4, <1>5, <1>6

----------------------------------------------------------------------------
(***************************************************************************)
(* A database that has been served.                                         *)
(***************************************************************************)

\* The constraints and the foreign keys that a rebuild would look at.
LEMMA MarksOf ==
    ASSUME UpgradeType, NEW u
    PROVE  /\ Renaming(u) => /\ db'.dated = db.dated
                             /\ db'.stray = db.stray \cup {<<r[1], r[2]>> : r \in {s \in Refs : s[2] = u}}
           /\ Creating(u) => db'.dated = db.dated \ {u} /\ db'.stray = {s \in db.stray : s[1] # u}
           /\ Copying(u) \/ Dropping(u) \/ Seeding(u) \/ Marking(u) \/ Taking(u) =>
                 db'.dated = db.dated /\ db'.stray = db.stray
<1> USE DEF UpgradeType, Content
<1>1. Renaming(u) => /\ db'.dated = db.dated
                     /\ db'.stray = db.stray \cup {<<r[1], r[2]>> : r \in {s \in Refs : s[2] = u}}
  BY DEF Renaming, Changing
<1>2. Creating(u) => db'.dated = db.dated \ {u} /\ db'.stray = {s \in db.stray : s[1] # u}
  BY DEF Creating, Changing
<1>3. Copying(u) => db'.dated = db.dated /\ db'.stray = db.stray
  BY DEF Copying, Writing
<1>4. Dropping(u) => db'.dated = db.dated /\ db'.stray = db.stray
  BY DEF Dropping, Changing
<1>5. Seeding(u) => db'.dated = db.dated /\ db'.stray = db.stray
  BY DEF Seeding, Writing, Reads
<1>6. Marking(u) \/ Taking(u) => db'.dated = db.dated /\ db'.stray = db.stray
  BY DEF Marking, Taking, Writing
<1> QED
  BY <1>1, <1>2, <1>3, <1>4, <1>5, <1>6

LEMMA StaysUpToDate ==
    ASSUME NEW t \in DOMAIN Old, ~Outdated(t), db'.dated \subseteq db.dated,
           <<t, "comm_templates">> \in db'.stray => <<t, "comm_templates">> \in db.stray
    PROVE  ~Outdated(t)'
  BY DEF Outdated

\* The templates are rebuilt before the tables that are rebuilt for their keys.
LEMMA RepairsLater ==
    ASSUME AtInv, Doing("rename", "comm_templates"), NEW t \in DOMAIN Old \ Upgraded
    PROVE  ~Past(t)
<1>1. stage = "boot" /\ at[1] \in 1..28 /\ at[2] \in 1..Size(at[1])
  BY Sizes DEF Doing, AtInv
<1>2. Line(at[1], at[2]) = <<"rename", "comm_templates">>
  BY DEF Doing
<1> DEFINE i == at[1]
           j == at[2]
<1>3. i = 14 /\ j = 1
  <2> HIDE DEF i, j
  <2> DEFINE op == "rename"
             w == "comm_templates"
  <2>1. i \in 1..28 /\ j \in 1..Size(i) /\ Line(i, j) = <<op, w>>
    BY <1>1, <1>2 DEF i, j
  <2> HIDE DEF op, w
  <2>2. Placed(i, j, op, w)
    BY <2>1, LinesOf
  <2> QED
    BY <2>2, RebuildAtIs DEF Placed, op, w
<1>4. t \in {"comm_scheduled", "comm_template_attachments", "comm_history"}
  BY OldIs DEF Upgraded
<1>5. RebuildAt[t][1] = 14 /\ RebuildAt[t][2] \in {8, 12, 16}
  BY <1>4, RebuildAtIs
<1> QED
  BY <1>1, <1>3, <1>5 DEF Past

(* What a start has rebuilt, or found as it should be, stays so for this    *)
(* start.                                                                   *)
LEMMA PastNext ==
    ASSUME UpgradeType, AtInv, UpgradeNext, "failed" \notin scars',
           \A t \in DOMAIN Old : Past(t) => ~Outdated(t)
    PROVE  \A t \in DOMAIN Old : Past(t)' => ~Outdated(t)'
<1> SUFFICES ASSUME NEW t \in DOMAIN Old, Past(t)' PROVE ~Outdated(t)'
  OBVIOUS
<1>1. CASE EntryPoint
  <2>1. CASE Mend \/ CreateTable
    <3>1. Adding
      BY <2>1, Adds
    <3> QED
      BY <3>1, StaysUpToDate DEF Adding
  <2>2. CASE Begin \/ AllCreated \/ Look \/ KeepCopy \/ Remove \/ Import \/ ImportFails \/ MendWithOrphans
    <3>1. stage' \notin {"boot", "serve"}
      BY <2>2 DEF Begin, AllCreated, Look, KeepCopy, Remove, Import, ImportFails, MendWithOrphans, Goes, Ended
    <3> QED
      BY <3>1 DEF Past
  <2> QED
    BY <1>1, <2>1, <2>2 DEF EntryPoint
<1>2. CASE Reading /\ stage = "boot"
  <2>1. ~Outdated(t) /\ db' = db
    BY <1>2 DEF Reading
  <2> QED
    BY <2>1, StaysUpToDate
<1>3. CASE Adding /\ stage = "boot"
  BY <1>3, StaysUpToDate DEF Adding
<1>4. CASE Ending
  BY <1>4 DEF Ending, Past
<1>5. CASE Committing
  BY <1>5, StaysUpToDate DEF Committing
<1>6. CASE Deleting
  <2>1. Past(t) /\ db'.dated = db.dated /\ db'.stray = db.stray
    BY <1>6 DEF Deleting, Past, UpgradeType, Content
  <2> QED
    BY <2>1, StaysUpToDate
<1>7. ASSUME NEW u, Inside(u) PROVE ~Outdated(t)'
  <2>1. CASE Renaming(u)
    <3>1. Past(t) /\ Doing("rename", u)
      BY <2>1 DEF Renaming, Working
    <3>2. db'.dated = db.dated
          /\ db'.stray = db.stray \cup {<<r[1], r[2]>> : r \in {s \in Refs : s[2] = u}}
      BY <2>1, MarksOf
    <3>3. CASE t \in Upgraded
      BY <3>1, <3>2, <3>3 DEF Outdated
    <3>4. CASE t \notin Upgraded
      <4>1. u # "comm_templates"
        BY <3>1, <3>4, RepairsLater
      <4>2. \A s \in {<<r[1], r[2]>> : r \in {s \in Refs : s[2] = u}} : s[2] = u
        OBVIOUS
      <4>3. <<t, "comm_templates">> \in db'.stray => <<t, "comm_templates">> \in db.stray
        BY <3>2, <4>1, <4>2
      <4> QED
        BY <3>1, <3>2, <4>3, StaysUpToDate
    <3> QED
      BY <3>3, <3>4
  <2>2. CASE Creating(u)
    <3>1. Past(t) \/ t = u
      BY <2>2 DEF Creating, Working
    <3>2. db'.dated = db.dated \ {u} /\ db'.stray = {s \in db.stray : s[1] # u}
      BY <2>2, MarksOf
    <3>3. CASE t = u
      BY <3>2, <3>3 DEF Outdated
    <3>4. CASE Past(t)
      BY <3>2, <3>4, StaysUpToDate
    <3> QED
      BY <3>1, <3>3, <3>4
  <2>3. CASE Copying(u) \/ Dropping(u) \/ Seeding(u) \/ Marking(u) \/ Taking(u)
    <3>1. Past(t)
      BY <2>3 DEF Copying, Dropping, Seeding, Marking, Taking, Working
    <3>2. db'.dated = db.dated /\ db'.stray = db.stray
      BY <2>3, MarksOf
    <3> QED
      BY <3>1, <3>2, StaysUpToDate
  <2> QED
    BY <1>7, <2>1, <2>2, <2>3 DEF Inside
<1> QED
  BY <1>1, <1>2, <1>3, <1>4, <1>5, <1>6, <1>7, LaterKinds

\* No rebuild is under way.
Still == \A t \in DOMAIN Old : ~Doing("create", t) /\ ~Doing("copy", t) /\ ~Doing("drop", t)
Final == Fresh(db) /\ Fresh(disk) /\ disk.own \subseteq db.own /\ Still

LEMMA FreshIs ==
    FreshInv <=> ("failed" \notin scars =>
                    /\ \A t \in DOMAIN Old : Past(t) => ~Outdated(t)
                    /\ "served" \in scars => Final)
  BY DEF FreshInv, Final, Still

\* A database that has been upgraded stays so, and keeps its rows.
LEMMA FinalNext ==
    ASSUME UpgradeType, AtInv, TxInv, PathInv, UpgradeNext, "served" \in scars, Final
    PROVE  /\ "failed" \in scars' \/ Final'
           /\ disk.own \subseteq disk'.own
<1>1. ASSUME db'.own = db.own, db'.dated \subseteq db.dated, db'.stray \subseteq db.stray,
             disk' = disk \/ disk' = db', Still'
      PROVE  Final' /\ disk.own \subseteq disk'.own
  <2>1. Fresh(db')
    BY <1>1 DEF Final, Fresh
  <2>2. Fresh(disk') /\ disk'.own \subseteq db'.own /\ disk.own \subseteq disk'.own
    BY <1>1, <2>1 DEF Final
  <2> QED
    BY <1>1, <2>1, <2>2 DEF Final, Fresh
<1>2. CASE EntryPoint
  <2>1. ~Remove /\ ~Import
    BY DEF Remove, Import, Goes, PathInv, Settled
  <2>2. db'.own = db.own /\ Still' /\ ~tx /\ db = disk
    BY <1>2, <2>1, EntryOwn, EntryNotDoing, EntryStages DEF Still, TxInv
  <2>3. CASE Begin \/ AllCreated \/ Look \/ KeepCopy \/ ImportFails
    <3>1. db' = db /\ disk' = disk
      BY <2>2, <2>3 DEF Begin, AllCreated, Look, KeepCopy, ImportFails, Reads, Ended
    <3> QED
      BY <1>1, <2>2, <3>1
  <2>4. CASE CreateTable \/ Mend
    <3>1. Adding
      BY <2>4, Adds
    <3> QED
      BY <1>1, <2>2, <3>1 DEF Adding
  <2>5. CASE MendWithOrphans
    <3>1. db'.dated = db.dated /\ db'.stray = {} /\ disk' = db'
      BY <2>5 DEF MendWithOrphans, Mended, UpgradeType, Content
    <3> QED
      BY <1>1, <2>2, <3>1
  <2> QED
    BY <1>2, <2>1, <2>3, <2>4, <2>5 DEF EntryPoint
<1>3. CASE Reading /\ stage = "boot"
  <2>1. Still'
    BY <1>3, QuietNext DEF Reading, Still
  <2> QED
    BY <1>1, <1>3, <2>1 DEF Reading
<1>4. CASE Adding /\ stage = "boot"
  <2>1. Still'
    BY <1>4, QuietNext DEF Adding, Still
  <2> QED
    BY <1>1, <1>4, <2>1 DEF Adding
<1>5. CASE Ending
  <2>1. Still'
    BY <1>5 DEF Ending, Still, Doing
  <2> QED
    BY <1>5, <2>1 DEF Ending, Final, Fresh
<1>6. CASE Committing
  <2>1. Still'
    BY <1>6, QuietNext DEF Committing, Still
  <2> QED
    BY <1>1, <1>6, <2>1 DEF Committing
<1>7. CASE Deleting
  <2>1. Still'
    BY <1>7 DEF Deleting, Still, Doing
  <2>2. db'.own = db.own /\ db'.dated = db.dated /\ db'.stray = db.stray /\ disk' = db'
    BY <1>7 DEF Deleting, UpgradeType, Content
  <2> QED
    BY <1>1, <2>1, <2>2
<1>8. ASSUME NEW u, Inside(u)
      PROVE  ("failed" \in scars' \/ Final') /\ disk.own \subseteq disk'.own
  <2>1. CASE Renaming(u)
    <3>1. Outdated(u) /\ u \in DOMAIN Old
      BY <2>1 DEF Renaming
    <3> QED
      BY <3>1 DEF Final, Fresh, Outdated
  <2>2. CASE Creating(u) \/ Copying(u) \/ Dropping(u)
    BY <2>2 DEF Creating, Copying, Dropping, Working, Final, Still
  <2>3. CASE Seeding(u)
    <3>1. Still'
      <4>1. CASE Quiet'
        BY <4>1, QuietNext DEF Still
      <4>2. CASE \A o, x : Doing(o, x)' <=> o = "mark" /\ x = u
        BY <4>2 DEF Still
      <4> QED
        BY <2>3, <4>1, <4>2 DEF Seeding
    <3>2. db'.own = db.own /\ db'.dated = db.dated /\ db'.stray = db.stray
      BY <2>3, OwnOf, MarksOf
    <3> QED
      BY <1>1, <1>8, <3>1, <3>2, InsideKeeps
  <2>4. CASE Marking(u)
    <3>1. Still'
      BY <2>4, QuietNext DEF Marking, Still
    <3>2. db'.own = db.own /\ db'.dated = db.dated /\ db'.stray = db.stray
      BY <2>4, OwnOf, MarksOf
    <3> QED
      BY <1>1, <1>8, <3>1, <3>2, InsideKeeps
  <2>5. CASE Taking(u)
    <3>1. Still'
      BY <2>5, QuietNext DEF Taking, Still
    <3>2. db'.own = db.own \cup {u} /\ db'.dated = db.dated /\ db'.stray = db.stray /\ disk' = disk
      BY <2>5, OwnOf, MarksOf DEF Taking, Writing
    <3> QED
      BY <3>1, <3>2 DEF Final, Fresh
  <2> QED
    BY <1>8, <2>1, <2>2, <2>3, <2>4, <2>5 DEF Inside
<1> QED
  BY <1>2, <1>3, <1>4, <1>5, <1>6, <1>7, <1>8, LaterKinds

(* After a whole start nothing is left to rebuild.                          *)
LEMMA FreshNext ==
    ASSUME UpgradeType, AtInv, TxInv, PathInv, FreshInv, UpgradeNext
    PROVE  FreshInv'
<1> SUFFICES ASSUME "failed" \notin scars'
             PROVE  /\ \A t \in DOMAIN Old : Past(t)' => ~Outdated(t)'
                    /\ "served" \in scars' => Final'
  BY DEF FreshInv, Final, Still
<1>1. "failed" \notin scars
  BY ScarsStay
<1>2. \A t \in DOMAIN Old : Past(t) => ~Outdated(t)
  BY <1>1, FreshIs
<1>3. \A t \in DOMAIN Old : Past(t)' => ~Outdated(t)'
  BY <1>2, PastNext
<1>4. CASE "served" \in scars
  BY <1>1, <1>3, <1>4, FreshIs, FinalNext
<1>5. CASE "served" \notin scars
  <2>1. ASSUME "served" \in scars' PROVE Ending /\ stage = "serve"
    <3>1. ~EntryPoint
      <4>1. EntryPoint => scars' = scars \/ scars' = scars \cup {"unimported"}
        BY DEF EntryPoint, Begin, CreateTable, AllCreated, Look, KeepCopy, Remove, Import, ImportFails,
               Mend, MendWithOrphans
      <4> QED
        BY <1>5, <2>1, <4>1
    <3>2. \A t : ~Inside(t)
      BY <1>5, <2>1, InsideKeeps
    <3> QED
      BY <1>5, <2>1, <3>1, <3>2, LaterKinds DEF Reading, Adding, Ending, Committing, Deleting
  <2>2. ASSUME "served" \in scars' PROVE Final'
    <3>1. \A t \in DOMAIN Old : ~Outdated(t)
      BY <1>2, <2>1, <2>2 DEF Past
    <3>2. db.dated \subseteq Upgraded /\ Upgraded \subseteq DOMAIN Old
      BY UpgradedAre DEF UpgradeType, Content
    <3>3. Fresh(db)
      BY <3>1, <3>2 DEF Outdated, Fresh
    <3>4. db' = disk /\ disk' = disk /\ db = disk /\ stage' = "off"
      BY <2>1, <2>2 DEF Ending, TxInv
    <3> QED
      BY <3>3, <3>4 DEF Final, Fresh, Still, Doing
  <2> QED
    BY <1>3, <2>2
<1> QED
  BY <1>4, <1>5

----------------------------------------------------------------------------
(***************************************************************************)
(* Bundled rows.                                                            *)
(***************************************************************************)

\* The bundled rows given, and the marks of those that are given once.
LEMMA GivenOf ==
    ASSUME UpgradeType, NEW u
    PROVE  /\ Renaming(u) \/ Creating(u) \/ Copying(u) \/ Dropping(u) \/ Taking(u) =>
                 db'.given = db.given /\ db'.marked = db.marked
           /\ Seeding(u) => \/ /\ Wanted(u) /\ tx' = TRUE /\ disk' = disk
                               /\ db'.given = db.given \cup {u} /\ db'.marked = db.marked
                            \/ ~Wanted(u) /\ tx' = tx /\ disk' = disk /\ db' = db
           /\ Marking(u) => db'.given = db.given /\ db'.marked = db.marked \cup {u} /\ disk' = disk
<1> USE DEF UpgradeType, Content
<1>1. Renaming(u) => db'.given = db.given /\ db'.marked = db.marked
  BY DEF Renaming, Changing
<1>2. Creating(u) \/ Dropping(u) => db'.given = db.given /\ db'.marked = db.marked
  BY DEF Creating, Dropping, Changing
<1>3. Copying(u) \/ Taking(u) => db'.given = db.given /\ db'.marked = db.marked
  BY DEF Copying, Taking, Writing
<1>4. Seeding(u) => \/ /\ Wanted(u) /\ tx' = TRUE /\ disk' = disk
                       /\ db'.given = db.given \cup {u} /\ db'.marked = db.marked
                    \/ ~Wanted(u) /\ tx' = tx /\ disk' = disk /\ db' = db
  BY DEF Seeding, Writing, Reads
<1>5. Marking(u) => db'.given = db.given /\ db'.marked = db.marked \cup {u} /\ disk' = disk
  BY DEF Marking, Writing
<1> QED
  BY <1>1, <1>2, <1>3, <1>4, <1>5

Once == {"plans", "texts"}
Recorded(d) == \A k \in Once : k \in d.given => k \in d.marked
Gone(d) == deleted \subseteq d.marked \ d.given

LEMMA DeletedIs ==
    DeletedInv <=>
       /\ \A k \in Once : /\ k \in db.given => k \in db.marked \/ Doing("mark", k)
                          /\ Doing("mark", k) /\ k \notin db.marked => tx
       /\ Recorded(disk) /\ Gone(db) /\ Gone(disk)
  BY DEF DeletedInv, Once, Recorded, Gone

(* A bundled row that is given once is marked in the same transaction.      *)
LEMMA DeletedNext ==
    ASSUME UpgradeType, AtInv, TxInv, PathInv, DeletedInv, UpgradeNext
    PROVE  DeletedInv'
<1>1. /\ \A k \in Once : /\ k \in db.given => k \in db.marked \/ Doing("mark", k)
                         /\ Doing("mark", k) /\ k \notin db.marked => tx
      /\ Recorded(disk) /\ Gone(db) /\ Gone(disk)
  BY DeletedIs
<1>2. ASSUME \A k : ~Doing("mark", k) PROVE Recorded(db)
  BY <1>1, <1>2 DEF Recorded
\* A step after which no mark is due.
<1>3. ASSUME \A k : ~Doing("mark", k)', Recorded(db'), Recorded(disk'),
             deleted' \subseteq (db'.marked \cap disk'.marked) \ (db'.given \cup disk'.given)
      PROVE  DeletedInv'
  BY <1>3 DEF DeletedInv, Recorded, Once
\* A step that leaves bundled rows alone, and is not the one that marks them.
<1>4. ASSUME \A k : ~Doing("mark", k)', \A k : Doing("mark", k) => k \in db.marked,
             db'.given = db.given, db'.marked = db.marked, disk' = disk \/ disk' = db', deleted' = deleted
      PROVE  DeletedInv'
  <2>1. Recorded(db)
    BY <1>1, <1>4 DEF Recorded
  <2> QED
    BY <1>1, <1>3, <1>4, <2>1 DEF Recorded, Gone
<1>5. CASE EntryPoint
  <2>1. /\ \A k : ~Doing("mark", k)' /\ ~Doing("mark", k)
        /\ ~tx /\ db = disk /\ deleted' = deleted
    <3>1. deleted' = deleted
      BY <1>5 DEF EntryPoint, Begin, CreateTable, AllCreated, Look, KeepCopy, Remove, Import, ImportFails,
                  Mend, MendWithOrphans, Elsewhere
    <3> QED
      BY <1>5, <3>1, EntryNotDoing, EntryStages DEF TxInv
  <2>2. CASE Begin \/ AllCreated \/ Look \/ KeepCopy \/ ImportFails
    <3>1. db' = db /\ disk' = disk
      BY <2>1, <2>2 DEF Begin, AllCreated, Look, KeepCopy, ImportFails, Reads, Ended
    <3> QED
      BY <1>4, <2>1, <3>1
  <2>3. CASE CreateTable \/ Mend
    <3>1. Adding
      BY <2>3, Adds
    <3> QED
      BY <1>4, <2>1, <3>1 DEF Adding
  <2>4. CASE Remove
    <3>1. db'.given = {} /\ disk' = db'
      BY <2>1, <2>4 DEF Remove, Ddl, Nothing
    <3>2. deleted = {}
      BY <2>4 DEF Remove, Goes, PathInv, Settled
    <3> QED
      BY <1>3, <2>1, <3>1, <3>2 DEF Recorded
  <2>5. CASE Import
    BY <1>4, <2>1, <2>5 DEF Import, Ddl, UpgradeType, Content
  <2>6. CASE MendWithOrphans
    BY <1>4, <2>1, <2>6 DEF MendWithOrphans, Mended, UpgradeType, Content
  <2> QED
    BY <1>5, <2>2, <2>3, <2>4, <2>5, <2>6 DEF EntryPoint
<1>6. CASE Reading /\ stage = "boot"
  BY <1>4, <1>6, QuietNext DEF Reading
<1>7. CASE Adding /\ stage = "boot"
  BY <1>4, <1>7, QuietNext, QuietDoing DEF Adding
<1>8. CASE Ending
  <2>1. \A k : ~Doing("mark", k)'
    BY <1>8 DEF Ending, Doing
  <2> QED
    BY <1>1, <1>3, <1>8, <2>1 DEF Ending, Gone
<1>9. CASE Committing
  BY <1>4, <1>9, QuietNext, QuietDoing DEF Committing
<1>10. CASE Deleting
  <2>1. PICK k \in db.given \ {"system"} :
           /\ db' = [db EXCEPT !.given = @ \ {k}] /\ disk' = db'
           /\ deleted' = deleted \cup {k}
    BY <1>10 DEF Deleting
  <2>2. k \in Once /\ db'.given = db.given \ {k} /\ db'.marked = db.marked
    BY <2>1 DEF UpgradeType, Content, Bundled, Once
  <2>3. \A x : ~Doing("mark", x)' /\ ~Doing("mark", x)
    BY <1>10 DEF Deleting, Doing
  <2>4. Recorded(db)
    BY <1>2, <2>3
  <2>5. k \in db.marked
    BY <2>1, <2>2, <2>4 DEF Recorded
  <2> QED
    BY <1>1, <1>3, <2>1, <2>2, <2>3, <2>4, <2>5 DEF Recorded, Gone
<1>11. ASSUME NEW u, Inside(u) PROVE DeletedInv'
  <2>1. deleted' = deleted /\ (disk' = disk \/ disk' = db')
    BY <1>11, InsideKeeps
  <2>2. CASE Renaming(u) \/ Creating(u) \/ Copying(u) \/ Dropping(u) \/ Taking(u)
    <3>1. \A k : ~Doing("mark", k)
      BY <2>2, DoingOne DEF Renaming, Creating, Copying, Dropping, Taking, Working
    <3>2. \A k : ~Doing("mark", k)'
      <4>1. CASE Renaming(u)
        BY <4>1 DEF Renaming
      <4>2. CASE Creating(u)
        BY <4>2 DEF Creating
      <4>3. CASE Copying(u)
        BY <4>3 DEF Copying
      <4>4. CASE Dropping(u) \/ Taking(u)
        BY <4>4, QuietNext DEF Dropping, Taking
      <4> QED
        BY <2>2, <4>1, <4>2, <4>3, <4>4
    <3> QED
      BY <1>4, <2>1, <2>2, <3>1, <3>2, GivenOf
  <2>3. CASE Seeding(u)
    <3>1. \A k : ~Doing("mark", k)
      BY <2>3, DoingOne DEF Seeding, Working
    <3>2. Recorded(db)
      BY <1>2, <3>1
    <3>3. \/ u = "system" /\ \A k : ~Doing("mark", k)'
          \/ u \in Once /\ \A k : Doing("mark", k)' <=> k = u
      BY <2>3, QuietNext DEF Seeding, Once
    <3>4. CASE ~Wanted(u)
      <4>1. db' = db /\ disk' = disk
        BY <2>3, <3>4, GivenOf
      <4>2. u \in Once /\ u \in db.marked
        BY <3>3, <3>4 DEF Wanted
      <4>3. \A k : Doing("mark", k)' <=> k = u
        BY <3>3, <4>2 DEF Once
      <4> QED
        BY <1>1, <2>1, <3>2, <4>1, <4>2, <4>3 DEF DeletedInv, Recorded, Gone, Once
    <3>5. CASE Wanted(u)
      <4>1. tx' = TRUE /\ disk' = disk /\ db'.given = db.given \cup {u} /\ db'.marked = db.marked
        BY <2>3, <3>5, GivenOf
      <4>2. u \notin deleted
        <5>1. CASE u = "system"
          BY <5>1 DEF UpgradeType
        <5>2. CASE u \in Once
          BY <1>1, <3>5, <5>2 DEF Wanted, Once, Gone
        <5> QED
          BY <3>3, <5>1, <5>2
      <4>3. \A k \in Once : /\ k \in db'.given => k \in db'.marked \/ Doing("mark", k)'
                            /\ Doing("mark", k)' /\ k \notin db'.marked => tx'
        BY <3>2, <3>3, <4>1 DEF Recorded, Once
      <4> QED
        BY <1>1, <2>1, <4>1, <4>2, <4>3 DEF DeletedInv, Recorded, Gone, Once
    <3> QED
      BY <3>4, <3>5
  <2>4. CASE Marking(u)
    <3>1. \A k : Doing("mark", k) => k = u
      BY <2>4, DoingOne DEF Marking, Working
    <3>2. \A k : ~Doing("mark", k)'
      BY <2>4, QuietNext DEF Marking
    <3>3. db'.given = db.given /\ db'.marked = db.marked \cup {u} /\ disk' = disk
      BY <2>4, GivenOf
    <3>4. Recorded(db')
      BY <1>1, <3>1, <3>3 DEF Recorded
    <3> QED
      BY <1>1, <1>3, <2>1, <3>2, <3>3, <3>4 DEF Gone
  <2> QED
    BY <1>11, <2>2, <2>3, <2>4 DEF Inside
<1> QED
  BY <1>5, <1>6, <1>7, <1>8, <1>9, <1>10, <1>11, LaterKinds

----------------------------------------------------------------------------
(***************************************************************************)
(* The invariant holds at first and after every step; the theorems.         *)
(***************************************************************************)

(* The databases a first start can find.                                    *)
LEMMA FirstDatabase ==
    ASSUME UpgradeInit
    PROVE  /\ disk \in Content
           /\ disk.given = {} /\ disk.marked = {}
           /\ "users" \in disk.own => disk.have = {"users"} /\ disk # Nothing
           /\ disk.own \cap Upgraded # {} => "tasks" \in disk.have
<1> DEFINE First(d) ==
              /\ d \in Content
              /\ d.given = {} /\ d.marked = {}
              /\ "users" \in d.own => d.have = {"users"} /\ d # Nothing
              /\ d.own \cap Upgraded # {} => "tasks" \in d.have
<1>1. First(Nothing)
  BY DEF Nothing, Content
<1>2. ASSUME NEW h \in SUBSET Name, NEW o \in SUBSET Name, NEW w \in SUBSET Upgraded,
             "users" \in o => h = {"users"}, o \cap Upgraded # {} => "tasks" \in h
      PROVE  First(Installed(h, o, w))
  <2> DEFINE d == Installed(h, o, w)
  <2>1. Nothing = [have |-> {}, own |-> {}, dated |-> {}, stray |-> {}, given |-> {}, marked |-> {}]
    BY DEF Nothing
  <2>2. d = [Nothing EXCEPT !.have = h, !.own = o, !.dated = w]
    BY DEF Installed
  <2>3. d \in Content /\ d.have = h /\ d.own = o /\ d.given = {} /\ d.marked = {}
    BY <2>1, <2>2 DEF Content
  <2>4. "users" \in o => d # Nothing
    <3>1. Nothing.have = {}
      BY <2>1
    <3> QED
      BY <1>2, <2>3, <3>1
  <2> QED
    BY <1>2, <2>3, <2>4
<1>3. First(Installed({"users"}, {"users"}, {}))
  <2>1. {"users"} \subseteq Name /\ {} \subseteq Upgraded /\ {"users"} \cap Upgraded = {}
    BY DEF Name, Upgraded
  <2> QED
    BY <1>2, <2>1
<1>4. /\ Required \cup MailOnly \subseteq Name /\ Table \subseteq Name
      /\ Imported \cup MailOnly \subseteq Name /\ Imported \cup Related \subseteq Name
  <2>1. Table \subseteq Name /\ Imported \subseteq Name /\ MailOnly \subseteq Name /\ Related \subseteq Name
    BY DEF Name
  <2>2. Required \subseteq Table
    BY DEF Table
  <2> QED
    BY <2>1, <2>2
<1>5. "tasks" \in Required /\ "tasks" \in Table
  BY DEF Required, Table
<1>6. "users" \notin Imported /\ "users" \notin MailOnly /\ "users" \notin Related
  BY DEF Imported, MailOnly, Related, Refs, UserRefs, ReferralRefs, CommunicationRefs
<1>7. ASSUME NEW x \in Accounts, NEW w \in SUBSET {"vodum_users"}
      PROVE  First(Installed(Required \cup MailOnly, (Imported \cup MailOnly) \ x, w))
  <2>1. w \subseteq Upgraded
    BY DEF Upgraded
  <2> QED
    BY <1>2, <1>4, <1>5, <1>6, <2>1
<1>8. ASSUME NEW x \in Accounts, NEW w \in SUBSET Upgraded
      PROVE  First(Installed(Table, (Imported \cup Related) \ x, w))
  BY <1>2, <1>4, <1>5, <1>6
<1> HIDE DEF First
<1>9. First(disk)
  <2>1. CASE disk \in {Nothing, Installed({"users"}, {"users"}, {})}
    BY <1>1, <1>3, <2>1
  <2>2. CASE \E without \in Accounts, dated \in SUBSET {"vodum_users"} :
                disk = Installed(Required \cup MailOnly, (Imported \cup MailOnly) \ without, dated)
    BY <1>7, <2>2
  <2>3. CASE \E without \in Accounts, dated \in SUBSET Upgraded :
                disk = Installed(Table, (Imported \cup Related) \ without, dated)
    BY <1>8, <2>3
  <2> QED
    BY <2>1, <2>2, <2>3 DEF UpgradeInit
<1> QED
  BY <1>9 DEF First

UpgradeInv == /\ UpgradeType /\ AtInv /\ TxInv /\ PathInv /\ RowsInv /\ UsersInv
              /\ CleanInv /\ FreshInv /\ DeletedInv

(* The invariant holds of each of them.                                     *)
LEMMA UpgradeInitInv == UpgradeInit => UpgradeInv
<1> SUFFICES ASSUME UpgradeInit PROVE UpgradeInv
  OBVIOUS
<1>1. /\ db = disk /\ tx = FALSE /\ stage = "off" /\ at = <<1, 0>> /\ owned = disk.own /\ scars = {}
      /\ deleted = {} /\ kept = {} /\ there = (disk # Nothing)
  BY DEF UpgradeInit
<1>2. \A o, t : ~Doing(o, t)
  BY <1>1, NotBooting
<1>3. UpgradeType
  <2>1. disk \in Content /\ disk.own \subseteq Name
    BY FirstDatabase DEF Content
  <2>2. /\ there \in BOOLEAN /\ import \in BOOLEAN
        /\ spare \in [kills : 0..MaxKills, faults : 0..MaxFaults]
    <3>1. there = (disk # Nothing)
      BY DEF UpgradeInit
    <3>2. import \in {FALSE, "users" \in disk.have}
      BY DEF UpgradeInit
    <3>4. import \in BOOLEAN
      <4>1. ("users" \in disk.have) \in BOOLEAN
        OBVIOUS
      <4>2. import = FALSE \/ import = ("users" \in disk.have)
        BY <3>2
      <4> QED
        BY <4>1, <4>2
    <3>3. spare = [kills |-> MaxKills, faults |-> MaxFaults]
      BY DEF UpgradeInit
    <3> QED
      BY <3>1, <3>4, <3>3, UpgradeBounds
  <2> QED
    BY <1>1, <2>1, <2>2 DEF UpgradeType
<1>4. AtInv /\ TxInv
  BY <1>1 DEF AtInv, TxInv
<1>5. PathInv
  BY <1>1, FirstDatabase DEF PathInv, Settled
<1>6. RowsInv
  BY <1>1, <1>2, UpgradedAre DEF RowsInv, Held
<1>7. UsersInv
  BY <1>1 DEF UsersInv
<1>8. CleanInv
  BY <1>1, <1>2, FirstDatabase DEF CleanInv, Serves, Moved
<1>9. FreshInv
  BY <1>1 DEF FreshInv, Past
<1>10. DeletedInv
  BY <1>1, <1>2, FirstDatabase DEF DeletedInv
<1> QED
  BY <1>3, <1>4, <1>5, <1>6, <1>7, <1>8, <1>9, <1>10 DEF UpgradeInv

(* It holds while nothing happens.                                          *)
LEMMA UpgradeStutters ==
    ASSUME UpgradeInv, UNCHANGED upgradeVars
    PROVE  UpgradeInv'
<1>1. /\ db' = db /\ disk' = disk /\ tx' = tx /\ there' = there /\ kept' = kept /\ import' = import
      /\ stage' = stage /\ at' = at /\ owned' = owned /\ scars' = scars /\ deleted' = deleted /\ spare' = spare
  BY DEF upgradeVars
<1>2. \A o, t : Doing(o, t)' <=> Doing(o, t)
  BY <1>1 DEF Doing
<1>3. \A t : Moved(t)' <=> Moved(t)
  BY <1>2 DEF Moved
<1>4. UpgradeType' /\ AtInv' /\ TxInv'
  BY <1>1 DEF UpgradeInv, UpgradeType, AtInv, TxInv
<1>5. PathInv' /\ UsersInv'
  BY <1>1 DEF UpgradeInv, PathInv, UsersInv, Settled
<1>6. RowsInv'
  BY <1>1, <1>2 DEF UpgradeInv, RowsInv, Held
<1>7. CleanInv'
  <2>1. \A t : Serves(t)' <=> Serves(t)
    BY <1>1, <1>3 DEF Serves
  <2> QED
    BY <1>1, <2>1 DEF UpgradeInv, CleanInv, Clean
<1>8. FreshInv'
  <2>1. \A t \in DOMAIN Old : (Past(t)' <=> Past(t)) /\ (Outdated(t)' <=> Outdated(t))
    BY <1>1 DEF Past, Outdated
  <2> QED
    BY <1>1, <1>2, <2>1 DEF UpgradeInv, FreshInv, Fresh
<1>9. DeletedInv'
  BY <1>1, <1>2 DEF UpgradeInv, DeletedInv
<1> QED
  BY <1>4, <1>5, <1>6, <1>7, <1>8, <1>9 DEF UpgradeInv

(* It holds throughout.                                                     *)
LEMMA UpgradeInvariance == UpgradeSpec => []UpgradeInv
<1>1. UpgradeInv /\ UpgradeNext => UpgradeInv'
  BY AtNext, UpgradeTypeNext, TxNext, PathNext, RowsNext, UsersNext, CleanNext, FreshNext, DeletedNext
     DEF UpgradeInv
<1>2. UpgradeInv /\ [UpgradeNext]_upgradeVars => UpgradeInv'
  BY <1>1, UpgradeStutters
<1> QED
  BY <1>2, UpgradeInitInv, PTL DEF UpgradeSpec

(* The database, what is committed of it and the progress of a start keep   *)
(* their types (Upgrade).                                                   *)
THEOREM UpgradeTypeCorrect == UpgradeSpec => []UpgradeType
<1>1. UpgradeInv => UpgradeType
  BY DEF UpgradeInv
<1> QED
  BY <1>1, UpgradeInvariance, PTL

(* Whatever interrupts a start of run_migrations, and whatever fails in it, *)
(* the rows of a table that is rebuilt are committed in it or in the one it *)
(* replaces, and those of a database of version 1 there or in a copy;       *)
(* referrals may go with the users they refer to.                           *)
THEOREM RowsAreKept == UpgradeSpec => []NoRowsAreLost
<1>1. UpgradeInv => NoRowsAreLost
  <2> SUFFICES ASSUME UpgradeInv, NEW t \in owned \cap Parents
               PROVE  \/ Places(t) \cap disk.own # {}
                      \/ t \in kept
                      \/ t = "user_referrals" /\ "swept" \in scars
    BY DEF NoRowsAreLost
  <2>1. CASE t \in Upgraded
    BY <2>1 DEF UpgradeInv, RowsInv, Held
  <2>2. CASE t = "users"
    BY <2>2, UpgradedAre DEF UpgradeInv, UsersInv
  <2> QED
    BY <2>1, <2>2 DEF Parents, Upgraded
<1> QED
  BY <1>1, UpgradeInvariance, PTL

(* A start that nothing has interrupted, or failed in, serves a database    *)
(* with all its users and templates, those of version 1 included.           *)
THEOREM CleanStartsKeepRows == UpgradeSpec => []UpgradeKeepsRows
<1>1. UpgradeInv => UpgradeKeepsRows
  <2> SUFFICES ASSUME UpgradeInv, stage = "serve", Clean
               PROVE  /\ owned \cap {"vodum_users", "comm_templates"} \subseteq db.own
                      /\ "users" \in owned => "vodum_users" \in db.own
    BY DEF UpgradeKeepsRows, Clean
  <2>1. \A t : ~Moved(t)
    BY NotBooting DEF Moved
  <2> QED
    BY <2>1 DEF UpgradeInv, CleanInv, Serves
<1> QED
  BY <1>1, UpgradeInvariance, PTL

(* The plans and texts that an administrator has deleted are not given      *)
(* again by any later start.                                                *)
THEOREM DeletionsLast == UpgradeSpec => []DeletedStayDeleted
<1>1. UpgradeInv => DeletedStayDeleted
  BY DEF UpgradeInv, DeletedInv, DeletedStayDeleted
<1> QED
  BY <1>1, UpgradeInvariance, PTL

(* Once a database has been served, no later start deletes rows from it,    *)
(* unless a rebuild had failed.                                             *)
THEOREM UpgradedOnce == UpgradeSpec => UpgradedForGood
<1>1. ASSUME UpgradeInv, [UpgradeNext]_upgradeVars
      PROVE  ["served" \in scars /\ "failed" \notin scars => disk.own \subseteq disk'.own]_upgradeVars
  <2>1. CASE UpgradeNext /\ "served" \in scars /\ "failed" \notin scars
    <3>1. Final
      BY <1>1, <2>1, FreshIs DEF UpgradeInv
    <3> QED
      BY <1>1, <2>1, <3>1, FinalNext DEF UpgradeInv
  <2> QED
    BY <1>1, <2>1
<1> QED
  BY <1>1, UpgradeInvariance, PTL DEF UpgradeSpec, UpgradedForGood
====
