------------------------------- MODULE FileReplace ------------------------------
(***************************************************************************)
(* atomic_write_bytes (util.py), through which every file that must        *)
(* survive is written: a temporary file of its own, fsync, rename, fsync   *)
(* of the directory.  Several threads and processes replace the same file, *)
(* any of them may be killed, and the power may fail between any two       *)
(* steps.  Of names whose directory was not flushed a power cut keeps any, *)
(* of data that was not flushed nothing that can be relied on.             *)
(***************************************************************************)
EXTENDS Naturals, FiniteSets

CONSTANTS
    FilWriter,      \* threads and processes that write the file
    FilMaxVersion   \* replacements considered (bound)

ASSUME FilAssumption == FilMaxVersion \in Nat

VARIABLES
    filAt,          \* per writer: how far its atomic_write_bytes has come
    filMine,        \* per writer: the version it has renamed into place
    filVisible,     \* the version readers see; versions count the renames
    filKept,        \* the versions a power cut may leave behind the name
    filFlushed,     \* the versions whose data was flushed
    filConfirmed    \* history: the newest version whose write has returned

filVars == <<filAt, filMine, filVisible, filKept, filFlushed, filConfirmed>>

Stage == {"idle", "written", "flushed", "renamed"}

Newest(versions) == CHOOSE v \in versions : \A w \in versions : w <= v
FilCount == Newest(filKept \cup filFlushed \cup {filVisible, filConfirmed})

-----------------------------------------------------------------------------
\* mkstemp and write: nobody sees the file yet.
FilWrite(w) ==
    /\ filAt[w] = "idle"
    /\ filAt' = [filAt EXCEPT ![w] = "written"]
    /\ UNCHANGED <<filMine, filVisible, filKept, filFlushed, filConfirmed>>

FilFlush(w) ==
    /\ filAt[w] = "written"
    /\ filAt' = [filAt EXCEPT ![w] = "flushed"]
    /\ UNCHANGED <<filMine, filVisible, filKept, filFlushed, filConfirmed>>

\* os.replace: seen at once, kept only once the directory is flushed.
FilRename_Unflushed(w) ==
    LET v == FilCount + 1 IN
    /\ filAt[w] \in {"written", "flushed"}
    /\ v <= FilMaxVersion
    /\ filAt' = [filAt EXCEPT ![w] = "renamed"]
    /\ filMine' = [filMine EXCEPT ![w] = v]
    /\ filVisible' = v
    /\ filKept' = filKept \cup {v}
    /\ filFlushed' = IF filAt[w] = "flushed" THEN filFlushed \cup {v} ELSE filFlushed
    /\ UNCHANGED filConfirmed
FilRename(w) ==
    LET v == FilCount + 1 IN
    /\ filAt[w] = "flushed"
    /\ v <= FilMaxVersion
    /\ filAt' = [filAt EXCEPT ![w] = "renamed"]
    /\ filMine' = [filMine EXCEPT ![w] = v]
    /\ filVisible' = v
    /\ filKept' = filKept \cup {v}
    /\ filFlushed' = filFlushed \cup {v}
    /\ UNCHANGED filConfirmed

\* _fsync_dir, and the call returns.
FilReturn(w) ==
    /\ filAt[w] = "renamed"
    /\ filAt' = [filAt EXCEPT ![w] = "idle"]
    /\ filMine' = [filMine EXCEPT ![w] = 0]
    /\ filKept' = {filVisible}
    /\ filConfirmed' = Newest({filConfirmed, filMine[w]})
    /\ UNCHANGED <<filVisible, filFlushed>>

\* A write, flush, chmod or rename that raises removes the temporary file; a writer
\* that is killed leaves it behind, and what it has renamed stays.
FilGiveUp(w) ==
    /\ filAt[w] # "idle"
    /\ filAt' = [filAt EXCEPT ![w] = "idle"]
    /\ filMine' = [filMine EXCEPT ![w] = 0]
    /\ UNCHANGED <<filVisible, filKept, filFlushed, filConfirmed>>

FilPowerCut ==
    /\ filVisible' \in filKept
    /\ filKept' = {filVisible'}
    /\ filAt' = [w \in FilWriter |-> "idle"]
    /\ filMine' = [w \in FilWriter |-> 0]
    /\ UNCHANGED <<filFlushed, filConfirmed>>

FilInit ==
    /\ filAt = [w \in FilWriter |-> "idle"]
    /\ filMine = [w \in FilWriter |-> 0]
    /\ filVisible = 0
    /\ filKept = {0}
    /\ filFlushed = {0}
    /\ filConfirmed = 0

FilNext ==
    \/ FilPowerCut
    \/ \E w \in FilWriter :
         FilWrite(w) \/ FilFlush(w) \/ FilRename(w) \/ FilReturn(w) \/ FilGiveUp(w)

FilSpec == FilInit /\ [][FilNext]_filVars

-----------------------------------------------------------------------------
\* Every variable has its type.
FilTypeOK ==
    /\ filAt \in [FilWriter -> Stage]
    /\ filMine \in [FilWriter -> 0 .. FilMaxVersion]
    /\ {filVisible, filConfirmed} \subseteq 0 .. FilMaxVersion
    /\ filKept \cup filFlushed \subseteq 0 .. FilMaxVersion

\* Whatever a reader sees, now or after a power cut, is a whole version and no older
\* than any write that has returned, although other writers replace the same file
\* meanwhile (atomic_write_bytes: "readers never observe a partial version").
FilConfirmedSurvives ==
    \A v \in filKept \cup {filVisible} : v \in filFlushed /\ v >= filConfirmed
=============================================================================
