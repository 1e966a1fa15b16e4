-------------------------------- MODULE Retention --------------------------------
(***************************************************************************)
(* The retention sweep (storage.py enforce, _free_space) on the event      *)
(* store's tree (events.py iter_events, delete_directory).  The control    *)
(* loop submits a sweep per check interval to the pool of two threads, so  *)
(* that two can run at once; events go on, end, and are deleted by users   *)
(* meanwhile, and the rolling buffer shares the disk.  Events are numbered *)
(* in the order of their directories.                                      *)
(***************************************************************************)
EXTENDS Integers, FiniteSets, FiniteSetsExt

CONSTANTS
    RetSweep,       \* sweeps that may run at once
    RetLast,        \* the last event (bound)
    RetSizes,       \* sizes of an event's directory
    RetAged,        \* the most events that are older than retention_days (bound)
    RetLimit,       \* usage above which _over_limit is true
    RetBuffer       \* the most the rest of the disk takes up (bound)

ASSUME RetAssumption ==
    /\ {RetLast, RetAged, RetLimit, RetBuffer} \subseteq Nat
    /\ RetSizes \subseteq Nat
    /\ IsFiniteSet(RetSweep)

RetEvents == 1 .. RetLast

VARIABLES
    retEvent,   \* per event: "none" yet, "active", "ended", or "gone"
    retSize,    \* the size its directory has, or will have
    retOld,     \* the events up to this one are older than retention_days
    retOther,   \* what else is on the disk
    retRun      \* per sweep: where it is, and its own figures

retVars == <<retEvent, retSize, retOld, retOther, retRun>>

RetIdle == [at |-> "idle", next |-> 0, listed |-> {}, used |-> 0, size |-> 0,
            skipped |-> {}, alone |-> FALSE, steady |-> FALSE]

Present(e) == retEvent[e] \in {"active", "ended"}
\* What the disk has in use: the rest, and the directories that are there.
RetUsed ==
    LET upTo[e \in 0 .. RetLast] ==
          IF e = 0 THEN retOther ELSE upTo[e - 1] + (IF Present(e) THEN retSize[e] ELSE 0)
    IN  upTo[RetLast]

\* _over_limit, of the disk or of a sweep's own figures.
OverLimit(used) == used > RetLimit

-----------------------------------------------------------------------------
(* A sweep                                                                 *)

\* Both histories of the sweeps: s no longer runs alone once another one does, and its
\* figures are no longer the disk's once anything but itself has changed the usage.
RetStarts(s) ==
    retRun' = [r \in RetSweep |->
        IF r = s THEN [RetIdle EXCEPT !.at = "aged", !.next = 1,
                                      !.listed = {e \in RetEvents : retEvent[e] = "ended"},
                                      !.alone = \A q \in RetSweep : retRun[q].at = "idle"]
        ELSE [retRun[r] EXCEPT !.alone = FALSE]]

\* enforce() begins: it loads all events at once, to delete the aged ones.
RetBegin(s) ==
    /\ retRun[s].at = "idle"
    /\ RetStarts(s)
    /\ UNCHANGED <<retEvent, retSize, retOld, retOther>>

RetGone(e) == retEvent' = [retEvent EXCEPT ![e] = IF Present(e) THEN "gone" ELSE @]

\* Of the listed events those that are older than the cutoff go, oldest first.
RetDeleteAged(s) ==
    LET aged == {e \in retRun[s].listed : e <= retOld} IN
    /\ retRun[s].at = "aged"
    /\ aged # {}
    /\ LET e == Min(aged) IN
         /\ RetGone(e)
         /\ retRun' = [retRun EXCEPT ![s].listed = @ \ {e}]
    /\ UNCHANGED <<retSize, retOld, retOther>>

\* It has nothing more to delete.
RetOver(run) == [run EXCEPT !.at = "done", !.next = 0, !.used = 0]

\* status(): the figures of the disk, after which the sweep keeps its own.
RetFigures(s) ==
    /\ retRun[s].at = "aged"
    /\ \A e \in retRun[s].listed : e > retOld
    /\ LET run == [retRun[s] EXCEPT !.at = "space", !.listed = {}, !.steady = TRUE,
                                    !.used = RetUsed]
       IN  retRun' = [retRun EXCEPT ![s] = IF OverLimit(RetUsed) THEN run ELSE RetOver(run)]
    /\ UNCHANGED <<retEvent, retSize, retOld, retOther>>

\* The tree is at its end, or the sweep's own figures are below the limit.
RetEnough(run) ==
    ~OverLimit(run.used) \/ run.next > RetLast \/ retEvent[run.next] = "none"

\* _free_space loads the next event of the tree: events that are gone or not finished
\* are passed over.
RetVisit_StopsAtActive(s) ==
    /\ retRun[s].at = "space"
    /\ retRun' = [retRun EXCEPT ![s] =
         IF RetEnough(@) THEN RetOver(@)
         ELSE IF retEvent[@.next] = "ended" THEN [@ EXCEPT !.at = "measure"]
         ELSE RetOver(@)]
    /\ UNCHANGED <<retEvent, retSize, retOld, retOther>>
RetVisit(s) ==
    LET run == retRun[s] IN
    /\ run.at = "space"
    /\ retRun' = [retRun EXCEPT ![s] =
         IF RetEnough(run) THEN RetOver(run)
         ELSE IF retEvent[run.next] = "ended" THEN [run EXCEPT !.at = "measure"]
         ELSE [run EXCEPT !.next = run.next + 1,
                          !.skipped = IF Present(run.next) THEN run.skipped \cup {run.next}
                                         ELSE run.skipped]]
    /\ UNCHANGED <<retEvent, retSize, retOld, retOther>>

\* dir_size_bytes: nothing is left of a directory that another one has deleted.
RetMeasure(s) ==
    LET e == retRun[s].next IN
    /\ retRun[s].at = "measure"
    /\ retRun' = [retRun EXCEPT ![s].at = "delete",
                                ![s].size = IF Present(e) THEN retSize[e] ELSE 0]
    /\ UNCHANGED <<retEvent, retSize, retOld, retOther>>

\* delete_directory, and the sweep's own figures follow.
RetDelete_KeepsFigures(s) ==
    /\ retRun[s].at = "delete"
    /\ RetGone(retRun[s].next)
    /\ retRun' = [retRun EXCEPT ![s].at = "space", ![s].next = @ + 1, ![s].size = 0]
    /\ UNCHANGED <<retSize, retOld, retOther>>
RetDelete(s) ==
    /\ retRun[s].at = "delete"
    /\ RetGone(retRun[s].next)
    /\ retRun' = [retRun EXCEPT ![s].at = "space", ![s].next = @ + 1,
                                ![s].used = @ - retRun[s].size, ![s].size = 0]
    /\ UNCHANGED <<retSize, retOld, retOther>>

\* The final status() and the report.
RetFinish(s) ==
    /\ retRun[s].at = "done"
    /\ retRun' = [retRun EXCEPT ![s] = RetIdle]
    /\ UNCHANGED <<retEvent, retSize, retOld, retOther>>

-----------------------------------------------------------------------------
(* The others.  The disk is no longer what the sweeps have figured.        *)

RetUnsteady == retRun' = [s \in RetSweep |-> [retRun[s] EXCEPT !.steady = FALSE]]

\* A new event: its name sorts after all others.
RetCreate(e) ==
    /\ retEvent[e] = "none"
    /\ \A f \in RetEvents : f < e => retEvent[f] # "none"
    /\ retEvent' = [retEvent EXCEPT ![e] = "active"]
    /\ RetUnsteady
    /\ UNCHANGED <<retSize, retOld, retOther>>

RetEnd(e) ==
    /\ retEvent[e] = "active"
    /\ retEvent' = [retEvent EXCEPT ![e] = "ended"]
    /\ UNCHANGED <<retSize, retOld, retOther, retRun>>

\* A user deletes an event that is not being produced.
RetUserDeletes(e) ==
    /\ retEvent[e] = "ended"
    /\ retEvent' = [retEvent EXCEPT ![e] = "gone"]
    /\ RetUnsteady
    /\ UNCHANGED <<retSize, retOld, retOther>>

RetBufferChanges ==
    /\ retOther' \in 0 .. RetBuffer
    /\ RetUnsteady
    /\ UNCHANGED <<retEvent, retSize, retOld>>

RetInit ==
    /\ retEvent \in [RetEvents -> {"none", "active", "ended", "gone"}]
    /\ \A e, f \in RetEvents : e < f /\ retEvent[e] = "none" => retEvent[f] = "none"
    /\ retSize \in [RetEvents -> RetSizes]
    /\ retOld \in 0 .. RetAged
    /\ retOther \in 0 .. RetBuffer
    /\ retRun = [s \in RetSweep |-> RetIdle]

RetNext ==
    \/ \E s \in RetSweep :
         \/ RetBegin(s) \/ RetDeleteAged(s) \/ RetFigures(s)
         \/ RetVisit(s) \/ RetMeasure(s) \/ RetDelete(s) \/ RetFinish(s)
    \/ \E e \in RetEvents : RetCreate(e) \/ RetEnd(e) \/ RetUserDeletes(e)
    \/ RetBufferChanges

RetSpec == RetInit /\ [][RetNext]_retVars

-----------------------------------------------------------------------------
\* Every variable has its type.
RetTypeOK ==
    /\ retEvent \in [RetEvents -> {"none", "active", "ended", "gone"}]
    /\ retSize \in [RetEvents -> RetSizes]
    /\ retOld \in 0 .. RetAged
    /\ retOther \in 0 .. RetBuffer
    /\ \A s \in RetSweep :
         /\ retRun[s].at \in {"idle", "aged", "space", "measure", "delete", "done"}
         /\ retRun[s].next \in 0 .. RetLast + 1
         /\ retRun[s].used \in Int
         /\ retRun[s].listed \cup retRun[s].skipped \subseteq RetEvents

\* What a sweep deletes to free space is finished and the oldest of what it may delete;
\* and if no other sweep runs and nobody else frees space, it deletes only while the disk
\* is over the limit (storage.py enforce: "it only deletes what it must").
RetDeletionIsDue ==
    [][ \A s \in RetSweep :
          retRun[s].at = "delete" /\ retRun'[s].at = "space" =>
            LET e == retRun[s].next IN
            /\ retEvent[e] # "active"
            /\ \A f \in 1 .. e - 1 : Present(f) => f \in retRun[s].skipped
            /\ retRun[s].alone /\ retRun[s].steady => OverLimit(RetUsed) ]_retVars

\* A sweep that ends has brought the disk below the limit, or has left nothing but
\* events that were being produced, unless the disk has filled up meanwhile; a second
\* sweep over the same events does not deceive it.
RetSweepSuffices ==
    \A s \in RetSweep :
        retRun[s].at = "done" /\ retRun[s].steady /\ OverLimit(RetUsed) =>
            {e \in RetEvents : Present(e)} \subseteq retRun[s].skipped
=============================================================================
