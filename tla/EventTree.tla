-------------------------------- MODULE EventTree --------------------------------
(***************************************************************************)
(* The event store on the file system (events.py create, save, delete;     *)
(* util.py ensure_dir, atomic_write_bytes): a directory per event under    *)
(* the directory of its day.  The control loop creates events, jobs save   *)
(* them, users and the retention sweep remove them, and whoever removes    *)
(* the last event of a day removes the day.  Nothing but the file system   *)
(* orders their calls.                                                     *)
(***************************************************************************)
EXTENDS FiniteSets

CONSTANTS
    TreeEvent,      \* events of one day
    TreeWriter,     \* threads that create or save
    TreeDeleter     \* threads that delete

ASSUME TreeAssumption ==
    /\ TreeWriter \cap TreeDeleter = {}
    /\ {"metadata", "absent"} \cap TreeWriter = {}

VARIABLES
    treeDay,        \* the day's directory exists
    treeLeaf,       \* per event: the entries of its directory, or Absent
    treeWriter,     \* per writer: the event, and how far its call has come
    treeDeleter,    \* per deleter: likewise, with the entries it has listed
    treeCreated,    \* the events whose create() has begun
    treeMarked,     \* history: the events that somebody has begun to delete
    treeFailed      \* history: the events of which a write failed, or the creation

treeVars == <<treeDay, treeLeaf, treeWriter, treeDeleter, treeCreated, treeMarked, treeFailed>>

\* "metadata" is metadata.json, and a writer's name its temporary file.
Entry == {"metadata"} \cup TreeWriter
Absent == {"absent"}
Exists(e) == treeLeaf[e] # Absent

NobodyWrites == [at |-> "idle", event |-> "none"]
NobodyDeletes == [at |-> "idle", event |-> "none", listed |-> {}]

WriterAt(w, place, e) == treeWriter[w] = [at |-> place, event |-> e]
WriterGoes(w, place, e) == treeWriter' = [treeWriter EXCEPT ![w] = [at |-> place, event |-> e]]
WriterEnds(w) == treeWriter' = [treeWriter EXCEPT ![w] = NobodyWrites]

-----------------------------------------------------------------------------
(* Creating and saving                                                     *)

\* ensure_dir looks whether the day's directory is there ...
TreeLooks(w, e) ==
    WriterGoes(w, IF treeDay THEN "make event" ELSE "make day", e)

\* create(): its save() finds the directory made, and so needs no step of its own.
TreeCreate(w, e) ==
    /\ treeWriter[w] = NobodyWrites
    /\ e \notin treeCreated
    /\ treeCreated' = treeCreated \cup {e}
    /\ TreeLooks(w, e)
    /\ UNCHANGED <<treeDay, treeLeaf, treeDeleter, treeMarked, treeFailed>>

\* save() of an event that exists, or existed: jobs keep their object.
TreeSave(w, e) ==
    /\ treeWriter[w] = NobodyWrites
    /\ e \in treeCreated
    /\ "metadata" \in treeLeaf[e] \/ e \in treeMarked
    /\ TreeLooks(w, e)
    /\ UNCHANGED <<treeDay, treeLeaf, treeDeleter, treeCreated, treeMarked, treeFailed>>

\* ... makes it if it was not ...
TreeMakeDay(w, e) ==
    /\ WriterAt(w, "make day", e)
    /\ treeDay' = TRUE
    /\ WriterGoes(w, "make event", e)
    /\ UNCHANGED <<treeLeaf, treeDeleter, treeCreated, treeMarked, treeFailed>>

\* ... and makes the event's.  When the day has been removed meanwhile this raises.
TreeMakeEvent(w, e) ==
    /\ WriterAt(w, "make event", e)
    /\ \/ /\ treeDay
          /\ treeLeaf' = [treeLeaf EXCEPT ![e] = IF @ = Absent THEN {} ELSE @]
          /\ WriterGoes(w, "open", e)
          /\ UNCHANGED treeFailed
       \/ /\ ~treeDay
          /\ WriterEnds(w)
          /\ treeFailed' = treeFailed \cup ({e} \ treeMarked)
          /\ UNCHANGED treeLeaf
    /\ UNCHANGED <<treeDay, treeDeleter, treeCreated, treeMarked>>

\* mkstemp
TreeOpen(w, e) ==
    /\ WriterAt(w, "open", e)
    /\ \/ /\ Exists(e)
          /\ treeLeaf' = [treeLeaf EXCEPT ![e] = @ \cup {w}]
          /\ WriterGoes(w, "replace", e)
       \/ ~Exists(e) /\ WriterEnds(w) /\ UNCHANGED treeLeaf
    /\ UNCHANGED <<treeDay, treeDeleter, treeCreated, treeMarked, treeFailed>>

\* os.replace, which raises when the temporary file has been deleted.
TreeReplace(w, e) ==
    /\ WriterAt(w, "replace", e)
    /\ WriterEnds(w)
    /\ treeLeaf' = IF w \in treeLeaf[e]
                   THEN [treeLeaf EXCEPT ![e] = (@ \ {w}) \cup {"metadata"}]
                   ELSE treeLeaf
    /\ UNCHANGED <<treeDay, treeDeleter, treeCreated, treeMarked, treeFailed>>

\* The disk is full: the temporary file is removed.
TreeWriteFails(w, e) ==
    /\ WriterAt(w, "replace", e)
    /\ WriterEnds(w)
    /\ treeLeaf' = IF Exists(e) THEN [treeLeaf EXCEPT ![e] = @ \ {w}] ELSE treeLeaf
    /\ treeFailed' = treeFailed \cup {e}
    /\ UNCHANGED <<treeDay, treeDeleter, treeCreated, treeMarked>>

-----------------------------------------------------------------------------
(* Deleting                                                                *)

DeleterAt(d, place) == treeDeleter[d].at = place
DeleterGoes(d, place) == treeDeleter' = [treeDeleter EXCEPT ![d].at = place]

\* delete() or the sweep has loaded the event and found it ended.
TreeDelete(d, e) ==
    /\ treeDeleter[d] = NobodyDeletes
    /\ "metadata" \in treeLeaf[e]
    /\ treeMarked' = treeMarked \cup {e}
    /\ treeDeleter' = [treeDeleter EXCEPT ![d] = [at |-> "list", event |-> e, listed |-> {}]]
    /\ UNCHANGED <<treeDay, treeLeaf, treeWriter, treeCreated, treeFailed>>

\* rmtree lists the directory ...
TreeList(d) ==
    /\ DeleterAt(d, "list")
    /\ LET e == treeDeleter[d].event IN
         treeDeleter' = [treeDeleter EXCEPT ![d].at = "unlink",
                                            ![d].listed = IF Exists(e) THEN treeLeaf[e] ELSE {}]
    /\ UNCHANGED <<treeDay, treeLeaf, treeWriter, treeCreated, treeMarked, treeFailed>>

\* ... removes what it has listed ...
TreeUnlink(d, f) ==
    LET e == treeDeleter[d].event IN
    /\ DeleterAt(d, "unlink")
    /\ f \in treeDeleter[d].listed
    /\ treeLeaf' = IF Exists(e) THEN [treeLeaf EXCEPT ![e] = @ \ {f}] ELSE treeLeaf
    /\ treeDeleter' = [treeDeleter EXCEPT ![d].listed = @ \ {f}]
    /\ UNCHANGED <<treeDay, treeWriter, treeCreated, treeMarked, treeFailed>>

\* ... and the directory, if nothing has come in meanwhile.  Errors are ignored.
TreeRemove(d) ==
    LET e == treeDeleter[d].event IN
    /\ DeleterAt(d, "unlink")
    /\ treeDeleter[d].listed = {}
    /\ treeLeaf' = IF treeLeaf[e] = {} THEN [treeLeaf EXCEPT ![e] = Absent] ELSE treeLeaf
    /\ DeleterGoes(d, "prune")
    /\ UNCHANGED <<treeDay, treeWriter, treeCreated, treeMarked, treeFailed>>

\* _prune_empty_parents: rmdir refuses a directory that is not empty.
TreePrune_Tree(d) ==
    /\ DeleterAt(d, "prune")
    /\ \/ \E e \in TreeEvent : "metadata" \in treeLeaf[e] /\ UNCHANGED <<treeDay, treeLeaf>>
       \/ /\ \A e \in TreeEvent : "metadata" \notin treeLeaf[e]
          /\ treeDay' = FALSE
          /\ treeLeaf' = [e \in TreeEvent |-> Absent]
    /\ treeDeleter' = [treeDeleter EXCEPT ![d] = NobodyDeletes]
    /\ UNCHANGED <<treeWriter, treeCreated, treeMarked, treeFailed>>
TreePrune(d) ==
    /\ DeleterAt(d, "prune")
    /\ treeDay' = (treeDay /\ \E e \in TreeEvent : Exists(e))
    /\ treeDeleter' = [treeDeleter EXCEPT ![d] = NobodyDeletes]
    /\ UNCHANGED <<treeLeaf, treeWriter, treeCreated, treeMarked, treeFailed>>

-----------------------------------------------------------------------------
TreeInit ==
    /\ treeDay = FALSE
    /\ treeLeaf = [e \in TreeEvent |-> Absent]
    /\ treeWriter = [w \in TreeWriter |-> NobodyWrites]
    /\ treeDeleter = [d \in TreeDeleter |-> NobodyDeletes]
    /\ treeCreated = {}
    /\ treeMarked = {}
    /\ treeFailed = {}

TreeWrites(w) ==
    \E e \in TreeEvent :
        \/ TreeCreate(w, e) \/ TreeSave(w, e)
        \/ TreeMakeDay(w, e) \/ TreeMakeEvent(w, e)
        \/ TreeOpen(w, e) \/ TreeReplace(w, e) \/ TreeWriteFails(w, e)

TreeDeletes(d) ==
    \/ \E e \in TreeEvent : TreeDelete(d, e)
    \/ \E f \in Entry : TreeUnlink(d, f)
    \/ TreeList(d) \/ TreeRemove(d) \/ TreePrune(d)

\* Every event of the model has come to nothing, and nobody keeps one.
TreeDone ==
    /\ treeCreated = TreeEvent
    /\ \A w \in TreeWriter : treeWriter[w] = NobodyWrites
    /\ UNCHANGED treeVars

TreeNext == (\E w \in TreeWriter : TreeWrites(w)) \/ (\E d \in TreeDeleter : TreeDeletes(d)) \/ TreeDone

TreeSpec == TreeInit /\ [][TreeNext]_treeVars

-----------------------------------------------------------------------------
\* Every variable has its type.
TreeTypeOK ==
    /\ treeDay \in BOOLEAN
    /\ treeLeaf \in [TreeEvent -> (SUBSET Entry) \cup {Absent}]
    /\ \A w \in TreeWriter :
         treeWriter[w].at \in {"idle", "make day", "make event", "open", "replace"}
    /\ \A d \in TreeDeleter :
         /\ treeDeleter[d].at \in {"idle", "list", "unlink", "prune"}
         /\ treeDeleter[d].listed \subseteq Entry
    /\ treeCreated \cup treeMarked \cup treeFailed \subseteq TreeEvent

\* Somebody is at work in the event's directory.
TreeBusy(e) ==
    \/ \E w \in TreeWriter : treeWriter[w].event = e
    \/ \E d \in TreeDeleter : treeDeleter[d].event = e

\* Nobody's deletion harms another event: an event that nobody has begun to delete, and
\* of which no write has failed, has its record as soon as create() is through, and a
\* writer of it finds its directory and its temporary file.  (That the day is removed
\* under a create() that has not made the directory yet is possible, and costs that
\* event.)  Once nobody is at work on an event, its directory is gone or holds the
\* record and nothing else: no husk remains, which neither listing nor retention finds.
TreeRecordsSurvive ==
    \A e \in treeCreated \ treeFailed :
        /\ e \notin treeMarked =>
             \A w \in TreeWriter :
                 /\ WriterAt(w, "open", e) => Exists(e)
                 /\ WriterAt(w, "replace", e) => w \in treeLeaf[e]
        /\ ~TreeBusy(e) =>
             \/ treeLeaf[e] = {"metadata"}
             \/ treeLeaf[e] = Absent /\ e \in treeMarked
=============================================================================
