------------------------------- MODULE StoreProofs -------------------------------
(***************************************************************************)
(* Proofs about what the device keeps on its disk: the files that are      *)
(* replaced atomically, under any number of writers, kills and power cuts; *)
(* the directories of the event store, under any number of threads that    *)
(* create, save and delete; and the retention sweeps over them, any number *)
(* at once.                                                                *)
(***************************************************************************)
EXTENDS FileReplace, EventTree, Retention, WellFoundedInduction, TLAPS

-----------------------------------------------------------------------------
(* A file that is replaced                                                 *)

\* A non-empty set of versions up to a bound has a newest one.  (A least element of
\* the distances from the bound exists because < is well-founded on Nat.)
LEMMA NewestOfBounded ==
    ASSUME NEW N \in Nat, NEW V, V \subseteq 0 .. N, V # {}
    PROVE  /\ Newest(V) \in V
           /\ \A w \in V : w <= Newest(V)
<1> DEFINE D == {d \in Nat : N - d \in V}
<1>1. D \subseteq Nat /\ D # {}
  <2>1. PICK v \in V : TRUE
    OBVIOUS
  <2>2. v \in 0 .. N
    BY <2>1
  <2>3. N - v \in Nat /\ N - (N - v) = v
    BY <2>2
  <2>4. N - v \in D
    BY <2>3
  <2>5. QED
    BY <2>4
<1>2. PICK d \in D : \A y \in D : ~(<<y, d>> \in OpToRel(<, Nat))
  BY <1>1, NatLessThanWellFounded, WFMin
<1>3. \A y \in D : ~(y < d)
  BY <1>1, <1>2 DEF OpToRel
<1>4. N - d \in V /\ d \in Nat
  OBVIOUS
<1>5. ASSUME NEW w \in V PROVE w <= N - d
  <2>1. w \in 0 .. N
    BY <1>5
  <2>2. N - w \in D
    BY <2>1
  <2>3. ~(N - w < d)
    BY <1>3, <2>2
  <2>4. d \in Nat
    BY <1>4
  <2> HIDE DEF D
  <2>5. QED
    BY <2>1, <2>3, <2>4
<1>6. \E v \in V : \A w \in V : w <= v
  BY <1>4, <1>5
<1>7. QED
  BY <1>6, Zenon DEF Newest

\* What a reader may see is flushed, no older than what was confirmed, and no older
\* than what any writer has renamed and not yet flushed.
FilInv ==
    /\ FilTypeOK
    /\ FilConfirmedSurvives
    /\ filVisible \in filKept
    /\ \A w \in FilWriter : filMine[w] <= filVisible

\* The newest version there is.
LEMMA CountIsNewest ==
    ASSUME FilTypeOK
    PROVE  /\ FilCount \in 0 .. FilMaxVersion
           /\ \A v \in filKept \cup filFlushed \cup {filVisible, filConfirmed} : v <= FilCount
<1> DEFINE V == filKept \cup filFlushed \cup {filVisible, filConfirmed}
<1>1. V \subseteq 0 .. FilMaxVersion /\ V # {} /\ FilMaxVersion \in Nat
  BY FilAssumption DEF FilTypeOK
<1>2. Newest(V) \in V /\ \A w \in V : w <= Newest(V)
  BY <1>1, NewestOfBounded
<1>3. QED
  BY <1>1, <1>2 DEF FilCount

LEMMA FilInitInv == FilInit => FilInv
BY FilAssumption DEF FilInit, FilInv, FilTypeOK, FilConfirmedSurvives, Stage

LEMMA FilStepInv == FilInv /\ [FilNext]_filVars => FilInv'
<1> SUFFICES ASSUME FilInv, [FilNext]_filVars PROVE FilInv'
  OBVIOUS
<1> USE FilAssumption DEF FilInv, FilTypeOK, FilConfirmedSurvives, Stage
<1>1. CASE FilPowerCut
  BY <1>1 DEF FilPowerCut
<1>2. ASSUME NEW w \in FilWriter, FilWrite(w) \/ FilFlush(w) PROVE FilInv'
  BY <1>2 DEF FilWrite, FilFlush
<1>3. ASSUME NEW w \in FilWriter, FilRename(w) PROVE FilInv'
  <2> DEFINE v == FilCount + 1
  <2>1. v \in 0 .. FilMaxVersion /\ filVisible < v /\ filConfirmed < v
    BY <1>3, CountIsNewest DEF FilRename
  <2>2. /\ filAt' = [filAt EXCEPT ![w] = "renamed"]
        /\ filMine' = [filMine EXCEPT ![w] = v]
        /\ filVisible' = v
        /\ filKept' = filKept \cup {v}
        /\ filFlushed' = filFlushed \cup {v}
        /\ filConfirmed' = filConfirmed
    BY <1>3 DEF FilRename
  <2> HIDE DEF v
  <2>3. FilTypeOK'
    BY <2>1, <2>2
  <2>4. filVisible' \in filKept' /\ \A u \in FilWriter : filMine'[u] <= filVisible'
    BY <2>1, <2>2
  <2>5. FilConfirmedSurvives'
    BY <2>1, <2>2
  <2>6. QED
    BY <2>3, <2>4, <2>5
<1>4. ASSUME NEW w \in FilWriter, FilReturn(w) PROVE FilInv'
  <2> DEFINE C == {filConfirmed, filMine[w]}
  <2>1. /\ C \subseteq 0 .. FilMaxVersion
        /\ \A c \in C : c <= filVisible
    OBVIOUS
  <2>2. Newest(C) \in C
    BY <2>1, NewestOfBounded
  <2>3. Newest(C) \in 0 .. FilMaxVersion /\ Newest(C) <= filVisible
    BY <2>1, <2>2
  <2>4. /\ filAt' = [filAt EXCEPT ![w] = "idle"]
        /\ filMine' = [filMine EXCEPT ![w] = 0]
        /\ filKept' = {filVisible}
        /\ filConfirmed' = Newest(C)
        /\ filVisible' = filVisible /\ filFlushed' = filFlushed
    BY <1>4 DEF FilReturn
  <2> HIDE DEF C
  <2>5. QED
    BY <2>3, <2>4
<1>5. ASSUME NEW w \in FilWriter, FilGiveUp(w) PROVE FilInv'
  BY <1>5 DEF FilGiveUp
<1>6. CASE UNCHANGED filVars
  BY <1>6 DEF filVars
<1>7. QED
  BY <1>1, <1>2, <1>3, <1>4, <1>5, <1>6 DEF FilNext

\* A write that has returned survives power cuts, kills and other writers, however
\* many replace the file at once, and readers see only whole versions.
THEOREM ConfirmedWritesSurvive == FilSpec => []FilConfirmedSurvives
<1>1. FilSpec => []FilInv
  BY FilInitInv, FilStepInv, PTL DEF FilSpec
<1>2. QED
  BY <1>1, PTL DEF FilInv

-----------------------------------------------------------------------------
(* The tree of events                                                      *)

\* What a writer at work holds, as one value.
Spot(place, e) == [at |-> place, event |-> e]
Places == {"make day", "make event", "open", "replace"}
Deletions == [at: {"list", "unlink", "prune"}, event: TreeEvent, listed: SUBSET Entry]

\* Every variable with its type, the events of the threads included.
TreeTyped ==
    /\ treeDay \in BOOLEAN
    /\ treeLeaf \in [TreeEvent -> (SUBSET Entry) \cup {Absent}]
    /\ treeWriter \in [TreeWriter -> {NobodyWrites} \cup {Spot(p, e) : p \in Places, e \in TreeEvent}]
    /\ treeDeleter \in [TreeDeleter -> {NobodyDeletes} \cup Deletions]
    /\ treeCreated \subseteq TreeEvent
    /\ treeMarked \subseteq TreeEvent
    /\ treeFailed \subseteq TreeEvent

\* An event's directory is in the day's.
DayHoldsEvents == \A e \in TreeEvent : treeLeaf[e] # Absent => treeDay

\* A temporary file belongs to a writer that is about to rename it.
TemporariesAreWritten ==
    \A e \in TreeEvent, w \in TreeWriter : w \in treeLeaf[e] => treeWriter[w] = Spot("replace", e)

\* Whoever is at work on an event has a reason.
WorkIsKnown ==
    /\ \A w \in TreeWriter, p \in Places, e \in TreeEvent :
         treeWriter[w] = Spot(p, e) => e \in treeCreated
    /\ \A d \in TreeDeleter : treeDeleter[d] # NobodyDeletes => treeDeleter[d].event \in treeMarked

\* An event that nobody deletes keeps what its writers rely on, and its record once
\* create() is through.
UnmarkedIsKept ==
    \A e \in treeCreated \ (treeFailed \cup treeMarked) :
        /\ \A w \in TreeWriter :
             /\ treeWriter[w] = Spot("open", e) => treeLeaf[e] # Absent
             /\ treeWriter[w] = Spot("replace", e) => w \in treeLeaf[e]
        /\ \/ \E w \in TreeWriter, p \in Places : treeWriter[w] = Spot(p, e)
           \/ "metadata" \in treeLeaf[e]

\* An empty directory waits for a writer, or for a deletion to remove it.
HusksAreWanted ==
    \A e \in TreeEvent \ treeFailed :
        treeLeaf[e] = {} =>
            \/ \E w \in TreeWriter : treeWriter[w] = Spot("open", e)
            \/ \E d \in TreeDeleter : treeDeleter[d].event = e /\ treeDeleter[d].at \in {"list", "unlink"}

TreeInv ==
    /\ TreeTyped
    /\ DayHoldsEvents
    /\ TemporariesAreWritten
    /\ WorkIsKnown
    /\ UnmarkedIsKept
    /\ HusksAreWanted

\* The names that mean something are no writer's.
LEMMA TreeNames ==
    /\ "absent" \notin Entry /\ "metadata" \notin TreeWriter /\ "metadata" \in Entry
    /\ TreeWriter \subseteq Entry
    /\ Absent \notin SUBSET Entry /\ Absent # {} /\ "metadata" \notin Absent
    /\ \A w \in TreeWriter : w \notin Absent
BY TreeAssumption DEF Entry, Absent

\* A writer is at work at one place, on one event.
LEMMA Spots ==
    /\ \A w, p, e : WriterAt(w, p, e) <=> treeWriter[w] = Spot(p, e)
    /\ \A p, e : Spot(p, e).event = e /\ Spot(p, e).at = p
    /\ \A p \in Places : \A e : Spot(p, e) # NobodyWrites
BY DEF WriterAt, Spot, Places, NobodyWrites

\* TreeInv gives the property: once nobody is at work, only the record can be left.
LEMMA TreeInvSuffices == TreeInv => TreeRecordsSurvive
<1> SUFFICES ASSUME TreeInv, NEW e \in treeCreated \ treeFailed
             PROVE  /\ e \notin treeMarked =>
                         \A w \in TreeWriter :
                             /\ WriterAt(w, "open", e) => Exists(e)
                             /\ WriterAt(w, "replace", e) => w \in treeLeaf[e]
                    /\ ~TreeBusy(e) =>
                         \/ treeLeaf[e] = {"metadata"}
                         \/ treeLeaf[e] = Absent /\ e \in treeMarked
  BY DEF TreeRecordsSurvive
<1>1. e \in TreeEvent
  BY DEF TreeInv, TreeTyped
<1>2. e \notin treeMarked =>
         \A w \in TreeWriter :
             /\ WriterAt(w, "open", e) => Exists(e)
             /\ WriterAt(w, "replace", e) => w \in treeLeaf[e]
  BY Spots DEF TreeInv, UnmarkedIsKept, Exists
<1>3. ASSUME ~TreeBusy(e)
      PROVE  treeLeaf[e] = {"metadata"} \/ (treeLeaf[e] = Absent /\ e \in treeMarked)
  <2>1. \A w \in TreeWriter : treeWriter[w].event # e
    BY <1>3 DEF TreeBusy
  <2>2. \A d \in TreeDeleter : treeDeleter[d].event # e
    BY <1>3 DEF TreeBusy
  <2>3. \A w \in TreeWriter : w \notin treeLeaf[e]
    BY <1>1, <2>1, Spots DEF TreeInv, TemporariesAreWritten
  <2>4. treeLeaf[e] \in (SUBSET Entry) \cup {Absent}
    BY <1>1 DEF TreeInv, TreeTyped
  <2>5. treeLeaf[e] # {}
    BY <1>1, <2>1, <2>2, Spots DEF TreeInv, HusksAreWanted
  <2>6. e \notin treeMarked => "metadata" \in treeLeaf[e]
    BY <2>1, Spots DEF TreeInv, UnmarkedIsKept
  <2>7. CASE treeLeaf[e] = Absent
    BY <2>6, <2>7, TreeNames
  <2>8. CASE treeLeaf[e] \in SUBSET Entry
    BY <2>3, <2>5, <2>8 DEF Entry
  <2>9. QED
    BY <2>4, <2>7, <2>8
<1>4. QED
  BY <1>2, <1>3

LEMMA TreeInitInv == TreeInit => TreeInv
<1> SUFFICES ASSUME TreeInit PROVE TreeInv
  OBVIOUS
<1>1. TreeTyped
  <2>1. treeDay \in BOOLEAN
    BY Zenon DEF TreeInit
  <2>2. /\ treeLeaf \in [TreeEvent -> (SUBSET Entry) \cup {Absent}]
        /\ treeWriter \in [TreeWriter -> {NobodyWrites}]
        /\ treeDeleter \in [TreeDeleter -> {NobodyDeletes}]
    BY DEF TreeInit
  <2>3. treeCreated = {} /\ treeMarked = {} /\ treeFailed = {}
    BY DEF TreeInit
  <2>4. QED
    BY <2>1, <2>2, <2>3 DEF TreeTyped
<1>2. QED
  BY <1>1, TreeNames, Spots DEF TreeInit, TreeInv, DayHoldsEvents, TemporariesAreWritten, WorkIsKnown,
                         UnmarkedIsKept, HusksAreWanted, Exists

\* What each step of a writer assigns, in terms of spots.
LEMMA WriterSteps ==
    ASSUME NEW w \in TreeWriter, NEW e \in TreeEvent
    PROVE  /\ \A p : WriterGoes(w, p, e) <=> treeWriter' = [treeWriter EXCEPT ![w] = Spot(p, e)]
           /\ WriterEnds(w) <=> treeWriter' = [treeWriter EXCEPT ![w] = NobodyWrites]
BY DEF WriterGoes, WriterEnds, Spot

\* A deleter at work holds an event, and its steps move it along that event.
LEMMA DeleterWorks ==
    ASSUME TreeTyped, NEW d \in TreeDeleter, treeDeleter[d].at # "idle"
    PROVE  treeDeleter[d] \in Deletions /\ treeDeleter[d] # NobodyDeletes
<1>1. NobodyDeletes.at = "idle"
  BY DEF NobodyDeletes
<1>2. QED
  BY <1>1 DEF TreeTyped

LEMMA DeleterSteps ==
    ASSUME TreeTyped, NEW d \in TreeDeleter
    PROVE  /\ \A e \in TreeEvent : TreeDelete(d, e) =>
                \E x \in Deletions : x.at = "list" /\ x.event = e
                                       /\ treeDeleter' = [treeDeleter EXCEPT ![d] = x]
           /\ TreeList(d) =>
                \E x \in Deletions : x.at = "unlink" /\ x.event = treeDeleter[d].event
                                       /\ treeDeleter' = [treeDeleter EXCEPT ![d] = x]
           /\ \A f \in Entry : TreeUnlink(d, f) =>
                \E x \in Deletions : x.at = "unlink" /\ x.event = treeDeleter[d].event
                                       /\ treeDeleter' = [treeDeleter EXCEPT ![d] = x]
           /\ TreeRemove(d) =>
                \E x \in Deletions : x.at = "prune" /\ x.event = treeDeleter[d].event
                                       /\ treeDeleter' = [treeDeleter EXCEPT ![d] = x]
<1>1. ASSUME NEW e \in TreeEvent, TreeDelete(d, e)
      PROVE  \E x \in Deletions : x.at = "list" /\ x.event = e
                                       /\ treeDeleter' = [treeDeleter EXCEPT ![d] = x]
  <2> DEFINE x == [at |-> "list", event |-> e, listed |-> {}]
  <2>1. x \in Deletions /\ x.at = "list" /\ x.event = e
    BY DEF Deletions
  <2>2. treeDeleter' = [treeDeleter EXCEPT ![d] = x]
    BY <1>1 DEF TreeDelete
  <2> HIDE DEF x
  <2>3. QED
    BY <2>1, <2>2
<1>2. ASSUME TreeList(d)
      PROVE  \E x \in Deletions : x.at = "unlink" /\ x.event = treeDeleter[d].event
                                       /\ treeDeleter' = [treeDeleter EXCEPT ![d] = x]
  <2>1. treeDeleter[d] \in Deletions
    BY <1>2, DeleterWorks DEF TreeList, DeleterAt
  <2>2. PICK e \in TreeEvent : e = treeDeleter[d].event
    BY <2>1 DEF Deletions
  <2>3. PICK listed \in SUBSET Entry : listed = IF Exists(e) THEN treeLeaf[e] ELSE {}
    <3>1. Exists(e) => treeLeaf[e] \in SUBSET Entry
      BY DEF Exists, TreeTyped
    <3>2. (IF Exists(e) THEN treeLeaf[e] ELSE {}) \in SUBSET Entry
      BY <3>1
    <3>3. QED
      BY <3>2
  <2> DEFINE x == [treeDeleter[d] EXCEPT !.at = "unlink", !.listed = listed]
  <2>4. x \in Deletions /\ x.at = "unlink" /\ x.event = treeDeleter[d].event
    BY <2>1 DEF Deletions
  <2>5. treeDeleter' = [treeDeleter EXCEPT ![d] = x]
    BY <1>2, <2>2, <2>3 DEF TreeList
  <2> HIDE DEF x
  <2>6. QED
    BY <2>4, <2>5
<1>3. ASSUME NEW f \in Entry, TreeUnlink(d, f)
      PROVE  \E x \in Deletions : x.at = "unlink" /\ x.event = treeDeleter[d].event
                                       /\ treeDeleter' = [treeDeleter EXCEPT ![d] = x]
  <2>1. treeDeleter[d] \in Deletions /\ treeDeleter[d].at = "unlink"
    BY <1>3, DeleterWorks DEF TreeUnlink, DeleterAt
  <2> DEFINE x == [treeDeleter[d] EXCEPT !.listed = @ \ {f}]
  <2>2. x \in Deletions /\ x.at = "unlink" /\ x.event = treeDeleter[d].event
    BY <2>1 DEF Deletions
  <2>3. treeDeleter' = [treeDeleter EXCEPT ![d] = x]
    BY <1>3 DEF TreeUnlink
  <2> HIDE DEF x
  <2>4. QED
    BY <2>2, <2>3
<1>4. ASSUME TreeRemove(d)
      PROVE  \E x \in Deletions : x.at = "prune" /\ x.event = treeDeleter[d].event
                                       /\ treeDeleter' = [treeDeleter EXCEPT ![d] = x]
  <2>1. treeDeleter[d] \in Deletions
    BY <1>4, DeleterWorks DEF TreeRemove, DeleterAt
  <2> DEFINE x == [treeDeleter[d] EXCEPT !.at = "prune"]
  <2>2. x \in Deletions /\ x.at = "prune" /\ x.event = treeDeleter[d].event
    BY <2>1 DEF Deletions
  <2>3. treeDeleter' = [treeDeleter EXCEPT ![d] = x]
    BY <1>4 DEF TreeRemove, DeleterGoes
  <2> HIDE DEF x
  <2>4. QED
    BY <2>2, <2>3
<1>5. QED
  BY <1>1, <1>2, <1>3, <1>4

LEMMA TreeStepTyped == TreeTyped /\ [TreeNext]_treeVars => TreeTyped'
<1> SUFFICES ASSUME TreeTyped, [TreeNext]_treeVars PROVE TreeTyped'
  OBVIOUS
<1> USE DEF TreeTyped
<1> DEFINE Writers == [TreeWriter -> {NobodyWrites} \cup {Spot(p, e) : p \in Places, e \in TreeEvent}]
           Leaves == [TreeEvent -> (SUBSET Entry) \cup {Absent}]
           Deleters == [TreeDeleter -> {NobodyDeletes} \cup Deletions]
<1>a. ASSUME NEW w \in TreeWriter, NEW e \in TreeEvent, NEW p \in Places,
             WriterGoes(w, p, e) \/ WriterEnds(w)
      PROVE  treeWriter' \in Writers
  BY <1>a, WriterSteps
<1>b. ASSUME NEW d \in TreeDeleter, NEW x \in Deletions, treeDeleter' = [treeDeleter EXCEPT ![d] = x]
      PROVE  treeDeleter' \in Deleters
  BY <1>b
<1>c. ASSUME NEW d \in TreeDeleter, treeDeleter[d].at # "idle"
      PROVE  treeDeleter[d].event \in TreeEvent
  BY <1>c, DeleterWorks DEF Deletions
<1> HIDE DEF Writers, Leaves, Deleters
<1>0. treeWriter \in Writers /\ treeLeaf \in Leaves /\ treeDeleter \in Deleters
  BY DEF Writers, Leaves, Deleters
<1>1. ASSUME NEW w \in TreeWriter, NEW e \in TreeEvent,
             TreeCreate(w, e) \/ TreeSave(w, e) \/ TreeMakeDay(w, e)
      PROVE  TreeTyped'
  <2>1. treeWriter' \in Writers
    BY <1>1, <1>a DEF TreeCreate, TreeSave, TreeMakeDay, TreeLooks, Places
  <2>2. QED
    <3>1. treeDay' \in BOOLEAN /\ treeCreated' \subseteq TreeEvent
      <4>1. CASE TreeMakeDay(w, e)
        <5>1. treeDay' = TRUE
          BY <4>1, Zenon DEF TreeMakeDay
        <5>2. treeCreated' = treeCreated
          BY <4>1 DEF TreeMakeDay
        <5>3. QED
          BY <5>1, <5>2
      <4>2. CASE TreeCreate(w, e) \/ TreeSave(w, e)
        BY <4>2 DEF TreeCreate, TreeSave
      <4>3. QED
        BY <1>1, <4>1, <4>2
    <3>2. UNCHANGED <<treeLeaf, treeDeleter, treeMarked, treeFailed>>
      BY <1>1 DEF TreeCreate, TreeSave, TreeMakeDay
    <3>3. QED
      BY <2>1, <3>1, <3>2 DEF Writers
<1>2. ASSUME NEW w \in TreeWriter, NEW e \in TreeEvent,
             TreeMakeEvent(w, e) \/ TreeOpen(w, e) \/ TreeReplace(w, e) \/ TreeWriteFails(w, e)
      PROVE  TreeTyped'
  <2>1. treeWriter' \in Writers
    BY <1>2, <1>a DEF TreeMakeEvent, TreeOpen, TreeReplace, TreeWriteFails, Places
  <2>2. treeLeaf[e] # Absent => treeLeaf[e] \in SUBSET Entry
    OBVIOUS
  <2>3. treeLeaf' \in Leaves
    BY <1>0, <1>2, <2>2, TreeNames
       DEF TreeMakeEvent, TreeOpen, TreeReplace, TreeWriteFails, Exists, Leaves
  <2>4. treeFailed' \subseteq TreeEvent
    <3>1. treeFailed' \subseteq treeFailed \cup {e}
      BY <1>2 DEF TreeMakeEvent, TreeOpen, TreeReplace, TreeWriteFails
    <3>2. QED
      BY <3>1
  <2>5. UNCHANGED <<treeDay, treeDeleter, treeCreated, treeMarked>>
    BY <1>2 DEF TreeMakeEvent, TreeOpen, TreeReplace, TreeWriteFails
  <2>6. QED
    BY <2>1, <2>3, <2>4, <2>5 DEF Writers, Leaves
<1>3. ASSUME NEW d \in TreeDeleter, NEW e \in TreeEvent, TreeDelete(d, e) PROVE TreeTyped'
  <2>1. treeDeleter' \in Deleters
    BY <1>3, <1>b, DeleterSteps
  <2>2. QED
    BY <1>3, <2>1 DEF TreeDelete, Deleters
<1>4. ASSUME NEW d \in TreeDeleter, NEW f \in Entry, TreeList(d) \/ TreeUnlink(d, f) \/ TreeRemove(d)
      PROVE  TreeTyped'
  <2>1. treeDeleter' \in Deleters
    BY <1>4, <1>b, DeleterSteps
  <2>2. PICK e \in TreeEvent : e = treeDeleter[d].event
    BY <1>4, <1>c DEF TreeList, TreeUnlink, TreeRemove, DeleterAt
  <2>3. treeLeaf[e] # Absent => treeLeaf[e] \in SUBSET Entry
    OBVIOUS
  <2>4. treeLeaf' \in Leaves
    BY <1>0, <1>4, <2>2, <2>3 DEF TreeList, TreeUnlink, TreeRemove, Exists, Leaves
  <2>5. QED
    BY <1>4, <2>1, <2>4 DEF TreeList, TreeUnlink, TreeRemove, Deleters, Leaves
<1>5. ASSUME NEW d \in TreeDeleter, TreePrune(d) PROVE TreeTyped'
  <2>1. treeDay' \in BOOLEAN
    BY <1>5 DEF TreePrune
  <2>2. QED
    BY <1>5, <2>1 DEF TreePrune
<1>6. CASE UNCHANGED treeVars
  BY <1>6 DEF treeVars
<1>7. QED
  BY <1>1, <1>2, <1>3, <1>4, <1>5, <1>6, TreeNames
     DEF TreeNext, TreeWrites, TreeDeletes, TreeDone

\* What a step of writer w on event e may change, with the values afterwards.
WriterChanges(w, e, spot, leaf) ==
    /\ treeWriter'[w] = spot
    /\ \A v \in TreeWriter : v # w => treeWriter'[v] = treeWriter[v]
    /\ treeLeaf'[e] = leaf
    /\ \A f \in TreeEvent : f # e => treeLeaf'[f] = treeLeaf[f]
    /\ UNCHANGED <<treeDeleter, treeMarked>>

\* create() or save() begins, or makes the day's directory.
WriterBegins(w, e) ==
    /\ \/ treeWriter[w] = NobodyWrites /\ (e \in treeCreated => "metadata" \in treeLeaf[e] \/ e \in treeMarked)
       \/ treeWriter[w] = Spot("make day", e)
    /\ \E p \in {"make day", "make event"} : WriterChanges(w, e, Spot(p, e), treeLeaf[e])
    /\ treeCreated' = treeCreated \cup {e}
    /\ treeDay => treeDay'
    /\ treeFailed' = treeFailed

\* The event's directory is made ...
WriterMakes(w, e) ==
    /\ treeWriter[w] = Spot("make event", e)
    /\ treeDay
    /\ WriterChanges(w, e, Spot("open", e), IF treeLeaf[e] = Absent THEN {} ELSE treeLeaf[e])
    /\ UNCHANGED <<treeDay, treeCreated, treeFailed>>

\* ... or cannot be.
WriterCannotMake(w, e) ==
    /\ treeWriter[w] = Spot("make event", e)
    /\ ~treeDay
    /\ WriterChanges(w, e, NobodyWrites, treeLeaf[e])
    /\ treeFailed' = treeFailed \cup ({e} \ treeMarked)
    /\ UNCHANGED <<treeDay, treeCreated>>

\* The temporary file is opened ...
WriterOpens(w, e) ==
    /\ treeWriter[w] = Spot("open", e)
    /\ treeLeaf[e] # Absent
    /\ WriterChanges(w, e, Spot("replace", e), treeLeaf[e] \cup {w})
    /\ UNCHANGED <<treeDay, treeCreated, treeFailed>>

\* ... or cannot be.
WriterCannotOpen(w, e) ==
    /\ treeWriter[w] = Spot("open", e)
    /\ treeLeaf[e] = Absent
    /\ WriterChanges(w, e, NobodyWrites, treeLeaf[e])
    /\ UNCHANGED <<treeDay, treeCreated, treeFailed>>

\* The record is there.
WriterReplaces(w, e) ==
    /\ treeWriter[w] = Spot("replace", e)
    /\ WriterChanges(w, e, NobodyWrites,
         IF w \in treeLeaf[e] THEN (treeLeaf[e] \ {w}) \cup {"metadata"} ELSE treeLeaf[e])
    /\ UNCHANGED <<treeDay, treeCreated, treeFailed>>

\* The write has failed.
WriterLoses(w, e) ==
    /\ treeWriter[w] = Spot("replace", e)
    /\ WriterChanges(w, e, NobodyWrites,
         IF treeLeaf[e] # Absent THEN treeLeaf[e] \ {w} ELSE treeLeaf[e])
    /\ treeFailed' = treeFailed \cup {e}
    /\ UNCHANGED <<treeDay, treeCreated>>

\* Every step of a writer, in these terms.
WriterStep(w, e) ==
    \/ WriterBegins(w, e)
    \/ WriterMakes(w, e)
    \/ WriterCannotMake(w, e)
    \/ WriterOpens(w, e)
    \/ WriterCannotOpen(w, e)
    \/ WriterReplaces(w, e)
    \/ WriterLoses(w, e)

LEMMA WritersStep ==
    ASSUME TreeInv, NEW w \in TreeWriter, NEW e \in TreeEvent,
           \/ TreeCreate(w, e) \/ TreeSave(w, e)
           \/ TreeMakeDay(w, e) \/ TreeMakeEvent(w, e)
           \/ TreeOpen(w, e) \/ TreeReplace(w, e) \/ TreeWriteFails(w, e)
    PROVE  WriterStep(w, e)
<1>1. ASSUME NEW p, WriterGoes(w, p, e)
      PROVE  treeWriter'[w] = Spot(p, e) /\ \A v \in TreeWriter : v # w => treeWriter'[v] = treeWriter[v]
  BY <1>1, WriterSteps DEF TreeInv, TreeTyped
<1>2. ASSUME WriterEnds(w)
      PROVE  treeWriter'[w] = NobodyWrites /\ \A v \in TreeWriter : v # w => treeWriter'[v] = treeWriter[v]
  BY <1>2, WriterSteps DEF TreeInv, TreeTyped
<1>3. ASSUME NEW leaf, treeLeaf' = [treeLeaf EXCEPT ![e] = leaf]
      PROVE  treeLeaf'[e] = leaf /\ \A f \in TreeEvent : f # e => treeLeaf'[f] = treeLeaf[f]
  BY <1>3 DEF TreeInv, TreeTyped
<1>4. CASE TreeCreate(w, e)
  <2>1. PICK p \in {"make day", "make event"} : WriterGoes(w, p, e)
    BY <1>4 DEF TreeCreate, TreeLooks
  <2>2. WriterChanges(w, e, Spot(p, e), treeLeaf[e])
    BY <1>1, <1>4, <2>1 DEF TreeCreate, WriterChanges
  <2>3. QED
    BY <1>4, <2>2 DEF TreeCreate, WriterStep, WriterBegins
<1>5. CASE TreeSave(w, e)
  <2>1. PICK p \in {"make day", "make event"} : WriterGoes(w, p, e)
    BY <1>5 DEF TreeSave, TreeLooks
  <2>2. WriterChanges(w, e, Spot(p, e), treeLeaf[e])
    BY <1>1, <1>5, <2>1 DEF TreeSave, WriterChanges
  <2>3. treeCreated' = treeCreated \cup {e}
    BY <1>5 DEF TreeSave
  <2>4. QED
    BY <1>5, <2>2, <2>3 DEF TreeSave, WriterStep, WriterBegins
<1>6. CASE TreeMakeDay(w, e)
  <2>1. WriterGoes(w, "make event", e) /\ treeWriter[w] = Spot("make day", e)
    <3>1. WriterGoes(w, "make event", e) /\ WriterAt(w, "make day", e)
      BY <1>6, Zenon DEF TreeMakeDay
    <3>2. QED
      BY <3>1 DEF WriterAt, Spot
  <2>2. WriterChanges(w, e, Spot("make event", e), treeLeaf[e])
    BY <1>1, <1>6, <2>1 DEF TreeMakeDay, WriterChanges
  <2>3. treeCreated' = treeCreated \cup {e}
    BY <1>6, <2>1 DEF TreeMakeDay, TreeInv, WorkIsKnown, Places
  <2>4. treeDay' /\ treeFailed' = treeFailed
    BY <1>6 DEF TreeMakeDay
  <2>5. QED
    BY <2>1, <2>2, <2>3, <2>4 DEF WriterStep, WriterBegins
<1>7. CASE TreeMakeEvent(w, e)
  <2>1. treeWriter[w] = Spot("make event", e)
    <3>1. WriterAt(w, "make event", e)
      BY <1>7, Zenon DEF TreeMakeEvent
    <3>2. QED
      BY <3>1 DEF WriterAt, Spot
  <2>2. CASE treeDay /\ WriterGoes(w, "open", e)
    <3>1. WriterChanges(w, e, Spot("open", e), IF treeLeaf[e] = Absent THEN {} ELSE treeLeaf[e])
      BY <1>1, <1>3, <1>7, <2>2 DEF TreeMakeEvent, WriterChanges
    <3>2. QED
      BY <1>7, <2>1, <2>2, <3>1 DEF TreeMakeEvent, WriterStep, WriterMakes, WriterCannotMake
  <2>3. CASE ~treeDay
    <3>1. WriterChanges(w, e, NobodyWrites, treeLeaf[e])
      BY <1>2, <1>7, <2>3 DEF TreeMakeEvent, WriterChanges
    <3>2. QED
      BY <1>7, <2>1, <2>3, <3>1 DEF TreeMakeEvent, WriterStep, WriterMakes, WriterCannotMake
  <2>4. QED
    BY <1>7, <2>2, <2>3 DEF TreeMakeEvent
<1>8. CASE TreeOpen(w, e)
  <2>1. treeWriter[w] = Spot("open", e)
    BY <1>8, Spots DEF TreeOpen
  <2>2. CASE treeLeaf[e] # Absent
    <3>1. WriterChanges(w, e, Spot("replace", e), treeLeaf[e] \cup {w})
      BY <1>1, <1>3, <1>8, <2>2 DEF TreeOpen, Exists, WriterChanges
    <3>2. QED
      BY <1>8, <2>1, <2>2, <3>1 DEF TreeOpen, WriterStep, WriterOpens, WriterCannotOpen
  <2>3. CASE treeLeaf[e] = Absent
    <3>1. WriterChanges(w, e, NobodyWrites, treeLeaf[e])
      BY <1>2, <1>8, <2>3 DEF TreeOpen, Exists, WriterChanges
    <3>2. QED
      BY <1>8, <2>1, <2>3, <3>1 DEF TreeOpen, WriterStep, WriterOpens, WriterCannotOpen
  <2>4. QED
    BY <2>2, <2>3
<1>9. CASE TreeReplace(w, e)
  <2>1. treeWriter[w] = Spot("replace", e)
    BY <1>9, Spots DEF TreeReplace
  <2>2. WriterChanges(w, e, NobodyWrites,
          IF w \in treeLeaf[e] THEN (treeLeaf[e] \ {w}) \cup {"metadata"} ELSE treeLeaf[e])
    BY <1>2, <1>3, <1>9 DEF TreeReplace, WriterChanges
  <2>3. QED
    BY <1>9, <2>1, <2>2 DEF TreeReplace, WriterStep, WriterReplaces
<1>10. CASE TreeWriteFails(w, e)
  <2>1. treeWriter[w] = Spot("replace", e)
    BY <1>10, Spots DEF TreeWriteFails
  <2>2. WriterChanges(w, e, NobodyWrites,
          IF treeLeaf[e] # Absent THEN treeLeaf[e] \ {w} ELSE treeLeaf[e])
    BY <1>2, <1>3, <1>10 DEF TreeWriteFails, Exists, WriterChanges
  <2>3. QED
    BY <1>10, <2>1, <2>2 DEF TreeWriteFails, WriterStep, WriterLoses
<1>11. QED
  BY <1>4, <1>5, <1>6, <1>7, <1>8, <1>9, <1>10


\* At different places is at different spots.
LEMMA SpotsDiffer ==
    /\ \A p, q, e, f : Spot(p, e) = Spot(q, f) => p = q /\ e = f
    /\ \A e, f : /\ Spot("make day", e) # Spot("open", f) /\ Spot("make day", e) # Spot("replace", f)
                 /\ Spot("make event", e) # Spot("open", f) /\ Spot("make event", e) # Spot("replace", f)
                 /\ Spot("open", e) # Spot("replace", f)
    /\ \A e : /\ NobodyWrites # Spot("make day", e) /\ NobodyWrites # Spot("make event", e)
              /\ NobodyWrites # Spot("open", e) /\ NobodyWrites # Spot("replace", e)
<1>1. \A p, q, e, f : Spot(p, e) = Spot(q, f) => p = q /\ e = f
  BY Spots
<1>2. \A e : /\ NobodyWrites # Spot("make day", e) /\ NobodyWrites # Spot("make event", e)
             /\ NobodyWrites # Spot("open", e) /\ NobodyWrites # Spot("replace", e)
  BY Spots DEF Places
<1>3. \A e, f : /\ Spot("make day", e) # Spot("open", f) /\ Spot("make day", e) # Spot("replace", f)
                /\ Spot("make event", e) # Spot("open", f) /\ Spot("make event", e) # Spot("replace", f)
                /\ Spot("open", e) # Spot("replace", f)
  BY DEF Spot
<1>4. QED
  BY <1>1, <1>2, <1>3

\* A step of a writer leaves the other writers and the other events alone.
LEMMA OnlyThatWriter ==
    ASSUME TreeInv, NEW w \in TreeWriter, NEW e \in TreeEvent, WriterStep(w, e)
    PROVE  /\ \A v \in TreeWriter : v # w => treeWriter'[v] = treeWriter[v]
           /\ \A f \in TreeEvent : f # e => treeLeaf'[f] = treeLeaf[f]
           /\ treeDeleter' = treeDeleter /\ treeMarked' = treeMarked
           /\ treeCreated' = treeCreated \cup {e}
           /\ treeFailed \subseteq treeFailed'
           /\ treeDay => treeDay'
           /\ treeWriter[w] = NobodyWrites \/ \E p \in Places : treeWriter[w] = Spot(p, e)
           /\ treeWriter'[w] = NobodyWrites \/ \E p \in Places : treeWriter'[w] = Spot(p, e)
<1>1. \A p \in Places : treeWriter[w] = Spot(p, e) => e \in treeCreated
  BY DEF TreeInv, WorkIsKnown
<1>2. CASE WriterBegins(w, e)
  BY <1>1, <1>2 DEF WriterBegins, WriterChanges, Places
<1>3. CASE WriterMakes(w, e)
  BY <1>1, <1>3 DEF WriterMakes, WriterChanges, Places
<1>4. CASE WriterCannotMake(w, e)
  BY <1>1, <1>4 DEF WriterCannotMake, WriterChanges, Places
<1>5. CASE WriterOpens(w, e)
  BY <1>1, <1>5 DEF WriterOpens, WriterChanges, Places
<1>6. CASE WriterCannotOpen(w, e)
  BY <1>1, <1>6 DEF WriterCannotOpen, WriterChanges, Places
<1>7. CASE WriterReplaces(w, e)
  BY <1>1, <1>7 DEF WriterReplaces, WriterChanges, Places
<1>8. CASE WriterLoses(w, e)
  BY <1>1, <1>8 DEF WriterLoses, WriterChanges, Places
<1>9. QED
  BY <1>2, <1>3, <1>4, <1>5, <1>6, <1>7, <1>8 DEF WriterStep

\* In the event's directory it makes and removes nothing but its own file and the record.
LEMMA OnlyItsFile ==
    ASSUME TreeInv, NEW w \in TreeWriter, NEW e \in TreeEvent, WriterStep(w, e)
    PROVE  /\ \A v \in TreeWriter : v # w => (v \in treeLeaf'[e] <=> v \in treeLeaf[e])
           /\ "metadata" \in treeLeaf[e] => "metadata" \in treeLeaf'[e]
           /\ treeLeaf[e] # Absent => treeLeaf'[e] # Absent
           /\ treeLeaf'[e] # Absent => treeDay'
<1>1. treeLeaf[e] = Absent \/ treeLeaf[e] \in SUBSET Entry
  BY DEF TreeInv, TreeTyped
<1>2. w \in treeLeaf[e] => treeWriter[w] = Spot("replace", e)
  BY DEF TreeInv, TemporariesAreWritten
<1>3. treeLeaf[e] # Absent => treeDay
  BY DEF TreeInv, DayHoldsEvents
<1>10. CASE WriterBegins(w, e)
  BY <1>1, <1>3, TreeNames, <1>10 DEF WriterBegins, WriterChanges
<1>11. CASE WriterMakes(w, e)
  BY <1>1, <1>3, TreeNames, <1>11 DEF WriterMakes, WriterChanges
<1>12. CASE WriterCannotMake(w, e)
  BY <1>1, <1>3, TreeNames, <1>12 DEF WriterCannotMake, WriterChanges
<1>13. CASE WriterOpens(w, e)
  BY <1>1, <1>3, TreeNames, <1>13 DEF WriterOpens, WriterChanges
<1>14. CASE WriterCannotOpen(w, e)
  BY <1>1, <1>3, TreeNames, <1>14 DEF WriterCannotOpen, WriterChanges
<1>15. CASE WriterReplaces(w, e)
  BY <1>1, <1>3, TreeNames, <1>15 DEF WriterReplaces, WriterChanges
<1>16. CASE WriterLoses(w, e)
  BY <1>1, <1>3, TreeNames, <1>16 DEF WriterLoses, WriterChanges
<1>20. QED
  BY <1>10, <1>11, <1>12, <1>13, <1>14, <1>15, <1>16 DEF WriterStep

\* Its file is there only while it is about to rename it.
LEMMA ItsFileIsWritten ==
    ASSUME TreeInv, NEW w \in TreeWriter, NEW e \in TreeEvent, WriterStep(w, e)
    PROVE  w \in treeLeaf'[e] => treeWriter'[w] = Spot("replace", e)
<1>1. treeLeaf[e] = Absent \/ treeLeaf[e] \in SUBSET Entry
  BY DEF TreeInv, TreeTyped
<1>2. w \in treeLeaf[e] => treeWriter[w] = Spot("replace", e)
  BY DEF TreeInv, TemporariesAreWritten
<1>3. treeLeaf[e] # Absent => treeDay
  BY DEF TreeInv, DayHoldsEvents
<1>10. CASE WriterBegins(w, e)
  BY <1>2, SpotsDiffer, TreeNames, <1>10 DEF WriterBegins, WriterChanges
<1>11. CASE WriterMakes(w, e)
  BY <1>2, SpotsDiffer, TreeNames, <1>11 DEF WriterMakes, WriterChanges
<1>12. CASE WriterCannotMake(w, e)
  BY <1>2, SpotsDiffer, TreeNames, <1>12 DEF WriterCannotMake, WriterChanges
<1>13. CASE WriterOpens(w, e)
  BY <1>2, SpotsDiffer, TreeNames, <1>13 DEF WriterOpens, WriterChanges
<1>14. CASE WriterCannotOpen(w, e)
  BY <1>2, SpotsDiffer, TreeNames, <1>14 DEF WriterCannotOpen, WriterChanges
<1>15. CASE WriterReplaces(w, e)
  BY <1>2, SpotsDiffer, TreeNames, <1>15 DEF WriterReplaces, WriterChanges
<1>16. CASE WriterLoses(w, e)
  BY <1>2, SpotsDiffer, TreeNames, <1>16 DEF WriterLoses, WriterChanges
<1>20. QED
  BY <1>10, <1>11, <1>12, <1>13, <1>14, <1>15, <1>16 DEF WriterStep

\* If it leaves the directory empty it means to fill it, or has found it so.
LEMMA WritersHuskIsWanted ==
    ASSUME TreeInv, NEW w \in TreeWriter, NEW e \in TreeEvent, WriterStep(w, e)
    PROVE  treeLeaf'[e] = {} /\ e \notin treeFailed' =>
             treeWriter'[w] = Spot("open", e) \/ (treeLeaf[e] = {} /\ treeWriter[w] # Spot("open", e))
<1>1. treeLeaf[e] = Absent \/ treeLeaf[e] \in SUBSET Entry
  BY DEF TreeInv, TreeTyped
<1>2. w \in treeLeaf[e] => treeWriter[w] = Spot("replace", e)
  BY DEF TreeInv, TemporariesAreWritten
<1>3. treeLeaf[e] # Absent => treeDay
  BY DEF TreeInv, DayHoldsEvents
<1>10. CASE WriterBegins(w, e)
  BY SpotsDiffer, TreeNames, <1>10 DEF WriterBegins, WriterChanges
<1>11. CASE WriterMakes(w, e)
  BY SpotsDiffer, TreeNames, <1>11 DEF WriterMakes, WriterChanges
<1>12. CASE WriterCannotMake(w, e)
  BY SpotsDiffer, TreeNames, <1>12 DEF WriterCannotMake, WriterChanges
<1>13. CASE WriterOpens(w, e)
  BY SpotsDiffer, TreeNames, <1>13 DEF WriterOpens, WriterChanges
<1>14. CASE WriterCannotOpen(w, e)
  BY SpotsDiffer, TreeNames, <1>14 DEF WriterCannotOpen, WriterChanges
<1>15. CASE WriterReplaces(w, e)
  BY <1>1, SpotsDiffer, TreeNames, <1>15 DEF WriterReplaces, WriterChanges
<1>16. CASE WriterLoses(w, e)
  BY SpotsDiffer, TreeNames, <1>16 DEF WriterLoses, WriterChanges
<1>20. QED
  BY <1>10, <1>11, <1>12, <1>13, <1>14, <1>15, <1>16 DEF WriterStep

\* On an event that nobody deletes it finds what it relies on, and ends with the record.
LEMMA WriterKeepsUnmarked ==
    ASSUME TreeInv, NEW w \in TreeWriter, NEW e \in TreeEvent, WriterStep(w, e),
           e \notin treeMarked, e \notin treeFailed'
    PROVE  /\ treeWriter'[w] = Spot("open", e) => treeLeaf'[e] # Absent
           /\ treeWriter'[w] = Spot("replace", e) => w \in treeLeaf'[e]
           /\ treeWriter'[w] = NobodyWrites => "metadata" \in treeLeaf'[e]
<1>1. e \notin treeFailed
  BY OnlyThatWriter
<1>2. treeWriter[w] = Spot("open", e) => treeLeaf[e] # Absent
  BY <1>1 DEF TreeInv, UnmarkedIsKept, WorkIsKnown, Places
<1>3. treeWriter[w] = Spot("replace", e) => w \in treeLeaf[e]
  BY <1>1 DEF TreeInv, UnmarkedIsKept, WorkIsKnown, Places
<1>4. CASE WriterBegins(w, e)
  BY <1>2, <1>3, <1>4, SpotsDiffer, TreeNames DEF WriterBegins, WriterChanges
<1>5. CASE WriterMakes(w, e)
  BY <1>2, <1>3, <1>5, SpotsDiffer, TreeNames DEF WriterMakes, WriterChanges
<1>6. CASE WriterCannotMake(w, e)
  BY <1>2, <1>3, <1>6, SpotsDiffer, TreeNames DEF WriterCannotMake, WriterChanges
<1>7. CASE WriterOpens(w, e)
  BY <1>2, <1>3, <1>7, SpotsDiffer, TreeNames DEF WriterOpens, WriterChanges
<1>8. CASE WriterCannotOpen(w, e)
  BY <1>2, <1>3, <1>8, SpotsDiffer, TreeNames DEF WriterCannotOpen, WriterChanges
<1>9. CASE WriterReplaces(w, e)
  BY <1>2, <1>3, <1>9, SpotsDiffer, TreeNames DEF WriterReplaces, WriterChanges
<1>10. CASE WriterLoses(w, e)
  BY <1>2, <1>3, <1>10, SpotsDiffer, TreeNames DEF WriterLoses, WriterChanges
<1>11. QED
  BY <1>4, <1>5, <1>6, <1>7, <1>8, <1>9, <1>10 DEF WriterStep

\* A writer's step keeps the invariant.
LEMMA WriterStepInv ==
    ASSUME TreeInv, TreeTyped', NEW w \in TreeWriter, NEW e \in TreeEvent, WriterStep(w, e)
    PROVE  TreeInv'
<1>0. /\ \A v \in TreeWriter : v # w => treeWriter'[v] = treeWriter[v]
      /\ \A f \in TreeEvent : f # e => treeLeaf'[f] = treeLeaf[f]
      /\ treeDeleter' = treeDeleter /\ treeMarked' = treeMarked
      /\ treeCreated' = treeCreated \cup {e}
      /\ treeFailed \subseteq treeFailed'
      /\ treeDay => treeDay'
  BY OnlyThatWriter
<1>w. /\ \A f : f # e => \A p \in Places : treeWriter[w] # Spot(p, f)
      /\ \A f : f # e => \A p \in Places : treeWriter'[w] # Spot(p, f)
  <2>1. \A p \in Places : \A f : NobodyWrites # Spot(p, f)
    BY SpotsDiffer DEF Places
  <2>2. ASSUME NEW p, NEW q, NEW f, f # e PROVE Spot(p, f) # Spot(q, e)
    <3>1. Spot(p, f).event = f /\ Spot(q, e).event = e
      BY Spots
    <3>2. QED
      BY <2>2, <3>1
  <2>3. /\ treeWriter[w] = NobodyWrites \/ \E p \in Places : treeWriter[w] = Spot(p, e)
        /\ treeWriter'[w] = NobodyWrites \/ \E p \in Places : treeWriter'[w] = Spot(p, e)
    BY OnlyThatWriter
  <2>4. QED
    BY <2>1, <2>2, <2>3
<1>1. DayHoldsEvents'
  BY <1>0, OnlyItsFile DEF TreeInv, DayHoldsEvents
<1>2. TemporariesAreWritten'
  <2> SUFFICES ASSUME NEW f \in TreeEvent, NEW v \in TreeWriter, v \in treeLeaf'[f]
               PROVE  treeWriter'[v] = Spot("replace", f)
    BY DEF TemporariesAreWritten
  <2>1. v \in treeLeaf[f] => treeWriter[v] = Spot("replace", f)
    BY DEF TreeInv, TemporariesAreWritten
  <2>2. CASE f # e
    BY <1>0, <1>w, <2>1, <2>2 DEF Places
  <2>3. CASE f = e /\ v # w
    BY <1>0, <2>1, <2>3, OnlyItsFile
  <2>4. CASE f = e /\ v = w
    BY <2>4, ItsFileIsWritten
  <2>5. QED
    BY <2>2, <2>3, <2>4
<1>3. WorkIsKnown'
  <2>1. ASSUME NEW v \in TreeWriter, NEW p \in Places, NEW f \in TreeEvent, treeWriter'[v] = Spot(p, f)
        PROVE  f \in treeCreated'
    <3>1. treeWriter[v] = Spot(p, f) => f \in treeCreated
      BY DEF TreeInv, WorkIsKnown
    <3>2. QED
      BY <1>0, <1>w, <2>1, <3>1
  <2>2. \A d \in TreeDeleter : treeDeleter'[d] # NobodyDeletes => treeDeleter'[d].event \in treeMarked'
    BY <1>0 DEF TreeInv, WorkIsKnown
  <2>3. QED
    BY <2>1, <2>2 DEF WorkIsKnown
<1>4. UnmarkedIsKept'
  <2> SUFFICES ASSUME NEW f \in treeCreated' \ (treeFailed' \cup treeMarked')
               PROVE  /\ \A v \in TreeWriter :
                           /\ treeWriter'[v] = Spot("open", f) => treeLeaf'[f] # Absent
                           /\ treeWriter'[v] = Spot("replace", f) => v \in treeLeaf'[f]
                      /\ \/ \E v \in TreeWriter, p \in Places : treeWriter'[v] = Spot(p, f)
                         \/ "metadata" \in treeLeaf'[f]
    BY DEF UnmarkedIsKept
  <2>1. f \in TreeEvent /\ f \notin treeFailed /\ f \notin treeMarked /\ f \notin treeFailed'
    BY <1>0 DEF TreeTyped
  <2>2. ASSUME f \in treeCreated
        PROVE  /\ \A v \in TreeWriter :
                    /\ treeWriter[v] = Spot("open", f) => treeLeaf[f] # Absent
                    /\ treeWriter[v] = Spot("replace", f) => v \in treeLeaf[f]
               /\ \/ \E v \in TreeWriter, p \in Places : treeWriter[v] = Spot(p, f)
                  \/ "metadata" \in treeLeaf[f]
    BY <2>1, <2>2 DEF TreeInv, UnmarkedIsKept
  <2>3. CASE f # e
    <3>1. f \in treeCreated /\ treeLeaf'[f] = treeLeaf[f]
      BY <1>0, <2>1, <2>3
    <3>2. \A v \in TreeWriter, p \in Places : treeWriter'[v] = Spot(p, f) <=> treeWriter[v] = Spot(p, f)
      BY <1>0, <1>w, <2>3
    <3>3. QED
      BY <2>2, <3>1, <3>2 DEF Places
  <2>4. CASE f = e
    <3>1. ASSUME NEW v \in TreeWriter, v # w
          PROVE  /\ treeWriter'[v] = Spot("open", f) => treeLeaf'[f] # Absent
                 /\ treeWriter'[v] = Spot("replace", f) => v \in treeLeaf'[f]
      <4>1. treeWriter'[v] = treeWriter[v]
        BY <1>0, <3>1
      <4>2. \A p \in Places : treeWriter[v] = Spot(p, f) => f \in treeCreated
        BY <2>1 DEF TreeInv, WorkIsKnown
      <4>3. QED
        BY <2>2, <2>4, <3>1, <4>1, <4>2, OnlyItsFile DEF Places
    <3>2. /\ treeWriter'[w] = Spot("open", f) => treeLeaf'[f] # Absent
          /\ treeWriter'[w] = Spot("replace", f) => w \in treeLeaf'[f]
      BY <2>1, <2>4, WriterKeepsUnmarked
    <3>3. \/ \E v \in TreeWriter, p \in Places : treeWriter'[v] = Spot(p, f)
          \/ "metadata" \in treeLeaf'[f]
      BY <2>1, <2>4, WriterKeepsUnmarked, OnlyThatWriter
    <3>4. QED
      BY <3>1, <3>2, <3>3
  <2>5. QED
    BY <2>3, <2>4
<1>5. HusksAreWanted'
  <2> SUFFICES ASSUME NEW f \in TreeEvent \ treeFailed', treeLeaf'[f] = {}
               PROVE  \/ \E v \in TreeWriter : treeWriter'[v] = Spot("open", f)
                      \/ \E d \in TreeDeleter : treeDeleter'[d].event = f /\ treeDeleter'[d].at \in {"list", "unlink"}
    BY DEF HusksAreWanted
  <2>1. CASE f = e /\ treeWriter'[w] = Spot("open", e)
    BY <2>1
  <2>2. CASE ~(f = e /\ treeWriter'[w] = Spot("open", e))
    <3>1. treeLeaf[f] = {} /\ treeWriter[w] # Spot("open", f)
      BY <1>0, <1>w, <2>2, WritersHuskIsWanted DEF Places
    <3>2. \/ \E v \in TreeWriter : treeWriter[v] = Spot("open", f)
          \/ \E d \in TreeDeleter : treeDeleter[d].event = f /\ treeDeleter[d].at \in {"list", "unlink"}
      BY <1>0, <3>1 DEF TreeInv, HusksAreWanted
    <3>3. QED
      BY <1>0, <3>1, <3>2
  <2>3. QED
    BY <2>1, <2>2
<1>6. QED
  BY <1>1, <1>2, <1>3, <1>4, <1>5 DEF TreeInv

\* A step of a deleter touches only the event it deletes, which is known to be deleted,
\* makes nothing, and leaves no empty directory behind that it does not go back to.
DeleterStep(d) ==
    /\ treeWriter' = treeWriter /\ treeCreated' = treeCreated /\ treeFailed' = treeFailed
    /\ treeMarked \subseteq treeMarked'
    /\ \A c \in TreeDeleter : c # d => treeDeleter'[c] = treeDeleter[c]
    /\ treeDeleter'[d] # NobodyDeletes => treeDeleter'[d].event \in treeMarked'
    /\ \A f \in TreeEvent : f \notin treeMarked' => treeLeaf'[f] = treeLeaf[f]
    /\ \A f \in TreeEvent, v \in TreeWriter : v \in treeLeaf'[f] => v \in treeLeaf[f]
    /\ \A f \in TreeEvent : treeLeaf'[f] # Absent => treeLeaf[f] # Absent
    /\ treeDay /\ (\E f \in TreeEvent : treeLeaf'[f] # Absent) => treeDay'
    /\ \A f \in TreeEvent : treeLeaf'[f] = {} =>
         \/ treeDeleter'[d].event = f /\ treeDeleter'[d].at = "unlink"
         \/ treeLeaf[f] = {} /\ ~(treeDeleter[d].event = f /\ treeDeleter[d].at \in {"list", "unlink"})

LEMMA DeletersStep ==
    ASSUME TreeInv, NEW d \in TreeDeleter, TreeDeletes(d)
    PROVE  DeleterStep(d)
<1> USE DEF Exists, DeleterAt, DeleterGoes
<1>1. treeDeleter[d].at # "idle" => treeDeleter[d].event \in treeMarked /\ treeDeleter[d].event \in TreeEvent
  BY DeleterWorks DEF TreeInv, WorkIsKnown, TreeTyped
<1>2. ASSUME NEW x, treeDeleter' = [treeDeleter EXCEPT ![d] = x]
      PROVE  treeDeleter'[d] = x /\ \A c \in TreeDeleter : c # d => treeDeleter'[c] = treeDeleter[c]
  BY <1>2 DEF TreeInv, TreeTyped
<1>3. \A f \in TreeEvent : treeLeaf[f] = Absent \/ treeLeaf[f] \in SUBSET Entry
  BY DEF TreeInv, TreeTyped
<1>4. ASSUME NEW e \in TreeEvent, NEW leaf, treeLeaf' = [treeLeaf EXCEPT ![e] = leaf]
      PROVE  treeLeaf'[e] = leaf /\ \A f \in TreeEvent : f # e => treeLeaf'[f] = treeLeaf[f]
  BY <1>4 DEF TreeInv, TreeTyped
<1>5. treeDeleter[d] = NobodyDeletes => treeDeleter[d].at \notin {"list", "unlink"}
  BY DEF NobodyDeletes
<1>6. ASSUME NEW e \in TreeEvent, TreeDelete(d, e) PROVE DeleterStep(d)
  <2>1. PICK x \in Deletions : x.event = e /\ treeDeleter' = [treeDeleter EXCEPT ![d] = x]
    BY <1>6, DeleterSteps DEF TreeInv
  <2>2. treeDeleter'[d].event = e /\ \A c \in TreeDeleter : c # d => treeDeleter'[c] = treeDeleter[c]
    BY <1>2, <2>1
  <2>3. /\ treeDeleter[d] = NobodyDeletes /\ treeMarked' = treeMarked \cup {e}
        /\ UNCHANGED <<treeDay, treeLeaf, treeWriter, treeCreated, treeFailed>>
    BY <1>6 DEF TreeDelete
  <2>4. QED
    BY <1>5, <2>2, <2>3 DEF DeleterStep
<1>7. CASE TreeList(d)
  <2>1. PICK x \in Deletions : x.at = "unlink" /\ x.event = treeDeleter[d].event
                                 /\ treeDeleter' = [treeDeleter EXCEPT ![d] = x]
    BY <1>7, DeleterSteps DEF TreeInv
  <2>2. /\ treeDeleter'[d].event = treeDeleter[d].event /\ treeDeleter'[d].at = "unlink"
        /\ \A c \in TreeDeleter : c # d => treeDeleter'[c] = treeDeleter[c]
    BY <1>2, <2>1
  <2>3. treeDeleter[d].at = "list" /\ UNCHANGED <<treeDay, treeLeaf, treeWriter, treeCreated, treeMarked, treeFailed>>
    BY <1>7 DEF TreeList
  <2>4. QED
    BY <1>1, <2>2, <2>3 DEF DeleterStep
<1>8. ASSUME NEW f \in Entry, TreeUnlink(d, f) PROVE DeleterStep(d)
  <2>1. PICK x \in Deletions : x.at = "unlink" /\ x.event = treeDeleter[d].event
                                 /\ treeDeleter' = [treeDeleter EXCEPT ![d] = x]
    BY <1>8, DeleterSteps DEF TreeInv
  <2>2. /\ treeDeleter'[d].event = treeDeleter[d].event /\ treeDeleter'[d].at = "unlink"
        /\ \A c \in TreeDeleter : c # d => treeDeleter'[c] = treeDeleter[c]
    BY <1>2, <2>1
  <2>3. treeDeleter[d].at = "unlink" /\ UNCHANGED <<treeDay, treeWriter, treeCreated, treeMarked, treeFailed>>
    BY <1>8 DEF TreeUnlink
  <2>4. PICK e \in TreeEvent : e = treeDeleter[d].event /\ e \in treeMarked
    BY <1>1, <2>3
  <2>5. /\ treeLeaf'[e] \in {treeLeaf[e], treeLeaf[e] \ {f}} /\ (treeLeaf[e] = Absent => treeLeaf'[e] = Absent)
        /\ \A g \in TreeEvent : g # e => treeLeaf'[g] = treeLeaf[g]
    BY <1>4, <1>8, <2>4 DEF TreeUnlink
  <2>6. QED
    BY <2>2, <2>3, <2>4, <2>5 DEF DeleterStep
<1>9. CASE TreeRemove(d)
  <2>1. PICK x \in Deletions : x.at = "prune" /\ x.event = treeDeleter[d].event
                                 /\ treeDeleter' = [treeDeleter EXCEPT ![d] = x]
    BY <1>9, DeleterSteps DEF TreeInv
  <2>2. /\ treeDeleter'[d].event = treeDeleter[d].event
        /\ \A c \in TreeDeleter : c # d => treeDeleter'[c] = treeDeleter[c]
    BY <1>2, <2>1
  <2>3. treeDeleter[d].at = "unlink" /\ UNCHANGED <<treeDay, treeWriter, treeCreated, treeMarked, treeFailed>>
    BY <1>9 DEF TreeRemove
  <2>4. PICK e \in TreeEvent : e = treeDeleter[d].event /\ e \in treeMarked
    BY <1>1, <2>3
  <2>5. /\ treeLeaf'[e] = IF treeLeaf[e] = {} THEN Absent ELSE treeLeaf[e]
        /\ \A g \in TreeEvent : g # e => treeLeaf'[g] = treeLeaf[g]
    BY <1>4, <1>9, <2>4 DEF TreeRemove
  <2>6. treeLeaf'[e] # {} /\ (treeLeaf'[e] # Absent => treeLeaf'[e] = treeLeaf[e])
        /\ \A v \in TreeWriter : v \in treeLeaf'[e] => v \in treeLeaf[e]
    BY <2>5, TreeNames
  <2>7. QED
    BY <2>2, <2>3, <2>4, <2>5, <2>6 DEF DeleterStep
<1>10. CASE TreePrune(d)
  <2>1. treeDeleter'[d] = NobodyDeletes /\ \A c \in TreeDeleter : c # d => treeDeleter'[c] = treeDeleter[c]
    BY <1>2, <1>10 DEF TreePrune
  <2>2. treeDeleter[d].at = "prune" /\ UNCHANGED <<treeLeaf, treeWriter, treeCreated, treeMarked, treeFailed>>
    BY <1>10 DEF TreePrune
  <2>3. treeDay /\ (\E f \in TreeEvent : treeLeaf'[f] # Absent) => treeDay'
    <3>1. treeDay' = (treeDay /\ \E f \in TreeEvent : treeLeaf[f] # Absent)
      BY <1>10, Zenon DEF TreePrune
    <3>2. QED
      BY <2>2, <3>1, Zenon
  <2>4. QED
    BY <2>1, <2>2, <2>3 DEF DeleterStep
<1>11. QED
  BY <1>6, <1>7, <1>8, <1>9, <1>10 DEF TreeDeletes

\* A deleter's step keeps the invariant.
LEMMA DeleterStepInv ==
    ASSUME TreeInv, TreeTyped', NEW d \in TreeDeleter, DeleterStep(d)
    PROVE  TreeInv'
<1>1. DayHoldsEvents'
  BY DEF TreeInv, DayHoldsEvents, DeleterStep
<1>2. TemporariesAreWritten'
  BY DEF TreeInv, TemporariesAreWritten, DeleterStep
<1>3. WorkIsKnown'
  <2>1. \A w \in TreeWriter, p \in Places, e \in TreeEvent : treeWriter'[w] = Spot(p, e) => e \in treeCreated'
    BY DEF TreeInv, WorkIsKnown, DeleterStep
  <2>2. \A c \in TreeDeleter : treeDeleter'[c] # NobodyDeletes => treeDeleter'[c].event \in treeMarked'
    BY DEF TreeInv, WorkIsKnown, DeleterStep
  <2>3. QED
    BY <2>1, <2>2 DEF WorkIsKnown
<1>4. UnmarkedIsKept'
  <2> SUFFICES ASSUME NEW e \in treeCreated' \ (treeFailed' \cup treeMarked')
               PROVE  /\ \A w \in TreeWriter :
                           /\ treeWriter'[w] = Spot("open", e) => treeLeaf'[e] # Absent
                           /\ treeWriter'[w] = Spot("replace", e) => w \in treeLeaf'[e]
                      /\ \/ \E w \in TreeWriter, p \in Places : treeWriter'[w] = Spot(p, e)
                         \/ "metadata" \in treeLeaf'[e]
    BY DEF UnmarkedIsKept
  <2>1. e \in treeCreated \ (treeFailed \cup treeMarked) /\ treeLeaf'[e] = treeLeaf[e] /\ treeWriter' = treeWriter
    BY DEF DeleterStep, TreeTyped
  <2>2. QED
    BY <2>1 DEF TreeInv, UnmarkedIsKept
<1>5. HusksAreWanted'
  <2> SUFFICES ASSUME NEW e \in TreeEvent \ treeFailed', treeLeaf'[e] = {}
               PROVE  \/ \E w \in TreeWriter : treeWriter'[w] = Spot("open", e)
                      \/ \E c \in TreeDeleter : treeDeleter'[c].event = e /\ treeDeleter'[c].at \in {"list", "unlink"}
    BY DEF HusksAreWanted
  <2>1. CASE treeDeleter'[d].event = e /\ treeDeleter'[d].at = "unlink"
    BY <2>1
  <2>2. CASE treeLeaf[e] = {} /\ ~(treeDeleter[d].event = e /\ treeDeleter[d].at \in {"list", "unlink"})
    <3>1. \/ \E w \in TreeWriter : treeWriter[w] = Spot("open", e)
          \/ \E c \in TreeDeleter : treeDeleter[c].event = e /\ treeDeleter[c].at \in {"list", "unlink"}
      BY <2>2 DEF TreeInv, HusksAreWanted, DeleterStep
    <3>2. treeWriter' = treeWriter /\ \A c \in TreeDeleter : c # d => treeDeleter'[c] = treeDeleter[c]
      BY DEF DeleterStep
    <3>3. QED
      BY <2>2, <3>1, <3>2
  <2>3. QED
    BY <2>1, <2>2 DEF DeleterStep
<1>6. QED
  BY <1>1, <1>2, <1>3, <1>4, <1>5 DEF TreeInv

LEMMA TreeStepInv == TreeInv /\ [TreeNext]_treeVars => TreeInv'
<1> SUFFICES ASSUME TreeInv, [TreeNext]_treeVars PROVE TreeInv'
  OBVIOUS
<1>1. TreeTyped'
  BY TreeStepTyped DEF TreeInv
<1>2. ASSUME NEW w \in TreeWriter, TreeWrites(w) PROVE TreeInv'
  BY <1>1, <1>2, WritersStep, WriterStepInv DEF TreeWrites
<1>3. ASSUME NEW d \in TreeDeleter, TreeDeletes(d) PROVE TreeInv'
  BY <1>1, <1>3, DeletersStep, DeleterStepInv
<1>4. CASE UNCHANGED treeVars
  BY <1>4 DEF treeVars, TreeInv, TreeTyped, DayHoldsEvents, TemporariesAreWritten, WorkIsKnown,
              UnmarkedIsKept, HusksAreWanted
<1>5. QED
  BY <1>2, <1>3, <1>4 DEF TreeNext, TreeDone

\* Nobody's deletion harms another event, and no husk of a directory remains, however
\* many create, save and delete at once (TreeRecordsSurvive).
THEOREM RecordsSurvive == TreeSpec => []TreeRecordsSurvive
<1>1. TreeSpec => []TreeInv
  BY TreeInitInv, TreeStepInv, PTL DEF TreeSpec
<1>2. QED
  BY <1>1, TreeInvSuffices, PTL

-----------------------------------------------------------------------------
(* The usage of the disk                                                   *)

\* A set of numbers has a least.
LEMMA LeastNumber ==
    ASSUME NEW T, T \subseteq Nat, T # {}
    PROVE  \E m \in T : \A k \in T : ~(k < m)
<1>1. PICK m \in T : \A y \in T : ~(<<y, m>> \in OpToRel(<, Nat))
  BY NatLessThanWellFounded, WFMin
<1>2. QED
  BY <1>1 DEF OpToRel

\* Induction up to N.
LEMMA UpTo ==
    ASSUME NEW N \in Nat, NEW T, 0 \in T, \A n \in 1 .. N : n - 1 \in T => n \in T
    PROVE  \A n \in 0 .. N : n \in T
<1> DEFINE B == {n \in 0 .. N : n \notin T}
<1>1. SUFFICES ASSUME B # {} PROVE FALSE
  OBVIOUS
<1>2. B \subseteq Nat
  OBVIOUS
<1> HIDE DEF B
<1>3. PICK m \in B : \A k \in B : ~(k < m)
  BY <1>1, <1>2, LeastNumber
<1>4. m \in 0 .. N /\ m \notin T /\ m # 0
  BY <1>3 DEF B
<1>5. m - 1 \in 0 .. N /\ m \in 1 .. N /\ m - 1 < m
  BY <1>4
<1>6. m - 1 \in T
  BY <1>3, <1>5 DEF B
<1>7. QED
  BY <1>4, <1>5, <1>6

RetStates == {"none", "active", "ended", "gone"}

\* The recursion of RetUsed, over any states and sizes of the events.
UsedBy(f, ev, sz, o) ==
    [e \in 0 .. RetLast |->
        IF e = 0 THEN o ELSE f[e - 1] + (IF ev[e] \in {"active", "ended"} THEN sz[e] ELSE 0)]
UsedOf(ev, sz, o) == CHOOSE f : f = UsedBy(f, ev, sz, o)

LEMMA UsedIsSum == /\ RetUsed = UsedOf(retEvent, retSize, retOther)[RetLast]
                   /\ RetUsed' = UsedOf(retEvent', retSize', retOther')[RetLast]
BY DEF RetUsed, Present, UsedOf, UsedBy

\* There is such a function, for there are beginnings of it of every length.
LEMMA UsedIsDefined ==
    ASSUME NEW ev, NEW sz \in [RetEvents -> Nat], NEW o \in Nat
    PROVE  UsedOf(ev, sz, o) = UsedBy(UsedOf(ev, sz, o), ev, sz, o)
<1> DEFINE Step(g, k) == g[k - 1] + (IF ev[k] \in {"active", "ended"} THEN sz[k] ELSE 0)
           Begins(g, n) == /\ g = [k \in 0 .. n |-> g[k]] /\ g[0] = o
                           /\ \A k \in 1 .. n : g[k] = Step(g, k)
           T == {n \in 0 .. RetLast : \E g : Begins(g, n)}
<1>0. RetLast \in Nat
  BY RetAssumption
<1>1. 0 \in T
  <2> DEFINE g == [k \in 0 .. 0 |-> o]
  <2>1. g[0] = o /\ g = [k \in 0 .. 0 |-> g[k]] /\ 0 \in 0 .. RetLast
    BY <1>0
  <2> HIDE DEF g
  <2>2. Begins(g, 0)
    BY <2>1
  <2>3. QED
    BY <2>1, <2>2
<1>2. ASSUME NEW m \in 1 .. RetLast, m - 1 \in T PROVE m \in T
  <2>1. m \in Nat /\ m # 0 /\ m \in 0 .. RetLast
    BY <1>0
  <2>2. PICK g : Begins(g, m - 1)
    BY <1>2
  <2> DEFINE h == [k \in 0 .. m |-> IF k = m THEN Step(g, m) ELSE g[k]]
  <2>3. h = [k \in 0 .. m |-> h[k]]
    OBVIOUS
  <2>4. \A k \in 0 .. m - 1 : h[k] = g[k]
    BY <2>1
  <2>5. h[0] = o
    BY <2>1, <2>2, <2>4
  <2>6. h[m] = Step(g, m)
    BY <2>1
  <2> HIDE DEF h
  <2>7. \A k \in 1 .. m : h[k] = Step(h, k)
    <3> SUFFICES ASSUME NEW k \in 1 .. m PROVE h[k] = Step(h, k)
      OBVIOUS
    <3>1. k - 1 \in 0 .. m - 1
      BY <2>1
    <3>2. h[k - 1] = g[k - 1]
      BY <2>4, <3>1
    <3>3. k = m \/ k \in 1 .. m - 1
      BY <2>1
    <3>4. CASE k = m
      BY <2>6, <3>2, <3>4
    <3>5. CASE k \in 1 .. m - 1
      <4>1. k \in 0 .. m - 1
        BY <2>1, <3>5
      <4>2. h[k] = g[k]
        BY <2>4, <4>1
      <4>3. g[k] = Step(g, k)
        BY <2>2, <3>5
      <4>4. QED
        BY <3>2, <4>2, <4>3
    <3>6. QED
      BY <3>3, <3>4, <3>5
  <2>8. Begins(h, m)
    BY <2>3, <2>5, <2>7
  <2>9. QED
    BY <2>1, <2>8
<1> HIDE DEF T
<1>3. RetLast \in T
  <2>1. RetLast \in 0 .. RetLast
    BY <1>0
  <2>2. QED
    BY <1>0, <1>1, <1>2, <2>1, UpTo
<1>4. PICK g : Begins(g, RetLast)
  BY <1>3 DEF T
<1>5. g = UsedBy(g, ev, sz, o)
  <2> SUFFICES ASSUME NEW k \in 0 .. RetLast PROVE g[k] = UsedBy(g, ev, sz, o)[k]
    BY <1>4 DEF UsedBy
  <2>1. k = 0 \/ k \in 1 .. RetLast
    BY <1>0
  <2>2. CASE k = 0
    <3>1. g[k] = o
      BY <1>4, <2>2
    <3>2. UsedBy(g, ev, sz, o)[k] = o
      BY <2>2 DEF UsedBy
    <3>3. QED
      BY <3>1, <3>2
  <2>3. CASE k \in 1 .. RetLast
    <3>1. g[k] = Step(g, k) /\ k # 0
      BY <1>4, <2>3
    <3>2. UsedBy(g, ev, sz, o)[k] = Step(g, k)
      BY <3>1 DEF UsedBy
    <3>3. QED
      BY <3>1, <3>2
  <2>4. QED
    BY <2>1, <2>2, <2>3
<1>6. QED
  BY <1>5 DEF UsedOf

LEMMA UsedValues ==
    ASSUME NEW ev, NEW sz \in [RetEvents -> Nat], NEW o \in Nat
    PROVE  /\ UsedOf(ev, sz, o)[0] = o
           /\ \A e \in RetEvents :
                UsedOf(ev, sz, o)[e] =
                  UsedOf(ev, sz, o)[e - 1] + (IF ev[e] \in {"active", "ended"} THEN sz[e] ELSE 0)
<1> DEFINE f == UsedOf(ev, sz, o)
<1>1. f = UsedBy(f, ev, sz, o) /\ RetLast \in Nat
  BY UsedIsDefined, RetAssumption
<1> HIDE DEF f
<1>2. f = [e \in 0 .. RetLast |->
            IF e = 0 THEN o ELSE f[e - 1] + (IF ev[e] \in {"active", "ended"} THEN sz[e] ELSE 0)]
  BY <1>1 DEF UsedBy
<1>3. f[0] = o
  <2>1. 0 \in 0 .. RetLast
    BY <1>1
  <2>2. QED
    BY <1>2, <2>1
<1>4. ASSUME NEW e \in RetEvents
      PROVE  f[e] = f[e - 1] + (IF ev[e] \in {"active", "ended"} THEN sz[e] ELSE 0)
  <2>1. e \in 0 .. RetLast /\ e # 0
    BY <1>1 DEF RetEvents
  <2>2. f[e] = IF e = 0 THEN o ELSE f[e - 1] + (IF ev[e] \in {"active", "ended"} THEN sz[e] ELSE 0)
    BY <1>2, <2>1, Zenon
  <2>3. QED
    BY <2>1, <2>2
<1>5. QED
  BY <1>3, <1>4 DEF f

LEMMA UsedNext ==
    ASSUME NEW ev, NEW sz \in [RetEvents -> Nat], NEW o \in Nat, NEW e \in RetEvents
    PROVE  UsedOf(ev, sz, o)[e] =
             UsedOf(ev, sz, o)[e - 1] + (IF ev[e] \in {"active", "ended"} THEN sz[e] ELSE 0)
<1>1. \A x \in RetEvents :
        UsedOf(ev, sz, o)[x] =
          UsedOf(ev, sz, o)[x - 1] + (IF ev[x] \in {"active", "ended"} THEN sz[x] ELSE 0)
  BY UsedValues
<1>2. QED
  BY <1>1, Zenon

\* The usage is a number.
LEMMA UsedIsNat ==
    ASSUME NEW ev, NEW sz \in [RetEvents -> Nat], NEW o \in Nat
    PROVE  \A n \in 0 .. RetLast : UsedOf(ev, sz, o)[n] \in Nat
<1> DEFINE T == {n \in 0 .. RetLast : UsedOf(ev, sz, o)[n] \in Nat}
<1>0. RetLast \in Nat /\ 0 \in 0 .. RetLast
  BY RetAssumption
<1>1. 0 \in T
  <2>1. UsedOf(ev, sz, o)[0] = o
    BY UsedValues
  <2>2. QED
    BY <1>0, <2>1
<1>2. ASSUME NEW n \in 1 .. RetLast, n - 1 \in T PROVE n \in T
  <2>1. n \in RetEvents /\ sz[n] \in Nat /\ n \in 0 .. RetLast
    BY <1>0 DEF RetEvents
  <2>2. UsedOf(ev, sz, o)[n] = UsedOf(ev, sz, o)[n - 1] + (IF ev[n] \in {"active", "ended"} THEN sz[n] ELSE 0)
    BY <2>1, UsedNext
  <2>3. QED
    BY <1>2, <2>1, <2>2
<1> HIDE DEF T
<1>3. \A n \in 0 .. RetLast : n \in T
  BY <1>0, <1>1, <1>2, UpTo
<1>4. QED
  BY <1>3 DEF T

\* It depends on which events are there, and
LEMMA UsedOfSame ==
    ASSUME NEW ev, NEW ew, NEW sz \in [RetEvents -> Nat], NEW o \in Nat,
           \A e \in RetEvents : ev[e] \in {"active", "ended"} <=> ew[e] \in {"active", "ended"}
    PROVE  UsedOf(ew, sz, o)[RetLast] = UsedOf(ev, sz, o)[RetLast]
<1> DEFINE T == {n \in 0 .. RetLast : UsedOf(ew, sz, o)[n] = UsedOf(ev, sz, o)[n]}
<1>0. RetLast \in Nat /\ 0 \in 0 .. RetLast /\ RetLast \in 0 .. RetLast
  BY RetAssumption
<1>1. 0 \in T
  <2>1. /\ UsedOf(ev, sz, o)[0] = o
        /\ UsedOf(ew, sz, o)[0] = o
    BY UsedValues
  <2>2. QED
    BY <1>0, <2>1
<1>2. ASSUME NEW n \in 1 .. RetLast, n - 1 \in T PROVE n \in T
  <2>1. n \in RetEvents /\ n \in 0 .. RetLast
    BY <1>0 DEF RetEvents
  <2>2. /\ UsedOf(ev, sz, o)[n] = UsedOf(ev, sz, o)[n - 1] + (IF ev[n] \in {"active", "ended"} THEN sz[n] ELSE 0)
        /\ UsedOf(ew, sz, o)[n] = UsedOf(ew, sz, o)[n - 1] + (IF ew[n] \in {"active", "ended"} THEN sz[n] ELSE 0)
    BY <2>1, UsedNext
  <2>3. QED
    BY <1>2, <2>1, <2>2
<1> HIDE DEF T
<1>3. RetLast \in T
  BY <1>0, <1>1, <1>2, UpTo
<1>4. QED
  BY <1>3 DEF T

\* an event that goes frees what it took.
LEMMA UsedOfGone ==
    ASSUME NEW ev, NEW ew, NEW sz \in [RetEvents -> Nat], NEW o \in Nat, NEW x \in RetEvents,
           ev[x] \in {"active", "ended"}, ew[x] \notin {"active", "ended"},
           \A e \in RetEvents : e # x => ew[e] = ev[e]
    PROVE  UsedOf(ew, sz, o)[RetLast] = UsedOf(ev, sz, o)[RetLast] - sz[x]
<1> DEFINE T == {n \in 0 .. RetLast :
                   UsedOf(ew, sz, o)[n] = UsedOf(ev, sz, o)[n] - (IF n < x THEN 0 ELSE sz[x])}
<1>0. RetLast \in Nat /\ 0 \in 0 .. RetLast /\ RetLast \in 0 .. RetLast /\ x \in 1 .. RetLast /\ sz[x] \in Nat
  BY RetAssumption DEF RetEvents
<1>1. 0 \in T
  <2>1. UsedOf(ev, sz, o)[0] = o /\ UsedOf(ew, sz, o)[0] = o
    BY UsedValues
  <2>2. QED
    BY <1>0, <2>1
<1>2. ASSUME NEW n \in 1 .. RetLast, n - 1 \in T PROVE n \in T
  <2>1. n \in RetEvents /\ n \in 0 .. RetLast /\ n - 1 \in 0 .. RetLast /\ sz[n] \in Nat
    BY <1>0 DEF RetEvents
  <2>2. PICK u \in Nat : u = UsedOf(ev, sz, o)[n - 1]
    BY <2>1, UsedIsNat
  <2>3. PICK v \in Nat : v = UsedOf(ew, sz, o)[n - 1]
    BY <2>1, UsedIsNat
  <2>4. v = u - (IF n - 1 < x THEN 0 ELSE sz[x])
    BY <1>2, <2>2, <2>3
  <2>5. /\ UsedOf(ev, sz, o)[n] = u + (IF ev[n] \in {"active", "ended"} THEN sz[n] ELSE 0)
        /\ UsedOf(ew, sz, o)[n] = v + (IF ew[n] \in {"active", "ended"} THEN sz[n] ELSE 0)
    <3>1. n \in RetEvents
      BY <2>1
    <3>2. UsedOf(ev, sz, o)[n] = UsedOf(ev, sz, o)[n - 1] + (IF ev[n] \in {"active", "ended"} THEN sz[n] ELSE 0)
      BY <3>1, UsedNext, Zenon
    <3>3. UsedOf(ew, sz, o)[n] = UsedOf(ew, sz, o)[n - 1] + (IF ew[n] \in {"active", "ended"} THEN sz[n] ELSE 0)
      BY <3>1, UsedNext
    <3>4. QED
      BY <2>2, <2>3, <3>2, <3>3
  <2>6. CASE n = x
    <3>1. UsedOf(ev, sz, o)[n] = u + sz[x] /\ UsedOf(ew, sz, o)[n] = v + 0 /\ v = u
      BY <1>0, <2>4, <2>5, <2>6
    <3>2. QED
      BY <1>0, <2>1, <2>6, <3>1
  <2>7. CASE n # x
    <3>1. PICK d \in Nat : d = IF ev[n] \in {"active", "ended"} THEN sz[n] ELSE 0
      BY <2>1
    <3>2. UsedOf(ev, sz, o)[n] = u + d /\ UsedOf(ew, sz, o)[n] = v + d
      BY <2>1, <2>5, <2>7, <3>1
    <3>3. n < x <=> n - 1 < x
      BY <1>0, <2>1, <2>7
    <3>4. QED
      BY <1>0, <2>1, <2>4, <3>2, <3>3
  <2>8. QED
    BY <2>6, <2>7
<1> HIDE DEF T
<1>3. RetLast \in T
  BY <1>0, <1>1, <1>2, UpTo
<1>4. QED
  BY <1>0, <1>3 DEF T

-----------------------------------------------------------------------------
(* The inductive invariant                                                 *)

RetRunTypes ==
    [at : {"idle", "aged", "space", "measure", "delete", "done"}, next : Nat,
     listed : SUBSET RetEvents, used : Int, size : Nat, skipped : SUBSET RetEvents,
     alone : BOOLEAN, steady : BOOLEAN]

RetTyped ==
    /\ retEvent \in [RetEvents -> RetStates]
    /\ retSize \in [RetEvents -> RetSizes]
    /\ retOther \in Nat
    /\ retRun \in [RetSweep -> RetRunTypes]

There(ev, e) == ev[e] \in {"active", "ended"}

\* Directories are made in the order of their names.
RetInOrder(ev) == \A e, f \in RetEvents : e < f /\ ev[e] = "none" => ev[f] = "none"

\* What a sweep has passed is gone or skipped; what it has in hand had ended when it
\* looked, with the sweep's figures above the limit.
Walks(run, ev) ==
    /\ run.at = "aged" => run.next = 1
    /\ run.at \in {"space", "measure", "delete"} =>
         /\ run.next >= 1
         /\ \A f \in RetEvents : f < run.next => ev[f] # "none" /\ (There(ev, f) => f \in run.skipped)
    /\ run.at \in {"measure", "delete"} =>
         /\ run.next \in RetEvents /\ ev[run.next] \in {"ended", "gone"}
         /\ OverLimit(run.used)

\* A sweep never believes that there is more room than there is: what others delete is
\* not in its figures, and what it subtracts has been freed, by itself or by another.
Figures(run, ev, sz, used) ==
    /\ run.at = "delete" /\ There(ev, run.next) => run.size = sz[run.next]
    /\ run.at \in {"space", "measure"} /\ run.steady => used <= run.used
    /\ run.at = "delete" /\ run.steady => used + (IF There(ev, run.next) THEN 0 ELSE run.size) <= run.used
    /\ run.at = "done" /\ run.steady =>
         ~OverLimit(used) \/ \A f \in RetEvents : There(ev, f) => f \in run.skipped

\* The only sweep knows exactly.
Exact(run, ev, used) ==
    run.alone /\ run.steady =>
        /\ run.at \in {"space", "measure", "delete"} => run.used = used
        /\ run.at \in {"measure", "delete"} => There(ev, run.next)

SweepInv(run, ev, sz, used) == Walks(run, ev) /\ Figures(run, ev, sz, used) /\ Exact(run, ev, used)

\* Who runs alone does.
RunsAlone(runs) ==
    \A s, q \in RetSweep : s # q /\ runs[s].alone => runs[q].at = "idle"

RetInv ==
    /\ RetTyped
    /\ RetInOrder(retEvent)
    /\ RunsAlone(retRun)
    /\ \A s \in RetSweep : SweepInv(retRun[s], retEvent, retSize, RetUsed)

-----------------------------------------------------------------------------
(* What the steps do to the usage                                          *)

LEMMA UsageIsNat == ASSUME RetTyped PROVE RetUsed \in Nat
<1>1. retSize \in [RetEvents -> Nat] /\ retOther \in Nat
  BY RetAssumption DEF RetTyped
<1>2. RetLast \in 0 .. RetLast
  BY RetAssumption
<1>3. QED
  BY <1>1, <1>2, UsedIsSum, UsedIsNat

LEMMA UsageStays ==
    ASSUME RetTyped, UNCHANGED <<retSize, retOther>>,
           \A e \in RetEvents : There(retEvent, e) <=> There(retEvent', e)
    PROVE  RetUsed' = RetUsed
<1>1. retSize \in [RetEvents -> Nat] /\ retOther \in Nat
  BY RetAssumption DEF RetTyped
<1>2. UsedOf(retEvent', retSize, retOther)[RetLast] = UsedOf(retEvent, retSize, retOther)[RetLast]
  BY <1>1, UsedOfSame DEF There
<1>3. QED
  BY <1>2, UsedIsSum

LEMMA UsageFalls ==
    ASSUME RetTyped, UNCHANGED <<retSize, retOther>>, NEW x \in RetEvents,
           There(retEvent, x), RetGone(x)
    PROVE  RetUsed' = RetUsed - retSize[x] /\ retSize[x] \in Nat
<1>1. retSize \in [RetEvents -> Nat] /\ retOther \in Nat
  BY RetAssumption DEF RetTyped
<1>2. /\ retEvent'[x] \notin {"active", "ended"}
      /\ \A e \in RetEvents : e # x => retEvent'[e] = retEvent[e]
  BY DEF RetTyped, RetGone, There, Present
<1>3. UsedOf(retEvent', retSize, retOther)[RetLast] = UsedOf(retEvent, retSize, retOther)[RetLast] - retSize[x]
  BY <1>1, <1>2, UsedOfGone DEF There
<1>4. QED
  BY <1>1, <1>3, UsedIsSum

-----------------------------------------------------------------------------
(* What the steps do to a sweep that does not take them                    *)

\* Nothing comes back, nothing that ended goes on, and what is new comes last.
Onward(ev, ew) ==
    \A f \in RetEvents :
        /\ ev[f] # "none" => ew[f] # "none" /\ (There(ew, f) => There(ev, f))
        /\ ev[f] \in {"ended", "gone"} => ew[f] \in {"ended", "gone"}

\* A sweep's record as another one's step leaves it.
Besides(run, now) ==
    /\ now \in RetRunTypes
    /\ now.at = run.at /\ now.next = run.next /\ now.used = run.used
    /\ now.size = run.size /\ now.skipped = run.skipped
    /\ now.alone => run.alone
    /\ now.steady => run.steady

LEMMA WalksGoOn ==
    ASSUME NEW run \in RetRunTypes, NEW now, Besides(run, now), NEW ev, NEW ew, Onward(ev, ew), Walks(run, ev)
    PROVE  Walks(now, ew)
BY DEF Walks, Besides, Onward

\* Somebody has changed the usage otherwise: the figures are not to be relied upon.
LEMMA OthersDisturb ==
    ASSUME NEW run \in RetRunTypes, NEW now, Besides(run, now), ~now.steady,
           NEW ev, NEW ew, Onward(ev, ew), NEW sz, NEW used, NEW usedNow, SweepInv(run, ev, sz, used)
    PROVE  SweepInv(now, ew, sz, usedNow)
<1>1. Walks(now, ew)
  BY WalksGoOn DEF SweepInv
<1>2. now.at = "delete" /\ There(ew, now.next) => now.size = sz[now.next]
  BY DEF SweepInv, Walks, Figures, Besides, Onward
<1>3. QED
  BY <1>1, <1>2 DEF SweepInv, Figures, Exact

\* The usage is what it was.
LEMMA OthersLeave ==
    ASSUME NEW run \in RetRunTypes, NEW now, Besides(run, now),
           NEW ev, NEW ew, Onward(ev, ew), \A f \in RetEvents : There(ew, f) <=> There(ev, f),
           NEW sz, NEW used, SweepInv(run, ev, sz, used)
    PROVE  SweepInv(now, ew, sz, used)
<1>1. Walks(now, ew)
  BY WalksGoOn DEF SweepInv
<1>2. now.at \in {"measure", "delete"} => now.next \in RetEvents
  BY DEF SweepInv, Walks, Besides
<1>3. Figures(now, ew, sz, used)
  BY <1>2 DEF SweepInv, Figures, Besides
<1>4. Exact(now, ew, used)
  BY <1>2 DEF SweepInv, Exact, Besides
<1>5. QED
  BY <1>1, <1>3, <1>4 DEF SweepInv

\* Another sweep has deleted an event.
LEMMA OthersDelete ==
    ASSUME NEW run \in RetRunTypes, NEW now, Besides(run, now), ~now.alone,
           NEW ev, NEW ew, Onward(ev, ew), NEW x \in RetEvents, There(ev, x), ~There(ew, x),
           \A f \in RetEvents : f # x => ew[f] = ev[f],
           NEW sz, NEW used \in Nat, sz[x] \in Nat, SweepInv(run, ev, sz, used)
    PROVE  SweepInv(now, ew, sz, used - sz[x])
<1>1. Walks(now, ew)
  BY WalksGoOn DEF SweepInv
<1>2. now.at \in {"measure", "delete"} => now.next \in RetEvents
  BY DEF SweepInv, Walks, Besides
<1>3. now.used \in Int /\ now.size \in Nat
  BY DEF Besides, RetRunTypes
<1>4. \A f \in RetEvents : There(ew, f) => There(ev, f)
  BY DEF There
<1>5. now.at = "delete" /\ There(ew, now.next) => now.size = sz[now.next]
  BY <1>2, <1>4 DEF SweepInv, Figures, Besides
<1>6. now.at \in {"space", "measure"} /\ now.steady => used - sz[x] <= now.used
  BY <1>3 DEF SweepInv, Figures, Besides
<1>7. ASSUME now.at = "delete", now.steady
      PROVE  (used - sz[x]) + (IF There(ew, now.next) THEN 0 ELSE now.size) <= now.used
  <2>1. used + (IF There(ev, now.next) THEN 0 ELSE now.size) <= now.used
    BY <1>7 DEF SweepInv, Figures, Besides
  <2>2. CASE now.next = x
    <3>1. now.size = sz[x] /\ used <= now.used
      BY <1>7, <2>1, <2>2 DEF SweepInv, Figures, Besides
    <3>2. QED
      BY <1>3, <2>2, <3>1
  <2>3. CASE now.next # x
    <3>1. There(ew, now.next) <=> There(ev, now.next)
      BY <1>2, <1>7, <2>3 DEF There
    <3>2. QED
      BY <1>3, <2>1, <3>1
  <2>4. QED
    BY <2>2, <2>3
<1>8. now.at = "done" /\ now.steady =>
        ~OverLimit(used - sz[x]) \/ \A f \in RetEvents : There(ew, f) => f \in now.skipped
  BY <1>4, RetAssumption DEF SweepInv, Figures, Besides, OverLimit
<1>9. QED
  BY <1>1, <1>5, <1>6, <1>7, <1>8 DEF SweepInv, Figures, Exact

-----------------------------------------------------------------------------
(* The steps                                                               *)

\* A step of one sweep that changes nothing but its own record.
LEMMA OwnStep ==
    ASSUME RetInv, UNCHANGED <<retEvent, retSize, retOther>>, NEW s \in RetSweep, NEW now \in RetRunTypes,
           retRun' = [retRun EXCEPT ![s] = now], SweepInv(now, retEvent, retSize, RetUsed),
           now.alone => retRun[s].alone, now.at # "idle" => retRun[s].at # "idle"
    PROVE  RetInv'
<1>1. RetTyped' /\ RetInOrder(retEvent)'
  BY DEF RetInv, RetTyped
<1>2. RetUsed' = RetUsed
  BY UsageStays DEF RetInv
<1>3. \A q \in RetSweep : retRun'[q] = IF q = s THEN now ELSE retRun[q]
  BY DEF RetInv, RetTyped
<1>4. RunsAlone(retRun)'
  BY <1>3 DEF RetInv, RunsAlone
<1>5. \A q \in RetSweep : SweepInv(retRun'[q], retEvent, retSize, RetUsed)
  BY <1>3 DEF RetInv
<1>6. QED
  BY <1>1, <1>2, <1>4, <1>5 DEF RetInv

LEMMA BeginKeeps == ASSUME RetInv, NEW s \in RetSweep, RetBegin(s) PROVE RetInv'
<1> DEFINE nobody == \A q \in RetSweep : retRun[q].at = "idle"
           ended == {e \in RetEvents : retEvent[e] = "ended"}
           mine == [RetIdle EXCEPT !.at = "aged", !.next = 1, !.listed = ended, !.alone = nobody]
<1>1. RetTyped /\ RetInOrder(retEvent) /\ UNCHANGED <<retEvent, retSize, retOther>>
  BY DEF RetInv, RetBegin
<1>2. /\ mine \in RetRunTypes /\ mine.at = "aged" /\ mine.next = 1 /\ mine.steady = FALSE
      /\ mine.alone = nobody
  <2>1. nobody \in BOOLEAN /\ ended \in SUBSET RetEvents
    OBVIOUS
  <2> HIDE DEF nobody, ended
  <2>2. PICK b \in BOOLEAN : b = nobody
    BY <2>1
  <2>3. PICK L \in SUBSET RetEvents : L = ended
    BY <2>1
  <2>4. mine = [RetIdle EXCEPT !.at = "aged", !.next = 1, !.listed = L, !.alone = b]
    BY <2>2, <2>3
  <2> HIDE DEF mine
  <2>5. mine = [at |-> "aged", next |-> 1, listed |-> L, used |-> 0, size |-> 0,
                skipped |-> {}, alone |-> b, steady |-> FALSE]
    BY <2>4 DEF RetIdle
  <2>6. {} \in SUBSET RetEvents
    OBVIOUS
  <2>7. QED
    BY <2>2, <2>5, <2>6 DEF RetRunTypes
<1>3. \A q \in RetSweep : retRun'[q] = IF q = s THEN mine ELSE [retRun[q] EXCEPT !.alone = FALSE]
  BY DEF RetBegin, RetStarts
<1>4. retRun' = [q \in RetSweep |-> retRun'[q]]
  BY DEF RetBegin, RetStarts
<1> HIDE DEF mine
<1>5. ASSUME NEW q \in RetSweep, q # s
      PROVE  /\ Besides(retRun[q], retRun'[q]) /\ ~retRun'[q].alone /\ retRun'[q].at = retRun[q].at
  <2>1. PICK r \in RetRunTypes : r = retRun[q]
    BY <1>1 DEF RetTyped
  <2>2. retRun'[q] = [r EXCEPT !.alone = FALSE]
    BY <1>3, <1>5, <2>1
  <2>3. Besides(r, [r EXCEPT !.alone = FALSE])
    BY DEF Besides, RetRunTypes
  <2>4. QED
    BY <2>1, <2>2, <2>3 DEF RetRunTypes
<1>6. RetTyped'
  <2>1. \A q \in RetSweep : retRun'[q] \in RetRunTypes
    BY <1>2, <1>3, <1>5 DEF Besides
  <2>2. QED
    BY <1>1, <1>4, <2>1 DEF RetTyped
<1>7. RunsAlone(retRun')
  BY <1>2, <1>3, <1>5 DEF RunsAlone
<1>8. RetUsed' = RetUsed
  BY <1>1, UsageStays
<1>9. ASSUME NEW q \in RetSweep PROVE SweepInv(retRun'[q], retEvent', retSize', RetUsed')
  <2>1. CASE q = s
    <3>1. SweepInv(mine, retEvent, retSize, RetUsed)
      BY <1>2 DEF SweepInv, Walks, Figures, Exact
    <3>2. QED
      BY <1>1, <1>3, <1>8, <2>1, <3>1
  <2>2. CASE q # s
    <3>1. Onward(retEvent, retEvent)
      BY DEF Onward
    <3>2. retRun[q] \in RetRunTypes /\ SweepInv(retRun[q], retEvent, retSize, RetUsed)
      BY <1>1 DEF RetInv, RetTyped
    <3>3. SweepInv(retRun'[q], retEvent, retSize, RetUsed)
      BY <1>5, <2>2, <3>1, <3>2, OthersLeave
    <3>4. QED
      BY <1>1, <1>8, <3>3
  <2>3. QED
    BY <2>1, <2>2
<1>10. QED
  BY <1>1, <1>6, <1>7, <1>9 DEF RetInv

LEMMA FiguresKeep == ASSUME RetInv, NEW s \in RetSweep, RetFigures(s) PROVE RetInv'
<1>1. PICK r \in RetRunTypes : r = retRun[s]
  BY DEF RetInv, RetTyped
<1>2. r.at = "aged" /\ r.next = 1
  BY <1>1 DEF RetFigures, RetInv, SweepInv, Walks
<1>3. PICK used \in Nat : used = RetUsed
  BY UsageIsNat DEF RetInv
<1> DEFINE run == [r EXCEPT !.at = "space", !.listed = {}, !.steady = TRUE, !.used = used]
           now == IF OverLimit(used) THEN run ELSE RetOver(run)
<1>4. retRun' = [retRun EXCEPT ![s] = now] /\ UNCHANGED <<retEvent, retSize, retOther>>
  BY <1>1, <1>3 DEF RetFigures
<1>5. /\ run \in RetRunTypes /\ run.at = "space" /\ run.next = 1 /\ run.used = used /\ run.alone = r.alone
  <2>1. run.at = "space" /\ run.next = 1 /\ run.used = used /\ run.alone = r.alone
    BY <1>2 DEF RetRunTypes
  <2>2. used \in Int /\ {} \in SUBSET RetEvents
    OBVIOUS
  <2>3. run \in RetRunTypes
    BY <2>2 DEF RetRunTypes
  <2>4. QED
    BY <2>1, <2>3
<1>6. CASE OverLimit(used)
  <2>1. now = run
    BY <1>6
  <2> HIDE DEF run, now
  <2>2. SweepInv(run, retEvent, retSize, used)
    BY <1>3, <1>5 DEF SweepInv, Walks, Figures, Exact, RetEvents
  <2>3. QED
    BY <1>1, <1>2, <1>3, <1>4, <1>5, <2>1, <2>2, OwnStep
<1>7. CASE ~OverLimit(used)
  <2>1. now = RetOver(run)
    BY <1>7
  <2> HIDE DEF run, now
  <2>2. RetOver(run) \in RetRunTypes /\ RetOver(run).at = "done" /\ RetOver(run).alone = r.alone
    <3>1. 0 \in Nat /\ 0 \in Int
      OBVIOUS
    <3>2. QED
      BY <1>5, <3>1 DEF RetOver, RetRunTypes
  <2>3. SweepInv(RetOver(run), retEvent, retSize, used)
    BY <1>7, <2>2 DEF SweepInv, Walks, Figures, Exact
  <2>4. QED
    BY <1>1, <1>2, <1>3, <1>4, <2>1, <2>2, <2>3, OwnStep
<1>8. QED
  BY <1>6, <1>7

LEMMA VisitKeeps == ASSUME RetInv, NEW s \in RetSweep, RetVisit(s) PROVE RetInv'
<1>1. PICK r \in RetRunTypes : r = retRun[s]
  BY DEF RetInv, RetTyped
<1>2. r.at = "space" /\ SweepInv(r, retEvent, retSize, RetUsed) /\ r.next \in Nat /\ RetLast \in Nat
  BY <1>1, RetAssumption DEF RetVisit, RetInv, RetRunTypes
<1>3. PICK used \in Nat : used = RetUsed
  BY UsageIsNat DEF RetInv
<1>4. UNCHANGED <<retEvent, retSize, retOther>>
  BY DEF RetVisit
<1>5. CASE RetEnough(r)
  <2>1. retRun' = [retRun EXCEPT ![s] = RetOver(r)]
    BY <1>1, <1>5 DEF RetVisit
  <2>2. PICK now : now = RetOver(r)
    OBVIOUS
  <2>3. 0 \in Nat /\ 0 \in Int
    OBVIOUS
  <2>4. /\ now \in RetRunTypes /\ now.at = "done" /\ now.alone = r.alone /\ now.steady = r.steady
        /\ now.skipped = r.skipped
    BY <2>2, <2>3 DEF RetOver, RetRunTypes
  <2>5. ASSUME r.steady, OverLimit(used), NEW f \in RetEvents, There(retEvent, f) PROVE f \in r.skipped
    <3>1. used <= r.used /\ r.used \in Int /\ RetLimit \in Nat
      BY <1>2, <1>3, <2>5, RetAssumption DEF SweepInv, Figures, RetRunTypes
    <3>2. OverLimit(r.used)
      BY <2>5, <3>1 DEF OverLimit
    <3>3. r.next > RetLast \/ retEvent[r.next] = "none"
      BY <1>5, <3>2 DEF RetEnough
    <3>4. f \in 1 .. RetLast
      BY DEF RetEvents
    <3>5. f < r.next
      <4>1. SUFFICES ASSUME ~(f < r.next) PROVE FALSE
        OBVIOUS
      <4>2. r.next <= RetLast /\ r.next >= 1
        BY <1>2, <3>4, <4>1 DEF SweepInv, Walks
      <4>3. r.next \in RetEvents /\ retEvent[r.next] = "none"
        BY <1>2, <3>3, <4>2 DEF RetEvents
      <4>4. f = r.next \/ r.next < f
        BY <1>2, <3>4, <4>1
      <4>5. retEvent[f] = "none"
        BY <4>3, <4>4 DEF RetInv, RetInOrder
      <4>6. QED
        BY <2>5, <4>5 DEF There
    <3>6. QED
      BY <1>2, <2>5, <3>5 DEF SweepInv, Walks
  <2>6. SweepInv(now, retEvent, retSize, used)
    BY <2>4, <2>5 DEF SweepInv, Walks, Figures, Exact
  <2>7. QED
    BY <1>1, <1>2, <1>3, <1>4, <2>1, <2>2, <2>4, <2>6, OwnStep
<1>6. CASE ~RetEnough(r)
  <2>1. OverLimit(r.used) /\ r.next <= RetLast /\ retEvent[r.next] # "none"
    BY <1>2, <1>6 DEF RetEnough
  <2>2. r.next >= 1 /\ r.next \in RetEvents
    BY <1>2, <2>1 DEF SweepInv, Walks, RetEvents
  <2>3. CASE retEvent[r.next] = "ended"
    <3>1. PICK now : now = [r EXCEPT !.at = "measure"]
      OBVIOUS
    <3>2. retRun' = [retRun EXCEPT ![s] = now]
      BY <1>1, <1>6, <2>3, <3>1 DEF RetVisit
    <3>3. /\ now \in RetRunTypes /\ now.at = "measure" /\ now.alone = r.alone /\ now.steady = r.steady
          /\ now.skipped = r.skipped /\ now.next = r.next /\ now.used = r.used
      BY <3>1 DEF RetRunTypes
    <3>4. Walks(now, retEvent)
      BY <1>2, <2>1, <2>2, <2>3, <3>3 DEF SweepInv, Walks
    <3>5. Figures(now, retEvent, retSize, used)
      BY <1>2, <1>3, <3>3 DEF SweepInv, Figures
    <3>6. Exact(now, retEvent, used)
      BY <1>2, <1>3, <2>3, <3>3 DEF SweepInv, Exact, There
    <3>7. QED
      BY <1>1, <1>2, <1>3, <1>4, <3>2, <3>3, <3>4, <3>5, <3>6, OwnStep DEF SweepInv
  <2>4. CASE retEvent[r.next] # "ended"
    <3>1. PICK more \in SUBSET RetEvents : more = IF Present(r.next) THEN r.skipped \cup {r.next} ELSE r.skipped
      BY <2>2 DEF RetRunTypes
    <3>2. PICK now : now = [r EXCEPT !.next = @ + 1, !.skipped = more]
      OBVIOUS
    <3>3. retRun' = [retRun EXCEPT ![s] = now]
      <4>1. retRun' = [retRun EXCEPT ![s] =
              [r EXCEPT !.next = @ + 1, !.skipped = IF Present(r.next) THEN @ \cup {r.next} ELSE @]]
        BY <1>1, <1>6, <2>4 DEF RetVisit
      <4>2. QED
        BY <3>1, <3>2, <4>1
    <3>4. /\ now.at = "space" /\ now.alone = r.alone /\ now.steady = r.steady
          /\ now.skipped = more /\ now.next = r.next + 1 /\ now.used = r.used
      BY <1>2, <3>2 DEF RetRunTypes
    <3>5. now \in RetRunTypes
      <4>1. PICK n \in Nat : n = r.next + 1
        BY <1>2
      <4>2. now = [r EXCEPT !.next = n, !.skipped = more]
        BY <3>2, <4>1
      <4>3. QED
        BY <4>2 DEF RetRunTypes
    <3>6. \A f \in RetEvents : f < now.next =>
            retEvent[f] # "none" /\ (There(retEvent, f) => f \in now.skipped)
      <4> SUFFICES ASSUME NEW f \in RetEvents, f < r.next + 1
                   PROVE  retEvent[f] # "none" /\ (There(retEvent, f) => f \in more)
        BY <3>4
      <4>1. f = r.next \/ f < r.next
        BY <1>2 DEF RetEvents
      <4>2. CASE f = r.next
        BY <2>1, <3>1, <4>2 DEF There, Present
      <4>3. CASE f < r.next
        BY <1>2, <3>1, <4>3 DEF SweepInv, Walks
      <4>4. QED
        BY <4>1, <4>2, <4>3
    <3>7. Walks(now, retEvent)
      BY <1>2, <2>2, <3>4, <3>6 DEF Walks
    <3>8. Figures(now, retEvent, retSize, used)
      BY <1>2, <1>3, <3>4 DEF SweepInv, Figures
    <3>9. Exact(now, retEvent, used)
      BY <1>2, <1>3, <3>4 DEF SweepInv, Exact
    <3>10. QED
      BY <1>1, <1>2, <1>3, <1>4, <3>3, <3>4, <3>5, <3>7, <3>8, <3>9, OwnStep DEF SweepInv
  <2>5. QED
    BY <2>3, <2>4
<1>7. QED
  BY <1>5, <1>6

LEMMA MeasureKeeps == ASSUME RetInv, NEW s \in RetSweep, RetMeasure(s) PROVE RetInv'
<1>1. PICK r \in RetRunTypes : r = retRun[s]
  BY DEF RetInv, RetTyped
<1>2. r.at = "measure" /\ SweepInv(r, retEvent, retSize, RetUsed) /\ r.next \in RetEvents
  BY <1>1 DEF RetMeasure, RetInv, SweepInv, Walks
<1>3. PICK used \in Nat : used = RetUsed
  BY UsageIsNat DEF RetInv
<1>4. UNCHANGED <<retEvent, retSize, retOther>>
  BY DEF RetMeasure
<1>5. PICK z \in Nat : z = IF Present(r.next) THEN retSize[r.next] ELSE 0
  BY <1>2, RetAssumption DEF RetInv, RetTyped
<1>6. PICK now : now = [r EXCEPT !.at = "delete", !.size = z]
  OBVIOUS
<1>7. retRun' = [retRun EXCEPT ![s] = now]
  BY <1>1, <1>5, <1>6 DEF RetMeasure
<1>8. /\ now \in RetRunTypes /\ now.at = "delete" /\ now.alone = r.alone /\ now.steady = r.steady
      /\ now.skipped = r.skipped /\ now.next = r.next /\ now.used = r.used /\ now.size = z
  BY <1>6 DEF RetRunTypes
<1>9. Walks(now, retEvent)
  BY <1>2, <1>8 DEF SweepInv, Walks
<1>10. Figures(now, retEvent, retSize, used)
  BY <1>2, <1>3, <1>5, <1>8 DEF SweepInv, Figures, Present, There
<1>11. Exact(now, retEvent, used)
  BY <1>2, <1>3, <1>8 DEF SweepInv, Exact
<1>12. QED
  BY <1>1, <1>2, <1>3, <1>4, <1>7, <1>8, <1>9, <1>10, <1>11, OwnStep DEF SweepInv

LEMMA FinishKeeps == ASSUME RetInv, NEW s \in RetSweep, RetFinish(s) PROVE RetInv'
<1>1. /\ RetIdle \in RetRunTypes /\ RetIdle.at = "idle" /\ RetIdle.alone = FALSE
      /\ SweepInv(RetIdle, retEvent, retSize, RetUsed)
  <2>1. 0 \in Nat /\ 0 \in Int /\ {} \in SUBSET RetEvents
    OBVIOUS
  <2>2. RetIdle \in RetRunTypes /\ RetIdle.at = "idle" /\ RetIdle.alone = FALSE
    BY <2>1 DEF RetIdle, RetRunTypes
  <2>3. QED
    BY <2>2 DEF SweepInv, Walks, Figures, Exact
<1>2. QED
  BY <1>1, OwnStep DEF RetFinish

\* Other sweeps' records when only s's changes.
LEMMA BesideItself == ASSUME NEW r \in RetRunTypes PROVE Besides(r, r)
BY DEF Besides

\* What a deletion does.
LEMMA GoneIsOnward ==
    ASSUME RetTyped, NEW x \in RetEvents, RetGone(x)
    PROVE  /\ retEvent' \in [RetEvents -> RetStates] /\ Onward(retEvent, retEvent')
           /\ ~There(retEvent', x)
           /\ \A f \in RetEvents : f # x => retEvent'[f] = retEvent[f]
           /\ ~There(retEvent, x) => retEvent' = retEvent
           /\ retEvent[x] \in {"ended", "gone"} => retEvent'[x] = "gone"
           /\ retEvent'[x] = "none" <=> retEvent[x] = "none"
BY DEF RetTyped, RetGone, Present, There, Onward, RetStates

\* A sweep deletes an event: the others go on with their own figures.
LEMMA DeletionKeeps ==
    ASSUME RetInv, UNCHANGED <<retSize, retOther>>, NEW s \in RetSweep, NEW now \in RetRunTypes,
           NEW x \in RetEvents, RetGone(x), retRun' = [retRun EXCEPT ![s] = now],
           SweepInv(now, retEvent', retSize, RetUsed'), now.alone => retRun[s].alone,
           retRun[s].at # "idle"
    PROVE  RetInv'
<1>1. RetTyped /\ RetInOrder(retEvent) /\ RunsAlone(retRun)
  BY DEF RetInv
<1>2. \A q \in RetSweep : retRun'[q] = IF q = s THEN now ELSE retRun[q]
  BY <1>1 DEF RetTyped
<1>3. /\ retEvent' \in [RetEvents -> RetStates] /\ Onward(retEvent, retEvent')
      /\ ~There(retEvent', x)
      /\ \A f \in RetEvents : f # x => retEvent'[f] = retEvent[f]
      /\ ~There(retEvent, x) => retEvent' = retEvent
      /\ retEvent'[x] = "none" <=> retEvent[x] = "none"
  BY <1>1, GoneIsOnward
<1>4. RetTyped'
  BY <1>1, <1>3 DEF RetTyped
<1>5. RetInOrder(retEvent')
  BY <1>1, <1>3 DEF RetInOrder
<1>6. RunsAlone(retRun')
  BY <1>1, <1>2 DEF RunsAlone
<1>7. ASSUME NEW q \in RetSweep PROVE SweepInv(retRun'[q], retEvent', retSize', RetUsed')
  <2>1. CASE q = s
    BY <1>2, <2>1
  <2>2. CASE q # s
    <3>1. PICK r \in RetRunTypes : r = retRun[q]
      BY <1>1 DEF RetTyped
    <3>2. retRun'[q] = r /\ SweepInv(r, retEvent, retSize, RetUsed) /\ Besides(r, r)
      BY <1>2, <2>2, <3>1, BesideItself DEF RetInv
    <3>3. r.alone = FALSE
      BY <1>1, <2>2, <3>1 DEF RunsAlone, RetRunTypes
    <3>4. PICK used \in Nat : used = RetUsed
      BY <1>1, UsageIsNat
    <3>5. CASE There(retEvent, x)
      <4>1. RetUsed' = used - retSize[x] /\ retSize[x] \in Nat
        BY <1>1, <3>4, <3>5, UsageFalls
      <4>2. SweepInv(r, retEvent', retSize, used - retSize[x])
        BY <1>3, <3>2, <3>3, <3>4, <3>5, <4>1, OthersDelete
      <4>3. QED
        BY <3>2, <4>1, <4>2
    <3>6. CASE ~There(retEvent, x)
      <4>1. retEvent' = retEvent
        BY <1>3, <3>6
      <4>2. RetUsed' = used
        BY <1>1, <3>4, <4>1, UsageStays
      <4>3. QED
        BY <3>2, <3>4, <4>1, <4>2
    <3>7. QED
      BY <3>5, <3>6
  <2>3. QED
    BY <2>1, <2>2
<1>8. QED
  BY <1>4, <1>5, <1>6, <1>7 DEF RetInv

LEMMA DeleteAgedKeeps == ASSUME RetInv, NEW s \in RetSweep, RetDeleteAged(s) PROVE RetInv'
<1> DEFINE aged == {e \in retRun[s].listed : e <= retOld}
<1>1. PICK r \in RetRunTypes : r = retRun[s]
  BY DEF RetInv, RetTyped
<1>2. r.at = "aged" /\ r.next = 1
  BY <1>1 DEF RetDeleteAged, RetInv, SweepInv, Walks
<1>3. Min(aged) \in RetEvents
  <2>1. aged # {} /\ aged \subseteq RetEvents
    BY <1>1 DEF RetDeleteAged, RetRunTypes
  <2>2. aged \subseteq Nat
    BY <2>1 DEF RetEvents
  <2> HIDE DEF aged
  <2>3. PICK m \in aged : \A k \in aged : ~(k < m)
    BY <2>1, <2>2, LeastNumber
  <2>4. \A k \in aged : m <= k
    BY <2>2, <2>3
  <2>5. Min(aged) \in aged
    BY <2>3, <2>4 DEF Min
  <2>6. QED
    BY <2>1, <2>5
<1>4. PICK x \in RetEvents : x = Min(aged)
  BY <1>3
<1>5. PICK L \in SUBSET RetEvents : L = r.listed \ {x}
  BY DEF RetRunTypes
<1>6. PICK now : now = [r EXCEPT !.listed = L]
  OBVIOUS
<1>7. /\ now \in RetRunTypes /\ now.at = "aged" /\ now.next = 1 /\ now.alone = r.alone
  BY <1>2, <1>6 DEF RetRunTypes
<1>8. UNCHANGED <<retSize, retOther>> /\ RetGone(x) /\ retRun' = [retRun EXCEPT ![s] = now]
  BY <1>1, <1>4, <1>5, <1>6 DEF RetDeleteAged
<1>9. SweepInv(now, retEvent', retSize, RetUsed')
  BY <1>7 DEF SweepInv, Walks, Figures, Exact
<1>10. QED
  BY <1>1, <1>2, <1>7, <1>8, <1>9, DeletionKeeps

LEMMA DeleteKeeps == ASSUME RetInv, NEW s \in RetSweep, RetDelete(s) PROVE RetInv'
<1>0. RetTyped
  BY DEF RetInv
<1>1. PICK r \in RetRunTypes : r = retRun[s]
  BY <1>0 DEF RetTyped
<1>2. /\ r.at = "delete" /\ SweepInv(r, retEvent, retSize, RetUsed)
      /\ r.next \in RetEvents /\ retEvent[r.next] \in {"ended", "gone"}
  BY <1>1 DEF RetDelete, RetInv, SweepInv, Walks
<1>3. PICK x \in RetEvents : x = r.next
  BY <1>2
<1>4. PICK used \in Nat : used = RetUsed
  BY <1>0, UsageIsNat
<1>5. r.used \in Int /\ r.size \in Nat /\ x \in Nat /\ x + 1 \in Nat /\ r.used - r.size \in Int
  BY DEF RetRunTypes, RetEvents
<1>6. PICK now : now = [r EXCEPT !.at = "space", !.next = x + 1, !.used = r.used - r.size, !.size = 0]
  OBVIOUS
<1>7. /\ now.at = "space" /\ now.next = x + 1 /\ now.used = r.used - r.size /\ now.alone = r.alone
      /\ now.steady = r.steady /\ now.skipped = r.skipped
  BY <1>6 DEF RetRunTypes
<1>8. now \in RetRunTypes
  <2>1. PICK n \in Nat : n = x + 1
    BY <1>5
  <2>2. PICK u \in Int : u = r.used - r.size
    BY <1>5
  <2>3. PICK z \in Nat : z = 0
    OBVIOUS
  <2>4. now = [r EXCEPT !.at = "space", !.next = n, !.used = u, !.size = z]
    BY <1>6, <2>1, <2>2, <2>3
  <2>5. QED
    BY <2>4 DEF RetRunTypes
<1>9. UNCHANGED <<retSize, retOther>> /\ RetGone(x) /\ retRun' = [retRun EXCEPT ![s] = now]
  BY <1>1, <1>3, <1>6 DEF RetDelete
<1>10. /\ Onward(retEvent, retEvent') /\ ~There(retEvent', x) /\ retEvent'[x] = "gone"
       /\ \A f \in RetEvents : f # x => retEvent'[f] = retEvent[f]
       /\ ~There(retEvent, x) => retEvent' = retEvent
  BY <1>0, <1>2, <1>3, <1>9, GoneIsOnward
<1>11. Walks(now, retEvent')
  <2>1. ASSUME NEW f \in RetEvents, f < x + 1
        PROVE  retEvent'[f] # "none" /\ (There(retEvent', f) => f \in r.skipped)
    <3>1. f = x \/ f < x
      BY <2>1 DEF RetEvents
    <3>2. CASE f = x
      BY <1>10, <3>2
    <3>3. CASE f < x
      <4>1. f # x /\ retEvent[f] # "none" /\ (There(retEvent, f) => f \in r.skipped)
        BY <1>2, <1>3, <3>3 DEF SweepInv, Walks, RetEvents
      <4>2. QED
        BY <1>10, <4>1 DEF There
    <3>4. QED
      BY <3>1, <3>2, <3>3
  <2>2. x + 1 >= 1
    BY <1>5
  <2>3. QED
    BY <1>7, <2>1, <2>2 DEF Walks
<1>12. Figures(now, retEvent', retSize, RetUsed') /\ Exact(now, retEvent', RetUsed')
  <2>1. CASE There(retEvent, x)
    <3>1. RetUsed' = used - retSize[x] /\ retSize[x] \in Nat
      BY <1>0, <1>4, <1>9, <2>1, UsageFalls
    <3>2. r.size = retSize[x]
      BY <1>2, <1>3, <2>1 DEF SweepInv, Figures
    <3>3. /\ r.steady => used <= r.used
          /\ r.alone /\ r.steady => r.used = used
      BY <1>2, <1>3, <1>4, <1>5, <2>1 DEF SweepInv, Figures, Exact
    <3>4. QED
      BY <1>5, <1>7, <3>1, <3>2, <3>3 DEF Figures, Exact
  <2>2. CASE ~There(retEvent, x)
    <3>1. RetUsed' = used
      BY <1>0, <1>4, <1>9, <1>10, <2>2, UsageStays
    <3>2. /\ r.steady => used + r.size <= r.used
          /\ ~(r.alone /\ r.steady)
      BY <1>2, <1>3, <1>4, <2>2 DEF SweepInv, Figures, Exact
    <3>3. QED
      BY <1>5, <1>7, <3>1, <3>2 DEF Figures, Exact
  <2>3. QED
    BY <2>1, <2>2
<1>13. QED
  BY <1>1, <1>2, <1>7, <1>8, <1>9, <1>11, <1>12, DeletionKeeps DEF SweepInv

\* Something else changes the usage: every sweep knows that its figures are not the disk's.
LEMMA DisturbedKeeps ==
    ASSUME RetInv, retRun' = [s \in RetSweep |-> [retRun[s] EXCEPT !.steady = FALSE]],
           UNCHANGED retSize, retOther' \in Nat, retEvent' \in [RetEvents -> RetStates],
           Onward(retEvent, retEvent'), RetInOrder(retEvent')
    PROVE  RetInv'
<1>1. RetTyped /\ RunsAlone(retRun)
  BY DEF RetInv
<1>2. ASSUME NEW s \in RetSweep
      PROVE  /\ Besides(retRun[s], retRun'[s]) /\ ~retRun'[s].steady
             /\ retRun'[s].at = retRun[s].at /\ retRun'[s].alone = retRun[s].alone
  <2>1. PICK r \in RetRunTypes : r = retRun[s]
    BY <1>1 DEF RetTyped
  <2>2. PICK now : now = [r EXCEPT !.steady = FALSE]
    OBVIOUS
  <2>3. retRun'[s] = now
    BY <2>1, <2>2
  <2>4. Besides(r, now) /\ ~now.steady /\ now.at = r.at /\ now.alone = r.alone
    BY <2>2 DEF Besides, RetRunTypes
  <2>5. QED
    BY <2>1, <2>3, <2>4
<1>3. RetTyped'
  <2>1. \A s \in RetSweep : retRun'[s] \in RetRunTypes
    BY <1>2 DEF Besides
  <2>2. retRun' = [s \in RetSweep |-> retRun'[s]]
    OBVIOUS
  <2>3. retRun' \in [RetSweep -> RetRunTypes]
    BY <2>1, <2>2
  <2>4. QED
    BY <1>1, <2>3 DEF RetTyped
<1>4. RunsAlone(retRun')
  BY <1>1, <1>2 DEF RunsAlone
<1>5. ASSUME NEW s \in RetSweep PROVE SweepInv(retRun'[s], retEvent', retSize', RetUsed')
  <2>1. retRun[s] \in RetRunTypes /\ SweepInv(retRun[s], retEvent, retSize, RetUsed)
    BY <1>1 DEF RetTyped, RetInv
  <2>2. SweepInv(retRun'[s], retEvent', retSize, RetUsed')
    BY <1>2, <2>1, OthersDisturb
  <2>3. QED
    BY <2>2
<1>6. QED
  BY <1>3, <1>4, <1>5 DEF RetInv

LEMMA CreateKeeps == ASSUME RetInv, NEW e \in RetEvents, RetCreate(e) PROVE RetInv'
<1>1. RetTyped /\ RetInOrder(retEvent)
  BY DEF RetInv
<1>2. /\ retEvent[e] = "none" /\ \A f \in RetEvents : f < e => retEvent[f] # "none"
      /\ retEvent' = [retEvent EXCEPT ![e] = "active"]
      /\ UNCHANGED <<retSize, retOther>> /\ RetUnsteady
  BY DEF RetCreate
<1>3. retEvent' \in [RetEvents -> RetStates] /\ Onward(retEvent, retEvent')
  BY <1>1, <1>2 DEF RetTyped, RetStates, Onward, There
<1>4. RetInOrder(retEvent')
  BY <1>1, <1>2 DEF RetTyped, RetInOrder, RetEvents
<1>5. QED
  BY <1>1, <1>2, <1>3, <1>4, DisturbedKeeps DEF RetUnsteady, RetTyped

LEMMA UserDeletesKeeps == ASSUME RetInv, NEW e \in RetEvents, RetUserDeletes(e) PROVE RetInv'
<1>1. RetTyped /\ RetInOrder(retEvent)
  BY DEF RetInv
<1>2. /\ retEvent[e] = "ended" /\ retEvent' = [retEvent EXCEPT ![e] = "gone"]
      /\ UNCHANGED <<retSize, retOther>> /\ RetUnsteady
  BY DEF RetUserDeletes
<1>3. retEvent' \in [RetEvents -> RetStates] /\ Onward(retEvent, retEvent')
  BY <1>1, <1>2 DEF RetTyped, RetStates, Onward, There
<1>4. RetInOrder(retEvent')
  BY <1>1, <1>2 DEF RetTyped, RetInOrder
<1>5. QED
  BY <1>1, <1>2, <1>3, <1>4, DisturbedKeeps DEF RetUnsteady, RetTyped

LEMMA BufferChangesKeep == ASSUME RetInv, RetBufferChanges PROVE RetInv'
<1>1. /\ RetTyped /\ RetInOrder(retEvent) /\ UNCHANGED <<retEvent, retSize>> /\ RetUnsteady
      /\ retOther' \in Nat
  BY RetAssumption DEF RetInv, RetBufferChanges
<1>2. Onward(retEvent, retEvent')
  BY <1>1 DEF Onward
<1>3. QED
  BY <1>1, <1>2, DisturbedKeeps DEF RetUnsteady, RetTyped

LEMMA EndKeeps == ASSUME RetInv, NEW e \in RetEvents, RetEnd(e) PROVE RetInv'
<1>1. RetTyped /\ RetInOrder(retEvent)
  BY DEF RetInv
<1>2. /\ retEvent[e] = "active" /\ retEvent' = [retEvent EXCEPT ![e] = "ended"]
      /\ UNCHANGED <<retSize, retOther, retRun>>
  BY DEF RetEnd
<1>3. /\ retEvent' \in [RetEvents -> RetStates] /\ Onward(retEvent, retEvent')
      /\ \A f \in RetEvents : There(retEvent', f) <=> There(retEvent, f)
  BY <1>1, <1>2 DEF RetTyped, RetStates, Onward, There
<1>4. RetInOrder(retEvent')
  BY <1>1, <1>2 DEF RetTyped, RetInOrder
<1>5. RetUsed' = RetUsed
  BY <1>1, <1>2, <1>3, UsageStays
<1>6. ASSUME NEW s \in RetSweep PROVE SweepInv(retRun'[s], retEvent', retSize', RetUsed')
  <2>1. /\ retRun[s] \in RetRunTypes /\ SweepInv(retRun[s], retEvent, retSize, RetUsed)
        /\ Besides(retRun[s], retRun[s])
    BY <1>1, BesideItself DEF RetTyped, RetInv
  <2>2. SweepInv(retRun[s], retEvent', retSize, RetUsed)
    BY <1>3, <2>1, OthersLeave
  <2>3. QED
    BY <1>2, <1>5, <2>2
<1>7. RetTyped' /\ RunsAlone(retRun')
  BY <1>1, <1>2, <1>3 DEF RetTyped, RetInv
<1>8. QED
  BY <1>4, <1>6, <1>7 DEF RetInv

LEMMA RetInitInv == RetInit => RetInv
<1> SUFFICES ASSUME RetInit PROVE RetInv
  OBVIOUS
<1>1. /\ RetIdle \in RetRunTypes /\ RetIdle.at = "idle" /\ RetIdle.alone = FALSE
      /\ SweepInv(RetIdle, retEvent, retSize, RetUsed)
  <2>1. 0 \in Nat /\ 0 \in Int /\ {} \in SUBSET RetEvents
    OBVIOUS
  <2>2. RetIdle \in RetRunTypes /\ RetIdle.at = "idle" /\ RetIdle.alone = FALSE
    BY <2>1 DEF RetIdle, RetRunTypes
  <2>3. QED
    BY <2>2 DEF SweepInv, Walks, Figures, Exact
<1>2. RetTyped /\ RetInOrder(retEvent)
  BY <1>1, RetAssumption DEF RetInit, RetTyped, RetStates, RetInOrder
<1>3. \A s \in RetSweep : retRun[s] = RetIdle
  BY DEF RetInit
<1>4. QED
  BY <1>1, <1>2, <1>3 DEF RetInv, RunsAlone

LEMMA RetStepInv == RetInv /\ [RetNext]_retVars => RetInv'
<1> SUFFICES ASSUME RetInv, [RetNext]_retVars PROVE RetInv'
  OBVIOUS
<1>1. CASE \E s \in RetSweep :
             \/ RetBegin(s) \/ RetDeleteAged(s) \/ RetFigures(s)
             \/ RetVisit(s) \/ RetMeasure(s) \/ RetDelete(s) \/ RetFinish(s)
  BY <1>1, BeginKeeps, DeleteAgedKeeps, FiguresKeep, VisitKeeps, MeasureKeeps, DeleteKeeps, FinishKeeps
<1>2. CASE \E e \in RetEvents : RetCreate(e) \/ RetEnd(e) \/ RetUserDeletes(e)
  BY <1>2, CreateKeeps, EndKeeps, UserDeletesKeeps
<1>3. CASE RetBufferChanges
  BY <1>3, BufferChangesKeep
<1>4. CASE UNCHANGED retVars
  <2>1. RetUsed' = RetUsed
    BY <1>4, UsageStays DEF RetInv, retVars
  <2>2. QED
    BY <1>4, <2>1 DEF RetInv, RetTyped, retVars
<1>5. QED
  BY <1>1, <1>2, <1>3, <1>4 DEF RetNext

\* No sweep looks beyond the event after the last, and the rest keeps its bounds.
RetBounded ==
    /\ retOld \in 0 .. RetAged
    /\ retOther \in 0 .. RetBuffer
    /\ \A s \in RetSweep : retRun[s].next <= RetLast + 1

LEMMA RetInitBounded == RetInit => RetBounded
<1> SUFFICES ASSUME RetInit PROVE RetBounded
  OBVIOUS
<1>1. \A s \in RetSweep : retRun[s].next = 0
  BY DEF RetInit, RetIdle
<1>2. QED
  BY <1>1, RetAssumption DEF RetInit, RetBounded

LEMMA RetStepBounded == RetInv /\ RetBounded /\ [RetNext]_retVars => RetBounded'
<1> SUFFICES ASSUME RetInv, RetBounded, [RetNext]_retVars PROVE RetBounded'
  OBVIOUS
<1>0. RetLast \in Nat /\ retRun \in [RetSweep -> RetRunTypes]
  BY RetAssumption DEF RetInv, RetTyped
<1>1. retOld' = retOld /\ retOther' \in 0 .. RetBuffer
  BY DEF RetBounded, RetNext, retVars, RetBegin, RetDeleteAged, RetFigures, RetVisit, RetMeasure,
         RetDelete, RetFinish, RetCreate, RetEnd, RetUserDeletes, RetBufferChanges
<1>2. \A q \in RetSweep :
        \/ retRun'[q].next \in {0, 1, retRun[q].next}
        \/ retRun[q].next <= RetLast /\ retRun'[q].next = retRun[q].next + 1
  <2> SUFFICES ASSUME NEW q \in RetSweep
               PROVE  \/ retRun'[q].next \in {0, 1, retRun[q].next}
                      \/ retRun[q].next <= RetLast /\ retRun'[q].next = retRun[q].next + 1
    OBVIOUS
  <2>0. PICK r \in RetRunTypes : r = retRun[q]
    BY <1>0
  <2>1. CASE \E s \in RetSweep : RetBegin(s)
    <3>1. PICK s \in RetSweep : RetStarts(s)
      BY <2>1 DEF RetBegin
    <3>2. CASE q = s
      BY <3>1, <3>2 DEF RetStarts, RetIdle
    <3>3. CASE q # s
      <4>1. retRun'[q] = [r EXCEPT !.alone = FALSE]
        BY <2>0, <3>1, <3>3 DEF RetStarts
      <4>2. [r EXCEPT !.alone = FALSE].next = r.next
        BY DEF RetRunTypes
      <4>3. QED
        BY <2>0, <4>1, <4>2
    <3>4. QED
      BY <3>2, <3>3
  <2>2. CASE \E s \in RetSweep : RetDeleteAged(s)
    <3>1. PICK s, L : retRun' = [retRun EXCEPT ![s].listed = L]
      BY <2>2 DEF RetDeleteAged
    <3>2. retRun'[q] = r \/ retRun'[q] = [r EXCEPT !.listed = L]
      BY <1>0, <2>0, <3>1
    <3>3. QED
      BY <2>0, <3>2 DEF RetRunTypes
  <2>3. CASE \E s \in RetSweep : RetFigures(s)
    <3>1. PICK s \in RetSweep : RetFigures(s)
      BY <2>3
    <3>2. PICK u : u = RetUsed
      OBVIOUS
    <3>3. \/ retRun'[q] = r
          \/ retRun'[q] = [r EXCEPT !.at = "space", !.listed = {}, !.steady = TRUE, !.used = u]
          \/ retRun'[q] = RetOver([r EXCEPT !.at = "space", !.listed = {}, !.steady = TRUE, !.used = u])
      BY <1>0, <2>0, <3>1, <3>2 DEF RetFigures
    <3>4. QED
      BY <2>0, <3>3 DEF RetRunTypes, RetOver
  <2>4. CASE \E s \in RetSweep : RetVisit(s)
    <3>1. PICK s \in RetSweep : RetVisit(s)
      BY <2>4
    <3>2. \/ retRun'[q] = r
          \/ retRun'[q] = RetOver(r)
          \/ retRun'[q] = [r EXCEPT !.at = "measure"]
          \/ ~RetEnough(r) /\ \E more : retRun'[q] = [r EXCEPT !.next = r.next + 1, !.skipped = more]
      <4>1. CASE q # s
        BY <1>0, <2>0, <3>1, <4>1 DEF RetVisit
      <4>2. CASE q = s
        BY <1>0, <2>0, <3>1, <4>2 DEF RetVisit
      <4>3. QED
        BY <4>1, <4>2
    <3>3. ~RetEnough(r) => r.next <= RetLast
      BY <1>0 DEF RetEnough, RetRunTypes
    <3>4. QED
      BY <2>0, <3>2, <3>3 DEF RetRunTypes, RetOver
  <2>5. CASE \E s \in RetSweep : RetMeasure(s)
    <3>1. PICK s, z : retRun' = [retRun EXCEPT ![s].at = "delete", ![s].size = z]
      BY <2>5 DEF RetMeasure
    <3>2. retRun'[q] = r \/ retRun'[q] = [r EXCEPT !.at = "delete", !.size = z]
      BY <1>0, <2>0, <3>1
    <3>3. QED
      BY <2>0, <3>2 DEF RetRunTypes
  <2>6. CASE \E s \in RetSweep : RetDelete(s)
    <3>1. PICK s \in RetSweep : RetDelete(s)
      BY <2>6
    <3>2. CASE q # s
      <4>1. retRun'[q] = r
        BY <1>0, <2>0, <3>1, <3>2 DEF RetDelete
      <4>2. QED
        BY <2>0, <4>1
    <3>3. CASE q = s
      <4>1. r.next \in RetEvents
        BY <2>0, <3>1, <3>3 DEF RetInv, SweepInv, Walks, RetDelete
      <4>2. PICK n, u : n = r.next + 1 /\ retRun'[q] = [r EXCEPT !.at = "space", !.next = n,
                                                               !.used = u, !.size = 0]
        BY <1>0, <2>0, <3>1, <3>3 DEF RetDelete
      <4>3. retRun'[q].next = n
        BY <4>2 DEF RetRunTypes
      <4>4. QED
        BY <1>0, <2>0, <4>1, <4>2, <4>3 DEF RetEvents
    <3>4. QED
      BY <3>2, <3>3
  <2>7. CASE \E s \in RetSweep : RetFinish(s)
    BY <1>0, <2>7 DEF RetFinish, RetIdle
  <2>8. CASE RetUnsteady
    <3>1. retRun'[q] = [r EXCEPT !.steady = FALSE]
      BY <2>0, <2>8 DEF RetUnsteady
    <3>2. QED
      BY <2>0, <3>1 DEF RetRunTypes
  <2>9. CASE UNCHANGED retRun
    BY <2>9
  <2>10. QED
    BY <2>1, <2>2, <2>3, <2>4, <2>5, <2>6, <2>7, <2>8, <2>9
       DEF RetNext, retVars, RetCreate, RetEnd, RetUserDeletes, RetBufferChanges
<1>3. \A q \in RetSweep : retRun'[q].next <= RetLast + 1
  <2> SUFFICES ASSUME NEW q \in RetSweep PROVE retRun'[q].next <= RetLast + 1
    OBVIOUS
  <2>1. retRun[q].next \in Nat /\ retRun[q].next <= RetLast + 1
    BY <1>0 DEF RetRunTypes, RetBounded
  <2>2. QED
    BY <1>0, <1>2, <2>1
<1>4. QED
  BY <1>1, <1>3 DEF RetBounded

\* Together they are the type invariant.
LEMMA RetTypesAgree == RetInv /\ RetBounded => RetTypeOK
<1> SUFFICES ASSUME RetInv, RetBounded PROVE RetTypeOK
  OBVIOUS
<1>1. \A s \in RetSweep :
        /\ retRun[s].at \in {"idle", "aged", "space", "measure", "delete", "done"}
        /\ retRun[s].next \in 0 .. RetLast + 1
        /\ retRun[s].used \in Int
        /\ retRun[s].listed \cup retRun[s].skipped \subseteq RetEvents
  <2> SUFFICES ASSUME NEW s \in RetSweep
               PROVE  /\ retRun[s].at \in {"idle", "aged", "space", "measure", "delete", "done"}
                      /\ retRun[s].next \in 0 .. RetLast + 1
                      /\ retRun[s].used \in Int
                      /\ retRun[s].listed \cup retRun[s].skipped \subseteq RetEvents
    OBVIOUS
  <2>1. PICK r \in RetRunTypes : r = retRun[s]
    BY DEF RetInv, RetTyped
  <2>2. r.next <= RetLast + 1
    BY <2>1 DEF RetBounded
  <2>3. QED
    BY <2>1, <2>2, RetAssumption DEF RetRunTypes
<1>2. QED
  BY <1>1 DEF RetInv, RetTyped, RetStates, RetBounded, RetTypeOK

LEMMA RetAlways == RetSpec => []RetInv
BY RetInitInv, RetStepInv, PTL DEF RetSpec

\* A sweep that ends has brought the disk below the limit or left only events that were
\* being produced, for any number of sweeps and events of any size (_free_space).
THEOREM SweepsSuffice == RetSpec => []RetSweepSuffices
<1>1. RetInv => RetSweepSuffices
  BY DEF RetInv, SweepInv, Figures, RetSweepSuffices, There, Present
<1>2. QED
  BY <1>1, RetAlways, PTL

\* A sweep frees space oldest first and touches nothing that is being produced, and one
\* that runs alone deletes only while the disk is over the limit (_free_space).
THEOREM DeletionsAreDue == RetSpec => RetDeletionIsDue
<1> DEFINE Due == \A s \in RetSweep :
                    retRun[s].at = "delete" /\ retRun'[s].at = "space" =>
                      LET e == retRun[s].next IN
                      /\ retEvent[e] # "active"
                      /\ \A f \in 1 .. e - 1 : Present(f) => f \in retRun[s].skipped
                      /\ retRun[s].alone /\ retRun[s].steady => OverLimit(RetUsed)
<1>1. RetInv => Due
  <2> SUFFICES ASSUME RetInv, NEW s \in RetSweep, retRun[s].at = "delete"
               PROVE  /\ retEvent[retRun[s].next] # "active"
                      /\ \A f \in 1 .. retRun[s].next - 1 : Present(f) => f \in retRun[s].skipped
                      /\ retRun[s].alone /\ retRun[s].steady => OverLimit(RetUsed)
    OBVIOUS
  <2>1. SweepInv(retRun[s], retEvent, retSize, RetUsed) /\ retRun[s].next \in RetEvents
    BY DEF RetInv, SweepInv, Walks
  <2>2. \A f \in 1 .. retRun[s].next - 1 : f \in RetEvents /\ f < retRun[s].next
    BY <2>1, RetAssumption DEF RetEvents
  <2>3. QED
    BY <2>1, <2>2 DEF SweepInv, Walks, Exact, There, Present
<1>2. QED
  BY <1>1, RetAlways, PTL DEF RetSpec, RetDeletionIsDue
==================================================================================
