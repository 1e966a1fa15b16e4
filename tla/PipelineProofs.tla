------------------------------ MODULE PipelineProofs ------------------------------
(***************************************************************************)
(* Proofs about the event pipeline (EventPipeline), for every number of    *)
(* recipients, workers, checks and mishaps.                                *)
(***************************************************************************)
EXTENDS EventPipeline, TLAPS

-----------------------------------------------------------------------------
(* The inductive invariant                                                 *)

Finished == {"completed", "interrupted"}

\* Neither the controller nor a job of the pool refers to the shared object.
PoolIdle == ~current /\ \A t \in PoolJob : job[t] = "off"

\* The places a job can be in, and those before the verdict of on_event_started.
AtWork == {"frames", "asking", "notify", "sending", "sent", "unsent"}
StartedPlaces == {"off", "queued", "snapshot", "capturing"} \cup AtWork
RecheckPlaces == {"off", "queued", "recapturing", "asking again", "asking", "verdict",
                  "notify", "sending", "sent", "unsent"}
FinalizedPlaces == {"off", "queued", "clip", "extracting", "closing", "crashed"}
PendingPlaces == {"off", "clip", "extracting", "snapshot", "capturing"} \cup AtWork
FirstPlaces == {"queued", "snapshot", "capturing", "frames", "asking"}

PlacesOf(t) ==
    CASE t = "started" -> StartedPlaces
      [] t = "recheck" -> RecheckPlaces
      [] t = "finalized" -> FinalizedPlaces
      [] OTHER -> PendingPlaces

Typed ==
    /\ up \in BOOLEAN /\ armed \in BOOLEAN /\ online \in BOOLEAN /\ current \in BOOLEAN
    /\ age \in Age
    /\ live \in Object /\ copy \in Object /\ disk \in Object
    /\ job \in [Thread -> Place]
    /\ \A t \in Thread : job[t] \in PlacesOf(t)
    /\ reached \in SUBSET Recipient
    /\ upsets \in Nat /\ faults \in Nat

\* The queue holds the jobs that wait in it, each once.
QueueMatches ==
    /\ queue \in Seq(PoolJob)
    /\ \A i, k \in DOMAIN queue : queue[i] = queue[k] => i = k
    /\ \A i \in DOMAIN queue : job[queue[i]] = "queued"
    /\ \A t \in PoolJob : job[t] = "queued" => \E i \in DOMAIN queue : queue[i] = t

\* Whoever asks has a check left: the first look and the re-checks, which share an
\* object, never ask at the same time, for a re-check begins only after a verdict.
AskingHasBudget ==
    /\ job["started"] = "asking" \/ job["recheck"] = "asking" => live.checks < MaxChecks
    /\ job["pending"] = "asking" => copy.checks < MaxChecks

FirstLookIsAlone ==
    job["started"] \in FirstPlaces =>
        /\ live.ai # "completed" /\ live.checks < MaxChecks
        /\ live.notification = "pending"
        /\ job["recheck"] \in {"off", "queued"}

\* An alarm is taken for sent only when everybody has had it.
SentMeansEveryone == \A t \in Thread : job[t] = "sent" => reached = Recipient

\* An alarm that is suppressed although somebody has been found is about to be released.
ReleaseComes ==
    faults = 0 /\ live.person = "yes" /\ live.notification = "nobody" => job["recheck"] = "verdict"

\* Who can still save what, once the event is finished.
Lives ==
    /\ age = "unborn" => PoolIdle /\ disk.status = "absent" /\ copy.status = "absent"
    /\ ~up => PoolIdle /\ job["pending"] = "off"
    /\ current => live.status = "recording" /\ job["finalized"] = "off"

FinishedAgree ==
    /\ live.status # "interrupted"
    /\ disk.status = "completed" \/ copy.status = "completed" => PoolIdle \/ live.status = "completed"
    /\ disk.status = "interrupted" \/ copy.status = "interrupted" => PoolIdle
    /\ job["pending"] = "off" => copy.status = "absent"
    /\ job["pending"] # "off" => copy.status \in Finished
    /\ disk.status \in Finished => copy.status \in {"absent", disk.status}

\* With a provider that says yes or no, a re-check asks about nobody but nobody, and no
\* alarm with only_if_person is under way for nobody.
RecheckAsks == {"recapturing", "asking again", "asking"}
VerdictIsCertain ==
    "unknown" \notin Answers =>
        /\ live.ai = "completed" => live.person # "unknown"
        /\ job["recheck"] \in RecheckAsks => live.person = "no"
        /\ OnlyIfPerson => /\ \A t \in PoolJob : job[t] = "sending" => live.person # "no"
                           /\ job["pending"] = "sending" => copy.person # "no"

\* UnfinishedIsInHand, and the shared object, which jobs save again, agrees.
Held ==
    /\ "recording" \in {disk.status, live.status} => current
    /\ "finalizing" \in {disk.status, live.status} => job["finalized"] # "off"

InHand ==
    /\ ~up => live.status = "absent"
    /\ up /\ faults = 0 => Held

PipeInv ==
    /\ Typed
    /\ QueueMatches
    /\ ChecksWithinBudget
    /\ AskingHasBudget
    /\ FirstLookIsAlone
    /\ NotifiedMeansEveryone
    /\ SentMeansEveryone
    /\ ReleaseComes
    /\ Lives
    /\ FinishedAgree
    /\ VerdictIsCertain

-----------------------------------------------------------------------------
(* Small facts                                                             *)

LEMMA BlankIsObject ==
    /\ Blank \in Object /\ NewEvent \in Object
    /\ Blank.status = "absent" /\ Blank.ai = "pending" /\ Blank.notification = "pending"
    /\ Blank.checks = 0 /\ Blank.person = "unknown"
    /\ NewEvent.status = "recording" /\ NewEvent.ai = "pending" /\ NewEvent.notification = "pending"
    /\ NewEvent.checks = 0 /\ NewEvent.person = "unknown"
BY DEF Blank, NewEvent, Object, Status, TaskState, SkipReason, Answer

LEMMA InvGivesTypes == Typed /\ QueueMatches => TypeOK
BY DEF Typed, QueueMatches, TypeOK

LEMMA PipeInit == Init => PipeInv
<1> SUFFICES ASSUME Init PROVE PipeInv
  OBVIOUS
<1>1. Typed
  <2>1. up \in BOOLEAN /\ armed \in BOOLEAN /\ online \in BOOLEAN /\ current \in BOOLEAN
    BY Zenon DEF Init
  <2>2. QED
    BY <2>1, BlankIsObject DEF Init, Typed, Thread, PoolJob, Place, PlacesOf, StartedPlaces, RecheckPlaces,
       FinalizedPlaces, PendingPlaces, Age
<1>2. QueueMatches
  BY DEF Init, QueueMatches, Thread, PoolJob
<1>3. PoolIdle
  BY Zenon DEF Init, PoolIdle, Thread, PoolJob
<1>4. ~(~up) /\ ~current
  BY Zenon DEF Init
<1>5. QED
  BY <1>1, <1>2, <1>3, <1>4, BlankIsObject, PipelineAssumption
     DEF Init, PipeInv, ChecksWithinBudget, AskingHasBudget, FirstLookIsAlone, NotifiedMeansEveryone,
         SentMeansEveryone, ReleaseComes, Lives, FinishedAgree, VerdictIsCertain, RecheckAsks,
         Thread, PoolJob, FirstPlaces, Finished

-----------------------------------------------------------------------------
(* A step of a job                                                         *)

\* Thread t goes on at place with o as its object, which may become garbage.
Moves(t, o, place) ==
    /\ job' = [job EXCEPT ![t] = place]
    /\ t = "pending" => live' = live /\ copy' = IF place = "off" THEN Blank ELSE o
    /\ t # "pending" =>
         /\ copy' = copy
         /\ live' = o \/ (live' = Blank /\ PoolIdle')
    /\ current' = current
    /\ UNCHANGED <<up, armed, online, age, reached, upsets>>

\* It has saved, or what it saved raised and it has given up (or has its handler run).
JobStep(t, o, place) ==
    \/ /\ Moves(t, o, place) /\ disk' \in {disk, o} /\ faults' = faults
       /\ t = "finalized" /\ place = "off" => disk' = o
    \/ /\ Moves(t, o, "off") \/ (t = "finalized" /\ Moves(t, o, "crashed"))
       /\ disk' = disk /\ faults' = faults + 1

\* What a job's step may make of its object, and where it may go with it.
Fits(t, o, place) ==
    /\ o \in Object /\ place \in PlacesOf(t) \ {"queued"}
    /\ o.status = Mine(t).status \/ (t = "finalized" /\ o.status = "completed")
    /\ t = "finalized" /\ place = "off" => o.status = "completed"
    /\ o.checks <= MaxChecks
    /\ place = "asking" => o.checks < MaxChecks
    /\ o.notification = "completed" \/ place = "sent" => reached = Recipient
    /\ t = "pending" /\ place # "off" => o.status \in Finished

\* What else holds of the jobs that share their object.
FitsOthers(t, o, place) ==
    /\ t = "started" /\ place \in FirstPlaces =>
         /\ job["started"] \in FirstPlaces
         /\ o.ai # "completed" /\ o.checks < MaxChecks /\ o.notification = "pending"
    /\ t = "recheck" => job["started"] \notin FirstPlaces \/ (o = live /\ place = "off")
    /\ t = "finalized" => /\ o.ai = live.ai /\ o.checks = live.checks
                          /\ o.notification = live.notification /\ o.person = live.person
    /\ t = "started" /\ job["recheck"] = "asking" => o.checks = live.checks
    /\ t # "pending" /\ faults = 0 /\ o.person = "yes" /\ o.notification = "nobody" =>
         IF t = "recheck" THEN place = "verdict" ELSE job["recheck"] = "verdict"
    /\ "unknown" \notin Answers =>
         /\ t # "pending" /\ o.ai = "completed" => o.person # "unknown"
         /\ t = "recheck" /\ place \in RecheckAsks => o.person = "no"
         /\ t \in {"started", "finalized"} /\ job["recheck"] \in RecheckAsks => o.person = "no"
         /\ OnlyIfPerson => /\ place = "sending" => o.person # "no"
                            /\ t # "pending" => \A s \in PoolJob \ {t} : job[s] = "sending" => o.person # "no"

\* The parts of the invariant that do not speak of the queue.
Rest ==
    /\ Typed
    /\ ChecksWithinBudget
    /\ AskingHasBudget
    /\ FirstLookIsAlone
    /\ NotifiedMeansEveryone
    /\ SentMeansEveryone
    /\ ReleaseComes
    /\ Lives
    /\ FinishedAgree
    /\ VerdictIsCertain

LEMMA Threads ==
    /\ PoolJob \subseteq Thread /\ "pending" \notin PoolJob
    /\ "started" \in PoolJob /\ "recheck" \in PoolJob /\ "finalized" \in PoolJob /\ "pending" \in Thread
    /\ \A t \in Thread : t = "pending" \/ t \in PoolJob
    /\ \A t \in PoolJob : t = "started" \/ t = "recheck" \/ t = "finalized"
BY DEF PoolJob, Thread

LEMMA PlacesArePlaces ==
    /\ \A t \in Thread : PlacesOf(t) \subseteq Place
    /\ \A t \in Thread : "off" \in PlacesOf(t)
    /\ "crashed" \in PlacesOf("finalized")
BY DEF Thread, PoolJob, Place, PlacesOf, StartedPlaces, RecheckPlaces, FinalizedPlaces, PendingPlaces, AtWork

\* What a job's step comes to: where it is, and what has become of the objects.
LEMMA JobStepEffect ==
    ASSUME Rest, NEW t \in Thread, job[t] # "off", NEW o, NEW place,
           JobStep(t, o, place), Fits(t, o, place)
    PROVE  \E q \in PlacesOf(t) \ {"queued"} :
             /\ job' = [job EXCEPT ![t] = q]
             /\ job'[t] = q /\ \A s \in Thread : s # t => job'[s] = job[s]
             /\ q = place \/ q = "off" \/ (t = "finalized" /\ q = "crashed")
             /\ (q = place /\ faults' = faults) \/ faults' = faults + 1
             /\ t = "pending" => live' = live /\ copy' = IF q = "off" THEN Blank ELSE o
             /\ t # "pending" => copy' = copy /\ (live' = o \/ (live' = Blank /\ PoolIdle'))
             /\ disk' \in {disk, o}
             /\ UNCHANGED <<up, armed, online, age, current, reached, upsets>>
<1>1. ASSUME NEW q \in PlacesOf(t), Moves(t, o, q)
      PROVE  /\ job' = [job EXCEPT ![t] = q]
             /\ job'[t] = q /\ \A s \in Thread : s # t => job'[s] = job[s]
             /\ t = "pending" => live' = live /\ copy' = IF q = "off" THEN Blank ELSE o
             /\ t # "pending" => copy' = copy /\ (live' = o \/ (live' = Blank /\ PoolIdle'))
             /\ UNCHANGED <<up, armed, online, age, current, reached, upsets>>
  BY <1>1 DEF Moves, Rest, Typed
<1>2. CASE Moves(t, o, place) /\ disk' \in {disk, o} /\ faults' = faults
  <2>1. place \in PlacesOf(t) \ {"queued"}
    BY DEF Fits
  <2>2. QED
    BY <1>1, <1>2, <2>1
<1>3. CASE Moves(t, o, "off") /\ disk' = disk /\ faults' = faults + 1
  <2>1. "off" \in PlacesOf(t)
    BY PlacesArePlaces
  <2>2. QED
    BY <1>1, <1>3, <2>1
<1>4. CASE t = "finalized" /\ Moves(t, o, "crashed") /\ disk' = disk /\ faults' = faults + 1
  <2>1. "crashed" \in PlacesOf(t)
    BY <1>4, PlacesArePlaces
  <2>2. QED
    BY <1>1, <1>4, <2>1
<1>5. QED
  BY <1>2, <1>3, <1>4 DEF JobStep

LEMMA JobStepInv ==
    ASSUME Rest, NEW t \in Thread, job[t] # "off", NEW o, NEW place,
           JobStep(t, o, place), Fits(t, o, place), FitsOthers(t, o, place)
    PROVE  Rest'
<1>0. PICK q \in PlacesOf(t) \ {"queued"} :
             /\ job' = [job EXCEPT ![t] = q]
             /\ job'[t] = q /\ \A s \in Thread : s # t => job'[s] = job[s]
             /\ q = place \/ q = "off" \/ (t = "finalized" /\ q = "crashed")
             /\ (q = place /\ faults' = faults) \/ faults' = faults + 1
             /\ t = "pending" => live' = live /\ copy' = IF q = "off" THEN Blank ELSE o
             /\ t # "pending" => copy' = copy /\ (live' = o \/ (live' = Blank /\ PoolIdle'))
             /\ disk' \in {disk, o}
             /\ UNCHANGED <<up, armed, online, age, current, reached, upsets>>
  BY JobStepEffect
<1>1. live' \in {live, o, Blank} /\ copy' \in {copy, o, Blank} /\ disk' \in {disk, o}
  BY <1>0
<1>2. Typed'
  BY <1>0, <1>1, BlankIsObject, PlacesArePlaces DEF Rest, Typed, Fits
<1>3. ChecksWithinBudget'
  BY <1>1, BlankIsObject, PipelineAssumption DEF Rest, ChecksWithinBudget, Fits
<1>4. NotifiedMeansEveryone'
  BY <1>0, <1>1, BlankIsObject DEF Rest, NotifiedMeansEveryone, Fits
<1>5. SentMeansEveryone'
  BY <1>0 DEF Rest, SentMeansEveryone, Fits
<1>6. AskingHasBudget'
  <2>1. ASSUME job'["started"] = "asking" \/ job'["recheck"] = "asking"
        PROVE  live'.checks < MaxChecks
    BY <1>0, <2>1, BlankIsObject, Threads, PipelineAssumption
       DEF Rest, AskingHasBudget, FirstLookIsAlone, Fits, FitsOthers, FirstPlaces, PoolIdle
  <2>2. ASSUME job'["pending"] = "asking" PROVE copy'.checks < MaxChecks
    BY <1>0, <2>2, Threads DEF Rest, AskingHasBudget, Fits
  <2>3. QED
    BY <2>1, <2>2 DEF AskingHasBudget
<1>7. FirstLookIsAlone'
  <2> SUFFICES ASSUME job'["started"] \in FirstPlaces
               PROVE  /\ live'.ai # "completed" /\ live'.checks < MaxChecks
                      /\ live'.notification = "pending"
                      /\ job'["recheck"] \in {"off", "queued"}
    BY DEF FirstLookIsAlone
  <2>1. CASE t = "pending"
    BY <1>0, <2>1, Threads DEF Rest, FirstLookIsAlone
  <2>2. CASE t = "started"
    BY <1>0, <2>2, Threads DEF Rest, FirstLookIsAlone, FitsOthers, FirstPlaces, PoolIdle
  <2>3. CASE t = "recheck"
    BY <1>0, <2>3, Threads DEF Rest, FirstLookIsAlone, FitsOthers, FirstPlaces, PoolIdle
  <2>4. CASE t = "finalized"
    BY <1>0, <2>4, Threads DEF Rest, FirstLookIsAlone, FitsOthers, FirstPlaces, PoolIdle
  <2>5. QED
    BY <2>1, <2>2, <2>3, <2>4, Threads
<1>8. ReleaseComes'
  <2> SUFFICES ASSUME faults' = 0, live'.person = "yes", live'.notification = "nobody"
               PROVE  job'["recheck"] = "verdict"
    BY DEF ReleaseComes
  <2>1. faults' = faults /\ q = place /\ faults = 0
    BY <1>0 DEF Rest, Typed
  <2>2. live' # Blank
    BY BlankIsObject
  <2>3. QED
    BY <1>0, <2>1, <2>2, Threads DEF Rest, ReleaseComes, FitsOthers
<1>9. PoolIdle <=> t = "pending" /\ PoolIdle
  BY Threads DEF PoolIdle
<1>10. PoolIdle => PoolIdle'
  BY <1>0, <1>9, Threads DEF PoolIdle
<1>11. Lives'
  BY <1>0, <1>9, <1>10, BlankIsObject, Threads DEF Rest, Lives, PoolIdle, Fits, Mine
<1>12. FinishedAgree'
  <2>1. CASE t = "pending"
    <3>1. o.status = copy.status /\ copy.status \in Finished
      BY <2>1 DEF Rest, FinishedAgree, Fits, Mine
    <3>2. disk'.status \in {disk.status, copy.status} /\ copy'.status \in {copy.status, "absent"}
          /\ live' = live /\ (job'["pending"] = "off" => copy'.status = "absent")
          /\ (job'["pending"] # "off" => copy'.status = copy.status)
      BY <1>0, <2>1, <3>1, BlankIsObject
    <3>3. QED
      BY <1>10, <3>1, <3>2, BlankIsObject DEF Rest, FinishedAgree, Finished
  <2>2. CASE t # "pending"
    <3>1. ~PoolIdle
      BY <1>9, <2>2
    <3>2. disk.status # "interrupted" /\ copy.status # "interrupted"
          /\ (disk.status = "completed" \/ copy.status = "completed" => live.status = "completed")
      BY <3>1 DEF Rest, FinishedAgree
    <3>3. /\ o.status \in {live.status, "completed"}
          /\ live'.status = o.status \/ (PoolIdle' /\ live'.status = "absent")
      BY <1>0, <2>2, BlankIsObject DEF Fits, Mine
    <3>4. disk'.status \in {disk.status, o.status} /\ copy' = copy /\ job'["pending"] = job["pending"]
      BY <1>0, <2>2, Threads
    <3>5. live.status # "interrupted"
      BY DEF Rest, FinishedAgree
    <3>6. QED
      BY BlankIsObject, <3>2, <3>3, <3>4, <3>5 DEF Rest, FinishedAgree, Finished
  <2>3. QED
    BY <2>1, <2>2
<1>13. VerdictIsCertain'
  <2> SUFFICES ASSUME "unknown" \notin Answers
               PROVE  /\ live'.ai = "completed" => live'.person # "unknown"
                      /\ job'["recheck"] \in RecheckAsks => live'.person = "no"
                      /\ OnlyIfPerson => /\ \A s \in PoolJob : job'[s] = "sending" => live'.person # "no"
                                         /\ job'["pending"] = "sending" => copy'.person # "no"
    BY DEF VerdictIsCertain
  <2>1. CASE t = "pending"
    BY <1>0, <2>1, Threads DEF Rest, VerdictIsCertain, FitsOthers
  <2>2. CASE t # "pending" /\ live' = Blank /\ PoolIdle'
    BY <1>0, <2>2, BlankIsObject, Threads DEF Rest, VerdictIsCertain, PoolIdle, RecheckAsks
  <2>3. CASE t # "pending" /\ live' = o
    <3>1. live'.ai = "completed" => live'.person # "unknown"
      BY <2>3 DEF FitsOthers
    <3>2. job'["recheck"] \in RecheckAsks => live'.person = "no"
      BY <1>0, <2>3, Threads DEF FitsOthers, RecheckAsks
    <3>3. OnlyIfPerson => \A s \in PoolJob : job'[s] = "sending" => live'.person # "no"
      BY <1>0, <2>3, Threads DEF FitsOthers
    <3>4. OnlyIfPerson => (job'["pending"] = "sending" => copy'.person # "no")
      BY <1>0, <2>3, Threads DEF Rest, VerdictIsCertain
    <3>5. QED
      BY <3>1, <3>2, <3>3, <3>4
  <2>4. QED
    BY <1>0, <2>1, <2>2, <2>3
<1>14. QED
  BY <1>2, <1>3, <1>4, <1>5, <1>6, <1>7, <1>8, <1>11, <1>12, <1>13 DEF Rest

-----------------------------------------------------------------------------
(* The steps of the jobs are such steps                                    *)

LEMMA LeaveMoves ==
    ASSUME Typed, NEW t \in Thread, NEW o, NEW place, Leave(t, o, place),
           UNCHANGED <<up, armed, online, age, current, reached, upsets>>
    PROVE  Moves(t, o, place)
<1>1. job' = [job EXCEPT ![t] = place]
  BY DEF Leave, Goes
<1>2. ASSUME place = "off", LastUser(t), t # "pending" PROVE PoolIdle'
  <2>1. \A s \in PoolJob : job'[s] = "off"
    BY <1>1, <1>2, Threads DEF LastUser, At, Typed
  <2>2. ~current'
    BY <1>2 DEF LastUser
  <2>3. QED
    BY <2>1, <2>2 DEF PoolIdle
<1>3. QED
  BY <1>1, <1>2 DEF Leave, Moves

LEMMA SaveIsStep ==
    ASSUME Typed, NEW t \in Thread, NEW o, NEW place, SaveAndGo(t, o, place)
    PROVE  JobStep(t, o, place) /\ queue' = queue
<1>1. UNCHANGED <<up, armed, online, age, current, queue, reached, upsets>>
  BY DEF SaveAndGo
<1>2. CASE disk' = o /\ Leave(t, o, place) /\ UNCHANGED faults
  BY <1>1, <1>2, LeaveMoves DEF JobStep
<1>3. CASE SaveRaises /\ Leave(t, o, Fallback(t)) /\ UNCHANGED disk
  <2>1. Moves(t, o, Fallback(t)) /\ faults' = faults + 1 /\ disk' = disk
    BY <1>1, <1>3, LeaveMoves DEF SaveRaises
  <2>2. Fallback(t) = "off" \/ (t = "finalized" /\ Fallback(t) = "crashed")
    BY DEF Fallback
  <2>3. QED
    BY <1>1, <2>1, <2>2 DEF JobStep
<1>4. QED
  BY <1>2, <1>3 DEF SaveAndGo

LEMMA PassIsStep ==
    ASSUME Typed, NEW t \in Thread, NEW place, Pass(t, place), t = "finalized" => place # "off"
    PROVE  JobStep(t, Mine(t), place) /\ queue' = queue
<1>1. /\ Leave(t, Mine(t), place)
      /\ UNCHANGED <<up, armed, online, age, current, disk, queue, reached, upsets, faults>>
  BY DEF Pass
<1>2. QED
  BY <1>1, LeaveMoves DEF JobStep

\* The pending worker goes on in its order; the others know where.
LEMMA GoOnIsStep ==
    ASSUME Typed, NEW t \in Thread, NEW o, NEW k \in {2, 3, 4}, SaveAndGoOn(t, o, k)
    PROVE  \E place : /\ JobStep(t, o, place) /\ queue' = queue
                      /\ IF t = "pending" THEN place \in {"snapshot", "frames", "notify", "off"}
                         ELSE place = Order[k]
<1>1. Order[2] = "snapshot" /\ Order[3] = "frames" /\ Order[4] = "notify" /\ Order[5] = "off" /\ Len(Order) = 5
  BY DEF Order
<1>2. PICK place \in IF t = "pending" THEN Onward(o, k) ELSE {Order[k]} : SaveAndGo(t, o, place)
  BY DEF SaveAndGoOn
<1>3. t = "pending" => \E i \in k .. 5 : place = Order[i]
  BY <1>1, <1>2 DEF Onward
<1>4. t = "pending" => place \in {"snapshot", "frames", "notify", "off"}
  BY <1>1, <1>3
<1>5. QED
  BY <1>2, <1>4, SaveIsStep

\* Objects that differ only in what nobody else relies on.
Alike(o, m) ==
    /\ o \in Object
    /\ o.checks = m.checks /\ o.person = m.person /\ o.notification = m.notification /\ o.ai = m.ai

LEMMA MineIsObject ==
    ASSUME Rest, NEW t \in Thread
    PROVE  /\ Mine(t) \in Object /\ Mine(t).checks <= MaxChecks /\ Mine(t).checks \in Nat
           /\ Mine(t).notification = "completed" => reached = Recipient
           /\ t = "pending" /\ job[t] # "off" => Mine(t).status \in Finished
           /\ job[t] = "asking" => Mine(t).checks < MaxChecks
           /\ t # "pending" => Mine(t) = live
           /\ t = "started" /\ job[t] \in FirstPlaces =>
                Mine(t).ai # "completed" /\ Mine(t).checks < MaxChecks /\ Mine(t).notification = "pending"
<1>1. t = "pending" => Mine(t) = copy
  BY DEF Mine
<1>2. t # "pending" => Mine(t) = live
  BY DEF Mine
<1>3. Mine(t) \in Object /\ Mine(t).checks \in Nat
  BY <1>1, <1>2 DEF Rest, Typed, Object
<1>4. Mine(t).checks <= MaxChecks /\ (Mine(t).notification = "completed" => reached = Recipient)
  BY <1>1, <1>2 DEF Rest, ChecksWithinBudget, NotifiedMeansEveryone
<1>5. t = "pending" /\ job[t] # "off" => Mine(t).status \in Finished
  BY <1>1 DEF Rest, FinishedAgree
<1>6. job[t] = "asking" => t \in {"started", "recheck", "pending"}
  BY DEF Rest, Typed, PlacesOf, FinalizedPlaces, Thread, PoolJob
<1>7. job[t] = "asking" => Mine(t).checks < MaxChecks
  BY <1>1, <1>2, <1>6 DEF Rest, AskingHasBudget
<1>8. QED
  BY <1>2, <1>3, <1>4, <1>5, <1>7 DEF Rest, FirstLookIsAlone

\* A step that changes nothing the others rely on fits, wherever it leads.
LEMMA PlainFits ==
    ASSUME Rest, NEW t \in Thread, job[t] # "off", NEW o, NEW place, Alike(o, Mine(t)),
           o.status = Mine(t).status \/ (t = "finalized" /\ o.status = "completed"),
           t = "finalized" /\ place = "off" => o.status = "completed",
           place \in PlacesOf(t) \ {"queued", "asking", "sending", "sent"},
           t = "started" /\ place \in FirstPlaces => job[t] \in FirstPlaces,
           t = "recheck" =>
             \/ job[t] \notin RecheckAsks \cup {"queued"} /\ place \notin RecheckAsks
             \/ job[t] \in RecheckAsks
             \/ o = live /\ place = "off"
             \/ live.ai = "completed" /\ live.person # "yes",
           t = "recheck" /\ job[t] = "verdict" => o.person # "yes" \/ o.notification # "nobody"
    PROVE  Fits(t, o, place) /\ FitsOthers(t, o, place)
<1>1. Fits(t, o, place)
  BY MineIsObject DEF Fits, Alike
<1>2. ASSUME t = "started", place \in FirstPlaces
      PROVE  /\ job["started"] \in FirstPlaces
             /\ o.ai # "completed" /\ o.checks < MaxChecks /\ o.notification = "pending"
  BY <1>2, MineIsObject DEF Alike
<1>3. t = "recheck" => job["started"] \notin FirstPlaces \/ (o = live /\ place = "off")
  BY DEF Rest, FirstLookIsAlone, RecheckAsks
<1>4. t = "finalized" => /\ o.ai = live.ai /\ o.checks = live.checks
                         /\ o.notification = live.notification /\ o.person = live.person
  BY MineIsObject DEF Alike
<1>5. t = "started" /\ job["recheck"] = "asking" => o.checks = live.checks
  BY MineIsObject DEF Alike
<1>6. ASSUME t # "pending", faults = 0, o.person = "yes", o.notification = "nobody"
      PROVE  IF t = "recheck" THEN place = "verdict" ELSE job["recheck"] = "verdict"
  BY <1>6, MineIsObject DEF Alike, Rest, ReleaseComes
<1>7. ASSUME "unknown" \notin Answers
      PROVE  /\ t # "pending" /\ o.ai = "completed" => o.person # "unknown"
             /\ t = "recheck" /\ place \in RecheckAsks => o.person = "no"
             /\ t \in {"started", "finalized"} /\ job["recheck"] \in RecheckAsks => o.person = "no"
             /\ OnlyIfPerson => /\ place = "sending" => o.person # "no"
                                /\ t # "pending" => \A s \in PoolJob \ {t} : job[s] = "sending" => o.person # "no"
  <2>1. t # "pending" => o.ai = live.ai /\ o.person = live.person
    BY MineIsObject DEF Alike
  <2>2. live.person \in Answer
    BY DEF Rest, Typed, Object
  <2>3. "off" \notin RecheckAsks
    BY DEF RecheckAsks
  <2>4. QED
    BY <1>7, <2>1, <2>2, <2>3 DEF Rest, VerdictIsCertain, Answer
<1>8. QED
  BY <1>1, <1>2, <1>3, <1>4, <1>5, <1>6, <1>7 DEF FitsOthers

\* What the steps assign is an object again.
LEMMA ObjectChanges ==
    ASSUME NEW m \in Object, NEW task \in TaskState, NEW b \in BOOLEAN
    PROVE  /\ Alike([m EXCEPT !.recording = task], m) /\ [m EXCEPT !.recording = task].status = m.status
           /\ Alike([m EXCEPT !.snapshot = task], m) /\ [m EXCEPT !.snapshot = task].status = m.status
           /\ Alike([m EXCEPT !.frames = b], m) /\ [m EXCEPT !.frames = b].status = m.status
           /\ Alike([m EXCEPT !.frames = b, !.snapshot = task], m)
           /\ [m EXCEPT !.frames = b, !.snapshot = task].status = m.status
           /\ Alike([m EXCEPT !.status = "completed"], m)
           /\ [m EXCEPT !.status = "completed"].status = "completed"
           /\ Alike([m EXCEPT !.status = "completed", !.recording = task], m)
           /\ [m EXCEPT !.status = "completed", !.recording = task].status = "completed"
BY DEF Object, Alike, Status

LEMMA InvParts == PipeInv <=> Rest /\ QueueMatches
BY DEF PipeInv, Rest

\* A step keeps the whole invariant, and a finished event finished.
StaysFinished == disk.status \in Finished => disk'.status \in {disk.status, "absent"}
StaysInHand == InHand => InHand'
Kept == PipeInv' /\ StaysFinished /\ StaysInHand

\* Jobs save what they found, until on_event_finalized ends with a finished event.
LEMMA JobStaysInHand ==
    ASSUME Rest, InHand, NEW t \in Thread, job[t] # "off", NEW o, NEW place,
           JobStep(t, o, place), Fits(t, o, place)
    PROVE  InHand'
<1>0. up /\ up' = up
  BY Threads DEF JobStep, Moves, Rest, Lives, PoolIdle
<1> SUFFICES ASSUME up', faults' = 0 PROVE Held'
  BY <1>0 DEF InHand
<1>1. /\ Moves(t, o, place) /\ disk' \in {disk, o} /\ faults' = faults
      /\ t = "finalized" /\ place = "off" => disk' = o
  BY DEF JobStep, Rest, Typed
<1>2. /\ job'[t] = place /\ \A s \in Thread : s # t => job'[s] = job[s]
      /\ current' = current /\ Held
  BY <1>0, <1>1 DEF Moves, Rest, Typed, InHand
<1>3. CASE t = "pending"
  <2>1. o.status \in Finished /\ live' = live
    BY <1>1, <1>3 DEF Moves, Fits, Mine, Rest, FinishedAgree
  <2> QED
    BY <1>1, <1>2, <1>3, <2>1, Threads DEF Held, Finished
<1>4. CASE t # "pending" /\ t # "finalized"
  <2>1. o.status = live.status /\ live' \in {o, Blank}
    BY <1>1, <1>4 DEF Moves, Fits, Mine
  <2> QED
    BY <1>1, <1>2, <1>4, <2>1, Threads, BlankIsObject DEF Held
<1>5. CASE t = "finalized"
  <2>1. o.status \in {live.status, "completed"} /\ live' \in {o, Blank}
    BY <1>1, <1>5 DEF Moves, Fits, Mine
  <2>2. place = "off" => o.status = "completed" /\ disk' = o
    BY <1>1, <1>5 DEF Fits
  <2> QED
    BY <1>1, <1>2, <1>5, <2>1, <2>2, BlankIsObject DEF Held
<1> QED
  BY <1>3, <1>4, <1>5

\* Such a step keeps the whole invariant.
LEMMA StepKeeps ==
    ASSUME PipeInv, NEW t \in Thread, job[t] \notin {"off", "queued"}, NEW o, NEW place,
           JobStep(t, o, place), queue' = queue, Fits(t, o, place), FitsOthers(t, o, place)
    PROVE  Kept
<1>1. Rest'
  BY JobStepInv, InvParts
<1>2. \A s \in Thread : job'[s] = "queued" <=> job[s] = "queued"
  <2>1. PICK q \in PlacesOf(t) \ {"queued"} : job'[t] = q /\ \A s \in Thread : s # t => job'[s] = job[s]
    BY JobStepEffect, InvParts
  <2>2. QED
    BY <2>1
<1>3. QueueMatches'
  <2>1. QueueMatches
    BY InvParts
  <2>2. \A i \in DOMAIN queue : queue[i] \in PoolJob
    BY <2>1 DEF QueueMatches
  <2>3. QED
    BY <1>2, <2>1, <2>2, Threads DEF QueueMatches
<1>4. StaysFinished
  <2>1. disk' \in {disk, o}
    BY JobStepEffect, InvParts
  <2>2. t \in PoolJob => ~PoolIdle
    BY DEF PoolIdle
  <2>3. t \in PoolJob => Mine(t) = live
    BY Threads DEF Mine
  <2>4. t = "pending" => Mine(t) = copy /\ copy.status \in Finished
    BY Threads DEF Mine, PipeInv, FinishedAgree
  <2>5. QED
    BY <2>1, <2>2, <2>3, <2>4, Threads, BlankIsObject DEF PipeInv, FinishedAgree, Finished, Fits, StaysFinished
<1>5. StaysInHand
  BY JobStaysInHand, InvParts DEF StaysInHand
<1>6. QED
  BY <1>1, <1>3, <1>4, <1>5 DEF PipeInv, Rest, Kept

LEMMA PlainKeeps ==
    ASSUME PipeInv, NEW t \in Thread, job[t] \notin {"off", "queued"}, NEW o, NEW place,
           JobStep(t, o, place), queue' = queue, Alike(o, Mine(t)),
           o.status = Mine(t).status \/ (t = "finalized" /\ o.status = "completed"),
           t = "finalized" /\ place = "off" => o.status = "completed",
           place \in PlacesOf(t) \ {"queued", "asking", "sending", "sent"},
           t = "started" /\ place \in FirstPlaces => job[t] \in FirstPlaces,
           t = "recheck" => job[t] \in RecheckAsks \/ place \notin RecheckAsks,
           t = "recheck" /\ job[t] = "verdict" => o.person # "yes" \/ o.notification # "nobody"
    PROVE  Kept
<1>1. Rest
  BY InvParts
<1>2. Fits(t, o, place) /\ FitsOthers(t, o, place)
  BY <1>1, PlainFits
<1>3. QED
  BY <1>2, StepKeeps

\* The clip, and the end of on_event_finalized.
LEMMA ClipKeeps ==
    ASSUME PipeInv, NEW t \in Thread, Extract(t) \/ Extracted(t) \/ CloseEvent \/ FinalizationCrashed
    PROVE  Kept
<1> USE DEF At
<1>a. Typed /\ Rest /\ \A s \in Thread : Mine(s) \in Object /\ Mine("finalized") = live
  BY InvParts, MineIsObject, Threads DEF Rest
<1>b. \A s \in Thread : job[s] \in PlacesOf(s)
  BY <1>a DEF Typed
<1>1. CASE Extract(t)
  <2> DEFINE o == [Mine(t) EXCEPT !.recording = "in_progress"]
  <2>1. JobStep(t, o, "extracting") /\ queue' = queue
    BY <1>1, <1>a, SaveIsStep DEF Extract
  <2>2. Alike(o, Mine(t)) /\ o.status = Mine(t).status
    BY <1>a, ObjectChanges DEF TaskState
  <2>3. t \in {"finalized", "pending"} /\ job[t] = "clip" /\ "extracting" \in PlacesOf(t)
    BY <1>1 DEF Extract, PlacesOf, FinalizedPlaces, PendingPlaces
  <2> HIDE DEF o
  <2>4. QED
    BY <2>1, <2>2, <2>3, PlainKeeps DEF FirstPlaces
<1>2. CASE Extracted(t)
  <2>1. PICK result \in TaskState :
          LET o == [Mine(t) EXCEPT !.recording = result]
          IN  IF t = "finalized" THEN SaveAndGo(t, o, "closing") ELSE SaveAndGoOn(t, o, 2)
    BY <1>2 DEF Extracted, TaskState
  <2> DEFINE o == [Mine(t) EXCEPT !.recording = result]
  <2>2. Alike(o, Mine(t)) /\ o.status = Mine(t).status
    BY <1>a, ObjectChanges
  <2>3. job[t] = "extracting" /\ t \in {"finalized", "pending"}
    BY <1>2, <1>b DEF Extracted, PlacesOf, StartedPlaces, RecheckPlaces, AtWork, Thread, PoolJob
  <2> HIDE DEF o
  <2>4. CASE t = "finalized"
    <3>1. JobStep(t, o, "closing") /\ queue' = queue
      BY <1>a, <2>1, <2>4, SaveIsStep DEF o
    <3>2. "closing" \in PlacesOf(t)
      BY <2>4 DEF PlacesOf, FinalizedPlaces
    <3>3. QED
      BY <2>2, <2>3, <2>4, <3>1, <3>2, PlainKeeps
  <2>5. CASE t = "pending"
    <3>1. SaveAndGoOn(t, o, 2)
      BY <2>1, <2>5 DEF o
    <3>2. PICK place \in {"snapshot", "frames", "notify", "off"} : JobStep(t, o, place) /\ queue' = queue
      BY <1>a, <2>5, <3>1, GoOnIsStep
    <3>3. place \in PlacesOf(t)
      BY <2>5 DEF PlacesOf, PendingPlaces, AtWork
    <3>4. QED
      BY <2>2, <2>3, <2>5, <3>2, <3>3, PlainKeeps
  <2>6. QED
    BY <2>3, <2>4, <2>5
<1>3. CASE CloseEvent
  <2> DEFINE o == [live EXCEPT !.status = "completed"]
  <2>1. JobStep("finalized", o, "off") /\ queue' = queue
    BY <1>3, <1>a, SaveIsStep, Threads DEF CloseEvent
  <2>2. Alike(o, live) /\ o.status = "completed"
    <3>1. live \in Object /\ TRUE \in BOOLEAN /\ "waiting" \in TaskState
      BY <1>a DEF Typed, TaskState
    <3>2. QED
      BY <3>1, ObjectChanges
  <2>3. job["finalized"] = "closing" /\ "off" \in PlacesOf("finalized")
    BY <1>3 DEF CloseEvent, PlacesOf, FinalizedPlaces
  <2> HIDE DEF o
  <2>4. QED
    BY <1>a, <2>1, <2>2, <2>3, PlainKeeps, Threads DEF FirstPlaces
<1>4. CASE FinalizationCrashed
  <2> DEFINE o == [live EXCEPT !.status = "completed", !.recording = "waiting"]
  <2>1. JobStep("finalized", o, "off") /\ queue' = queue
    BY <1>4, <1>a, SaveIsStep, Threads DEF FinalizationCrashed
  <2>2. Alike(o, live) /\ o.status = "completed"
    <3>1. live \in Object /\ TRUE \in BOOLEAN /\ "waiting" \in TaskState
      BY <1>a DEF Typed, TaskState
    <3>2. QED
      BY <3>1, ObjectChanges
  <2>3. job["finalized"] = "crashed" /\ "off" \in PlacesOf("finalized")
    BY <1>4 DEF FinalizationCrashed, PlacesOf, FinalizedPlaces
  <2> HIDE DEF o
  <2>4. QED
    BY <1>a, <2>1, <2>2, <2>3, PlainKeeps, Threads DEF FirstPlaces
<1>5. QED
  BY <1>1, <1>2, <1>3, <1>4

\* The snapshot.
LEMMA SnapshotKeeps ==
    ASSUME PipeInv, NEW t \in Thread, Capture(t) \/ Captured(t) \/ Recaptured
    PROVE  Kept
<1> USE DEF At
<1>a. Typed /\ Rest /\ \A s \in Thread : Mine(s) \in Object
  BY InvParts, MineIsObject, Threads DEF Rest
<1>b. \A s \in Thread : job[s] \in PlacesOf(s)
  BY <1>a DEF Typed
<1>1. ASSUME NEW o, Alike(o, Mine(t)), o.status = Mine(t).status,
             t \in {"started", "pending"}, job[t] \in {"snapshot", "capturing"}, SaveAndGoOn(t, o, 3)
      PROVE  Kept
  <2>1. PICK place \in {"snapshot", "frames", "notify", "off"} : JobStep(t, o, place) /\ queue' = queue
    <3>1. Order[3] = "frames"
      BY DEF Order
    <3>2. QED
      BY <1>a, <1>1, <3>1, GoOnIsStep
  <2>2. place \in PlacesOf(t)
    BY <1>1 DEF PlacesOf, PendingPlaces, StartedPlaces, AtWork
  <2>3. QED
    BY <1>1, <2>1, <2>2, PlainKeeps DEF FirstPlaces
<1>2. CASE Capture(t)
  <2>1. t \in {"started", "pending"} /\ job[t] = "snapshot"
    BY <1>2 DEF Capture
  <2>2. CASE SaveAndGo(t, [Mine(t) EXCEPT !.snapshot = "in_progress"], "capturing")
    <3> DEFINE o == [Mine(t) EXCEPT !.snapshot = "in_progress"]
    <3>1. JobStep(t, o, "capturing") /\ queue' = queue
      BY <2>2, <1>a, SaveIsStep
    <3>2. Alike(o, Mine(t)) /\ o.status = Mine(t).status
      BY <1>a, ObjectChanges DEF TaskState
    <3>3. "capturing" \in PlacesOf(t)
      BY <2>1 DEF PlacesOf, PendingPlaces, StartedPlaces
    <3> HIDE DEF o
    <3>4. QED
      BY <2>1, <3>1, <3>2, <3>3, PlainKeeps DEF FirstPlaces
  <2>3. CASE SaveAndGoOn(t, [Mine(t) EXCEPT !.snapshot = "ended"], 3)
    <3> DEFINE o == [Mine(t) EXCEPT !.snapshot = "ended"]
    <3>1. Alike(o, Mine(t)) /\ o.status = Mine(t).status
      BY <1>a, ObjectChanges DEF TaskState
    <3>2. QED
      BY <1>1, <2>1, <2>3, <3>1
  <2>4. QED
    BY <1>2, <2>2, <2>3 DEF Capture
<1>3. CASE Captured(t)
  <2>1. t \in {"started", "pending"} /\ job[t] = "capturing"
    BY <1>3, <1>b DEF Captured, PlacesOf, FinalizedPlaces, RecheckPlaces, Thread, PoolJob
  <2>2. PICK got \in BOOLEAN, task \in TaskState :
          SaveAndGoOn(t, [Mine(t) EXCEPT !.frames = got, !.snapshot = task], 3)
    BY <1>3 DEF Captured, Retry, TaskState
  <2>3. QED
    BY <1>1, <1>a, <2>1, <2>2, ObjectChanges
<1>4. CASE Recaptured
  <2>1. job["recheck"] = "recapturing" /\ {"asking again", "off"} \subseteq PlacesOf("recheck") /\ Mine("recheck") = live
    BY <1>4 DEF Recaptured, PlacesOf, RecheckPlaces, Mine
  <2>2. CASE SaveAndGo("recheck", [live EXCEPT !.frames = TRUE], "asking again")
    <3> DEFINE o == [live EXCEPT !.frames = TRUE]
    <3>1. JobStep("recheck", o, "asking again") /\ queue' = queue
      BY <2>2, <1>a, SaveIsStep, Threads
    <3>2. Alike(o, live) /\ o.status = live.status
      <4>1. live \in Object /\ TRUE \in BOOLEAN /\ "pending" \in TaskState
        BY <1>a DEF Typed, TaskState
      <4>2. QED
        BY <4>1, ObjectChanges
    <3> HIDE DEF o
    <3>3. "recapturing" \in RecheckAsks
      BY DEF RecheckAsks
    <3>4. QED
      BY <2>1, <3>1, <3>2, <3>3, PlainKeeps, Threads
  <2>3. CASE Pass("recheck", "off")
    <3>1. JobStep("recheck", live, "off") /\ queue' = queue
      BY <1>a, <2>1, <2>3, PassIsStep, Threads
    <3>2. Alike(live, live)
      BY <1>a DEF Alike, Typed
    <3>3. "recapturing" \in RecheckAsks
      BY DEF RecheckAsks
    <3>4. QED
      BY <2>1, <3>1, <3>2, <3>3, PlainKeeps, Threads
  <2>4. QED
    BY <1>4, <2>2, <2>3 DEF Recaptured
<1>5. QED
  BY <1>2, <1>3, <1>4

\* What the verdict's steps assign.
LEMMA VerdictChanges ==
    ASSUME NEW m \in Object, NEW task \in TaskState
    PROVE  LET o == [m EXCEPT !.ai = task]
           IN  o \in Object /\ o.ai = task /\ o.checks = m.checks /\ o.person = m.person
               /\ o.notification = m.notification /\ o.status = m.status
BY DEF Object

LEMMA AnswerChanges ==
    ASSUME NEW m \in Object, NEW person \in Answer
    PROVE  LET o == [m EXCEPT !.ai = "completed", !.person = person, !.checks = @ + 1]
           IN  o \in Object /\ o.ai = "completed" /\ o.checks = m.checks + 1 /\ o.person = person
               /\ o.notification = m.notification /\ o.status = m.status
<1>1. PICK n \in Nat : n = m.checks + 1
  BY DEF Object
<1>2. [m EXCEPT !.ai = "completed", !.person = person, !.checks = @ + 1]
        = [m EXCEPT !.ai = "completed", !.person = person, !.checks = n]
  BY <1>1
<1>3. LET o == [m EXCEPT !.ai = "completed", !.person = person, !.checks = n]
      IN  o \in Object /\ o.ai = "completed" /\ o.checks = n /\ o.person = person
          /\ o.notification = m.notification /\ o.status = m.status
  BY DEF Object, TaskState
<1>4. QED
  BY <1>1, <1>2, <1>3

LEMMA NotificationChanges ==
    ASSUME NEW m \in Object, NEW task \in TaskState \cup SkipReason
    PROVE  LET o == [m EXCEPT !.notification = task]
           IN  o \in Object /\ o.ai = m.ai /\ o.checks = m.checks /\ o.person = m.person
               /\ o.notification = task /\ o.status = m.status
BY DEF Object

\* Who takes part in the analysis.
LEMMA Analysts ==
    ASSUME Typed, NEW t \in Thread
    PROVE  /\ job[t] \in {"frames", "asking", "notify", "sending", "sent", "unsent"} =>
                t \in {"started", "recheck", "pending"}
           /\ job[t] = "frames" => t \in {"started", "pending"}
           /\ t \in {"started", "recheck", "pending"} =>
                {"off", "asking", "notify", "sending", "sent", "unsent"} \subseteq PlacesOf(t)
           /\ t \in {"started", "pending"} => "frames" \in PlacesOf(t)
           /\ t = "recheck" => "verdict" \in PlacesOf(t)
           /\ t = "pending" => {"snapshot", "frames", "notify", "off"} \subseteq PlacesOf(t)
BY DEF Typed, PlacesOf, StartedPlaces, RecheckPlaces, FinalizedPlaces, PendingPlaces, AtWork, Thread, PoolJob

\* The call begins, or the analysis is over for now.
LEMMA UnansweredKeeps ==
    ASSUME PipeInv, NEW t \in {"started", "recheck", "pending"},
           job[t] \in {"frames", "asking again", "asking"},
           NEW task \in TaskState, task # "completed", NEW place,
           JobStep(t, [Mine(t) EXCEPT !.ai = task], place), queue' = queue,
           place \in PlacesOf(t) \ {"queued", "sending", "sent"},
           place = "asking" => Mine(t).checks < MaxChecks
    PROVE  Kept
<1> DEFINE o == [Mine(t) EXCEPT !.ai = task]
<1>1. Rest /\ Typed /\ t \in Thread
  BY InvParts DEF Rest, Thread, PoolJob
<1>2. o \in Object /\ o.ai = task /\ o.checks = Mine(t).checks /\ o.person = Mine(t).person
      /\ o.notification = Mine(t).notification /\ o.status = Mine(t).status
  BY <1>1, MineIsObject, VerdictChanges
<1>3. JobStep(t, o, place)
  OBVIOUS
<1> HIDE DEF o
<1>4. Fits(t, o, place)
  BY <1>1, <1>2, MineIsObject DEF Fits
<1>5. FitsOthers(t, o, place)
  <2>1. ASSUME t = "started", place \in FirstPlaces
        PROVE  /\ job["started"] \in FirstPlaces
               /\ o.ai # "completed" /\ o.checks < MaxChecks /\ o.notification = "pending"
    <3>1. job["started"] \in FirstPlaces
      BY <1>1, <2>1 DEF FirstPlaces, Typed, PlacesOf, StartedPlaces, AtWork
    <3>2. QED
      BY <1>1, <1>2, <2>1, <3>1, MineIsObject
  <2>2. t = "recheck" => job["started"] \notin FirstPlaces
    BY <1>1 DEF Rest, FirstLookIsAlone
  <2>3. ASSUME t # "pending", faults = 0, o.person = "yes", o.notification = "nobody"
        PROVE  IF t = "recheck" THEN place = "verdict" ELSE job["recheck"] = "verdict"
    BY <1>1, <1>2, <2>3, MineIsObject DEF Rest, ReleaseComes
  <2>4. t = "started" /\ job["recheck"] = "asking" => o.checks = live.checks
    BY <1>1, <1>2, MineIsObject
  <2>5. ASSUME "unknown" \notin Answers
        PROVE  /\ t # "pending" /\ o.ai = "completed" => o.person # "unknown"
               /\ t = "recheck" /\ place \in RecheckAsks => o.person = "no"
               /\ t \in {"started", "finalized"} /\ job["recheck"] \in RecheckAsks => o.person = "no"
               /\ OnlyIfPerson =>
                    /\ place = "sending" => o.person # "no"
                    /\ t # "pending" => \A s \in PoolJob \ {t} : job[s] = "sending" => o.person # "no"
    <3>1. t # "pending" => o.person = live.person
      BY <1>1, <1>2, MineIsObject
    <3>2. t = "recheck" => job["recheck"] \in RecheckAsks
      BY <1>1 DEF RecheckAsks, Typed, PlacesOf, RecheckPlaces
    <3>3. QED
      BY <1>1, <1>2, <2>5, <3>1, <3>2 DEF Rest, VerdictIsCertain
  <2>6. QED
    BY <2>1, <2>2, <2>3, <2>4, <2>5 DEF FitsOthers
<1>6. QED
  BY <1>1, <1>3, <1>4, <1>5, StepKeeps

\* The provider has answered.
LEMMA AnsweredKeeps ==
    ASSUME PipeInv, NEW t \in {"started", "recheck", "pending"}, job[t] = "asking",
           NEW person \in Answer, "unknown" \notin Answers => person # "unknown", NEW place,
           JobStep(t, [Mine(t) EXCEPT !.ai = "completed", !.person = person, !.checks = @ + 1], place),
           queue' = queue,
           t = "started" => place = "notify",
           t = "recheck" => place = "verdict",
           t = "pending" => place \in {"snapshot", "frames", "notify", "off"}
    PROVE  Kept
<1> DEFINE o == [Mine(t) EXCEPT !.ai = "completed", !.person = person, !.checks = @ + 1]
<1>1. Rest /\ Typed /\ t \in Thread
  BY InvParts DEF Rest, Thread, PoolJob
<1>2. o \in Object /\ o.ai = "completed" /\ o.checks = Mine(t).checks + 1 /\ o.person = person
      /\ o.notification = Mine(t).notification /\ o.status = Mine(t).status
  BY <1>1, MineIsObject, AnswerChanges
<1>3. JobStep(t, o, place)
  OBVIOUS
<1> HIDE DEF o
<1>4. place \in PlacesOf(t) \ {"queued", "asking", "sent"}
  BY <1>1, Analysts
<1>5. Fits(t, o, place)
  BY <1>1, <1>2, <1>4, MineIsObject, PipelineAssumption DEF Fits
<1>6. FitsOthers(t, o, place)
  <2>1. t = "started" => place = "notify" /\ "notify" \notin FirstPlaces
    BY DEF FirstPlaces
  <2>2. t = "recheck" => place = "verdict" /\ job["started"] \notin FirstPlaces
    BY <1>1 DEF Rest, FirstLookIsAlone
  <2>3. t = "started" => o.notification = "pending" /\ job["recheck"] # "asking"
    BY <1>1, <1>2 DEF Rest, FirstLookIsAlone, Mine, FirstPlaces
  <2>4. ASSUME "unknown" \notin Answers
        PROVE  /\ t # "pending" /\ o.ai = "completed" => o.person # "unknown"
               /\ t = "recheck" /\ place \in RecheckAsks => o.person = "no"
               /\ t \in {"started", "finalized"} /\ job["recheck"] \in RecheckAsks => o.person = "no"
               /\ OnlyIfPerson =>
                    /\ place = "sending" => o.person # "no"
                    /\ t # "pending" => \A s \in PoolJob \ {t} : job[s] = "sending" => o.person # "no"
    <3>1. place \notin RecheckAsks \cup {"sending"}
      BY DEF RecheckAsks
    <3>2. t = "started" => job["recheck"] \in {"off", "queued"}
      BY <1>1 DEF Rest, FirstLookIsAlone, FirstPlaces
    <3>3. job["finalized"] # "sending"
      BY <1>1, Threads DEF Typed, PlacesOf, FinalizedPlaces
    <3>4. t = "recheck" => live.person = "no"
      BY <1>1, <2>4 DEF Rest, VerdictIsCertain, RecheckAsks
    <3>5. ASSUME OnlyIfPerson, t # "pending", NEW s \in PoolJob \ {t}, job[s] = "sending" PROVE FALSE
      BY <1>1, <2>4, <3>2, <3>3, <3>4, <3>5, Threads DEF Rest, VerdictIsCertain
    <3>6. t = "started" => job["recheck"] \notin RecheckAsks
      BY <3>2 DEF RecheckAsks
    <3>7. QED
      BY <1>2, <2>4, <3>1, <3>5, <3>6
  <2>5. QED
    BY <2>1, <2>2, <2>3, <2>4 DEF FitsOthers
<1>7. QED
  BY <1>1, <1>3, <1>5, <1>6, StepKeeps

\* The notification's state changes once the verdict is in.
LEMMA NotificationKeeps ==
    ASSUME PipeInv, NEW t \in {"started", "recheck", "pending"},
           job[t] \in {"verdict", "notify", "sent", "unsent"},
           NEW task \in TaskState \cup SkipReason,
           task = "nobody" => Mine(t).person # "yes",
           task = "completed" => reached = Recipient,
           NEW place \in {"notify", "sending", "off"},
           place = "sending" /\ OnlyIfPerson => Mine(t).person # "no",
           JobStep(t, [Mine(t) EXCEPT !.notification = task], place), queue' = queue
    PROVE  Kept
<1> DEFINE o == [Mine(t) EXCEPT !.notification = task]
<1>1. Rest /\ Typed /\ t \in Thread
  BY InvParts DEF Rest, Thread, PoolJob
<1>2. o \in Object /\ o.ai = Mine(t).ai /\ o.checks = Mine(t).checks /\ o.person = Mine(t).person
      /\ o.notification = task /\ o.status = Mine(t).status
  BY <1>1, MineIsObject, NotificationChanges
<1>3. JobStep(t, o, place)
  OBVIOUS
<1> HIDE DEF o
<1>4. place \in PlacesOf(t) \ {"queued", "asking", "sent"}
  BY <1>1, Analysts
<1>5. Fits(t, o, place)
  BY <1>1, <1>2, <1>4, MineIsObject DEF Fits
<1>6. FitsOthers(t, o, place)
  <2>1. t = "started" => place \notin FirstPlaces
    BY DEF FirstPlaces
  <2>2. t = "recheck" => job["started"] \notin FirstPlaces
    BY <1>1 DEF Rest, FirstLookIsAlone
  <2>3. o.person # "yes" \/ o.notification # "nobody"
    BY <1>2
  <2>4. t = "started" /\ job["recheck"] = "asking" => o.checks = live.checks
    BY <1>1, <1>2, MineIsObject
  <2>5. ASSUME "unknown" \notin Answers
        PROVE  /\ t # "pending" /\ o.ai = "completed" => o.person # "unknown"
               /\ t = "recheck" /\ place \in RecheckAsks => o.person = "no"
               /\ t \in {"started", "finalized"} /\ job["recheck"] \in RecheckAsks => o.person = "no"
               /\ OnlyIfPerson =>
                    /\ place = "sending" => o.person # "no"
                    /\ t # "pending" => \A s \in PoolJob \ {t} : job[s] = "sending" => o.person # "no"
    <3>1. place \notin RecheckAsks
      BY DEF RecheckAsks
    <3>2. t # "pending" => o.ai = live.ai /\ o.person = live.person
      BY <1>1, <1>2, MineIsObject
    <3>3. QED
      BY <1>1, <1>2, <2>5, <3>1, <3>2 DEF Rest, VerdictIsCertain
  <2>6. QED
    BY <2>1, <2>2, <2>3, <2>4, <2>5 DEF FitsOthers
<1>7. QED
  BY <1>1, <1>3, <1>5, <1>6, StepKeeps

\* Where a thread goes on after the analysis.
LEMMA GoOnAfterVerdictIsStep ==
    ASSUME Typed, NEW t \in {"started", "recheck", "pending"}, NEW o, GoOnAfterVerdict(t, o)
    PROVE  \E place \in PlacesOf(t) \ {"queued", "asking", "sending", "sent"} :
             /\ JobStep(t, o, place) /\ queue' = queue
             /\ t = "started" => place = "notify"
             /\ t = "recheck" => place = "verdict"
             /\ t = "pending" => place \in {"snapshot", "frames", "notify", "off"}
<1>0. t \in Thread /\ Order[4] = "notify"
  BY DEF Thread, PoolJob, Order
<1>1. CASE t = "recheck"
  <2>1. SaveAndGo(t, o, "verdict")
    BY <1>1 DEF GoOnAfterVerdict
  <2>2. QED
    BY <1>0, <1>1, <2>1, SaveIsStep, Analysts
<1>2. CASE t # "recheck"
  <2>1. SaveAndGoOn(t, o, 4)
    BY <1>2 DEF GoOnAfterVerdict
  <2>2. PICK place : /\ JobStep(t, o, place) /\ queue' = queue
                     /\ IF t = "pending" THEN place \in {"snapshot", "frames", "notify", "off"}
                        ELSE place = "notify"
    BY <1>0, <2>1, GoOnIsStep
  <2>3. QED
    BY <1>0, <1>2, <2>2, Analysts
<1>3. QED
  BY <1>1, <1>2

LEMMA LessOrNot == \A n \in Nat : n >= MaxChecks <=> ~(n < MaxChecks)
BY PipelineAssumption

LEMMA AskKeeps ==
    ASSUME PipeInv, NEW t \in {"started", "recheck", "pending"},
           job[t] \in {"frames", "asking again"}, Ask(t, Mine(t))
    PROVE  Kept
<1>0. Rest /\ Typed /\ t \in Thread
  BY InvParts DEF Rest, Thread, PoolJob
<1>1. PICK task \in {"ended", "waiting", "in_progress"} :
        /\ AskAI(Mine(t)) = [Mine(t) EXCEPT !.ai = task]
        /\ task = "in_progress" => Mine(t).checks < MaxChecks
  <2>1. PICK n \in Nat : n = Mine(t).checks
    BY <1>0, MineIsObject
  <2>2. n >= MaxChecks \/ n < MaxChecks
    BY LessOrNot
  <2>3. ~(n >= MaxChecks /\ n < MaxChecks)
    BY LessOrNot
  <2>4. CASE Mine(t).checks >= MaxChecks
    <3>1. AskAI(Mine(t)) = [Mine(t) EXCEPT !.ai = "ended"]
      BY <2>1, <2>3, <2>4 DEF AskAI
    <3>2. QED
      BY <3>1
  <2>5. CASE Mine(t).checks < MaxChecks /\ ~online
    <3>1. AskAI(Mine(t)) = [Mine(t) EXCEPT !.ai = "waiting"]
      BY <2>1, <2>3, <2>5 DEF AskAI
    <3>2. QED
      BY <3>1
  <2>6. CASE Mine(t).checks < MaxChecks /\ online
    <3>1. AskAI(Mine(t)) = [Mine(t) EXCEPT !.ai = "in_progress"]
      BY <2>1, <2>3, <2>6 DEF AskAI
    <3>2. QED
      BY <2>6, <3>1
  <2>7. QED
    BY <2>1, <2>2, <2>4, <2>5, <2>6
<1>2. task \in TaskState /\ task # "completed"
  BY DEF TaskState
<1>3. [Mine(t) EXCEPT !.ai = task].ai = task
  BY <1>0, <1>2, MineIsObject, VerdictChanges
<1>4. CASE task = "in_progress"
  <2>1. SaveAndGo(t, [Mine(t) EXCEPT !.ai = task], "asking")
    BY <1>1, <1>3, <1>4 DEF Ask
  <2>2. JobStep(t, [Mine(t) EXCEPT !.ai = task], "asking") /\ queue' = queue
    BY <1>0, <2>1, SaveIsStep
  <2>3. "asking" \in PlacesOf(t)
    BY <1>0, Analysts
  <2>4. QED
    BY <1>1, <1>2, <1>4, <2>2, <2>3, UnansweredKeeps
<1>5. CASE task # "in_progress"
  <2>1. GoOnAfterVerdict(t, [Mine(t) EXCEPT !.ai = task])
    BY <1>1, <1>3, <1>5 DEF Ask
  <2>2. PICK place \in PlacesOf(t) \ {"queued", "asking", "sending", "sent"} :
          JobStep(t, [Mine(t) EXCEPT !.ai = task], place) /\ queue' = queue
    BY <1>0, <2>1, GoOnAfterVerdictIsStep
  <2>3. QED
    BY <1>2, <2>2, UnansweredKeeps
<1>6. QED
  BY <1>4, <1>5

\* The analysis.
LEMMA AnalysisKeeps ==
    ASSUME PipeInv, NEW t \in Thread, RunAI(t) \/ AskAgain \/ Answered(t) \/ Unanswered(t)
    PROVE  Kept
<1> USE DEF At
<1>0. Rest /\ Typed /\ Mine("recheck") = live
  BY InvParts DEF Rest, Mine
<1>1. CASE RunAI(t)
  <2>1. job[t] = "frames" /\ t \in {"started", "pending"}
    BY <1>0, <1>1, Analysts DEF RunAI
  <2>2. CASE Pass(t, "notify")
    <3>1. JobStep(t, Mine(t), "notify") /\ queue' = queue
      BY <1>0, <2>2, PassIsStep
    <3>2. Alike(Mine(t), Mine(t))
      BY <1>0, MineIsObject DEF Alike
    <3>3. "notify" \in PlacesOf(t)
      BY <1>0, <2>1, Analysts
    <3>4. QED
      BY <2>1, <3>1, <3>2, <3>3, PlainKeeps DEF FirstPlaces
  <2>3. CASE Ask(t, Mine(t))
    BY <2>1, <2>3, AskKeeps
  <2>4. CASE SaveAndGoOn(t, [Mine(t) EXCEPT !.ai = "ended"], 4)
    <3>1. GoOnAfterVerdict(t, [Mine(t) EXCEPT !.ai = "ended"])
      BY <2>1, <2>4 DEF GoOnAfterVerdict
    <3>2. PICK place \in PlacesOf(t) \ {"queued", "asking", "sending", "sent"} :
            JobStep(t, [Mine(t) EXCEPT !.ai = "ended"], place) /\ queue' = queue
      BY <1>0, <2>1, <3>1, GoOnAfterVerdictIsStep
    <3>3. QED
      BY <2>1, <3>2, UnansweredKeeps DEF TaskState
  <2>5. QED
    BY <1>1, <2>2, <2>3, <2>4 DEF RunAI
<1>2. CASE AskAgain
  BY <1>0, <1>2, AskKeeps DEF AskAgain
<1>3. CASE Answered(t)
  <2>1. job[t] = "asking" /\ t \in {"started", "recheck", "pending"}
    BY <1>0, <1>3, Analysts DEF Answered
  <2>2. PICK person \in Verdicts :
          GoOnAfterVerdict(t, [Mine(t) EXCEPT !.ai = "completed", !.person = person, !.checks = @ + 1])
    BY <1>3 DEF Answered
  <2>3. person \in Answer /\ ("unknown" \notin Answers => person # "unknown")
    BY <2>2, PipelineAssumption DEF Verdicts, Verdict, Analyses, Answer
  <2>4. PICK place :
          /\ JobStep(t, [Mine(t) EXCEPT !.ai = "completed", !.person = person, !.checks = @ + 1], place)
          /\ queue' = queue
          /\ t = "started" => place = "notify"
          /\ t = "recheck" => place = "verdict"
          /\ t = "pending" => place \in {"snapshot", "frames", "notify", "off"}
    BY <1>0, <2>1, <2>2, GoOnAfterVerdictIsStep
  <2>5. QED
    BY <2>1, <2>3, <2>4, AnsweredKeeps
<1>4. CASE Unanswered(t)
  <2>1. job[t] = "asking" /\ t \in {"started", "recheck", "pending"}
    BY <1>0, <1>4, Analysts DEF Unanswered
  <2>2. PICK task \in {"waiting", "ended"} : GoOnAfterVerdict(t, [Mine(t) EXCEPT !.ai = task])
    BY <1>4 DEF Unanswered, Retry
  <2>3. PICK place \in PlacesOf(t) \ {"queued", "asking", "sending", "sent"} :
          JobStep(t, [Mine(t) EXCEPT !.ai = task], place) /\ queue' = queue
    BY <1>0, <2>1, <2>2, GoOnAfterVerdictIsStep
  <2>4. task \in TaskState /\ task # "completed"
    BY DEF TaskState
  <2>5. QED
    BY <2>1, <2>3, <2>4, UnansweredKeeps
<1>5. QED
  BY <1>1, <1>2, <1>3, <1>4

\* The notification.
LEMMA NotifyKeeps ==
    ASSUME PipeInv, NEW t \in Thread, Notify(t) \/ Sent(t) \/ Unsent(t) \/ Release
    PROVE  Kept
<1> USE DEF At
<1>0. Rest /\ Typed /\ Mine("recheck") = live /\ "recheck" \in Thread
  BY InvParts, Threads DEF Rest, Mine
<1>a. ASSUME NEW s \in {"started", "recheck", "pending"}, NEW place \in {"notify", "off"},
             job[s] \in {"notify", "verdict"}, Pass(s, place),
             job[s] = "verdict" => live.person # "yes" \/ live.notification # "nobody"
      PROVE  Kept
  <2>0. s \in Thread
    BY <1>a DEF Thread, PoolJob
  <2>1. JobStep(s, Mine(s), place) /\ queue' = queue
    BY <1>0, <1>a, <2>0, PassIsStep
  <2>2. Alike(Mine(s), Mine(s))
    BY <1>0, <2>0, MineIsObject DEF Alike
  <2>3. place \in PlacesOf(s) \ {"queued", "asking", "sending", "sent"}
    BY <1>0, <1>a, <2>0, Analysts
  <2>4. s = "recheck" /\ job[s] = "verdict" => Mine(s).person # "yes" \/ Mine(s).notification # "nobody"
    BY <1>0, <1>a
  <2>5. QED
    BY <1>a, <2>0, <2>1, <2>2, <2>3, <2>4, PlainKeeps DEF FirstPlaces, RecheckAsks
<1>1. CASE Notify(t)
  <2>1. job[t] = "notify" /\ t \in {"started", "recheck", "pending"}
    BY <1>0, <1>1, Analysts DEF Notify
  <2>2. CASE Pass(t, "off")
    BY <1>a, <2>1, <2>2
  <2>3. ASSUME NEW task \in TaskState \cup SkipReason, NEW place \in {"sending", "off"},
               SaveAndGo(t, [Mine(t) EXCEPT !.notification = task], place),
               task = "nobody" => Mine(t).person # "yes", task # "completed",
               place = "sending" /\ OnlyIfPerson => Mine(t).person # "no"
        PROVE  Kept
    BY <1>0, <2>1, <2>3, SaveIsStep, NotificationKeeps
  <2>4. {"disarmed", "nobody", "suppressed", "in_progress", "waiting"} \subseteq TaskState \cup SkipReason
    BY DEF TaskState, SkipReason
  <2>5. CASE \/ Suppress(t, Mine(t), "disarmed") \/ Suppress(t, Mine(t), "suppressed")
             \/ Begin(t, Mine(t)) /\ (OnlyIfPerson => Mine(t).person # "no")
    BY <2>3, <2>4, <2>5 DEF Suppress, Begin
  <2>6. CASE Mine(t).person = "no" /\ Suppress(t, Mine(t), "nobody")
    BY <2>3, <2>4, <2>6 DEF Suppress
  <2>7. QED
    BY <1>1, <2>2, <2>5, <2>6 DEF Notify
<1>2. CASE Sent(t)
  <2>1. job[t] = "sent" /\ t \in {"started", "recheck", "pending"}
    BY <1>0, <1>2, Analysts DEF Sent
  <2>2. JobStep(t, [Mine(t) EXCEPT !.notification = "completed"], "off") /\ queue' = queue
    BY <1>0, <1>2, SaveIsStep DEF Sent
  <2>3. reached = Recipient
    BY <1>0, <2>1 DEF Rest, SentMeansEveryone
  <2>4. QED
    BY <2>1, <2>2, <2>3, NotificationKeeps DEF TaskState
<1>3. CASE Unsent(t)
  <2>1. job[t] = "unsent" /\ t \in {"started", "recheck", "pending"}
    BY <1>0, <1>3, Analysts DEF Unsent
  <2>2. PICK task \in {"waiting", "ended"} :
          JobStep(t, [Mine(t) EXCEPT !.notification = task], "off") /\ queue' = queue
    BY <1>0, <1>3, SaveIsStep DEF Unsent, Retry
  <2>3. QED
    BY <2>1, <2>2, NotificationKeeps DEF TaskState
<1>4. CASE Release
  <2>1. job["recheck"] = "verdict"
    BY <1>4 DEF Release
  <2>2. CASE live.person # "yes" /\ Pass("recheck", "off")
    BY <1>a, <2>1, <2>2
  <2>3. CASE live.notification \in SkipReason /\ SaveAndGo("recheck", Released(live), "notify")
    <3>1. Released(live) = [Mine("recheck") EXCEPT !.notification = "pending"]
      BY <1>0, <2>3 DEF Released
    <3>2. JobStep("recheck", [Mine("recheck") EXCEPT !.notification = "pending"], "notify") /\ queue' = queue
      BY <1>0, <2>3, <3>1, SaveIsStep
    <3>3. QED
      BY <1>0, <2>1, <3>2, NotificationKeeps DEF TaskState
  <2>4. CASE Released(live) = live /\ Pass("recheck", "notify")
    <3>1. live.notification \notin SkipReason
      <4>1. ASSUME live.notification \in SkipReason PROVE FALSE
        <5>1. live = [live EXCEPT !.notification = "pending"]
          BY <2>4, <4>1 DEF Released
        <5>2. [live EXCEPT !.notification = "pending"].notification = "pending"
          BY <1>0, NotificationChanges DEF Typed, TaskState
        <5>3. QED
          BY <4>1, <5>1, <5>2 DEF SkipReason
      <4>2. QED
        BY <4>1
    <3>2. live.notification # "nobody"
      BY <3>1 DEF SkipReason
    <3>3. QED
      BY <1>a, <2>1, <2>4, <3>2
  <2>5. QED
    BY <1>4, <2>2, <2>3, <2>4 DEF Release, Released
<1>5. QED
  BY <1>1, <1>2, <1>3, <1>4

\* Some recipients have had the alarm.
LEMMA SendKeeps ==
    ASSUME PipeInv, NEW t \in Thread, Send(t)
    PROVE  PipeInv'
<1>0. Rest /\ Typed /\ QueueMatches
  BY InvParts DEF Rest
<1>1. PICK ok \in SUBSET Recipient :
        /\ reached' = reached \cup ok
        /\ job' = [job EXCEPT ![t] = IF ok = Recipient THEN "sent" ELSE "unsent"]
  BY DEF Send, Goes, Deliveries
<1>2. PICK q \in {"sent", "unsent"} : job' = [job EXCEPT ![t] = q] /\ (q = "sent" => ok = Recipient)
  BY <1>1
<1>3. /\ UNCHANGED <<up, armed, online, age, current, live, copy, disk, queue, upsets, faults>>
      /\ job[t] = "sending" /\ t \in {"started", "recheck", "pending"}
  BY <1>0, Analysts DEF Send, At
<1>4. /\ job'[t] = q /\ \A s \in Thread : s # t => job'[s] = job[s]
      /\ job' \in [Thread -> Place] /\ q \in PlacesOf(t)
  BY <1>0, <1>2, <1>3, Analysts DEF Typed, Place
<1>5. reached' \in SUBSET Recipient /\ (reached = Recipient \/ q = "sent" => reached' = Recipient)
  BY <1>0, <1>1, <1>2 DEF Typed
<1>6. PoolIdle => PoolIdle' /\ t = "pending"
  BY <1>3, <1>4, Threads DEF PoolIdle
<1>7. Typed'
  BY <1>0, <1>3, <1>4, <1>5 DEF Typed
<1>8. QueueMatches'
  <2>1. \A s \in Thread : job'[s] = "queued" <=> job[s] = "queued"
    BY <1>3, <1>4
  <2>2. \A i \in DOMAIN queue : queue[i] \in PoolJob
    BY <1>0 DEF QueueMatches
  <2>3. QED
    BY <1>0, <1>3, <2>1, <2>2, Threads DEF QueueMatches
<1>9. ChecksWithinBudget' /\ AskingHasBudget' /\ FirstLookIsAlone'
  BY <1>0, <1>3, <1>4, Threads DEF Rest, ChecksWithinBudget, AskingHasBudget, FirstLookIsAlone, FirstPlaces
<1>10. NotifiedMeansEveryone' /\ SentMeansEveryone'
  BY <1>0, <1>3, <1>4, <1>5 DEF Rest, NotifiedMeansEveryone, SentMeansEveryone
<1>11. ReleaseComes'
  BY <1>0, <1>3, <1>4, Threads DEF Rest, ReleaseComes
<1>12. Lives' /\ FinishedAgree'
  BY <1>0, <1>3, <1>4, <1>6, Threads DEF Rest, Lives, FinishedAgree
<1>13. VerdictIsCertain'
  BY <1>0, <1>3, <1>4, Threads DEF Rest, VerdictIsCertain, RecheckAsks
<1>14. QED
  BY <1>7, <1>8, <1>9, <1>10, <1>11, <1>12, <1>13 DEF PipeInv

-----------------------------------------------------------------------------
(* The queue                                                               *)

LEMMA TakenFromQueue ==
    ASSUME NEW S, NEW q \in Seq(S), q # <<>>, \A i, k \in DOMAIN q : q[i] = q[k] => i = k
    PROVE  /\ Head(q) \in S /\ 1 \in DOMAIN q /\ Head(q) = q[1]
           /\ Tail(q) \in Seq(S)
           /\ \A i \in DOMAIN Tail(q) : i + 1 \in DOMAIN q /\ Tail(q)[i] = q[i + 1] /\ Tail(q)[i] # Head(q)
           /\ \A i, k \in DOMAIN Tail(q) : Tail(q)[i] = Tail(q)[k] => i = k
           /\ \A i \in DOMAIN q : q[i] # Head(q) => \E k \in DOMAIN Tail(q) : Tail(q)[k] = q[i]
<1>1. /\ Len(q) \in Nat \ {0} /\ DOMAIN q = 1 .. Len(q)
      /\ Head(q) = q[1] /\ q[1] \in S
      /\ Tail(q) \in Seq(S) /\ Len(Tail(q)) = Len(q) - 1 /\ DOMAIN Tail(q) = 1 .. Len(q) - 1
      /\ \A i \in 1 .. Len(q) - 1 : Tail(q)[i] = q[i + 1]
  OBVIOUS
<1>2. \A i \in DOMAIN Tail(q) : i + 1 \in DOMAIN q /\ Tail(q)[i] = q[i + 1] /\ i + 1 # 1
  BY <1>1
<1>3. \A i \in DOMAIN Tail(q) : Tail(q)[i] # Head(q)
  BY <1>1, <1>2
<1>4. \A i, k \in DOMAIN Tail(q) : Tail(q)[i] = Tail(q)[k] => i = k
  <2>1. SUFFICES ASSUME NEW i \in DOMAIN Tail(q), NEW k \in DOMAIN Tail(q), Tail(q)[i] = Tail(q)[k]
                 PROVE  i = k
    OBVIOUS
  <2>2. i + 1 = k + 1
    BY <1>2, <2>1
  <2>3. i \in Int /\ k \in Int
    BY <1>1
  <2>4. QED
    BY <2>2, <2>3
<1>5. ASSUME NEW i \in DOMAIN q, q[i] # Head(q) PROVE \E k \in DOMAIN Tail(q) : Tail(q)[k] = q[i]
  <2>1. i # 1 /\ i \in 1 .. Len(q)
    BY <1>1, <1>5
  <2>2. i - 1 \in 1 .. Len(q) - 1 /\ (i - 1) + 1 = i
    BY <1>1, <2>1
  <2>3. QED
    BY <1>1, <2>2
<1>6. QED
  BY <1>1, <1>2, <1>3, <1>4, <1>5

LEMMA AddedToQueue ==
    ASSUME NEW S, NEW q \in Seq(S), NEW t \in S, \A i, k \in DOMAIN q : q[i] = q[k] => i = k,
           \A i \in DOMAIN q : q[i] # t
    PROVE  /\ Append(q, t) \in Seq(S)
           /\ \A i, k \in DOMAIN Append(q, t) : Append(q, t)[i] = Append(q, t)[k] => i = k
           /\ \A i \in DOMAIN Append(q, t) :
                Append(q, t)[i] = t \/ (i \in DOMAIN q /\ Append(q, t)[i] = q[i])
           /\ \E i \in DOMAIN Append(q, t) : Append(q, t)[i] = t
           /\ \A i \in DOMAIN q : i \in DOMAIN Append(q, t) /\ Append(q, t)[i] = q[i]
<1>1. /\ Len(q) \in Nat /\ DOMAIN q = 1 .. Len(q)
      /\ Append(q, t) \in Seq(S) /\ DOMAIN Append(q, t) = 1 .. Len(q) + 1
      /\ Append(q, t)[Len(q) + 1] = t
      /\ \A i \in 1 .. Len(q) : Append(q, t)[i] = q[i]
  OBVIOUS
<1>2. \A i \in DOMAIN Append(q, t) : i = Len(q) + 1 \/ i \in DOMAIN q
  BY <1>1
<1>3. Len(q) + 1 \in DOMAIN Append(q, t) /\ \A i \in DOMAIN q : i \in DOMAIN Append(q, t)
  BY <1>1
<1>4. \A i, k \in DOMAIN Append(q, t) : Append(q, t)[i] = Append(q, t)[k] => i = k
  BY <1>1, <1>2
<1>5. QED
  BY <1>1, <1>2, <1>3, <1>4

\* A worker of the pool takes the oldest job.
LEMMA TakeKeeps == PipeInv /\ TakeJob => PipeInv'
<1> SUFFICES ASSUME PipeInv, TakeJob PROVE PipeInv'
  OBVIOUS
<1> DEFINE t == Head(queue)
<1>0. Rest /\ Typed /\ QueueMatches
  BY InvParts DEF Rest
<1>1. /\ queue \in Seq(PoolJob) /\ queue # <<>>
      /\ \A i, k \in DOMAIN queue : queue[i] = queue[k] => i = k
  BY <1>0 DEF TakeJob, QueueMatches
<1>2. t \in PoolJob /\ t \in Thread /\ t # "pending" /\ job[t] = "queued"
  <2>1. t \in PoolJob /\ 1 \in DOMAIN queue /\ t = queue[1]
    BY <1>1, TakenFromQueue
  <2>2. QED
    BY <1>0, <2>1, Threads DEF QueueMatches
<1>3. PICK place : /\ Leave(t, live, place)
                   /\ t = "started" => place = "snapshot"
                   /\ t = "finalized" => place = "clip"
                   /\ t = "recheck" => IF RecheckDue(live) THEN place = "recapturing" ELSE place = "off"
  <2>1. Leave(t, live, CASE t = "started" -> "snapshot"
                         [] t = "finalized" -> "clip"
                         [] OTHER -> IF RecheckDue(live) THEN "recapturing" ELSE "off")
    BY DEF TakeJob
  <2> HIDE DEF t
  <2>2. QED
    BY <1>2, <2>1, Threads
<1>4. queue' = Tail(queue) /\ UNCHANGED <<up, armed, online, age, current, disk, reached, upsets, faults>>
  BY DEF TakeJob
<1> HIDE DEF t
<1>5. JobStep(t, live, place)
  BY <1>0, <1>2, <1>3, <1>4, LeaveMoves DEF JobStep
<1>6. Mine(t) = live /\ Alike(live, live)
  BY <1>0, <1>2 DEF Mine, Alike, Typed
<1>7. place \in PlacesOf(t) \ {"queued", "asking", "sending", "sent"}
  BY <1>2, <1>3, Threads DEF PlacesOf, StartedPlaces, RecheckPlaces, FinalizedPlaces
<1>8. t = "recheck" => place = "off" \/ (live.ai = "completed" /\ live.person # "yes")
  BY <1>3 DEF RecheckDue
<1>9. Fits(t, live, place) /\ FitsOthers(t, live, place)
  BY <1>0, <1>2, <1>3, <1>6, <1>7, <1>8, PlainFits DEF FirstPlaces
<1>10. Rest'
  BY <1>0, <1>2, <1>5, <1>9, JobStepInv
<1>11. PICK q \in PlacesOf(t) \ {"queued"} : job'[t] = q /\ \A s \in Thread : s # t => job'[s] = job[s]
  BY <1>0, <1>2, <1>5, <1>9, JobStepEffect
<1>12. QueueMatches'
  <2>1. /\ Tail(queue) \in Seq(PoolJob)
        /\ \A i \in DOMAIN Tail(queue) :
             i + 1 \in DOMAIN queue /\ Tail(queue)[i] = queue[i + 1] /\ Tail(queue)[i] # t
        /\ \A i, k \in DOMAIN Tail(queue) : Tail(queue)[i] = Tail(queue)[k] => i = k
        /\ \A i \in DOMAIN queue : queue[i] # t => \E k \in DOMAIN Tail(queue) : Tail(queue)[k] = queue[i]
    BY <1>1, TakenFromQueue DEF t
  <2>2. ASSUME NEW i \in DOMAIN Tail(queue) PROVE job'[Tail(queue)[i]] = "queued"
    <3>1. PICK k \in DOMAIN queue : Tail(queue)[i] = queue[k] /\ queue[k] # t
      BY <2>1, <2>2
    <3>2. queue[k] \in Thread /\ job[queue[k]] = "queued"
      BY <1>0, <1>1, Threads DEF QueueMatches
    <3>3. QED
      BY <1>11, <3>1, <3>2
  <2>3. ASSUME NEW s \in PoolJob, job'[s] = "queued"
        PROVE  \E i \in DOMAIN Tail(queue) : Tail(queue)[i] = s
    <3>1. s # t /\ job[s] = "queued"
      BY <1>11, <2>3, Threads
    <3>2. PICK i \in DOMAIN queue : queue[i] = s
      BY <1>0, <3>1 DEF QueueMatches
    <3>3. QED
      BY <2>1, <3>1, <3>2
  <2>4. QED
    BY <1>4, <2>1, <2>2, <2>3 DEF QueueMatches
<1>13. QED
  BY <1>10, <1>12 DEF PipeInv, Rest

LEMMA SubmitKeepsQueue ==
    ASSUME Typed, QueueMatches, NEW t \in PoolJob, job[t] = "off", Submit(t)
    PROVE  /\ QueueMatches'
           /\ job' = [job EXCEPT ![t] = "queued"]
           /\ job'[t] = "queued" /\ \A s \in Thread : s # t => job'[s] = job[s]
<1>1. queue' = Append(queue, t) /\ job' = [job EXCEPT ![t] = "queued"]
  BY DEF Submit, Goes
<1>2. job'[t] = "queued" /\ \A s \in Thread : s # t => job'[s] = job[s]
  BY <1>1, Threads DEF Typed
<1>3. /\ queue \in Seq(PoolJob)
      /\ \A i, k \in DOMAIN queue : queue[i] = queue[k] => i = k
      /\ \A i \in DOMAIN queue : queue[i] \in PoolJob /\ queue[i] # t /\ job[queue[i]] = "queued"
  BY DEF QueueMatches
<1>4. /\ Append(queue, t) \in Seq(PoolJob)
      /\ \A i, k \in DOMAIN Append(queue, t) : Append(queue, t)[i] = Append(queue, t)[k] => i = k
      /\ \A i \in DOMAIN Append(queue, t) :
           Append(queue, t)[i] = t \/ (i \in DOMAIN queue /\ Append(queue, t)[i] = queue[i])
      /\ \E i \in DOMAIN Append(queue, t) : Append(queue, t)[i] = t
      /\ \A i \in DOMAIN queue : i \in DOMAIN Append(queue, t) /\ Append(queue, t)[i] = queue[i]
  BY <1>3, AddedToQueue
<1>5. \A i \in DOMAIN queue' : job'[queue'[i]] = "queued"
  BY <1>1, <1>2, <1>3, <1>4, Threads
<1>6. ASSUME NEW s \in PoolJob, job'[s] = "queued" PROVE \E i \in DOMAIN queue' : queue'[i] = s
  <2>1. CASE s = t
    BY <1>1, <1>4, <2>1
  <2>2. CASE s # t
    <3>1. job[s] = "queued"
      BY <1>2, <1>6, <2>2, Threads
    <3>2. PICK i \in DOMAIN queue : queue[i] = s
      BY <3>1 DEF QueueMatches
    <3>3. QED
      BY <1>1, <1>4, <3>2
  <2>3. QED
    BY <2>1, <2>2
<1>7. QED
  BY <1>1, <1>2, <1>4, <1>5, <1>6 DEF QueueMatches

-----------------------------------------------------------------------------
(* The controller, the pending worker's scan, users, time and power cuts   *)

LEMMA StartKeeps == PipeInv /\ StartEvent => PipeInv'
<1> SUFFICES ASSUME PipeInv, StartEvent PROVE PipeInv'
  OBVIOUS
<1>0. Rest /\ Typed /\ QueueMatches
  BY InvParts DEF Rest
<1>1. /\ up /\ age = "unborn" /\ age' = "young" /\ live' = NewEvent /\ disk' = NewEvent /\ Submit("started")
      /\ UNCHANGED <<up, armed, online, copy, reached, upsets, faults>>
  BY DEF StartEvent
<1>2. current' = TRUE
  BY Zenon DEF StartEvent
<1>3. PoolIdle /\ copy.status = "absent"
  BY <1>0, <1>1 DEF Rest, Lives
<1>4. job["pending"] = "off" /\ copy.status = "absent"
  BY <1>0, <1>3 DEF Rest, FinishedAgree, Finished
<1>5. job["started"] = "off" /\ job["recheck"] = "off" /\ job["finalized"] = "off"
  BY <1>3, Threads DEF PoolIdle
<1>6. /\ QueueMatches' /\ job' = [job EXCEPT !["started"] = "queued"]
      /\ job'["started"] = "queued" /\ \A s \in Thread : s # "started" => job'[s] = job[s]
  BY <1>0, <1>1, <1>5, Threads, SubmitKeepsQueue
<1>7. job'["recheck"] = "off" /\ job'["finalized"] = "off" /\ job'["pending"] = "off"
  BY <1>4, <1>5, <1>6, Threads
<1>8. Typed'
  <2>1. "queued" \in PlacesOf("started") /\ "queued" \in Place
    BY DEF PlacesOf, StartedPlaces, Place
  <2>2. current' \in BOOLEAN
    BY <1>2
  <2>3. age' \in Age
    BY <1>1 DEF Age
  <2>4. job' \in [Thread -> Place] /\ \A s \in Thread : job'[s] \in PlacesOf(s)
    BY <1>0, <1>6, <2>1, Threads DEF Typed
  <2>5. QED
    BY <1>0, <1>1, <2>2, <2>3, <2>4, BlankIsObject DEF Typed
<1>9. ChecksWithinBudget' /\ AskingHasBudget' /\ FirstLookIsAlone'
  <2>1. 0 < MaxChecks /\ 0 <= MaxChecks
    BY PipelineAssumption
  <2>2. ChecksWithinBudget'
    BY <1>0, <1>1, <2>1, BlankIsObject DEF Rest, ChecksWithinBudget
  <2>3. AskingHasBudget' /\ FirstLookIsAlone'
    BY <1>1, <1>6, <1>7, <2>1, BlankIsObject DEF AskingHasBudget, FirstLookIsAlone
  <2>4. QED
    BY <2>2, <2>3
<1>10. NotifiedMeansEveryone' /\ SentMeansEveryone' /\ ReleaseComes'
  BY <1>0, <1>1, <1>6, BlankIsObject DEF Rest, NotifiedMeansEveryone, SentMeansEveryone, ReleaseComes
<1>11. Lives' /\ FinishedAgree'
  BY <1>1, <1>2, <1>4, <1>7, BlankIsObject DEF Lives, FinishedAgree, Finished
<1>12. VerdictIsCertain'
  BY <1>1, <1>4, <1>5, <1>6, BlankIsObject, Threads DEF VerdictIsCertain, RecheckAsks
<1>13. QED
  BY <1>6, <1>8, <1>9, <1>10, <1>11, <1>12 DEF PipeInv

LEMMA SegmentKeeps == PipeInv /\ SaveSegment => PipeInv'
<1> SUFFICES ASSUME PipeInv, SaveSegment PROVE PipeInv'
  OBVIOUS
<1>1. current /\ disk' = live
      /\ UNCHANGED <<up, armed, online, age, current, live, copy, queue, job, reached, upsets, faults>>
  BY DEF SaveSegment
<1>2. live.status = "recording" /\ ~PoolIdle
  BY <1>1 DEF PipeInv, Lives, PoolIdle
<1>3. Typed' /\ QueueMatches' /\ ChecksWithinBudget' /\ NotifiedMeansEveryone'
  BY <1>1 DEF PipeInv, Typed, QueueMatches, ChecksWithinBudget, NotifiedMeansEveryone
<1>4. AskingHasBudget' /\ FirstLookIsAlone' /\ SentMeansEveryone' /\ ReleaseComes'
  BY <1>1 DEF PipeInv, AskingHasBudget, FirstLookIsAlone, SentMeansEveryone, ReleaseComes
<1>5. PoolIdle' <=> PoolIdle
  BY <1>1 DEF PoolIdle
<1>6. Lives' /\ FinishedAgree'
  BY <1>1, <1>2, <1>5 DEF PipeInv, Lives, FinishedAgree, Finished
<1>7. VerdictIsCertain'
  BY <1>1 DEF PipeInv, VerdictIsCertain
<1>8. QED
  BY <1>3, <1>4, <1>6, <1>7 DEF PipeInv

LEMMA RecheckSubmitKeeps == PipeInv /\ SubmitRecheck => PipeInv'
<1> SUFFICES ASSUME PipeInv, SubmitRecheck PROVE PipeInv'
  OBVIOUS
<1>1. current /\ job["recheck"] = "off" /\ Submit("recheck")
      /\ UNCHANGED <<up, armed, online, age, current, live, copy, disk, reached, upsets, faults>>
  BY DEF SubmitRecheck, At
<1>2. /\ QueueMatches' /\ job' = [job EXCEPT !["recheck"] = "queued"]
      /\ job'["recheck"] = "queued" /\ \A s \in Thread : s # "recheck" => job'[s] = job[s]
  BY <1>1, Threads, SubmitKeepsQueue DEF PipeInv
<1>3. Typed'
  <2>1. "queued" \in PlacesOf("recheck") /\ "queued" \in Place
    BY DEF PlacesOf, RecheckPlaces, Place
  <2>2. QED
    BY <1>1, <1>2, <2>1, Threads DEF PipeInv, Typed
<1>4. ChecksWithinBudget' /\ AskingHasBudget' /\ FirstLookIsAlone' /\ NotifiedMeansEveryone'
  BY <1>1, <1>2, Threads DEF PipeInv, ChecksWithinBudget, AskingHasBudget, FirstLookIsAlone, NotifiedMeansEveryone
<1>5. SentMeansEveryone' /\ ReleaseComes'
  BY <1>1, <1>2, Threads DEF PipeInv, SentMeansEveryone, ReleaseComes
<1>6. ~PoolIdle /\ ~PoolIdle'
  BY <1>1 DEF PoolIdle
<1>7. Lives' /\ FinishedAgree'
  BY <1>1, <1>2, <1>6, Threads DEF PipeInv, Lives, FinishedAgree
<1>8. VerdictIsCertain'
  BY <1>1, <1>2, Threads DEF PipeInv, VerdictIsCertain, RecheckAsks
<1>9. QED
  BY <1>2, <1>3, <1>4, <1>5, <1>7, <1>8 DEF PipeInv

LEMMA HandOverKeeps ==
    ASSUME PipeInv, current, HandOver,
           up' = up, armed' \in BOOLEAN, online' = online, age' = age, copy' = copy, reached' = reached,
           upsets' \in Nat
    PROVE  PipeInv'
<1>0. Typed /\ QueueMatches
  BY DEF PipeInv
<1>1. ~current'
  BY Zenon DEF HandOver
<1>2. live' = [live EXCEPT !.status = "finalizing"]
  BY DEF HandOver
<1>3. /\ live' \in Object /\ live'.status = "finalizing" /\ live'.checks = live.checks /\ live'.ai = live.ai
      /\ live'.notification = live.notification /\ live'.person = live.person
  BY <1>0, <1>2 DEF Typed, Object, Status
<1>4. live.status = "recording" /\ job["finalized"] = "off" /\ ~PoolIdle
  BY DEF PipeInv, Lives, PoolIdle
<1>5. disk.status \notin Finished /\ copy.status \notin Finished /\ job["pending"] = "off"
  BY <1>4 DEF PipeInv, FinishedAgree, Finished
<1>6. \/ disk' = live' /\ Submit("finalized") /\ faults' = faults
      \/ faults' = faults + 1 /\ disk' = disk /\ queue' = queue /\ job' = job
  BY DEF HandOver, SaveRaises
<1>7. /\ QueueMatches' /\ job' \in [Thread -> Place] /\ \A s \in Thread : job'[s] \in PlacesOf(s)
      /\ \A s \in Thread : s # "finalized" => job'[s] = job[s]
      /\ job'["finalized"] \in {"off", "queued"}
  <2>1. CASE Submit("finalized")
    <3>1. /\ QueueMatches' /\ job' = [job EXCEPT !["finalized"] = "queued"]
          /\ job'["finalized"] = "queued" /\ \A s \in Thread : s # "finalized" => job'[s] = job[s]
      BY <1>0, <1>4, <2>1, Threads, SubmitKeepsQueue
    <3>2. "queued" \in PlacesOf("finalized") /\ "queued" \in Place
      BY DEF PlacesOf, FinalizedPlaces, Place
    <3>3. QED
      BY <1>0, <3>1, <3>2, Threads DEF Typed
  <2>2. CASE queue' = queue /\ job' = job
    BY <1>0, <1>4, <2>2 DEF Typed, QueueMatches
  <2>3. QED
    BY <1>6, <2>1, <2>2
<1>8. disk' \in {disk, live'} /\ faults' \in Nat /\ (faults' = 0 => faults = 0)
  BY <1>0, <1>6 DEF Typed
<1>9. Typed'
  <2>1. current' = FALSE
    BY Zenon DEF HandOver
  <2>2. current' \in BOOLEAN
    BY <2>1
  <2>3. QED
    BY <1>0, <1>3, <1>7, <1>8, <2>2 DEF Typed
<1>10. ChecksWithinBudget' /\ NotifiedMeansEveryone'
  BY <1>3, <1>8 DEF PipeInv, ChecksWithinBudget, NotifiedMeansEveryone
<1>11. AskingHasBudget' /\ FirstLookIsAlone' /\ SentMeansEveryone' /\ ReleaseComes'
  BY <1>3, <1>7, <1>8, Threads
     DEF PipeInv, AskingHasBudget, FirstLookIsAlone, SentMeansEveryone, ReleaseComes
<1>12. Lives'
  <2>1. up /\ age # "unborn"
    BY <1>4 DEF PipeInv, Lives
  <2>2. QED
    BY <1>1, <2>1 DEF Lives
<1>13. FinishedAgree'
  BY <1>3, <1>5, <1>7, <1>8, Threads DEF PipeInv, FinishedAgree, Finished
<1>14. VerdictIsCertain'
  BY <1>0, <1>3, <1>4, <1>7, Threads DEF PipeInv, VerdictIsCertain
<1>15. QED
  BY <1>7, <1>9, <1>10, <1>11, <1>12, <1>13, <1>14 DEF PipeInv

\* The machine's timers and users end the event.
LEMMA EndKeeps == PipeInv /\ (FinalizeEvent \/ Disarm) => PipeInv'
<1> SUFFICES ASSUME PipeInv, FinalizeEvent \/ Disarm PROVE PipeInv'
  OBVIOUS
<1>0. Typed
  BY DEF PipeInv
<1>1. CASE FinalizeEvent
  BY <1>0, <1>1, HandOverKeeps DEF FinalizeEvent, Typed
<1>2. CASE Disarm
  <2>1. armed' = FALSE
    BY <1>2, Zenon DEF Disarm
  <2>2. upsets' \in Nat /\ armed' \in BOOLEAN
    <3>1. upsets' \in Nat
      BY <1>0, <1>2 DEF Disarm, Happens, Typed
    <3>2. armed' \in BOOLEAN
      BY <2>1
    <3>3. QED
      BY <3>1, <3>2
  <2>3. UNCHANGED <<up, online, age, copy, reached>>
    BY <1>2 DEF Disarm
  <2>4. CASE current
    BY <1>2, <2>2, <2>3, <2>4, HandOverKeeps DEF Disarm
  <2>5. CASE ~current
    <3>1. UNCHANGED <<current, live, disk, queue, job, faults>>
      BY <1>2, <2>5 DEF Disarm
    <3>2. Typed' /\ QueueMatches' /\ ChecksWithinBudget' /\ NotifiedMeansEveryone'
      BY <2>2, <2>3, <3>1 DEF PipeInv, Typed, QueueMatches, ChecksWithinBudget, NotifiedMeansEveryone
    <3>3. AskingHasBudget' /\ FirstLookIsAlone' /\ SentMeansEveryone' /\ ReleaseComes'
      BY <2>2, <2>3, <3>1 DEF PipeInv, AskingHasBudget, FirstLookIsAlone, SentMeansEveryone, ReleaseComes
    <3>4. PoolIdle' <=> PoolIdle
      BY <3>1 DEF PoolIdle
    <3>5. Lives' /\ FinishedAgree'
      BY <2>3, <3>1, <3>4 DEF PipeInv, Lives, FinishedAgree
    <3>6. VerdictIsCertain'
      BY <2>3, <3>1 DEF PipeInv, VerdictIsCertain
    <3>7. QED
      BY <3>2, <3>3, <3>5, <3>6 DEF PipeInv
  <2>6. QED
    BY <2>4, <2>5
<1>3. QED
  BY <1>1, <1>2

\* Steps of the surroundings leave the jobs and their objects alone.
LEMMA SurroundingsKeep == PipeInv /\ (Arm \/ GrowOlder \/ GoOffline \/ GoOnline \/ UNCHANGED vars) => PipeInv'
<1> SUFFICES ASSUME PipeInv, Arm \/ GrowOlder \/ GoOffline \/ GoOnline \/ UNCHANGED vars PROVE PipeInv'
  OBVIOUS
<1>1. UNCHANGED <<up, current, live, copy, disk, queue, job, reached, faults>>
  BY DEF Arm, GrowOlder, GoOffline, GoOnline, vars
<1>2. armed' \in BOOLEAN /\ online' \in BOOLEAN
  <2>1. armed' = TRUE \/ armed' = armed
    BY Zenon DEF Arm, GrowOlder, GoOffline, GoOnline, vars
  <2>2. online' = TRUE \/ online' = FALSE \/ online' = online
    BY Zenon DEF Arm, GrowOlder, GoOffline, GoOnline, vars
  <2>3. QED
    BY <2>1, <2>2 DEF PipeInv, Typed
<1>3. age' \in Age /\ (age' = "unborn" => age = "unborn") /\ upsets' \in Nat
  <2>1. age' = age \/ age' = "old"
    BY DEF Arm, GrowOlder, GoOffline, GoOnline, vars
  <2>2. upsets' = upsets \/ upsets' = upsets + 1
    BY DEF Arm, GrowOlder, GoOffline, GoOnline, Happens, vars
  <2>3. QED
    BY <2>1, <2>2 DEF PipeInv, Typed, Age
<1>4. Typed' /\ QueueMatches' /\ ChecksWithinBudget' /\ NotifiedMeansEveryone'
  BY <1>1, <1>2, <1>3 DEF PipeInv, Typed, QueueMatches, ChecksWithinBudget, NotifiedMeansEveryone
<1>5. AskingHasBudget' /\ FirstLookIsAlone' /\ SentMeansEveryone' /\ ReleaseComes'
  BY <1>1 DEF PipeInv, AskingHasBudget, FirstLookIsAlone, SentMeansEveryone, ReleaseComes
<1>6. PoolIdle' <=> PoolIdle
  BY <1>1 DEF PoolIdle
<1>7. Lives' /\ FinishedAgree'
  BY <1>1, <1>3, <1>6 DEF PipeInv, Lives, FinishedAgree
<1>8. VerdictIsCertain'
  BY <1>1 DEF PipeInv, VerdictIsCertain
<1>9. QED
  BY <1>4, <1>5, <1>7, <1>8 DEF PipeInv

\* What the passing of a retry time and the loss of the frames do to an object.
Tended(o, m) ==
    /\ o \in Object
    /\ o.status = m.status /\ o.checks = m.checks /\ o.person = m.person
    /\ o.ai = m.ai \/ o.ai = "pending"
    /\ o.notification = m.notification \/ o.notification = "pending"

LEMMA Tending ==
    ASSUME NEW m \in Object
    PROVE  /\ \A task \in Tasks : Tended(Elapsed(m, task), m)
           /\ Tended([m EXCEPT !.frames = FALSE], m)
           /\ Tended(m, m)
<1> DEFINE Later(v) == IF v = "waiting" THEN "pending" ELSE v
<1>1. /\ Elapsed(m, "recording") = [m EXCEPT !.recording = Later(m.recording)]
      /\ Elapsed(m, "ai") = [m EXCEPT !.ai = Later(m.ai)]
      /\ Elapsed(m, "notification") = [m EXCEPT !.notification = Later(m.notification)]
  BY DEF Elapsed
<1>2. /\ Later(m.recording) \in TaskState /\ Later(m.ai) \in TaskState
      /\ Later(m.notification) \in TaskState \cup SkipReason
      /\ Later(m.ai) = m.ai \/ Later(m.ai) = "pending"
      /\ Later(m.notification) = m.notification \/ Later(m.notification) = "pending"
  BY DEF Object, TaskState
<1> HIDE DEF Later
<1>3. Tended([m EXCEPT !.recording = Later(m.recording)], m)
  <2>1. LET o == [m EXCEPT !.recording = Later(m.recording)] IN Alike(o, m) /\ o.status = m.status
    <3>1. TRUE \in BOOLEAN
      OBVIOUS
    <3>2. QED
      BY <1>2, <3>1, ObjectChanges
  <2>2. QED
    BY <1>2, <2>1 DEF Tended, Alike
<1>4. Tended([m EXCEPT !.ai = Later(m.ai)], m)
  BY <1>2, VerdictChanges DEF Tended
<1>5. Tended([m EXCEPT !.notification = Later(m.notification)], m)
  BY <1>2, NotificationChanges DEF Tended
<1>6. Tended([m EXCEPT !.frames = FALSE], m)
  <2>1. LET o == [m EXCEPT !.frames = FALSE] IN Alike(o, m) /\ o.status = m.status
    <3>1. FALSE \in BOOLEAN /\ "pending" \in TaskState
      BY DEF TaskState
    <3>2. QED
      BY <3>1, ObjectChanges
  <2>2. QED
    BY <2>1 DEF Tended, Alike
<1>7. Tended(m, m)
  BY DEF Tended
<1>8. QED
  BY <1>1, <1>3, <1>4, <1>5, <1>6, <1>7 DEF Tasks

LEMMA TendedKeeps ==
    ASSUME PipeInv, Tended(live', live), Tended(copy', copy),
           Tended(disk', disk) \/ disk' = Blank,
           UNCHANGED <<up, armed, online, age, current, queue, job, reached, faults>>,
           upsets' \in Nat
    PROVE  PipeInv'
<1>1. Typed' /\ QueueMatches'
  BY BlankIsObject DEF PipeInv, Typed, QueueMatches, Tended
<1>2. ChecksWithinBudget'
  <2>1. live'.checks <= MaxChecks /\ copy'.checks <= MaxChecks
    BY DEF PipeInv, ChecksWithinBudget, Tended
  <2>2. disk'.checks <= MaxChecks
    <3>1. 0 <= MaxChecks
      BY PipelineAssumption
    <3>2. QED
      BY <3>1, BlankIsObject DEF PipeInv, ChecksWithinBudget, Tended
  <2>3. QED
    BY <2>1, <2>2 DEF ChecksWithinBudget
<1>3. NotifiedMeansEveryone' /\ SentMeansEveryone'
  BY BlankIsObject DEF PipeInv, NotifiedMeansEveryone, SentMeansEveryone, Tended
<1>4. AskingHasBudget' /\ FirstLookIsAlone' /\ ReleaseComes'
  BY DEF PipeInv, AskingHasBudget, FirstLookIsAlone, ReleaseComes, Tended
<1>5. PoolIdle' <=> PoolIdle
  BY DEF PoolIdle
<1>6. disk'.status \in {disk.status, "absent"} /\ live'.status = live.status /\ copy'.status = copy.status
  BY BlankIsObject DEF Tended
<1>7. Lives' /\ FinishedAgree'
  BY <1>5, <1>6 DEF PipeInv, Lives, FinishedAgree, Finished, Tended
<1>8. VerdictIsCertain'
  BY DEF PipeInv, VerdictIsCertain, Tended
<1>9. QED
  BY <1>1, <1>2, <1>3, <1>4, <1>7, <1>8 DEF PipeInv

LEMMA TimeKeeps ==
    ASSUME PipeInv, NEW task \in Tasks, RetryTimePasses(task) \/ Delete
    PROVE  PipeInv'
<1>0. live \in Object /\ copy \in Object /\ disk \in Object /\ upsets \in Nat
  BY DEF PipeInv, Typed
<1>1. CASE RetryTimePasses(task)
  <2>1. /\ live' = Elapsed(live, task) /\ copy' = Elapsed(copy, task) /\ disk' = Elapsed(disk, task)
        /\ UNCHANGED <<up, armed, online, age, current, queue, job, reached, faults>> /\ upsets' = upsets
    BY <1>1 DEF RetryTimePasses
  <2>2. QED
    BY <1>0, <2>1, Tending, TendedKeeps
<1>2. CASE Delete
  <2>1. /\ live' = [live EXCEPT !.frames = FALSE] /\ copy' = [copy EXCEPT !.frames = FALSE] /\ disk' = Blank
        /\ UNCHANGED <<up, armed, online, age, current, queue, job, reached, faults>> /\ upsets' \in Nat
    BY <1>0, <1>2 DEF Delete, Happens
  <2>2. QED
    BY <1>0, <2>1, Tending, TendedKeeps
<1>3. QED
  BY <1>1, <1>2

\* The pending worker loads an object of its own, for which it has something to do.
LEMMA ScanKeeps == PipeInv /\ Scan => PipeInv'
<1> SUFFICES ASSUME PipeInv, Scan PROVE PipeInv'
  OBVIOUS
<1>1. /\ up /\ job["pending"] = "off" /\ HasWork(disk) /\ copy' = disk
      /\ UNCHANGED <<up, armed, online, age, current, live, disk, queue, reached, upsets, faults>>
  BY DEF Scan, At
<1>2. PICK place \in Onward(disk, 1) : job' = [job EXCEPT !["pending"] = place]
  BY DEF Scan, Goes
<1>3. place \in {"clip", "snapshot", "frames", "notify"}
  <2>1. Order[1] = "clip" /\ Order[2] = "snapshot" /\ Order[3] = "frames" /\ Order[4] = "notify"
        /\ Order[5] = "off" /\ Len(Order) = 5
    BY DEF Order
  <2>2. PICK i \in 1 .. 5 : place = Order[i] /\ \A n \in 1 .. i - 1 : MayPass(disk, Order[n])
    BY <2>1 DEF Onward
  <2>3. ~(MayPass(disk, "clip") /\ MayPass(disk, "frames") /\ MayPass(disk, "notify"))
    BY <1>1 DEF HasWork, MayPass, Wants
  <2>4. i # 5
    BY <2>1, <2>2, <2>3
  <2>5. QED
    BY <2>1, <2>2, <2>4
<1>4. /\ place \in PlacesOf("pending") /\ place \in Place
  BY <1>3 DEF PlacesOf, PendingPlaces, Place, AtWork
<1>5. job'["pending"] = place /\ \A s \in Thread : s # "pending" => job'[s] = job[s]
  BY <1>2, Threads DEF PipeInv, Typed
<1>6. disk.status \in Finished
  BY <1>1 DEF HasWork, Finished
<1>7. Typed'
  BY <1>1, <1>2, <1>4, <1>5, Threads DEF PipeInv, Typed
<1>8. QueueMatches'
  <2>1. \A i \in DOMAIN queue : queue[i] \in PoolJob
    BY DEF PipeInv, QueueMatches
  <2>2. QED
    BY <1>1, <1>5, <2>1, Threads DEF PipeInv, QueueMatches
<1>9. ChecksWithinBudget' /\ NotifiedMeansEveryone'
  BY <1>1 DEF PipeInv, ChecksWithinBudget, NotifiedMeansEveryone
<1>10. AskingHasBudget' /\ FirstLookIsAlone' /\ SentMeansEveryone' /\ ReleaseComes'
  BY <1>1, <1>3, <1>5, Threads DEF PipeInv, AskingHasBudget, FirstLookIsAlone, SentMeansEveryone, ReleaseComes
<1>11. PoolIdle' <=> PoolIdle
  BY <1>1, <1>5, Threads DEF PoolIdle
<1>12. Lives' /\ FinishedAgree'
  BY <1>1, <1>3, <1>5, <1>6, <1>11, Threads DEF PipeInv, Lives, FinishedAgree, Finished
<1>13. VerdictIsCertain'
  BY <1>1, <1>3, <1>5, Threads DEF PipeInv, VerdictIsCertain
<1>14. QED
  BY <1>7, <1>8, <1>9, <1>10, <1>12, <1>13 DEF PipeInv

\* The power fails, and systemd starts the service again.
LEMMA PowerKeeps == PipeInv /\ (Crash \/ Restart) => PipeInv'
<1> SUFFICES ASSUME PipeInv, Crash \/ Restart PROVE PipeInv'
  OBVIOUS
<1>0. 0 <= MaxChecks /\ "absent" \notin Finished
  BY PipelineAssumption DEF Finished
<1>1. CASE Crash
  <2>1. /\ live' = Blank /\ copy' = Blank /\ queue' = <<>> /\ job' = [t \in Thread |-> "off"]
        /\ UNCHANGED <<armed, online, age, disk, reached, faults>> /\ upsets' \in Nat
    BY <1>1 DEF Crash, Happens, PipeInv, Typed
  <2>2. up' = FALSE /\ current' = FALSE
    BY <1>1, Zenon DEF Crash
  <2>3. up' \in BOOLEAN /\ current' \in BOOLEAN /\ ~current' /\ ~up'
    BY <2>2
  <2>4. \A t \in Thread : job'[t] = "off"
    BY <2>1
  <2>5. PoolIdle'
    BY <2>3, <2>4, Threads DEF PoolIdle
  <2>6. Typed'
    <3>1. job' \in [Thread -> Place]
      BY <2>1 DEF Place
    <3>2. QED
      BY <2>1, <2>3, <2>4, <3>1, PlacesArePlaces, BlankIsObject DEF PipeInv, Typed
  <2>7. QueueMatches'
    BY <2>1, <2>4, Threads DEF QueueMatches
  <2>8. ChecksWithinBudget' /\ NotifiedMeansEveryone'
    BY <1>0, <2>1, BlankIsObject DEF PipeInv, ChecksWithinBudget, NotifiedMeansEveryone
  <2>9. AskingHasBudget' /\ FirstLookIsAlone' /\ SentMeansEveryone' /\ ReleaseComes'
    BY <2>1, <2>4, BlankIsObject, Threads
       DEF AskingHasBudget, FirstLookIsAlone, SentMeansEveryone, ReleaseComes, FirstPlaces
  <2>10. Lives' /\ FinishedAgree'
    BY <2>1, <2>3, <2>4, <2>5, BlankIsObject, Threads DEF PipeInv, Lives, FinishedAgree, Finished
  <2>11. VerdictIsCertain'
    BY <2>1, <2>4, BlankIsObject, Threads DEF VerdictIsCertain, RecheckAsks
  <2>12. QED
    BY <2>6, <2>7, <2>8, <2>9, <2>10, <2>11 DEF PipeInv
<1>2. CASE Restart
  <2> DEFINE d == IF Active(disk) THEN [disk EXCEPT !.status = "interrupted"] ELSE disk
  <2>1. /\ ~up /\ disk' = d
        /\ UNCHANGED <<armed, online, age, current, live, copy, queue, job, reached, upsets, faults>>
    BY <1>2 DEF Restart
  <2>2. up' = TRUE
    BY <1>2, Zenon DEF Restart
  <2>3. /\ d \in Object /\ d.checks = disk.checks /\ d.notification = disk.notification
        /\ d.status = disk.status \/ (d.status = "interrupted" /\ disk.status # "absent")
    BY DEF PipeInv, Typed, Object, Status, Active
  <2> HIDE DEF d
  <2>4. PoolIdle /\ job["pending"] = "off" /\ copy.status = "absent"
    BY <2>1 DEF PipeInv, Lives, FinishedAgree
  <2>5. PoolIdle'
    BY <2>1, <2>4 DEF PoolIdle
  <2>6. Typed' /\ QueueMatches'
    <3>1. up' \in BOOLEAN
      BY <2>2
    <3>2. QED
      BY <2>1, <2>3, <3>1 DEF PipeInv, Typed, QueueMatches
  <2>7. ChecksWithinBudget' /\ NotifiedMeansEveryone'
    BY <2>1, <2>3 DEF PipeInv, ChecksWithinBudget, NotifiedMeansEveryone
  <2>8. AskingHasBudget' /\ FirstLookIsAlone' /\ SentMeansEveryone' /\ ReleaseComes'
    BY <2>1 DEF PipeInv, AskingHasBudget, FirstLookIsAlone, SentMeansEveryone, ReleaseComes
  <2>9. Lives' /\ FinishedAgree'
    <3>1. Lives'
      BY <2>1, <2>2, <2>3, <2>4, <2>5 DEF PipeInv, Lives, PoolIdle
    <3>2. FinishedAgree'
      BY <2>1, <2>4, <2>5, BlankIsObject DEF PipeInv, FinishedAgree
    <3>3. QED
      BY <3>1, <3>2
  <2>10. VerdictIsCertain'
    BY <2>1 DEF PipeInv, VerdictIsCertain
  <2>11. QED
    BY <2>6, <2>7, <2>8, <2>9, <2>10 DEF PipeInv
<1>3. QED
  BY <1>1, <1>2

-----------------------------------------------------------------------------
(* Every step keeps the invariant                                          *)

\* What does not change metadata.json.
LEMMA SameDiskStaysFinished == disk' = disk => StaysFinished
BY DEF StaysFinished

LEMMA OthersStayFinished ==
    /\ PipeInv /\ StartEvent => StaysFinished
    /\ PipeInv /\ SaveSegment => StaysFinished
    /\ PipeInv /\ (FinalizeEvent \/ Disarm) => StaysFinished
    /\ PipeInv /\ (Crash \/ Restart) => StaysFinished
<1>1. PipeInv /\ StartEvent => StaysFinished
  BY DEF StartEvent, PipeInv, Lives, StaysFinished, Finished
<1>2. PipeInv /\ current => disk.status \notin Finished
  BY DEF PipeInv, Lives, FinishedAgree, PoolIdle, Finished
<1>3. PipeInv /\ SaveSegment => StaysFinished
  BY <1>2 DEF SaveSegment, StaysFinished
<1>4. PipeInv /\ (FinalizeEvent \/ Disarm) => StaysFinished
  BY <1>2 DEF FinalizeEvent, Disarm, StaysFinished
<1>5. PipeInv /\ (Crash \/ Restart) => StaysFinished
  BY DEF Crash, Restart, Active, StaysFinished, Finished
<1>6. QED
  BY <1>1, <1>3, <1>4, <1>5

\* The other actions: the controller hands its event over together with the job, and
\* recover_interrupted leaves none that is unfinished.
LEMMA OthersStayInHand ==
    ASSUME PipeInv,
           \/ TakeJob \/ Scan \/ StartEvent \/ SaveSegment \/ SubmitRecheck \/ FinalizeEvent \/ Disarm
           \/ Arm \/ Delete \/ GrowOlder \/ GoOffline \/ GoOnline \/ Crash \/ Restart \/ UNCHANGED vars
           \/ \E t \in Thread : Send(t)
           \/ \E task \in Tasks : RetryTimePasses(task)
    PROVE  StaysInHand
<1> SUFFICES ASSUME InHand PROVE InHand'
  BY DEF StaysInHand
<1>0. Typed /\ QueueMatches /\ Rest
  BY InvParts DEF PipeInv
<1>1. ASSUME UNCHANGED <<up, faults, current>>, disk'.status = disk.status, live'.status = live.status,
             job["finalized"] # "off" => job'["finalized"] # "off"
      PROVE  InHand'
  BY <1>1 DEF InHand, Held
<1>2. CASE Arm \/ GrowOlder \/ GoOffline \/ GoOnline \/ UNCHANGED vars
  <2>1. UNCHANGED <<up, faults, current, disk, live, job>>
    BY <1>2 DEF Arm, GrowOlder, GoOffline, GoOnline, vars
  <2> QED
    BY <1>1, <2>1
<1>3. CASE \E t \in Thread : Send(t)
  <2>1. PICK t \in Thread, q \in {"sent", "unsent"} : job' = [job EXCEPT ![t] = q]
    BY <1>3 DEF Send, Goes
  <2>2. UNCHANGED <<up, faults, current, disk, live>>
    BY <1>3 DEF Send
  <2> QED
    BY <1>0, <1>1, <2>1, <2>2, Threads DEF Typed
<1>4. CASE \E task \in Tasks : RetryTimePasses(task)
  <2>1. PICK task \in Tasks : RetryTimePasses(task)
    BY <1>4
  <2>2. live' = Elapsed(live, task) /\ disk' = Elapsed(disk, task) /\ live \in Object /\ disk \in Object
        /\ UNCHANGED <<up, faults, current, job>>
    BY <1>0, <2>1 DEF RetryTimePasses, Typed
  <2>3. live'.status = live.status /\ disk'.status = disk.status
    BY <2>2, Tending DEF Tended
  <2> QED
    BY <1>1, <2>2, <2>3
<1>5. CASE Delete
  <2>1. disk' = Blank /\ live'.status = live.status /\ UNCHANGED <<up, faults, current, job>>
    BY <1>0, <1>5 DEF Delete, Typed, Object
  <2> QED
    BY <2>1, BlankIsObject DEF InHand, Held
<1>6. CASE SaveSegment
  BY <1>6 DEF SaveSegment, InHand, Held
<1>7. CASE Scan
  <2>1. PICK q : job' = [job EXCEPT !["pending"] = q]
    BY <1>7 DEF Scan, Goes
  <2>2. UNCHANGED <<up, faults, current, disk, live>>
    BY <1>7 DEF Scan
  <2> QED
    BY <1>0, <1>1, <2>1, <2>2, Threads DEF Typed
<1>8. CASE SubmitRecheck
  BY <1>0, <1>1, <1>8, Threads DEF SubmitRecheck, Submit, Goes, Typed
<1>9. CASE StartEvent
  <2>1. current' = TRUE
    BY <1>9, Zenon DEF StartEvent
  <2> QED
    BY <1>9, <2>1, BlankIsObject DEF StartEvent, InHand, Held
<1>10. ASSUME HandOver, up, UNCHANGED up
       PROVE  InHand'
  <2>1. live' = [live EXCEPT !.status = "finalizing"] /\ live \in Object
    BY <1>0, <1>10 DEF HandOver, Typed
  <2>2. CASE disk' = live' /\ job' = [job EXCEPT !["finalized"] = "queued"]
    BY <1>0, <1>10, <2>1, <2>2, Threads DEF InHand, Held, Typed, Object
  <2>3. CASE faults' = faults + 1
    BY <1>0, <1>10, <2>3 DEF InHand, Typed
  <2> QED
    BY <1>10, <2>2, <2>3 DEF HandOver, SaveRaises, Submit, Goes
<1>11. CASE FinalizeEvent
  <2>1. up
    BY <1>0, <1>11 DEF FinalizeEvent, Rest, Lives, PoolIdle
  <2> QED
    BY <1>10, <1>11, <2>1 DEF FinalizeEvent
<1>12. CASE Disarm
  <2>1. up /\ UNCHANGED up /\ (HandOver \/ UNCHANGED <<current, live, disk, queue, job, faults>>)
    BY <1>12 DEF Disarm
  <2> QED
    BY <1>1, <1>10, <2>1
<1>13. CASE Crash
  <2>1. up' = FALSE
    BY <1>13, Zenon DEF Crash
  <2>2. live' = Blank
    BY <1>13 DEF Crash
  <2> QED
    BY <2>1, <2>2, BlankIsObject DEF InHand
<1>14. CASE Restart
  <2>1. UNCHANGED live /\ live.status = "absent"
    BY <1>14 DEF Restart, InHand
  <2>2. up' = TRUE
    BY <1>14, Zenon DEF Restart
  <2>3. disk'.status # "recording" /\ disk'.status # "finalizing"
    BY <1>0, <1>14 DEF Restart, Active, Typed, Object
  <2> QED
    BY <2>1, <2>2, <2>3 DEF InHand, Held
<1>15. CASE TakeJob
  <2> DEFINE t == Head(queue)
  <2>1. t \in PoolJob /\ job[t] = "queued" /\ t \in Thread
    <3>1. t \in PoolJob /\ 1 \in DOMAIN queue /\ t = queue[1]
      BY <1>0, <1>15, TakenFromQueue DEF TakeJob, QueueMatches
    <3> QED
      BY <1>0, <3>1, Threads DEF QueueMatches
  <2>2. PICK place : Leave(t, live, place) /\ (t = "finalized" => place = "clip")
    <3>1. Leave(t, live, CASE t = "started" -> "snapshot"
                           [] t = "finalized" -> "clip"
                           [] OTHER -> IF RecheckDue(live) THEN "recapturing" ELSE "off")
      BY <1>15 DEF TakeJob
    <3> HIDE DEF t
    <3> QED
      BY <2>1, <3>1
  <2>3. UNCHANGED <<up, faults, current, disk>>
    BY <1>15 DEF TakeJob
  <2> HIDE DEF t
  <2>4. job' = [job EXCEPT ![t] = place] /\ live' \in {live, Blank}
    BY <2>1, <2>2, Threads DEF Leave, Goes
  <2>5. job["finalized"] # "off" => job'["finalized"] # "off"
    BY <1>0, <2>1, <2>2, <2>4, Threads DEF Typed
  <2> QED
    BY <2>3, <2>4, <2>5, BlankIsObject DEF InHand, Held
<1> QED
  BY <1>2, <1>3, <1>4, <1>5, <1>6, <1>7, <1>8, <1>9, <1>11, <1>12, <1>13, <1>14, <1>15

LEMMA PipeStep == PipeInv /\ [Next]_vars => Kept
<1> SUFFICES ASSUME PipeInv, [Next]_vars PROVE Kept
  OBVIOUS
<1>1. CASE TakeJob
  BY <1>1, TakeKeeps, SameDiskStaysFinished, OthersStayInHand DEF TakeJob, Kept
<1>2. CASE Recheck
  BY <1>2, Threads, SnapshotKeeps, AnalysisKeeps, NotifyKeeps DEF Recheck
<1>3. CASE Finalization
  BY <1>3, Threads, ClipKeeps DEF Finalization
<1>4. ASSUME NEW t \in Thread, Work(t) PROVE Kept
  <2>1. CASE Send(t)
    BY <2>1, SendKeeps, SameDiskStaysFinished, OthersStayInHand DEF Send, Kept
  <2>2. QED
    BY <1>4, <2>1, ClipKeeps, SnapshotKeeps, AnalysisKeeps, NotifyKeeps DEF Work
<1>5. CASE Scan
  BY <1>5, ScanKeeps, SameDiskStaysFinished, OthersStayInHand DEF Scan, Kept
<1>6. CASE StartEvent \/ SaveSegment \/ FinalizeEvent \/ Disarm
  BY <1>6, StartKeeps, SegmentKeeps, EndKeeps, OthersStayFinished, OthersStayInHand DEF Kept
<1>7. CASE SubmitRecheck
  BY <1>7, RecheckSubmitKeeps, SameDiskStaysFinished, OthersStayInHand DEF SubmitRecheck, Kept
<1>8. CASE Arm \/ GrowOlder \/ GoOffline \/ GoOnline \/ UNCHANGED vars
  <2>1. disk' = disk
    BY <1>8 DEF Arm, GrowOlder, GoOffline, GoOnline, vars
  <2>2. QED
    BY <1>8, <2>1, SurroundingsKeep, SameDiskStaysFinished, OthersStayInHand DEF Kept
<1>9. CASE Delete
  <2>1. "ai" \in Tasks
    BY DEF Tasks
  <2>2. StaysFinished
    BY <1>9, BlankIsObject DEF Delete, StaysFinished
  <2>3. QED
    BY <1>9, <2>1, <2>2, TimeKeeps, OthersStayInHand DEF Kept
<1>10. ASSUME NEW task \in Tasks, RetryTimePasses(task) PROVE Kept
  <2>1. disk' = Elapsed(disk, task) /\ disk \in Object
    BY <1>10 DEF RetryTimePasses, PipeInv, Typed
  <2>2. disk'.status = disk.status
    BY <2>1, Tending DEF Tended
  <2>3. QED
    BY <1>10, <2>2, TimeKeeps, OthersStayInHand DEF Kept, StaysFinished
<1>11. CASE Crash \/ Restart
  BY <1>11, PowerKeeps, OthersStayFinished, OthersStayInHand DEF Kept
<1>12. QED
  BY <1>1, <1>2, <1>3, <1>4, <1>5, <1>6, <1>7, <1>8, <1>9, <1>10, <1>11 DEF Next

LEMMA PipeAlways == Spec => [](PipeInv /\ InHand)
<1>1. PipeInv /\ InHand /\ [Next]_vars => (PipeInv /\ InHand)'
  BY PipeStep DEF Kept, StaysInHand
<1>2. Init => InHand
  <2>1. Init => up
    BY Zenon DEF Init
  <2>2. Init => live.status = "absent" /\ disk.status = "absent"
    BY BlankIsObject DEF Init
  <2> QED
    BY <2>1, <2>2 DEF InHand, Held
<1>3. QED
  BY <1>1, <1>2, PipeInit, PTL DEF Spec

-----------------------------------------------------------------------------
(* The theorems                                                            *)

\* The state of the pipeline is always of its type; no job is queued twice.
THEOREM PipelineTyped == Spec => []TypeOK
<1>1. PipeInv => TypeOK
  BY InvGivesTypes DEF PipeInv
<1>2. QED
  BY <1>1, PipeAlways, PTL

\* However the first look, the re-checks and the pending worker interleave, fail and are
\* interrupted, no Event object counts more verdicts than ai.max_checks (_ask_ai).
THEOREM ChecksStayWithinBudget == Spec => []ChecksWithinBudget
<1>1. PipeInv => ChecksWithinBudget
  BY DEF PipeInv
<1>2. QED
  BY <1>1, PipeAlways, PTL

\* A notification is marked completed only when every recipient has had the alarm, over all
\* partial failures, retries, restarts and second copies of the event (_notify).
THEOREM NotifiedIsEveryone == Spec => []NotifiedMeansEveryone
<1>1. PipeInv => NotifiedMeansEveryone
  BY DEF PipeInv
<1>2. QED
  BY <1>1, PipeAlways, PTL

\* Once a re-check that found a person is through, the notification is not suppressed for
\* want of a person, whatever on_event_started did meanwhile (recheck).
THEOREM RecheckHasReleased == Spec => []RecheckReleases
<1>1. PipeInv => RecheckReleases
  BY DEF PipeInv, ReleaseComes, RecheckReleases, At
<1>2. QED
  BY <1>1, PipeAlways, PTL

\* Until a save fails, every unfinished event is in somebody's hands, the controller's or its
\* job's, whatever is interrupted, deleted or restarted: none is left for the pending worker,
\* which would pass it over for ever (pending, recover_interrupted).
THEOREM NoneIsLeftUnfinished == Spec => []UnfinishedIsInHand
<1>1. InHand => UnfinishedIsInHand
  BY DEF InHand, Held, UnfinishedIsInHand, At
<1>2. QED
  BY <1>1, PipeAlways, PTL

\* A finished event stays finished on disk, although the jobs and the pending worker save whole
\* records from objects of different age: only its deletion ends that (finalize, recover_interrupted).
THEOREM FinishedIsFinal == Spec => FinishedStaysFinished
<1>1. PipeInv /\ [Next]_vars =>
        [disk.status \in {"completed", "interrupted"} => disk'.status \in {disk.status, "absent"}]_vars
  BY PipeStep DEF Kept, StaysFinished, Finished
<1>2. QED
  BY <1>1, PipeAlways, PTL DEF Spec, FinishedStaysFinished

\* With only_if_person and a provider that says yes or no, no alarm goes out for an event on
\* whose object the verdict is, when it is sent, that there is nobody (_notify, recheck).
THEOREM NoAlarmForNobody ==
    ASSUME "unknown" \notin Answers
    PROVE  Spec => NobodyNoAlarm
<1>1. ASSUME PipeInv, OnlyIfPerson, NEW t \in Thread, job[t] = "sending" PROVE Mine(t).person # "no"
  BY <1>1, Threads DEF PipeInv, VerdictIsCertain, Mine
<1>2. PipeInv /\ [Next]_vars =>
        [OnlyIfPerson => \A t \in Thread :
           At(t, "sending") /\ job'[t] \in {"sent", "unsent"} => Mine(t).person # "no"]_vars
  BY <1>1 DEF At
<1>3. QED
  BY <1>2, PipeAlways, PTL DEF Spec, NobodyNoAlarm
=============================================================================
