------------------------- MODULE ControllerRecordProofs -------------------------
(***************************************************************************)
(* More proofs about the Controller: its event records agree with its      *)
(* machine, an event begins with an armed camera only, the switch survives *)
(* a restart, and the records implement the life cycle EventLifecycle      *)
(* promises, step by step.                                                 *)
(***************************************************************************)
EXTENDS ControllerProofs

---------------------------------------------------------------------------
(* The inductive invariants, on top of IInv *)

\* The record is the current event's, or the one whose creation stop() has
\* interrupted.
BeingRecorded(e) == e = current \/ (frame.kind = "start" /\ e = frame.event)

\* As long as no save has failed and nobody stops the service, machine,
\* current event and records on disk are in step, also between the two halves
\* of the control loop's critical section.
RecordsInStep ==
    phase = "running" /\ faults = 0 =>
        /\ machine.state # "FINALIZING"
        /\ LockFree => (InEvent(machine) <=> current # NoEvent)
        /\ frame.kind = "start" => current = NoEvent /\ machine.state = "MOTION_DETECTED"
        /\ frame.kind = "finalize" => current # NoEvent
        /\ \A e \in Event : disk[e].status = "recording" <=> BeingRecorded(e)
        /\ \A e \in Event : disk[e].status = "finalizing" => e \in pool

\* What a restart would load is the switch.
SwitchSaved == faults = 0 => armed = LoadedSwitch

---------------------------------------------------------------------------
(* What carrying out an answer does to the records *)

\* An answer follows from the state of the machine that gave it.
AnswerFollows(step) ==
    /\ step.action = "START_EVENT" => machine.state = "IDLE"
    /\ step.action \in {"MOTION_RESUMED", "MOTION_PAUSED", "FINALIZE_EVENT"} => InEvent(machine)

LEMMA AnswersFollow ==
    ASSUME machine \in Machine, NEW at \in Nat
    PROVE  /\ AnswerFollows(OnMotionStart(machine, at))
           /\ AnswerFollows(OnMotionEnd(machine, at))
           /\ AnswerFollows(Tick(machine, at))
           /\ AnswerFollows(ForceFinalize(machine))
           /\ AnswerFollows(Suspend(machine))
           /\ AnswerFollows(Quietly(machine))
<1> USE DEF AnswerFollows, Machine, EventState, Quietly, Doing, Begin, Finalize, InEvent
<1>1. AnswerFollows(OnMotionStart(machine, at)) /\ AnswerFollows(OnMotionEnd(machine, at))
  BY DEF OnMotionStart, OnMotionEnd
<1>2. AnswerFollows(Tick(machine, at))
  BY DEF Tick
<1>3. AnswerFollows(ForceFinalize(machine)) /\ AnswerFollows(Suspend(machine))
  BY DEF ForceFinalize, Suspend
<1> QED
  BY <1>1, <1>2, <1>3

\* When no save fails, the event is handed over as "finalizing", to a running service's
\* worker.
LEMMA CleanHandOver ==
    ASSUME WorkTypes, phase = "running", NEW e \in Event, NEW at \in Nat, NEW f \in Nat,
           CloseAndHandOver(e, at, f), faults' = f
    PROVE  /\ current' = NoEvent
           /\ pool' = pool \cup {e}
           /\ disk'[e].status = "finalizing"
           /\ \A x \in Event : x # e => disk'[x] = disk[x]
<1> DEFINE done == [[mem[e] EXCEPT !.open = FALSE]
                       EXCEPT !.status = "finalizing",
                              !.end = Later(at, [mem[e] EXCEPT !.open = FALSE].start)]
<1>1. done.status = "finalizing"
  BY DEF WorkTypes, Object
<1>2. current' = NoEvent /\ disk' = [disk EXCEPT ![e] = Written(done)] /\ pool' = pool \cup {e}
  BY DEF CloseAndHandOver, Save, Submit
<1> HIDE DEF done
<1> QED
  BY <1>1, <1>2 DEF WorkTypes, Written

\* The lock is free and machine, current event and records are in step.
InStep ==
    /\ machine.state # "FINALIZING"
    /\ InEvent(machine) <=> current # NoEvent
    /\ \A e \in Event : disk[e].status = "recording" <=> e = current
    /\ \A e \in Event : disk[e].status = "finalizing" => e \in pool

LEMMA ApplyInStep ==
    ASSUME WorkTypes, WorkInv, InStep, phase = "running", NEW step \in Step, NEW at \in Nat, NEW f \in Nat,
           Apply(step, at, f), faults' = f, AnswerFits(step), AnswerFollows(step)
    PROVE  InStep'
<1> USE DEF WorkTypes, InStep
<1>1. step.machine \in Machine /\ step.action \in ActionKind
  BY DEF Step
<1>2. CASE step.action = "START_EVENT"
  <2>1. StartEvent(step.machine, at, f) /\ step.machine.state = "MOTION_DETECTED"
        /\ current = NoEvent /\ UNCHANGED pool
    BY <1>2 DEF Apply, AnswerFits, AnswerFollows, InEvent
  <2>2. CASE CreateFails(step.machine, at, f)
    <3>1. machine'.state = "IDLE" /\ UNCHANGED <<current, disk>>
      BY <1>1, <2>2 DEF CreateFails, NotifyFinalized, Machine, EventState
    <3> QED
      BY <2>1, <3>1 DEF InEvent
  <2>3. ASSUME NEW e \in Event, CreateRecord(e, at), current' = e,
               machine' = MarkRecording(step.machine)
        PROVE  InStep'
    <3>1. machine'.state = "RECORDING"
      BY <1>1, <2>1, <2>3 DEF MarkRecording, Machine
    <3>2. disk' = [disk EXCEPT ![e] = Written(NewEvent(at))]
          /\ Written(NewEvent(at)).status = "recording"
      BY <2>3 DEF CreateRecord, Save, NewEvent, Blank, Written
    <3>3. \A x \in Event : disk[x].status # "recording"
      BY <2>1, ControllerAssumption
    <3> QED
      BY <2>1, <2>3, <3>1, <3>2, <3>3, ControllerAssumption DEF InEvent
  <2> QED
    BY <2>1, <2>2, <2>3 DEF StartEvent
<1>3. CASE step.action \in {"MOTION_RESUMED", "MOTION_PAUSED"}
  <2>1. PICK b \in BOOLEAN : /\ SaveCurrent([mem[current] EXCEPT !.open = b], f)
                             /\ machine' = step.machine
                             /\ UNCHANGED <<current, pool>>
    BY <1>3 DEF Apply
  <2>2. current \in Event /\ InEvent(machine') /\ machine'.state # "FINALIZING"
    BY <1>3, <2>1 DEF AnswerFits, AnswerFollows, InEvent
  <2> DEFINE r == [mem[current] EXCEPT !.open = b]
  <2>3. r.status = "recording"
    BY <2>2, ControllerAssumption DEF WorkInv, CurrentRecords, Object
  <2>4. disk' = [disk EXCEPT ![current] = Written(r)]
    BY <2>1, <2>2, ControllerAssumption DEF SaveCurrent, Save
  <2> HIDE DEF r
  <2> QED
    BY <2>1, <2>2, <2>3, <2>4, ControllerAssumption DEF Written
<1>4. CASE step.action = "FINALIZE_EVENT"
  <2>1. FinalizeEvent(step.machine, at, f) /\ current \in Event
    BY <1>4 DEF Apply, AnswerFollows
  <2>2. machine'.state = "IDLE"
    BY <1>1, <2>1 DEF FinalizeEvent, NotifyFinalized, Machine, EventState
  <2>3. CloseAndHandOver(current, at, f)
    BY <2>1, ControllerAssumption DEF FinalizeEvent
  <2>4. /\ current' = NoEvent
        /\ pool' = pool \cup {current}
        /\ disk'[current].status = "finalizing"
        /\ \A x \in Event : x # current => disk'[x] = disk[x]
    BY <2>1, <2>3, CleanHandOver
  <2> QED
    BY <2>1, <2>2, <2>4, ControllerAssumption DEF InEvent
<1>5. CASE step.action = "NONE"
  BY <1>5 DEF Apply, AnswerFits, InEvent
<1> QED
  BY <1>1, <1>2, <1>3, <1>4, <1>5 DEF ActionKind

\* Failed saves are never forgotten.
LEMMA ApplyCounts ==
    ASSUME NEW step \in Step, NEW at, NEW f \in Nat, Apply(step, at, f)
    PROVE  faults' \in {f, f + 1}
<1>1. step.action \in ActionKind
  BY DEF Step
<1>2. CASE step.action = "START_EVENT"
  BY <1>2 DEF Apply, StartEvent, CreateFails
<1>3. CASE step.action \in {"MOTION_RESUMED", "MOTION_PAUSED"}
  BY <1>3 DEF Apply, SaveCurrent
<1>4. CASE step.action = "FINALIZE_EVENT"
  BY <1>4 DEF Apply, FinalizeEvent, CloseAndHandOver
<1>5. CASE step.action = "NONE"
  BY <1>5 DEF Apply
<1> QED
  BY <1>1, <1>2, <1>3, <1>4, <1>5 DEF ActionKind

---------------------------------------------------------------------------
(* Records in step, and the switch *)

LEMMA StepInStep == TypeOK /\ IInv /\ RecordsInStep /\ [Next]_vars => RecordsInStep'
<1> SUFFICES ASSUME TypeOK, IInv, RecordsInStep, [Next]_vars, phase' = "running", faults' = 0
             PROVE  RecordsInStep'
  BY DEF RecordsInStep
<1>1. WorkTypes /\ WorkInv
  BY DEF TypeOK, WorkTypes, IInv, WorkInv
<1>2. machine \in Machine /\ clock \in Nat /\ faults \in Nat /\ pir.edge.at \in Nat
      /\ loop.at \in Nat /\ frame.at \in Nat
  BY DEF TypeOK
<1>3. ASSUME UNCHANGED <<machine, phase, frame, current, disk, pool, faults>>
      PROVE  RecordsInStep'
  BY <1>3 DEF RecordsInStep, LockFree, InEvent, BeingRecorded
<1>4. CASE Poll \/ SampleClock \/ Advance \/ UNCHANGED vars
  BY <1>3, <1>4 DEF Poll, SampleClock, Advance, vars
<1>5. ASSUME LockFree, phase = "running", UNCHANGED <<phase, frame>>,
             NEW step \in Step, NEW at \in Nat, NEW f \in {faults, faults + 1},
             Apply(step, at, f), AnswerFits(step), AnswerFollows(step)
      PROVE  RecordsInStep'
  <2>1. faults' \in {f, f + 1}
    BY <1>2, <1>5, ApplyCounts
  <2>2. faults = 0 /\ f = 0
    BY <1>2, <1>5, <2>1
  <2>3. InStep
    BY <1>5, <2>2 DEF RecordsInStep, InStep, BeingRecorded, LockFree
  <2>4. InStep'
    BY <1>1, <1>5, <2>2, <2>3, ApplyInStep
  <2> QED
    BY <1>5, <2>4 DEF RecordsInStep, InStep, BeingRecorded, LockFree
<1>6. CASE OnMotionEdge
  <2>1. EdgeStep \in Step /\ AnswerFits(EdgeStep) /\ AnswerFollows(EdgeStep)
    BY <1>2, MachineTypes, AnswersFit, AnswersFollow DEF EdgeStep
  <2> QED
    BY <1>2, <1>5, <1>6, <2>1 DEF OnMotionEdge
<1>7. CASE SetArmed
  <2>1. PICK f \in {faults, faults + 1},
             step \in {OnMotionStart(machine, clock), Quietly(machine), Suspend(machine)} :
          Apply(step, clock, f)
    <3>1. PICK saved \in BOOLEAN :
            LET f == IF saved THEN faults ELSE faults + 1
            IN  IF armed'
                THEN Apply(IF pir.stable THEN OnMotionStart(machine, clock)
                           ELSE Quietly(machine), clock, f)
                ELSE Apply(Suspend(machine), clock, f)
      BY <1>7 DEF SetArmed
    <3> QED
      BY <3>1
  <2>2. step \in Step /\ AnswerFits(step) /\ AnswerFollows(step)
    BY <1>2, MachineTypes, AnswersFit, AnswersFollow
  <2> QED
    BY <1>2, <1>5, <1>7, <2>1, <2>2 DEF SetArmed
<1>8. LoopStep \in Step /\ AnswerFits(LoopStep) /\ AnswerFollows(LoopStep)
  BY <1>2, MachineTypes, AnswersFit, AnswersFollow DEF LoopStep
<1>9. CASE LoopQuiet
  <2>1. machine'.state = machine.state /\ UNCHANGED <<phase, frame, current, disk, pool, faults>>
    BY <1>8, <1>9 DEF LoopQuiet, LoopEnters, AnswerFits
  <2> QED
    BY <2>1 DEF RecordsInStep, LockFree, InEvent, BeingRecorded
<1>10. CASE LoopStart
  <2>1. machine.state = "IDLE" /\ LockFree /\ phase = "running" /\ UNCHANGED <<phase, pool>>
        /\ LoopStep.machine \in Machine /\ LoopStep.machine.state = "MOTION_DETECTED"
    BY <1>8, <1>10 DEF LoopStart, LoopEnters, AnswerFollows, AnswerFits, Step
  <2>2. CASE CreateFails(LoopStep.machine, loop.at, faults) /\ UNCHANGED frame
    <3>1. machine'.state = "IDLE" /\ faults = 0 /\ UNCHANGED <<current, disk>>
      BY <1>2, <2>1, <2>2 DEF CreateFails, NotifyFinalized, Machine, EventState
    <3> QED
      BY <2>1, <2>2, <3>1 DEF RecordsInStep, LockFree, InEvent, BeingRecorded
  <2>3. ASSUME NEW e \in Event, CreateRecord(e, loop.at),
               frame' = [kind |-> "start", event |-> e, at |-> loop.at],
               machine' = LoopStep.machine, UNCHANGED <<current, faults>>
        PROVE  RecordsInStep'
    <3>1. current = NoEvent /\ \A x \in Event : disk[x].status # "recording"
      BY <2>1, <2>3, ControllerAssumption DEF RecordsInStep, InEvent, BeingRecorded, LockFree
    <3>2. disk' = [disk EXCEPT ![e] = Written(NewEvent(loop.at))]
          /\ Written(NewEvent(loop.at)).status = "recording"
      BY <2>3 DEF CreateRecord, Save, NewEvent, Blank, Written
    <3>3. /\ \A x \in Event : disk'[x].status = "recording" <=> x = e
          /\ \A x \in Event : disk'[x].status = "finalizing" => disk[x].status = "finalizing"
      BY <1>1, <3>1, <3>2 DEF WorkTypes
    <3> QED
      BY <1>10, <2>1, <2>3, <3>1, <3>3, ControllerAssumption
      DEF RecordsInStep, LockFree, BeingRecorded
  <2> QED
    BY <1>10, <2>2, <2>3 DEF LoopStart
<1>11. CASE LoopFinalize
  <2>1. InEvent(machine) /\ LockFree /\ phase = "running" /\ faults = 0
        /\ LoopStep.machine \in Machine
    BY <1>8, <1>11 DEF LoopFinalize, LoopEnters, AnswerFollows, Step
  <2>2. machine'.state = "IDLE" /\ frame'.kind = "finalize" /\ UNCHANGED <<current, disk, pool>>
    BY <1>11, <2>1 DEF LoopFinalize, NotifyFinalized, Machine, EventState
  <2> QED
    BY <2>1, <2>2 DEF RecordsInStep, LockFree, BeingRecorded
<1>12. CASE ResumeStart
  <2>1. frame.kind = "start" /\ frame' = NoFrame /\ current' = frame.event
        /\ phase = "running" /\ faults = 0 /\ machine' = MarkRecording(machine)
        /\ UNCHANGED <<disk, pool>>
    BY <1>12 DEF ResumeStart, Resumable
  <2>2. machine'.state = "RECORDING" /\ current' \in Event /\ current = NoEvent
    BY <1>2, <2>1 DEF RecordsInStep, MarkRecording, Machine, IInv, FrameConsistent
  <2> QED
    BY <2>1, <2>2, ControllerAssumption
    DEF RecordsInStep, LockFree, InEvent, BeingRecorded, NoFrame
<1>13. CASE ResumeFinalize
  <2>1. frame.kind = "finalize" /\ frame' = NoFrame /\ frame.event = current
        /\ phase = "running" /\ machine.state = "IDLE" /\ UNCHANGED <<machine, phase>>
    BY <1>13 DEF ResumeFinalize, Resumable, IInv, FrameConsistent
  <2>2. faults = 0
    BY <1>2, <1>13 DEF ResumeFinalize, CloseAndHandOver
  <2>3. current \in Event /\ CloseAndHandOver(current, frame.at, faults)
    BY <1>1, <1>13, <2>1, <2>2 DEF ResumeFinalize, RecordsInStep, WorkTypes
  <2>4. /\ current' = NoEvent
        /\ pool' = pool \cup {current}
        /\ disk'[current].status = "finalizing"
        /\ \A x \in Event : x # current => disk'[x] = disk[x]
    BY <1>1, <1>2, <2>1, <2>2, <2>3, CleanHandOver
  <2> QED
    BY <2>1, <2>2, <2>3, <2>4, ControllerAssumption
    DEF RecordsInStep, LockFree, InEvent, BeingRecorded, NoFrame
<1>14. CASE StopFinalize \/ StopPir \/ StopApi \/ StopReturns \/ Exit \/ Crash
  BY <1>14 DEF StopFinalize, StopPir, StopApi, StopReturns, Exit, Crash, Die
<1>15. CASE Restart
  <2>1. machine = InitialMachine /\ current = NoEvent /\ frame = NoFrame
        /\ UNCHANGED <<machine, frame, current>>
        /\ disk' = [e \in Event |-> IF Active(disk[e]) THEN Interrupted(disk[e]) ELSE disk[e]]
    BY <1>15 DEF Restart, IInv, NothingSurvives
  <2>2. ASSUME NEW e \in Event PROVE disk'[e].status \notin {"recording", "finalizing"}
    <3>1. disk[e] \in Stored
      BY DEF TypeOK
    <3> QED
      BY <2>1, <3>1 DEF Active, Interrupted, Stored
  <2> QED
    BY <2>1, <2>2, ControllerAssumption
    DEF RecordsInStep, LockFree, InEvent, BeingRecorded, NoFrame, InitialMachine
<1>16. ASSUME NEW e \in Event, Delete(e)
       PROVE  RecordsInStep'
  <2>1. /\ disk[e].status # "recording"
        /\ UNCHANGED <<machine, phase, frame, current, pool, faults>>
        /\ disk' = [disk EXCEPT ![e] = Written(Blank)] /\ Written(Blank).status = "absent"
    BY <1>16 DEF Delete, Deletable, Active, Save, Written, Blank
  <2>2. /\ \A x \in Event : disk'[x].status = "recording" <=> disk[x].status = "recording"
        /\ \A x \in Event : disk'[x].status = "finalizing" => disk[x].status = "finalizing"
    BY <1>1, <2>1 DEF WorkTypes
  <2> QED
    BY <2>1, <2>2 DEF RecordsInStep, LockFree, InEvent, BeingRecorded
<1>17. ASSUME NEW e \in Event, FinishEvent(e)
       PROVE  RecordsInStep'
  <2> DEFINE done == [mem[e] EXCEPT !.status = "completed"]
  <2>1. disk[e].status = "finalizing" /\ UNCHANGED <<machine, phase, frame, current>>
        /\ disk' = [disk EXCEPT ![e] = Written(done)] /\ faults = 0 /\ pool' = pool \ {e}
    BY <1>2, <1>17 DEF FinishEvent, Save, IInv, PoolFinalizing
  <2>2. Written(done).status = "completed"
    BY <1>1 DEF WorkTypes, Written, Object
  <2> HIDE DEF done
  <2>3. /\ \A x \in Event : disk'[x].status = "recording" <=> disk[x].status = "recording"
        /\ \A x \in Event : disk'[x].status = "finalizing" =>
                             disk[x].status = "finalizing" /\ x # e
    BY <1>1, <2>1, <2>2 DEF WorkTypes
  <2> QED
    BY <2>1, <2>3 DEF RecordsInStep, LockFree, InEvent, BeingRecorded
<1> QED
  BY <1>4, <1>6, <1>7, <1>9, <1>10, <1>11, <1>12, <1>13, <1>14, <1>15, <1>16, <1>17
  DEF Next, LoopBody, Stopping

LEMMA InitInStep == Init => RecordsInStep /\ SwitchSaved
<1> SUFFICES ASSUME Init PROVE RecordsInStep /\ SwitchSaved
  OBVIOUS
<1> QED
  BY ControllerAssumption DEF Init, RecordsInStep, SwitchSaved, LoadedSwitch, LockFree,
     InEvent, InitialMachine, BeingRecorded, NoFrame, Blank, Written

LEMMA StepSwitch == TypeOK /\ SwitchSaved /\ [Next]_vars => SwitchSaved'
<1> SUFFICES ASSUME TypeOK, SwitchSaved, [Next]_vars, faults' = 0
             PROVE  armed' = LoadedSwitch'
  BY DEF SwitchSaved
<1>1. faults \in Nat
  BY DEF TypeOK
<1>2. ASSUME UNCHANGED <<armed, armFile>>, faults' \in {faults, faults + 1}
      PROVE  armed' = LoadedSwitch'
  BY <1>1, <1>2 DEF SwitchSaved, LoadedSwitch
<1>3. CASE OnMotionEdge
  <2>1. EdgeStep \in Step
    BY MachineTypes DEF EdgeStep, TypeOK
  <2> QED
    BY <1>1, <1>2, <1>3, <2>1, ApplyCounts DEF OnMotionEdge
<1>4. CASE SetArmed
  <2>1. PICK saved \in BOOLEAN :
          LET f == IF saved THEN faults ELSE faults + 1
          IN  /\ armFile' = IF ~saved THEN armFile
                            ELSE IF armed' THEN "armed" ELSE "disarmed"
              /\ IF armed'
                 THEN Apply(IF pir.stable THEN OnMotionStart(machine, clock)
                            ELSE Quietly(machine), clock, f)
                 ELSE Apply(Suspend(machine), clock, f)
    BY <1>4 DEF SetArmed
  <2> DEFINE f == IF saved THEN faults ELSE faults + 1
  <2>2. PICK step \in Step : Apply(step, clock, f)
    <3>1. {OnMotionStart(machine, clock), Quietly(machine), Suspend(machine)} \subseteq Step
      BY MachineTypes DEF TypeOK
    <3> QED
      BY <2>1, <3>1
  <2>3. faults' \in {f, f + 1}
    BY <1>1, <2>2, ApplyCounts
  <2>4. saved
    BY <1>1, <2>3
  <2>5. armed' = ~armed /\ armed \in BOOLEAN
    BY <1>4 DEF SetArmed, TypeOK
  <2> QED
    BY <2>1, <2>4, <2>5 DEF LoadedSwitch
<1>5. CASE StopFinalize
  <2>1. ForceFinalize(machine) \in Step
    BY MachineTypes DEF TypeOK
  <2> QED
    BY <1>1, <1>2, <1>5, <2>1, ApplyCounts DEF StopFinalize
<1>6. CASE LoopBody
  BY <1>1, <1>2, <1>6 DEF LoopBody, LoopQuiet, LoopStart, CreateFails, LoopFinalize, ResumeStart,
     ResumeFinalize, CloseAndHandOver
<1>7. CASE Restart
  BY <1>7 DEF Restart, LoadedSwitch
<1>8. CASE Poll \/ SampleClock \/ Stopping \/ Crash \/ Advance \/ UNCHANGED vars
  BY <1>2, <1>8 DEF Poll, SampleClock, Stopping, StopPir, StopApi, StopReturns, Exit, Crash, Die,
     Advance, vars
<1>9. ASSUME NEW e \in Event, Delete(e) \/ FinishEvent(e)
      PROVE  armed' = LoadedSwitch'
  BY <1>2, <1>9 DEF Delete, FinishEvent
<1> QED
  BY <1>3, <1>4, <1>5, <1>6, <1>7, <1>8, <1>9 DEF Next

---------------------------------------------------------------------------
(* What a step can do to the records *)

SameStatus(x) == disk'[x].status = disk[x].status

Unmoved == \A x \in Event : SameStatus(x)

\* One record changes its status.
Moves(e, from, to) ==
    /\ disk[e].status = from
    /\ disk'[e].status = to
    /\ \A x \in Event \ {e} : SameStatus(x)

LEMMA ApplyMoves ==
    ASSUME WorkTypes, WorkInv, NEW step \in Step, NEW at \in Nat, NEW f \in Nat,
           Apply(step, at, f)
    PROVE  \/ Unmoved
           \/ step.action = "START_EVENT" /\ \E e \in Event : Moves(e, "absent", "recording")
           \/ \E e \in Event : Moves(e, "recording", "finalizing")
<1> USE DEF WorkTypes, Moves, SameStatus, Unmoved
<1>1. step.action \in ActionKind
  BY DEF Step
<1>2. CASE step.action = "START_EVENT"
  <2>1. ASSUME NEW e \in Event, CreateRecord(e, at)
        PROVE  Moves(e, "absent", "recording")
    <3>1. disk' = [disk EXCEPT ![e] = Written(NewEvent(at))] /\ disk[e].status = "absent"
          /\ Written(NewEvent(at)).status = "recording"
      BY <2>1 DEF CreateRecord, Save, Free, NewEvent, Blank, Written
    <3> QED
      BY <3>1
  <2>2. StartEvent(step.machine, at, f)
    BY <1>2 DEF Apply
  <2> QED
    BY <1>2, <2>1, <2>2 DEF StartEvent, CreateFails
<1>3. CASE step.action \in {"MOTION_RESUMED", "MOTION_PAUSED"}
  <2>1. PICK b \in BOOLEAN : SaveCurrent([mem[current] EXCEPT !.open = b], f)
    BY <1>3 DEF Apply
  <2>2. CASE current = NoEvent
    BY <2>1, <2>2 DEF SaveCurrent
  <2>3. CASE current # NoEvent
    <3> DEFINE r == [mem[current] EXCEPT !.open = b]
    <3>1. disk[current].status = "recording" /\ r.status = "recording"
      BY <2>3 DEF WorkInv, CurrentRecords, Object
    <3>2. disk' \in {disk, [disk EXCEPT ![current] = Written(r)]}
      BY <2>1, <2>3 DEF SaveCurrent, Save
    <3> HIDE DEF r
    <3>3. \A x \in Event : SameStatus(x)
      BY <3>1, <3>2 DEF Written
    <3> QED
      BY <3>3
  <2> QED
    BY <2>2, <2>3
<1>4. CASE step.action = "FINALIZE_EVENT"
  <2>1. FinalizeEvent(step.machine, at, f)
    BY <1>4 DEF Apply
  <2>2. CASE current = NoEvent
    BY <2>1, <2>2 DEF FinalizeEvent
  <2>3. CASE current # NoEvent
    <3>1. current \in Event /\ CloseAndHandOver(current, at, f)
      BY <2>1, <2>3 DEF FinalizeEvent
    <3> DEFINE closed == [mem[current] EXCEPT !.open = FALSE]
               done == [closed EXCEPT !.status = "finalizing", !.end = Later(at, closed.start)]
    <3>2. disk[current].status = "recording" /\ closed.status = "recording"
          /\ done.status = "finalizing"
      BY <2>3 DEF WorkInv, CurrentRecords, Object
    <3>3. disk' \in {disk, [disk EXCEPT ![current] = Written(done)],
                     [disk EXCEPT ![current] = Written(closed)]}
      BY <3>1 DEF CloseAndHandOver, Save
    <3> HIDE DEF done, closed
    <3>4. Unmoved \/ Moves(current, "recording", "finalizing")
      BY <3>1, <3>2, <3>3 DEF Written
    <3> QED
      BY <3>1, <3>4
  <2> QED
    BY <2>2, <2>3
<1>5. CASE step.action = "NONE"
  BY <1>5 DEF Apply
<1> QED
  BY <1>1, <1>2, <1>3, <1>4, <1>5 DEF ActionKind

\* The switch matters where a record is created: a disarmed camera answers no edge, arms
\* only itself, and its control loop has no latched motion to act on.
LEMMA StepMoves ==
    TypeOK /\ IInv /\ [Next]_vars =>
        \/ Unmoved /\ Up' = Up
        \/ Unmoved /\ Up /\ ~Up'
        \/ /\ ~Up /\ Up'
           /\ disk' = [e \in Event |-> IF Active(disk[e]) THEN Interrupted(disk[e]) ELSE disk[e]]
        \/ /\ Up /\ Up'
           /\ \E e \in Event :
                \/ Moves(e, "absent", "recording") /\ armed'
                \/ Moves(e, "recording", "finalizing")
                \/ Moves(e, "finalizing", "completed")
                \/ Moves(e, "completed", "absent")
                \/ Moves(e, "interrupted", "absent")
<1> DEFINE Goal ==
        \/ Unmoved /\ Up' = Up
        \/ Unmoved /\ Up /\ ~Up'
        \/ /\ ~Up /\ Up'
           /\ disk' = [e \in Event |-> IF Active(disk[e]) THEN Interrupted(disk[e]) ELSE disk[e]]
        \/ /\ Up /\ Up'
           /\ \E e \in Event :
                \/ Moves(e, "absent", "recording") /\ armed'
                \/ Moves(e, "recording", "finalizing")
                \/ Moves(e, "finalizing", "completed")
                \/ Moves(e, "completed", "absent")
                \/ Moves(e, "interrupted", "absent")
<1> SUFFICES ASSUME TypeOK, IInv, [Next]_vars PROVE Goal
  OBVIOUS
<1>1. WorkTypes /\ WorkInv
  BY DEF TypeOK, WorkTypes, IInv, WorkInv
<1>2. machine \in Machine /\ clock \in Nat /\ faults \in Nat /\ pir.edge.at \in Nat
      /\ loop.at \in Nat /\ frame.at \in Nat /\ disk \in [Event -> Stored]
  BY DEF TypeOK
<1>3. ASSUME UNCHANGED <<disk, phase>> PROVE Goal
  BY <1>3 DEF Unmoved, SameStatus, Up
<1>4. ASSUME NEW step \in Step, NEW at \in Nat, NEW f \in Nat, Apply(step, at, f), Up, Up',
             step.action = "START_EVENT" => armed'
      PROVE  Goal
  BY <1>1, <1>4, ApplyMoves
<1>5. CASE OnMotionEdge
  <2>1. EdgeStep \in Step /\ (EdgeStep.action = "START_EVENT" => armed)
    BY <1>2, MachineTypes DEF EdgeStep, Quietly, Doing
  <2> QED
    BY <1>2, <1>4, <1>5, <2>1 DEF OnMotionEdge, Up
<1>6. CASE SetArmed
  <2>1. PICK f \in Nat, step \in {OnMotionStart(machine, clock), Quietly(machine),
                                  Suspend(machine)} :
          Apply(step, clock, f) /\ (~armed' => step = Suspend(machine))
    <3>1. PICK saved \in BOOLEAN :
            LET f == IF saved THEN faults ELSE faults + 1
            IN  IF armed'
                THEN Apply(IF pir.stable THEN OnMotionStart(machine, clock)
                           ELSE Quietly(machine), clock, f)
                ELSE Apply(Suspend(machine), clock, f)
      BY <1>6 DEF SetArmed
    <3>2. (IF saved THEN faults ELSE faults + 1) \in Nat
      BY <1>2
    <3> QED
      BY <3>1, <3>2
  <2>2. step \in Step /\ (step.action = "START_EVENT" => armed')
    BY <1>2, <2>1, MachineTypes, MachineAnswers
  <2>3. Up /\ Up'
    BY <1>6 DEF SetArmed, Up
  <2> QED
    BY <1>2, <1>4, <2>1, <2>2, <2>3
<1>7. CASE StopFinalize
  <2>1. ForceFinalize(machine) \in Step /\ ForceFinalize(machine).action # "START_EVENT"
    BY <1>2, MachineTypes, MachineAnswers
  <2>2. Up /\ Up' /\ Apply(ForceFinalize(machine), clock, faults)
    BY <1>7 DEF StopFinalize, Up
  <2> QED
    BY <1>2, <1>4, <2>1, <2>2
<1>8. CASE LoopStart
  <2>1. Up /\ Up' /\ armed'
    <3>1. CASE armed
      BY <1>8, <3>1 DEF LoopStart, LoopEnters, Up
    <3>2. CASE ~armed
      <4>1. Up /\ LoopStep.action = "START_EVENT"
        BY <1>8 DEF LoopStart, LoopEnters, Up
      <4> QED
        BY <3>2, <4>1 DEF LoopStep, IInv, DisarmedIdle, Tick, InEvent, Quietly, Doing
    <3> QED
      BY <3>1, <3>2
  <2>2. ASSUME NEW e \in Event, CreateRecord(e, loop.at)
        PROVE  Moves(e, "absent", "recording")
    <3>1. disk' = [disk EXCEPT ![e] = Written(NewEvent(loop.at))] /\ disk[e].status = "absent"
          /\ Written(NewEvent(loop.at)).status = "recording"
      BY <2>2 DEF CreateRecord, Save, Free, NewEvent, Blank, Written
    <3> QED
      BY <1>2, <3>1 DEF Moves, SameStatus
  <2> QED
    BY <1>3, <1>8, <2>1, <2>2 DEF LoopStart, CreateFails
<1>9. CASE ResumeFinalize
  <2>1. frame.event = current /\ UNCHANGED phase /\ Up
    BY <1>9 DEF ResumeFinalize, Resumable, IInv, FrameConsistent, Up
  <2>2. CASE current = NoEvent
    BY <1>3, <1>9, <2>1, <2>2 DEF ResumeFinalize
  <2>3. CASE current # NoEvent
    <3>1. current \in Event /\ CloseAndHandOver(current, frame.at, faults)
      BY <1>1, <1>9, <2>1, <2>3 DEF ResumeFinalize, WorkTypes
    <3> DEFINE closed == [mem[current] EXCEPT !.open = FALSE]
               done == [closed EXCEPT !.status = "finalizing",
                                      !.end = Later(frame.at, closed.start)]
    <3>2. disk[current].status = "recording" /\ closed.status = "recording"
          /\ done.status = "finalizing"
      BY <1>1, <2>3 DEF WorkInv, WorkTypes, CurrentRecords, Object
    <3>3. disk' \in {disk, [disk EXCEPT ![current] = Written(done)],
                     [disk EXCEPT ![current] = Written(closed)]}
      BY <3>1 DEF CloseAndHandOver, Save
    <3> HIDE DEF done, closed
    <3>4. Unmoved \/ Moves(current, "recording", "finalizing")
      BY <1>2, <3>1, <3>2, <3>3 DEF Written, Unmoved, Moves, SameStatus
    <3> QED
      BY <2>1, <3>1, <3>4 DEF Up
  <2> QED
    BY <2>2, <2>3
<1>10. CASE Poll \/ SampleClock \/ LoopQuiet \/ LoopFinalize \/ ResumeStart \/ Advance
            \/ UNCHANGED vars
  BY <1>3, <1>10 DEF Poll, SampleClock, LoopQuiet, LoopFinalize, ResumeStart, Advance, vars
<1>11. CASE StopPir \/ StopApi \/ StopReturns \/ Exit \/ Crash
  BY <1>11 DEF StopPir, StopApi, StopReturns, Exit, Crash, Die, Up, Unmoved, SameStatus
<1>12. CASE Restart
  BY <1>12 DEF Restart, Up
<1>13. ASSUME NEW e \in Event, Delete(e)
       PROVE  Goal
  <2>1. disk[e].status \in {"completed", "interrupted"} /\ Up /\ Up'
        /\ disk' = [disk EXCEPT ![e] = Written(Blank)] /\ Written(Blank).status = "absent"
    BY <1>2, <1>13 DEF Delete, Deletable, Active, Save, Up, Written, Blank, Stored, Status
  <2>2. Moves(e, disk[e].status, "absent")
    BY <1>2, <2>1 DEF Moves, SameStatus
  <2> QED
    BY <2>1, <2>2
<1>14. ASSUME NEW e \in Event, FinishEvent(e)
       PROVE  Goal
  <2> DEFINE done == [mem[e] EXCEPT !.status = "completed"]
  <2>1. disk[e].status = "finalizing" /\ Up /\ Up'
        /\ disk' \in {disk, [disk EXCEPT ![e] = Written(done)]}
    BY <1>1, <1>14 DEF FinishEvent, Save, Up, WorkInv, PoolFinalizing
  <2>2. Written(done).status = "completed"
    BY <1>1 DEF WorkTypes, Written, Object
  <2> HIDE DEF done
  <2>3. Unmoved \/ Moves(e, "finalizing", "completed")
    BY <1>2, <2>1, <2>2 DEF Unmoved, Moves, SameStatus
  <2> QED
    BY <2>1, <2>3
<1> QED
  BY <1>5, <1>6, <1>7, <1>8, <1>9, <1>10, <1>11, <1>12, <1>13, <1>14
  DEF Next, LoopBody, Stopping

---------------------------------------------------------------------------
(* The theorems *)

\* As long as no save has failed, the service is running and the lock is free, the machine
\* is in an event exactly when the controller holds one, that event is the only one that is
\* "recording", and the workers hold exactly the "finalizing" ones.
THEOREM RecordsAgreeAlways == Spec => []RecordsAgree
<1>1. Init => RecordsInStep
  BY InitInStep
<1>2. TypeOK /\ IInv /\ RecordsInStep /\ [Next]_vars => RecordsInStep'
  BY StepInStep
<1>3. TypeOK /\ IInv /\ RecordsInStep => RecordsAgree
  <2> SUFFICES ASSUME TypeOK, IInv, RecordsInStep, phase = "running", LockFree, faults = 0
               PROVE  /\ InEvent(machine) <=> current # NoEvent
                      /\ {e \in Event : disk[e].status = "recording"} = {current} \ {NoEvent}
                      /\ {e \in Event : disk[e].status = "finalizing"} = pool
    BY DEF RecordsAgree
  <2>1. InEvent(machine) <=> current # NoEvent
    BY DEF RecordsInStep
  <2>2. {e \in Event : disk[e].status = "recording"} = {current} \ {NoEvent}
    BY ControllerAssumption DEF TypeOK, RecordsInStep, BeingRecorded, LockFree
  <2>3. {e \in Event : disk[e].status = "finalizing"} = pool
    BY DEF TypeOK, RecordsInStep, IInv, PoolFinalizing
  <2> QED
    BY <2>1, <2>2, <2>3
<1> QED
  BY <1>1, <1>2, <1>3, Inductive, PTL DEF Spec

\* An active record is always being produced (Event.active), also while stop() has
\* interrupted the control loop, until a save fails: the abandoned record that TLC finds
\* needs a failing save, no interleaving of threads, crashes and restarts leaves one.
THEOREM OnlyFailedSavesAbandon == Spec => [](faults = 0 => ActiveIsBeingProduced)
<1>1. Init => RecordsInStep
  BY InitInStep
<1>2. TypeOK /\ IInv /\ RecordsInStep /\ [Next]_vars => RecordsInStep'
  BY StepInStep
<1>3. RecordsInStep => (faults = 0 => ActiveIsBeingProduced)
  BY DEF RecordsInStep, BeingRecorded, ActiveIsBeingProduced, Active
<1> QED
  BY <1>1, <1>2, <1>3, Inductive, PTL DEF Spec

\* Only an armed camera begins an event, whichever thread does.
THEOREM EventsOnlyWhenArmed == Spec => EventsBeginArmed
<1>1. TypeOK /\ IInv /\ [Next]_vars =>
        [\A e \in Event : disk[e].status = "absent" /\ disk'[e].status = "recording"
            => armed']_vars
  <2> SUFFICES ASSUME TypeOK, IInv, [Next]_vars,
                      NEW e \in Event, disk[e].status = "absent", disk'[e].status = "recording"
               PROVE  armed'
    OBVIOUS
  <2> QED
    BY StepMoves DEF Moves, Unmoved, SameStatus, Active
<1> QED
  BY <1>1, Inductive, PTL DEF Spec, EventsBeginArmed

\* Without a failed save, a restart finds the switch as it was left.
THEOREM SwitchSurvives == Spec => RestartKeepsSwitch
<1>1. Init => SwitchSaved
  BY InitInStep
<1>2. TypeOK /\ SwitchSaved /\ [Next]_vars => SwitchSaved'
  BY StepSwitch
<1>3. SwitchSaved /\ [Next]_vars =>
        [phase = "down" /\ phase' = "running" /\ faults = 0 => armed' = armed]_vars
  <2> SUFFICES ASSUME SwitchSaved, Next, phase = "down", phase' = "running", faults = 0
               PROVE  armed' = armed
    BY DEF vars
  <2>1. Restart
    BY DEF Next, LoopBody, Stopping, Poll, OnMotionEdge, Up, SetArmed, SampleClock, LoopQuiet,
       LoopStart, LoopFinalize, LoopEnters, ResumeStart, ResumeFinalize, Resumable, StopFinalize,
       StopPir, StopApi, StopReturns, Exit, Crash, Advance, Delete, FinishEvent
  <2> QED
    BY <2>1 DEF Restart, SwitchSaved
<1> QED
  BY <1>1, <1>2, <1>3, TypeCorrect, PTL DEF Spec, RestartKeepsSwitch

\* The records implement the life cycle that the store promises its readers: whatever
\* fails, is stopped or crashes, every step of the service is one of EventLifecycle or
\* leaves the statuses alone.
THEOREM RecordsImplementLifecycle == Spec => RecordsFollowLifecycle
<1> DEFINE status == [e \in Event |-> disk[e].status]
<1>1. Init => Lifecycle!Init
  BY DEF Init, Lifecycle!Init, Written, Blank, Up
<1>2. TypeOK /\ IInv /\ [Next]_vars => [Lifecycle!Next]_(Lifecycle!vars)
  <2> SUFFICES ASSUME TypeOK, IInv, [Next]_vars
               PROVE  Lifecycle!Next \/ UNCHANGED Lifecycle!vars
    OBVIOUS
  <2>1. ASSUME Unmoved PROVE status' = status
    BY <2>1 DEF Unmoved, SameStatus
  <2>2. ASSUME NEW e \in Event, NEW from, NEW to, Moves(e, from, to), Up, Up'
        PROVE  Lifecycle!Change(e, from, to)
    <3>1. status' = [status EXCEPT ![e] = to] /\ status[e] = from
      BY <2>2 DEF Moves, SameStatus
    <3> QED
      BY <2>2, <3>1 DEF Lifecycle!Change, Up
  <2>3. CASE Unmoved /\ Up' = Up
    BY <2>1, <2>3 DEF Lifecycle!vars
  <2>4. CASE Unmoved /\ Up /\ ~Up'
    BY <2>1, <2>4 DEF Lifecycle!Next, Lifecycle!Stop
  <2>5. CASE ~Up /\ Up' /\ disk' = [e \in Event |-> IF Active(disk[e]) THEN Interrupted(disk[e])
                                                   ELSE disk[e]]
    <3>1. status' = [e \in Event |-> IF e \in Lifecycle!InFlight THEN "interrupted"
                                     ELSE status[e]]
      <4> SUFFICES ASSUME NEW e \in Event
                   PROVE  disk'[e].status = IF e \in Lifecycle!InFlight THEN "interrupted"
                                            ELSE disk[e].status
        OBVIOUS
      <4>1. disk[e] \in Stored /\ (e \in Lifecycle!InFlight <=> Active(disk[e]))
        BY DEF TypeOK, Lifecycle!InFlight, Active
      <4> QED
        BY <2>5, <4>1 DEF Interrupted, Stored
    <3> QED
      BY <2>5, <3>1 DEF Lifecycle!Next, Lifecycle!Start
  <2>6. ASSUME Up, Up', NEW e \in Event,
               \/ Moves(e, "absent", "recording")
               \/ Moves(e, "recording", "finalizing")
               \/ Moves(e, "finalizing", "completed")
               \/ Moves(e, "completed", "absent")
               \/ Moves(e, "interrupted", "absent")
        PROVE  Lifecycle!Next
    BY <2>2, <2>6 DEF Lifecycle!Next, Lifecycle!Create, Lifecycle!Finalize, Lifecycle!Complete,
       Lifecycle!Remove
  <2> QED
    BY <2>3, <2>4, <2>5, <2>6, StepMoves
<1> QED
  BY <1>1, <1>2, Inductive, PTL DEF Spec, RecordsFollowLifecycle, Lifecycle!Spec
=============================================================================
