---------------------------- MODULE ControllerProofs ----------------------------
(***************************************************************************)
(* Proofs about the Controller for every set of event directories, every   *)
(* timing, and any number of failing saves, crashes and restarts.          *)
(***************************************************************************)
EXTENDS Controller, TLAPS

---------------------------------------------------------------------------
(* The inductive invariant *)

\* The event being recorded is "recording" on disk and in memory.
CurrentRecords ==
    current # NoEvent =>
        disk[current].status = "recording" /\ mem[current].status = "recording"

\* An event with a worker's job is "finalizing", with its segments closed.
PoolFinalizing ==
    \A e \in pool :
        /\ disk[e].status = "finalizing"
        /\ mem[e].status = "finalizing"
        /\ ~mem[e].open
        /\ mem[e].end # NoTime

\* What an interrupted critical section still has to do fits the state that
\* stop() may have left behind.
FrameConsistent ==
    /\ frame.kind = "start" =>
         /\ frame.event \in Event
         /\ frame.event # current
         /\ disk[frame.event].status = "recording"
         /\ mem[frame.event].status = "recording"
         /\ mem[frame.event].open
         /\ machine.state \in {"MOTION_DETECTED", "IDLE"}
    /\ frame.kind = "finalize" => frame.event = current /\ machine.state = "IDLE"

\* Nothing of the process outlives it.
NothingSurvives ==
    phase = "down" =>
        machine = InitialMachine /\ current = NoEvent /\ pool = {} /\ frame = NoFrame

\* DisarmedQuiet, and the loop is not in its critical section either.
DisarmedIdle ==
    Up /\ ~armed => ~machine.motion /\ ~InEvent(machine) /\ LockFree

IInv ==
    /\ CurrentRecords
    /\ PoolFinalizing
    /\ FrameConsistent
    /\ NothingSurvives
    /\ DisarmedIdle
    /\ SegmentFollowsMotion
    /\ EndedRecordsAreComplete

---------------------------------------------------------------------------
(* The motion state machine: every input returns a machine and an action *)

LEMMA MachineTypes ==
    ASSUME NEW m \in Machine, NEW at \in Nat
    PROVE  /\ OnMotionStart(m, at) \in Step
           /\ OnMotionEnd(m, at) \in Step
           /\ Tick(m, at) \in Step
           /\ ForceFinalize(m) \in Step
           /\ Suspend(m) \in Step
           /\ Quietly(m) \in Step
           /\ MarkRecording(m) \in Machine
           /\ NotifyFinalized(m, at) \in Machine
<1> USE DEF Step, Machine, EventState, ActionKind, OptTime, Time, Quietly, Doing, Begin,
        Finalize
<1>0. at + PostMotion \in Nat /\ at + Cooldown \in Nat
  BY TimingAssumption
<1>1. OnMotionStart(m, at) \in Step
  BY DEF OnMotionStart
<1>2. OnMotionEnd(m, at) \in Step
  BY <1>0 DEF OnMotionEnd
<1>3. Tick(m, at) \in Step
  BY DEF Tick, InEvent
<1>4. ForceFinalize(m) \in Step
  BY DEF ForceFinalize
<1>5. Suspend(m) \in Step
  BY DEF Suspend, ForceFinalize, InEvent
<1>6. Quietly(m) \in Step
  OBVIOUS
<1>7. MarkRecording(m) \in Machine /\ NotifyFinalized(m, at) \in Machine
  BY <1>0 DEF MarkRecording, NotifyFinalized
<1> QED
  BY <1>1, <1>2, <1>3, <1>4, <1>5, <1>6, <1>7

\* What the actions say about the machine they come with.
LEMMA MachineAnswers ==
    ASSUME NEW m \in Machine, NEW at \in Nat
    PROVE  /\ OnMotionStart(m, at).action \in {"NONE", "START_EVENT", "MOTION_RESUMED"}
           /\ OnMotionEnd(m, at).action \in {"NONE", "MOTION_PAUSED"}
           /\ Tick(m, at).action \in {"NONE", "START_EVENT", "FINALIZE_EVENT"}
           /\ ForceFinalize(m).action \in {"NONE", "FINALIZE_EVENT"}
           /\ Suspend(m).action \in {"NONE", "FINALIZE_EVENT"}
  BY DEF OnMotionStart, OnMotionEnd, Tick, ForceFinalize, Suspend, Quietly, Doing, Begin,
         Finalize

\* After Suspend, tick has nothing to do: the loop may skip it.
LEMMA TickAfterSuspend ==
    ASSUME NEW m \in Machine, NEW at \in Nat, NEW later \in Nat
    PROVE  /\ Suspend(m).action = "NONE" =>
                  Tick(Suspend(m).machine, later) = Quietly(Suspend(m).machine)
           /\ Suspend(m).action = "FINALIZE_EVENT" =>
                  LET idle == NotifyFinalized(Suspend(m).machine, at)
                  IN  Tick(idle, later) = Quietly(idle)
  BY DEF Suspend, ForceFinalize, Finalize, Doing, Quietly, Tick, InEvent, NotifyFinalized,
         Machine, EventState

---------------------------------------------------------------------------
(* Types *)

LEMMA RecordTypes ==
    ASSUME NEW at \in Nat, NEW r \in Object
    PROVE  /\ Blank \in Object /\ NewEvent(at) \in Object
           /\ Written(r) \in Stored
           /\ [r EXCEPT !.open = TRUE] \in Object
           /\ [r EXCEPT !.open = FALSE] \in Object
           /\ [r EXCEPT !.status = "completed"] \in Object
           /\ [r EXCEPT !.open = FALSE, !.status = "finalizing", !.end = Later(at, r.start)]
                 \in Object
  BY DEF Blank, NewEvent, Written, Object, Stored, Status, OptTime, NoTime, Later

\* The part of TypeOK that carrying out an answer can touch.
WorkTypes ==
    /\ machine \in Machine
    /\ current \in Event \cup {NoEvent}
    /\ mem \in [Event -> Object]
    /\ disk \in [Event -> Stored]
    /\ pool \in SUBSET Event
    /\ faults \in Nat

LEMMA CloseAndHandOverTypes ==
    ASSUME WorkTypes, NEW e \in Event, NEW at \in Nat, NEW f \in Nat,
           CloseAndHandOver(e, at, f)
    PROVE  /\ current' \in Event \cup {NoEvent}
           /\ mem' \in [Event -> Object]
           /\ disk' \in [Event -> Stored]
           /\ pool' \in SUBSET Event
           /\ faults' \in Nat
<1> DEFINE closed == [mem[e] EXCEPT !.open = FALSE]
           done == [closed EXCEPT !.status = "finalizing", !.end = Later(at, closed.start)]
<1>1. closed \in Object /\ done \in Object
  <2>1. mem[e] \in Object
    BY DEF WorkTypes
  <2>2. done = [mem[e] EXCEPT !.open = FALSE, !.status = "finalizing",
                              !.end = Later(at, mem[e].start)]
    BY <2>1 DEF Object
  <2> QED
    BY <2>1, <2>2, RecordTypes
<1>2. Written(closed) \in Stored /\ Written(done) \in Stored
  BY <1>1, RecordTypes
<1>3. mem' \in [Event -> Object]
  BY <1>1 DEF CloseAndHandOver, WorkTypes
<1>4. disk' \in [Event -> Stored]
  BY <1>2 DEF CloseAndHandOver, WorkTypes, Save
<1>5. current' \in Event \cup {NoEvent} /\ pool' \in SUBSET Event /\ faults' \in Nat
  BY DEF CloseAndHandOver, WorkTypes, Submit
<1> QED
  BY <1>3, <1>4, <1>5

LEMMA ApplyTypes ==
    ASSUME WorkTypes, NEW step \in Step, NEW at \in Nat, NEW f \in Nat, Apply(step, at, f)
    PROVE  WorkTypes'
<1> USE DEF WorkTypes
<1>1. step.machine \in Machine /\ step.action \in ActionKind
  BY DEF Step
<1>2. CASE step.action = "START_EVENT"
  <2>1. StartEvent(step.machine, at, f) /\ UNCHANGED pool
    BY <1>2 DEF Apply
  <2>2. CASE CreateFails(step.machine, at, f)
    BY <2>1, <2>2, <1>1, MachineTypes DEF CreateFails
  <2>3. CASE \E e \in Event : /\ CreateRecord(e, at) /\ current' = e
                              /\ machine' = MarkRecording(step.machine) /\ faults' = f
    <3>1. NewEvent(at) \in Object /\ Written(NewEvent(at)) \in Stored
      BY RecordTypes DEF Object, Stored, NewEvent, Written, Blank, Status, OptTime
    <3> QED
      BY <2>1, <2>3, <1>1, <3>1, MachineTypes DEF CreateRecord, Save
  <2> QED
    BY <2>1, <2>2, <2>3 DEF StartEvent
<1>3. CASE step.action \in {"MOTION_RESUMED", "MOTION_PAUSED"}
  <2>1. PICK b \in BOOLEAN : /\ SaveCurrent([mem[current] EXCEPT !.open = b], f)
                             /\ machine' = step.machine
                             /\ UNCHANGED <<current, pool>>
    BY <1>3 DEF Apply
  <2>2. CASE current = NoEvent
    BY <2>1, <2>2, <1>1 DEF SaveCurrent
  <2>3. CASE current # NoEvent
    <3>1. current \in Event /\ [mem[current] EXCEPT !.open = b] \in Object
      BY <2>3, RecordTypes, b = TRUE \/ b = FALSE
    <3>2. Written([mem[current] EXCEPT !.open = b]) \in Stored
      BY <3>1, RecordTypes
    <3> QED
      BY <2>1, <2>3, <1>1, <3>1, <3>2 DEF SaveCurrent, Save
  <2> QED
    BY <2>2, <2>3
<1>4. CASE step.action = "FINALIZE_EVENT"
  <2>1. FinalizeEvent(step.machine, at, f)
    BY <1>4 DEF Apply
  <2>2. machine' \in Machine
    BY <2>1, <1>1, MachineTypes DEF FinalizeEvent
  <2>3. CASE current = NoEvent
    BY <2>1, <2>2, <2>3 DEF FinalizeEvent
  <2>4. CASE current # NoEvent
    BY <2>1, <2>2, <2>4, CloseAndHandOverTypes DEF FinalizeEvent
  <2> QED
    BY <2>3, <2>4
<1>5. CASE step.action = "NONE"
  BY <1>1, <1>5 DEF Apply
<1> QED
  BY <1>1, <1>2, <1>3, <1>4, <1>5 DEF ActionKind

LEMMA InitTypes == Init => TypeOK
  BY ControllerAssumption
  DEF Init, TypeOK, InitialMachine, Machine, EventState, OptTime, Time, IdlePir, NoEdge,
      NoFrame, Phases, Blank, Written, Object, Stored, Status

LEMMA StepTypes == TypeOK /\ [Next]_vars => TypeOK'
<1> SUFFICES ASSUME TypeOK, [Next]_vars
             PROVE  TypeOK'
  OBVIOUS
<1> USE DEF TypeOK
<1>0. WorkTypes
  BY DEF WorkTypes
<1>1. CASE Poll
  BY <1>1 DEF Poll, NoEdge
<1>2. CASE OnMotionEdge
  <2>1. pir.edge.at \in Nat /\ EdgeStep \in Step
    BY MachineTypes DEF EdgeStep
  <2>2. WorkTypes'
    BY <1>0, <1>2, <2>1, ApplyTypes DEF OnMotionEdge
  <2> QED
    BY <1>2, <2>2 DEF OnMotionEdge, WorkTypes, NoEdge
<1>3. CASE SetArmed
  <2>1. PICK saved \in BOOLEAN :
          LET f == IF saved THEN faults ELSE faults + 1
          IN  /\ armFile' = IF ~saved THEN armFile
                            ELSE IF armed' THEN "armed" ELSE "disarmed"
              /\ IF armed'
                 THEN Apply(IF pir.stable THEN OnMotionStart(machine, clock)
                            ELSE Quietly(machine), clock, f)
                 ELSE Apply(Suspend(machine), clock, f)
    BY <1>3 DEF SetArmed
  <2>2. WorkTypes'
    BY <1>0, <2>1, ApplyTypes, MachineTypes
  <2> QED
    BY <1>3, <2>1, <2>2 DEF SetArmed, WorkTypes
<1>4. CASE SampleClock
  BY <1>4 DEF SampleClock
<1>5. LoopStep \in Step
  BY MachineTypes DEF LoopStep
<1>6. CASE LoopQuiet
  BY <1>5, <1>6 DEF LoopQuiet, Step
<1>7. CASE LoopStart
  <2>1. LoopStep.machine \in Machine /\ NotifyFinalized(LoopStep.machine, loop.at) \in Machine
    BY <1>5, MachineTypes DEF Step
  <2>2. CASE CreateFails(LoopStep.machine, loop.at, faults)
               /\ loop' = [loop EXCEPT !.pc = "waiting"] /\ UNCHANGED frame
    BY <1>7, <2>1, <2>2 DEF LoopStart, CreateFails
  <2>3. ASSUME NEW e \in Event, CreateRecord(e, loop.at),
               frame' = [kind |-> "start", event |-> e, at |-> loop.at],
               machine' = LoopStep.machine, UNCHANGED <<loop, current, faults>>
        PROVE  TypeOK'
    <3>1. NewEvent(loop.at) \in Object /\ Written(NewEvent(loop.at)) \in Stored
      BY DEF Object, Stored, NewEvent, Written, Blank, Status, OptTime
    <3> QED
      BY <1>7, <2>1, <2>3, <3>1 DEF LoopStart, CreateRecord, Save
  <2> QED
    BY <1>7, <2>2, <2>3 DEF LoopStart
<1>8. CASE LoopFinalize
  BY <1>5, <1>8, MachineTypes DEF LoopFinalize, Step
<1>9. CASE ResumeStart
  BY <1>9, MachineTypes DEF ResumeStart, Resumable, NoFrame
<1>10. CASE ResumeFinalize
  <2>1. frame' = NoFrame /\ NoFrame.event = NoEvent
    BY <1>10 DEF ResumeFinalize, Resumable, NoFrame
  <2>2. current' \in Event \cup {NoEvent} /\ mem' \in [Event -> Object]
        /\ disk' \in [Event -> Stored] /\ pool' \in SUBSET Event /\ faults' \in Nat
    <3>1. CASE frame.event = NoEvent
      BY <1>10, <3>1 DEF ResumeFinalize
    <3>2. CASE frame.event # NoEvent
      BY <1>0, <1>10, <3>2, CloseAndHandOverTypes DEF ResumeFinalize
    <3> QED
      BY <3>1, <3>2
  <2> QED
    BY <1>10, <2>1, <2>2 DEF ResumeFinalize, NoFrame
<1>11. CASE StopFinalize
  <2>1. WorkTypes'
    BY <1>0, <1>11, ApplyTypes, MachineTypes DEF StopFinalize
  <2> QED
    BY <1>11, <2>1 DEF StopFinalize, WorkTypes, Phases, NoFrame
<1>12. CASE StopPir \/ StopApi \/ StopReturns
  BY <1>12 DEF StopPir, StopApi, StopReturns, Phases
<1>13. CASE Exit \/ Crash
  <2>1. InitialMachine \in Machine /\ Blank \in Object
    BY DEF InitialMachine, Machine, EventState, OptTime, Time, Blank, Object, Status
  <2>2. IdlePir \in [stable : BOOLEAN, edge : [kind : {"none", "start", "end"}, at : Nat]]
    BY DEF IdlePir, NoEdge
  <2>3. NoFrame \in [kind : {"none", "start", "finalize"},
                     event : Event \cup {NoEvent}, at : Nat]
    BY DEF NoFrame
  <2>4. Die
    BY <1>13 DEF Exit, Crash
  <2> QED
    BY <2>1, <2>2, <2>3, <2>4 DEF Die, Phases
<1>14. CASE Restart
  <2>1. ASSUME NEW r \in Stored PROVE Interrupted(r) \in Stored
    BY DEF Interrupted, Stored, Status
  <2>2. LoadedSwitch \in BOOLEAN
    BY ControllerAssumption DEF LoadedSwitch
  <2> QED
    BY <1>14, <2>1, <2>2 DEF Restart, Phases
<1>15. CASE Advance
  BY <1>15 DEF Advance
<1>16. ASSUME NEW e \in Event, Delete(e)
       PROVE  TypeOK'
  <2>1. Blank \in Object /\ Written(Blank) \in Stored
    BY DEF Blank, Written, Object, Stored, Status, OptTime
  <2> QED
    BY <1>16, <2>1 DEF Delete, Save
<1>17. ASSUME NEW e \in Event, FinishEvent(e)
       PROVE  TypeOK'
  <2>1. [mem[e] EXCEPT !.status = "completed"] \in Object
    BY DEF Object, Status
  <2>2. Written([mem[e] EXCEPT !.status = "completed"]) \in Stored
    BY <2>1 DEF Written, Object, Stored
  <2> QED
    BY <1>17, <2>1, <2>2 DEF FinishEvent, Save
<1>18. CASE UNCHANGED vars
  BY <1>18 DEF vars
<1> QED
  BY <1>1, <1>2, <1>3, <1>4, <1>6, <1>7, <1>8, <1>9, <1>10, <1>11, <1>12, <1>13, <1>14,
     <1>15, <1>16, <1>17, <1>18
  DEF Next, LoopBody, Stopping

\* Every variable keeps its type (TypeOK).
THEOREM TypeCorrect == Spec => []TypeOK
  BY InitTypes, StepTypes, PTL DEF Spec

---------------------------------------------------------------------------
(* The inductive invariant is kept by carrying out an answer *)

\* The part of IInv about records, jobs and the current event.
WorkInv == CurrentRecords /\ PoolFinalizing /\ EndedRecordsAreComplete

LEMMA CloseAndHandOverKeeps ==
    ASSUME WorkTypes, WorkInv, current \in Event, NEW at \in Nat, NEW f \in Nat,
           CloseAndHandOver(current, at, f)
    PROVE  /\ WorkInv'
           /\ current' \in {current, NoEvent}
           /\ \A x \in Event : x # current => mem'[x] = mem[x] /\ disk'[x] = disk[x]
<1> DEFINE e == current
           closed == [mem[e] EXCEPT !.open = FALSE]
           done == [closed EXCEPT !.status = "finalizing", !.end = Later(at, closed.start)]
<1> USE DEF WorkTypes
<1>1. mem[e] \in Object /\ mem[e].status = "recording" /\ disk[e].status = "recording"
  BY ControllerAssumption DEF WorkInv, CurrentRecords
<1>2. closed.status = "recording" /\ ~closed.open
  BY <1>1 DEF Object
<1>3. done.status = "finalizing" /\ ~done.open /\ done.end # NoTime
  BY <1>1 DEF Object, OptTime, NoTime, Later
<1>4. Written(closed).status = "recording"
      /\ Written(done).status = "finalizing" /\ ~Written(done).open /\ Written(done).ended
  BY <1>2, <1>3 DEF Written
<1>5. e \notin pool
  BY <1>1 DEF WorkInv, PoolFinalizing
<1> HIDE DEF e, closed, done
<1>6. mem' \in {[mem EXCEPT ![e] = done], [mem EXCEPT ![e] = closed]}
      /\ current' \in {current, NoEvent}
      /\ disk' \in {disk, [disk EXCEPT ![e] = Written(done)],
                    [disk EXCEPT ![e] = Written(closed)]}
  BY DEF CloseAndHandOver, Save, e, closed, done
<1>7. \A x \in Event : x # current => mem'[x] = mem[x] /\ disk'[x] = disk[x]
  BY <1>6 DEF e
<1>8. CurrentRecords'
  <2>1. current' # NoEvent => mem' = [mem EXCEPT ![e] = closed] /\ UNCHANGED <<current, disk>>
    BY ControllerAssumption DEF CloseAndHandOver, e, closed, done
  <2> QED
    BY <1>1, <1>2, <2>1 DEF CurrentRecords, e
<1>9. PoolFinalizing'
  <2>1. pool' = pool \/ (/\ pool' = pool \cup {e}
                         /\ mem' = [mem EXCEPT ![e] = done]
                         /\ disk' = [disk EXCEPT ![e] = Written(done)])
    BY DEF CloseAndHandOver, Submit, Save, e, closed, done
  <2>2. \A x \in pool : mem'[x] = mem[x] /\ disk'[x] = disk[x]
    BY <1>5, <1>7 DEF e
  <2>3. pool' = pool \cup {e} /\ mem' = [mem EXCEPT ![e] = done]
        /\ disk' = [disk EXCEPT ![e] = Written(done)]
        => mem'[e] = done /\ disk'[e] = Written(done)
    BY DEF e
  <2> QED
    BY <1>3, <1>4, <2>1, <2>2, <2>3 DEF PoolFinalizing, WorkInv
<1>10. EndedRecordsAreComplete'
  <2>1. disk'[e] \in {disk[e], Written(done), Written(closed)}
    BY <1>6 DEF e
  <2> QED
    BY <1>1, <1>4, <1>7, <2>1 DEF EndedRecordsAreComplete, WorkInv, e
<1> QED
  BY <1>6, <1>7, <1>8, <1>9, <1>10 DEF WorkInv

LEMMA SaveCurrentKeeps ==
    ASSUME WorkTypes, WorkInv, NEW b \in BOOLEAN, NEW f \in Nat,
           SaveCurrent([mem[current] EXCEPT !.open = b], f), UNCHANGED <<current, pool>>
    PROVE  /\ WorkInv'
           /\ current # NoEvent => mem'[current].open = b
           /\ \A x \in Event : x # current => mem'[x] = mem[x] /\ disk'[x] = disk[x]
<1> USE DEF WorkTypes
<1>1. CASE current = NoEvent
  BY <1>1 DEF SaveCurrent, WorkInv, CurrentRecords, PoolFinalizing, EndedRecordsAreComplete
<1>2. CASE current # NoEvent
  <2>1. current \in Event /\ mem[current] \in Object
        /\ mem[current].status = "recording" /\ disk[current].status = "recording"
    BY <1>2 DEF WorkInv, CurrentRecords
  <2> DEFINE r == [mem[current] EXCEPT !.open = b]
  <2>2. r.status = "recording" /\ r.open = b
    BY <2>1 DEF Object
  <2>3. mem' = [mem EXCEPT ![current] = r] /\ disk' \in {disk, [disk EXCEPT ![current] = Written(r)]}
    BY <1>2 DEF SaveCurrent, Save
  <2>4. Written(r).status = "recording"
    BY <2>2 DEF Written
  <2> HIDE DEF r
  <2>5. mem'[current] = r /\ disk'[current].status = "recording"
        /\ \A x \in Event : x # current => mem'[x] = mem[x] /\ disk'[x] = disk[x]
    BY <2>1, <2>3, <2>4
  <2>6. current \notin pool
    BY <2>1 DEF WorkInv, PoolFinalizing
  <2>7. CurrentRecords'
    BY <2>2, <2>5 DEF CurrentRecords
  <2>8. PoolFinalizing'
    BY <2>5, <2>6 DEF PoolFinalizing, WorkInv
  <2>9. EndedRecordsAreComplete'
    BY <2>5 DEF EndedRecordsAreComplete, WorkInv
  <2> QED
    BY <2>2, <2>5, <2>7, <2>8, <2>9 DEF WorkInv
<1> QED
  BY <1>1, <1>2

\* A new record disturbs no other.
LEMMA CreateRecordKeeps ==
    ASSUME WorkTypes, WorkInv, NEW e \in Event, NEW at \in Nat, CreateRecord(e, at),
           UNCHANGED pool, current' \in {current, e}
    PROVE  /\ WorkInv'
           /\ e # current
           /\ disk'[e].status = "recording" /\ mem'[e].status = "recording" /\ mem'[e].open
           /\ \A x \in Event : disk[x].status # "absent" =>
                                  mem'[x] = mem[x] /\ disk'[x] = disk[x]
<1> USE DEF WorkTypes
<1>1. disk[e].status = "absent"
  BY DEF CreateRecord, Free
<1>2. NewEvent(at).status = "recording" /\ NewEvent(at).open
      /\ Written(NewEvent(at)).status = "recording"
  BY DEF NewEvent, Blank, Written
<1>3. mem' = [mem EXCEPT ![e] = NewEvent(at)] /\ disk' = [disk EXCEPT ![e] = Written(NewEvent(at))]
  BY DEF CreateRecord, Save
<1>4. mem'[e] = NewEvent(at) /\ disk'[e] = Written(NewEvent(at))
      /\ \A x \in Event : x # e => mem'[x] = mem[x] /\ disk'[x] = disk[x]
  BY <1>3
<1>5. e \notin pool /\ e # current
  BY <1>1, ControllerAssumption DEF WorkInv, PoolFinalizing, CurrentRecords
<1>6. CurrentRecords'
  BY <1>2, <1>4 DEF CurrentRecords, WorkInv
<1>7. PoolFinalizing'
  BY <1>4, <1>5 DEF PoolFinalizing, WorkInv
<1>8. EndedRecordsAreComplete'
  BY <1>2, <1>4 DEF EndedRecordsAreComplete, WorkInv
<1> QED
  BY <1>1, <1>2, <1>4, <1>5, <1>6, <1>7, <1>8 DEF WorkInv

\* The answers agree with the state of the machine they come with.
AnswerFits(step) ==
    /\ step.action = "START_EVENT" => step.machine.state = "MOTION_DETECTED"
    /\ step.action = "MOTION_RESUMED" => step.machine.state = "RECORDING"
    /\ step.action = "MOTION_PAUSED" => step.machine.state = "POST_MOTION"
    /\ step.action = "NONE" => step.machine.state = machine.state

LEMMA AnswersFit ==
    ASSUME machine \in Machine, NEW at \in Nat
    PROVE  /\ AnswerFits(OnMotionStart(machine, at))
           /\ AnswerFits(OnMotionEnd(machine, at))
           /\ AnswerFits(Tick(machine, at))
           /\ AnswerFits(ForceFinalize(machine))
           /\ AnswerFits(Suspend(machine))
           /\ AnswerFits(Quietly(machine))
<1> USE DEF AnswerFits, Machine, EventState, Quietly, Doing, Begin, Finalize, InEvent
<1>1. AnswerFits(OnMotionStart(machine, at))
  BY DEF OnMotionStart
<1>2. AnswerFits(OnMotionEnd(machine, at))
  BY DEF OnMotionEnd
<1>3. AnswerFits(Tick(machine, at))
  BY DEF Tick
<1>4. AnswerFits(ForceFinalize(machine)) /\ AnswerFits(Suspend(machine))
  BY DEF ForceFinalize, Suspend
<1> QED
  BY <1>1, <1>2, <1>3, <1>4

LEMMA ApplyKeeps ==
    ASSUME WorkTypes, WorkInv, NEW step \in Step, NEW at \in Nat, NEW f \in Nat,
           Apply(step, at, f)
    PROVE  /\ WorkInv'
           /\ \A x \in Event : x # current /\ disk[x].status # "absent" =>
                                  mem'[x] = mem[x] /\ disk'[x] = disk[x]
           /\ step.action \in {"NONE", "FINALIZE_EVENT"} => current' \in {current, NoEvent}
           /\ (InEvent(machine) /\ current # NoEvent =>
                   (mem[current].open <=> machine.state # "POST_MOTION"))
              /\ AnswerFits(step)
              => (InEvent(machine') /\ current' # NoEvent =>
                   (mem'[current'].open <=> machine'.state # "POST_MOTION"))
<1> USE DEF AnswerFits
<1>1. step.machine \in Machine /\ step.action \in ActionKind
  BY DEF Step
<1>2. CASE step.action = "START_EVENT"
  <2>1. StartEvent(step.machine, at, f) /\ UNCHANGED pool
    BY <1>2 DEF Apply
  <2>2. CASE CreateFails(step.machine, at, f)
    <3>1. machine'.state = "IDLE" /\ UNCHANGED <<current, mem, disk, pool>>
      BY <1>1, <2>1, <2>2 DEF CreateFails, NotifyFinalized, Machine, EventState
    <3> QED
      BY <1>2, <3>1 DEF WorkInv, CurrentRecords, PoolFinalizing, EndedRecordsAreComplete, InEvent
  <2>3. ASSUME NEW e \in Event, CreateRecord(e, at), current' = e,
               machine' = MarkRecording(step.machine)
        PROVE  /\ WorkInv'
               /\ \A x \in Event : x # current /\ disk[x].status # "absent" =>
                                      mem'[x] = mem[x] /\ disk'[x] = disk[x]
               /\ AnswerFits(step) => mem'[current'].open /\ machine'.state = "RECORDING"
    <3>1. AnswerFits(step) => machine'.state = "RECORDING"
      BY <1>1, <1>2, <2>3 DEF MarkRecording, Machine
    <3> QED
      BY <2>1, <2>3, <3>1, CreateRecordKeeps
  <2> QED
    BY <1>2, <2>1, <2>2, <2>3 DEF StartEvent
<1>3. CASE step.action \in {"MOTION_RESUMED", "MOTION_PAUSED"}
  <2> DEFINE b == step.action = "MOTION_RESUMED"
  <2>1. /\ SaveCurrent([mem[current] EXCEPT !.open = b], f)
        /\ machine' = step.machine
        /\ UNCHANGED <<current, pool>>
    <3>1. CASE step.action = "MOTION_RESUMED"
      <4>1. b = TRUE
        BY <3>1
      <4> QED
        BY <3>1, <4>1 DEF Apply
    <3>2. CASE step.action = "MOTION_PAUSED"
      <4>1. b = FALSE
        BY <3>2
      <4> QED
        BY <3>2, <4>1 DEF Apply
    <3> QED
      BY <1>3, <3>1, <3>2
  <2>2. b \in BOOLEAN
    OBVIOUS
  <2>3. AnswerFits(step) => (b <=> machine'.state # "POST_MOTION")
    BY <1>3, <2>1
  <2> HIDE DEF b
  <2>4. /\ WorkInv'
        /\ current # NoEvent => mem'[current].open = b
        /\ \A x \in Event : x # current => mem'[x] = mem[x] /\ disk'[x] = disk[x]
    BY <2>1, <2>2, SaveCurrentKeeps
  <2> QED
    BY <1>3, <2>1, <2>3, <2>4
<1>4. CASE step.action = "FINALIZE_EVENT"
  <2>1. FinalizeEvent(step.machine, at, f)
    BY <1>4 DEF Apply
  <2>2. machine'.state = "IDLE"
    BY <1>1, <2>1 DEF FinalizeEvent, NotifyFinalized, Machine, EventState
  <2>3. CASE current = NoEvent
    <3>1. UNCHANGED <<current, mem, disk, pool>>
      BY <2>1, <2>3 DEF FinalizeEvent
    <3> QED
      BY <2>2, <3>1 DEF WorkInv, CurrentRecords, PoolFinalizing, EndedRecordsAreComplete, InEvent
  <2>4. CASE current # NoEvent
    <3>1. current \in Event /\ CloseAndHandOver(current, at, f)
      BY <2>1, <2>4 DEF FinalizeEvent, WorkTypes
    <3> QED
      BY <2>2, <3>1, CloseAndHandOverKeeps DEF InEvent
  <2> QED
    BY <2>3, <2>4
<1>5. CASE step.action = "NONE"
  <2>1. machine' = step.machine /\ UNCHANGED <<current, mem, disk, pool>>
    BY <1>5 DEF Apply
  <2> QED
    BY <1>5, <2>1 DEF WorkInv, CurrentRecords, PoolFinalizing, EndedRecordsAreComplete, InEvent
<1> QED
  BY <1>1, <1>2, <1>3, <1>4, <1>5 DEF ActionKind

---------------------------------------------------------------------------
(* The inductive invariant is kept by every step *)

LEMMA InitIInv == Init => IInv
<1> SUFFICES ASSUME Init PROVE IInv
  OBVIOUS
<1> QED
  BY DEF Init, IInv, CurrentRecords, PoolFinalizing, FrameConsistent, NothingSurvives,
     DisarmedIdle, SegmentFollowsMotion, EndedRecordsAreComplete, InitialMachine, InEvent,
     LockFree, NoFrame, Up, Blank, Written

\* Disarming leaves an idle machine without latched motion.
LEMMA SuspendQuiets ==
    ASSUME machine \in Machine, NEW at \in Nat, NEW f \in Nat,
           Apply(Suspend(machine), at, f)
    PROVE  ~machine'.motion /\ ~InEvent(machine')
<1> DEFINE m == [machine EXCEPT !.motion = FALSE]
<1>1. m \in Machine /\ ~m.motion /\ m.state = machine.state
  BY DEF Machine
<1> HIDE DEF m
<1>2. CASE InEvent(m)
  <2>1. Suspend(machine) = Finalize(m)
    BY <1>2 DEF Suspend, ForceFinalize, m
  <2>2. Finalize(m).action = "FINALIZE_EVENT" /\ ~Finalize(m).machine.motion
        /\ Finalize(m).machine \in Machine
    BY <1>1 DEF Finalize, Doing, Machine, EventState
  <2>3. machine' = NotifyFinalized(Finalize(m).machine, at)
    BY <2>1, <2>2 DEF Apply, FinalizeEvent
  <2> QED
    BY <2>2, <2>3 DEF NotifyFinalized, Machine, EventState, InEvent
<1>3. CASE ~InEvent(m)
  <2>1. Suspend(machine) = Quietly(m)
    BY <1>3 DEF Suspend, ForceFinalize, m
  <2>2. machine' = m
    BY <2>1 DEF Apply, Quietly, Doing
  <2> QED
    BY <1>1, <1>3, <2>2
<1> QED
  BY <1>2, <1>3

LEMMA StepIInv == TypeOK /\ IInv /\ [Next]_vars => IInv'
<1> SUFFICES ASSUME TypeOK, IInv, [Next]_vars
             PROVE  IInv'
  OBVIOUS
<1> USE DEF IInv
<1>1. WorkTypes /\ WorkInv
  BY DEF TypeOK, WorkTypes, WorkInv
<1>2. machine \in Machine /\ clock \in Nat /\ faults \in Nat /\ pir.edge.at \in Nat
      /\ loop.at \in Nat /\ frame.at \in Nat
  BY DEF TypeOK
<1>3. ASSUME UNCHANGED <<machine, armed, phase, frame, current, mem, disk, pool>>
      PROVE  IInv'
  BY <1>3 DEF CurrentRecords, PoolFinalizing, FrameConsistent, NothingSurvives,
     DisarmedIdle, SegmentFollowsMotion, EndedRecordsAreComplete, LockFree, Up, InEvent
<1>4. CASE Poll \/ SampleClock \/ Advance \/ UNCHANGED vars
  BY <1>3, <1>4 DEF Poll, SampleClock, Advance, vars
<1>5. CASE OnMotionEdge
  <2>1. LockFree /\ Up /\ Apply(EdgeStep, pir.edge.at, faults)
        /\ UNCHANGED <<armed, phase, frame>>
    BY <1>5 DEF OnMotionEdge
  <2>2. EdgeStep \in Step /\ AnswerFits(EdgeStep)
    BY <1>2, MachineTypes, AnswersFit DEF EdgeStep
  <2>3. WorkInv' /\ SegmentFollowsMotion'
    BY <1>1, <1>2, <2>1, <2>2, ApplyKeeps DEF SegmentFollowsMotion
  <2>4. DisarmedIdle'
    <3>1. CASE armed
      BY <2>1, <3>1 DEF DisarmedIdle
    <3>2. CASE ~armed
      <4>1. machine' = machine
        BY <2>1, <3>2 DEF EdgeStep, Apply, Quietly, Doing
      <4> QED
        BY <2>1, <4>1 DEF DisarmedIdle, LockFree, Up, InEvent
    <3> QED
      BY <3>1, <3>2
  <2> QED
    BY <2>1, <2>3, <2>4 DEF WorkInv, FrameConsistent, NothingSurvives, LockFree, Up
<1>6. CASE SetArmed
  <2>1. LockFree /\ Up /\ armed' = ~armed /\ UNCHANGED <<phase, frame>>
    BY <1>6 DEF SetArmed, Up
  <2>2. PICK f \in Nat, step \in {OnMotionStart(machine, clock), Quietly(machine),
                                  Suspend(machine)} :
          Apply(step, clock, f) /\ (~armed' => step = Suspend(machine))
    <3>1. PICK saved \in BOOLEAN :
            LET f == IF saved THEN faults ELSE faults + 1
            IN  IF armed'
                THEN Apply(IF pir.stable THEN OnMotionStart(machine, clock)
                           ELSE Quietly(machine), clock, f)
                ELSE Apply(Suspend(machine), clock, f)
      BY <1>6 DEF SetArmed
    <3>2. (IF saved THEN faults ELSE faults + 1) \in Nat
      BY <1>2
    <3> QED
      BY <3>1, <3>2
  <2>3. step \in Step /\ AnswerFits(step)
    BY <1>2, MachineTypes, AnswersFit
  <2>4. WorkInv' /\ SegmentFollowsMotion'
    BY <1>1, <1>2, <2>1, <2>2, <2>3, ApplyKeeps DEF SegmentFollowsMotion
  <2>5. DisarmedIdle'
    BY <1>2, <2>1, <2>2, SuspendQuiets DEF DisarmedIdle, LockFree
  <2> QED
    BY <2>1, <2>4, <2>5 DEF WorkInv, FrameConsistent, NothingSurvives, LockFree, Up
<1>7. LoopStep \in Step /\ AnswerFits(LoopStep) /\ (LoopStep.action = "START_EVENT" => armed)
      /\ (Up /\ LoopStep.action = "FINALIZE_EVENT" => armed)
  <2>1. LoopStep \in Step /\ AnswerFits(LoopStep)
    BY <1>2, MachineTypes, AnswersFit DEF LoopStep
  <2>2. Up /\ ~armed => LoopStep = Tick(machine, loop.at)
    BY DEF LoopStep, DisarmedIdle
  <2>3. Up /\ ~armed => Tick(machine, loop.at) = Quietly(machine)
    BY DEF DisarmedIdle, Tick, InEvent
  <2>4. LoopStep.action = "START_EVENT" => armed
    BY <1>2, MachineAnswers, <2>2, <2>3 DEF LoopStep, Tick, DisarmedIdle, Quietly, Doing,
       Finalize
  <2> QED
    BY <2>1, <2>2, <2>3, <2>4 DEF Quietly, Doing
<1>8. CASE LoopQuiet
  <2>1. machine' = LoopStep.machine /\ LoopStep.action = "NONE" /\ LockFree /\ Up
        /\ UNCHANGED <<armed, phase, frame, current, mem, disk, pool>>
    BY <1>8 DEF LoopQuiet, LoopEnters, Up
  <2>2. machine'.state = machine.state
    BY <1>7, <2>1 DEF AnswerFits
  <2>3. ~armed => machine' = machine
    <3> SUFFICES ASSUME ~armed PROVE machine' = machine
      OBVIOUS
    <3> QED
      BY <2>1 DEF DisarmedIdle, LoopStep, Tick, InEvent, Quietly, Doing
  <2> QED
    BY <1>1, <2>1, <2>2, <2>3 DEF CurrentRecords, PoolFinalizing, FrameConsistent,
       NothingSurvives, DisarmedIdle, SegmentFollowsMotion, EndedRecordsAreComplete,
       LockFree, Up, InEvent
<1>9. CASE LoopStart
  <2>1. LoopStep.action = "START_EVENT" /\ LockFree /\ Up /\ armed
        /\ UNCHANGED <<armed, phase, pool>>
    BY <1>7, <1>9 DEF LoopStart, LoopEnters, Up
  <2>2. CASE CreateFails(LoopStep.machine, loop.at, faults) /\ UNCHANGED frame
    <3>1. machine'.state = "IDLE" /\ UNCHANGED <<current, mem, disk>>
      BY <1>7, <2>2 DEF CreateFails, NotifyFinalized, Step, Machine, EventState
    <3> QED
      BY <2>1, <2>2, <3>1 DEF CurrentRecords, PoolFinalizing, FrameConsistent,
         NothingSurvives, DisarmedIdle, SegmentFollowsMotion, EndedRecordsAreComplete,
         LockFree, Up, InEvent
  <2>3. ASSUME NEW e \in Event, CreateRecord(e, loop.at),
               frame' = [kind |-> "start", event |-> e, at |-> loop.at],
               machine' = LoopStep.machine, UNCHANGED current
        PROVE  IInv'
    <3>1. /\ WorkInv'
          /\ e # current
          /\ disk'[e].status = "recording" /\ mem'[e].status = "recording" /\ mem'[e].open
      BY <1>1, <1>2, <2>1, <2>3, CreateRecordKeeps
    <3>2. machine'.state = "MOTION_DETECTED"
      BY <1>7, <2>1, <2>3 DEF AnswerFits
    <3>3. FrameConsistent'
      BY <2>3, <3>1, <3>2 DEF FrameConsistent
    <3>4. SegmentFollowsMotion'
      BY <2>3 DEF SegmentFollowsMotion, LockFree
    <3> QED
      BY <2>1, <3>1, <3>3, <3>4 DEF WorkInv, NothingSurvives, DisarmedIdle, Up
  <2> QED
    BY <1>9, <2>2, <2>3 DEF LoopStart
<1>10. CASE LoopFinalize
  <2>1. /\ LoopStep.action = "FINALIZE_EVENT" /\ LockFree /\ Up /\ armed
        /\ machine' = NotifyFinalized(LoopStep.machine, loop.at)
        /\ frame' = [kind |-> "finalize", event |-> current, at |-> loop.at]
        /\ UNCHANGED <<armed, phase, current, mem, disk, pool>>
    BY <1>7, <1>10 DEF LoopFinalize, LoopEnters, Up
  <2>2. machine'.state = "IDLE"
    BY <1>7, <2>1 DEF NotifyFinalized, Step, Machine, EventState
  <2> QED
    BY <2>1, <2>2 DEF CurrentRecords, PoolFinalizing, FrameConsistent,
       NothingSurvives, DisarmedIdle, SegmentFollowsMotion, EndedRecordsAreComplete,
       LockFree, Up, InEvent
<1>11. CASE ResumeStart
  <2>1. /\ frame.kind = "start" /\ frame' = NoFrame /\ current' = frame.event
        /\ machine' = MarkRecording(machine) /\ Up /\ armed
        /\ UNCHANGED <<armed, phase, mem, disk, pool>>
    BY <1>11 DEF ResumeStart, Resumable, Up, DisarmedIdle, LockFree
  <2>2. machine'.state \in {"RECORDING", "IDLE"}
    BY <1>2, <2>1 DEF FrameConsistent, MarkRecording, Machine
  <2> QED
    BY <2>1, <2>2 DEF CurrentRecords, PoolFinalizing, FrameConsistent,
       NothingSurvives, DisarmedIdle, SegmentFollowsMotion, EndedRecordsAreComplete,
       LockFree, Up, InEvent, NoFrame
<1>12. CASE ResumeFinalize
  <2>1. /\ frame.kind = "finalize" /\ frame' = NoFrame /\ frame.event = current
        /\ machine.state = "IDLE" /\ Up /\ armed /\ UNCHANGED <<armed, phase, machine>>
    BY <1>12 DEF ResumeFinalize, Resumable, Up, DisarmedIdle, LockFree, FrameConsistent
  <2>2. WorkInv'
    <3>1. CASE current = NoEvent
      BY <1>1, <1>12, <2>1, <3>1 DEF ResumeFinalize, WorkInv, CurrentRecords, PoolFinalizing,
         EndedRecordsAreComplete
    <3>2. CASE current # NoEvent
      <4>1. current \in Event /\ CloseAndHandOver(current, frame.at, faults)
        BY <1>12, <2>1, <3>2 DEF ResumeFinalize, TypeOK
      <4> QED
        BY <1>1, <1>2, <4>1, CloseAndHandOverKeeps
    <3> QED
      BY <3>1, <3>2
  <2> QED
    BY <2>1, <2>2 DEF WorkInv, FrameConsistent, NothingSurvives, DisarmedIdle,
       SegmentFollowsMotion, LockFree, Up, InEvent, NoFrame
<1>13. CASE StopFinalize
  <2> DEFINE step == ForceFinalize(machine)
  <2>1. Up /\ Up' /\ phase = "running" /\ Apply(step, clock, faults) /\ UNCHANGED armed
        /\ frame' \in {frame, NoFrame}
    BY <1>13 DEF StopFinalize, Up
  <2>2. step \in Step /\ AnswerFits(step) /\ step.action \in {"NONE", "FINALIZE_EVENT"}
    BY <1>2, MachineTypes, AnswersFit, MachineAnswers
  <2>3. machine'.state = "IDLE" \/ machine' = machine
    <3>1. CASE InEvent(machine)
      <4>1. machine' = NotifyFinalized(step.machine, clock)
        BY <2>1, <3>1 DEF ForceFinalize, Finalize, Doing, Apply, FinalizeEvent
      <4> QED
        BY <2>2, <4>1 DEF NotifyFinalized, Step, Machine, EventState
    <3>2. CASE ~InEvent(machine)
      BY <2>1, <3>2 DEF ForceFinalize, Quietly, Doing, Apply
    <3> QED
      BY <3>1, <3>2
  <2>4. ~armed => machine' = machine
    <3> SUFFICES ASSUME ~armed PROVE machine' = machine
      OBVIOUS
    <3>1. ~InEvent(machine)
      BY <2>1 DEF DisarmedIdle
    <3> QED
      BY <2>1, <3>1 DEF ForceFinalize, Quietly, Doing, Apply
  <2> HIDE DEF step
  <2>5. /\ WorkInv'
        /\ \A x \in Event : x # current /\ disk[x].status # "absent" =>
                                mem'[x] = mem[x] /\ disk'[x] = disk[x]
        /\ current' \in {current, NoEvent}
        /\ (InEvent(machine) /\ current # NoEvent =>
                (mem[current].open <=> machine.state # "POST_MOTION"))
           => (InEvent(machine') /\ current' # NoEvent =>
                (mem'[current'].open <=> machine'.state # "POST_MOTION"))
    BY <1>1, <1>2, <2>1, <2>2, ApplyKeeps
  <2>6. FrameConsistent'
    <3>1. CASE frame' = NoFrame
      BY <3>1 DEF FrameConsistent, NoFrame
    <3>2. CASE frame' = frame /\ frame.kind = "start"
      BY <2>3, <2>5, <3>2, ControllerAssumption DEF FrameConsistent
    <3>3. CASE frame' = frame /\ frame.kind = "finalize"
      <4>1. machine.state = "IDLE" /\ frame.event = current
        BY <3>3 DEF FrameConsistent
      <4>2. UNCHANGED <<current, machine>>
        BY <2>1, <4>1 DEF step, ForceFinalize, InEvent, Quietly, Doing, Apply
      <4> QED
        BY <3>3, <4>1, <4>2 DEF FrameConsistent
    <3> QED
      BY <2>1, <3>1, <3>2, <3>3 DEF FrameConsistent
  <2>7. SegmentFollowsMotion'
    <3>1. CASE LockFree
      BY <2>5, <3>1 DEF SegmentFollowsMotion
    <3>2. CASE ~LockFree
      <4>1. CASE InEvent(machine)
        <5>1. machine'.state = "IDLE"
          <6>1. machine' = NotifyFinalized(step.machine, clock)
            BY <2>1, <4>1 DEF step, ForceFinalize, Finalize, Doing, Apply, FinalizeEvent
          <6> QED
            BY <2>2, <6>1 DEF NotifyFinalized, Step, Machine, EventState
        <5> QED
          BY <5>1 DEF SegmentFollowsMotion, InEvent
      <4>2. CASE ~InEvent(machine)
        BY <2>3, <4>2 DEF SegmentFollowsMotion, InEvent
      <4> QED
        BY <4>1, <4>2
    <3> QED
      BY <3>1, <3>2
  <2>8. DisarmedIdle'
    BY <2>1, <2>4 DEF DisarmedIdle, LockFree, NoFrame, InEvent, Up
  <2> QED
    BY <2>1, <2>5, <2>6, <2>7, <2>8 DEF WorkInv, NothingSurvives, Up
<1>14. CASE StopPir \/ StopApi \/ StopReturns
  BY <1>14 DEF StopPir, StopApi, StopReturns, CurrentRecords, PoolFinalizing,
     FrameConsistent, NothingSurvives, DisarmedIdle, SegmentFollowsMotion,
     EndedRecordsAreComplete, LockFree, Up, InEvent
<1>15. CASE Exit \/ Crash
  <2>1. Die
    BY <1>15 DEF Exit, Crash
  <2> QED
    BY <2>1 DEF Die, CurrentRecords, PoolFinalizing, FrameConsistent, NothingSurvives,
       DisarmedIdle, SegmentFollowsMotion, EndedRecordsAreComplete, LockFree, Up, InEvent,
       NoFrame, InitialMachine
<1>16. CASE Restart
  <2>1. machine = InitialMachine /\ current = NoEvent /\ pool = {} /\ frame = NoFrame
        /\ UNCHANGED <<machine, frame, current, mem, pool>> /\ phase' = "running"
    BY <1>16 DEF Restart, NothingSurvives
  <2>2. EndedRecordsAreComplete'
    <3> SUFFICES ASSUME NEW e \in Event, disk'[e].status \notin {"absent", "recording"}
                 PROVE  ~disk'[e].open /\ disk'[e].ended
      BY DEF EndedRecordsAreComplete
    <3>1. disk[e] \in Stored
          /\ disk' = [x \in Event |-> IF Active(disk[x]) THEN Interrupted(disk[x]) ELSE disk[x]]
      BY <1>16 DEF Restart, TypeOK
    <3>2. CASE Active(disk[e])
      BY <3>1, <3>2 DEF Interrupted, Stored
    <3>3. CASE ~Active(disk[e])
      BY <3>1, <3>3 DEF EndedRecordsAreComplete
    <3> QED
      BY <3>2, <3>3
  <2> QED
    BY <2>1, <2>2 DEF CurrentRecords, PoolFinalizing, FrameConsistent, NothingSurvives,
       DisarmedIdle, SegmentFollowsMotion, LockFree, Up, InEvent, NoFrame, InitialMachine
<1>17. ASSUME NEW e \in Event, Delete(e)
       PROVE  IInv'
  <2>1. disk[e].status \notin {"absent", "recording", "finalizing"} /\ Up
        /\ disk' = [disk EXCEPT ![e] = Written(Blank)] /\ mem' = [mem EXCEPT ![e] = Blank]
        /\ UNCHANGED <<machine, armed, phase, frame, current, pool>>
    BY <1>17 DEF Delete, Deletable, Active, Save
  <2>2. e \notin pool /\ e # current /\ (frame.kind # "none" => e # frame.event)
    BY <2>1, ControllerAssumption DEF CurrentRecords, PoolFinalizing, FrameConsistent, TypeOK
  <2>3. disk'[e].status = "absent"
        /\ \A x \in Event : x # e => mem'[x] = mem[x] /\ disk'[x] = disk[x]
    BY <2>1 DEF Written, Blank, TypeOK
  <2>4. current # NoEvent => current \in Event
    BY DEF TypeOK
  <2> QED
    BY <2>1, <2>2, <2>3, <2>4 DEF CurrentRecords, PoolFinalizing, FrameConsistent,
       NothingSurvives, DisarmedIdle, SegmentFollowsMotion, EndedRecordsAreComplete,
       LockFree, Up, InEvent, TypeOK
<1>18. ASSUME NEW e \in Event, FinishEvent(e)
       PROVE  IInv'
  <2> DEFINE done == [mem[e] EXCEPT !.status = "completed"]
  <2>1. Up /\ e \in pool /\ pool' = pool \ {e} /\ mem' = [mem EXCEPT ![e] = done]
        /\ disk' \in {disk, [disk EXCEPT ![e] = Written(done)]}
        /\ UNCHANGED <<machine, armed, phase, frame, current>>
    BY <1>18 DEF FinishEvent, Save
  <2>2. disk[e].status = "finalizing" /\ mem[e].status = "finalizing" /\ ~mem[e].open
        /\ mem[e].end # NoTime
    BY <2>1 DEF PoolFinalizing
  <2>3. ~Written(done).open /\ Written(done).ended
    BY <2>2 DEF Written, TypeOK, Object
  <2>4. e # current /\ (frame.kind # "none" => e # frame.event)
    BY <2>1, <2>2, ControllerAssumption DEF CurrentRecords, FrameConsistent, TypeOK
  <2> HIDE DEF done
  <2>5. disk'[e] \in {disk[e], Written(done)}
        /\ \A x \in Event : x # e => mem'[x] = mem[x] /\ disk'[x] = disk[x]
    BY <2>1 DEF TypeOK
  <2>6. current # NoEvent => current \in Event
    BY DEF TypeOK
  <2>7. EndedRecordsAreComplete'
    BY <2>3, <2>5 DEF EndedRecordsAreComplete
  <2>8. PoolFinalizing'
    BY <2>1, <2>5 DEF PoolFinalizing, TypeOK
  <2> QED
    BY <2>1, <2>4, <2>5, <2>6, <2>7, <2>8 DEF CurrentRecords, FrameConsistent,
       NothingSurvives, DisarmedIdle, SegmentFollowsMotion, LockFree, Up, InEvent
<1> QED
  BY <1>4, <1>5, <1>6, <1>8, <1>9, <1>10, <1>11, <1>12, <1>13, <1>14, <1>15, <1>16, <1>17,
     <1>18
  DEF Next, LoopBody, Stopping

---------------------------------------------------------------------------
(* The theorems *)

\* The invariant the rest follows from.
THEOREM Inductive == Spec => [](TypeOK /\ IInv)
<1>1. Init => TypeOK /\ IInv
  BY InitTypes, InitIInv
<1>2. TypeOK /\ IInv /\ [Next]_vars => (TypeOK /\ IInv)'
  BY StepTypes, StepIInv
<1> QED
  BY <1>1, <1>2, PTL DEF Spec

\* While the lock is free a disarmed camera has neither an event under way
\* nor latched motion that a later tick could act on.
THEOREM DisarmedIsQuiet == Spec => []DisarmedQuiet
<1>1. IInv => DisarmedQuiet
  BY DEF IInv, DisarmedIdle, DisarmedQuiet
<1> QED
  BY <1>1, Inductive, PTL

\* The open segment of the current event says whether motion is going on.
THEOREM SegmentsFollowMotion == Spec => []SegmentFollowsMotion
<1>1. IInv => SegmentFollowsMotion
  BY DEF IInv
<1> QED
  BY <1>1, Inductive, PTL

\* Whatever fails or crashes, a record that has left "recording" is closed and
\* has an end.
THEOREM EndedRecordsComplete == Spec => []EndedRecordsAreComplete
<1>1. IInv => EndedRecordsAreComplete
  BY DEF IInv
<1> QED
  BY <1>1, Inductive, PTL
=============================================================================
