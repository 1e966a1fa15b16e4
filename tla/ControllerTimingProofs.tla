------------------------- MODULE ControllerTimingProofs -------------------------
(***************************************************************************)
(* Proofs about the Controller's times: the cooldown between two events    *)
(* holds although the control loop and the PIR thread bring clock samples  *)
(* that are older than what happened while they waited for the lock, and   *)
(* no event outlives the cap by two rounds of the loop.                    *)
(***************************************************************************)
EXTENDS ControllerRecordProofs

---------------------------------------------------------------------------
(* The inductive invariant of the cooldown, on top of IInv *)

\* Samples are taken before they are used.
StampsPast ==
    /\ loop.at <= clock
    /\ pir.edge.at <= clock
    /\ \A e \in Event : mem[e].start <= clock

\* The end of motion that is on its way has left the line quiet.
EdgeFitsLine ==
    /\ pir.edge.kind = "end" => ~pir.stable
    /\ pir.edge.kind = "none" => pir.edge = NoEdge

\* An event has begun after the cooldown, by the sample it was begun with.
BegunAfterCooldown ==
    InEvent(machine) => machine.cooldownUntil <= machine.started /\ machine.started <= clock

\* A sample t, or the loop's own, is not older than the start of the event.
NotBeforeStart(t) == machine.started <= t \/ machine.started <= loop.at

\* The edge that will begin the quiet period, and the time that will end it: whichever
\* thread closes the event, it does so with a sample not older than its start.
LateEndEdge == InEvent(machine) /\ pir.edge.kind = "end" => NotBeforeStart(pir.edge.at)
QuietAfterStart == machine.state = "POST_MOTION" => NotBeforeStart(machine.quietUntil)

\* The start the machine remembers is the one in the event's record.
StartIsStored ==
    LockFree /\ InEvent(machine) /\ current # NoEvent => mem[current].start = machine.started

\* Between the two halves of the loop's critical section.
FrameStamped ==
    /\ ~LockFree => frame.at = loop.at
    /\ frame.kind = "start" =>
         /\ mem[frame.event].start = frame.at
         /\ InEvent(machine) => machine.started = frame.at
    /\ frame.kind = "finalize" =>
         /\ frame.event # NoEvent => mem[frame.event].start <= frame.at
         /\ frame.at + Cooldown <= machine.cooldownUntil

\* The machine's cooldown covers every event that this process has finished.
CooldownCovers ==
    \A e \in Event : mem[e].end # NoTime => mem[e].end + Cooldown <= machine.cooldownUntil

TimingInv ==
    /\ StampsPast
    /\ EdgeFitsLine
    /\ BegunAfterCooldown
    /\ LateEndEdge
    /\ QuietAfterStart
    /\ StartIsStored
    /\ FrameStamped
    /\ CooldownCovers

---------------------------------------------------------------------------
(* What an answer says about the times of the machine it comes with *)

\* Only START_EVENT sets the start of an event, to the sample of its caller, and no
\* answer touches the cooldown.
AnswerTimed(step, at) ==
    /\ step.action = "START_EVENT" =>
         /\ machine.state = "IDLE"
         /\ machine.cooldownUntil <= at
         /\ step.machine.state = "MOTION_DETECTED"
         /\ step.machine.started = at
    /\ step.action = "FINALIZE_EVENT" => InEvent(machine)
    /\ step.machine.cooldownUntil = machine.cooldownUntil
    /\ step.action \in {"NONE", "MOTION_RESUMED", "MOTION_PAUSED"} =>
         /\ InEvent(step.machine) <=> InEvent(machine)
         /\ step.machine.started = machine.started

LEMMA AnswersTimed ==
    ASSUME machine \in Machine, NEW at \in Nat
    PROVE  /\ AnswerTimed(OnMotionStart(machine, at), at)
           /\ AnswerTimed(OnMotionEnd(machine, at), at)
           /\ AnswerTimed(Tick(machine, at), at)
           /\ AnswerTimed(ForceFinalize(machine), at)
           /\ AnswerTimed(Suspend(machine), at)
           /\ AnswerTimed(Quietly(machine), at)
<1> USE DEF AnswerTimed, Machine, EventState, Quietly, Doing, Begin, Finalize, InEvent
<1>1. AnswerTimed(OnMotionStart(machine, at), at) /\ AnswerTimed(OnMotionEnd(machine, at), at)
  BY DEF OnMotionStart, OnMotionEnd
<1>2. AnswerTimed(Tick(machine, at), at)
  BY DEF Tick
<1>3. AnswerTimed(ForceFinalize(machine), at) /\ AnswerTimed(Suspend(machine), at)
  BY DEF ForceFinalize, Suspend
<1> QED
  BY <1>1, <1>2, <1>3

\* Only the end of motion sets the end of the quiet period.
LEMMA QuietPeriods ==
    ASSUME machine \in Machine, NEW at \in Nat,
           NEW step \in {OnMotionStart(machine, at), OnMotionEnd(machine, at),
                         Tick(machine, at), Suspend(machine), ForceFinalize(machine),
                         Quietly(machine)},
           step.machine.state = "POST_MOTION"
    PROVE  /\ InEvent(machine)
           /\ step.machine.started = machine.started
           /\ \/ /\ machine.state = "POST_MOTION"
                 /\ step.machine.quietUntil = machine.quietUntil
              \/ /\ step = OnMotionEnd(machine, at)
                 /\ step.machine.quietUntil = at + PostMotion
<1> USE DEF Machine, EventState, Quietly, Doing, Begin, Finalize, InEvent
<1>1. CASE step = OnMotionStart(machine, at)
  BY <1>1 DEF OnMotionStart
<1>2. CASE step = OnMotionEnd(machine, at)
  BY <1>2 DEF OnMotionEnd
<1>3. CASE step = Tick(machine, at)
  BY <1>3 DEF Tick
<1>4. CASE step = Suspend(machine)
  BY <1>4 DEF Suspend, ForceFinalize
<1>5. CASE step \in {ForceFinalize(machine), Quietly(machine)}
  BY <1>5 DEF ForceFinalize
<1> QED
  BY <1>1, <1>2, <1>3, <1>4, <1>5

---------------------------------------------------------------------------
(* What carrying out an answer does to the times *)

LEMMA CloseAndHandOverTimed ==
    ASSUME WorkTypes, NEW e \in Event, NEW at \in Nat, NEW f \in Nat,
           CloseAndHandOver(e, at, f), mem[e].start <= at
    PROVE  /\ mem'[e].start = mem[e].start
           /\ mem'[e].end \in {mem[e].end, at}
           /\ \A x \in Event : x # e => mem'[x] = mem[x]
<1> DEFINE closed == [mem[e] EXCEPT !.open = FALSE]
           done == [closed EXCEPT !.status = "finalizing", !.end = Later(at, closed.start)]
<1>1. mem[e] \in Object
  BY DEF WorkTypes
<1>2. closed.start = mem[e].start /\ closed.end = mem[e].end
      /\ done.start = mem[e].start /\ done.end = at
  BY <1>1 DEF Object, OptTime, NoTime, Later
<1>3. mem' \in {[mem EXCEPT ![e] = done], [mem EXCEPT ![e] = closed]}
  BY DEF CloseAndHandOver
<1> HIDE DEF closed, done
<1> QED
  BY <1>2, <1>3 DEF WorkTypes

\* The event under way is still the one it was.
SameEvent ==
    /\ InEvent(machine)
    /\ machine'.started = machine.started
    /\ machine'.cooldownUntil = machine.cooldownUntil
    /\ current' = current
    /\ current # NoEvent => mem'[current].start = mem[current].start

\* A new one has begun, with the sample at.
BegunWith(at) ==
    /\ machine'.state = "RECORDING"
    /\ machine'.started = at
    /\ machine'.cooldownUntil <= at
    /\ current' \in Event
    /\ mem'[current'].start = at

LEMMA ApplyTimed ==
    ASSUME WorkTypes, clock \in Nat, \A x \in Event : mem[x].start <= clock, CooldownCovers,
           NEW step \in Step, NEW at \in Nat, at <= clock, NEW f \in Nat,
           Apply(step, at, f), AnswerTimed(step, at),
           step.action = "FINALIZE_EVENT" =>
               /\ machine.cooldownUntil <= at
               /\ current # NoEvent => mem[current].start <= at
    PROVE  /\ CooldownCovers'
           /\ \A x \in Event : mem'[x].start <= clock
           /\ InEvent(machine') => \/ step.action # "START_EVENT" /\ SameEvent
                                   \/ step.action = "START_EVENT" /\ BegunWith(at)
           /\ machine'.state = "POST_MOTION" => machine' = step.machine
<1> USE DEF WorkTypes
<1>1. step.machine \in Machine /\ step.action \in ActionKind
  BY DEF Step
<1>2. machine.cooldownUntil \in Nat /\ at + Cooldown \in Nat
      /\ \A x \in Event : mem[x].start \in OptTime /\ mem[x].end \in OptTime
  BY TimingAssumption DEF Machine, Time, Object
<1>3. CASE step.action = "START_EVENT"
  <2>1. StartEvent(step.machine, at, f) /\ machine.cooldownUntil <= at
        /\ step.machine.state = "MOTION_DETECTED" /\ step.machine.started = at
        /\ step.machine.cooldownUntil = machine.cooldownUntil
    BY <1>3 DEF Apply, AnswerTimed
  <2>2. CASE CreateFails(step.machine, at, f)
    <3>1. machine'.state = "IDLE" /\ machine'.cooldownUntil = at + Cooldown /\ UNCHANGED mem
      BY <1>1, <2>2 DEF CreateFails, NotifyFinalized, Machine, EventState
    <3>2. machine.cooldownUntil <= machine'.cooldownUntil
      BY <1>2, <2>1, <3>1, TimingAssumption
    <3>3. CooldownCovers'
      BY <1>2, <3>1, <3>2, TimingAssumption DEF CooldownCovers, OptTime, NoTime
    <3> QED
      BY <3>1, <3>3 DEF InEvent
  <2>3. ASSUME NEW e \in Event, CreateRecord(e, at), current' = e,
               machine' = MarkRecording(step.machine)
        PROVE  CooldownCovers' /\ BegunWith(at) /\ \A x \in Event : mem'[x].start <= clock
    <3>1. machine'.state = "RECORDING" /\ machine'.started = at
          /\ machine'.cooldownUntil = machine.cooldownUntil
      BY <1>1, <2>1, <2>3 DEF MarkRecording, Machine
    <3>2. mem' = [mem EXCEPT ![e] = NewEvent(at)]
          /\ NewEvent(at).start = at /\ NewEvent(at).end = NoTime
      BY <2>3 DEF CreateRecord, NewEvent, Blank
    <3>3. mem'[e] = NewEvent(at) /\ \A x \in Event : x # e => mem'[x] = mem[x]
      BY <3>2
    <3>4. CooldownCovers'
      BY <3>1, <3>2, <3>3 DEF CooldownCovers
    <3> QED
      BY <2>1, <2>3, <3>1, <3>2, <3>3, <3>4 DEF BegunWith
  <2> QED
    BY <1>3, <2>1, <2>2, <2>3 DEF StartEvent, BegunWith
<1>4. CASE step.action \in {"MOTION_RESUMED", "MOTION_PAUSED"}
  <2>1. PICK b \in BOOLEAN : /\ SaveCurrent([mem[current] EXCEPT !.open = b], f)
                             /\ machine' = step.machine
                             /\ UNCHANGED current
    BY <1>4 DEF Apply
  <2>2. \A x \in Event : mem'[x].start = mem[x].start /\ mem'[x].end = mem[x].end
    <3>1. CASE current = NoEvent
      BY <2>1, <3>1 DEF SaveCurrent
    <3>2. CASE current # NoEvent
      <4> DEFINE r == [mem[current] EXCEPT !.open = b]
      <4>1. current \in Event /\ r.start = mem[current].start /\ r.end = mem[current].end
        BY <3>2 DEF Object
      <4>2. mem' = [mem EXCEPT ![current] = r]
        BY <2>1, <3>2 DEF SaveCurrent
      <4> HIDE DEF r
      <4> QED
        BY <4>1, <4>2
    <3> QED
      BY <3>1, <3>2
  <2>3. machine'.cooldownUntil = machine.cooldownUntil /\ machine'.started = machine.started
        /\ (InEvent(machine') <=> InEvent(machine))
    BY <1>4, <2>1 DEF AnswerTimed
  <2>4. CooldownCovers'
    BY <2>2, <2>3 DEF CooldownCovers
  <2> QED
    BY <1>4, <2>1, <2>2, <2>3, <2>4 DEF SameEvent
<1>5. CASE step.action = "FINALIZE_EVENT"
  <2>1. FinalizeEvent(step.machine, at, f)
    BY <1>5 DEF Apply
  <2>2. machine'.state = "IDLE" /\ machine'.cooldownUntil = at + Cooldown
    BY <1>1, <2>1 DEF FinalizeEvent, NotifyFinalized, Machine, EventState
  <2>3. machine.cooldownUntil <= machine'.cooldownUntil
    BY <1>2, <1>5, <2>2, TimingAssumption
  <2>4. ASSUME NEW x \in Event
        PROVE  mem'[x].start = mem[x].start /\ mem'[x].end \in {mem[x].end, at}
    <3>1. CASE current = NoEvent
      BY <2>1, <3>1 DEF FinalizeEvent
    <3>2. CASE current # NoEvent
      <4>1. current \in Event /\ CloseAndHandOver(current, at, f)
        BY <2>1, <3>2 DEF FinalizeEvent
      <4> QED
        BY <1>5, <3>2, <4>1, CloseAndHandOverTimed
    <3> QED
      BY <3>1, <3>2
  <2>5. CooldownCovers'
    <3> SUFFICES ASSUME NEW x \in Event, mem'[x].end # NoTime
                 PROVE  mem'[x].end + Cooldown <= machine'.cooldownUntil
      BY DEF CooldownCovers
    <3>1. CASE mem'[x].end = at
      BY <2>2, <3>1, TimingAssumption
    <3>2. CASE mem'[x].end = mem[x].end
      BY <1>2, <2>2, <2>3, <3>2, TimingAssumption DEF CooldownCovers, OptTime, NoTime
    <3> QED
      BY <2>4, <3>1, <3>2
  <2> QED
    BY <2>2, <2>4, <2>5 DEF InEvent
<1>6. CASE step.action = "NONE"
  <2>1. machine' = step.machine /\ UNCHANGED <<current, mem>>
    BY <1>6 DEF Apply
  <2> QED
    BY <1>6, <2>1 DEF AnswerTimed, CooldownCovers, SameEvent
<1> QED
  BY <1>1, <1>3, <1>4, <1>5, <1>6 DEF ActionKind

---------------------------------------------------------------------------
(* The invariant of the cooldown is kept by every step *)

LEMMA InitTimed == Init => TimingInv
<1> SUFFICES ASSUME Init PROVE TimingInv
  OBVIOUS
<1> QED
  BY DEF Init, TimingInv, StampsPast, EdgeFitsLine, BegunAfterCooldown, LateEndEdge,
     QuietAfterStart, StartIsStored, FrameStamped, CooldownCovers, IdlePir, NoEdge, NoFrame,
     InitialMachine, InEvent, Blank, NoTime, LockFree

\* A disarmed machine has no latched motion for the loop to suspend.
LEMMA LoopTicks ==
    ASSUME IInv, NEW kind, LoopEnters(kind)
    PROVE  LoopStep = Tick(machine, loop.at)
  BY DEF LoopEnters, LoopStep, IInv, DisarmedIdle, Up

\* When the control loop closes an event, its sample is not older than the event.
LEMMA LoopClosesLater ==
    ASSUME TypeOK, IInv, TimingInv, LoopEnters("FINALIZE_EVENT")
    PROVE  InEvent(machine) /\ machine.started <= loop.at
<1>1. Tick(machine, loop.at).action = "FINALIZE_EVENT"
  BY LoopTicks DEF LoopEnters
<1>2. /\ InEvent(machine)
      /\ \/ loop.at - machine.started >= MaxEvent
         \/ machine.state = "POST_MOTION" /\ loop.at >= machine.quietUntil
  BY <1>1 DEF Tick, Finalize, Begin, Quietly, Doing, InEvent
<1>3. loop.at \in Nat /\ machine.started \in Int /\ machine.quietUntil \in Int
  BY DEF TypeOK, Machine, OptTime, NoTime
<1>4. QuietAfterStart
  BY DEF TimingInv
<1> QED
  BY <1>2, <1>3, <1>4, TimingAssumption DEF QuietAfterStart, NotBeforeStart

LEMMA StepTimed == TypeOK /\ IInv /\ TimingInv /\ [Next]_vars => TimingInv'
<1> SUFFICES ASSUME TypeOK, IInv, TimingInv, [Next]_vars
             PROVE  TimingInv'
  OBVIOUS
<1>1. WorkTypes /\ WorkInv
  BY DEF TypeOK, WorkTypes, IInv, WorkInv
<1>2. /\ machine \in Machine /\ clock \in Nat /\ faults \in Nat /\ pir.edge.at \in Nat
      /\ loop.at \in Nat /\ frame.at \in Nat /\ mem \in [Event -> Object]
      /\ machine.started \in Int /\ machine.cooldownUntil \in Int /\ machine.quietUntil \in Int
      /\ Cooldown \in Nat /\ PostMotion \in Nat
  BY TimingAssumption DEF TypeOK, Machine, OptTime, Time, NoTime
<1>3. \A x \in Event : mem[x].start \in Int /\ mem[x].end \in Int
  BY <1>2 DEF Object, OptTime, NoTime
<1> USE DEF TimingInv
<1>4. CASE Poll
  <2>1. \/ pir'.edge = NoEdge
        \/ /\ pir'.edge.at = clock
           /\ pir'.edge.kind = IF pir.stable THEN "end" ELSE "start"
           /\ pir'.stable = ~pir.stable
        /\ UNCHANGED <<clock, machine, loop, frame, current, mem>>
    BY <1>4 DEF Poll
  <2>2. StampsPast' /\ EdgeFitsLine'
    BY <1>2, <1>4 DEF Poll, StampsPast, EdgeFitsLine, NoEdge
  <2>3. LateEndEdge'
    BY <1>2, <1>4 DEF Poll, LateEndEdge, NotBeforeStart, BegunAfterCooldown, NoEdge, InEvent
  <2> QED
    BY <2>1, <2>2, <2>3 DEF BegunAfterCooldown, QuietAfterStart, NotBeforeStart, StartIsStored,
       FrameStamped, CooldownCovers, LockFree, InEvent
<1>5. ASSUME UNCHANGED <<machine, pir, frame, current, mem>>,
             clock' \in Nat, clock <= clock', loop'.at \in Nat, loop.at <= loop'.at,
             loop'.at <= clock', LockFree \/ loop'.at = loop.at
      PROVE  TimingInv'
  BY <1>2, <1>3, <1>5 DEF StampsPast, EdgeFitsLine, BegunAfterCooldown, LateEndEdge,
     QuietAfterStart, NotBeforeStart, StartIsStored, FrameStamped, CooldownCovers, LockFree,
     InEvent
<1>6. CASE SampleClock \/ Advance \/ StopPir \/ StopApi \/ StopReturns \/ UNCHANGED vars
  <2>1. loop.at <= clock
    BY DEF StampsPast
  <2>2. CASE SampleClock
    BY <1>2, <1>5, <2>1, <2>2 DEF SampleClock
  <2>3. CASE Advance
    BY <1>2, <1>5, <2>1, <2>3 DEF Advance
  <2>4. CASE StopPir \/ StopApi \/ StopReturns \/ UNCHANGED vars
    BY <1>2, <1>5, <2>1, <2>4 DEF StopPir, StopApi, StopReturns, vars
  <2> QED
    BY <1>6, <2>2, <2>3, <2>4
\* What the threads that the lock serialises have in common.
<1>7. ASSUME UNCHANGED <<clock, loop, frame>>, LockFree,
             NEW at \in Nat, at <= clock, NEW f \in Nat,
             NEW step \in {OnMotionStart(machine, at), OnMotionEnd(machine, at),
                           Suspend(machine), Quietly(machine)},
             Apply(step, at, f),
             step.action = "FINALIZE_EVENT" => at = clock,
             pir' = pir \/ pir' = [pir EXCEPT !.edge = NoEdge],
             pir'.edge.kind = "end" => step.action # "START_EVENT",
             step = OnMotionEnd(machine, at) =>
                 (InEvent(machine) => NotBeforeStart(at))
      PROVE  TimingInv'
  <2>1. step \in Step /\ AnswerTimed(step, at)
    BY <1>2, <1>7, MachineTypes, AnswersTimed
  <2>2. step.action = "FINALIZE_EVENT" =>
            /\ machine.cooldownUntil <= at
            /\ current # NoEvent => mem[current].start <= at
    BY <1>2, <1>7, <2>1, <1>1, <1>3 DEF AnswerTimed, BegunAfterCooldown, StampsPast, WorkTypes
  <2>3. /\ CooldownCovers'
        /\ \A x \in Event : mem'[x].start <= clock
        /\ InEvent(machine') => \/ step.action # "START_EVENT" /\ SameEvent
                                \/ step.action = "START_EVENT" /\ BegunWith(at)
        /\ machine'.state = "POST_MOTION" => machine' = step.machine
    BY <1>1, <1>2, <1>7, <2>1, <2>2, ApplyTimed DEF StampsPast
  <2>4. StampsPast'
    BY <1>2, <1>7, <2>3 DEF StampsPast, NoEdge, TypeOK
  <2>5. EdgeFitsLine'
    BY <1>7 DEF EdgeFitsLine, NoEdge, TypeOK
  <2>6. BegunAfterCooldown'
    BY <1>2, <1>7, <2>3 DEF BegunAfterCooldown, SameEvent, BegunWith
  <2>7. LateEndEdge'
    BY <1>7, <2>3 DEF LateEndEdge, NotBeforeStart, SameEvent, NoEdge, TypeOK
  <2>8. QuietAfterStart'
    <3> SUFFICES ASSUME machine'.state = "POST_MOTION"
                 PROVE  NotBeforeStart(machine.quietUntil)'
      BY DEF QuietAfterStart
    <3>1. /\ machine' = step.machine /\ InEvent(machine)
          /\ step.machine.started = machine.started
          /\ \/ machine.state = "POST_MOTION" /\ step.machine.quietUntil = machine.quietUntil
             \/ step = OnMotionEnd(machine, at) /\ step.machine.quietUntil = at + PostMotion
      BY <1>2, <1>7, <2>3, QuietPeriods
    <3> QED
      BY <1>2, <1>7, <3>1 DEF QuietAfterStart, NotBeforeStart
  <2>9. StartIsStored'
    BY <1>7, <2>3 DEF StartIsStored, SameEvent, BegunWith
  <2>10. FrameStamped'
    BY <1>7 DEF FrameStamped, LockFree
  <2> QED
    BY <2>3, <2>4, <2>5, <2>6, <2>7, <2>8, <2>9, <2>10
<1>8. CASE OnMotionEdge
  <2>1. /\ EdgeStep \in {OnMotionStart(machine, pir.edge.at), OnMotionEnd(machine, pir.edge.at),
                         Quietly(machine)}
        /\ EdgeStep.action # "FINALIZE_EVENT"
    BY <1>2, MachineAnswers DEF EdgeStep, Quietly, Doing
  <2>2. EdgeStep = OnMotionEnd(machine, pir.edge.at) =>
            (InEvent(machine) => NotBeforeStart(pir.edge.at))
    <3> SUFFICES ASSUME EdgeStep = OnMotionEnd(machine, pir.edge.at), InEvent(machine)
                 PROVE  NotBeforeStart(pir.edge.at)
      OBVIOUS
    <3>1. CASE pir.edge.kind = "end"
      BY <3>1 DEF LateEndEdge
    <3>2. CASE pir.edge.kind = "none"
      BY <1>8, <3>2 DEF OnMotionEdge, EdgeFitsLine
    <3>3. CASE pir.edge.kind = "start"
      <4>1. EdgeStep = OnMotionStart(machine, pir.edge.at)
        BY <1>8, <3>3 DEF OnMotionEdge, EdgeStep, IInv, DisarmedIdle
      <4>2. ~OnMotionEnd(machine, pir.edge.at).machine.motion
        BY <1>2 DEF OnMotionEnd, Machine, Quietly, Doing
      <4>3. OnMotionStart(machine, pir.edge.at).machine.motion
        BY <1>2 DEF OnMotionStart, Machine, Quietly, Doing, Begin
      <4> QED
        BY <4>1, <4>2, <4>3
    <3> QED
      BY <3>1, <3>2, <3>3 DEF TypeOK
  <2>3. pir.edge.at <= clock /\ pir'.edge.kind # "end"
    BY <1>8 DEF OnMotionEdge, StampsPast, NoEdge, TypeOK
  <2> QED
    BY <1>2, <1>7, <1>8, <2>1, <2>2, <2>3 DEF OnMotionEdge
<1>9. CASE SetArmed
  <2>1. PICK f \in Nat, step \in {OnMotionStart(machine, clock), Quietly(machine),
                                  Suspend(machine)} :
          Apply(step, clock, f) /\ (step.action = "START_EVENT" => pir.stable)
    <3>1. PICK saved \in BOOLEAN :
            LET f == IF saved THEN faults ELSE faults + 1
            IN  IF armed'
                THEN Apply(IF pir.stable THEN OnMotionStart(machine, clock)
                           ELSE Quietly(machine), clock, f)
                ELSE Apply(Suspend(machine), clock, f)
      BY <1>9 DEF SetArmed
    <3>2. (IF saved THEN faults ELSE faults + 1) \in Nat
      BY <1>2
    <3>3. Suspend(machine).action # "START_EVENT" /\ Quietly(machine).action # "START_EVENT"
      BY <1>2, MachineAnswers DEF Quietly, Doing
    <3> QED
      BY <3>1, <3>2, <3>3
  <2>2. pir.edge.kind = "end" => step.action # "START_EVENT"
    BY <2>1 DEF EdgeFitsLine
  <2>3. step = OnMotionEnd(machine, clock) => (InEvent(machine) => NotBeforeStart(clock))
    BY DEF BegunAfterCooldown, NotBeforeStart
  <2> QED
    BY <1>2, <1>7, <1>9, <2>1, <2>2, <2>3 DEF SetArmed
<1>10. CASE LoopQuiet
  <2>1. machine' = machine
    BY <1>10, LoopTicks DEF LoopQuiet, LoopEnters, Tick, Finalize, Begin, Quietly, Doing
  <2>2. loop'.at = loop.at /\ loop.at <= clock /\ UNCHANGED <<clock, pir, frame, current, mem>>
    BY <1>10 DEF LoopQuiet, TypeOK, StampsPast
  <2> QED
    BY <1>2, <1>5, <2>1, <2>2
<1>11. CASE LoopStart
  <2>1. /\ LoopStep = Tick(machine, loop.at) /\ LoopStep.action = "START_EVENT"
        /\ LockFree /\ UNCHANGED <<clock, pir>> /\ loop'.at = loop.at
    BY <1>11, LoopTicks DEF LoopStart, LoopEnters, CreateFails, TypeOK
  <2>2. /\ machine.cooldownUntil <= loop.at
        /\ LoopStep.machine.state = "MOTION_DETECTED"
        /\ LoopStep.machine.started = loop.at
        /\ LoopStep.machine.cooldownUntil = machine.cooldownUntil
        /\ LoopStep.machine \in Machine
    BY <1>2, <2>1, AnswersTimed, MachineTypes DEF AnswerTimed, Step
  <2>3. CASE CreateFails(LoopStep.machine, loop.at, faults) /\ UNCHANGED frame
    <3>1. machine'.state = "IDLE" /\ machine'.cooldownUntil = loop.at + Cooldown
          /\ UNCHANGED <<current, mem>>
      BY <2>2, <2>3 DEF CreateFails, NotifyFinalized, Machine, EventState
    <3>2. machine.cooldownUntil <= machine'.cooldownUntil
      BY <1>2, <2>2, <3>1
    <3>3. CooldownCovers'
      BY <1>2, <1>3, <3>1, <3>2 DEF CooldownCovers
    <3>4. StampsPast' /\ EdgeFitsLine' /\ FrameStamped'
      BY <2>1, <2>3, <3>1 DEF StampsPast, EdgeFitsLine, FrameStamped, LockFree
    <3> QED
      BY <3>1, <3>3, <3>4 DEF BegunAfterCooldown, LateEndEdge, QuietAfterStart, StartIsStored,
         InEvent
  <2>4. ASSUME NEW e \in Event, CreateRecord(e, loop.at),
               frame' = [kind |-> "start", event |-> e, at |-> loop.at],
               machine' = LoopStep.machine
        PROVE  TimingInv'
    <3>1. /\ mem'[e].start = loop.at /\ mem'[e].end = NoTime
          /\ \A x \in Event : x # e => mem'[x] = mem[x]
      BY <1>2, <2>4 DEF CreateRecord, NewEvent, Blank
    <3>2. StampsPast' /\ EdgeFitsLine' /\ FrameStamped'
      BY <2>1, <2>2, <2>4, <3>1 DEF StampsPast, EdgeFitsLine, FrameStamped, LockFree
    <3>3. CooldownCovers'
      BY <2>2, <2>4, <3>1 DEF CooldownCovers
    <3> QED
      BY <1>2, <2>1, <2>2, <2>4, <3>2, <3>3 DEF BegunAfterCooldown, LateEndEdge, NotBeforeStart,
         QuietAfterStart, StartIsStored, LockFree, StampsPast
  <2> QED
    BY <1>11, <2>3, <2>4 DEF LoopStart
<1>12. CASE LoopFinalize
  <2>1. /\ InEvent(machine) /\ machine.started <= loop.at /\ LockFree
        /\ LoopStep.machine \in Machine
        /\ machine' = NotifyFinalized(LoopStep.machine, loop.at)
        /\ frame' = [kind |-> "finalize", event |-> current, at |-> loop.at]
        /\ UNCHANGED <<clock, pir, loop, current, mem>>
    BY <1>2, <1>12, LoopClosesLater, MachineTypes DEF LoopFinalize, LoopEnters, LoopStep, Step
  <2>2. machine'.state = "IDLE" /\ machine'.cooldownUntil = loop.at + Cooldown
    BY <2>1 DEF NotifyFinalized, Machine, EventState
  <2>3. machine.cooldownUntil <= machine'.cooldownUntil
    BY <1>2, <2>1, <2>2 DEF BegunAfterCooldown
  <2>4. CooldownCovers'
    BY <1>2, <1>3, <2>1, <2>2, <2>3 DEF CooldownCovers
  <2>5. FrameStamped'
    BY <1>2, <2>1, <2>2 DEF FrameStamped, StartIsStored
  <2>6. StampsPast' /\ EdgeFitsLine'
    BY <2>1 DEF StampsPast, EdgeFitsLine
  <2> QED
    BY <2>2, <2>4, <2>5, <2>6 DEF BegunAfterCooldown, LateEndEdge, QuietAfterStart,
       StartIsStored, InEvent
<1>13. CASE ResumeStart
  <2>1. /\ frame.kind = "start" /\ frame' = NoFrame /\ current' = frame.event
        /\ machine' = MarkRecording(machine) /\ loop'.at = loop.at
        /\ UNCHANGED <<clock, pir, mem>>
    BY <1>13 DEF ResumeStart, Resumable, TypeOK
  <2>2. /\ machine'.started = machine.started /\ machine'.cooldownUntil = machine.cooldownUntil
        /\ InEvent(machine') <=> InEvent(machine)
        /\ machine'.state # "POST_MOTION"
    BY <1>2, <2>1 DEF MarkRecording, Machine, InEvent, IInv, FrameConsistent
  <2>3. StampsPast' /\ EdgeFitsLine' /\ FrameStamped' /\ CooldownCovers'
    BY <2>1, <2>2 DEF StampsPast, EdgeFitsLine, FrameStamped, CooldownCovers, NoFrame, LockFree
  <2>4. StartIsStored'
    BY <2>1, <2>2 DEF StartIsStored, FrameStamped
  <2> QED
    BY <2>1, <2>2, <2>3, <2>4 DEF BegunAfterCooldown, LateEndEdge, NotBeforeStart,
       QuietAfterStart
<1>14. CASE ResumeFinalize
  <2>1. /\ frame.kind = "finalize" /\ frame' = NoFrame /\ machine.state = "IDLE"
        /\ loop'.at = loop.at /\ UNCHANGED <<clock, pir, machine>>
    BY <1>14 DEF ResumeFinalize, Resumable, IInv, FrameConsistent, TypeOK
  <2>2. ASSUME NEW x \in Event
        PROVE  mem'[x].start = mem[x].start /\ mem'[x].end \in {mem[x].end, frame.at}
    <3>1. CASE frame.event = NoEvent
      BY <1>14, <3>1 DEF ResumeFinalize
    <3>2. CASE frame.event # NoEvent
      <4>1. frame.event \in Event /\ CloseAndHandOver(frame.event, frame.at, faults)
            /\ mem[frame.event].start <= frame.at
        BY <1>14, <2>1, <3>2 DEF ResumeFinalize, TypeOK, FrameStamped
      <4> QED
        BY <1>1, <1>2, <4>1, CloseAndHandOverTimed
    <3> QED
      BY <3>1, <3>2
  <2>3. CooldownCovers'
    BY <2>1, <2>2 DEF CooldownCovers, FrameStamped
  <2>4. StampsPast' /\ EdgeFitsLine' /\ FrameStamped'
    BY <2>1, <2>2 DEF StampsPast, EdgeFitsLine, FrameStamped, NoFrame, LockFree
  <2> QED
    BY <2>1, <2>3, <2>4 DEF BegunAfterCooldown, LateEndEdge, QuietAfterStart, StartIsStored,
       InEvent
<1>15. CASE StopFinalize
  <2> DEFINE step == ForceFinalize(machine)
  <2>1. /\ Apply(step, clock, faults) /\ frame' \in {frame, NoFrame} /\ loop'.at = loop.at
        /\ UNCHANGED <<clock, pir>>
    BY <1>15 DEF StopFinalize, TypeOK
  <2>2. step \in Step /\ AnswerTimed(step, clock) /\ step.action \in {"NONE", "FINALIZE_EVENT"}
    BY <1>2, MachineTypes, AnswersTimed, MachineAnswers
  <2>3. step.action = "FINALIZE_EVENT" =>
            /\ machine.cooldownUntil <= clock
            /\ current # NoEvent => mem[current].start <= clock
    BY <1>1, <1>2, <1>3, <2>2 DEF AnswerTimed, BegunAfterCooldown, StampsPast, WorkTypes
  <2>4. machine'.state = "IDLE" \/ UNCHANGED <<machine, current, mem>>
    <3>1. CASE InEvent(machine)
      <4>1. machine' = NotifyFinalized(step.machine, clock)
        BY <2>1, <3>1 DEF ForceFinalize, Finalize, Doing, Apply, FinalizeEvent
      <4> QED
        BY <2>2, <4>1 DEF NotifyFinalized, Step, Machine, EventState
    <3>2. CASE ~InEvent(machine)
      BY <2>1, <3>2 DEF ForceFinalize, Quietly, Doing, Apply
    <3> QED
      BY <3>1, <3>2
  <2> HIDE DEF step
  <2>5. CooldownCovers' /\ \A x \in Event : mem'[x].start <= clock
    BY <1>1, <1>2, <2>1, <2>2, <2>3, ApplyTimed DEF StampsPast
  <2>6. StampsPast' /\ EdgeFitsLine'
    BY <2>1, <2>5 DEF StampsPast, EdgeFitsLine
  <2>7. FrameStamped'
    <3>1. CASE frame' = NoFrame \/ LockFree
      BY <2>1, <3>1 DEF FrameStamped, NoFrame, LockFree
    <3>2. CASE frame' = frame /\ frame.kind = "start"
      <4>1. mem'[frame.event] = mem[frame.event]
        BY <1>1, <1>2, <2>1, <2>2, <3>2, ApplyKeeps, ControllerAssumption
        DEF IInv, FrameConsistent
      <4> QED
        BY <2>1, <2>4, <3>2, <4>1 DEF FrameStamped, LockFree, InEvent
    <3>3. CASE frame' = frame /\ frame.kind = "finalize"
      <4>1. machine.state = "IDLE"
        BY <3>3 DEF IInv, FrameConsistent
      <4>2. UNCHANGED <<machine, current, mem>>
        BY <2>1, <4>1 DEF step, ForceFinalize, InEvent, Quietly, Doing, Apply
      <4> QED
        BY <2>1, <3>3, <4>2 DEF FrameStamped, LockFree
    <3> QED
      BY <2>1, <3>1, <3>2, <3>3 DEF TypeOK, LockFree
  <2>8. BegunAfterCooldown' /\ LateEndEdge' /\ QuietAfterStart'
    BY <2>1, <2>4 DEF BegunAfterCooldown, LateEndEdge, QuietAfterStart, NotBeforeStart, InEvent
  <2>9. StartIsStored'
    <3>1. CASE machine'.state = "IDLE"
      BY <3>1 DEF StartIsStored, InEvent
    <3>2. CASE UNCHANGED <<machine, current, mem>> /\ frame' = frame
      BY <3>2 DEF StartIsStored, LockFree
    <3>3. CASE UNCHANGED <<machine, current, mem>> /\ frame' = NoFrame
      <4>1. CASE InEvent(machine)
        <5>1. machine' = NotifyFinalized(step.machine, clock)
          BY <2>1, <4>1 DEF step, ForceFinalize, Finalize, Doing, Apply, FinalizeEvent
        <5> QED
          BY <2>2, <5>1 DEF NotifyFinalized, Step, Machine, EventState, StartIsStored, InEvent
      <4>2. CASE ~InEvent(machine)
        BY <3>3, <4>2 DEF StartIsStored
      <4> QED
        BY <4>1, <4>2
    <3> QED
      BY <2>1, <2>4, <3>1, <3>2, <3>3
  <2> QED
    BY <2>5, <2>6, <2>7, <2>8, <2>9
<1>16. CASE Exit \/ Crash
  <2>1. Die
    BY <1>16 DEF Exit, Crash
  <2> QED
    BY <1>2, <2>1 DEF Die, StampsPast, EdgeFitsLine, BegunAfterCooldown, LateEndEdge,
       QuietAfterStart, StartIsStored, FrameStamped, CooldownCovers, IdlePir, NoEdge, NoFrame,
       InitialMachine, InEvent, Blank, NoTime, LockFree
<1>17. CASE Restart
  <2>1. frame = NoFrame /\ machine = InitialMachine /\ loop'.at = clock
        /\ UNCHANGED <<clock, machine, pir, frame, current, mem>>
    BY <1>17 DEF Restart, IInv, NothingSurvives
  <2> QED
    BY <1>2, <1>5, <2>1 DEF StampsPast, NoFrame, LockFree
<1>18. ASSUME NEW e \in Event, Delete(e)
       PROVE  TimingInv'
  <2>1. /\ disk[e].status \notin {"absent", "recording", "finalizing"}
        /\ mem' = [mem EXCEPT ![e] = Blank]
        /\ UNCHANGED <<clock, machine, pir, loop, frame, current>>
    BY <1>18 DEF Delete, Deletable, Active
  <2>2. e # current /\ (~LockFree => e # frame.event)
    BY <2>1, ControllerAssumption DEF IInv, CurrentRecords, FrameConsistent, LockFree, TypeOK
  <2>3. mem'[e].start = NoTime /\ mem'[e].end = NoTime
        /\ \A x \in Event : x # e => mem'[x] = mem[x]
    BY <1>2, <2>1 DEF Blank
  <2>4. StampsPast' /\ CooldownCovers'
    BY <1>2, <2>1, <2>3 DEF StampsPast, CooldownCovers, NoTime
  <2>5. FrameStamped' /\ StartIsStored'
    BY <2>1, <2>2, <2>3 DEF FrameStamped, StartIsStored, LockFree, TypeOK, IInv, FrameConsistent
  <2> QED
    BY <2>1, <2>4, <2>5 DEF EdgeFitsLine, BegunAfterCooldown, LateEndEdge, QuietAfterStart,
       NotBeforeStart
<1>19. ASSUME NEW e \in Event, FinishEvent(e)
       PROVE  TimingInv'
  <2> DEFINE done == [mem[e] EXCEPT !.status = "completed"]
  <2>1. mem' = [mem EXCEPT ![e] = done] /\ UNCHANGED <<clock, machine, pir, loop, frame, current>>
    BY <1>19 DEF FinishEvent
  <2>2. done.start = mem[e].start /\ done.end = mem[e].end
    BY <1>2 DEF Object
  <2> HIDE DEF done
  <2>3. \A x \in Event : mem'[x].start = mem[x].start /\ mem'[x].end = mem[x].end
    BY <1>2, <2>1, <2>2
  <2>4. StampsPast' /\ CooldownCovers'
    BY <2>1, <2>3 DEF StampsPast, CooldownCovers
  <2>5. FrameStamped' /\ StartIsStored'
    BY <2>1, <2>3 DEF FrameStamped, StartIsStored, LockFree, TypeOK, IInv, FrameConsistent
  <2> QED
    BY <2>1, <2>4, <2>5 DEF EdgeFitsLine, BegunAfterCooldown, LateEndEdge, QuietAfterStart,
       NotBeforeStart
<1> QED
  BY <1>4, <1>6, <1>8, <1>9, <1>10, <1>11, <1>12, <1>13, <1>14, <1>15, <1>16, <1>17, <1>18,
     <1>19
  DEF Next, LoopBody, Stopping

---------------------------------------------------------------------------
(* The cooldown *)

\* Whoever begins an event does so with a sample that lies after the cooldown.
LEMMA StepBegins ==
    ASSUME TypeOK, IInv, TimingInv, [Next]_vars, NEW e \in Event,
           disk[e].status = "absent", disk'[e].status = "recording"
    PROVE  machine.cooldownUntil <= mem'[e].start
<1>1. WorkTypes /\ WorkInv /\ machine \in Machine /\ clock \in Nat /\ faults \in Nat
      /\ pir.edge.at \in Nat /\ loop.at \in Nat /\ frame.at \in Nat /\ disk \in [Event -> Stored]
      /\ mem \in [Event -> Object]
  BY DEF TypeOK, WorkTypes, IInv, WorkInv
<1>2. ASSUME NEW at \in Nat, CreateRecord(e, at)
      PROVE  mem'[e].start = at
  BY <1>1, <1>2 DEF CreateRecord, NewEvent, Blank
<1>3. ASSUME NEW x \in Event, NEW at \in Nat, CreateRecord(x, at)
      PROVE  x = e
  BY <1>1, <1>3 DEF CreateRecord, Save
<1>4. ASSUME NEW step \in Step, NEW at \in Nat, NEW f \in Nat, Apply(step, at, f),
             AnswerTimed(step, at)
      PROVE  machine.cooldownUntil <= mem'[e].start
  <2>1. step.action = "START_EVENT"
    BY <1>1, <1>4, ApplyMoves DEF Moves, Unmoved, SameStatus
  <2>2. StartEvent(step.machine, at, f) /\ machine.cooldownUntil <= at
    BY <1>4, <2>1 DEF Apply, AnswerTimed
  <2>3. CreateRecord(e, at)
    BY <1>3, <1>4, <2>2 DEF StartEvent, CreateFails
  <2> QED
    BY <1>2, <2>2, <2>3
<1>5. disk' # disk
  OBVIOUS
<1>6. CASE OnMotionEdge
  <2>1. EdgeStep \in Step /\ AnswerTimed(EdgeStep, pir.edge.at)
    BY <1>1, MachineTypes, AnswersTimed DEF EdgeStep
  <2> QED
    BY <1>1, <1>4, <1>6, <2>1 DEF OnMotionEdge
<1>7. CASE SetArmed
  <2>1. PICK f \in Nat, step \in {OnMotionStart(machine, clock), Quietly(machine),
                                  Suspend(machine)} : Apply(step, clock, f)
    <3>1. PICK saved \in BOOLEAN :
            LET f == IF saved THEN faults ELSE faults + 1
            IN  IF armed'
                THEN Apply(IF pir.stable THEN OnMotionStart(machine, clock)
                           ELSE Quietly(machine), clock, f)
                ELSE Apply(Suspend(machine), clock, f)
      BY <1>7 DEF SetArmed
    <3>2. (IF saved THEN faults ELSE faults + 1) \in Nat
      BY <1>1
    <3> QED
      BY <3>1, <3>2
  <2>2. step \in Step /\ AnswerTimed(step, clock)
    BY <1>1, MachineTypes, AnswersTimed
  <2> QED
    BY <1>1, <1>4, <2>1, <2>2
<1>8. CASE StopFinalize
  <2>1. ForceFinalize(machine) \in Step /\ AnswerTimed(ForceFinalize(machine), clock)
    BY <1>1, MachineTypes, AnswersTimed
  <2> QED
    BY <1>1, <1>4, <1>8, <2>1 DEF StopFinalize
<1>9. CASE LoopStart
  <2>1. LoopStep.action = "START_EVENT" /\ LoopStep = Tick(machine, loop.at)
    BY <1>9, LoopTicks DEF LoopStart, LoopEnters
  <2>2. machine.cooldownUntil <= loop.at
    BY <1>1, <2>1, AnswersTimed DEF AnswerTimed
  <2>3. CreateRecord(e, loop.at)
    BY <1>1, <1>3, <1>5, <1>9 DEF LoopStart, CreateFails
  <2> QED
    BY <1>1, <1>2, <2>2, <2>3
<1>10. CASE ResumeFinalize
  <2>1. frame.event = current /\ current \in Event \cup {NoEvent}
    BY <1>1, <1>10 DEF ResumeFinalize, Resumable, IInv, FrameConsistent, WorkTypes
  <2>2. current \in Event /\ CloseAndHandOver(current, frame.at, faults)
    BY <1>5, <1>10, <2>1 DEF ResumeFinalize
  <2>3. e = current \/ disk'[e] = disk[e]
    BY <1>1, <2>2, CloseAndHandOverKeeps
  <2>4. disk[current].status = "recording"
    BY <1>1, <2>2, ControllerAssumption DEF WorkInv, CurrentRecords
  <2> QED
    BY <2>3, <2>4
<1>11. ~Restart
  BY <1>1 DEF Restart, Active
<1>12. ~ \E x \in Event : Delete(x)
  BY <1>1 DEF Delete, Save, Written, Blank
<1>13. ASSUME NEW x \in Event, FinishEvent(x)
       PROVE  FALSE
  <2> DEFINE done == [mem[x] EXCEPT !.status = "completed"]
  <2>1. disk' \in {disk, [disk EXCEPT ![x] = Written(done)]}
    BY <1>13 DEF FinishEvent, Save
  <2>2. Written(done).status = "completed"
    BY <1>1 DEF Written, Object
  <2> HIDE DEF done
  <2> QED
    BY <1>1, <2>1, <2>2
<1> QED
  BY <1>5, <1>6, <1>7, <1>8, <1>9, <1>10, <1>11, <1>12, <1>13
  DEF Next, LoopBody, Stopping, Poll, SampleClock, LoopQuiet, LoopFinalize, ResumeStart,
      StopPir, StopApi, StopReturns, Exit, Crash, Die, Advance, vars

\* A new event starts no sooner than the cooldown after the end of every event this process
\* has finished, although the edges and the loop's ticks carry samples from before the
\* lock was theirs, saves fail, and the switch is thrown in between.
THEOREM CooldownHolds == Spec => CooldownBetweenEvents
<1>1. Init => TimingInv
  BY InitTimed
<1>2. TypeOK /\ IInv /\ TimingInv /\ [Next]_vars => TimingInv'
  BY StepTimed
<1>3. TypeOK /\ IInv /\ TimingInv /\ [Next]_vars =>
        [\A e, x \in Event :
             /\ disk[e].status = "absent" /\ disk'[e].status = "recording"
             /\ x # e /\ mem[x].end # NoTime
             => mem'[e].start >= mem[x].end + Cooldown]_vars
  <2> SUFFICES ASSUME TypeOK, IInv, TimingInv, [Next]_vars, TypeOK', NEW e \in Event,
                      NEW x \in Event, disk[e].status = "absent", disk'[e].status = "recording",
                      mem[x].end # NoTime
               PROVE  mem'[e].start >= mem[x].end + Cooldown
    BY StepTypes
  <2>1. machine.cooldownUntil <= mem'[e].start
    BY StepBegins
  <2>2. mem[x].end + Cooldown <= machine.cooldownUntil
    BY DEF TimingInv, CooldownCovers
  <2>3. mem'[e].start \in Int /\ mem[x].end \in Int /\ machine.cooldownUntil \in Int
        /\ Cooldown \in Int
    BY TimingAssumption DEF TypeOK, Machine, Time, Object, OptTime, NoTime
  <2> QED
    BY <2>1, <2>2, <2>3
<1> QED
  BY <1>1, <1>2, <1>3, Inductive, PTL DEF Spec, CooldownBetweenEvents

---------------------------------------------------------------------------
(* The cap *)

\* Nothing is on its way when the service starts again.
NothingOnItsWay == phase = "down" => pir = IdlePir

\* What Advance grants: neither the loop nor an edge is older than the latency.
InTime ==
    /\ phase = "running" /\ loop.pc # "raised" => clock <= loop.at + Latency
    /\ phase = "running" /\ pir.edge # NoEdge => clock <= pir.edge.at + Latency

\* The last sample that found the event below the cap, and the one being looked at.
CapIsNear ==
    phase = "running" /\ InEvent(machine) =>
        /\ loop.pc = "waiting" => loop.at < machine.started + MaxEvent
        /\ loop.pc = "sampled" => loop.at < machine.started + MaxEvent + Latency

\* The loop in its critical section has looked at its sample and is not done with it.
FrameInLoop == ~LockFree => loop.pc = "sampled"

CapInv == NothingOnItsWay /\ InTime /\ CapIsNear /\ FrameInLoop

LEMMA StepCapped ==
    ASSUME Latency < MaxEvent, TypeOK, IInv, TimingInv, CapInv, [Next]_vars
    PROVE  CapInv'
<1>1. /\ WorkTypes /\ machine \in Machine /\ clock \in Nat /\ faults \in Nat
      /\ pir.edge.at \in Nat /\ loop.at \in Nat /\ machine.started \in Int
      /\ Latency \in Nat /\ MaxEvent \in Nat
  BY TimingAssumption, ControllerAssumption
  DEF TypeOK, WorkTypes, Machine, OptTime, NoTime
<1>2. loop.at <= clock
  BY DEF TimingInv, StampsPast
<1> USE DEF CapInv
<1>3. ASSUME UNCHANGED <<clock, machine, pir, phase, loop, frame>>
      PROVE  CapInv'
  BY <1>3 DEF NothingOnItsWay, InTime, CapIsNear, InEvent, FrameInLoop, LockFree
<1>4. CASE Poll
  <2>1. pir'.edge = NoEdge \/ pir'.edge.at = clock
    BY <1>4 DEF Poll
  <2> QED
    BY <1>1, <1>4, <2>1 DEF Poll, NothingOnItsWay, InTime, CapIsNear, InEvent, FrameInLoop, LockFree
\* An event that has begun with a recent sample is new to the loop as well.
<1>5. ASSUME UNCHANGED <<clock, phase, loop>>, NEW at \in Nat, at <= clock,
             phase = "running" => clock <= at + Latency,
             NEW f \in Nat, NEW step \in Step, Apply(step, at, f), AnswerTimed(step, at),
             step.action = "FINALIZE_EVENT" => at = clock
      PROVE  CapIsNear'
  <2>1. step.action = "FINALIZE_EVENT" =>
            /\ machine.cooldownUntil <= at
            /\ current # NoEvent => mem[current].start <= at
    BY <1>1, <1>5 DEF AnswerTimed, TimingInv, BegunAfterCooldown, StampsPast, WorkTypes, Machine,
       Time
  <2>2. InEvent(machine') => SameEvent \/ BegunWith(at)
    BY <1>1, <1>5, <2>1, ApplyTimed DEF TimingInv, StampsPast
  <2>3. CASE SameEvent
    BY <1>5, <2>3 DEF CapIsNear, SameEvent
  <2>4. CASE BegunWith(at)
    BY <1>1, <1>2, <1>5, <2>4 DEF CapIsNear, BegunWith
  <2> QED
    BY <2>2, <2>3, <2>4 DEF CapIsNear
<1>6. CASE OnMotionEdge
  <2>1. EdgeStep \in Step /\ AnswerTimed(EdgeStep, pir.edge.at)
        /\ EdgeStep.action # "FINALIZE_EVENT"
    BY <1>1, MachineTypes, AnswersTimed, MachineAnswers DEF EdgeStep, Quietly, Doing
  <2>2. pir.edge.at <= clock /\ (phase = "running" => clock <= pir.edge.at + Latency)
    BY <1>6 DEF OnMotionEdge, InTime, TimingInv, StampsPast
  <2>3. CapIsNear'
    BY <1>1, <1>5, <1>6, <2>1, <2>2 DEF OnMotionEdge
  <2> QED
    BY <1>6, <2>3 DEF OnMotionEdge, NothingOnItsWay, InTime, Up, FrameInLoop, LockFree, TypeOK
<1>7. CASE SetArmed
  <2>1. PICK f \in Nat, step \in {OnMotionStart(machine, clock), Quietly(machine),
                                  Suspend(machine)} : Apply(step, clock, f)
    <3>1. PICK saved \in BOOLEAN :
            LET f == IF saved THEN faults ELSE faults + 1
            IN  IF armed'
                THEN Apply(IF pir.stable THEN OnMotionStart(machine, clock)
                           ELSE Quietly(machine), clock, f)
                ELSE Apply(Suspend(machine), clock, f)
      BY <1>7 DEF SetArmed
    <3>2. (IF saved THEN faults ELSE faults + 1) \in Nat
      BY <1>1
    <3> QED
      BY <3>1, <3>2
  <2>2. step \in Step /\ AnswerTimed(step, clock)
    BY <1>1, MachineTypes, AnswersTimed
  <2>3. CapIsNear'
    BY <1>1, <1>5, <1>7, <2>1, <2>2 DEF SetArmed
  <2> QED
    BY <1>7, <2>3 DEF SetArmed, NothingOnItsWay, InTime, FrameInLoop, LockFree
<1>8. CASE SampleClock
  BY <1>1, <1>8 DEF SampleClock, NothingOnItsWay, InTime, CapIsNear, InEvent, FrameInLoop,
     LockFree
<1>9. CASE LoopQuiet
  <2>1. Tick(machine, loop.at).action = "NONE" /\ machine' = machine
    BY <1>9, LoopTicks DEF LoopQuiet, LoopEnters, Tick, Finalize, Begin, Quietly, Doing
  <2>2. InEvent(machine) => machine.started # NoTime
    BY <1>1 DEF TimingInv, BegunAfterCooldown, Machine, Time, NoTime
  <2>3. InEvent(machine) => loop.at < machine.started + MaxEvent
    BY <1>1, <2>1, <2>2 DEF Tick, Finalize, Begin, Quietly, Doing, InEvent
  <2>4. loop' = [loop EXCEPT !.pc = "waiting"] /\ loop.pc = "sampled"
        /\ LockFree' /\ UNCHANGED <<clock, pir, phase>>
    BY <1>9 DEF LoopQuiet, LoopEnters, LockFree
  <2> QED
    BY <2>1, <2>3, <2>4 DEF NothingOnItsWay, InTime, CapIsNear, InEvent, FrameInLoop, TypeOK
<1>10. CASE LoopStart
  <2>1. /\ LoopStep.machine \in Machine /\ LoopStep.machine.started = loop.at
        /\ loop.pc = "sampled" /\ LockFree /\ UNCHANGED <<clock, pir, phase>>
    BY <1>1, <1>10, LoopTicks, MachineTypes, AnswersTimed
    DEF LoopStart, LoopEnters, AnswerTimed, Step
  <2>2. CASE loop' = loop /\ machine' = LoopStep.machine
    BY <1>1, <2>1, <2>2, TimingAssumption DEF NothingOnItsWay, InTime, CapIsNear, FrameInLoop
  <2>3. CASE CreateFails(LoopStep.machine, loop.at, faults) /\ frame' = frame
               /\ loop' = [loop EXCEPT !.pc = "waiting"]
    <3>1. machine'.state = "IDLE"
      BY <2>1, <2>3 DEF CreateFails, NotifyFinalized, Machine, EventState
    <3> QED
      BY <2>1, <2>3, <3>1 DEF NothingOnItsWay, InTime, CapIsNear, InEvent, FrameInLoop, LockFree,
         TypeOK
  <2> QED
    BY <1>10, <2>2, <2>3 DEF LoopStart
<1>11. CASE LoopFinalize
  <2>1. LoopStep.machine \in Machine
    BY <1>1, <1>11, MachineTypes, LoopTicks DEF LoopFinalize, Step
  <2>2. machine'.state = "IDLE"
    BY <1>11, <2>1 DEF LoopFinalize, NotifyFinalized, Machine, EventState
  <2>3. FrameInLoop'
    BY <1>11 DEF LoopFinalize, LoopEnters, FrameInLoop
  <2> QED
    BY <1>11, <2>2, <2>3 DEF LoopFinalize, NothingOnItsWay, InTime, CapIsNear, InEvent
<1>12. CASE ResumeStart
  <2>1. /\ frame.kind = "start" /\ machine' = MarkRecording(machine)
        /\ loop' = [loop EXCEPT !.pc = "waiting"] /\ UNCHANGED <<clock, pir, phase>>
    BY <1>12 DEF ResumeStart, Resumable
  <2>2. machine'.started = machine.started /\ (InEvent(machine') <=> InEvent(machine))
    BY <1>1, <2>1 DEF MarkRecording, Machine, InEvent
  <2>3. InEvent(machine) => machine.started = loop.at
    BY <2>1 DEF TimingInv, FrameStamped, LockFree
  <2>4. CapIsNear'
    BY <1>1, <2>1, <2>2, <2>3, TimingAssumption DEF CapIsNear, TypeOK
  <2>5. loop.pc = "sampled" /\ LockFree'
    BY <1>12, <2>1 DEF ResumeStart, Resumable, FrameInLoop, LockFree, NoFrame
  <2> QED
    BY <2>1, <2>4, <2>5 DEF NothingOnItsWay, InTime, FrameInLoop, TypeOK
<1>13. CASE ResumeFinalize
  <2>1. /\ frame.kind = "finalize" /\ machine.state = "IDLE" /\ LockFree'
        /\ loop'.at = loop.at /\ UNCHANGED <<clock, pir, phase, machine>>
    BY <1>13 DEF ResumeFinalize, Resumable, IInv, FrameConsistent, LockFree, NoFrame, TypeOK
  <2>2. loop.pc = "sampled"
    BY <2>1 DEF FrameInLoop, LockFree
  <2> QED
    BY <2>1, <2>2 DEF NothingOnItsWay, InTime, CapIsNear, InEvent, FrameInLoop
<1>14. CASE StopFinalize
  <2>1. phase' \in {"finalized", "exiting"}
        /\ (frame' = NoFrame \/ UNCHANGED <<frame, loop>>)
    BY <1>14 DEF StopFinalize
  <2> QED
    BY <2>1 DEF NothingOnItsWay, InTime, CapIsNear, FrameInLoop, LockFree, NoFrame
<1>15. CASE StopPir \/ StopApi \/ StopReturns
  BY <1>15 DEF StopPir, StopApi, StopReturns, NothingOnItsWay, InTime, CapIsNear, FrameInLoop,
     LockFree
<1>16. CASE Exit \/ Crash
  BY <1>16 DEF Exit, Crash, Die, NothingOnItsWay, InTime, CapIsNear, FrameInLoop, LockFree,
     NoFrame
<1>17. CASE Restart
  <2>1. machine' = InitialMachine /\ frame' = NoFrame /\ pir' = IdlePir /\ phase' = "running"
        /\ loop'.at = clock /\ clock' = clock
    BY <1>17 DEF Restart, IInv, NothingSurvives, NothingOnItsWay
  <2> QED
    BY <1>1, <2>1 DEF NothingOnItsWay, InTime, CapIsNear, InEvent, FrameInLoop, LockFree,
       NoFrame, InitialMachine, IdlePir
<1>18. CASE Advance
  BY <1>1, <1>18 DEF Advance, NothingOnItsWay, InTime, CapIsNear, InEvent, FrameInLoop, LockFree
<1>19. CASE UNCHANGED vars \/ \E e \in Event : Delete(e) \/ FinishEvent(e)
  BY <1>3, <1>19 DEF vars, Delete, FinishEvent
<1> QED
  BY <1>4, <1>6, <1>7, <1>8, <1>9, <1>10, <1>11, <1>12, <1>13, <1>14, <1>15, <1>16, <1>17,
     <1>18, <1>19
  DEF Next, LoopBody, Stopping

\* When a round of the loop, and the way of an edge to the lock, take less than
\* max_event_seconds, no event of a running service outlives the cap by two such rounds or
\* more.  A round is a tick of a quarter of a second, or a probe of MediaMTX and now and then a
\* systemctl; the cap is half an hour unless configured otherwise.
THEOREM CapHolds ==
    ASSUME Latency < MaxEvent
    PROVE  Spec => []EventsAreCapped
<1>1. Init => TimingInv
  BY InitTimed
<1>2. TypeOK /\ IInv /\ TimingInv /\ [Next]_vars => TimingInv'
  BY StepTimed
<1>3. Init => CapInv
  <2> SUFFICES ASSUME Init PROVE CapInv
    OBVIOUS
  <2> QED
    BY ControllerAssumption DEF Init, CapInv, NothingOnItsWay, InTime, CapIsNear, FrameInLoop,
       LockFree, NoFrame, InEvent, InitialMachine, IdlePir
<1>4. TypeOK /\ IInv /\ TimingInv /\ CapInv /\ [Next]_vars => CapInv'
  BY StepCapped
<1>5. TypeOK /\ TimingInv /\ CapInv => EventsAreCapped
  <2> SUFFICES ASSUME TypeOK, CapInv, phase = "running", loop.pc # "raised", InEvent(machine)
               PROVE  clock - machine.started < MaxEvent + 2 * Latency
    BY DEF EventsAreCapped
  <2>1. clock <= loop.at + Latency /\ loop.at < machine.started + MaxEvent + Latency
    BY TimingAssumption, ControllerAssumption
    DEF CapInv, InTime, CapIsNear, TypeOK, Machine, OptTime, NoTime
  <2> QED
    BY <2>1, TimingAssumption, ControllerAssumption DEF TypeOK, Machine, OptTime, NoTime
<1> QED
  BY <1>1, <1>2, <1>3, <1>4, <1>5, Inductive, PTL DEF Spec
=============================================================================
