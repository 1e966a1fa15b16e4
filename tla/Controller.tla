------------------------------- MODULE Controller -------------------------------
(***************************************************************************)
(* The Controller of main.py with the parts that meet under its lock: the  *)
(* motion state machine, the armed switch and its file, the debounced PIR  *)
(* line, the event being recorded, the event records on disk and the       *)
(* worker that extracts a finished event's clip.                           *)
(*                                                                         *)
(* Threads.  The PIR thread delivers edges, API threads arm and disarm,    *)
(* the main thread runs the control loop, and signal handlers run stop()   *)
(* on the main thread too, between two bytecodes of the control loop.  All *)
(* handlers hold one re-entrant lock, so each is one atomic step, except   *)
(* that stop() can start while the control loop is inside its own critical *)
(* section: the variable frame is the critical section so suspended.       *)
(***************************************************************************)
EXTENDS MotionStateMachine

CONSTANTS
    Event,          \* event directories the disk has room for
    NoEvent,
    ArmedDefault,   \* motion.armed_default
    Latency,        \* the longest the loop or an edge waits (see Advance)
    MaxTime,        \* bound: the clock stops here
    MaxFaults       \* bound: how many saves may fail

ASSUME ControllerAssumption ==
    /\ NoEvent \notin Event
    /\ ArmedDefault \in BOOLEAN
    /\ Latency \in Nat \ {0}
    /\ MaxTime \in Nat
    /\ MaxFaults \in Nat

VARIABLES
    clock,      \* the monotonic clock
    machine,    \* Controller.machine
    armed,      \* ArmingState._armed (after a crash: the value it had)
    armFile,    \* arm-state.json
    pir,        \* PirMonitor: the debounced line, an edge on its way
    phase,      \* how far stop() has come, or "down"
    loop,       \* the control loop: its program counter and clock sample
    frame,      \* a critical section of the loop that a signal may interrupt
    current,    \* Controller._current
    mem,        \* the Event objects of this process
    disk,       \* metadata.json of every event directory
    pool,       \* events whose on_event_finalized job is queued or running
    faults      \* saves that have failed so far

vars == <<clock, machine, armed, armFile, pir, phase, loop, frame, current,
          mem, disk, pool, faults>>

---------------------------------------------------------------------------
(* Values *)

Status == {"absent", "recording", "finalizing", "completed", "interrupted"}

\* An Event object; open says that its last motion segment has no end.  Of
\* its times, a record on disk keeps here whether it has an end at all.
Object == [status : Status, open : BOOLEAN, start : OptTime, end : OptTime]
Stored == [status : Status, open : BOOLEAN, ended : BOOLEAN]

Blank == [status |-> "absent", open |-> FALSE, start |-> NoTime, end |-> NoTime]

Written(r) == [status |-> r.status, open |-> r.open, ended |-> r.end # NoTime]

\* An event waiting for its clip does not count.
Active_Recording(r) == r.status = "recording"

Active(r) == r.status \in {"recording", "finalizing"}

NoEdge == [kind |-> "none", at |-> 0]
NoFrame == [kind |-> "none", event |-> NoEvent, at |-> 0]

IdlePir == [stable |-> FALSE, edge |-> NoEdge]

Phases == {"running", "finalized", "pirStopped", "closed", "stopped", "exiting", "down"}
Up == phase # "down"

LockFree == frame.kind = "none"

Free == {e \in Event : disk[e].status = "absent"}

Later(s, t) == IF s > t THEN s ELSE t

TypeOK ==
    /\ clock \in Nat
    /\ machine \in Machine
    /\ armed \in BOOLEAN
    /\ armFile \in {"none", "armed", "disarmed"}
    /\ pir \in [stable : BOOLEAN, edge : [kind : {"none", "start", "end"}, at : Nat]]
    /\ phase \in Phases
    /\ loop \in [pc : {"waiting", "sampled", "raised"}, at : Nat]
    /\ frame \in [kind : {"none", "start", "finalize"}, event : Event \cup {NoEvent}, at : Nat]
    /\ current \in Event \cup {NoEvent}
    /\ mem \in [Event -> Object]
    /\ disk \in [Event -> Stored]
    /\ pool \in SUBSET Event
    /\ faults \in Nat

Init ==
    /\ clock = 0
    /\ machine = InitialMachine
    /\ armed = ArmedDefault
    /\ armFile = "none"
    /\ pir = IdlePir
    /\ phase = "running"
    /\ loop = [pc |-> "waiting", at |-> 0]
    /\ frame = NoFrame
    /\ current = NoEvent
    /\ mem = [e \in Event |-> Blank]
    /\ disk = [e \in Event |-> Written(Blank)]
    /\ pool = {}
    /\ faults = 0

---------------------------------------------------------------------------
(* Carrying out the machine's answers.  In each operator f is the number   *)
(* of saves that had failed before it: faults' > f means that it raised.   *)

NewEvent(at) == [Blank EXCEPT !.status = "recording", !.open = TRUE, !.start = at]

Save(e, r) == disk' = [disk EXCEPT ![e] = Written(r)]

CanFail(f) == f < MaxFaults

\* EventStore.create: the directory and the first metadata.json.
CreateRecord(e, at) ==
    /\ e \in Free
    /\ mem' = [mem EXCEPT ![e] = NewEvent(at)]
    /\ Save(e, NewEvent(at))

\* create raised OSError (disk full or unwritable): the machine goes back to
\* idle and the motion is not recorded.
CreateFails_NotTold(m, at, f) ==
    /\ \/ Free = {} /\ faults' = f
       \/ CanFail(f) /\ faults' = f + 1
    /\ machine' = m
    /\ UNCHANGED <<current, mem, disk>>

CreateFails(m, at, f) ==
    /\ \/ Free = {} /\ faults' = f
       \/ CanFail(f) /\ faults' = f + 1
    /\ machine' = NotifyFinalized(m, at)
    /\ UNCHANGED <<current, mem, disk>>

StartEvent(m, at, f) ==
    \/ /\ \E e \in Event : CreateRecord(e, at) /\ current' = e
       /\ machine' = MarkRecording(m)
       /\ faults' = f
    \/ CreateFails(m, at, f)

\* _append_segment and _close_segment: change the Event object, then save it.
SaveCurrent(r, f) ==
    IF current = NoEvent
    THEN UNCHANGED <<mem, disk>> /\ faults' = f
    ELSE /\ mem' = [mem EXCEPT ![current] = r]
         /\ \/ Save(current, r) /\ faults' = f
            \/ CanFail(f) /\ disk' = disk /\ faults' = f + 1

\* TaskRunner.submit drops the job once the pool is closed, and the pool of
\* an exiting interpreter refuses it.
Submit(e) ==
    \/ phase \notin {"closed", "stopped"} /\ pool' = pool \cup {e}
    \/ phase \in {"closed", "stopped", "exiting"} /\ pool' = pool

\* _finalize_event after notify_finalized: close the segment and save, then
\* fill in the end and save again, then hand the event to the worker.
CloseAndHandOver(e, at, f) ==
    LET closed == [mem[e] EXCEPT !.open = FALSE]
        done == [closed EXCEPT !.status = "finalizing", !.end = Later(at, closed.start)]
    IN  \/ /\ mem' = [mem EXCEPT ![e] = done]
           /\ Save(e, done)
           /\ current' = NoEvent
           /\ Submit(e)
           /\ faults' = f
        \/ /\ CanFail(f)                       \* the first save raised
           /\ mem' = [mem EXCEPT ![e] = closed]
           /\ faults' = f + 1
           /\ UNCHANGED <<disk, current, pool>>
        \/ /\ CanFail(f)                       \* the second save raised
           /\ mem' = [mem EXCEPT ![e] = done]
           /\ Save(e, closed)
           /\ current' = NoEvent
           /\ faults' = f + 1
           /\ UNCHANGED pool

FinalizeEvent(m, at, f) ==
    /\ machine' = NotifyFinalized(m, at)
    /\ IF current = NoEvent
       THEN faults' = f /\ UNCHANGED <<current, mem, disk, pool>>
       ELSE CloseAndHandOver(current, at, f)

\* _apply, for the threads nothing interrupts.
Apply(step, at, f) ==
    CASE step.action = "START_EVENT" ->
            StartEvent(step.machine, at, f) /\ UNCHANGED pool
      [] step.action = "MOTION_RESUMED" ->
            /\ SaveCurrent([mem[current] EXCEPT !.open = TRUE], f)
            /\ machine' = step.machine
            /\ UNCHANGED <<current, pool>>
      [] step.action = "MOTION_PAUSED" ->
            /\ SaveCurrent([mem[current] EXCEPT !.open = FALSE], f)
            /\ machine' = step.machine
            /\ UNCHANGED <<current, pool>>
      [] step.action = "FINALIZE_EVENT" -> FinalizeEvent(step.machine, at, f)
      [] OTHER ->
            /\ machine' = step.machine
            /\ faults' = f
            /\ UNCHANGED <<current, mem, disk, pool>>

---------------------------------------------------------------------------
(* The PIR thread *)

PirPolling == phase \in {"running", "finalized", "exiting"}

\* A sample flips the debounced line.  The debouncer has consumed the edge
\* before poll_once looks at the warm-up, which starts with the service and
\* again whenever a failed sensor is reopened: then the edge is dropped.
Poll ==
    /\ phase \in {"running", "finalized", "exiting"}
    /\ pir.edge = NoEdge
    /\ \E warmingUp \in BOOLEAN :
         pir' = [stable |-> ~pir.stable,
                 edge |-> IF warmingUp THEN NoEdge
                          ELSE [kind |-> IF pir.stable THEN "end" ELSE "start",
                                at |-> clock]]
    /\ UNCHANGED <<clock, machine, armed, armFile, phase, loop, frame, current,
                   mem, disk, pool, faults>>

\* A disarmed camera hears the edge as well.
EdgeStep_Always ==
    IF pir.edge.kind = "start" THEN OnMotionStart(machine, pir.edge.at)
    ELSE OnMotionEnd(machine, pir.edge.at)

EdgeStep ==
    CASE ~armed -> Quietly(machine)
      [] armed /\ pir.edge.kind = "start" -> OnMotionStart(machine, pir.edge.at)
      [] OTHER -> OnMotionEnd(machine, pir.edge.at)

\* _on_motion_edge.  The edge carries the clock sample of its poll.  A save
\* that raises is swallowed by poll_once.
OnMotionEdge ==
    /\ Up
    /\ LockFree
    /\ pir.edge # NoEdge
    /\ pir' = [pir EXCEPT !.edge = NoEdge]
    /\ Apply(EdgeStep, pir.edge.at, faults)
    /\ UNCHANGED <<clock, armed, armFile, phase, loop, frame>>

---------------------------------------------------------------------------
(* API threads *)

\* set_armed with a value that changes the switch.  A failed save of the
\* switch is only logged.
SetArmed ==
    /\ phase \in {"running", "finalized", "pirStopped", "exiting"}
    /\ LockFree
    /\ armed' = ~armed
    /\ \E saved \in BOOLEAN :
         LET f == IF saved THEN faults ELSE faults + 1
             idle == Quietly(machine)
         IN  /\ saved \/ CanFail(faults)
             /\ armFile' = IF ~saved THEN armFile
                           ELSE IF armed' THEN "armed" ELSE "disarmed"
             /\ IF armed'
                THEN Apply(IF pir.stable THEN OnMotionStart(machine, clock) ELSE idle, clock, f)
                ELSE Apply(Suspend(machine), clock, f)
    /\ UNCHANGED <<clock, pir, phase, loop, frame>>

\* Only the event being recorded is protected.
Deletable_Finalizing(r) == r.status \notin {"absent", "recording"}

Deletable(r) == r.status # "absent" /\ ~Active(r)

\* EventStore.delete and retention remove whole directories, never of an
\* event that is still being produced.
Delete(e) ==
    /\ Up
    /\ Deletable(disk[e])
    /\ Save(e, Blank)
    /\ mem' = [mem EXCEPT ![e] = Blank]
    /\ UNCHANGED <<clock, machine, armed, armFile, pir, phase, loop, frame,
                   current, pool, faults>>

---------------------------------------------------------------------------
(* The main thread: the control loop *)

\* now = monotonic(), taken before the lock.
SampleClock ==
    /\ phase = "running"
    /\ LockFree
    /\ loop.pc = "waiting"
    /\ loop' = [pc |-> "sampled", at |-> clock]
    /\ UNCHANGED <<clock, machine, armed, armFile, pir, phase, frame, current,
                   mem, disk, pool, faults>>

\* What the loop does with the lock: it suspends a disarmed machine that has
\* latched motion (its tick then answers nothing), otherwise it ticks.
LoopStep ==
    IF ~armed /\ machine.motion THEN Suspend(machine) ELSE Tick(machine, loop.at)

LoopEnters(kind) ==
    /\ phase \in {"running", "stopped"}
    /\ LockFree
    /\ loop.pc = "sampled"
    /\ LoopStep.action = kind

LoopQuiet ==
    /\ LoopEnters("NONE")
    /\ machine' = LoopStep.machine
    /\ loop' = [loop EXCEPT !.pc = "waiting"]
    /\ UNCHANGED <<clock, armed, armFile, pir, phase, frame, current, mem, disk,
                   pool, faults>>

\* _start_event up to the return of create.
LoopStart ==
    /\ LoopEnters("START_EVENT")
    /\ \/ /\ \E e \in Event :
               /\ CreateRecord(e, loop.at)
               /\ frame' = [kind |-> "start", event |-> e, at |-> loop.at]
          /\ machine' = LoopStep.machine
          /\ UNCHANGED <<loop, current, faults>>
       \/ /\ CreateFails(LoopStep.machine, loop.at, faults)
          /\ loop' = [loop EXCEPT !.pc = "waiting"]
          /\ UNCHANGED frame
    /\ UNCHANGED <<clock, armed, armFile, pir, phase, pool>>

\* _finalize_event up to the return of notify_finalized.
LoopFinalize ==
    /\ LoopEnters("FINALIZE_EVENT")
    /\ machine' = NotifyFinalized(LoopStep.machine, loop.at)
    /\ frame' = [kind |-> "finalize", event |-> current, at |-> loop.at]
    /\ UNCHANGED <<clock, armed, armFile, pir, phase, loop, current, mem, disk,
                   pool, faults>>

\* The rest of the critical section, once no signal handler is in the way.
Resumable(kind) ==
    /\ phase \in {"running", "stopped"}
    /\ frame.kind = kind
    /\ frame' = NoFrame

ResumeStart ==
    /\ Resumable("start")
    /\ current' = frame.event
    /\ machine' = MarkRecording(machine)
    /\ loop' = [loop EXCEPT !.pc = "waiting"]
    /\ UNCHANGED <<clock, armed, armFile, pir, phase, mem, disk, pool, faults>>

\* An exception leaves run(), and main() goes on to stop().
ResumeFinalize ==
    /\ Resumable("finalize")
    /\ IF frame.event = NoEvent
       THEN UNCHANGED <<current, mem, disk, pool, faults>>
       ELSE CloseAndHandOver(frame.event, frame.at, faults)
    /\ loop' = [loop EXCEPT !.pc = IF faults' > faults THEN "raised" ELSE "waiting"]
    /\ UNCHANGED <<clock, machine, armed, armFile, pir, phase>>

---------------------------------------------------------------------------
(* The main thread: stop() *)

\* SIGTERM, SIGINT, or the end of run().  A save that raises ends the
\* handler, the loop and, through main(), the process.
StopFinalize ==
    /\ phase = "running"
    /\ Apply(ForceFinalize(machine), clock, faults)
    /\ IF faults' > faults
       THEN phase' = "exiting" /\ frame' = NoFrame /\ loop' = [loop EXCEPT !.pc = "raised"]
       ELSE phase' = "finalized" /\ UNCHANGED <<frame, loop>>
    /\ UNCHANGED <<clock, armed, armFile, pir>>

\* pir.stop joins its thread; the join times out when the thread waits for a
\* lock that the interrupted loop holds.
StopPir ==
    /\ phase = "finalized"
    /\ pir.edge = NoEdge \/ ~LockFree
    /\ phase' = "pirStopped"
    /\ UNCHANGED <<clock, machine, armed, armFile, pir, loop, frame, current, mem,
                   disk, pool, faults>>

\* api.stop, then the pool takes no more jobs.
StopApi ==
    /\ phase = "pirStopped"
    /\ phase' = "closed"
    /\ UNCHANGED <<clock, machine, armed, armFile, pir, loop, frame, current, mem,
                   disk, pool, faults>>

\* tasks.shutdown(wait=True) returns.
StopReturns ==
    /\ phase = "closed"
    /\ pool = {}
    /\ phase' = "stopped"
    /\ UNCHANGED <<clock, machine, armed, armFile, pir, loop, frame, current, mem,
                   disk, pool, faults>>

\* The process is gone, and with it everything but the files and the clock.
Die ==
    /\ phase' = "down"
    /\ machine' = InitialMachine
    /\ pir' = IdlePir
    /\ loop' = [pc |-> "waiting", at |-> 0]
    /\ frame' = NoFrame
    /\ current' = NoEvent
    /\ mem' = [e \in Event |-> Blank]
    /\ pool' = {}
    /\ UNCHANGED <<clock, armed, armFile, disk, faults>>

Exit ==
    /\ \/ phase = "stopped" /\ LockFree /\ loop.pc # "sampled"
       \/ phase = "exiting" /\ pool = {}
    /\ Die

---------------------------------------------------------------------------
(* Workers, power cuts and restarts *)

\* The end of on_event_finalized.  When a save raises, its handler saves
\* again; when that raises too the event stays as it was on disk.
FinishEvent(e) ==
    LET done == [mem[e] EXCEPT !.status = "completed"]
    IN  /\ Up
        /\ e \in pool
        /\ pool' = pool \ {e}
        /\ mem' = [mem EXCEPT ![e] = done]
        /\ \/ Save(e, done) /\ faults' = faults
           \/ CanFail(faults) /\ disk' = disk /\ faults' = faults + 1
        /\ UNCHANGED <<clock, machine, armed, armFile, pir, phase, loop, frame, current>>

Crash ==
    /\ Up
    /\ Die

\* The open segment is forgotten.
Interrupted_Segment(r) == [r EXCEPT !.status = "interrupted", !.ended = TRUE]

\* recover_interrupted.
Interrupted(r) ==
    [r EXCEPT !.status = "interrupted", !.open = FALSE, !.ended = TRUE]

\* "stored or default", which takes a stored False for nothing stored.
LoadedSwitch_OrDefault == ArmedDefault \/ armFile = "armed"

\* ArmingState._load.
LoadedSwitch == IF armFile = "none" THEN ArmedDefault ELSE armFile = "armed"

\* systemd starts the process again: the switch comes from its file, and
\* whatever was mid-flight is marked interrupted.
Restart ==
    /\ phase = "down"
    /\ phase' = "running"
    /\ disk' = [e \in Event |-> IF Active(disk[e]) THEN Interrupted(disk[e]) ELSE disk[e]]
    /\ armed' = LoadedSwitch
    /\ loop' = [pc |-> "waiting", at |-> clock]
    /\ UNCHANGED <<clock, machine, armFile, pir, frame, current, mem, pool, faults>>

\* Time passes, but the control loop takes a new sample, and an edge gets the
\* lock, within Latency: the real-time assumption EventsAreCapped rests on.
Advance ==
    /\ clock < MaxTime
    /\ phase = "running" /\ loop.pc # "raised" => clock < loop.at + Latency
    /\ phase = "running" /\ pir.edge # NoEdge => clock < pir.edge.at + Latency
    /\ clock' = clock + 1
    /\ UNCHANGED <<machine, armed, armFile, pir, phase, loop, frame, current, mem,
                   disk, pool, faults>>

LoopBody == LoopQuiet \/ LoopStart \/ LoopFinalize \/ ResumeStart \/ ResumeFinalize

Stopping == StopPir \/ StopApi \/ StopReturns \/ Exit

Next ==
    \/ Poll \/ OnMotionEdge
    \/ SetArmed
    \/ SampleClock \/ LoopBody
    \/ StopFinalize \/ Stopping
    \/ Crash \/ Restart \/ Advance
    \/ \E e \in Event : Delete(e) \/ FinishEvent(e)

Spec == Init /\ [][Next]_vars

\* The control loop, the PIR thread, the workers and a stop() under way keep
\* running, and systemd restarts the service.  Users, motion and power cuts
\* owe nothing.
Fairness ==
    /\ WF_vars(SampleClock) /\ WF_vars(LoopBody)
    /\ WF_vars(OnMotionEdge)
    /\ WF_vars(Stopping) /\ WF_vars(Restart)
    /\ \A e \in Event : WF_vars(FinishEvent(e))

FairSpec == Spec /\ Fairness
---------------------------------------------------------------------------
(* Safety *)

\* A disarmed camera has no event under way and no motion latched, so no
\* later tick can start one, whatever edge was waiting for the lock when the
\* switch was thrown (set_armed, _on_motion_edge, the check in run).
DisarmedQuiet ==
    Up /\ LockFree /\ ~armed => ~machine.motion /\ ~InEvent(machine)

\* Whenever the lock is free, machine, current event, records and worker agree:
\* the machine is in an event exactly when the controller holds one, that event
\* is the only one "recording" on disk, and the "finalizing" ones are exactly
\* those with a worker's job.  Neither a failed create, nor a finalization by
\* any thread, nor a worker that finishes meanwhile leaves one of them behind
\* (unless a save failed, or stop() ran inside the loop's critical section).
RecordsAgree ==
    phase = "running" /\ LockFree /\ faults = 0 =>
        /\ InEvent(machine) <=> current # NoEvent
        /\ {e \in Event : disk[e].status = "recording"} = {current} \ {NoEvent}
        /\ {e \in Event : disk[e].status = "finalizing"} = pool

\* The open segment of the event being recorded says whether motion is going
\* on: it is closed in the quiet period and reopened when motion resumes
\* (_append_segment, _close_segment).  Both sides change in different calls.
SegmentFollowsMotion ==
    LockFree /\ InEvent(machine) /\ current # NoEvent =>
        (mem[current].open <=> machine.state # "POST_MOTION")

\* A record that has left "recording" has every segment closed and has
\* an end, however it ended: by the machine,
\* by stop(), or by recover_interrupted after a crash.
EndedRecordsAreComplete ==
    \A e \in Event : disk[e].status \notin {"absent", "recording"} =>
        ~disk[e].open /\ disk[e].ended

\* No event outlives max_event_seconds by two rounds of the control loop or
\* more: resumed motion does not postpone the cap.
EventsAreCapped ==
    phase = "running" /\ loop.pc # "raised" /\ LockFree /\ InEvent(machine) =>
        clock - machine.started < MaxEvent + 2 * Latency

---------------------------------------------------------------------------
(* What a step may never do *)

\* An event is only ever begun by an armed camera.
EventsBeginArmed ==
    [][\A e \in Event : disk[e].status = "absent" /\ disk'[e].status = "recording"
            => armed']_vars

\* A new event starts no sooner than the cooldown after the end of every
\* event this process has finished, also when its edge was stamped before
\* the earlier event was finalized and waited for the lock.
CooldownBetweenEvents ==
    [][\A e, x \in Event :
         /\ disk[e].status = "absent" /\ disk'[e].status = "recording"
         /\ x # e /\ mem[x].end # NoTime
         => mem'[e].start >= mem[x].end + Cooldown]_vars

\* A restart finds the switch as it was left (the class docstring of
\* ArmingState: a restart or power cut does not silently re-arm), unless the
\* save of the switch failed.
RestartKeepsSwitch ==
    [][phase = "down" /\ phase' = "running" /\ faults = 0 => armed' = armed]_vars

\* The life cycle of an event's record on disk, as EventLifecycle states it.
Lifecycle == INSTANCE EventLifecycle
                WITH status <- [e \in Event |-> disk[e].status], serving <- Up

RecordsFollowLifecycle == Lifecycle!Spec

---------------------------------------------------------------------------
(* Liveness, under FairSpec *)

\* An event handed to the workers does not stay "finalizing": it is completed,
\* or a restart marks it interrupted, even when stop() dropped its job.
FinalizingEnds ==
    \A e \in Event : faults = 0 /\ disk[e].status = "finalizing"
        ~> disk[e].status # "finalizing" \/ faults > 0

\* Motion that is still latched when the cooldown is over gets its event (or
\* its attempt to create one), although it brings no new edge.
LatchedMotionIsRecorded ==
    phase = "running" /\ armed /\ machine.motion /\ machine.state = "IDLE"
        /\ loop.at >= machine.cooldownUntil /\ Free # {} /\ faults = 0
    ~> \/ InEvent(machine)
       \/ phase # "running" \/ ~armed \/ ~machine.motion \/ Free = {} \/ faults > 0

---------------------------------------------------------------------------
(* What the comments say and the code does not do *)

\* stop(): "Finalize any running event, then shut down cleanly."  When no
\* save failed, an orderly exit leaves no event "recording".
StopFinalizesEverything ==
    [][phase = "stopped" /\ phase' = "down" /\ faults = 0
          /\ loop.pc = "waiting" /\ LockFree
        => \A e \in Event : disk'[e].status # "recording"]_vars

\* Event.active: "True while the event is still being produced and must not be
\* deleted."  An active record of a running service belongs to the current
\* event, to a worker's job, or to the interrupted critical section.
ActiveIsBeingProduced ==
    phase = "running" /\ loop.pc # "raised" =>
        \A e \in Event : Active(disk[e]) => e = current \/ e \in pool \/ e = frame.event

\* tick(): "Motion never stopped after the previous event was capped; start the
\* next one."  When nobody has touched the switch and the control loop starts
\* an event by itself, the debounced line is active, or its end is an edge
\* still on its way.
LoopStartsOnMotion ==
    [][phase = "running" /\ armFile = "none"
          /\ frame.kind = "none" /\ frame'.kind = "start"
        => pir.stable \/ pir.edge.kind = "end"]_vars
=============================================================================
