--------------------------- MODULE MotionStateMachine ---------------------------
(***************************************************************************)
(* The event state machine of statemachine.py: a pure object that is told  *)
(* of debounced motion edges and of the passing of time, and answers with  *)
(* the action its owner has to carry out.  Every input is an operator that *)
(* takes the machine and the caller's clock sample and returns the new     *)
(* machine together with that action.                                      *)
(*                                                                         *)
(* Left out: _last_motion_at and the reason of a finalization, which only  *)
(* diagnostics and the web UI read.                                        *)
(***************************************************************************)
EXTENDS Integers

CONSTANTS
    PostMotion,   \* post_motion_seconds: quiet time before an event is closed
    MaxEvent,     \* max_event_seconds: the cap on one event
    Cooldown      \* cooldown_seconds: pause between two events

(***************************************************************************)
(* The configuration validator (config.py) accepts a post-motion time of   *)
(* at least 1 s, a cooldown of 0 s or more, and a cap above the post-motion*)
(* time.                                                                   *)
(***************************************************************************)
ASSUME TimingAssumption ==
    /\ PostMotion \in Nat \ {0}
    /\ MaxEvent \in Nat
    /\ MaxEvent > PostMotion
    /\ Cooldown \in Nat

NoTime == -1                     \* a timer that is not set (None)
Time == Nat
OptTime == Nat \cup {NoTime}

EventState == {"IDLE", "MOTION_DETECTED", "RECORDING", "POST_MOTION", "FINALIZING"}

ActionKind == {"NONE", "START_EVENT", "MOTION_RESUMED", "MOTION_PAUSED", "FINALIZE_EVENT"}

Machine == [state : EventState, motion : BOOLEAN, started : OptTime,
            quietUntil : OptTime, cooldownUntil : Time]

Step == [machine : Machine, action : ActionKind]

InitialMachine ==
    [state |-> "IDLE", motion |-> FALSE, started |-> NoTime,
     quietUntil |-> NoTime, cooldownUntil |-> 0]

InEvent(m) == m.state \in {"MOTION_DETECTED", "RECORDING", "POST_MOTION"}

Doing(m, kind) == [machine |-> m, action |-> kind]
Quietly(m) == Doing(m, "NONE")

Begin(m, at) ==
    Doing([m EXCEPT !.state = "MOTION_DETECTED", !.started = at, !.quietUntil = NoTime],
          "START_EVENT")

Finalize(m) == Doing([m EXCEPT !.state = "FINALIZING"], "FINALIZE_EVENT")

---------------------------------------------------------------------------
(* Inputs.  An operator named X_Y is X with the slip Y, for the mutation   *)
(* checks: the property it is meant for must fail with it.                 *)

\* Motion resumes without an answer, so no segment is opened.
OnMotionStart_Unanswered(m, at) ==
    LET latched == [m EXCEPT !.motion = TRUE]
    IN  CASE m.state = "IDLE" /\ at >= m.cooldownUntil -> Begin(latched, at)
          [] m.state = "POST_MOTION" ->
                Quietly([latched EXCEPT !.state = "RECORDING", !.quietUntil = NoTime])
          [] OTHER -> Quietly(latched)

OnMotionStart(m, at) ==
    LET latched == [m EXCEPT !.motion = TRUE]
    IN  CASE m.state = "IDLE" /\ at >= m.cooldownUntil -> Begin(latched, at)
          [] m.state = "POST_MOTION" ->
                Doing([latched EXCEPT !.state = "RECORDING", !.quietUntil = NoTime],
                      "MOTION_RESUMED")
          [] OTHER -> Quietly(latched)

OnMotionEnd(m, at) ==
    LET unlatched == [m EXCEPT !.motion = FALSE]
    IN  IF m.state \in {"MOTION_DETECTED", "RECORDING"}
        THEN Doing([unlatched EXCEPT !.state = "POST_MOTION", !.quietUntil = at + PostMotion],
                   "MOTION_PAUSED")
        ELSE Quietly(unlatched)

MarkRecording(m) ==
    IF m.state = "MOTION_DETECTED" THEN [m EXCEPT !.state = "RECORDING"] ELSE m

\* The cap is only looked at in the quiet period.
Tick_QuietCap(m, at) ==
    CASE m.state = "POST_MOTION" /\ (at - m.started >= MaxEvent \/ at >= m.quietUntil) ->
            Finalize(m)
      [] m.state = "IDLE" /\ m.motion /\ at >= m.cooldownUntil -> Begin(m, at)
      [] OTHER -> Quietly(m)

\* Latched motion starts the next event without waiting for the cooldown.
Tick_NoCooldown(m, at) ==
    CASE InEvent(m) /\ at - m.started >= MaxEvent -> Finalize(m)
      [] m.state = "POST_MOTION" /\ at - m.started < MaxEvent /\ at >= m.quietUntil ->
            Finalize(m)
      [] m.state = "IDLE" /\ m.motion -> Begin(m, at)
      [] OTHER -> Quietly(m)

\* Only an edge starts an event.
Tick_EdgesOnly(m, at) ==
    CASE InEvent(m) /\ at - m.started >= MaxEvent -> Finalize(m)
      [] m.state = "POST_MOTION" /\ at - m.started < MaxEvent /\ at >= m.quietUntil ->
            Finalize(m)
      [] OTHER -> Quietly(m)

\* The only source of timeouts.  The cap wins over the quiet period, and an
\* idle machine whose motion is still latched starts the next event.
Tick(m, at) ==
    CASE InEvent(m) /\ m.started # NoTime /\ at - m.started >= MaxEvent ->
            Finalize(m)
      [] /\ m.state = "POST_MOTION" /\ m.started # NoTime /\ at - m.started < MaxEvent
         /\ m.quietUntil # NoTime /\ at >= m.quietUntil ->
            Finalize(m)
      [] m.state = "IDLE" /\ m.motion /\ at >= m.cooldownUntil -> Begin(m, at)
      [] OTHER -> Quietly(m)

ForceFinalize(m) == IF InEvent(m) THEN Finalize(m) ELSE Quietly(m)

\* The latched motion survives.
Suspend_Latched(m) == ForceFinalize(m)

\* Finalize and drop the latched motion, so Tick cannot start a replacement.
Suspend(m) == ForceFinalize([m EXCEPT !.motion = FALSE])

\* Every timer is cleared.
NotifyFinalized_ClearsAll(m, at) ==
    [m EXCEPT !.state = "IDLE", !.started = NoTime, !.quietUntil = NoTime,
              !.cooldownUntil = NoTime]

NotifyFinalized(m, at) ==
    [m EXCEPT !.state = "IDLE", !.started = NoTime, !.quietUntil = NoTime,
              !.cooldownUntil = at + Cooldown]
=============================================================================
