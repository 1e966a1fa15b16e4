------------------------------- MODULE Supervisor -------------------------------
(***************************************************************************)
(* The main thread (main.py run) as far as it waits for others: it probes  *)
(* MediaMTX and, after a long outage, asks systemd to restart it           *)
(* (mediamtx.py MediaMTXSupervisor), and between these calls it feeds the  *)
(* watchdog that would otherwise restart SecureCam itself.                 *)
(***************************************************************************)
EXTENDS Ticks

CONSTANTS
    SupCheck,           \* 15 s between two probes
    SupPing,            \* _watchdog_interval(): half of the watchdog's period
    SupRestartAfter,    \* restart_after_seconds
    SupMinGap,          \* _min_restart_interval
    SupProbe,           \* the longest probe: the client's timeout
    SupRestart,         \* the longest systemctl: its timeout
    SupWatchdog         \* WATCHDOG_USEC

ASSUME SupAssumption ==
    /\ {SupCheck, SupPing, SupMinGap, SupWatchdog} \subseteq Nat \ {0}
    /\ {SupRestartAfter, SupProbe, SupRestart} \subseteq Nat

VARIABLES
    supAt,          \* where the thread is: "start", "top" or "end" of a turn
    supCheckAge,    \* time since _last_stream_check
    supPingLeft,    \* time until next_ping
    supPingDue,     \* now >= next_ping, for the now of this turn
    supDown,        \* _unhealthy_since is set
    supOutage,      \* and the time since then
    supRestartAge,  \* time since _last_restart
    supSilence,     \* history: time since systemd heard of the service
    supReadyAge,    \* history: time since a probe found the path ready (or the start)
    supIssued       \* history: time since a restart was asked for

supVars == <<supAt, supCheckAge, supPingLeft, supPingDue, supDown, supOutage,
             supRestartAge, supSilence, supReadyAge, supIssued>>

-----------------------------------------------------------------------------
(* check(), by what the probe found.  d is the time the probe took.        *)

\* The path is ready: the outage, if any, is over.
SupHealthy(d) ==
    /\ supDown' = FALSE
    /\ supOutage' = 0
    /\ supRestartAge' = Older(supRestartAge, d, SupMinGap)
    /\ supReadyAge' = 0
    /\ supIssued' = Older(supIssued, d, SupMinGap)

\* It is not, and no restart is due.  The outage begins when its first probe does.
SupUnhealthy_Anew(d) ==
    /\ supDown' = TRUE
    /\ supOutage' = Older(0, d, SupRestartAfter)
    /\ supRestartAge' = Older(supRestartAge, d, SupMinGap)
    /\ supReadyAge' = Older(supReadyAge, d, SupRestartAfter)
    /\ supIssued' = Older(supIssued, d, SupMinGap)
SupUnhealthy(d) ==
    /\ supDown' = TRUE
    /\ supOutage' = Older(supOutage, d, SupRestartAfter)
    /\ supRestartAge' = Older(supRestartAge, d, SupMinGap)
    /\ supReadyAge' = Older(supReadyAge, d, SupRestartAfter)
    /\ supIssued' = Older(supIssued, d, SupMinGap)

SupRestartDue_Eager == supOutage >= SupRestartAfter
SupRestartDue ==
    /\ supOutage >= SupRestartAfter
    /\ supRestartAge >= SupMinGap

\* restart_unit(), whether or not systemctl succeeds within its r: _last_restart is
\* the time before the probe, and the outage goes on counting.
SupRestartUnit(d, r) ==
    /\ supDown' = TRUE
    /\ supOutage' = Older(supOutage, d + r, SupRestartAfter)
    /\ supRestartAge' = Older(0, d + r, SupMinGap)
    /\ supReadyAge' = Older(supReadyAge, d + r, SupRestartAfter)
    /\ supIssued' = Older(0, r, SupMinGap)

-----------------------------------------------------------------------------
(* The thread                                                              *)

\* The last probe of start(), which may not restart anything; run() then begins, with
\* _last_stream_check still 0.
SupStart ==
    /\ supAt = "start"
    /\ supAt' = "top"
    /\ \E d \in 0 .. SupProbe : SupHealthy(d) \/ SupUnhealthy(d)
    /\ UNCHANGED <<supCheckAge, supPingLeft, supPingDue, supSilence>>

\* A turn takes the time once, and so decides before the probe whether it pings; the
\* next ping is counted from there.
SupTakesTime(n) ==
    /\ supCheckAge' = Older(0, n, SupCheck)
    /\ supPingLeft' = Left(IF supPingLeft = 0 THEN SupPing ELSE supPingLeft, n)
    /\ supSilence' = Older(supSilence, n, SupWatchdog)

SupProbeTurn ==
    /\ supAt = "top"
    /\ supCheckAge >= SupCheck
    /\ supAt' = "end"
    /\ supPingDue' = (supPingLeft = 0)
    /\ \E d \in 0 .. SupProbe :
         \/ SupHealthy(d) /\ SupTakesTime(d)
         \/ ~SupRestartDue /\ SupUnhealthy(d) /\ SupTakesTime(d)
         \/ \E r \in 0 .. SupRestart :
              SupRestartDue /\ SupRestartUnit(d, r) /\ SupTakesTime(d + r)

SupQuietTurn ==
    /\ supAt = "top"
    /\ supCheckAge < SupCheck
    /\ supAt' = "end"
    /\ supPingDue' = (supPingLeft = 0)
    /\ supPingLeft' = IF supPingLeft = 0 THEN SupPing ELSE supPingLeft
    /\ UNCHANGED <<supCheckAge, supDown, supOutage, supRestartAge, supSilence,
                   supReadyAge, supIssued>>

\* The end of a turn: WATCHDOG=1 if it was due, then _stop.wait.
SupEndTurn ==
    /\ supAt = "end"
    /\ supAt' = "top"
    /\ supSilence' = Older(IF supPingDue THEN 0 ELSE supSilence, 1, SupWatchdog)
    /\ supCheckAge' = Older(supCheckAge, 1, SupCheck)
    /\ supPingLeft' = Left(supPingLeft, 1)
    /\ supOutage' = IF supDown THEN Older(supOutage, 1, SupRestartAfter) ELSE 0
    /\ supRestartAge' = Older(supRestartAge, 1, SupMinGap)
    /\ supReadyAge' = Older(supReadyAge, 1, SupRestartAfter)
    /\ supIssued' = Older(supIssued, 1, SupMinGap)
    /\ UNCHANGED <<supPingDue, supDown>>

\* _last_restart starts as 0.0, the time at which the device booted: any age.
SupInit ==
    /\ supAt = "start"
    /\ supCheckAge = SupCheck
    /\ supPingLeft = SupPing
    /\ supPingDue = FALSE
    /\ supDown = FALSE
    /\ supOutage = 0
    /\ supRestartAge \in 0 .. SupMinGap
    /\ supSilence = 0
    /\ supReadyAge = 0
    /\ supIssued = SupMinGap

SupNext == SupStart \/ SupProbeTurn \/ SupQuietTurn \/ SupEndTurn

\* The main thread goes on until the service is stopped.
SupSpec == SupInit /\ [][SupNext]_supVars /\ WF_supVars(SupNext)

-----------------------------------------------------------------------------
\* Every variable has its type.
SupTypeOK ==
    /\ supAt \in {"start", "top", "end"}
    /\ supCheckAge \in 0 .. SupCheck
    /\ supPingLeft \in 0 .. SupPing
    /\ supPingDue \in BOOLEAN
    /\ supDown \in BOOLEAN
    /\ supOutage \in 0 .. SupRestartAfter
    /\ supRestartAge \in 0 .. SupMinGap
    /\ supSilence \in 0 .. SupWatchdog
    /\ supReadyAge \in 0 .. SupRestartAfter
    /\ supIssued \in 0 .. SupMinGap

\* systemd never waits for the whole watchdog period, although a turn can spend the
\* time of a probe and of a systemctl between deciding on a ping and the next one
\* (main.run, _watchdog_interval).
SupWatchdogFed == supSilence < SupWatchdog

\* MediaMTX is restarted only when no probe has found the path ready for the whole
\* restart_after time, and not again within the interval, up to the time of a probe.
SupRestartIsEarned ==
    [][ supIssued' < supIssued =>
          /\ supReadyAge' >= SupRestartAfter
          /\ supIssued + SupProbe >= SupMinGap ]_supVars

\* A path that stays down gets its restart, again and again, as long as it is down: no
\* bad answer puts it off for ever.
SupStalledIsRestarted == []<>(~supDown \/ supIssued <= SupRestart)
=============================================================================
