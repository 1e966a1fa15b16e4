------------------------------ MODULE Connectivity ------------------------------
(***************************************************************************)
(* How the return of the internet reaches queued work: the network         *)
(* monitor's thread (networking.py) probes, with a growing delay while     *)
(* there is none, and tells the pending worker (worker.py), whose thread   *)
(* sleeps on an event between scans.                                       *)
(***************************************************************************)
EXTENDS Ticks

CONSTANTS
    NetCheck,       \* check_interval_seconds
    NetInitial,     \* retry_initial_seconds
    NetMaximum,     \* retry_max_seconds, which may exceed the check interval
    NetProbe,       \* the longest probe: every host and the DNS, each with its timeout
    NetInterval,    \* interval_seconds of the pending worker
    NetScan         \* the longest scan (bound)

ASSUME NetAssumption ==
    /\ {NetCheck, NetInitial, NetMaximum, NetInterval} \subseteq Nat \ {0}
    /\ {NetProbe, NetScan} \subseteq Nat

VARIABLES
    netUp,          \* environment: whether probes would succeed
    netSteady,      \* history: how long netUp has been what it is
    netAt,          \* the monitor's thread: "sleeping", "probing", "telling"
    netLeft,        \* what it still sleeps, or may still probe
    netFound,       \* what its probe has found: the outcomes it may still have
    netOnline,      \* _status.online
    netBackoff,     \* _backoff._current
    netWake,        \* the event _wake
    netWorker,      \* the pending worker: "waiting", "woken", "scanning"
    netWorkerLeft,  \* what it still waits, or may still scan
    netOwed         \* history: no scan has begun since the worker was last told

netVars == <<netUp, netSteady, netAt, netLeft, netFound, netOnline, netBackoff,
             netWake, netWorker, netWorkerLeft, netOwed>>

\* The longest the return may go unnoticed: a probe that began before it, the delay,
\* and a probe that begins after it.
NetNotice == NetCheck + 2 * NetProbe

monitor == <<netAt, netLeft, netFound, netOnline, netBackoff>>
worker == <<netWake, netWorker, netWorkerLeft, netOwed>>

-----------------------------------------------------------------------------
(* The monitor                                                             *)

\* next_delay() of Backoff, without its jitter.
NetNextDelay ==
    IF netBackoff = 0 THEN NetInitial
    ELSE Older(netBackoff, netBackoff, Larger(NetInitial, NetMaximum))

\* check() begins.
NetBeginProbe ==
    /\ netAt = "sleeping"
    /\ netLeft = 0
    /\ netAt' = "probing"
    /\ netLeft' = NetProbe
    /\ netFound' = {netUp}
    /\ UNCHANGED <<netUp, netSteady, netOnline, netBackoff, worker>>

\* check() stores its result, and goes on to the listener if it has flipped.
NetStore ==
    /\ netAt = "probing"
    /\ \E found \in netFound :
         /\ netOnline' = found
         /\ netAt' = IF found # netOnline THEN "telling" ELSE "done"
    /\ netLeft' = 0
    /\ UNCHANGED <<netUp, netSteady, netFound, netBackoff, worker>>

\* on_connectivity_change: wake() when the service is online again.
NetTell ==
    /\ netAt = "telling"
    /\ netAt' = "done"
    /\ netWake' = (netWake \/ netOnline)
    /\ netOwed' = (netOwed \/ netOnline)
    /\ UNCHANGED <<netUp, netSteady, netLeft, netFound, netOnline, netBackoff,
                   netWorker, netWorkerLeft>>

\* _run chooses its delay.
NetSleep_Uncapped ==
    /\ netAt = "done"
    /\ netAt' = "sleeping"
    /\ netBackoff' = IF netOnline THEN 0 ELSE NetNextDelay
    /\ netLeft' = IF netOnline THEN NetCheck ELSE netBackoff'
    /\ UNCHANGED <<netUp, netSteady, netFound, netOnline, worker>>
NetSleep ==
    /\ netAt = "done"
    /\ netAt' = "sleeping"
    /\ netBackoff' = IF netOnline THEN 0 ELSE NetNextDelay
    /\ netLeft' = IF netOnline \/ netBackoff' > NetCheck THEN NetCheck ELSE netBackoff'
    /\ UNCHANGED <<netUp, netSteady, netFound, netOnline, worker>>

-----------------------------------------------------------------------------
(* The pending worker's _run                                               *)

\* _wake.wait(interval) returns.
NetAwake ==
    /\ netWorker = "waiting"
    /\ netWake \/ netWorkerLeft = 0
    /\ netWorker' = "woken"
    /\ UNCHANGED <<netUp, netSteady, netWake, netWorkerLeft, netOwed, monitor>>

\* _wake.clear(), then run_once reads what is pending.
NetScanBegins ==
    /\ netWorker = "woken"
    /\ netWorker' = "scanning"
    /\ netWake' = FALSE
    /\ netWorkerLeft' = NetScan
    /\ netOwed' = FALSE
    /\ UNCHANGED <<netUp, netSteady, monitor>>

\* The scan is over: back to _wake.wait.
NetScanEnds_ThenClears ==
    /\ netWorker = "scanning"
    /\ netWorker' = "waiting"
    /\ netWorkerLeft' = NetInterval
    /\ netWake' = FALSE
    /\ UNCHANGED <<netUp, netSteady, netOwed, monitor>>
NetScanEnds ==
    /\ netWorker = "scanning"
    /\ netWorker' = "waiting"
    /\ netWorkerLeft' = NetInterval
    /\ UNCHANGED <<netUp, netSteady, netWake, netOwed, monitor>>

-----------------------------------------------------------------------------
\* The internet comes or goes; a probe under way may see either.
NetFlip ==
    /\ netUp' = ~netUp
    /\ netSteady' = 0
    /\ netFound' = IF netAt = "probing" THEN netFound \cup {~netUp} ELSE netFound
    /\ UNCHANGED <<netAt, netLeft, netOnline, netBackoff, worker>>

\* Time passes when nobody is due.
NetTick ==
    /\ netAt \in {"sleeping", "probing"} /\ netLeft > 0
    /\ netWorker \in {"waiting", "scanning"} /\ netWorkerLeft > 0
    /\ ~(netWorker = "waiting" /\ netWake)
    /\ netLeft' = netLeft - 1
    /\ netWorkerLeft' = netWorkerLeft - 1
    /\ netSteady' = Older(netSteady, 1, NetNotice + 1)
    /\ UNCHANGED <<netUp, netAt, netFound, netOnline, netBackoff, netWake, netWorker, netOwed>>

\* start() has checked once, on its own thread; the monitor begins with another check.
NetInit ==
    /\ netUp \in BOOLEAN
    /\ netSteady = 0
    /\ netAt = "sleeping"
    /\ netLeft = 0
    /\ netFound = {}
    /\ netOnline = FALSE
    /\ netBackoff = 0
    /\ netWake = FALSE
    /\ netWorker = "waiting"
    /\ netWorkerLeft = NetInterval
    /\ netOwed = FALSE

NetNext ==
    \/ NetBeginProbe \/ NetStore \/ NetTell \/ NetSleep
    \/ NetAwake \/ NetScanBegins \/ NetScanEnds
    \/ NetFlip \/ NetTick

NetSpec == NetInit /\ [][NetNext]_netVars

-----------------------------------------------------------------------------
\* Every variable has its type.
NetTypeOK ==
    /\ {netUp, netOnline, netWake, netOwed} \subseteq BOOLEAN
    /\ netSteady \in 0 .. NetNotice + 1
    /\ netAt \in {"sleeping", "probing", "telling", "done"}
    /\ netLeft \in 0 .. Larger(NetCheck, Larger(NetMaximum, NetProbe))
    /\ netFound \subseteq BOOLEAN
    /\ netBackoff \in 0 .. Larger(NetInitial, NetMaximum)
    /\ netWorker \in {"waiting", "woken", "scanning"}
    /\ netWorkerLeft \in 0 .. Larger(NetInterval, NetScan)

\* The cached status follows a lasting change within the check interval and the time
\* of two probes, however long the backoff has grown (networking.py _run).
NetChangeIsNoticed == netSteady > NetNotice => netOnline = netUp

\* The pending worker never sleeps on the news that the internet is back: unless a
\* scan has begun since, it is awake or its wait will return at once (worker.py _run
\* clears the event before the scan and not after it).
NetReturnIsNotSleptOn == netOwed /\ netWorker = "waiting" => netWake
=============================================================================
