------------------------------- MODULE PirMonitor -------------------------------
(***************************************************************************)
(* The PIR monitor (pir.py): a thread that samples the sensor's line,      *)
(* debounces it and tells the controller the edges.  A sensor that cannot  *)
(* be read is dropped and opened again, and then has to warm up anew.      *)
(* One tick is a poll interval; a poll may come late, because the thread   *)
(* runs the controller's handler itself.                                   *)
(***************************************************************************)
EXTENDS Ticks, Sequences

CONSTANTS
    PirDebounce,    \* debounce_seconds
    PirMinActive,   \* min_active_seconds
    PirWarmup,      \* warmup_seconds
    PirErrorLimit,  \* failing reads in a row after which the line is dropped
    PirReopen,      \* _reopen_interval
    PirLate         \* the most ticks between two polls

ASSUME PirAssumption ==
    /\ {PirDebounce, PirMinActive, PirWarmup} \subseteq Nat
    /\ {PirErrorLimit, PirReopen, PirLate} \subseteq Nat \ {0}

VARIABLES
    pirSensor,      \* whether the line is open, failed reads in a row, time until the next try
    pirWarm,        \* what is left of the warm-up
    pirDebouncer,   \* MotionDebouncer
    pirTold,        \* the level the controller knows of from the edges it was told
    pirBroken,      \* environment: the sensor cannot be read or opened
    pirSeen,        \* history: the samples of the last ticks, oldest first
    pirUp,          \* history: time since the debounced line rose
    pirDropped      \* history: an edge was dropped since the last one was told

pirVars == <<pirSensor, pirWarm, pirDebouncer, pirTold,
             pirBroken, pirSeen, pirUp, pirDropped>>

Level == {"high", "low"}
PirWindow == Larger(PirDebounce, PirMinActive) + 1

-----------------------------------------------------------------------------
(* MotionDebouncer                                                         *)

\* Time passes for the marks _candidate_since and _active_since.
PirAged(d, n) ==
    [d EXCEPT !.since = Older(@, n, PirDebounce), !.held = Older(@, n, PirMinActive)]

PirSettled_OffByOne(d) ==
    /\ d.candidate # d.stable
    /\ d.since + 1 >= PirDebounce
    /\ d.candidate = "low" => d.held >= PirMinActive
PirSettled(d) ==
    /\ d.candidate # d.stable
    /\ d.since >= PirDebounce
    /\ d.candidate = "low" => d.held >= PirMinActive

\* update(raw, now)
PirUpdate_Restarts(d, raw) ==
    LET seen == [d EXCEPT !.candidate = raw, !.since = 0]
    IN  IF PirSettled(seen)
        THEN [seen EXCEPT !.stable = raw, !.held = 0]
        ELSE seen
PirUpdate(d, raw) ==
    LET seen == IF raw = d.candidate THEN d ELSE [d EXCEPT !.candidate = raw, !.since = 0]
    IN  IF PirSettled(seen)
        THEN [seen EXCEPT !.stable = raw, !.held = 0]
        ELSE seen

-----------------------------------------------------------------------------
(* The thread                                                              *)

\* The time between two polls, for everything that ages by itself.
PirRemember(n, sample) ==
    LET gap == [i \in 1 .. n - 1 |-> "none"]
        all == pirSeen \o gap \o <<sample>>
    IN  pirSeen' = SubSeq(all, Len(all) - PirWindow + 1, Len(all))

\* _run without a sensor: try to claim the line when the time has come.
PirOpen(n) ==
    /\ ~pirSensor.open
    /\ pirBroken' \in BOOLEAN
    /\ \/ /\ Left(pirSensor.retry, n) > 0
          /\ pirSensor' = [pirSensor EXCEPT !.retry = Left(@, n)]
          /\ pirWarm' = Left(pirWarm, n)
       \/ /\ Left(pirSensor.retry, n) = 0
          /\ pirBroken'
          /\ pirSensor' = [pirSensor EXCEPT !.retry = PirReopen]
          /\ pirWarm' = Left(pirWarm, n)
       \/ /\ Left(pirSensor.retry, n) = 0
          /\ ~pirBroken'
          /\ pirSensor' = [pirSensor EXCEPT !.open = TRUE, !.retry = 0]
          /\ pirWarm' = PirWarmup
    /\ pirDebouncer' = PirAged(pirDebouncer, n)
    /\ PirRemember(n, "none")
    /\ pirUp' = Older(pirUp, n, PirMinActive)
    /\ UNCHANGED <<pirTold, pirDropped>>

\* poll_once when the read fails: _record_error.  The count is not reset by opening
\* the line again, only by a read that succeeds.
PirFailedPoll(n) ==
    /\ pirSensor.open
    /\ pirBroken' = TRUE
    /\ LET errors == Older(pirSensor.errors, 1, PirErrorLimit)
       IN  pirSensor' = IF errors >= PirErrorLimit
                        THEN [open |-> FALSE, errors |-> errors, retry |-> PirReopen]
                        ELSE [pirSensor EXCEPT !.errors = errors]
    /\ pirWarm' = Left(pirWarm, n)
    /\ pirDebouncer' = PirAged(pirDebouncer, n)
    /\ PirRemember(n, "none")
    /\ pirUp' = Older(pirUp, n, PirMinActive)
    /\ UNCHANGED <<pirTold, pirDropped>>

\* poll_once when the read succeeds.  The debouncer is updated first; within the
\* warm-up its edge is then dropped, otherwise the controller is told.
PirPoll(n) ==
    /\ pirSensor.open
    /\ pirBroken' = FALSE
    /\ pirSensor' = [pirSensor EXCEPT !.errors = 0]
    /\ pirWarm' = Left(pirWarm, n)
    /\ \E raw \in Level :
         /\ pirDebouncer' = PirUpdate(PirAged(pirDebouncer, n), raw)
         /\ PirRemember(n, raw)
    /\ LET edge == pirDebouncer'.stable # pirDebouncer.stable IN
         /\ pirUp' = IF edge /\ pirDebouncer'.stable = "high"
                     THEN 0 ELSE Older(pirUp, n, PirMinActive)
         /\ \/ ~edge /\ UNCHANGED <<pirTold, pirDropped>>
            \/ edge /\ pirWarm' > 0 /\ pirDropped' = TRUE /\ UNCHANGED pirTold
            \/ /\ edge /\ pirWarm' = 0
               /\ pirTold' = pirDebouncer'.stable
               /\ pirDropped' = FALSE

-----------------------------------------------------------------------------
\* start(): the pin may be busy; nothing has been sampled yet.
PirInit ==
    /\ pirBroken \in BOOLEAN
    /\ pirSensor = [open |-> ~pirBroken, errors |-> 0,
                    retry |-> IF pirBroken THEN PirReopen ELSE 0]
    /\ pirWarm = PirWarmup
    /\ pirDebouncer = [stable |-> "low", candidate |-> "low",
                       since |-> PirDebounce, held |-> PirMinActive]
    /\ pirTold = "low"
    /\ pirSeen = [i \in 1 .. PirWindow |-> "none"]
    /\ pirUp = PirMinActive
    /\ pirDropped = FALSE

PirNext ==
    \E n \in 1 .. PirLate : PirOpen(n) \/ PirFailedPoll(n) \/ PirPoll(n)

PirSpec == PirInit /\ [][PirNext]_pirVars

-----------------------------------------------------------------------------
\* Every variable has its type.
PirTypeOK ==
    /\ pirSensor \in [open: BOOLEAN, errors: 0 .. PirErrorLimit, retry: 0 .. PirReopen]
    /\ pirWarm \in 0 .. PirWarmup
    /\ pirDebouncer \in [stable: Level, candidate: Level,
                         since: 0 .. PirDebounce, held: 0 .. PirMinActive]
    /\ pirTold \in Level
    /\ pirBroken \in BOOLEAN
    /\ pirSeen \in [1 .. PirWindow -> Level \cup {"none"}]
    /\ pirUp \in 0 .. PirMinActive
    /\ pirDropped \in BOOLEAN

\* The debounced line changes only to a level that no sample of the last debounce
\* time contradicts, and falls only when it has been up for the minimum active time
\* (MotionDebouncer.update at its boundaries).
PirEdgesAreDebounced ==
    [][ LET new == pirDebouncer'.stable IN
        new # pirDebouncer.stable =>
            /\ \A i \in PirWindow - PirDebounce .. PirWindow : pirSeen'[i] \in {new, "none"}
            /\ pirSeen'[PirWindow] = new
            /\ new = "low" => pirUp' >= PirMinActive ]_pirVars

\* A level that was read at every tick for as long as the two times demand is
\* believed: the debouncer neither hangs nor waits longer than configured.  The
\* controller believes it too, unless the warm-up has dropped an edge since the last
\* one it was told (the case the controller model's line may drop edges for).
PirSteadyLineIsBelieved ==
    \A l \in Level :
        (\A i \in 1 .. PirWindow : pirSeen[i] = l) =>
            /\ pirDebouncer.stable = l
            /\ pirTold = l \/ pirDropped
=============================================================================
