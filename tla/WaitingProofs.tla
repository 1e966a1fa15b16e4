------------------------------ MODULE WaitingProofs ------------------------------
(***************************************************************************)
(* Proofs about the components that wait for each other, for all values of *)
(* their times: the watchdog against slow calls, the clip against the      *)
(* rolling buffer, the return of the internet against the backoff, the     *)
(* alarms against their cooldown, and the PIR monitor against the polls    *)
(* that come late.  Each section has the component's invariant: how the    *)
(* two clocks it compares are related at every point of its threads, and,  *)
(* for the PIR monitor, that neither of its two marks runs ahead of the    *)
(* samples or lags behind them.                                            *)
(***************************************************************************)
EXTENDS Supervisor, ClipDeadline, Connectivity, AlarmCooldown, PirMonitor, TLAPS

\* The operators on ages and rests stay within their limits.
LEMMA TicksTyped ==
    ASSUME NEW a \in Nat, NEW n \in Nat, NEW limit \in Nat
    PROVE  /\ Older(a, n, limit) \in 0 .. limit
           /\ Older(a, n, limit) <= a + n
           /\ Left(a, n) \in 0 .. a
           /\ Larger(a, n) \in Nat /\ a <= Larger(a, n) /\ n <= Larger(a, n)
BY DEF Older, Left, Larger

-----------------------------------------------------------------------------
(* Alarms and their cooldown                                               *)

\* coolLast is never older than any thread's last complete delivery, except between
\* the delivery and its record; a thread past the check has had no delivery within the
\* cooldown; and a recent time is some thread's delivery.
CoolInv ==
    /\ CoolTypeOK
    /\ \A w \in CoolThreads :
         /\ coolAt[w] # "sent" => coolLast <= coolFull[w]
         /\ coolAt[w] \in {"allowed", "sending"} => coolFull[w] = CoolTime
         /\ coolAt[w] = "sent" => coolFull[w] = 0
    /\ coolLast < CoolTime => \E v \in CoolThreads : coolFull[v] <= coolLast

LEMMA CoolInitInv == CoolInit => CoolInv
BY CoolAssumption DEF CoolInit, CoolInv, CoolTypeOK

LEMMA CoolStepInv == CoolInv /\ [CoolNext]_coolVars => CoolInv'
<1> SUFFICES ASSUME CoolInv, [CoolNext]_coolVars PROVE CoolInv'
  OBVIOUS
<1> USE CoolAssumption DEF CoolInv, CoolTypeOK
<1>1. ASSUME NEW w \in CoolThreads, CoolCheck(w) PROVE CoolInv'
  BY <1>1 DEF CoolCheck, CoolGoes
<1>2. ASSUME NEW w \in CoolThreads, CoolBegin(w) PROVE CoolInv'
  BY <1>2 DEF CoolBegin, CoolGoes
<1>3. ASSUME NEW w \in CoolThreads, CoolSent(w) PROVE CoolInv'
  BY <1>3 DEF CoolSent, CoolGoes
<1>4. ASSUME NEW w \in CoolThreads, CoolRecord(w) PROVE CoolInv'
  BY <1>4 DEF CoolRecord, CoolGoes
<1>5. CASE CoolTick
  BY <1>5 DEF CoolTick, Older
<1>6. CASE CoolRestart
  BY <1>6 DEF CoolRestart
<1>7. CASE UNCHANGED coolVars
  BY <1>7 DEF coolVars
<1>8. QED
  BY <1>1, <1>2, <1>3, <1>4, <1>5, <1>6, <1>7 DEF CoolNext

\* No thread delivers two complete alarms within the cooldown, and an alarm is
\* suppressed only after one that everybody has, for any number of threads.
THEOREM AlarmsAreRationed == CoolSpec => CoolAlarmsAreRationed
<1>1. CoolInv /\ [CoolNext]_coolVars =>
        [ \A w \in CoolThreads :
            /\ coolFull'[w] = 0 /\ coolAt[w] = "sending" => coolFull[w] = CoolTime
            /\ coolAt'[w] = "suppressed" /\ coolAt[w] # "suppressed" =>
                 \E v \in CoolThreads : coolFull[v] < CoolTime ]_coolVars
  <2> SUFFICES ASSUME CoolInv, CoolNext, NEW w \in CoolThreads
               PROVE  /\ coolFull'[w] = 0 /\ coolAt[w] = "sending" => coolFull[w] = CoolTime
                      /\ coolAt'[w] = "suppressed" /\ coolAt[w] # "suppressed" =>
                           \E v \in CoolThreads : coolFull[v] < CoolTime
    BY DEF coolVars
  <2>1. coolFull'[w] = 0 /\ coolAt[w] = "sending" => coolFull[w] = CoolTime
    BY DEF CoolInv
  <2>2. ASSUME coolAt'[w] = "suppressed", coolAt[w] # "suppressed" PROVE coolLast < CoolTime
    BY <2>2 DEF CoolInv, CoolTypeOK, CoolNext, CoolCheck, CoolBegin, CoolSent, CoolRecord,
                CoolTick, CoolRestart, CoolGoes
  <2>3. coolLast < CoolTime => \E v \in CoolThreads : coolFull[v] < CoolTime
    BY CoolAssumption DEF CoolInv, CoolTypeOK
  <2>4. QED
    BY <2>1, <2>2, <2>3
<1>2. QED
  BY <1>1, CoolInitInv, CoolStepInv, PTL DEF CoolSpec, CoolAlarmsAreRationed

-----------------------------------------------------------------------------
(* The clip and the rolling buffer                                         *)

\* The event is capped and the clip begins with it; a retry is waited for only if it
\* comes before the deadline, and the worker is at most a scan late for it.
ClipInv ==
    /\ ClipTypeOK
    /\ clipTask = "recording" => clipAge <= ClipLongest
    /\ clipTask # "recording" /\ clipSinceEnd < ClipSlack =>
         clipAge <= ClipLongest + clipSinceEnd
    /\ clipTask \in ClipCalls \cup {"waiting"} => clipAttempts >= 1
    /\ clipTask = "waiting" =>
         IF clipLeft > 0 THEN clipAge + clipLeft < ClipRetain - ClipMargin
                         ELSE clipAge + clipScan < ClipRetain - ClipMargin + ClipInterval
    /\ ClipStillBuffered

LEMMA ClipConstants ==
    /\ ClipLongest \in Nat /\ ClipLongest > 0
    /\ ClipRetain \in Nat /\ ClipSlack \in Nat /\ ClipMargin \in Nat /\ ClipInterval \in Nat
    /\ ClipCall \in Nat /\ ClipQueue \in Nat
    /\ ClipHorizon \in Nat /\ ClipRetain <= ClipHorizon
    /\ ClipInterval <= ClipMargin /\ ClipMargin <= ClipSlack
    /\ ClipRetain >= ClipLongest + ClipSlack
    /\ Len(ClipDelays) \in Nat \ {0}
    /\ \A i \in 1 .. Len(ClipDelays) : ClipDelays[i] \in Nat
<1>1. Len(ClipDelays) \in Nat \ {0} /\ \A i \in 1 .. Len(ClipDelays) : ClipDelays[i] \in Nat
  BY ClipAssumption
<1>2. QED
  BY <1>1, ClipAssumption DEF ClipHorizon

LEMMA ClipInitInv == ClipInit => ClipInv
BY ClipConstants DEF ClipInit, ClipInv, ClipTypeOK, ClipStillBuffered, ClipCalls

LEMMA ClipStepInv == ClipInv /\ [ClipNext]_clipVars => ClipInv'
<1> SUFFICES ASSUME ClipInv, [ClipNext]_clipVars PROVE ClipInv'
  OBVIOUS
<1> USE ClipConstants DEF ClipInv, ClipTypeOK, ClipStillBuffered, ClipCalls
<1>1. CASE ClipEventEnds
  BY <1>1 DEF ClipEventEnds
<1>2. CASE ClipFirst
  BY <1>2 DEF ClipFirst, ClipBegin, Older
<1>3. CASE ClipScans
  <2>1. CASE clipTask = "waiting" /\ clipLeft = 0
    <3>1. clipAge < ClipRetain
      BY <1>3, <2>1 DEF ClipScans
    <3>2. QED
      BY <1>3, <2>1, <3>1 DEF ClipScans, ClipBegin, Older
  <2>2. CASE ~(clipTask = "waiting" /\ clipLeft = 0)
    BY <1>3, <2>2 DEF ClipScans
  <2>3. QED
    BY <2>1, <2>2
<1>4. CASE ClipLists
  BY <1>4 DEF ClipLists
<1>5. CASE ClipCopies
  BY <1>5 DEF ClipCopies
<1>6. CASE ClipRetryOrLose
  <2>1. ClipDelay \in Nat
    BY <1>6 DEF ClipRetryOrLose, ClipDelay
  <2>2. QED
    BY <1>6, <2>1 DEF ClipRetryOrLose
<1>7. CASE ClipTick
  <2>1. ClipTypeOK'
    BY <1>7 DEF ClipTick, Older, Left
  <2>2. /\ clipTask' = "recording" => clipAge' <= ClipLongest
        /\ clipTask' # "recording" /\ clipSinceEnd' < ClipSlack =>
             clipAge' <= ClipLongest + clipSinceEnd'
    BY <1>7 DEF ClipTick, Older, Left
  <2>3. clipTask' = "waiting" =>
          IF clipLeft' > 0 THEN clipAge' + clipLeft' < ClipRetain - ClipMargin
                           ELSE clipAge' + clipScan' < ClipRetain - ClipMargin + ClipInterval
    BY <1>7 DEF ClipTick, Older, Left
  <2>4. QED
    BY <1>7, <2>1, <2>2, <2>3 DEF ClipTick
<1>8. CASE UNCHANGED clipVars
  BY <1>8 DEF clipVars
<1>9. QED
  BY <1>1, <1>2, <1>3, <1>4, <1>5, <1>6, <1>7, <1>8 DEF ClipNext

\* Whatever the retry delays, the length of events and the playback server's answers,
\* a retry begins while the buffer holds the start of the clip.
THEOREM RetriesFindTheirVideo == ClipSpec => []ClipStillBuffered
<1>1. ClipSpec => []ClipInv
  BY ClipInitInv, ClipStepInv, PTL DEF ClipSpec
<1>2. QED
  BY <1>1, PTL DEF ClipInv

\* The configuration's slack leaves the first retries their time, after an event of
\* any length.
THEOREM ClipsAreGivenUpLate == ClipSpec => ClipGivenUpLate
<1>1. ClipInv /\ [ClipNext]_clipVars =>
        [ clipTask' = "expired" /\ clipTask # "expired" =>
            clipSinceEnd + ClipDelay >= ClipSlack - ClipMargin ]_clipVars
  <2> SUFFICES ASSUME ClipInv, ClipNext, clipTask' = "expired", clipTask # "expired"
               PROVE  clipSinceEnd + ClipDelay >= ClipSlack - ClipMargin
    BY DEF clipVars
  <2>1. clipTask \in ClipCalls /\ clipAge + ClipDelay >= ClipRetain - ClipMargin
    BY DEF ClipNext, ClipEventEnds, ClipFirst, ClipBegin, ClipScans, ClipLists, ClipCopies,
           ClipRetryOrLose, ClipTick
  <2>2. ClipDelay \in Nat
    BY <2>1, ClipConstants DEF ClipInv, ClipTypeOK, ClipDelay
  <2>3. clipSinceEnd < ClipSlack => clipAge <= ClipLongest + clipSinceEnd
    BY <2>1 DEF ClipInv, ClipCalls
  <2>4. QED
    BY <2>1, <2>2, <2>3, ClipConstants DEF ClipInv, ClipTypeOK
<1>2. QED
  BY <1>1, ClipInitInv, ClipStepInv, PTL DEF ClipSpec, ClipGivenUpLate

-----------------------------------------------------------------------------
(* The main thread, the watchdog and the restarts of MediaMTX              *)

\* The longest time a turn spends in its calls: a probe and a systemctl.
SupTurn == SupProbe + SupRestart

\* The silence and the time to the next ping.  A turn decides on its ping before it
\* calls anybody, so both the turn in which the ping falls due and the one that sends it
\* delay it; but only one of the two can have restarted MediaMTX, and supRestartAge
\* tells which.
SupPinged ==
    /\ supAt = "start" => supSilence = 0 /\ supPingLeft = SupPing
    /\ supAt = "top" =>
         IF supPingLeft > 0 THEN supSilence + supPingLeft <= SupPing
         ELSE \/ supSilence <= SupPing + SupProbe
              \/ supSilence <= SupPing + SupTurn /\ supRestartAge <= SupTurn + 1
    /\ supAt = "end" /\ ~supPingDue =>
         IF supPingLeft > 0 THEN supSilence + supPingLeft <= SupPing
         ELSE \/ supSilence + 1 <= SupPing + SupProbe
              \/ supSilence + 1 <= SupPing + SupTurn /\ supRestartAge <= SupTurn
    /\ supAt = "end" /\ supPingDue => supSilence <= SupPing + SupProbe + SupTurn

LEMMA SupConstants ==
    /\ SupCheck \in Nat /\ SupCheck > 0
    /\ SupPing \in Nat /\ SupPing > 0
    /\ SupMinGap \in Nat /\ SupMinGap > 0
    /\ SupWatchdog \in Nat /\ SupWatchdog > 0
    /\ SupRestartAfter \in Nat /\ SupProbe \in Nat /\ SupRestart \in Nat
    /\ SupTurn \in Nat
BY SupAssumption DEF SupTurn

LEMMA SupStepTyped == SupTypeOK /\ [SupNext]_supVars => SupTypeOK'
<1> SUFFICES ASSUME SupTypeOK, [SupNext]_supVars PROVE SupTypeOK'
  OBVIOUS
<1> USE SupConstants DEF SupTypeOK, Older, Left
<1>1. ASSUME NEW d \in 0 .. SupProbe, SupHealthy(d)
      PROVE  /\ supDown' \in BOOLEAN
             /\ supOutage' \in 0 .. SupRestartAfter
             /\ supRestartAge' \in 0 .. SupMinGap
             /\ supReadyAge' \in 0 .. SupRestartAfter
             /\ supIssued' \in 0 .. SupMinGap
  <2>1. supDown' = FALSE /\ supOutage' = 0 /\ supReadyAge' = 0
    BY <1>1, Zenon DEF SupHealthy
  <2>2. supDown' \in BOOLEAN
    BY <2>1
  <2>3. /\ supRestartAge' \in 0 .. SupMinGap
        /\ supIssued' \in 0 .. SupMinGap
    BY <1>1 DEF SupHealthy
  <2>4. QED
    BY <2>1, <2>2, <2>3
<1>2. ASSUME NEW d \in 0 .. SupProbe, SupUnhealthy(d)
      PROVE  /\ supDown' \in BOOLEAN
             /\ supOutage' \in 0 .. SupRestartAfter
             /\ supRestartAge' \in 0 .. SupMinGap
             /\ supReadyAge' \in 0 .. SupRestartAfter
             /\ supIssued' \in 0 .. SupMinGap
  BY <1>2 DEF SupUnhealthy
<1>3. ASSUME NEW d \in 0 .. SupProbe, NEW r \in 0 .. SupRestart, SupRestartUnit(d, r)
      PROVE  /\ supDown' \in BOOLEAN
             /\ supOutage' \in 0 .. SupRestartAfter
             /\ supRestartAge' \in 0 .. SupMinGap
             /\ supReadyAge' \in 0 .. SupRestartAfter
             /\ supIssued' \in 0 .. SupMinGap
  BY <1>3 DEF SupRestartUnit
<1>4. ASSUME NEW n \in Nat, SupTakesTime(n)
      PROVE  /\ supCheckAge' \in 0 .. SupCheck
             /\ supPingLeft' \in 0 .. SupPing
             /\ supSilence' \in 0 .. SupWatchdog
  BY <1>4 DEF SupTakesTime
<1>5. CASE SupStart
  BY <1>1, <1>2, <1>5 DEF SupStart
<1>6. CASE SupProbeTurn
  <2>1. PICK d \in 0 .. SupProbe :
         \/ SupHealthy(d) /\ SupTakesTime(d)
         \/ ~SupRestartDue /\ SupUnhealthy(d) /\ SupTakesTime(d)
         \/ \E r \in 0 .. SupRestart :
              SupRestartDue /\ SupRestartUnit(d, r) /\ SupTakesTime(d + r)
    BY <1>6 DEF SupProbeTurn
  <2>2. d \in Nat /\ \A r \in 0 .. SupRestart : d + r \in Nat
    OBVIOUS
  <2>3. supAt' \in {"start", "top", "end"} /\ supPingDue' \in BOOLEAN
    BY <1>6 DEF SupProbeTurn
  <2>4. QED
    BY <1>1, <1>2, <1>3, <1>4, <2>1, <2>2, <2>3
<1>7. CASE SupQuietTurn
  BY <1>7 DEF SupQuietTurn
<1>8. CASE SupEndTurn
  BY <1>8 DEF SupEndTurn
<1>9. CASE UNCHANGED supVars
  BY <1>9 DEF supVars
<1>10. QED
  BY <1>5, <1>6, <1>7, <1>8, <1>9 DEF SupNext

\* What a probe turn does, by the time n it takes: a restart makes it long, and is due
\* only when the last one is far away.
LEMMA ProbeTurnTimes ==
    ASSUME SupTypeOK, SupProbeTurn
    PROVE  \E n \in 0 .. SupTurn :
             /\ SupTakesTime(n)
             /\ \/ n <= SupProbe
                \/ SupRestartDue /\ supRestartAge' <= n
<1>1. PICK d \in 0 .. SupProbe :
         \/ SupHealthy(d) /\ SupTakesTime(d)
         \/ ~SupRestartDue /\ SupUnhealthy(d) /\ SupTakesTime(d)
         \/ \E r \in 0 .. SupRestart :
              SupRestartDue /\ SupRestartUnit(d, r) /\ SupTakesTime(d + r)
  BY DEF SupProbeTurn
<1>2. CASE SupTakesTime(d)
  BY <1>2, SupConstants DEF SupTurn
<1>3. ASSUME NEW r \in 0 .. SupRestart,
             SupRestartDue, SupRestartUnit(d, r), SupTakesTime(d + r)
      PROVE  d + r \in 0 .. SupTurn /\ supRestartAge' <= d + r
  BY <1>3, SupConstants DEF SupTurn, SupRestartUnit, Older
<1>4. QED
  BY <1>1, <1>2, <1>3

LEMMA SupInitPinged == SupInit => SupTypeOK /\ SupPinged
<1> SUFFICES ASSUME SupInit PROVE SupTypeOK /\ SupPinged
  OBVIOUS
<1>1. supDown \in BOOLEAN /\ supPingDue \in BOOLEAN
  BY Zenon DEF SupInit
<1>2. SupTypeOK
  BY <1>1, SupConstants DEF SupInit, SupTypeOK
<1>3. SupPinged
  BY SupConstants DEF SupInit, SupPinged
<1>4. QED
  BY <1>2, <1>3

LEMMA SupStepPinged ==
    ASSUME SupTurn + 1 < SupMinGap
    PROVE  SupTypeOK /\ SupPinged /\ [SupNext]_supVars => SupPinged'
<1> SUFFICES ASSUME SupTypeOK, SupPinged, [SupNext]_supVars PROVE SupPinged'
  OBVIOUS
<1>0. SupTurn \in Nat /\ SupTurn = SupProbe + SupRestart
  BY SupConstants DEF SupTurn
<1>1. CASE SupStart
  BY <1>1, SupConstants DEF SupStart, SupPinged, SupTypeOK
<1>2. CASE SupProbeTurn
  <2>1. PICK n \in 0 .. SupTurn :
             /\ SupTakesTime(n)
             /\ \/ n <= SupProbe
                \/ SupRestartDue /\ supRestartAge' <= n
    BY <1>2, ProbeTurnTimes
  <2>2. supAt = "top" /\ supAt' = "end" /\ supPingDue' = (supPingLeft = 0)
    BY <1>2 DEF SupProbeTurn
  <2>3. n \in Nat /\ supSilence' <= supSilence + n
    BY <1>0, <2>1, SupConstants DEF SupTakesTime, Older, SupTypeOK
  <2>4. CASE supPingLeft > 0
    <3>0. supPingLeft # 0
      BY <2>4
    <3>1. supPingLeft' = Left(supPingLeft, n) /\ ~supPingDue'
      BY <2>1, <2>2, <3>0, Zenon DEF SupTakesTime
    <3>2. supSilence + supPingLeft <= SupPing
      BY <2>2, <2>4 DEF SupPinged
    <3>3. CASE n < supPingLeft
      BY <2>2, <2>3, <2>4, <3>1, <3>2, <3>3, SupStepTyped, SupConstants
         DEF SupPinged, Left, SupTypeOK
    <3>4. CASE n >= supPingLeft
      <4>1. supPingLeft' = 0 /\ supSilence' + 1 <= SupPing + n
        BY <2>3, <2>4, <3>1, <3>2, <3>4, SupStepTyped, SupConstants DEF Left, SupTypeOK
      <4>2. QED
        BY <1>0, <2>1, <2>2, <2>3, <3>1, <4>1, SupStepTyped, SupConstants
           DEF SupPinged, SupTypeOK
    <3>5. QED
      BY <2>3, <3>3, <3>4 DEF SupTypeOK
  <2>5. CASE supPingLeft = 0
    <3>1. \/ supSilence <= SupPing + SupProbe
          \/ supSilence <= SupPing + SupTurn /\ n <= SupProbe
      BY <1>0, <2>1, <2>2, <2>5, SupConstants DEF SupPinged, SupRestartDue, SupTypeOK
    <3>2. supPingDue' /\ supAt' = "end"
      BY <2>2, <2>5, Zenon
    <3>3. supSilence' <= SupPing + SupProbe + SupTurn
      BY <1>0, <2>1, <2>3, <3>1, SupStepTyped, SupConstants DEF SupTypeOK
    <3>4. QED
      BY <3>2, <3>3 DEF SupPinged
  <2>6. QED
    BY <2>4, <2>5, SupConstants DEF SupTypeOK
<1>3. CASE SupQuietTurn
  <2>1. supAt = "top" /\ supAt' = "end" /\ supPingDue' = (supPingLeft = 0)
    BY <1>3, Zenon DEF SupQuietTurn
  <2>2. CASE supPingLeft = 0
    <3>1. supPingDue'
      BY <2>1, <2>2, Zenon
    <3>2. supSilence' <= SupPing + SupProbe + SupTurn
      BY <1>0, <1>3, <2>1, <2>2, SupConstants DEF SupQuietTurn, SupPinged, SupTypeOK
    <3>3. QED
      BY <2>1, <3>1, <3>2 DEF SupPinged
  <2>3. CASE supPingLeft # 0
    <3>1. ~supPingDue'
      BY <2>1, <2>3, Zenon
    <3>2. QED
      BY <1>3, <2>1, <2>3, <3>1, SupConstants DEF SupQuietTurn, SupPinged, SupTypeOK
  <2>4. QED
    BY <2>2, <2>3
<1>4. CASE SupEndTurn
  BY <1>0, <1>4, SupConstants DEF SupEndTurn, SupPinged, SupTypeOK, Older, Left
<1>5. CASE UNCHANGED supVars
  BY <1>5 DEF supVars, SupPinged
<1>6. QED
  BY <1>1, <1>2, <1>3, <1>4, <1>5 DEF SupNext

\* systemd never waits a whole watchdog period, if half of the period, two probes and a
\* systemctl fit into it (60 + 2 * 10 + 30 s into 120 s) and a second restart does not
\* follow the first at once (300 s).
THEOREM WatchdogIsFed ==
    ASSUME SupPing + 2 * SupProbe + SupRestart < SupWatchdog,
           SupProbe + SupRestart + 1 < SupMinGap
    PROVE  SupSpec => []SupWatchdogFed
<1>0. SupTurn + 1 < SupMinGap
  BY DEF SupTurn
<1>1. SupTypeOK /\ SupPinged => SupWatchdogFed
  <2> SUFFICES ASSUME SupTypeOK, SupPinged PROVE supSilence < SupWatchdog
    BY DEF SupWatchdogFed
  <2>1. supSilence <= SupPing + SupProbe + SupTurn
    BY SupConstants DEF SupTypeOK, SupPinged, SupTurn
  <2>2. QED
    BY <2>1, SupConstants DEF SupTypeOK, SupTurn
<1>2. QED
  BY <1>0, <1>1, SupInitPinged, SupStepTyped, SupStepPinged, PTL DEF SupSpec

\* The outage counts no longer than no probe has found the path ready, and the gap is
\* counted from before the probe that led to the restart.
SupEarned ==
    /\ supOutage <= supReadyAge
    /\ supRestartAge <= supIssued + SupProbe

LEMMA SupInitEarned == SupInit => SupEarned
BY SupConstants DEF SupInit, SupEarned

\* One step keeps SupEarned, and asks for a restart only when it is earned.
LEMMA SupStepEarned ==
    SupTypeOK /\ SupEarned /\ SupNext =>
      /\ SupEarned'
      /\ supIssued' < supIssued =>
          /\ supReadyAge' >= SupRestartAfter
          /\ supIssued + SupProbe >= SupMinGap
<1> DEFINE Good ==
      /\ SupEarned'
      /\ supIssued' < supIssued =>
          /\ supReadyAge' >= SupRestartAfter
          /\ supIssued + SupProbe >= SupMinGap
<1> SUFFICES ASSUME SupTypeOK, SupEarned, SupNext PROVE Good
  OBVIOUS
<1> USE SupConstants DEF SupTypeOK, SupEarned, Older
<1>1. ASSUME NEW d \in 0 .. SupProbe, SupHealthy(d) PROVE Good
  BY <1>1 DEF SupHealthy
<1>2. ASSUME NEW d \in 0 .. SupProbe, SupUnhealthy(d) PROVE Good
  BY <1>2 DEF SupUnhealthy
<1>3. ASSUME NEW d \in 0 .. SupProbe, NEW r \in 0 .. SupRestart,
             SupRestartDue, SupRestartUnit(d, r)
      PROVE  Good
  BY <1>3 DEF SupRestartUnit, SupRestartDue
<1>4. CASE SupStart
  BY <1>1, <1>2, <1>4 DEF SupStart
<1>5. CASE SupProbeTurn
  BY <1>1, <1>2, <1>3, <1>5 DEF SupProbeTurn
<1>6. CASE SupQuietTurn
  BY <1>6 DEF SupQuietTurn
<1>7. CASE SupEndTurn
  BY <1>7 DEF SupEndTurn
<1>8. QED
  BY <1>4, <1>5, <1>6, <1>7 DEF SupNext

\* MediaMTX is restarted only after a whole outage and a whole interval, for all
\* values of the times.
THEOREM RestartsAreEarned == SupSpec => SupRestartIsEarned
<1>1. SupTypeOK /\ SupEarned /\ [SupNext]_supVars => SupEarned'
  BY SupStepEarned DEF supVars, SupEarned
<1>2. SupTypeOK /\ SupEarned /\ [SupNext]_supVars =>
        [supIssued' < supIssued =>
          /\ supReadyAge' >= SupRestartAfter
          /\ supIssued + SupProbe >= SupMinGap]_supVars
  BY SupStepEarned DEF supVars
<1>3. QED
  BY <1>1, <1>2, SupInitPinged, SupInitEarned, SupStepTyped, PTL
     DEF SupSpec, SupRestartIsEarned

-----------------------------------------------------------------------------
(* The network monitor and the pending worker                              *)

\* How long the cached status may have been wrong, at each point of the monitor's
\* thread: a probe that may still see the old state began before the change, and one
\* that cannot will correct the status.
NetWatched ==
    /\ netAt = "sleeping" =>
         /\ netLeft <= NetCheck
         /\ netOnline # netUp => netSteady + netLeft <= NetProbe + NetCheck
    /\ netAt = "probing" =>
         /\ netLeft <= NetProbe
         /\ netUp \in netFound
         /\ netFound # {netUp} => netSteady + netLeft <= NetProbe
         /\ netOnline # netUp => netSteady + netLeft <= NetNotice
    /\ netAt \in {"telling", "done"} =>
         (netOnline # netUp => netSteady <= NetProbe)

\* Every variable with its type; the thread sleeps at most the check interval.
NetTyped ==
    /\ netUp \in BOOLEAN /\ netOnline \in BOOLEAN /\ netWake \in BOOLEAN /\ netOwed \in BOOLEAN
    /\ netSteady \in 0 .. NetNotice + 1
    /\ netAt \in {"sleeping", "probing", "telling", "done"}
    /\ netLeft \in 0 .. Larger(NetCheck, NetProbe)
    /\ netFound \subseteq BOOLEAN
    /\ netBackoff \in 0 .. Larger(NetInitial, NetMaximum)
    /\ netWorker \in {"waiting", "woken", "scanning"}
    /\ netWorkerLeft \in 0 .. Larger(NetInterval, NetScan)

LEMMA NetConstants ==
    /\ NetCheck \in Nat /\ NetCheck > 0
    /\ NetInitial \in Nat /\ NetMaximum \in Nat /\ NetInterval \in Nat
    /\ NetProbe \in Nat /\ NetScan \in Nat
    /\ NetNotice \in Nat /\ NetNotice = NetCheck + 2 * NetProbe
    /\ Larger(NetInitial, NetMaximum) \in Nat /\ NetInitial <= Larger(NetInitial, NetMaximum)
    /\ Larger(NetCheck, NetProbe) \in Nat
    /\ NetCheck <= Larger(NetCheck, NetProbe) /\ NetProbe <= Larger(NetCheck, NetProbe)
    /\ Larger(NetInterval, NetScan) \in Nat
    /\ NetInterval <= Larger(NetInterval, NetScan) /\ NetScan <= Larger(NetInterval, NetScan)
BY NetAssumption DEF NetNotice, Larger

\* The ranges of NetTyped are within those of the type invariant.
LEMMA NetTypesAgree == NetTyped => NetTypeOK
<1>1. Larger(NetCheck, NetProbe) <= Larger(NetCheck, Larger(NetMaximum, NetProbe))
  BY NetConstants DEF Larger
<1>2. Larger(NetCheck, Larger(NetMaximum, NetProbe)) \in Nat
  BY NetConstants DEF Larger
<1>3. NetTyped => netLeft \in 0 .. Larger(NetCheck, Larger(NetMaximum, NetProbe))
  BY <1>1, <1>2, NetConstants DEF NetTyped
<1>4. NetTyped => {netUp, netOnline, netWake, netOwed} \subseteq BOOLEAN
  BY Zenon DEF NetTyped
<1>5. QED
  BY <1>3, <1>4 DEF NetTyped, NetTypeOK

\* The backoff keeps within its limits, whatever it doubles.
LEMMA NextDelay ==
    ASSUME netBackoff \in 0 .. Larger(NetInitial, NetMaximum)
    PROVE  NetNextDelay \in 0 .. Larger(NetInitial, NetMaximum)
BY NetConstants, TicksTyped DEF NetNextDelay

LEMMA NetInitInv == NetInit => NetTyped /\ NetWatched
<1> SUFFICES ASSUME NetInit PROVE NetTyped /\ NetWatched
  OBVIOUS
<1>1. netUp \in BOOLEAN /\ netOnline \in BOOLEAN /\ netWake \in BOOLEAN /\ netOwed \in BOOLEAN
  BY Zenon DEF NetInit
<1>2. NetTyped
  BY <1>1, NetConstants DEF NetInit, NetTyped
<1>3. NetWatched
  BY NetConstants DEF NetInit, NetWatched
<1>4. QED
  BY <1>2, <1>3

LEMMA NetStepTyped == NetTyped /\ [NetNext]_netVars => NetTyped'
<1> SUFFICES ASSUME NetTyped, [NetNext]_netVars PROVE NetTyped'
  OBVIOUS
<1> USE NetConstants DEF NetTyped, monitor, worker
<1>1. CASE NetBeginProbe
  BY <1>1 DEF NetBeginProbe
<1>2. CASE NetStore
  BY <1>2 DEF NetStore
<1>3. CASE NetTell
  BY <1>3 DEF NetTell
<1>4. CASE NetSleep
  BY <1>4, NextDelay DEF NetSleep
<1>5. CASE NetAwake \/ NetScanBegins \/ NetScanEnds
  <2>1. /\ netUp' \in BOOLEAN /\ netOnline' \in BOOLEAN
        /\ netWake' \in BOOLEAN /\ netOwed' \in BOOLEAN
    BY <1>5, Zenon DEF NetAwake, NetScanBegins, NetScanEnds
  <2>2. netWorkerLeft' \in 0 .. Larger(NetInterval, NetScan)
    BY <1>5 DEF NetAwake, NetScanBegins, NetScanEnds
  <2>3. netWorker' \in {"waiting", "woken", "scanning"}
    BY <1>5 DEF NetAwake, NetScanBegins, NetScanEnds
  <2>4. UNCHANGED <<netSteady, netAt, netLeft, netFound, netBackoff>>
    BY <1>5 DEF NetAwake, NetScanBegins, NetScanEnds
  <2>5. QED
    BY <2>1, <2>2, <2>3, <2>4
<1>6. CASE NetFlip
  <2>1. netUp' \in BOOLEAN /\ (~netUp) \in BOOLEAN
    BY <1>6, Zenon DEF NetFlip
  <2>2. netFound' \subseteq BOOLEAN
    BY <1>6, <2>1 DEF NetFlip
  <2>3. netSteady' \in 0 .. NetNotice + 1
    BY <1>6 DEF NetFlip
  <2>4. UNCHANGED <<netAt, netLeft, netOnline, netBackoff, netWake, netWorker, netWorkerLeft, netOwed>>
    BY <1>6 DEF NetFlip
  <2>5. QED
    BY <2>1, <2>2, <2>3, <2>4
<1>7. CASE NetTick
  BY <1>7 DEF NetTick, Older
<1>8. CASE UNCHANGED netVars
  BY <1>8 DEF netVars
<1>9. QED
  BY <1>1, <1>2, <1>3, <1>4, <1>5, <1>6, <1>7, <1>8 DEF NetNext

LEMMA NetStepWatched == NetTyped /\ NetWatched /\ [NetNext]_netVars => NetWatched'
<1> SUFFICES ASSUME NetTyped, NetWatched, [NetNext]_netVars PROVE NetWatched'
  OBVIOUS
<1> USE NetConstants DEF NetTyped, NetWatched, monitor, worker
<1>1. CASE NetBeginProbe
  BY <1>1 DEF NetBeginProbe
<1>2. CASE NetStore
  BY <1>2 DEF NetStore
<1>3. CASE NetTell
  BY <1>3 DEF NetTell
<1>4. CASE NetSleep
  <2>1. netBackoff' \in Nat
    BY NetStepTyped, NetConstants
  <2>2. netLeft' \in Nat /\ netLeft' <= NetCheck
    BY <1>4, <2>1 DEF NetSleep
  <2>3. QED
    BY <1>4, <2>2 DEF NetSleep
<1>5. CASE NetAwake \/ NetScanBegins \/ NetScanEnds
  BY <1>5 DEF NetAwake, NetScanBegins, NetScanEnds
<1>6. CASE NetFlip
  BY <1>6 DEF NetFlip
<1>7. CASE NetTick
  BY <1>7 DEF NetTick, Older
<1>8. CASE UNCHANGED netVars
  BY <1>8 DEF netVars
<1>9. QED
  BY <1>1, <1>2, <1>3, <1>4, <1>5, <1>6, <1>7, <1>8 DEF NetNext

\* The cached status follows a lasting change within the check interval and two probes,
\* however far the backoff is allowed to grow.
THEOREM ChangesAreNoticed == NetSpec => []NetChangeIsNoticed
<1>1. NetTyped /\ NetWatched => NetChangeIsNoticed
  BY NetConstants DEF NetTyped, NetWatched, NetChangeIsNoticed
<1>2. QED
  BY <1>1, NetInitInv, NetStepTyped, NetStepWatched, PTL DEF NetSpec

\* The event stays set from the news to the next scan, which clears it before it looks.
NetTold == netOwed => netWake

\* The pending worker never sleeps on the news that the internet is back, at whatever
\* point of its loop the news reaches it.
THEOREM ReturnsAreNotSleptOn == NetSpec => []NetReturnIsNotSleptOn
<1>1. NetInit => NetTold
  BY DEF NetInit, NetTold
<1>2. NetTold /\ [NetNext]_netVars => NetTold'
  BY DEF NetTold, NetNext, netVars, monitor, worker, NetBeginProbe, NetStore, NetTell, NetSleep,
         NetAwake, NetScanBegins, NetScanEnds, NetFlip, NetTick
<1>3. NetTold => NetReturnIsNotSleptOn
  BY DEF NetTold, NetReturnIsNotSleptOn
<1>4. QED
  BY <1>1, <1>2, <1>3, PTL DEF NetSpec

-----------------------------------------------------------------------------
(* The PIR monitor: the history of the samples                             *)

\* The operators on ages and rests stay within their limits.
LEMMA TicksBounded ==
    /\ \A a, n, limit \in Nat : Older(a, n, limit) \in 0 .. limit
    /\ \A a, n, limit \in Nat : Older(a, n, limit) = limit \/ Older(a, n, limit) = a + n
    /\ \A a, n, limit \in Nat : Older(a, n, limit) >= limit \/ Older(a, n, limit) >= a + n
    /\ \A a, n \in Nat : Left(a, n) \in 0 .. a
BY DEF Older, Left

\* The window holds a tick more than the longer of the two times.
LEMMA WindowIsLongEnough ==
    /\ PirWindow \in Nat \ {0}
    /\ PirDebounce \in Nat /\ PirMinActive \in Nat /\ PirWarmup \in Nat
    /\ PirDebounce < PirWindow /\ PirMinActive < PirWindow
    /\ PirErrorLimit \in Nat \ {0} /\ PirReopen \in Nat \ {0}
    /\ \A n \in 1 .. PirLate : n \in Nat \ {0}
BY PirAssumption DEF PirWindow, Larger

\* What the window shows after n ticks, the last of which has the sample.
LEMMA Remembered ==
    ASSUME pirSeen \in [1 .. PirWindow -> Level \cup {"none"}], NEW n \in Nat \ {0},
           NEW sample \in Level \cup {"none"}, PirRemember(n, sample)
    PROVE  /\ pirSeen' \in [1 .. PirWindow -> Level \cup {"none"}]
           /\ pirSeen'[PirWindow] = sample
           /\ \A i \in 1 .. PirWindow : i + n <= PirWindow => pirSeen'[i] = pirSeen[i + n]
           /\ \A i \in 1 .. PirWindow : i < PirWindow /\ i + n > PirWindow => pirSeen'[i] = "none"
<1> DEFINE W == PirWindow
           S == Level \cup {"none"}
           gap == [i \in 1 .. n - 1 |-> "none"]
           all == pirSeen \o gap \o <<sample>>
<1>1. W \in Nat \ {0}
  BY WindowIsLongEnough
<1>2. pirSeen \in Seq(S) /\ Len(pirSeen) = W /\ \A i \in 1 .. W : pirSeen[i] \in S
  BY <1>1
<1>3. gap \in Seq(S) /\ Len(gap) = n - 1 /\ \A i \in 1 .. n - 1 : gap[i] = "none"
  <2>1. n - 1 \in Nat
    OBVIOUS
  <2>2. QED
    BY <2>1
<1> HIDE DEF gap, W, S
<1>4. /\ pirSeen \o gap \in Seq(S) /\ Len(pirSeen \o gap) = W + (n - 1)
      /\ \A i \in 1 .. W : (pirSeen \o gap)[i] = pirSeen[i]
      /\ \A i \in W + 1 .. W + (n - 1) : (pirSeen \o gap)[i] = "none"
  BY <1>1, <1>2, <1>3
<1>5. /\ all \in Seq(S) /\ Len(all) = W + n
      /\ \A i \in 1 .. W : all[i] = pirSeen[i]
      /\ \A i \in W + 1 .. W + n - 1 : all[i] = "none"
      /\ all[W + n] = sample
  BY <1>1, <1>4 DEF S
<1> HIDE DEF all
<1>6. pirSeen' = SubSeq(all, Len(all) - W + 1, Len(all))
  BY DEF PirRemember, all, gap, W
<1>7. pirSeen' \in Seq(S) /\ Len(pirSeen') = W /\ \A i \in 1 .. W : pirSeen'[i] = all[i + n]
  <2>1. Len(all) - W + 1 = n + 1 /\ Len(all) = W + n
    BY <1>1, <1>5
  <2>2. pirSeen' = SubSeq(all, n + 1, W + n)
    BY <1>6, <2>1
  <2>3. QED
    BY <1>1, <1>5, <2>2
<1>8. \A i \in 1 .. W : pirSeen'[i] \in S
  BY <1>1, <1>7
<1>9. pirSeen' \in [1 .. W -> S]
  BY <1>7, <1>8
<1>10. pirSeen'[W] = sample
  <2>1. W \in 1 .. W
    BY <1>1
  <2>2. QED
    BY <1>5, <1>7, <2>1
<1>11. \A i \in 1 .. W : i + n <= W => pirSeen'[i] = pirSeen[i + n]
  BY <1>1, <1>5, <1>7
<1>12. \A i \in 1 .. W : i < W /\ i + n > W => pirSeen'[i] = "none"
  BY <1>1, <1>5, <1>7
<1>13. QED
  BY <1>9, <1>10, <1>11, <1>12 DEF W, S

-----------------------------------------------------------------------------
(* The debouncer                                                           *)

Debouncers == [stable : Level, candidate : Level, since : 0 .. PirDebounce, held : 0 .. PirMinActive]

LEMMA Aged ==
    ASSUME NEW d \in Debouncers, NEW n \in Nat
    PROVE  LET a == PirAged(d, n)
           IN  /\ a \in Debouncers /\ a.stable = d.stable /\ a.candidate = d.candidate
               /\ a.since = Older(d.since, n, PirDebounce) /\ a.held = Older(d.held, n, PirMinActive)
<1>1. Older(d.since, n, PirDebounce) \in 0 .. PirDebounce /\ Older(d.held, n, PirMinActive) \in 0 .. PirMinActive
  <2>1. d.since \in Nat /\ d.held \in Nat /\ PirDebounce \in Nat /\ PirMinActive \in Nat
    BY WindowIsLongEnough DEF Debouncers
  <2>2. QED
    BY <2>1, TicksBounded
<1>2. QED
  BY <1>1 DEF Debouncers, PirAged

\* An update either takes the sample for the debounced level or still has a reason not to.
LEMMA Updated ==
    ASSUME NEW d \in Debouncers, NEW raw \in Level
    PROVE  LET u == PirUpdate(d, raw)
           IN  /\ u \in Debouncers /\ u.candidate = raw
               /\ u.since = IF raw = d.candidate THEN d.since ELSE 0
               /\ \/ /\ u.stable = d.stable /\ u.held = d.held
                     /\ raw = u.stable \/ ~(u.since >= PirDebounce) \/ (raw = "low" /\ ~(u.held >= PirMinActive))
                  \/ /\ u.stable = raw /\ u.stable # d.stable /\ u.held = 0
                     /\ u.since >= PirDebounce
                     /\ raw = "low" => d.held >= PirMinActive
<1> DEFINE seen == IF raw = d.candidate THEN d ELSE [d EXCEPT !.candidate = raw, !.since = 0]
<1>0. 0 \in 0 .. PirDebounce /\ 0 \in 0 .. PirMinActive
  BY WindowIsLongEnough
<1>1. /\ seen \in Debouncers /\ seen.candidate = raw /\ seen.stable = d.stable /\ seen.held = d.held
      /\ seen.since = IF raw = d.candidate THEN d.since ELSE 0
  BY <1>0 DEF Debouncers
<1>2. PirUpdate(d, raw) = IF PirSettled(seen) THEN [seen EXCEPT !.stable = raw, !.held = 0] ELSE seen
  BY DEF PirUpdate
<1> HIDE DEF seen
<1>3. CASE PirSettled(seen)
  <2>1. PirUpdate(d, raw) = [seen EXCEPT !.stable = raw, !.held = 0]
    BY <1>2, <1>3
  <2>2. /\ [seen EXCEPT !.stable = raw, !.held = 0] \in Debouncers
        /\ [seen EXCEPT !.stable = raw, !.held = 0].stable = raw
        /\ [seen EXCEPT !.stable = raw, !.held = 0].held = 0
        /\ [seen EXCEPT !.stable = raw, !.held = 0].since = seen.since
        /\ [seen EXCEPT !.stable = raw, !.held = 0].candidate = seen.candidate
    BY <1>0, <1>1 DEF Debouncers
  <2>3. QED
    BY <1>1, <1>3, <2>1, <2>2 DEF PirSettled
<1>4. CASE ~PirSettled(seen)
  BY <1>1, <1>2, <1>4 DEF PirSettled
<1>5. QED
  BY <1>3, <1>4

-----------------------------------------------------------------------------
(* Its invariant                                                           *)

\* No sample since the candidate's mark contradicts it.
MarkIsHonest ==
    \A i \in 1 .. PirWindow :
        i >= PirWindow - pirDebouncer.since => pirSeen[i] \in {pirDebouncer.candidate, "none"}

\* Both marks are as old as the level that has been read at every tick.
MarksKeepUp ==
    \A k \in 0 .. PirWindow - 1, l \in Level :
        (\A i \in 1 .. PirWindow : i >= PirWindow - k => pirSeen[i] = l) =>
            /\ pirDebouncer.candidate = l
            /\ pirDebouncer.since >= k \/ pirDebouncer.since >= PirDebounce
            /\ l = "low" /\ pirDebouncer.stable = "high" =>
                 pirDebouncer.held >= k \/ pirDebouncer.held >= PirMinActive

\* A sample was taken for the debounced level as soon as it could be.
NothingIsOverdue ==
    pirSeen[PirWindow] # "none" =>
        \/ pirDebouncer.candidate = pirDebouncer.stable
        \/ ~(pirDebouncer.since >= PirDebounce)
        \/ pirDebouncer.candidate = "low" /\ ~(pirDebouncer.held >= PirMinActive)

PirInv ==
    /\ PirTypeOK
    /\ MarkIsHonest
    /\ MarksKeepUp
    /\ NothingIsOverdue
    /\ pirDebouncer.stable = "high" => pirUp = pirDebouncer.held
    /\ pirTold = pirDebouncer.stable \/ pirDropped

LEMMA PirInitInv == PirInit => PirInv
<1> SUFFICES ASSUME PirInit PROVE PirInv
  OBVIOUS
<1>1. /\ pirSeen = [i \in 1 .. PirWindow |-> "none"] /\ pirTold = "low" /\ pirWarm = PirWarmup
      /\ pirDebouncer = [stable |-> "low", candidate |-> "low", since |-> PirDebounce, held |-> PirMinActive]
      /\ pirUp = PirMinActive /\ pirBroken \in BOOLEAN
  BY DEF PirInit
<1>2. pirSensor = [open |-> ~pirBroken, errors |-> 0, retry |-> IF pirBroken THEN PirReopen ELSE 0]
  BY DEF PirInit
<1>3. pirDropped = FALSE
  BY Zenon DEF PirInit
<1>4. PirTypeOK
  <2>1. pirSensor \in [open : BOOLEAN, errors : 0 .. PirErrorLimit, retry : 0 .. PirReopen]
    BY <1>1, <1>2, WindowIsLongEnough
  <2>2. pirDropped \in BOOLEAN
    BY <1>3
  <2>3. pirDebouncer \in [stable : Level, candidate : Level, since : 0 .. PirDebounce, held : 0 .. PirMinActive]
    BY <1>1, WindowIsLongEnough DEF Level
  <2>4. QED
    BY <1>1, <2>1, <2>2, <2>3, WindowIsLongEnough DEF PirTypeOK, Level
<1>5. MarkIsHonest /\ NothingIsOverdue
  BY <1>1, WindowIsLongEnough DEF MarkIsHonest, NothingIsOverdue
<1>6. MarksKeepUp
  BY <1>1, WindowIsLongEnough DEF MarksKeepUp, Level
<1>7. QED
  BY <1>1, <1>4, <1>5, <1>6 DEF PirInv

-----------------------------------------------------------------------------
(* Its steps                                                               *)

\* A tick without a sample.
LEMMA NothingRead ==
    ASSUME PirInv, NEW n \in Nat \ {0}, PirRemember(n, "none"), PirTypeOK',
           pirDebouncer' = PirAged(pirDebouncer, n), pirUp' = Older(pirUp, n, PirMinActive),
           UNCHANGED <<pirTold, pirDropped>>
    PROVE  PirInv'
<1> DEFINE D == pirDebouncer
           S == Level \cup {"none"}
<1>1. pirSeen \in [1 .. PirWindow -> S] /\ D \in Debouncers /\ D.since \in Nat
  BY DEF PirInv, PirTypeOK, Debouncers
<1>2. /\ pirSeen'[PirWindow] = "none"
      /\ \A i \in 1 .. PirWindow : i + n <= PirWindow => pirSeen'[i] = pirSeen[i + n]
      /\ \A i \in 1 .. PirWindow : i < PirWindow /\ i + n > PirWindow => pirSeen'[i] = "none"
  BY <1>1, Remembered
<1>3. /\ D'.stable = D.stable /\ D'.candidate = D.candidate
      /\ D'.since = Older(D.since, n, PirDebounce) /\ D'.held = Older(D.held, n, PirMinActive)
  BY <1>1, Aged
<1>4. D'.since \in Nat /\ D'.since <= D.since + n
  BY <1>1, <1>3, WindowIsLongEnough DEF Older
<1>5. MarkIsHonest'
  <2> SUFFICES ASSUME NEW i \in 1 .. PirWindow, i >= PirWindow - D'.since
               PROVE  pirSeen'[i] \in {D'.candidate, "none"}
    BY DEF MarkIsHonest
  <2>1. CASE i + n <= PirWindow
    <3>1. i + n \in 1 .. PirWindow /\ i + n >= PirWindow - D.since
      BY <1>1, <1>4, <2>1, WindowIsLongEnough
    <3>2. QED
      BY <1>2, <1>3, <2>1, <3>1 DEF PirInv, MarkIsHonest
  <2>2. CASE i + n > PirWindow
    BY <1>2, <2>2, WindowIsLongEnough
  <2>3. QED
    BY <2>1, <2>2, WindowIsLongEnough
<1>6. MarksKeepUp'
  <2> SUFFICES ASSUME NEW k \in 0 .. PirWindow - 1, NEW l \in Level,
                      \A i \in 1 .. PirWindow : i >= PirWindow - k => pirSeen'[i] = l
               PROVE  FALSE
    BY DEF MarksKeepUp
  <2>1. PirWindow \in 1 .. PirWindow /\ PirWindow >= PirWindow - k
    BY WindowIsLongEnough
  <2>2. QED
    BY <1>2, <2>1 DEF Level
<1>7. NothingIsOverdue'
  BY <1>2 DEF NothingIsOverdue
<1>8. /\ D'.stable = "high" => pirUp' = D'.held
      /\ pirTold' = D'.stable \/ pirDropped'
  BY <1>3 DEF PirInv
<1>9. QED
  BY <1>5, <1>6, <1>7, <1>8 DEF PirInv

LEMMA OpenKeeps ==
    ASSUME PirInv, NEW n \in 1 .. PirLate, PirOpen(n)
    PROVE  PirInv'
<1>0. n \in Nat \ {0}
  BY WindowIsLongEnough
<1>1. /\ PirRemember(n, "none") /\ pirDebouncer' = PirAged(pirDebouncer, n)
      /\ pirUp' = Older(pirUp, n, PirMinActive) /\ UNCHANGED <<pirTold, pirDropped>>
      /\ pirBroken' \in BOOLEAN
  BY DEF PirOpen
<1>2. /\ Left(pirWarm, n) \in 0 .. PirWarmup /\ Left(pirSensor.retry, n) \in 0 .. PirReopen
      /\ 0 \in 0 .. PirReopen /\ PirReopen \in 0 .. PirReopen /\ PirWarmup \in 0 .. PirWarmup
  <2>1. pirWarm \in Nat /\ pirWarm <= PirWarmup /\ pirSensor.retry \in Nat /\ pirSensor.retry <= PirReopen
    BY WindowIsLongEnough DEF PirInv, PirTypeOK
  <2>2. QED
    BY <1>0, <2>1, WindowIsLongEnough DEF Left
<1>3. pirWarm' \in 0 .. PirWarmup
  BY <1>2 DEF PirOpen
<1>4. pirSensor' \in [open : BOOLEAN, errors : 0 .. PirErrorLimit, retry : 0 .. PirReopen]
  <2>1. \/ pirSensor' = [pirSensor EXCEPT !.retry = Left(@, n)]
        \/ pirSensor' = [pirSensor EXCEPT !.retry = PirReopen]
        \/ pirSensor' = [pirSensor EXCEPT !.open = TRUE, !.retry = 0]
    BY DEF PirOpen
  <2>2. QED
    BY <1>2, <2>1 DEF PirInv, PirTypeOK
<1>5. PirTypeOK'
  <2>1. pirUp' \in 0 .. PirMinActive
    BY <1>0, <1>1, TicksBounded, WindowIsLongEnough DEF PirInv, PirTypeOK
  <2>2. pirDebouncer' \in Debouncers
    BY <1>0, <1>1, Aged DEF PirInv, PirTypeOK, Debouncers
  <2>3. pirSeen' \in [1 .. PirWindow -> Level \cup {"none"}]
    BY <1>0, <1>1, Remembered DEF PirInv, PirTypeOK
  <2>4. QED
    BY <1>1, <1>3, <1>4, <2>1, <2>2, <2>3 DEF PirInv, PirTypeOK, Debouncers
<1>6. QED
  BY <1>0, <1>1, <1>5, NothingRead

LEMMA FailedPollKeeps ==
    ASSUME PirInv, NEW n \in 1 .. PirLate, PirFailedPoll(n)
    PROVE  PirInv'
<1>0. n \in Nat \ {0}
  BY WindowIsLongEnough
<1>1. /\ PirRemember(n, "none") /\ pirDebouncer' = PirAged(pirDebouncer, n)
      /\ pirUp' = Older(pirUp, n, PirMinActive) /\ UNCHANGED <<pirTold, pirDropped>>
      /\ pirWarm' = Left(pirWarm, n)
  BY DEF PirFailedPoll
<1>2. pirBroken' \in BOOLEAN
  <2>1. pirBroken' = TRUE
    BY Zenon DEF PirFailedPoll
  <2>2. QED
    BY <2>1
<1>3. pirWarm' \in 0 .. PirWarmup
  <2>1. pirWarm \in Nat /\ pirWarm <= PirWarmup
    BY WindowIsLongEnough DEF PirInv, PirTypeOK
  <2>2. QED
    BY <1>0, <1>1, <2>1, WindowIsLongEnough DEF Left
<1>4. pirSensor' \in [open : BOOLEAN, errors : 0 .. PirErrorLimit, retry : 0 .. PirReopen]
  <2> DEFINE errors == Older(pirSensor.errors, 1, PirErrorLimit)
  <2>1. errors \in 0 .. PirErrorLimit /\ PirReopen \in 0 .. PirReopen
    <3>1. pirSensor.errors \in Nat /\ 1 \in Nat /\ PirErrorLimit \in Nat /\ PirReopen \in 0 .. PirReopen
      BY WindowIsLongEnough DEF PirInv, PirTypeOK
    <3>2. QED
      BY <3>1, TicksBounded
  <2>2. \/ pirSensor' = [open |-> FALSE, errors |-> errors, retry |-> PirReopen]
        \/ pirSensor' = [pirSensor EXCEPT !.errors = errors]
    BY DEF PirFailedPoll
  <2> HIDE DEF errors
  <2>3. QED
    <3>1. pirSensor \in [open : BOOLEAN, errors : 0 .. PirErrorLimit, retry : 0 .. PirReopen]
      BY DEF PirInv, PirTypeOK
    <3>2. CASE pirSensor' = [open |-> FALSE, errors |-> errors, retry |-> PirReopen]
      BY <2>1, <3>2
    <3>3. CASE pirSensor' = [pirSensor EXCEPT !.errors = errors]
      BY <2>1, <3>1, <3>3
    <3>4. QED
      BY <2>2, <3>2, <3>3
<1>5. PirTypeOK'
  <2>1. pirUp' \in 0 .. PirMinActive
    BY <1>0, <1>1, TicksBounded, WindowIsLongEnough DEF PirInv, PirTypeOK
  <2>2. pirDebouncer' \in Debouncers
    BY <1>0, <1>1, Aged DEF PirInv, PirTypeOK, Debouncers
  <2>3. pirSeen' \in [1 .. PirWindow -> Level \cup {"none"}]
    BY <1>0, <1>1, Remembered DEF PirInv, PirTypeOK
  <2>4. QED
    BY <1>1, <1>2, <1>3, <1>4, <2>1, <2>2, <2>3 DEF PirInv, PirTypeOK, Debouncers
<1>6. QED
  BY <1>0, <1>1, <1>5, NothingRead

\* What a sample does to the marks, the level and the history.
LEMMA Sampled ==
    ASSUME PirInv, NEW n \in 1 .. PirLate, PirPoll(n)
    PROVE  LET d == pirDebouncer
               u == pirDebouncer'
           IN  \E raw \in Level, since \in Nat, held \in Nat :
             /\ n \in Nat \ {0}
             /\ since = Older(d.since, n, PirDebounce) /\ held = Older(d.held, n, PirMinActive)
             /\ u \in Debouncers /\ u.candidate = raw
             /\ u.since = IF raw = d.candidate THEN since ELSE 0
             /\ \/ /\ u.stable = d.stable /\ u.held = held
                   /\ raw = u.stable \/ ~(u.since >= PirDebounce) \/ (raw = "low" /\ ~(u.held >= PirMinActive))
                \/ /\ u.stable = raw /\ u.stable # d.stable /\ u.held = 0
                   /\ u.since >= PirDebounce
                   /\ raw = "low" => held >= PirMinActive
             /\ pirSeen' \in [1 .. PirWindow -> Level \cup {"none"}]
             /\ pirSeen'[PirWindow] = raw
             /\ \A i \in 1 .. PirWindow : i + n <= PirWindow => pirSeen'[i] = pirSeen[i + n]
             /\ \A i \in 1 .. PirWindow : i < PirWindow /\ i + n > PirWindow => pirSeen'[i] = "none"
<1>1. n \in Nat \ {0} /\ pirDebouncer \in Debouncers
  BY WindowIsLongEnough DEF PirInv, PirTypeOK, Debouncers
<1>2. PICK raw \in Level : pirDebouncer' = PirUpdate(PirAged(pirDebouncer, n), raw) /\ PirRemember(n, raw)
  BY DEF PirPoll
<1> DEFINE a == PirAged(pirDebouncer, n)
<1>3. /\ a \in Debouncers /\ a.stable = pirDebouncer.stable /\ a.candidate = pirDebouncer.candidate
      /\ a.since = Older(pirDebouncer.since, n, PirDebounce)
      /\ a.held = Older(pirDebouncer.held, n, PirMinActive)
  BY <1>1, Aged
<1>4. pirDebouncer' = PirUpdate(a, raw)
  BY <1>2
<1> HIDE DEF a
<1>5. a.since \in Nat /\ a.held \in Nat
  BY <1>3 DEF Debouncers
<1>6. /\ pirDebouncer' \in Debouncers /\ pirDebouncer'.candidate = raw
      /\ pirDebouncer'.since = IF raw = a.candidate THEN a.since ELSE 0
      /\ \/ /\ pirDebouncer'.stable = a.stable /\ pirDebouncer'.held = a.held
            /\ \/ raw = pirDebouncer'.stable \/ ~(pirDebouncer'.since >= PirDebounce)
               \/ raw = "low" /\ ~(pirDebouncer'.held >= PirMinActive)
         \/ /\ pirDebouncer'.stable = raw /\ pirDebouncer'.stable # a.stable /\ pirDebouncer'.held = 0
            /\ pirDebouncer'.since >= PirDebounce
            /\ raw = "low" => a.held >= PirMinActive
  BY <1>3, <1>4, Updated
<1>7. /\ pirSeen' \in [1 .. PirWindow -> Level \cup {"none"}]
      /\ pirSeen'[PirWindow] = raw
      /\ \A i \in 1 .. PirWindow : i + n <= PirWindow => pirSeen'[i] = pirSeen[i + n]
      /\ \A i \in 1 .. PirWindow : i < PirWindow /\ i + n > PirWindow => pirSeen'[i] = "none"
  BY <1>1, <1>2, Remembered DEF PirInv, PirTypeOK
<1>8. QED
  BY <1>1, <1>3, <1>5, <1>6, <1>7

LEMMA PollKeeps ==
    ASSUME PirInv, NEW n \in 1 .. PirLate, PirPoll(n)
    PROVE  PirInv'
<1> DEFINE d == pirDebouncer
           u == pirDebouncer'
<1>0. d.since \in Nat /\ d.held \in Nat /\ d.stable \in Level /\ PirWindow \in Nat \ {0}
  BY WindowIsLongEnough DEF PirInv, PirTypeOK
<1>1. PICK raw \in Level, since \in Nat, held \in Nat :
             /\ n \in Nat \ {0}
             /\ since = Older(d.since, n, PirDebounce) /\ held = Older(d.held, n, PirMinActive)
             /\ u \in Debouncers /\ u.candidate = raw
             /\ u.since = IF raw = d.candidate THEN since ELSE 0
             /\ \/ /\ u.stable = d.stable /\ u.held = held
                   /\ raw = u.stable \/ ~(u.since >= PirDebounce) \/ (raw = "low" /\ ~(u.held >= PirMinActive))
                \/ /\ u.stable = raw /\ u.stable # d.stable /\ u.held = 0
                   /\ u.since >= PirDebounce
                   /\ raw = "low" => held >= PirMinActive
             /\ pirSeen' \in [1 .. PirWindow -> Level \cup {"none"}]
             /\ pirSeen'[PirWindow] = raw
             /\ \A i \in 1 .. PirWindow : i + n <= PirWindow => pirSeen'[i] = pirSeen[i + n]
             /\ \A i \in 1 .. PirWindow : i < PirWindow /\ i + n > PirWindow => pirSeen'[i] = "none"
  BY Sampled
<1>2. /\ since <= d.since + n /\ u.since \in Nat /\ u.held \in Nat /\ raw # "none" /\ u.stable \in Level
      /\ \A k \in Nat : d.since >= k \/ d.since >= PirDebounce =>
           since >= k + n \/ since >= PirDebounce
      /\ \A k \in Nat : d.held >= k \/ d.held >= PirMinActive =>
           held >= k + n \/ held >= PirMinActive
  <2>1. u.since \in Nat /\ u.held \in Nat /\ u.stable \in Level /\ raw # "none"
    BY <1>1, WindowIsLongEnough DEF Debouncers, Level
  <2>2. since <= d.since + n
    BY <1>0, <1>1, WindowIsLongEnough DEF Older
  <2>3. ASSUME NEW k \in Nat, d.since >= k \/ d.since >= PirDebounce
        PROVE  since >= k + n \/ since >= PirDebounce
    BY <1>0, <1>1, <2>3, WindowIsLongEnough DEF Older
  <2>4. ASSUME NEW k \in Nat, d.held >= k \/ d.held >= PirMinActive
        PROVE  held >= k + n \/ held >= PirMinActive
    BY <1>0, <1>1, <2>4, WindowIsLongEnough DEF Older
  <2>5. QED
    BY <2>1, <2>2, <2>3, <2>4
<1>3. MarkIsHonest'
  <2> SUFFICES ASSUME NEW i \in 1 .. PirWindow, i >= PirWindow - u.since
               PROVE  pirSeen'[i] \in {raw, "none"}
    BY <1>1 DEF MarkIsHonest
  <2>1. CASE i = PirWindow
    BY <1>1, <2>1
  <2>2. CASE i + n > PirWindow /\ i # PirWindow
    BY <1>0, <1>1, <2>2
  <2>3. CASE i + n <= PirWindow
    <3>1. raw = d.candidate /\ u.since = since
      BY <1>0, <1>1, <2>3
    <3>2. i + n \in 1 .. PirWindow /\ i + n >= PirWindow - d.since
      BY <1>0, <1>1, <1>2, <2>3, <3>1
    <3>3. QED
      BY <1>1, <2>3, <3>1, <3>2 DEF PirInv, MarkIsHonest
  <2>4. QED
    BY <1>0, <1>1, <2>1, <2>2, <2>3
<1>4. MarksKeepUp'
  <2> SUFFICES ASSUME NEW k \in 0 .. PirWindow - 1, NEW l \in Level,
                      \A i \in 1 .. PirWindow : i >= PirWindow - k => pirSeen'[i] = l
               PROVE  /\ u.candidate = l
                      /\ u.since >= k \/ u.since >= PirDebounce
                      /\ l = "low" /\ u.stable = "high" => u.held >= k \/ u.held >= PirMinActive
    BY DEF MarksKeepUp
  <2>1. raw = l
    BY <1>0, <1>1
  <2>2. CASE k = 0
    BY <1>0, <1>1, <1>2, <2>1, <2>2
  <2>3. CASE k # 0
    <3>1. n = 1
      <4>1. PirWindow - 1 \in 1 .. PirWindow /\ PirWindow - 1 >= PirWindow - k /\ l # "none"
        BY <1>0, <2>3 DEF Level
      <4>2. pirSeen'[PirWindow - 1] = l
        BY <4>1
      <4>3. QED
        BY <1>0, <1>1, <4>1, <4>2
    <3>2. k - 1 \in 0 .. PirWindow - 1
      BY <1>0, <2>3
    <3>3. ASSUME NEW i \in 1 .. PirWindow, i >= PirWindow - (k - 1) PROVE pirSeen[i] = l
      <4>1. i - 1 \in 1 .. PirWindow /\ i - 1 >= PirWindow - k /\ (i - 1) + n <= PirWindow /\ (i - 1) + n = i
        BY <1>0, <3>1, <3>3
      <4>2. pirSeen'[i - 1] = l
        BY <4>1
      <4>3. pirSeen'[i - 1] = pirSeen[(i - 1) + n]
        BY <1>1, <4>1
      <4>4. QED
        BY <4>1, <4>2, <4>3
    <3>4. /\ d.candidate = l
          /\ d.since >= k - 1 \/ d.since >= PirDebounce
          /\ l = "low" /\ d.stable = "high" => d.held >= k - 1 \/ d.held >= PirMinActive
      BY <3>2, <3>3 DEF PirInv, MarksKeepUp
    <3>5. k - 1 \in Nat /\ (k - 1) + n = k
      BY <3>1, <3>2
    <3>6. u.since >= k \/ u.since >= PirDebounce
      BY <1>1, <1>2, <2>1, <3>4, <3>5
    <3>7. ASSUME l = "low", u.stable = "high" PROVE u.held >= k \/ u.held >= PirMinActive
      <4>1. u.stable = d.stable /\ u.held = held
        BY <1>1, <2>1, <3>7
      <4>2. QED
        BY <1>2, <3>4, <3>5, <3>7, <4>1
    <3>8. QED
      BY <1>1, <2>1, <3>6, <3>7
  <2>4. QED
    BY <2>2, <2>3
<1>5. NothingIsOverdue'
  BY <1>1 DEF NothingIsOverdue
<1>6. PirTypeOK' /\ (u.stable = "high" => pirUp' = u.held) /\ (pirTold' = u.stable \/ pirDropped')
  <2>1. pirUp \in Nat /\ pirWarm \in Nat /\ pirWarm <= PirWarmup
    BY WindowIsLongEnough DEF PirInv, PirTypeOK
  <2>2. pirUp' = IF u.stable # d.stable /\ u.stable = "high" THEN 0 ELSE Older(pirUp, n, PirMinActive)
    BY DEF PirPoll
  <2>3. pirUp' \in 0 .. PirMinActive
    BY <1>1, <2>1, <2>2, TicksBounded, WindowIsLongEnough
  <2>4. u.stable = "high" => pirUp' = u.held
    BY <1>1, <2>2 DEF PirInv
  <2>5. pirWarm' \in 0 .. PirWarmup
    <3>1. pirWarm' = Left(pirWarm, n)
      BY DEF PirPoll
    <3>2. QED
      BY <1>1, <2>1, <3>1, WindowIsLongEnough DEF Left
  <2>6. pirSensor' \in [open : BOOLEAN, errors : 0 .. PirErrorLimit, retry : 0 .. PirReopen]
    <3>1. 0 \in 0 .. PirErrorLimit /\ pirSensor' = [pirSensor EXCEPT !.errors = 0]
      BY WindowIsLongEnough DEF PirPoll
    <3>2. QED
      BY <3>1 DEF PirInv, PirTypeOK
  <2>7. pirBroken' \in BOOLEAN
    <3>1. pirBroken' = FALSE
      BY Zenon DEF PirPoll
    <3>2. QED
      BY <3>1
  <2>8. pirDropped' \in BOOLEAN
    <3>1. pirDropped' = TRUE \/ pirDropped' = FALSE \/ pirDropped' = pirDropped
      BY Zenon DEF PirPoll
    <3>2. QED
      BY <3>1 DEF PirInv, PirTypeOK
  <2>9. pirTold' \in {pirTold, u.stable}
    BY DEF PirPoll
  <2>10. pirTold' = u.stable \/ pirDropped'
    <3>1. CASE u.stable = d.stable
      <4>1. UNCHANGED <<pirTold, pirDropped>>
        BY <3>1 DEF PirPoll
      <4>2. QED
        BY <3>1, <4>1 DEF PirInv
    <3>2. CASE u.stable # d.stable
      <4>1. pirDropped' = TRUE \/ pirTold' = u.stable
        BY <3>2, Zenon DEF PirPoll
      <4>2. QED
        BY <4>1
    <3>3. QED
      BY <3>1, <3>2
  <2>11. QED
    BY <1>1, <1>2, <2>3, <2>4, <2>5, <2>6, <2>7, <2>8, <2>9, <2>10 DEF PirInv, PirTypeOK, Debouncers
<1>7. QED
  BY <1>3, <1>4, <1>5, <1>6 DEF PirInv

LEMMA PirStepInv == PirInv /\ [PirNext]_pirVars => PirInv'
<1> SUFFICES ASSUME PirInv, [PirNext]_pirVars PROVE PirInv'
  OBVIOUS
<1>1. ASSUME NEW n \in 1 .. PirLate, PirOpen(n) \/ PirFailedPoll(n) \/ PirPoll(n) PROVE PirInv'
  BY <1>1, OpenKeeps, FailedPollKeeps, PollKeeps
<1>2. CASE UNCHANGED pirVars
  BY <1>2 DEF pirVars, PirInv, PirTypeOK, MarkIsHonest, MarksKeepUp, NothingIsOverdue
<1>3. QED
  BY <1>1, <1>2 DEF PirNext

LEMMA PirAlways == PirSpec => []PirInv
BY PirInitInv, PirStepInv, PTL DEF PirSpec

-----------------------------------------------------------------------------
(* What it promises                                                        *)

\* A level that was read at every tick for as long as the two times demand is believed, by
\* the controller too unless the warm-up has dropped an edge (MotionDebouncer.update, poll_once).
THEOREM SteadyLineIsBelieved == PirSpec => []PirSteadyLineIsBelieved
<1>1. PirInv => PirSteadyLineIsBelieved
  <2> SUFFICES ASSUME PirInv, NEW l \in Level, \A i \in 1 .. PirWindow : pirSeen[i] = l
               PROVE  pirDebouncer.stable = l /\ (pirTold = l \/ pirDropped)
    BY DEF PirSteadyLineIsBelieved
  <2>1. pirDebouncer \in Debouncers
    BY DEF PirInv, PirTypeOK, Debouncers
  <2>2. PirWindow - 1 \in 0 .. PirWindow - 1 /\ PirWindow \in 1 .. PirWindow
    BY WindowIsLongEnough
  <2>3. /\ pirDebouncer.candidate = l
        /\ pirDebouncer.since >= PirWindow - 1 \/ pirDebouncer.since >= PirDebounce
        /\ l = "low" /\ pirDebouncer.stable = "high" =>
             pirDebouncer.held >= PirWindow - 1 \/ pirDebouncer.held >= PirMinActive
    BY <2>2 DEF PirInv, MarksKeepUp
  <2>4. /\ pirDebouncer.since >= PirDebounce
        /\ l = "low" /\ pirDebouncer.stable = "high" => pirDebouncer.held >= PirMinActive
    BY <2>1, <2>3, WindowIsLongEnough DEF Debouncers
  <2>5. pirSeen[PirWindow] # "none"
    BY <2>2 DEF Level
  <2>6. pirDebouncer.stable = l
    BY <2>1, <2>3, <2>4, <2>5 DEF PirInv, NothingIsOverdue, Debouncers, Level
  <2>7. QED
    BY <2>6 DEF PirInv
<1>2. QED
  BY <1>1, PirAlways, PTL

\* The debounced line changes only to a level that no sample of the last debounce time
\* contradicts, and falls only when it has been up for the minimum active time.
THEOREM EdgesAreDebounced == PirSpec => PirEdgesAreDebounced
<1>1. ASSUME PirInv, PirInv', PirNext, pirDebouncer'.stable # pirDebouncer.stable
      PROVE  /\ \A i \in PirWindow - PirDebounce .. PirWindow :
                  pirSeen'[i] \in {pirDebouncer'.stable, "none"}
             /\ pirSeen'[PirWindow] = pirDebouncer'.stable
             /\ pirDebouncer'.stable = "low" => pirUp' >= PirMinActive
  <2>1. PICK n \in 1 .. PirLate : PirOpen(n) \/ PirFailedPoll(n) \/ PirPoll(n)
    BY <1>1 DEF PirNext
  <2>2. pirDebouncer \in Debouncers /\ n \in Nat
    BY <1>1, <2>1, WindowIsLongEnough DEF PirInv, PirTypeOK, Debouncers
  <2>3. PirPoll(n)
    <3>1. PirOpen(n) \/ PirFailedPoll(n) => pirDebouncer'.stable = pirDebouncer.stable
      BY <2>2, Aged DEF PirOpen, PirFailedPoll
    <3>2. QED
      BY <1>1, <2>1, <3>1
  <2>4. PICK raw \in Level, held \in Nat :
             /\ held = Older(pirDebouncer.held, n, PirMinActive)
             /\ pirDebouncer' \in Debouncers /\ pirDebouncer'.candidate = raw
             /\ pirDebouncer'.stable = raw
             /\ pirDebouncer'.since >= PirDebounce
             /\ raw = "low" => held >= PirMinActive
             /\ pirSeen'[PirWindow] = raw
    BY <1>1, <2>3, Sampled
  <2>5. ASSUME NEW i \in PirWindow - PirDebounce .. PirWindow PROVE pirSeen'[i] \in {raw, "none"}
    <3>1. i \in 1 .. PirWindow /\ i >= PirWindow - pirDebouncer'.since
      BY <2>4, WindowIsLongEnough DEF Debouncers
    <3>2. QED
      BY <1>1, <2>4, <3>1 DEF PirInv, MarkIsHonest
  <2>6. raw = "low" => pirUp' >= PirMinActive
    <3>1. raw = "low" => pirDebouncer.stable = "high" /\ pirUp' = Older(pirUp, n, PirMinActive)
      BY <1>1, <2>2, <2>3, <2>4 DEF PirPoll, Debouncers, Level
    <3>2. QED
      BY <1>1, <2>4, <3>1 DEF PirInv
  <2>7. QED
    BY <2>4, <2>5, <2>6
<1>2. PirInv /\ PirInv' /\ [PirNext]_pirVars =>
        [ LET new == pirDebouncer'.stable IN
          new # pirDebouncer.stable =>
            /\ \A i \in PirWindow - PirDebounce .. PirWindow : pirSeen'[i] \in {new, "none"}
            /\ pirSeen'[PirWindow] = new
            /\ new = "low" => pirUp' >= PirMinActive ]_pirVars
  BY <1>1
<1>3. QED
  BY <1>2, PirAlways, PTL DEF PirSpec, PirEdgesAreDebounced
=============================================================================
