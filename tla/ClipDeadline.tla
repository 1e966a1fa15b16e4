------------------------------ MODULE ClipDeadline ------------------------------
(***************************************************************************)
(* The race of a clip against the rolling buffer: an event's clip has to   *)
(* be cut (recorder.py extract) before MediaMTX deletes the video it       *)
(* begins with.  The first attempt follows the event's end; a failed one   *)
(* is repeated by the pending worker, which looks only once an interval    *)
(* (worker.py), so the recorder must stop early enough (_retry_or_lose).   *)
(***************************************************************************)
EXTENDS Ticks, Sequences

CONSTANTS
    ClipDelays,     \* RETRY_DELAYS
    ClipLongest,    \* pre_event_seconds + max_event_seconds
    ClipRetain,     \* buffer_retain_seconds
    ClipSlack,      \* what the configuration adds to the longest event
    ClipMargin,     \* what the deadline leaves of the buffer: 60 s
    ClipInterval,   \* the pending worker's interval, 60 s
    ClipCall,       \* the longest call of the playback server
    ClipQueue       \* the longest wait for the pool

ASSUME ClipAssumption ==
    /\ {ClipLongest, ClipRetain, ClipSlack, ClipMargin, ClipInterval} \subseteq Nat
    /\ {ClipCall, ClipQueue} \subseteq Nat
    /\ ClipDelays \in Seq(Nat) /\ ClipDelays # <<>>
    /\ ClipLongest > 0
    /\ ClipInterval <= ClipMargin
    /\ ClipMargin <= ClipSlack
    /\ ClipRetain >= ClipLongest + ClipSlack

VARIABLES
    clipAge,        \* time since clip_start_at
    clipTask,       \* the task; "lost": no segment is left, "expired": no time for a retry
    clipAttempts,   \* recording.attempts, as far as the delays differ
    clipLeft,       \* time until next_attempt_at, or what an attempt or a queue may last
    clipScan,       \* time until the next scan
    clipSinceEnd,   \* history: time since the event's end, up to the slack
    clipBegan       \* history: the age at which the last retry began

clipVars == <<clipAge, clipTask, clipAttempts, clipLeft, clipScan, clipSinceEnd, clipBegan>>

\* An attempt asks for the segments and then for the clip.
ClipCalls == {"listing", "copying"}

\* No age above this one matters: every task has ended by then.
ClipHorizon == ClipRetain + 2 * ClipCall + ClipInterval + ClipQueue

-----------------------------------------------------------------------------
\* The finalization job is submitted: it has at most ClipQueue to wait.
ClipEventEnds ==
    /\ clipTask = "recording"
    /\ clipTask' = "queued"
    /\ clipLeft' = ClipQueue
    /\ clipSinceEnd' = 0
    /\ UNCHANGED <<clipAge, clipAttempts, clipScan, clipBegan>>

\* extract() begins: begin() counts the attempt.
ClipBegin ==
    /\ clipTask' = "listing"
    /\ clipAttempts' = Older(clipAttempts, 1, Len(ClipDelays))
    /\ clipLeft' = ClipCall

ClipFirst ==
    /\ clipTask = "queued"
    /\ ClipBegin
    /\ UNCHANGED <<clipAge, clipScan, clipSinceEnd, clipBegan>>

\* A scan of the pending worker takes up what is due.
ClipScans ==
    /\ clipScan = 0
    /\ clipScan' = ClipInterval
    /\ IF clipTask = "waiting" /\ clipLeft = 0
       THEN ClipBegin /\ clipBegan' = clipAge
       ELSE UNCHANGED <<clipTask, clipAttempts, clipLeft, clipBegan>>
    /\ UNCHANGED <<clipAge, clipSinceEnd>>

ClipDelay == ClipDelays[clipAttempts]

\* list_segments: the playback server has segments of that time, or none left, and then
\* there will never be any.
ClipLists ==
    /\ clipTask = "listing"
    /\ \/ clipTask' = "copying" /\ clipLeft' = ClipCall
       \/ clipTask' = "lost" /\ clipLeft' = 0
    /\ UNCHANGED <<clipAge, clipAttempts, clipScan, clipSinceEnd, clipBegan>>

\* download_clip: the clip is on the disk.
ClipCopies ==
    /\ clipTask = "copying"
    /\ clipTask' = "ready"
    /\ clipLeft' = 0
    /\ UNCHANGED <<clipAge, clipAttempts, clipScan, clipSinceEnd, clipBegan>>

\* _retry_or_lose: listing or download has failed, and another attempt is made if its
\* time lies before the deadline.
ClipRetryOrLose_FullBuffer ==
    /\ clipTask \in ClipCalls
    /\ IF clipAge + ClipDelay >= ClipRetain
       THEN clipTask' = "expired" /\ clipLeft' = 0
       ELSE clipTask' = "waiting" /\ clipLeft' = ClipDelay
    /\ UNCHANGED <<clipAge, clipAttempts, clipScan, clipSinceEnd, clipBegan>>
ClipRetryOrLose_SkipsADelay ==
    LET delay == ClipDelays[IF clipAttempts < Len(ClipDelays) THEN clipAttempts + 1 ELSE clipAttempts] IN
    /\ clipTask \in ClipCalls
    /\ IF clipAge + delay >= ClipRetain - ClipMargin
       THEN clipTask' = "expired" /\ clipLeft' = 0
       ELSE clipTask' = "waiting" /\ clipLeft' = delay
    /\ UNCHANGED <<clipAge, clipAttempts, clipScan, clipSinceEnd, clipBegan>>
ClipRetryOrLose ==
    /\ clipTask \in ClipCalls
    /\ IF clipAge + ClipDelay >= ClipRetain - ClipMargin
       THEN clipTask' = "expired" /\ clipLeft' = 0
       ELSE clipTask' = "waiting" /\ clipLeft' = ClipDelay
    /\ UNCHANGED <<clipAge, clipAttempts, clipScan, clipSinceEnd, clipBegan>>

\* Time passes until somebody is due: the event is capped, queue and attempt have an end.
ClipTick ==
    /\ clipScan > 0
    /\ clipTask = "recording" => clipAge < ClipLongest
    /\ clipTask \in ClipCalls \cup {"queued"} => clipLeft > 0
    /\ clipAge' = Older(clipAge, 1, ClipHorizon)
    /\ clipLeft' = Left(clipLeft, 1)
    /\ clipScan' = clipScan - 1
    /\ clipSinceEnd' = Older(clipSinceEnd, 1, ClipSlack)
    /\ UNCHANGED <<clipTask, clipAttempts, clipBegan>>

ClipInit ==
    /\ clipAge = 0
    /\ clipTask = "recording"
    /\ clipAttempts = 0
    /\ clipLeft = 0
    /\ clipScan \in 0 .. ClipInterval
    /\ clipSinceEnd = 0
    /\ clipBegan = 0

ClipNext ==
    ClipEventEnds \/ ClipFirst \/ ClipScans \/ ClipLists \/ ClipCopies
    \/ ClipRetryOrLose \/ ClipTick

ClipSpec == ClipInit /\ [][ClipNext]_clipVars

-----------------------------------------------------------------------------
\* Every variable has its type.
ClipTypeOK ==
    /\ clipAge \in 0 .. ClipHorizon
    /\ clipTask \in ClipCalls \cup {"recording", "queued", "waiting", "ready", "lost", "expired"}
    /\ clipAttempts \in 0 .. Len(ClipDelays)
    /\ clipLeft \in Nat
    /\ clipScan \in 0 .. ClipInterval
    /\ clipSinceEnd \in 0 .. ClipSlack
    /\ clipBegan \in 0 .. ClipHorizon

\* When the pending worker comes to repeat an attempt, the buffer still holds the start
\* of the clip, although the worker may be a whole interval late: the deadline and the
\* interval fit each other (recorder.py:45, main.py:68).
ClipStillBuffered == clipBegan < ClipRetain

\* A clip is given up for lack of time only when its next retry would come later than the
\* margin after the end of the event, however long the event was: the configuration's
\* slack guarantees the first retries (config.py _cross_validate).
ClipGivenUpLate ==
    [][ clipTask' = "expired" /\ clipTask # "expired" =>
          clipSinceEnd + ClipDelay >= ClipSlack - ClipMargin ]_clipVars
=============================================================================
