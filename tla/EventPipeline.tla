------------------------------ MODULE EventPipeline ------------------------------
(***************************************************************************)
(* The background work attached to one event (pipeline.py), on the threads *)
(* that carry it out: the pool of two workers (TaskRunner), which runs the *)
(* jobs the controller submits on the Event object it shares with them,    *)
(* and the pending worker, which loads an object of its own from           *)
(* metadata.json and retries whatever is due on it.  Nothing locks either. *)
(*                                                                         *)
(* One action is one stretch of a job between two slow calls (a capture, a *)
(* call of the AI provider, an alarm, a clip download) or two saves.  The  *)
(* other events share only the armed switch, the network, the pool and the *)
(* notification cooldown with this one: they show as delays of a job and   *)
(* as alarms that are suppressed.  AI analysis and notifications are       *)
(* enabled; when they are not, their steps are skipped at once.            *)
(***************************************************************************)
EXTENDS Integers, Sequences, FiniteSets

CONSTANTS
    Recipient,      \* notifications.recipients that are enabled
    MaxChecks,      \* ai.max_checks
    Rechecks,       \* ai.recheck_interval_seconds is not zero
    OnlyIfPerson,   \* notifications.only_if_person
    Answers,        \* what the AI provider may say: a subset of Answer
    Workers,        \* threads of the TaskRunner
    Upsets,         \* what may go wrong: a subset of Upset
    MaxUpsets       \* bound: how often something goes wrong

\* coerce_bool gives None, here "unknown", for an answer that is neither.
Answer == {"yes", "no", "unknown"}
Upset == {"disarmed", "deleted", "offline", "crash", "save raises"}

ASSUME PipelineAssumption ==
    /\ Recipient # {} /\ IsFiniteSet(Recipient)
    /\ MaxChecks \in Nat \ {0}
    /\ Rechecks \in BOOLEAN /\ OnlyIfPerson \in BOOLEAN
    /\ Answers \subseteq Answer
    /\ Workers \in Nat \ {0}
    /\ Upsets \subseteq Upset
    /\ MaxUpsets \in Nat

VARIABLES
    up,         \* the service runs
    armed,      \* ArmingState.armed
    online,     \* NetworkMonitor.online
    age,        \* of the event: see Age
    current,    \* the event is Controller._current
    live,       \* the Event object that the controller and its jobs share
    copy,       \* the Event object of the pending worker
    disk,       \* metadata.json
    queue,      \* jobs that wait for a worker of the pool
    job,        \* how far each thread's job on this event is
    reached,    \* recipients whose phone has shown the alarm
    upsets,     \* disarmings, deletions, outages and power cuts so far
    faults      \* saves that raised so far

vars == <<up, armed, online, age, current, live, copy, disk, queue, job, reached,
          upsets, faults>>

---------------------------------------------------------------------------
(* Values *)

\* The pool's jobs and the pending worker.
PoolJob == {"started", "recheck", "finalized"}
Thread == PoolJob \cup {"pending"}

\* A task that is "pending" with a retry time in the future is "waiting"; a
\* retry time that has passed makes no difference any more.  "ended" stands
\* for failed, skipped and lost: no further attempt is made.
TaskState == {"pending", "waiting", "in_progress", "completed", "ended"}

\* The reasons for which a notification is skipped.
SkipReason == {"disarmed", "nobody", "suppressed"}

Status == {"absent", "recording", "finalizing", "completed", "interrupted"}

Object == [status : Status,
           recording : TaskState, snapshot : TaskState, ai : TaskState,
           notification : TaskState \cup SkipReason,
           frames : BOOLEAN,                    \* the frames of snapshot.paths exist
           person : Answer,                     \* ai.person_detected
           checks : Nat]

Blank == [status |-> "absent", recording |-> "pending", snapshot |-> "pending",
          ai |-> "pending", notification |-> "pending", frames |-> FALSE,
          person |-> "unknown", checks |-> 0]

NewEvent == [Blank EXCEPT !.status = "recording"]

\* What was in progress when the power failed is not taken up again.
Due_PendingOnly(task) == task = "pending"

Due(task) == task \in {"pending", "in_progress"}

\* An event that waits for its clip does not count.
Active_Recording(o) == o.status = "recording"

Active(o) == o.status \in {"recording", "finalizing"}

\* When the event is "old" the rolling buffer has dropped its video and no
\* retry is scheduled any more.
Age == {"unborn", "young", "old"}

Place == {"off", "queued", "clip", "extracting", "closing", "crashed", "snapshot",
          "capturing", "frames", "recapturing", "asking again", "asking", "verdict",
          "notify", "sending", "sent", "unsent"}

TypeOK ==
    /\ up \in BOOLEAN /\ armed \in BOOLEAN /\ online \in BOOLEAN
    /\ age \in Age
    /\ current \in BOOLEAN
    /\ live \in Object /\ copy \in Object /\ disk \in Object
    /\ queue \in Seq(PoolJob)
    /\ \A i, k \in DOMAIN queue : queue[i] = queue[k] => i = k     \* a job is queued once
    /\ job \in [Thread -> Place]
    /\ reached \in SUBSET Recipient
    /\ upsets \in Nat /\ faults \in Nat

Init ==
    /\ up = TRUE /\ armed = TRUE /\ online = TRUE
    /\ age = "unborn"
    /\ current = FALSE
    /\ live = Blank /\ copy = Blank /\ disk = Blank
    /\ queue = <<>>
    /\ job = [t \in Thread |-> "off"]
    /\ reached = {}
    /\ upsets = 0 /\ faults = 0

---------------------------------------------------------------------------
(* Steps of a job *)

Mine(t) == IF t = "pending" THEN copy ELSE live

At(t, place) == job[t] = place

Goes(t, place) == job' = [job EXCEPT ![t] = place]

CanHappen(upset) == upset \in Upsets /\ upsets + faults < MaxUpsets

Happens(upset) == CanHappen(upset) /\ upsets' = upsets + 1

SaveRaises == CanHappen("save raises") /\ faults' = faults + 1

\* An exception ends a job, except that on_event_finalized has a handler.
Fallback(t) == IF t = "finalized" /\ ~At(t, "crashed") THEN "crashed" ELSE "off"

\* No other job and not the controller refers to the shared object.
LastUser(t) == ~current /\ \A s \in PoolJob \ {t} : At(s, "off")

\* The job of t goes on at place with o as its object, which is garbage once
\* nothing refers to it.
Leave(t, o, place) ==
    /\ Goes(t, place)
    /\ IF t = "pending"
       THEN copy' = (IF place = "off" THEN Blank ELSE o) /\ UNCHANGED live
       ELSE live' = (IF place = "off" /\ LastUser(t) THEN Blank ELSE o) /\ UNCHANGED copy

\* Change the object and save it.  The save can raise.
SaveAndGo(t, o, place) ==
    /\ \/ disk' = o /\ Leave(t, o, place) /\ UNCHANGED faults
       \/ SaveRaises /\ Leave(t, o, Fallback(t)) /\ UNCHANGED disk
    /\ UNCHANGED <<up, armed, online, age, current, queue, reached, upsets>>

\* Nothing to do, nothing saved.
Pass(t, place) ==
    /\ Leave(t, Mine(t), place)
    /\ UNCHANGED <<up, armed, online, age, current, disk, queue, reached, upsets, faults>>

\* A failure that is worth a retry is retried until the event is old.
Retry(worthwhile) == IF worthwhile /\ age # "old" THEN "waiting" ELSE "ended"

\* A worker of the pool takes the oldest job.
Running == {t \in PoolJob : job[t] \notin {"off", "queued"}}

\* Re-checks while a call is under way, and after a person was found.
RecheckDue_AnyState(o) == armed /\ o.person # "yes" /\ o.checks < MaxChecks
RecheckDue_Again(o) == armed /\ o.ai = "completed" /\ o.checks < MaxChecks

\* _recheck_due.
RecheckDue(o) ==
    armed /\ o.ai = "completed" /\ o.person # "yes" /\ o.checks < MaxChecks

TakeJob ==
    /\ queue # <<>>
    /\ Cardinality(Running) < Workers
    /\ LET t == Head(queue)
       IN  Leave(t, live, CASE t = "started" -> "snapshot"
                            [] t = "finalized" -> "clip"
                            [] OTHER -> IF RecheckDue(live) THEN "recapturing" ELSE "off")
    /\ queue' = Tail(queue)
    /\ UNCHANGED <<up, armed, online, age, current, disk, reached, upsets, faults>>

---------------------------------------------------------------------------
(* The order of the pending worker: process_pending *)

Order == <<"clip", "snapshot", "frames", "notify", "off">>

\* A task whose turn has come is due, or is passed over.  Whether the retry time of a
\* failed snapshot has passed is left open.
Wants(o, place) ==
    CASE place = "clip" -> Due(o.recording)
      [] place = "snapshot" -> o.snapshot \notin {"completed", "ended"} /\ ~o.frames
      [] place = "frames" -> Due(o.ai)
      [] place = "notify" -> Due(o.notification)
      [] OTHER -> TRUE

MayPass(o, place) ==
    IF place = "snapshot" THEN ~Due(o.snapshot) \/ o.frames ELSE ~Wants(o, place)

\* Where it goes on with o, from the k-th step of its order.
Onward(o, k) ==
    {Order[i] : i \in {i \in k .. Len(Order) :
        Wants(o, Order[i]) /\ \A n \in k .. i - 1 : MayPass(o, Order[n])}}

\* The jobs of the pool know their next place.
SaveAndGoOn(t, o, k) ==
    \E place \in IF t = "pending" THEN Onward(o, k) ELSE {Order[k]} : SaveAndGo(t, o, place)

---------------------------------------------------------------------------
(* The clip: ClipRecorder.extract *)

\* on_event_finalized always extracts, process_pending when it is due.
Extract(t) ==
    /\ t \in {"finalized", "pending"} /\ At(t, "clip")
    /\ SaveAndGo(t, [Mine(t) EXCEPT !.recording = "in_progress"], "extracting")

\* The buffer still has the video or part of it, has none of it, or the
\* playback server fails (_retry_or_lose).
Extracted(t) ==
    /\ At(t, "extracting")
    /\ \E result \in {"completed", "ended", "waiting"} :
         /\ age = "old" => result = "ended"
         /\ LET o == [Mine(t) EXCEPT !.recording = result]
            IN  IF t = "finalized" THEN SaveAndGo(t, o, "closing") ELSE SaveAndGoOn(t, o, 2)

CloseEvent ==
    /\ At("finalized", "closing")
    /\ SaveAndGo("finalized", [live EXCEPT !.status = "completed"], "off")

\* The handler of on_event_finalized.
FinalizationCrashed ==
    /\ At("finalized", "crashed")
    /\ SaveAndGo("finalized", [live EXCEPT !.status = "completed", !.recording = "waiting"], "off")

---------------------------------------------------------------------------
(* The snapshot: _capture_snapshots *)

\* Without FFmpeg the snapshot is skipped.
Capture(t) ==
    /\ t \in {"started", "pending"} /\ At(t, "snapshot")
    /\ \/ SaveAndGo(t, [Mine(t) EXCEPT !.snapshot = "in_progress"], "capturing")
       \/ SaveAndGoOn(t, [Mine(t) EXCEPT !.snapshot = "ended"], 3)

Captured(t) ==
    /\ At(t, "capturing")
    /\ \E got \in BOOLEAN :
         SaveAndGoOn(t, [Mine(t) EXCEPT !.frames = got,
                                        !.snapshot = IF got THEN "completed" ELSE Retry(TRUE)], 3)

---------------------------------------------------------------------------
(* The AI verdict: _run_ai, _ask_ai, _handle_ai_failure, recheck *)

\* The budget of checks is used up, the call waits for the network, or it begins.
AskAI(o) ==
    CASE o.checks >= MaxChecks -> [o EXCEPT !.ai = "ended"]
      [] o.checks < MaxChecks /\ ~online -> [o EXCEPT !.ai = "waiting"]
      [] OTHER -> [o EXCEPT !.ai = "in_progress"]

GoOnAfterVerdict(t, o) ==
    IF t = "recheck" THEN SaveAndGo(t, o, "verdict") ELSE SaveAndGoOn(t, o, 4)

Ask(t, o) ==
    IF AskAI(o).ai = "in_progress" THEN SaveAndGo(t, AskAI(o), "asking")
    ELSE GoOnAfterVerdict(t, AskAI(o))

\* on_event_started always goes through here, process_pending when it is due.
RunAI(t) ==
    /\ At(t, "frames")
    /\ LET o == Mine(t)
       IN  IF o.ai = "completed" THEN Pass(t, "notify")
           ELSE IF armed /\ o.frames THEN Ask(t, o)
           ELSE SaveAndGoOn(t, [o EXCEPT !.ai = "ended"], 4)

\* _capture_recheck_frames: without a frame the re-check is over.
Recaptured ==
    /\ At("recheck", "recapturing")
    /\ \/ SaveAndGo("recheck", [live EXCEPT !.frames = TRUE], "asking again")
       \/ Pass("recheck", "off")

AskAgain ==
    /\ At("recheck", "asking again")
    /\ Ask("recheck", live)

\* analyze() of the provider, when it does not raise AIError.
Analyses == [person : Answers, sure : BOOLEAN]

\* A person seen with less than min_confidence is nobody.
Verdict(a) == IF a.person = "yes" /\ ~a.sure THEN "no" ELSE a.person
Verdicts == {Verdict(a) : a \in Analyses}

Answered(t) ==
    /\ At(t, "asking")
    /\ LET o == Mine(t)
       IN  \E person \in Verdicts :
             GoOnAfterVerdict(t, [o EXCEPT !.ai = "completed", !.person = person, !.checks = @ + 1])

Unanswered(t) ==
    /\ At(t, "asking")
    /\ \E retryable \in BOOLEAN :
         GoOnAfterVerdict(t, [Mine(t) EXCEPT !.ai = Retry(retryable)])

\* A re-check that finds a person releases a skipped notification.  (Nobody
\* had been found when the re-check began, see _recheck_due.)
Released(o) ==
    IF o.notification \in SkipReason THEN [o EXCEPT !.notification = "pending"] ELSE o

\* A skipped notification stays skipped.
Release_Skipped ==
    /\ At("recheck", "verdict")
    /\ IF live.person = "yes" /\ live.notification \notin SkipReason
       THEN Pass("recheck", "notify")
       ELSE Pass("recheck", "off")

Release ==
    /\ At("recheck", "verdict")
    /\ IF live.person # "yes" THEN Pass("recheck", "off")
       ELSE IF Released(live) # live THEN SaveAndGo("recheck", Released(live), "notify")
       ELSE Pass("recheck", "notify")

---------------------------------------------------------------------------
(* The notification: _notify *)

\* What _notify does before it sends.
Suppress(t, o, reason) == SaveAndGo(t, [o EXCEPT !.notification = reason], "off")

Begin(t, o) ==
    IF online THEN SaveAndGo(t, [o EXCEPT !.notification = "in_progress"], "sending")
    ELSE SaveAndGo(t, [o EXCEPT !.notification = "waiting"], "off")

\* An alarm for another event may have started the cooldown.
Notify(t) ==
    /\ At(t, "notify")
    /\ LET o == Mine(t)
       IN  CASE o.notification = "completed" \/ (armed /\ Due(o.ai)) -> Pass(t, "off")
             [] OTHER ->
                  IF ~armed THEN Suppress(t, o, "disarmed")
                  ELSE IF OnlyIfPerson /\ o.person = "no" THEN Suppress(t, o, "nobody")
                  ELSE Begin(t, o) \/ Suppress(t, o, "suppressed")

\* One delivery is taken for all of them.
Send_Any(t) ==
    /\ At(t, "sending")
    /\ \E ok \in SUBSET Recipient :
         /\ reached' = reached \cup ok
         /\ Goes(t, IF ok # {} THEN "sent" ELSE "unsent")
    /\ UNCHANGED <<up, armed, online, age, current, live, copy, disk, queue, upsets,
                   faults>>

\* send() of each recipient's provider: those for whom it does not raise.
Deliveries == SUBSET Recipient

Send(t) ==
    /\ At(t, "sending")
    /\ \E ok \in Deliveries :
         /\ reached' = reached \cup ok
         /\ Goes(t, IF ok = Recipient THEN "sent" ELSE "unsent")
    /\ UNCHANGED <<up, armed, online, age, current, live, copy, disk, queue, upsets,
                   faults>>

Sent(t) ==
    /\ At(t, "sent")
    /\ SaveAndGo(t, [Mine(t) EXCEPT !.notification = "completed"], "off")

Unsent(t) ==
    /\ At(t, "unsent")
    /\ SaveAndGo(t, [Mine(t) EXCEPT !.notification = Retry(TRUE)], "off")

---------------------------------------------------------------------------
(* The pending worker *)

\* Events that are still being produced are not passed over.
HasWork_Unfinished(o) ==
    /\ o.status # "absent"
    /\ Due(o.ai) \/ Due(o.notification) \/ Due(o.recording)

\* EventStore.pending: the finished events with a task that is due.
HasWork(o) ==
    /\ o.status \in {"completed", "interrupted"}
    /\ Due(o.ai) \/ Due(o.notification) \/ Due(o.recording)

Scan ==
    /\ up
    /\ At("pending", "off")
    /\ HasWork(disk)
    /\ copy' = disk
    /\ \E place \in Onward(disk, 1) : Goes("pending", place)
    /\ UNCHANGED <<up, armed, online, age, current, live, disk, queue, reached, upsets,
                   faults>>

---------------------------------------------------------------------------
(* The controller *)

Submit(t) == queue' = Append(queue, t) /\ Goes(t, "queued")

StartEvent ==
    /\ up /\ armed
    /\ age = "unborn" /\ age' = "young"
    /\ live' = NewEvent
    /\ disk' = NewEvent
    /\ current' = TRUE
    /\ Submit("started")
    /\ UNCHANGED <<up, armed, online, copy, reached, upsets,
                   faults>>

\* Motion pauses or resumes: the object is saved with what the jobs have
\* written to it so far.
SaveSegment ==
    /\ current
    /\ disk' = live
    /\ UNCHANGED <<up, armed, online, age, current, live, copy, queue, job, reached, upsets,
                   faults>>

\* _ai_check_running is not looked at.
SubmitRecheck_Stacked ==
    /\ Rechecks
    /\ current
    /\ Len(queue) < 4                       \* (keeps the mutant finite)
    /\ Submit("recheck")
    /\ UNCHANGED <<up, armed, online, age, current, live, copy, disk, reached, upsets,
                   faults>>

\* _maybe_recheck_ai: at most one re-check is queued or running.
SubmitRecheck ==
    /\ Rechecks
    /\ current
    /\ At("recheck", "off")
    /\ Submit("recheck")
    /\ UNCHANGED <<up, armed, online, age, current, live, copy, disk, reached, upsets,
                   faults>>

\* _finalize_event up to its last save, which can raise.
HandOver ==
    /\ current' = FALSE
    /\ live' = [live EXCEPT !.status = "finalizing"]
    /\ \/ disk' = live' /\ Submit("finalized") /\ UNCHANGED faults
       \/ SaveRaises /\ UNCHANGED <<disk, queue, job>>

\* The machine's timers end the event.
FinalizeEvent ==
    /\ current
    /\ HandOver
    /\ UNCHANGED <<up, armed, online, age, copy, reached, upsets>>

\* set_armed(False), which finalizes the event as well, and set_armed(True).
Disarm ==
    /\ up /\ armed
    /\ Happens("disarmed")
    /\ armed' = FALSE
    /\ IF current THEN HandOver ELSE UNCHANGED <<current, live, disk, queue, job, faults>>
    /\ UNCHANGED <<up, online, age, copy, reached>>

Arm ==
    /\ up /\ ~armed
    /\ armed' = TRUE
    /\ UNCHANGED <<up, online, age, current, live, copy, disk, queue, job, reached, upsets,
                   faults>>

---------------------------------------------------------------------------
(* Users, time, the network, power cuts *)

\* The frames go with the directory; a job that is still at work has its
\* object and, when it saves that, creates the directory again.
Delete ==
    /\ up
    /\ disk.status \in {"completed", "interrupted"}
    /\ Happens("deleted")
    /\ disk' = Blank
    /\ live' = [live EXCEPT !.frames = FALSE]
    /\ copy' = [copy EXCEPT !.frames = FALSE]
    /\ UNCHANGED <<up, armed, online, age, current, queue, job, reached, faults>>

\* A retry time passes.
Elapsed(o, task) == [o EXCEPT ![task] = IF @ = "waiting" THEN "pending" ELSE @]

RetryTimePasses(task) ==
    /\ "waiting" \in {live[task], copy[task], disk[task]}
    /\ live' = Elapsed(live, task)
    /\ copy' = Elapsed(copy, task)
    /\ disk' = Elapsed(disk, task)
    /\ UNCHANGED <<up, armed, online, age, current, queue, job, reached, upsets,
                   faults>>

GrowOlder ==
    /\ ~current
    /\ age = "young" /\ age' = "old"
    /\ UNCHANGED <<up, armed, online, current, live, copy, disk, queue, job, reached, upsets,
                   faults>>

GoOffline ==
    /\ online
    /\ Happens("offline")
    /\ online' = FALSE
    /\ UNCHANGED <<up, armed, age, current, live, copy, disk, queue, job, reached, faults>>

GoOnline ==
    /\ ~online
    /\ online' = TRUE
    /\ UNCHANGED <<up, armed, age, current, live, copy, disk, queue, job, reached, upsets,
                   faults>>

Crash ==
    /\ up
    /\ Happens("crash")
    /\ up' = FALSE
    /\ current' = FALSE
    /\ live' = Blank /\ copy' = Blank
    /\ queue' = <<>>
    /\ job' = [t \in Thread |-> "off"]
    /\ UNCHANGED <<armed, online, age, disk, reached, faults>>

\* recover_interrupted.
Restart ==
    /\ ~up
    /\ up' = TRUE
    /\ disk' = IF Active(disk) THEN [disk EXCEPT !.status = "interrupted"] ELSE disk
    /\ UNCHANGED <<armed, online, age, current, live, copy, queue, job, reached, upsets,
                   faults>>

Work(t) ==
    \/ Extract(t) \/ Extracted(t)
    \/ Capture(t) \/ Captured(t)
    \/ RunAI(t) \/ Answered(t) \/ Unanswered(t)
    \/ Notify(t) \/ Send(t) \/ Sent(t) \/ Unsent(t)

Recheck == Recaptured \/ AskAgain \/ Release
Finalization == CloseEvent \/ FinalizationCrashed

Tasks == {"recording", "ai", "notification"}

Next ==
    \/ TakeJob \/ Recheck \/ Finalization
    \/ \E t \in Thread : Work(t)
    \/ Scan
    \/ StartEvent \/ SaveSegment \/ SubmitRecheck \/ FinalizeEvent \/ Disarm \/ Arm
    \/ Delete
    \/ \E task \in Tasks : RetryTimePasses(task)
    \/ GrowOlder \/ GoOffline \/ GoOnline
    \/ Crash \/ Restart

Spec == Init /\ [][Next]_vars

\* The threads keep running (every slow call has a timeout), events end
\* (max_event_seconds), time passes, an outage is over some day and systemd
\* restarts the service.
Fairness ==
    /\ WF_vars(TakeJob) /\ WF_vars(Recheck) /\ WF_vars(Finalization)
    /\ \A t \in Thread : WF_vars(Work(t))
    /\ WF_vars(Scan)
    /\ WF_vars(FinalizeEvent)
    /\ \A task \in Tasks : WF_vars(RetryTimePasses(task))
    /\ WF_vars(GrowOlder) /\ WF_vars(GoOnline) /\ WF_vars(Restart)

FairSpec == Spec /\ Fairness
---------------------------------------------------------------------------
(* Safety *)

\* However the first look, the re-checks and the pending worker interleave,
\* no Event object counts more verdicts than ai.max_checks allows: re-checks
\* never run alongside another call on the same object.
ChecksWithinBudget ==
    \A o \in {live, copy, disk} : o.checks <= MaxChecks

\* A notification is marked completed only after every recipient has had the
\* alarm, over all partial failures, retries, restarts and second copies.
NotifiedMeansEveryone ==
    \A o \in {live, copy, disk} : o.notification = "completed" => reached = Recipient

\* Once a re-check that found a person is through, the notification is not
\* suppressed for want of a person, whatever on_event_started did meanwhile.
RecheckReleases ==
    faults = 0 /\ live.person = "yes" /\ At("recheck", "off") => live.notification # "nobody"

\* EventStore.pending passes over events that are still being produced, so each
\* of those has to be in somebody's hands: the controller's while it is recorded,
\* then those of its on_event_finalized job, whatever jobs save old objects
\* meanwhile.  One that nobody has, and its work, would be passed over for ever.
UnfinishedIsInHand ==
    up /\ faults = 0 =>
        /\ disk.status = "recording" => current
        /\ disk.status = "finalizing" => ~At("finalized", "off")

---------------------------------------------------------------------------
(* What a step may never do *)

\* A finished event stays finished on disk although jobs and the pending
\* worker save whole records from objects of different age.
FinishedStaysFinished ==
    [][disk.status \in {"completed", "interrupted"}
         => disk'.status \in {disk.status, "absent"}]_vars

\* With only_if_person and a provider that says yes or no, no alarm goes out for
\* an event on whose object the verdict, at the time of sending and not only at
\* the time of the check, is that there is nobody.  (After an unclear answer the
\* alarm is sent, and a re-check may say no while it is on its way.)
NobodyNoAlarm ==
    [][OnlyIfPerson => \A t \in Thread :
         At(t, "sending") /\ job'[t] \in {"sent", "unsent"} => Mine(t).person # "no"]_vars

---------------------------------------------------------------------------
(* Liveness, under FairSpec *)

Settled(o) == {o.recording, o.ai, o.notification} \cap {"pending", "waiting", "in_progress"} = {}

\* The module docstring: a reboot or an outage cannot silently drop work.  The
\* clip, the verdict and the notification of a finished event all come to an
\* end, whatever was interrupted or overwritten on the way.
WorkSettles ==
    <>[](disk.status \in {"completed", "interrupted"} => Settled(disk))

---------------------------------------------------------------------------
(* What the documentation says and the code does not do *)

\* "A disarmed camera never calls a paid provider."
DisarmedNeverAsks ==
    [][\A t \in Thread : ~At(t, "asking") /\ job'[t] = "asking" => armed]_vars

\* A check that finds a person, "if the notification was suppressed by
\* only_if_person, releases it immediately": when no job is at work on an event
\* with a person, its notification is not suppressed.
PersonReleasesAlarm ==
    faults = 0 /\ up /\ (\A t \in Thread : At(t, "off")) /\ disk.person = "yes"
        => disk.notification # "nobody"
=============================================================================
