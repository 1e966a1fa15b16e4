------------------------------ MODULE AlarmCooldown ------------------------------
(***************************************************************************)
(* The cooldown between alarms (pipeline.py _notify).  The jobs of the     *)
(* pool and the pending worker each take an event's alarm past a check of  *)
(* the last alarm's time, deliver it to one recipient after the other and  *)
(* only then set the time, for the next check.  The alarms of different    *)
(* events share nothing else; a restart forgets the time.                  *)
(***************************************************************************)
EXTENDS Ticks

CONSTANTS
    CoolThreads,    \* the threads that notify: the pool's and the pending worker
    CoolTime        \* notifications.cooldown_seconds, not 0

ASSUME CoolAssumption == CoolTime \in Nat \ {0}

VARIABLES
    coolLast,       \* time since _last_notification_at; CoolTime stands for 0.0 too
    coolAt,         \* per thread: where its alarm is
    coolFull        \* history: per thread, time since its last complete delivery

coolVars == <<coolLast, coolAt, coolFull>>

CoolGoes(w, place) == coolAt' = [coolAt EXCEPT ![w] = place]

-----------------------------------------------------------------------------
\* The check, under the lock: a suppressed alarm is skipped for good.
CoolCheck(w) ==
    /\ coolAt[w] \in {"idle", "suppressed"}
    /\ CoolGoes(w, IF coolLast < CoolTime THEN "suppressed" ELSE "allowed")
    /\ UNCHANGED <<coolLast, coolFull>>

\* Without the internet the alarm waits in the queue; otherwise its delivery begins,
\* which may take any time.
CoolBegin(w) ==
    /\ coolAt[w] = "allowed"
    /\ CoolGoes(w, "idle") \/ CoolGoes(w, "sending")
    /\ UNCHANGED <<coolLast, coolFull>>

\* Every recipient has the alarm, or some have not: then it is tried again or given up.
CoolSent_PartlyToo(w) ==
    /\ coolAt[w] = "sending"
    /\ CoolGoes(w, "sent")
    /\ coolFull' \in {coolFull, [coolFull EXCEPT ![w] = 0]}
    /\ UNCHANGED coolLast
CoolSent(w) ==
    /\ coolAt[w] = "sending"
    /\ \/ CoolGoes(w, "sent") /\ coolFull' = [coolFull EXCEPT ![w] = 0]
       \/ CoolGoes(w, "idle") /\ UNCHANGED coolFull
    /\ UNCHANGED coolLast

\* The time is set after a complete delivery only.
CoolRecord(w) ==
    /\ coolAt[w] = "sent"
    /\ CoolGoes(w, "idle")
    /\ coolLast' = 0
    /\ UNCHANGED coolFull

\* Between a complete delivery and its time nothing waits.
CoolTick ==
    /\ \A w \in CoolThreads : coolAt[w] # "sent"
    /\ coolLast' = Older(coolLast, 1, CoolTime)
    /\ coolFull' = [w \in CoolThreads |-> Older(coolFull[w], 1, CoolTime)]
    /\ UNCHANGED coolAt

CoolInit ==
    /\ coolLast = CoolTime
    /\ coolAt = [w \in CoolThreads |-> "idle"]
    /\ coolFull = [w \in CoolThreads |-> CoolTime]

\* The time is kept in memory only.
CoolRestart ==
    /\ coolLast' = CoolTime
    /\ coolAt' = [w \in CoolThreads |-> "idle"]
    /\ coolFull' = [w \in CoolThreads |-> CoolTime]

CoolNext ==
    \/ \E w \in CoolThreads : CoolCheck(w) \/ CoolBegin(w) \/ CoolSent(w) \/ CoolRecord(w)
    \/ CoolTick
    \/ CoolRestart

CoolSpec == CoolInit /\ [][CoolNext]_coolVars

-----------------------------------------------------------------------------
\* Every variable has its type.
CoolTypeOK ==
    /\ coolLast \in 0 .. CoolTime
    /\ coolAt \in [CoolThreads -> {"idle", "suppressed", "allowed", "sending", "sent"}]
    /\ coolFull \in [CoolThreads -> 0 .. CoolTime]

\* Alarms that have passed the check together are all delivered, but no thread delivers
\* two within the cooldown: as many complete alarms as there are threads is the most.
\* And an alarm is suppressed only if another one has reached every recipient within the
\* cooldown: one that reached some of them does not silence the others (pipeline.py
\* _notify, the check at 342 and the record at 385).
CoolAlarmsAreRationed ==
    [][ \A w \in CoolThreads :
          /\ coolFull'[w] = 0 /\ coolAt[w] = "sending" => coolFull[w] = CoolTime
          /\ coolAt'[w] = "suppressed" /\ coolAt[w] # "suppressed" =>
               \E v \in CoolThreads : coolFull[v] < CoolTime ]_coolVars
=============================================================================
