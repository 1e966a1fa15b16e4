------------------------------ MODULE HealthReport ------------------------------
(***************************************************************************)
(* The health monitor (health.py collect): its thread, start() and every   *)
(* request that arms or disarms collect a report by asking one subsystem   *)
(* after the other (main.py _health_checks), keep it in memory and publish *)
(* it as a file.  Nothing orders two collections that overlap.             *)
(***************************************************************************)
EXTENDS Integers, Sequences, Functions

CONSTANTS
    HeaThread,      \* the monitor's thread, which collects for ever
    HeaCaller,      \* start() and requests, which collect when they like
    HeaAsked,       \* the checks, in the order in which they are asked
    HeaReadings     \* per check what its subsystem shows: sets of conditions

Statuses == {"ok", "unknown", "degraded", "critical"}

-----------------------------------------------------------------------------
(* A check's answer is that of the first condition that holds.             *)

\* _health_checks.  A camera that publishes nothing is critical after 45 s; without
\* internet, AI and notifications wait.
ControllerRules ==
    [camera  |-> << <<"publishing", "ok">>, <<"unprobed", "unknown">>, <<"recent", "degraded">>,
                    <<"otherwise", "critical">> >>,
     pir     |-> << <<"disabled", "unknown">>, <<"unavailable", "critical">>,
                    <<"warming up", "degraded">>, <<"stuck", "degraded">>, <<"otherwise", "ok">> >>,
     arming  |-> << <<"armed", "ok">>, <<"otherwise", "degraded">> >>,
     storage |-> << <<"unwritable", "critical">>, <<"almost full", "critical">>,
                    <<"over limit", "degraded">>, <<"otherwise", "ok">> >>,
     network |-> << <<"online", "ok">>, <<"needed", "degraded">>, <<"otherwise", "unknown">> >>,
     queue   |-> << <<"long", "degraded">>, <<"otherwise", "ok">> >>]

\* _temperature_check, _power_check, _memory_check
SystemRules ==
    [temperature |-> << <<"unreadable", "unknown">>, <<"critical", "critical">>,
                        <<"warm", "degraded">>, <<"otherwise", "ok">> >>,
     power       |-> << <<"unreadable", "unknown">>, <<"throttled now", "critical">>,
                        <<"throttled since boot", "degraded">>, <<"otherwise", "ok">> >>,
     memory      |-> << <<"unreadable", "unknown">>, <<"nearly used up", "critical">>,
                        <<"mostly used", "degraded">>, <<"otherwise", "ok">> >>]

FirstRule(rules, reading) ==
    LET holds(i) == rules[i][1] \in reading \cup {"otherwise"}
        first == CHOOSE i \in DOMAIN rules : holds(i) /\ \A j \in 1 .. i - 1 : ~holds(j)
    IN  rules[first][2]

\* A controller's check that raises counts as unknown.
Answer(check, reading) ==
    IF check \in DOMAIN SystemRules THEN FirstRule(SystemRules[check], reading)
    ELSE IF "raises" \in reading THEN "unknown"
    ELSE FirstRule(ControllerRules[check], reading)

HeaChecks == Len(HeaAsked)

ASSUME HeaAssumption ==
    /\ HeaThread \notin HeaCaller
    /\ HeaAsked \in Seq(DOMAIN ControllerRules \cup DOMAIN SystemRules) /\ HeaAsked # <<>>
    /\ \A i \in DOMAIN HeaAsked : HeaReadings[HeaAsked[i]] # {}

-----------------------------------------------------------------------------
VARIABLES
    heaTruth,   \* per check what its subsystem shows now
    heaCalm,    \* environment: nothing changes any more
    heaAt,      \* per collector: the checks it has asked; then "kept"; or not collecting
    heaSeen,    \* per collector: the answers so far
    heaReport,  \* _report: the answers and the overall status
    heaFile     \* the state file

heaVars == <<heaTruth, heaCalm, heaAt, heaSeen, heaReport, heaFile>>

Collectors == HeaCaller \cup {HeaThread}
Checks == 1 .. HeaChecks

\* What every check would answer now.
AnswersNow == [i \in Checks |-> Answer(HeaAsked[i], heaTruth[i])]

\* _SEVERITY
Severity(status) ==
    CASE status = "ok" -> 0 [] status = "unknown" -> 1 [] status = "degraded" -> 2 [] OTHER -> 3

\* overall: the worst of the answers.
Overall_NeverBetter(answers) ==
    CHOOSE s \in Range(answers) \cup {heaReport.status} :
        \A t \in Range(answers) \cup {heaReport.status} : Severity(t) <= Severity(s)
Overall(answers) ==
    CHOOSE s \in Range(answers) : \A t \in Range(answers) : Severity(t) <= Severity(s)

Report(answers) == [status |-> Overall(answers), checks |-> answers]

Idle == -1
Kept == HeaChecks + 1

-----------------------------------------------------------------------------
\* collect() begins.
HeaBegin(k) ==
    /\ heaAt[k] = Idle
    /\ heaAt' = [heaAt EXCEPT ![k] = 0]
    /\ UNCHANGED <<heaTruth, heaCalm, heaSeen, heaReport, heaFile>>

\* A provider answers.
HeaAsk(k) ==
    /\ heaAt[k] \in 0 .. HeaChecks - 1
    /\ heaAt' = [heaAt EXCEPT ![k] = @ + 1]
    /\ heaSeen' = [heaSeen EXCEPT ![k] = Append(@, AnswersNow[heaAt[k] + 1])]
    /\ UNCHANGED <<heaTruth, heaCalm, heaReport, heaFile>>

\* _report is replaced under the lock.
HeaKeep(k) ==
    /\ heaAt[k] = HeaChecks
    /\ heaAt' = [heaAt EXCEPT ![k] = Kept]
    /\ heaReport' = Report(heaSeen[k])
    /\ UNCHANGED <<heaTruth, heaCalm, heaSeen, heaFile>>

\* _publish(report) outside of it; a file that cannot be written is ignored.
HeaPublish(k) ==
    /\ heaAt[k] = Kept
    /\ heaAt' = [heaAt EXCEPT ![k] = Idle]
    /\ \/ heaFile' = Report(heaSeen[k])
       \/ ~heaCalm /\ UNCHANGED heaFile
    /\ heaSeen' = [heaSeen EXCEPT ![k] = <<>>]
    /\ UNCHANGED <<heaTruth, heaCalm, heaReport>>

\* A subsystem changes; at some point none does any more.
HeaChange ==
    /\ ~heaCalm
    /\ \E i \in Checks : \E r \in HeaReadings[HeaAsked[i]] : heaTruth' = [heaTruth EXCEPT ![i] = r]
    /\ heaCalm' \in BOOLEAN
    /\ UNCHANGED <<heaAt, heaSeen, heaReport, heaFile>>

HeaInit ==
    /\ heaTruth \in {t \in [Checks -> UNION Range(HeaReadings)] :
                       \A i \in Checks : t[i] \in HeaReadings[HeaAsked[i]]}
    /\ heaCalm = FALSE
    /\ heaAt = [k \in Collectors |-> Idle]
    /\ heaSeen = [k \in Collectors |-> <<>>]
    /\ heaReport = [status |-> "unknown", checks |-> <<>>]
    /\ heaFile = heaReport

HeaStep(k) == HeaBegin(k) \/ HeaAsk(k) \/ HeaKeep(k) \/ HeaPublish(k)
HeaCollects(k) == HeaAsk(k) \/ HeaKeep(k) \/ HeaPublish(k)

HeaNext == HeaChange \/ \E k \in Collectors : HeaStep(k)

\* The thread loops whatever a check or the file does; what a request has begun ends.
HeaFairness ==
    /\ WF_heaVars(HeaStep(HeaThread))
    /\ \A k \in HeaCaller : WF_heaVars(HeaCollects(k))

HeaSpec == HeaInit /\ [][HeaNext]_heaVars /\ HeaFairness

-----------------------------------------------------------------------------
\* Every variable has its type.
HeaTypeOK ==
    /\ \A i \in Checks : heaTruth[i] \in HeaReadings[HeaAsked[i]]
    /\ heaCalm \in BOOLEAN
    /\ heaAt \in [Collectors -> Idle .. Kept]
    /\ \A k \in Collectors : heaSeen[k] \in Seq(Statuses) /\ Len(heaSeen[k]) <= HeaChecks
    /\ {heaReport, heaFile} \subseteq [status: Statuses, checks: Seq(Statuses)]

\* The report and the file are what a check of every subsystem would give now.
HeaShowsTruth ==
    /\ heaReport.checks = AnswersNow
    /\ heaReport.status \in Range(AnswersNow)
    /\ \A i \in Checks : Severity(AnswersNow[i]) <= Severity(heaReport.status)
    /\ heaFile = heaReport

\* Once nothing changes, the report and the file come to show it and keep showing it,
\* good news as well as bad, although a slow collection may publish an old report over
\* a newer one (health.py collect, _publish).
HeaCatchesUp == <>[](heaCalm => HeaShowsTruth)
=============================================================================
