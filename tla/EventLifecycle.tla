----------------------------- MODULE EventLifecycle -----------------------------
(***************************************************************************)
(* What the event store promises its readers (the API, the web UI, the     *)
(* retention sweep and the next start of the service) about the status in  *)
(* an event's metadata.json: it is "recording", then "finalizing", then    *)
(* "completed"; only a start of the service marks events "interrupted",    *)
(* then all that were mid-flight at once; and the directory of an event    *)
(* that is recording or finalizing is never removed.                       *)
(***************************************************************************)
CONSTANT Event

VARIABLES
    status,     \* what is on disk; "absent" when there is no directory
    serving     \* the service is up

vars == <<status, serving>>

InFlight == {e \in Event : status[e] \in {"recording", "finalizing"}}

Init ==
    /\ status = [e \in Event |-> "absent"]
    /\ serving = TRUE

Change(e, from, to) ==
    /\ serving
    /\ status[e] = from
    /\ status' = [status EXCEPT ![e] = to]
    /\ UNCHANGED serving

Create(e) == Change(e, "absent", "recording")

Finalize(e) == Change(e, "recording", "finalizing")

Complete(e) == Change(e, "finalizing", "completed")

Remove(e) == Change(e, "completed", "absent") \/ Change(e, "interrupted", "absent")

Stop ==
    /\ serving
    /\ serving' = FALSE
    /\ UNCHANGED status

Start ==
    /\ ~serving
    /\ serving' = TRUE
    /\ status' = [e \in Event |-> IF e \in InFlight THEN "interrupted" ELSE status[e]]

Next ==
    \/ \E e \in Event : Create(e) \/ Finalize(e) \/ Complete(e) \/ Remove(e)
    \/ Stop
    \/ Start

Spec == Init /\ [][Next]_vars
=============================================================================
