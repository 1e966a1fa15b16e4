------------------------------- MODULE MCServices -------------------------------
(***************************************************************************)
(* The components beside the controller and the pipeline.  They share no   *)
(* variable, so their interleavings show nothing that each alone does not: *)
(* a behaviour of this module is one of one component, the others stand    *)
(* still in their initial states.                                          *)
(***************************************************************************)
EXTENDS PirMonitor, Supervisor, LoginLimiter, FileReplace, Connectivity, Retention,
        ClipDeadline, HealthReport, EventTree, AlarmCooldown

VARIABLE part    \* the component of this behaviour

servicesVars == <<part, pirVars, supVars, limVars, filVars, netVars, retVars, clipVars, heaVars,
                  treeVars, coolVars>>

\* RETRY_DELAYS in units of 5 s.
MCClipDelays == <<1, 3, 6, 12, 24>>

\* One check of each kind, and what their subsystems show.
MCHealthAsked == <<"camera", "power">>
MCHealthReadings ==
    [camera |-> {{"publishing"}, {"raises"}},
     power  |-> {{}, {"throttled now", "throttled since boot"}}]

ServicesInit ==
    /\ part \in {"pir", "supervisor", "limiter", "files", "network", "retention", "clip",
                "health", "tree", "cooldown"}
    /\ (part = "pir" \/ pirBroken = FALSE) /\ PirInit
    /\ (part = "supervisor" \/ supRestartAge = SupMinGap) /\ SupInit
    /\ LimInit
    /\ FilInit
    /\ (part = "network" \/ netUp = TRUE) /\ NetInit
    /\ \/ part = "retention"
       \/ /\ retEvent = [e \in RetEvents |-> "none"]
          /\ retSize = [e \in RetEvents |-> Min(RetSizes)]
          /\ retOld = 0
          /\ retOther = 0
    /\ RetInit
    /\ (part = "clip" \/ clipScan = 0) /\ ClipInit
    /\ (part = "health" \/ heaTruth = <<{"publishing"}, {}>>) /\ HeaInit
    /\ TreeInit /\ CoolInit

PirRuns ==
    /\ part = "pir" /\ PirNext
    /\ UNCHANGED <<part, supVars, limVars, filVars, netVars,
                   retVars, clipVars, heaVars, treeVars, coolVars>>
SupRuns ==
    /\ part = "supervisor" /\ SupNext
    /\ UNCHANGED <<part, pirVars, limVars, filVars, netVars,
                   retVars, clipVars, heaVars, treeVars, coolVars>>
LimRuns ==
    /\ part = "limiter" /\ LimNext
    /\ UNCHANGED <<part, pirVars, supVars, filVars, netVars,
                   retVars, clipVars, heaVars, treeVars, coolVars>>
FilRuns ==
    /\ part = "files" /\ FilNext
    /\ UNCHANGED <<part, pirVars, supVars, limVars, netVars,
                   retVars, clipVars, heaVars, treeVars, coolVars>>
NetRuns ==
    /\ part = "network" /\ NetNext
    /\ UNCHANGED <<part, pirVars, supVars, limVars, filVars,
                   retVars, clipVars, heaVars, treeVars, coolVars>>
RetRuns ==
    /\ part = "retention" /\ RetNext
    /\ UNCHANGED <<part, pirVars, supVars, limVars, filVars,
                   netVars, clipVars, heaVars, treeVars, coolVars>>
ClipRuns ==
    /\ part = "clip" /\ ClipNext
    /\ UNCHANGED <<part, pirVars, supVars, limVars, filVars,
                   netVars, retVars, heaVars, treeVars, coolVars>>
HealthAlone ==
    /\ part = "health"
    /\ UNCHANGED <<part, pirVars, supVars, limVars, filVars,
                   netVars, retVars, clipVars, treeVars, coolVars>>
HeaRuns == HealthAlone /\ HeaNext
TreeRuns ==
    /\ part = "tree" /\ TreeNext
    /\ UNCHANGED <<part, pirVars, supVars, limVars, filVars,
                   netVars, retVars, clipVars, heaVars, coolVars>>
CoolRuns ==
    /\ part = "cooldown" /\ CoolNext
    /\ UNCHANGED <<part, pirVars, supVars, limVars, filVars,
                   netVars, retVars, clipVars, heaVars, treeVars>>

ServicesNext ==
    \/ PirRuns \/ SupRuns \/ LimRuns \/ FilRuns \/ NetRuns
    \/ RetRuns \/ ClipRuns \/ HeaRuns \/ TreeRuns \/ CoolRuns

\* Each component has its own fairness.
ServicesSpec ==
    /\ ServicesInit /\ [][ServicesNext]_servicesVars
    /\ WF_servicesVars(SupRuns)
    /\ WF_servicesVars(HealthAlone /\ HeaStep(HeaThread))
    /\ \A k \in HeaCaller : WF_servicesVars(HealthAlone /\ HeaCollects(k))

-----------------------------------------------------------------------------
\* Every component's variables have their types.
ServicesTypeOK ==
    /\ PirTypeOK /\ SupTypeOK /\ LimTypeOK /\ FilTypeOK
    /\ NetTypeOK /\ RetTypeOK /\ ClipTypeOK /\ HeaTypeOK
    /\ TreeTypeOK /\ CoolTypeOK
=============================================================================
