------------------------------ MODULE MCServices ------------------------------
(***************************************************************************)
(* The backend's request checks and media requests, its analytics, and the *)
(* circuit, benchmark and deployment tools, for TLC.  They share no step,  *)
(* so a behaviour is about one of them, its focus; the others stay at one  *)
(* of their initial values.                                                *)
(***************************************************************************)
EXTENDS Analytics, MediaRequests, CircuitTools, Deployment, TLC

CONSTANT Foci

VARIABLE focus

serviceVars == <<focus, guardVars, authVars, telemetryVars, exportVars, mediaVars,
                 buildVars, genVars, benchVars, deployVars>>

\* The inputs a behaviour may start from: all of them when it is about f, or any one.
For(f, inputs) == IF focus = f THEN inputs ELSE {CHOOSE i \in inputs : TRUE}

ServiceInit ==
    /\ focus \in Foci
    /\ GuardInit /\ TelemetryInit /\ ExportInit /\ BenchInit
    /\ AuthInit(For("auth", FirstEnvironments))
    /\ MediaInit(For("media", UploadsTried))
    /\ BuildInit(For("build", Hosts))
    /\ GenInit(For("generate", CommittedTomls))
    /\ DeployInit(For("deploy", ReleaseTags))

ServiceNext ==
    /\ IF focus = "guard" THEN GuardNext ELSE UNCHANGED guardVars
    /\ IF focus = "auth" THEN AuthNext ELSE UNCHANGED authVars
    /\ IF focus = "telemetry" THEN TelemetryNext ELSE UNCHANGED telemetryVars
    /\ IF focus = "exports" THEN ExportNext ELSE UNCHANGED exportVars
    /\ IF focus = "media" THEN MediaNext ELSE UNCHANGED mediaVars
    /\ IF focus = "build" THEN BuildNext ELSE UNCHANGED buildVars
    /\ IF focus = "generate" THEN GenNext ELSE UNCHANGED genVars
    /\ IF focus = "bench" THEN BenchNext ELSE UNCHANGED benchVars
    /\ IF focus = "deploy" THEN DeployNext ELSE UNCHANGED deployVars
    /\ UNCHANGED focus

ServiceSpec == ServiceInit /\ [][ServiceNext]_serviceVars

-----------------------------------------------------------------------------
(* Inputs.                                                                  *)

\* A name sampled in half the buckets and one in all; accounts fall in the second half.
SamplingRates == ("proof" :> 1) @@ ("other" :> 2)
SamplingBuckets == [an \in (Accounts \cup {NoAccount}) \X EventNames |-> IF an[1] = NoAccount THEN 0 ELSE 1]

TokenOwners == ("t1" :> "o1")

WitnessFirst == <<"w", "v">>
ProveThenVerify == {<<"prove", "verify">>}
PhaseLimits == [prove |-> 2, verify |-> 1]

-----------------------------------------------------------------------------
\* What the tools report is what they did.  Green gates mean the committed manifest is
\* that of the current circuit, a proof generated by a lone run is of its own inputs
\* and leaves the package as it was, a promoted benchmark report is whole, and a
\* deployment reported as done is on the chain and in the environment file.
ToolReportsAreTrue ==
    /\ focus = "build" => GreenGatesMeanCurrentCircuit
    /\ focus = "generate" => LoneRunIsExact
    /\ focus = "bench" => PromotedReportIsWhole
    /\ focus = "deploy" => ReportsMatchDeployment
=============================================================================
