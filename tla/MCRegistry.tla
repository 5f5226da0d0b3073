------------------------------ MODULE MCRegistry ------------------------------
(***************************************************************************)
(* What is learned from a chain that moves, for TLC: the search of a       *)
(* registration in the logs (RegistrationLogScan) and the deployment of    *)
(* the contract (RegistryDeployment): by runs that overlap (the module as  *)
(* it is extended here), by one run with faults, and where reorganisations *)
(* are as deep as the confirmations asked for.  A behaviour picks one part *)
(* and the other keeps its initial state.                                  *)
(***************************************************************************)
EXTENDS RegistrationLogScan, RegistryDeployment

CONSTANTS x1, x2

VARIABLE part

Alone == INSTANCE RegistryDeployment WITH
  Runs <- {x1}, MaxHeight <- 5, MaxReorgs <- 2, Faults <- TRUE

Deep == INSTANCE RegistryDeployment WITH
  Depth <- 2, MaxHeight <- 2, Faults <- TRUE

ASSUME DeploymentAssumed ==
  /\ Alone!BoundsAssumption /\ Alone!NamesAssumption
  /\ Deep!BoundsAssumption /\ Deep!NamesAssumption

InitAll ==
  /\ part \in {"logs", "overlap", "alone", "deep"}
  /\ Init
  /\ part = "logs" \/ /\ height = Floor /\ event = Nothing /\ limit = 0
                      /\ issuedAt = Nothing /\ \A b \in Blocks : time[b] = b
  /\ IF part = "alone" THEN Alone!DeployInit ELSE DeployInit

NextLogs == part = "logs" /\ Next /\ UNCHANGED <<part, deployVars>>
NextOverlap == part = "overlap" /\ DeployNext /\ UNCHANGED <<part, vars>>
NextAlone == part = "alone" /\ Alone!DeployNext /\ UNCHANGED <<part, vars>>
NextDeep == part = "deep" /\ Deep!DeployNext /\ UNCHANGED <<part, vars>>

NextAll == NextLogs \/ NextOverlap \/ NextAlone \/ NextDeep
SpecAll == InitAll /\ [][NextAll]_<<part, vars, deployVars>>
=============================================================================
