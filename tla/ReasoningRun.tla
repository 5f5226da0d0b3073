---------------------------- MODULE ReasoningRun ----------------------------
(***************************************************************************)
(* The execution of reasoning runs (services/api/src/reasoning-run): the   *)
(* claim by compare-and-set, the three provider stages with their          *)
(* write-once artifact slots, the atomic finalization and the resolution   *)
(* of every error as a release or as a terminal failure.                   *)
(*                                                                         *)
(* An execution is one call of executeReasoningRun.  A step is what it     *)
(* does between two awaits: one read or one conditional write of the row,  *)
(* or one call of the AI service.  Executions may live in processes of     *)
(* different versions; the process of an execution may die.                *)
(***************************************************************************)
CONSTANTS
  Runs,
  Executions,     \* calls of executeReasoningRun
  RunOf,          \* the run an execution is about
  Policies,       \* versions of the deterministic policy
  Models,         \* configured provider, model and stage identities
  PolicyOf,       \* the policy version of the process of an execution
  ModelOf,        \* its configured model
  Values,         \* what a provider may answer
  None,
  Faults          \* whether processes die and resolving writes are lost

SlotStages == {"objective", "evidence"}
Stages     == SlotStages \cup {"contextual"}

Artifact == [value : Values, model : Models]
Plan     == [policy : Policies, model : Models]
Result   == [objective : Artifact, evidence : Artifact, contextual : Artifact,
             policy : Policies]

ASSUME RunAssumption ==
  /\ RunOf \in [Executions -> Runs]
  /\ PolicyOf \in [Executions -> Policies]
  /\ ModelOf \in [Executions -> Models]
  /\ None \notin Artifact \cup Plan \cup Result
  /\ Faults \in BOOLEAN

VARIABLES
  \* --- the rows of ReasoningRun
  status,
  failed,   \* failureCode is not null
  plan,     \* executionMetadata, the frozen plan
  slot,     \* objectiveAnalysisArtifact and evidenceUnitsArtifact
  result,   \* resultArtifact
  \* --- executions
  pc,       \* where an execution stands
  stage,    \* the stage it is in
  held,     \* the artifacts it holds in memory, per stage
  err       \* the code of the error it has to resolve

run    == <<status, failed, plan, slot, result>>
Locals == <<stage, held, err>>
vars   == <<status, failed, plan, slot, result, pc, stage, held, err>>

-----------------------------------------------------------------------------
\* Codes of the errors a stage may throw.  "UNTYPED" has no code at all.
RetryableStageCodes ==
  {"PROVIDER_TRANSPORT_FAILURE", "INTERNAL_AI_SERVICE_FAILURE",
   "EXECUTION_CONFIGURATION_MISSING"}

\* The keys of TERMINAL_STAGE_FAILURE_CODES, spelled as in the code.
TerminalStageCodes ==
  {"EXECUTION_PLAN_MISMATCH", "PROVIDER_CONFIGURATION_FAILURE",
   "PROVIDER_INVALID_OUTPUT", "PERSISTED_AUTHORITY_UNUSABLE",
   "GROUNDING_UNUSABLE", "PREVIOUS_STAGE_ARTIFACT_MISSING",
   "EXECUTION_AUTHORIZATION_WITHDRAWN"}

OtherCodes == {"RUN_NOT_ELIGIBLE", "STAGE_ARTIFACT_CONFLICT",
               "GROUNDING_INPUT_UNUSABLE", "POLICY_INPUT_INCONSISTENT",
               "UNTYPED"}

Codes == RetryableStageCodes \cup TerminalStageCodes \cup OtherCodes

\* resolveLifecycleFor: a code the map does not know is released as well.
ResolvesAsFailure(code) == code \in TerminalStageCodes

\* markTerminalFailure of a stage: the codes it writes itself when the run is
\* pending and the slot of the stage is empty.
MarksItself(code) ==
  code \in {"EXECUTION_PLAN_MISMATCH", "PROVIDER_CONFIGURATION_FAILURE",
            "PROVIDER_INVALID_OUTPUT", "PERSISTED_AUTHORITY_UNUSABLE",
            "GROUNDING_INPUT_UNUSABLE"}

Statuses == {"absent", "pending", "running", "completed", "failed"}

PlanOf(e) == [policy |-> PolicyOf[e], model |-> ModelOf[e]]

\* Between the claim and the write that gives it up.
Owning == {"claimed", "gate", "load", "plan", "call", "fill", "policy",
           "verify", "failing", "finalize", "resolving"}
Steps  == {"idle", "claim", "mismatch"} \cup Owning

NextStage(s) == IF s = "objective" THEN "evidence" ELSE "contextual"

\* The condition of the claim, of the mismatch and, with "running", of every
\* write that gives the claim up.
Open(r, st) == status[r] = st /\ ~failed[r] /\ result[r] = None

Init ==
  /\ status = [r \in Runs |-> "absent"]
  /\ failed = [r \in Runs |-> FALSE]
  /\ plan = [r \in Runs |-> None]
  /\ slot = [r \in Runs |-> [s \in SlotStages |-> None]]
  /\ result = [r \in Runs |-> None]
  /\ pc = [e \in Executions |-> "idle"]
  /\ stage = [e \in Executions |-> "objective"]
  /\ held = [e \in Executions |-> [s \in Stages |-> None]]
  /\ err = [e \in Executions |-> "UNTYPED"]

Goto(e, step) == pc' = [pc EXCEPT ![e] = step]

\* Mutant of FailIfOpen: the failure is written whatever happened meanwhile.
FailAlways(r, st) ==
  /\ status' = [status EXCEPT ![r] = "failed"]
  /\ failed' = [failed EXCEPT ![r] = TRUE]
  /\ UNCHANGED <<plan, slot, result>>

\* updateMany ... where the run is open with a status: it applies or does nothing.
FailIfOpen(r, st) ==
  /\ status' = IF Open(r, st) THEN [status EXCEPT ![r] = "failed"] ELSE status
  /\ failed' = IF Open(r, st) THEN [failed EXCEPT ![r] = TRUE] ELSE failed
  /\ UNCHANGED <<plan, slot, result>>

\* Every exit of an execution forgets what it held.
Leave(e) ==
  /\ Goto(e, "idle")
  /\ stage' = [stage EXCEPT ![e] = "objective"]
  /\ held' = [held EXCEPT ![e] = [s \in Stages |-> None]]
  /\ err' = [err EXCEPT ![e] = "UNTYPED"]

-----------------------------------------------------------------------------
\* createFrozenReasoningRunForUser: a run whose inventory is blocked is born
\* failed.
CreateFrozenRun(r) ==
  /\ status[r] = "absent"
  /\ \E blocked \in BOOLEAN :
       /\ status' = [status EXCEPT ![r] = IF blocked THEN "failed" ELSE "pending"]
       /\ failed' = [failed EXCEPT ![r] = blocked]
  /\ UNCHANGED <<plan, slot, result, pc, Locals>>

PolicyDiffers(r, e) == plan[r] # None /\ plan[r].policy # PolicyOf[e]

\* preflight: whatever is already decided is answered or refused (the
\* execution stays idle); what remains goes on to the claim, or to the terminal
\* mismatch when the frozen plan names another policy version.
Preflight(e) ==
  /\ pc[e] = "idle"
  /\ Open(RunOf[e], "pending") \/ Open(RunOf[e], "running")
  /\ Goto(e, IF PolicyDiffers(RunOf[e], e) THEN "mismatch" ELSE "claim")
  /\ UNCHANGED <<run, Locals>>

\* assertPolicyVersionMatchesPlan, once the versions differ.
PolicyMismatch(e) ==
  /\ pc[e] = "mismatch"
  /\ FailIfOpen(RunOf[e], "pending")
  /\ Leave(e)

\* Mutant of CanClaim: a run that looks abandoned is taken over.
CanClaimRunning(r) == Open(r, "pending") \/ Open(r, "running")

CanClaim(r) == Open(r, "pending")

\* The compare-and-set pending -> running.
Claim(e) ==
  /\ pc[e] = "claim"
  /\ CanClaim(RunOf[e])
  /\ status' = [status EXCEPT ![RunOf[e]] = "running"]
  /\ Goto(e, "claimed")
  /\ UNCHANGED <<failed, plan, slot, result, Locals>>

NotClaimable(e) ==
  /\ pc[e] = "claim"
  /\ ~CanClaim(RunOf[e])
  /\ Leave(e)
  /\ UNCHANGED run

\* The second write (startedAt, if null) and the read of claim().
MarkStarted(e) ==
  /\ pc[e] = "claimed"
  /\ Goto(e, "gate")
  /\ UNCHANGED <<run, Locals>>

\* A failure of those two is outside the try block of runClaimed: nobody
\* resolves it and the claim is kept by nobody.
StartedWriteFails(e) ==
  /\ Faults
  /\ pc[e] = "claimed"
  /\ Leave(e)
  /\ UNCHANGED run

\* beforeProviderStage lets the stage begin.
PassGate(e) ==
  /\ pc[e] = "gate"
  /\ Goto(e, "load")
  /\ UNCHANGED <<run, Locals>>

-----------------------------------------------------------------------------
(* A stage: objective analysis, evidence units, contextual reasoning.      *)

SlotEmpty(r, s) == s \in SlotStages => slot[r][s] = None

\* The stage throws.  Some codes try to fail the run by themselves, under a
\* condition that no run under a claim meets.
StageThrows(e, code) ==
  /\ Goto(e, "resolving")
  /\ err' = [err EXCEPT ![e] = code]
  /\ IF MarksItself(code) /\ SlotEmpty(RunOf[e], stage[e])
       THEN FailIfOpen(RunOf[e], "pending")
       ELSE UNCHANGED run
  /\ UNCHANGED <<stage, held>>

Advance(e, artifact) ==
  /\ held' = [held EXCEPT ![e][stage[e]] = artifact]
  /\ stage' = [stage EXCEPT ![e] = NextStage(@)]
  /\ Goto(e, IF stage[e] = "contextual" THEN "policy" ELSE "gate")
  /\ UNCHANGED err

\* assertEligible under a claim.
Eligible(r) == status[r] = "running" /\ ~failed[r]

\* A slot that is filled already is used, never bought again.
UsePersisted(e) ==
  /\ pc[e] = "load"
  /\ stage[e] \in SlotStages
  /\ slot[RunOf[e]][stage[e]] # None
  /\ Advance(e, slot[RunOf[e]][stage[e]])
  /\ UNCHANGED run

NeedsWork(e) ==
  /\ pc[e] = "load"
  /\ SlotEmpty(RunOf[e], stage[e])

\* Mutant of PlanMatches: the plan is frozen and not compared.
PlanUnchecked(r, e) == TRUE

\* requireMatching...Plan: the frozen plan against the deployed configuration.
PlanMatches(r, e) == plan[r].model = ModelOf[e]

HasInputs(r, s) == s = "contextual" => \A t \in SlotStages : slot[r][t] # None

LoadStage(e) ==
  /\ NeedsWork(e)
  /\ Eligible(RunOf[e])
  /\ HasInputs(RunOf[e], stage[e])
  /\ \/ /\ plan[RunOf[e]] = None
        /\ Goto(e, "plan")
        /\ UNCHANGED <<run, Locals>>
     \/ /\ plan[RunOf[e]] # None
        /\ PlanMatches(RunOf[e], e)
        /\ Goto(e, "call")
        /\ UNCHANGED <<run, Locals>>
     \/ /\ plan[RunOf[e]] # None
        /\ ~PlanMatches(RunOf[e], e)
        /\ StageThrows(e, "EXECUTION_PLAN_MISMATCH")

\* The ways LoadStage refuses, in the order of the code.
StageRefuses(e) ==
  /\ NeedsWork(e)
  /\ \/ ~Eligible(RunOf[e]) /\ StageThrows(e, "RUN_NOT_ELIGIBLE")
     \/ /\ Eligible(RunOf[e])
        /\ ~HasInputs(RunOf[e], stage[e])
        /\ StageThrows(e, "PREVIOUS_STAGE_ARTIFACT_MISSING")
     \/ /\ Eligible(RunOf[e])
        /\ stage[e] = "evidence"
        /\ StageThrows(e, "GROUNDING_INPUT_UNUSABLE")
     \/ /\ Eligible(RunOf[e])
        /\ stage[e] = "contextual"
        /\ StageThrows(e, "PERSISTED_AUTHORITY_UNUSABLE")
     \/ /\ Eligible(RunOf[e])
        /\ plan[RunOf[e]] = None
        /\ StageThrows(e, "EXECUTION_CONFIGURATION_MISSING")

\* fillExecutionMetadata: once, and without a condition on the status.
FillPlan(e) ==
  /\ pc[e] = "plan"
  /\ \/ /\ plan[RunOf[e]] = None
        /\ plan' = [plan EXCEPT ![RunOf[e]] = PlanOf(e)]
        /\ Goto(e, "call")
        /\ UNCHANGED <<status, failed, slot, result, Locals>>
     \/ /\ plan[RunOf[e]] = PlanOf(e)
        /\ Goto(e, "call")
        /\ UNCHANGED <<run, Locals>>
     \/ /\ plan[RunOf[e]] \notin {None, PlanOf(e)}
        /\ StageThrows(e, "STAGE_ARTIFACT_CONFLICT")

\* The provider answers.  The contextual stage calls once per requirement and
\* keeps the answers in memory; one call stands for all of them.
CallProvider(e) ==
  /\ pc[e] = "call"
  /\ \E v \in Values :
       LET artifact == [value |-> v, model |-> ModelOf[e]] IN
       IF stage[e] = "contextual"
         THEN Advance(e, artifact)
         ELSE /\ held' = [held EXCEPT ![e][stage[e]] = artifact]
              /\ Goto(e, "fill")
              /\ UNCHANGED <<stage, err>>
  /\ UNCHANGED run

ProviderFails(e) ==
  /\ pc[e] = "call"
  /\ \E code \in {"EXECUTION_PLAN_MISMATCH", "PROVIDER_INVALID_OUTPUT",
                  "PROVIDER_CONFIGURATION_FAILURE",
                  "PROVIDER_TRANSPORT_FAILURE",
                  "INTERNAL_AI_SERVICE_FAILURE"} : StageThrows(e, code)

CanFill(r, s) == slot[r][s] = None /\ Eligible(r)

\* The conditional write of the slot of a stage, and what is read when it did
\* not apply.  A stage catches only an artifact that does not verify, which
\* ProviderFails stands for: a refusal of the slot leaves it as it is.
FillSlot(e) ==
  /\ pc[e] = "fill"
  /\ LET s == stage[e] IN
     \/ /\ CanFill(RunOf[e], s)
        /\ slot' = [slot EXCEPT ![RunOf[e]][s] = held[e][s]]
        /\ Advance(e, held[e][s])
        /\ UNCHANGED <<status, failed, plan, result>>
     \/ /\ ~CanFill(RunOf[e], s)
        /\ slot[RunOf[e]][s] = held[e][s]
        /\ Advance(e, held[e][s])
        /\ UNCHANGED run
     \/ /\ ~CanFill(RunOf[e], s)
        /\ slot[RunOf[e]][s] # held[e][s]
        /\ StageThrows(e, IF slot[RunOf[e]][s] = None
                             THEN "RUN_NOT_ELIGIBLE"
                             ELSE "STAGE_ARTIFACT_CONFLICT")

\* Any read or write of the try block of runClaimed may throw.
UntypedError(e) ==
  /\ pc[e] \in {"gate", "load", "plan", "call", "fill", "policy", "finalize"}
  /\ StageThrows(e, "UNTYPED")

-----------------------------------------------------------------------------
(* The end of an execution.                                                *)

\* applyDeterministicReasoningPolicy over what the stages returned.
ApplyPolicy(e) ==
  /\ pc[e] = "policy"
  /\ Goto(e, "verify")
  /\ UNCHANGED <<run, Locals>>

\* DeterministicPolicyInputError: failClaimed by the orchestrator itself.
PolicyInputInconsistent(e) ==
  /\ pc[e] = "policy"
  /\ err' = [err EXCEPT ![e] = "POLICY_INPUT_INCONSISTENT"]
  /\ Goto(e, "failing")
  /\ UNCHANGED <<run, stage, held>>

Candidate(e) == [objective |-> held[e]["objective"],
                 evidence |-> held[e]["evidence"],
                 contextual |-> held[e]["contextual"],
                 policy |-> PolicyOf[e]]

\* verifyResultArtifactCandidate against the artifacts of the row.
VerifyCandidate(e) ==
  /\ pc[e] = "verify"
  /\ \A s \in SlotStages : slot[RunOf[e]][s] = held[e][s]
  /\ Goto(e, "finalize")
  /\ UNCHANGED <<run, Locals>>

\* A candidate that does not verify, and any other error of the verification:
\* the catch of finalize() fails the run for both.
CandidateRefused(e) ==
  /\ pc[e] = "verify"
  /\ \E code \in {"PREVIOUS_STAGE_ARTIFACT_MISSING", "UNTYPED"} :
       err' = [err EXCEPT ![e] = code]
  /\ Goto(e, "failing")
  /\ UNCHANGED <<run, stage, held>>

\* Result and status in one compare-and-set.  When it does not apply the row
\* tells why, and nothing is written.
Finalize(e) ==
  /\ pc[e] = "finalize"
  /\ IF Open(RunOf[e], "running")
       THEN /\ status' = [status EXCEPT ![RunOf[e]] = "completed"]
            /\ result' = [result EXCEPT ![RunOf[e]] = Candidate(e)]
       ELSE UNCHANGED <<status, result>>
  /\ UNCHANGED <<failed, plan, slot>>
  /\ Leave(e)

\* failClaimed: never degrades a result or another failure.
FailClaimed(e) ==
  /\ \/ pc[e] = "failing"
     \/ pc[e] = "resolving" /\ ResolvesAsFailure(err[e])
  /\ FailIfOpen(RunOf[e], "running")
  /\ Leave(e)

\* Mutant of ReleaseForRetry: a code that no list declares is left alone.
ReleaseDeclared(e) ==
  /\ pc[e] = "resolving"
  /\ ~ResolvesAsFailure(err[e])
  /\ status' = IF Open(RunOf[e], "running") /\ err[e] \in RetryableStageCodes
               THEN [status EXCEPT ![RunOf[e]] = "pending"] ELSE status
  /\ UNCHANGED <<failed, plan, slot, result>>
  /\ Leave(e)

\* releaseForRetry, the last action of the attempt.
ReleaseForRetry(e) ==
  /\ pc[e] = "resolving"
  /\ ~ResolvesAsFailure(err[e])
  /\ status' = IF Open(RunOf[e], "running")
               THEN [status EXCEPT ![RunOf[e]] = "pending"] ELSE status
  /\ UNCHANGED <<failed, plan, slot, result>>
  /\ Leave(e)

\* The process dies, or the write that resolves the claim is lost.
Die(e) ==
  /\ Faults
  /\ pc[e] # "idle"
  /\ Leave(e)
  /\ UNCHANGED run

-----------------------------------------------------------------------------
\* What an execution does once it began, other than dying.
Progress(e) ==
  \/ PolicyMismatch(e) \/ Claim(e) \/ NotClaimable(e)
  \/ MarkStarted(e) \/ PassGate(e)
  \/ UsePersisted(e) \/ LoadStage(e) \/ StageRefuses(e) \/ FillPlan(e)
  \/ CallProvider(e) \/ ProviderFails(e) \/ FillSlot(e) \/ UntypedError(e)
  \/ ApplyPolicy(e) \/ PolicyInputInconsistent(e)
  \/ VerifyCandidate(e) \/ CandidateRefused(e) \/ Finalize(e)
  \/ FailClaimed(e) \/ ReleaseForRetry(e)

Next ==
  \/ \E r \in Runs : CreateFrozenRun(r)
  \/ \E e \in Executions :
       Preflight(e) \/ Progress(e) \/ StartedWriteFails(e) \/ Die(e)

Spec == Init /\ [][Next]_vars

\* Each await of an execution ends: the database and the provider time out.
FairSpec == Spec /\ \A e \in Executions : WF_vars(Progress(e))

-----------------------------------------------------------------------------
TypeOK ==
  /\ status \in [Runs -> Statuses]
  /\ failed \in [Runs -> BOOLEAN]
  /\ plan \in [Runs -> Plan \cup {None}]
  /\ slot \in [Runs -> [SlotStages -> Artifact \cup {None}]]
  /\ result \in [Runs -> Result \cup {None}]
  /\ pc \in [Executions -> Steps]
  /\ stage \in [Executions -> Stages]
  /\ held \in [Executions -> [Stages -> Artifact \cup {None}]]
  /\ err \in [Executions -> Codes]

\* At most one execution works on a run: the exclusion happens before the
\* first provider call (reasoning-run-execution-claim.service.ts:12).
OneOwner ==
  \A e, f \in Executions :
    pc[e] \in Owning /\ pc[f] \in Owning /\ RunOf[e] = RunOf[f] => e = f

\* A run that ended changes no more: nobody who still works on it, or who saw
\* it before it ended, gives it an artifact, a plan or another status - the
\* plan has no condition on the status that would prevent it.
TerminalIsFinal ==
  [][\A r \in Runs :
       status[r] \in {"completed", "failed"} =>
         /\ status'[r] = status[r]
         /\ failed'[r] = failed[r]
         /\ plan'[r] = plan[r]
         /\ slot'[r] = slot[r]
         /\ result'[r] = result[r]]_vars

\* A result is there exactly when the run is completed, and it is the one
\* computed from the artifacts of the row.
CompletedIsCoherent ==
  \A r \in Runs :
    /\ result[r] # None <=> status[r] = "completed"
    /\ result[r] # None =>
         /\ result[r].objective = slot[r]["objective"]
         /\ result[r].evidence = slot[r]["evidence"]

\* The artifacts of a run and the contextual answers of its result come from
\* the model its frozen plan names, whatever the versions of the processes that
\* took part (requireMatching...Plan).  This is of the model only: the plan
\* also names a version of the policy, which the preflight alone compares, and
\* an execution whose preflight read no plan yet completes the run under the
\* policy of its own process (reasoning-run-execution.service.ts:251-255).
OneModelPerRun ==
  \A r \in Runs :
    /\ \A s \in SlotStages :
         slot[r][s] # None =>
           plan[r] # None /\ slot[r][s].model = plan[r].model
    /\ result[r] # None =>
         plan[r] # None /\ result[r].contextual.model = plan[r].model

\* When a provider answers for a slot, the slot is still empty: nothing is
\* bought twice.
NothingBoughtTwice ==
  [][\A e \in Executions :
       pc[e] = "call" /\ pc'[e] = "fill" => slot[RunOf[e]][stage[e]] = None]_vars

\* Without deaths a claim is always given up: a running run leaves "running".
ClaimsEnd ==
  \A r \in Runs : status[r] = "running" ~> status[r] # "running"

-----------------------------------------------------------------------------
(* Refinement: a run as an append-only record of facts.                    *)

Record == INSTANCE FrozenRun WITH
  phase <- [r \in Runs |-> IF status[r] \in {"pending", "running"}
                             THEN "open" ELSE status[r]],
  fact <- slot,
  outcome <- result

RefinesRecord == Record!Spec

-----------------------------------------------------------------------------
(* What the comments promise and the code does not keep.                   *)

\* A grounding that is no longer usable is TERMINAL
\* (reasoning-run-evidence-units.errors.ts:26): the run it stopped is failed.
GroundingFailureIsTerminal ==
  [][\A e \in Executions :
       /\ pc[e] = "resolving" /\ pc'[e] = "idle"
       /\ err[e] = "GROUNDING_INPUT_UNUSABLE"
       /\ status' # status
       => status'[RunOf[e]] = "failed"]_vars
=============================================================================
