------------------------- MODULE ReasoningRunProofs -------------------------
(***************************************************************************)
(* Proofs about ReasoningRun, for any number of runs, executions, versions *)
(* and models, with processes that die at any point.                       *)
(***************************************************************************)
EXTENDS ReasoningRun, TLAPS

-----------------------------------------------------------------------------
\* Who owns a claim owns an open run.
Owned ==
  \A e \in Executions : pc[e] \in Owning => Open(RunOf[e], "running")

\* What an execution knows at the steps where it is about to call, to fill
\* a slot or to finalize.
StepKnows(e) ==
  LET r == RunOf[e] IN
  /\ pc[e] \in {"call", "fill"} =>
       plan[r] # None /\ plan[r].model = ModelOf[e]
  /\ pc[e] \in {"plan", "call", "fill"} => SlotEmpty(r, stage[e])
  /\ pc[e] = "fill" =>
       /\ stage[e] \in SlotStages
       /\ held[e][stage[e]] \in Artifact
       /\ held[e][stage[e]].model = ModelOf[e]
  /\ pc[e] \in {"plan", "call"} => HasInputs(r, stage[e])
  /\ pc[e] \in {"policy", "verify", "finalize"} =>
       /\ HasInputs(r, "contextual")
       /\ plan[r] # None
       /\ held[e]["contextual"] \in Artifact
       /\ held[e]["contextual"].model = plan[r].model
  /\ pc[e] = "finalize" => \A s \in SlotStages : slot[r][s] = held[e][s]

RunInv ==
  /\ TypeOK
  /\ OneOwner
  /\ Owned
  /\ \A e \in Executions : StepKnows(e)
  /\ CompletedIsCoherent
  /\ OneModelPerRun

-----------------------------------------------------------------------------
(* Types.                                                                  *)

LEMMA TypeInit == Init => TypeOK
  BY RunAssumption DEF Init, TypeOK, Statuses, Steps, Stages, SlotStages, Codes,
     OtherCodes

\* The part of a step all errors of a stage share, and the one all its
\* successes share.
LEMMA ThrowTypes ==
  ASSUME TypeOK, NEW e \in Executions, NEW code \in Codes, StageThrows(e, code)
  PROVE TypeOK'
  BY RunAssumption DEF TypeOK, StageThrows, Goto, FailIfOpen, run, Statuses, Steps,
     Owning

LEMMA AdvanceTypes ==
  ASSUME TypeOK, NEW e \in Executions, NEW a \in Artifact, Advance(e, a)
  PROVE /\ pc' \in [Executions -> Steps]
        /\ stage' \in [Executions -> Stages]
        /\ held' \in [Executions -> [Stages -> Artifact \cup {None}]]
        /\ err' \in [Executions -> Codes]
  BY RunAssumption DEF TypeOK, Advance, Goto, NextStage, Steps, Owning, Stages,
     SlotStages

LEMMA CandidateType ==
  ASSUME TypeOK, NEW e \in Executions, StepKnows(e), pc[e] = "finalize"
  PROVE Candidate(e) \in Result
  <1>1. held[e]["objective"] \in Artifact /\ held[e]["evidence"] \in Artifact
    BY RunAssumption DEF TypeOK, StepKnows, HasInputs, SlotStages, Stages
  <1>2. held[e]["contextual"] \in Artifact
    BY DEF StepKnows
  <1> QED
    BY <1>1, <1>2, RunAssumption DEF Candidate, Result

LEMMA TypeNext ==
  ASSUME TypeOK, \A e \in Executions : StepKnows(e), [Next]_vars
  PROVE TypeOK'
<1> USE RunAssumption DEF TypeOK, Goto, Locals, Leave, FailIfOpen, run, Statuses, Steps, Owning, Stages, SlotStages, Codes,
        OtherCodes, TerminalStageCodes, RetryableStageCodes
<1>1. ASSUME NEW r \in Runs, CreateFrozenRun(r) PROVE TypeOK'
  BY <1>1 DEF CreateFrozenRun
<1>2. ASSUME NEW e \in Executions, Preflight(e) PROVE TypeOK'
  BY <1>2 DEF Preflight
<1>3. ASSUME NEW e \in Executions, PolicyMismatch(e) PROVE TypeOK'
  BY <1>3 DEF PolicyMismatch
<1>4. ASSUME NEW e \in Executions, Claim(e) PROVE TypeOK'
  BY <1>4 DEF Claim
<1>5. ASSUME NEW e \in Executions, NotClaimable(e) PROVE TypeOK'
  BY <1>5 DEF NotClaimable
<1>6. ASSUME NEW e \in Executions, MarkStarted(e) PROVE TypeOK'
  BY <1>6 DEF MarkStarted
<1>7. ASSUME NEW e \in Executions, PassGate(e) PROVE TypeOK'
  BY <1>7 DEF PassGate
<1>8. ASSUME NEW e \in Executions, UsePersisted(e) PROVE TypeOK'
  <2>1. slot[RunOf[e]][stage[e]] \in Artifact
    BY <1>8 DEF UsePersisted
  <2>2. Advance(e, slot[RunOf[e]][stage[e]])
    BY <1>8 DEF UsePersisted
  <2> QED
    BY <1>8, <2>1, <2>2, AdvanceTypes DEF UsePersisted
<1>9. ASSUME NEW e \in Executions, LoadStage(e) PROVE TypeOK'
  BY <1>9, ThrowTypes DEF LoadStage
<1>10. ASSUME NEW e \in Executions, StageRefuses(e) PROVE TypeOK'
  BY <1>10, ThrowTypes DEF StageRefuses
<1>11. ASSUME NEW e \in Executions, FillPlan(e) PROVE TypeOK'
  <2>1. PlanOf(e) \in Plan
    BY DEF PlanOf, Plan
  <2>2. CASE StageThrows(e, "STAGE_ARTIFACT_CONFLICT")
    BY <2>2, ThrowTypes
  <2> QED
    <3>1. CASE plan' = [plan EXCEPT ![RunOf[e]] = PlanOf(e)]
               /\ Goto(e, "call")
               /\ UNCHANGED <<status, failed, slot, result, Locals>>
      BY <2>1, <3>1
    <3>2. CASE Goto(e, "call") /\ UNCHANGED <<run, Locals>>
      BY <3>2
    <3> QED
      BY <1>11, <2>2, <3>1, <3>2 DEF FillPlan
<1>12. ASSUME NEW e \in Executions, CallProvider(e) PROVE TypeOK'
  <2>1. PICK v \in Values :
          LET artifact == [value |-> v, model |-> ModelOf[e]] IN
          IF stage[e] = "contextual"
            THEN Advance(e, artifact)
            ELSE /\ held' = [held EXCEPT ![e][stage[e]] = artifact]
                 /\ Goto(e, "fill")
                 /\ UNCHANGED <<stage, err>>
    BY <1>12 DEF CallProvider
  <2>2. [value |-> v, model |-> ModelOf[e]] \in Artifact
    BY DEF Artifact
  <2>3. CASE stage[e] = "contextual"
    <3>1. Advance(e, [value |-> v, model |-> ModelOf[e]])
      BY <2>1, <2>3
    <3> QED
      BY <1>12, <2>2, <3>1, AdvanceTypes DEF CallProvider
  <2>4. CASE stage[e] # "contextual"
    <3> DEFINE a == [value |-> v, model |-> ModelOf[e]]
    <3>1. held' = [held EXCEPT ![e][stage[e]] = a]
      BY <2>1, <2>4
    <3>2. held' \in [Executions -> [Stages -> Artifact \cup {None}]]
      <4> HIDE DEF a
      <4> QED BY <3>1, <2>2 DEF a
    <3> HIDE DEF a
    <3> QED
      BY <1>12, <2>1, <2>4, <3>2 DEF CallProvider
  <2> QED
    BY <2>3, <2>4
<1>13. ASSUME NEW e \in Executions, ProviderFails(e) PROVE TypeOK'
  BY <1>13, ThrowTypes DEF ProviderFails
<1>14. ASSUME NEW e \in Executions, FillSlot(e) PROVE TypeOK'
  <2>1. stage[e] \in SlotStages /\ held[e][stage[e]] \in Artifact
    BY <1>14 DEF FillSlot, StepKnows
  <2>2. CASE Advance(e, held[e][stage[e]])
    <3>1. CASE UNCHANGED run
      BY <2>1, <2>2, <3>1, AdvanceTypes
    <3>2. CASE slot' = [slot EXCEPT ![RunOf[e]][stage[e]] = held[e][stage[e]]]
               /\ UNCHANGED <<status, failed, plan, result>>
      BY <2>1, <2>2, <3>2, AdvanceTypes
    <3>3. ASSUME NEW code \in {"RUN_NOT_ELIGIBLE", "STAGE_ARTIFACT_CONFLICT"},
                 StageThrows(e, code)
          PROVE  TypeOK'
      BY <3>3, ThrowTypes
    <3> QED
      BY <1>14, <3>1, <3>2, <3>3 DEF FillSlot
  <2>3. ASSUME NEW code \in {"RUN_NOT_ELIGIBLE", "STAGE_ARTIFACT_CONFLICT"},
               StageThrows(e, code)
        PROVE  TypeOK'
    BY <2>3, ThrowTypes
  <2> QED
    BY <1>14, <2>2, <2>3 DEF FillSlot
<1>15. ASSUME NEW e \in Executions, UntypedError(e) PROVE TypeOK'
  BY <1>15, ThrowTypes DEF UntypedError
<1>16. ASSUME NEW e \in Executions, ApplyPolicy(e) PROVE TypeOK'
  BY <1>16 DEF ApplyPolicy
<1>17. ASSUME NEW e \in Executions, PolicyInputInconsistent(e) PROVE TypeOK'
  BY <1>17 DEF PolicyInputInconsistent
<1>18. ASSUME NEW e \in Executions, VerifyCandidate(e) PROVE TypeOK'
  BY <1>18 DEF VerifyCandidate
<1>19. ASSUME NEW e \in Executions, CandidateRefused(e) PROVE TypeOK'
  BY <1>19 DEF CandidateRefused
<1>20. ASSUME NEW e \in Executions, Finalize(e) PROVE TypeOK'
  <2>1. pc[e] = "finalize" => Candidate(e) \in Result
    BY CandidateType
  <2> QED
    BY <1>20, <2>1 DEF Finalize
<1>21. ASSUME NEW e \in Executions, FailClaimed(e) PROVE TypeOK'
  BY <1>21 DEF FailClaimed
<1>22. ASSUME NEW e \in Executions, ReleaseForRetry(e) PROVE TypeOK'
  BY <1>22 DEF ReleaseForRetry
<1>23. ASSUME NEW e \in Executions, StartedWriteFails(e) PROVE TypeOK'
  BY <1>23 DEF StartedWriteFails
<1>24. ASSUME NEW e \in Executions, Die(e) PROVE TypeOK'
  BY <1>24 DEF Die
<1>25. CASE UNCHANGED vars
  BY <1>25 DEF vars
<1> QED
  BY <1>1, <1>2, <1>3, <1>4, <1>5, <1>6, <1>7, <1>8, <1>9, <1>10, <1>11, <1>12, <1>13, <1>14, <1>15, <1>16, <1>17, <1>18, <1>19, <1>20, <1>21, <1>22, <1>23, <1>24, <1>25 DEF Next, Progress

-----------------------------------------------------------------------------
(* What a step of one execution leaves alone.                              *)

StepOf(e) == Preflight(e) \/ Progress(e) \/ StartedWriteFails(e) \/ Die(e)

\* The locals of the others, the other runs and, unless it owns a claim, all
\* of a running run.
Untouched(e) ==
  /\ \A f \in Executions \ {e} :
       pc'[f] = pc[f] /\ stage'[f] = stage[f] /\ held'[f] = held[f]
  /\ \A r \in Runs :
       r # RunOf[e] \/ (pc[e] \notin Owning /\ status[r] = "running") =>
         /\ status'[r] = status[r]
         /\ failed'[r] = failed[r]
         /\ plan'[r] = plan[r]
         /\ slot'[r] = slot[r]
         /\ result'[r] = result[r]

LEMMA StepsUntouched ==
  ASSUME TypeOK, NEW e \in Executions, StepOf(e)
  PROVE Untouched(e)
<1> USE RunAssumption DEF TypeOK, Untouched, Goto, Locals, Leave, StageThrows, FailIfOpen,
        Advance, run, Owning, Open
<1>1. CASE Preflight(e)
  BY <1>1 DEF Preflight
<1>2. CASE PolicyMismatch(e)
  BY <1>2 DEF PolicyMismatch
<1>3. CASE Claim(e)
  BY <1>3 DEF Claim, CanClaim
<1>4. CASE NotClaimable(e)
  BY <1>4 DEF NotClaimable, CanClaim
<1>5. CASE MarkStarted(e)
  BY <1>5 DEF MarkStarted
<1>6. CASE PassGate(e)
  BY <1>6 DEF PassGate
<1>7. CASE UsePersisted(e)
  BY <1>7 DEF UsePersisted
<1>8. CASE LoadStage(e)
  BY <1>8 DEF LoadStage
<1>9. CASE StageRefuses(e)
  BY <1>9 DEF StageRefuses
<1>10. CASE FillPlan(e)
  BY <1>10 DEF FillPlan
<1>11. CASE CallProvider(e)
  BY <1>11 DEF CallProvider
<1>12. CASE ProviderFails(e)
  BY <1>12 DEF ProviderFails
<1>13. CASE FillSlot(e)
  BY <1>13 DEF FillSlot
<1>14. CASE UntypedError(e)
  BY <1>14 DEF UntypedError
<1>15. CASE ApplyPolicy(e)
  BY <1>15 DEF ApplyPolicy
<1>16. CASE PolicyInputInconsistent(e)
  BY <1>16 DEF PolicyInputInconsistent
<1>17. CASE VerifyCandidate(e)
  BY <1>17 DEF VerifyCandidate
<1>18. CASE CandidateRefused(e)
  BY <1>18 DEF CandidateRefused
<1>19. CASE Finalize(e)
  BY <1>19 DEF Finalize
<1>20. CASE FailClaimed(e)
  BY <1>20 DEF FailClaimed, CanClaim
<1>21. CASE ReleaseForRetry(e)
  BY <1>21 DEF ReleaseForRetry
<1>22. CASE StartedWriteFails(e)
  BY <1>22 DEF StartedWriteFails
<1>23. CASE Die(e)
  BY <1>23 DEF Die
<1> QED
  BY <1>1, <1>2, <1>3, <1>4, <1>5, <1>6, <1>7, <1>8, <1>9, <1>10, <1>11, <1>12, <1>13, <1>14, <1>15, <1>16, <1>17, <1>18, <1>19, <1>20, <1>21, <1>22, <1>23 DEF StepOf, Progress

-----------------------------------------------------------------------------
(* Who owns a run.                                                         *)

\* Under a claim a stage cannot fail its run by itself: what it writes applies
\* to pending runs only.
LEMMA ThrowsLeaveRun ==
  ASSUME TypeOK, Owned, NEW e \in Executions, NEW code, StageThrows(e, code),
         pc[e] \in Owning
  PROVE UNCHANGED run /\ pc'[e] = "resolving"
  BY RunAssumption DEF TypeOK, Owned, Open, StageThrows, Goto, FailIfOpen, run

LEMMA StepOwns ==
  ASSUME TypeOK, Owned, NEW e \in Executions, StepOf(e), pc'[e] \in Owning
  PROVE /\ Open(RunOf[e], "running")'
        /\ pc[e] \in Owning \/ status[RunOf[e]] = "pending"
<1> USE RunAssumption DEF TypeOK, Owned, Goto, Locals, Leave, StageThrows, FailIfOpen,
        Advance, run, Owning, Open
<1>1. CASE Preflight(e)
  BY <1>1 DEF Preflight
<1>2. CASE PolicyMismatch(e)
  BY <1>2 DEF PolicyMismatch
<1>3. CASE Claim(e)
  BY <1>3 DEF Claim, CanClaim
<1>4. CASE NotClaimable(e)
  BY <1>4 DEF NotClaimable, CanClaim
<1>5. CASE MarkStarted(e)
  BY <1>5 DEF MarkStarted
<1>6. CASE PassGate(e)
  BY <1>6 DEF PassGate
<1>7. CASE UsePersisted(e)
  BY <1>7 DEF UsePersisted
<1>8. CASE LoadStage(e)
  <2>1. pc[e] \in Owning
    BY <1>8 DEF LoadStage, NeedsWork
  <2>2. CASE UNCHANGED <<run, Locals>>
    BY <1>8, <2>1, <2>2
  <2>3. CASE StageThrows(e, "EXECUTION_PLAN_MISMATCH")
    BY <2>1, <2>3, ThrowsLeaveRun
  <2> QED
    BY <1>8, <2>2, <2>3 DEF LoadStage
<1>9. CASE StageRefuses(e)
  <2>1. pc[e] \in Owning
    BY <1>9 DEF StageRefuses, NeedsWork
  <2>2. \E code : StageThrows(e, code)
    BY <1>9 DEF StageRefuses
  <2> QED
    BY <2>1, <2>2, ThrowsLeaveRun
<1>10. CASE FillPlan(e)
  BY <1>10 DEF FillPlan
<1>11. CASE CallProvider(e)
  BY <1>11 DEF CallProvider
<1>12. CASE ProviderFails(e)
  BY <1>12 DEF ProviderFails
<1>13. CASE FillSlot(e)
  BY <1>13 DEF FillSlot
<1>14. CASE UntypedError(e)
  BY <1>14 DEF UntypedError
<1>15. CASE ApplyPolicy(e)
  BY <1>15 DEF ApplyPolicy
<1>16. CASE PolicyInputInconsistent(e)
  BY <1>16 DEF PolicyInputInconsistent
<1>17. CASE VerifyCandidate(e)
  BY <1>17 DEF VerifyCandidate
<1>18. CASE CandidateRefused(e)
  BY <1>18 DEF CandidateRefused
<1>19. CASE Finalize(e)
  BY <1>19 DEF Finalize
<1>20. CASE FailClaimed(e)
  BY <1>20 DEF FailClaimed, CanClaim
<1>21. CASE ReleaseForRetry(e)
  BY <1>21 DEF ReleaseForRetry
<1>22. CASE StartedWriteFails(e)
  BY <1>22 DEF StartedWriteFails
<1>23. CASE Die(e)
  BY <1>23 DEF Die
<1> QED
  BY <1>1, <1>2, <1>3, <1>4, <1>5, <1>6, <1>7, <1>8, <1>9, <1>10, <1>11, <1>12, <1>13, <1>14, <1>15, <1>16, <1>17, <1>18, <1>19, <1>20, <1>21, <1>22, <1>23 DEF StepOf, Progress

LEMMA OwnNext ==
  ASSUME TypeOK, OneOwner, Owned, [Next]_vars
  PROVE OneOwner' /\ Owned'
<1>1. ASSUME NEW e \in Executions, StepOf(e) PROVE OneOwner' /\ Owned'
  <2>1. Untouched(e)
    BY <1>1, StepsUntouched
  <2>2. pc'[e] \in Owning =>
          /\ Open(RunOf[e], "running")'
          /\ pc[e] \in Owning \/ status[RunOf[e]] = "pending"
    BY <1>1, StepOwns
  <2>3. ASSUME NEW f \in Executions \ {e}, pc[f] \in Owning
        PROVE Open(RunOf[f], "running")' /\ (RunOf[f] = RunOf[e] => pc'[e] \notin Owning)
    <3>1. RunOf[f] \in Runs /\ Open(RunOf[f], "running")
      BY <2>3, RunAssumption DEF Owned
    <3>2. RunOf[f] = RunOf[e] => pc[e] \notin Owning
      BY <2>3 DEF OneOwner
    <3> QED
      BY <2>1, <2>2, <3>1, <3>2 DEF Untouched, Open
  <2>4. Owned'
    BY <2>1, <2>2, <2>3 DEF Owned, Untouched
  <2>5. OneOwner'
    BY <2>1, <2>2, <2>3 DEF OneOwner, Untouched
  <2> QED
    BY <2>4, <2>5
<1>2. ASSUME NEW r \in Runs, CreateFrozenRun(r) PROVE OneOwner' /\ Owned'
  <2>1. \A f \in Executions : pc[f] \in Owning => RunOf[f] # r
    BY <1>2, RunAssumption DEF CreateFrozenRun, Owned, Open
  <2> QED
    BY <1>2, <2>1, RunAssumption DEF CreateFrozenRun, Owned, OneOwner, Open, TypeOK
<1>3. CASE UNCHANGED vars
  BY <1>3 DEF vars, OneOwner, Owned, Open
<1> QED
  BY <1>1, <1>2, <1>3 DEF Next, StepOf

-----------------------------------------------------------------------------
(* What an execution knows of its run.                                     *)

LEMMA OthersKnow ==
  ASSUME RunInv, NEW e \in Executions, StepOf(e),
         NEW f \in Executions \ {e}
  PROVE StepKnows(f)'
<1>1. Untouched(e)
  BY StepsUntouched DEF RunInv
<1>2. CASE pc[f] \notin Owning
  BY <1>1, <1>2 DEF Untouched, StepKnows, Owning
<1>3. CASE pc[f] \in Owning
  <2>1. RunOf[f] \in Runs /\ status[RunOf[f]] = "running"
    BY <1>3, RunAssumption DEF RunInv, Owned, Open
  <2>2. RunOf[f] # RunOf[e] \/ pc[e] \notin Owning
    BY <1>3 DEF RunInv, OneOwner
  <2>3. plan'[RunOf[f]] = plan[RunOf[f]] /\ slot'[RunOf[f]] = slot[RunOf[f]]
    BY <1>1, <2>1, <2>2 DEF Untouched
  <2>4. pc'[f] = pc[f] /\ stage'[f] = stage[f] /\ held'[f] = held[f]
    BY <1>1 DEF Untouched
  <2> QED
    BY <2>3, <2>4 DEF RunInv, StepKnows, SlotEmpty, HasInputs
<1> QED
  BY <1>2, <1>3

LEMMA SelfKnows ==
  ASSUME RunInv, NEW e \in Executions, StepOf(e)
  PROVE StepKnows(e)'
<1> USE RunAssumption DEF RunInv, TypeOK, StepKnows, SlotEmpty, HasInputs, Goto, Locals, Leave,
        StageThrows, run, Stages, SlotStages
<1>1. CASE Preflight(e)
  BY <1>1 DEF Preflight
<1>2. CASE PolicyMismatch(e)
  BY <1>2 DEF PolicyMismatch
<1>3. CASE Claim(e)
  BY <1>3 DEF Claim
<1>4. CASE NotClaimable(e)
  BY <1>4 DEF NotClaimable
<1>5. CASE MarkStarted(e)
  BY <1>5 DEF MarkStarted
<1>6. CASE PassGate(e)
  BY <1>6 DEF PassGate
<1>7. CASE UsePersisted(e)
  BY <1>7 DEF UsePersisted, Advance, NextStage, OneModelPerRun
<1>8. CASE LoadStage(e)
  BY <1>8 DEF LoadStage, NeedsWork, PlanMatches
<1>9. CASE StageRefuses(e)
  BY <1>9 DEF StageRefuses
<1>10. CASE FillPlan(e)
  <2>1. PlanOf(e) # None /\ PlanOf(e).model = ModelOf[e]
    BY DEF PlanOf, Plan
  <2>2. CASE StageThrows(e, "STAGE_ARTIFACT_CONFLICT")
    BY <2>2
  <2>3. CASE Goto(e, "call") /\ plan'[RunOf[e]] = PlanOf(e) /\ UNCHANGED <<slot, Locals>>
    BY <1>10, <2>1, <2>3 DEF FillPlan
  <2> QED
    BY <1>10, <2>2, <2>3 DEF FillPlan
<1>11. CASE CallProvider(e)
  BY <1>11 DEF CallProvider, Advance, NextStage, Artifact
<1>12. CASE ProviderFails(e)
  BY <1>12 DEF ProviderFails
<1>13. CASE FillSlot(e)
  BY <1>13 DEF FillSlot, Advance, NextStage, CanFill
<1>14. CASE UntypedError(e)
  BY <1>14 DEF UntypedError
<1>15. CASE ApplyPolicy(e)
  BY <1>15 DEF ApplyPolicy
<1>16. CASE PolicyInputInconsistent(e)
  BY <1>16 DEF PolicyInputInconsistent
<1>17. CASE VerifyCandidate(e)
  BY <1>17 DEF VerifyCandidate
<1>18. CASE CandidateRefused(e)
  BY <1>18 DEF CandidateRefused
<1>19. CASE Finalize(e)
  BY <1>19 DEF Finalize
<1>20. CASE FailClaimed(e)
  BY <1>20 DEF FailClaimed
<1>21. CASE ReleaseForRetry(e)
  BY <1>21 DEF ReleaseForRetry
<1>22. CASE StartedWriteFails(e)
  BY <1>22 DEF StartedWriteFails
<1>23. CASE Die(e)
  BY <1>23 DEF Die
<1> QED
  BY <1>1, <1>2, <1>3, <1>4, <1>5, <1>6, <1>7, <1>8, <1>9, <1>10, <1>11, <1>12, <1>13, <1>14, <1>15, <1>16, <1>17, <1>18, <1>19, <1>20, <1>21, <1>22, <1>23 DEF StepOf, Progress

-----------------------------------------------------------------------------
(* What a run holds.                                                       *)

\* Completed runs have their result, made of their artifacts.
LEMMA CoherentNext ==
  ASSUME RunInv, NEW e \in Executions, StepOf(e)
  PROVE CompletedIsCoherent'
<1> USE RunAssumption DEF RunInv, TypeOK, Owned, Open, CompletedIsCoherent, Goto, Locals,
        Leave, StageThrows, FailIfOpen, run, Statuses, Owning
<1>1. CASE Preflight(e)
  BY <1>1 DEF Preflight
<1>2. CASE PolicyMismatch(e)
  BY <1>2 DEF PolicyMismatch
<1>3. CASE Claim(e)
  BY <1>3 DEF Claim, CanClaim
<1>4. CASE NotClaimable(e)
  BY <1>4 DEF NotClaimable
<1>5. CASE MarkStarted(e)
  BY <1>5 DEF MarkStarted
<1>6. CASE PassGate(e)
  BY <1>6 DEF PassGate
<1>7. CASE UsePersisted(e)
  BY <1>7 DEF UsePersisted, Advance
<1>8. CASE LoadStage(e)
  BY <1>8 DEF LoadStage
<1>9. CASE StageRefuses(e)
  BY <1>9 DEF StageRefuses
<1>10. CASE FillPlan(e)
  BY <1>10 DEF FillPlan
<1>11. CASE CallProvider(e)
  BY <1>11 DEF CallProvider, Advance
<1>12. CASE ProviderFails(e)
  BY <1>12 DEF ProviderFails
<1>13. CASE FillSlot(e)
  BY <1>13 DEF FillSlot, Advance
<1>14. CASE UntypedError(e)
  BY <1>14 DEF UntypedError
<1>15. CASE ApplyPolicy(e)
  BY <1>15 DEF ApplyPolicy
<1>16. CASE PolicyInputInconsistent(e)
  BY <1>16 DEF PolicyInputInconsistent
<1>17. CASE VerifyCandidate(e)
  BY <1>17 DEF VerifyCandidate
<1>18. CASE CandidateRefused(e)
  BY <1>18 DEF CandidateRefused
<1>19. CASE Finalize(e)
  <2> DEFINE r == RunOf[e]
  <2>1. Candidate(e) \in Result /\ Candidate(e) # None
    BY <1>19, CandidateType DEF Finalize
  <2>2. Candidate(e).objective = slot[r]["objective"]
        /\ Candidate(e).evidence = slot[r]["evidence"]
    BY <1>19 DEF Finalize, Candidate, StepKnows, SlotStages
  <2>3. status' = [status EXCEPT ![r] = "completed"]
        /\ result' = [result EXCEPT ![r] = Candidate(e)] /\ slot' = slot
    BY <1>19 DEF Finalize
  <2> QED
    BY <2>1, <2>2, <2>3
<1>20. CASE FailClaimed(e)
  BY <1>20 DEF FailClaimed
<1>21. CASE ReleaseForRetry(e)
  BY <1>21 DEF ReleaseForRetry
<1>22. CASE StartedWriteFails(e)
  BY <1>22 DEF StartedWriteFails
<1>23. CASE Die(e)
  BY <1>23 DEF Die
<1> QED
  BY <1>1, <1>2, <1>3, <1>4, <1>5, <1>6, <1>7, <1>8, <1>9, <1>10, <1>11, <1>12, <1>13, <1>14, <1>15, <1>16, <1>17, <1>18, <1>19, <1>20, <1>21, <1>22, <1>23 DEF StepOf, Progress

\* They were produced under their plan.
LEMMA PlanNext ==
  ASSUME RunInv, NEW e \in Executions, StepOf(e)
  PROVE OneModelPerRun'
<1> USE RunAssumption DEF RunInv, TypeOK, OneModelPerRun, Goto, Locals,
        Leave, StageThrows, FailIfOpen, run
<1>1. CASE Preflight(e)
  BY <1>1 DEF Preflight
<1>2. CASE PolicyMismatch(e)
  BY <1>2 DEF PolicyMismatch
<1>3. CASE Claim(e)
  BY <1>3 DEF Claim
<1>4. CASE NotClaimable(e)
  BY <1>4 DEF NotClaimable
<1>5. CASE MarkStarted(e)
  BY <1>5 DEF MarkStarted
<1>6. CASE PassGate(e)
  BY <1>6 DEF PassGate
<1>7. CASE UsePersisted(e)
  BY <1>7 DEF UsePersisted, Advance
<1>8. CASE LoadStage(e)
  BY <1>8 DEF LoadStage
<1>9. CASE StageRefuses(e)
  BY <1>9 DEF StageRefuses
<1>10. CASE FillPlan(e)
  BY <1>10 DEF FillPlan, CompletedIsCoherent
<1>11. CASE CallProvider(e)
  BY <1>11 DEF CallProvider, Advance
<1>12. CASE ProviderFails(e)
  BY <1>12 DEF ProviderFails
<1>13. CASE FillSlot(e)
  <2> DEFINE r == RunOf[e]
  <2>1. /\ held[e][stage[e]].model = ModelOf[e]
        /\ plan[r] # None /\ plan[r].model = ModelOf[e]
        /\ stage[e] \in SlotStages
    BY <1>13 DEF FillSlot, StepKnows
  <2>2. plan' = plan /\ result' = result
    BY <1>13 DEF FillSlot, Advance
  <2>3. slot' = slot \/ slot' = [slot EXCEPT ![r][stage[e]] = held[e][stage[e]]]
    BY <1>13 DEF FillSlot, Advance
  <2>4. ASSUME NEW q \in Runs, NEW s \in SlotStages, slot'[q][s] # None
        PROVE plan[q] # None /\ slot'[q][s].model = plan[q].model
    <3>1. CASE slot'[q][s] = slot[q][s]
      BY <2>4, <3>1
    <3>2. CASE q = r /\ s = stage[e] /\ slot'[q][s] = held[e][stage[e]]
      BY <2>1, <3>2
    <3> QED
      BY <2>3, <3>1, <3>2
  <2> QED
    BY <2>2, <2>4
<1>14. CASE UntypedError(e)
  BY <1>14 DEF UntypedError
<1>15. CASE ApplyPolicy(e)
  BY <1>15 DEF ApplyPolicy
<1>16. CASE PolicyInputInconsistent(e)
  BY <1>16 DEF PolicyInputInconsistent
<1>17. CASE VerifyCandidate(e)
  BY <1>17 DEF VerifyCandidate
<1>18. CASE CandidateRefused(e)
  BY <1>18 DEF CandidateRefused
<1>19. CASE Finalize(e)
  BY <1>19 DEF Finalize, Candidate, StepKnows
<1>20. CASE FailClaimed(e)
  BY <1>20 DEF FailClaimed
<1>21. CASE ReleaseForRetry(e)
  BY <1>21 DEF ReleaseForRetry
<1>22. CASE StartedWriteFails(e)
  BY <1>22 DEF StartedWriteFails
<1>23. CASE Die(e)
  BY <1>23 DEF Die
<1> QED
  BY <1>1, <1>2, <1>3, <1>4, <1>5, <1>6, <1>7, <1>8, <1>9, <1>10, <1>11, <1>12, <1>13, <1>14, <1>15, <1>16, <1>17, <1>18, <1>19, <1>20, <1>21, <1>22, <1>23 DEF StepOf, Progress

-----------------------------------------------------------------------------
(* The theorems.                                                           *)

LEMMA RunInit == Init => RunInv
  BY TypeInit, RunAssumption DEF Init, RunInv, OneOwner, Owned, StepKnows, Owning,
     CompletedIsCoherent, OneModelPerRun, SlotStages

LEMMA RunNext == RunInv /\ [Next]_vars => RunInv'
<1> SUFFICES ASSUME RunInv, [Next]_vars PROVE RunInv'
  OBVIOUS
<1>1. TypeOK'
  BY TypeNext DEF RunInv
<1>2. OneOwner' /\ Owned'
  BY OwnNext DEF RunInv
<1>3. CASE \E e \in Executions : StepOf(e)
  <2>1. \A f \in Executions : StepKnows(f)'
    BY <1>3, OthersKnow, SelfKnows
  <2>2. CompletedIsCoherent' /\ OneModelPerRun'
    BY <1>3, CoherentNext, PlanNext
  <2> QED
    BY <1>1, <1>2, <2>1, <2>2 DEF RunInv
<1>4. CASE \E r \in Runs : CreateFrozenRun(r)
  <2>1. PICK r \in Runs : CreateFrozenRun(r)
    BY <1>4
  <2>2. UNCHANGED <<plan, slot, result, pc, stage, held>>
    BY <2>1 DEF CreateFrozenRun, Locals
  <2>3. \A f \in Executions : StepKnows(f)'
    BY <2>2 DEF RunInv, StepKnows, SlotEmpty, HasInputs
  <2>4. OneModelPerRun'
    BY <2>2 DEF RunInv, OneModelPerRun
  <2>5. CompletedIsCoherent'
    BY <2>1, <2>2 DEF CreateFrozenRun, RunInv, CompletedIsCoherent, TypeOK
  <2> QED
    BY <1>1, <1>2, <2>3, <2>4, <2>5 DEF RunInv
<1>5. CASE UNCHANGED vars
  BY <1>1, <1>2, <1>5 DEF vars, RunInv, StepKnows, SlotEmpty, HasInputs, CompletedIsCoherent,
     OneModelPerRun
<1> QED
  BY <1>3, <1>4, <1>5 DEF Next, StepOf

\* The inductive invariant.
THEOREM RunInvariant == Spec => []RunInv
  BY RunInit, RunNext, PTL DEF Spec

\* The claim excludes: two executions never work on the same run, whatever
\* dies and whatever is retried.
THEOREM ExclusiveClaim == Spec => []OneOwner
<1>1. RunInv => OneOwner
  BY DEF RunInv
<1> QED
  BY <1>1, RunInvariant, PTL

\* A completed run has the result of its own artifacts.
THEOREM CoherentCompletion == Spec => []CompletedIsCoherent
<1>1. RunInv => CompletedIsCoherent
  BY DEF RunInv
<1> QED
  BY <1>1, RunInvariant, PTL

\* The artifacts of a run and the last stage of its result come from the model
\* its frozen plan names.  The version of the policy is left out: an execution
\* whose preflight read no plan completes the run under its own.
THEOREM SingleModel == Spec => []OneModelPerRun
<1>1. RunInv => OneModelPerRun
  BY DEF RunInv
<1> QED
  BY <1>1, RunInvariant, PTL

\* Nothing that is in a slot is bought again.
THEOREM NoSecondPurchase == Spec => NothingBoughtTwice
<1>1. RunInv /\ [Next]_vars =>
        [\A e \in Executions :
           pc[e] = "call" /\ pc'[e] = "fill" => slot[RunOf[e]][stage[e]] = None]_vars
  <2> SUFFICES ASSUME RunInv, Next, NEW e \in Executions, pc[e] = "call", pc'[e] = "fill"
               PROVE slot[RunOf[e]][stage[e]] = None
    OBVIOUS
  <2>1. CASE StepOf(e)
    BY <2>1, SelfKnows DEF RunInv, StepKnows, SlotEmpty, StepOf, Progress, Preflight,
       PolicyMismatch, Claim, NotClaimable, MarkStarted, PassGate, UsePersisted, LoadStage,
       StageRefuses, NeedsWork, FillPlan, CallProvider, ProviderFails, FillSlot, UntypedError,
       ApplyPolicy, PolicyInputInconsistent, VerifyCandidate, CandidateRefused, Finalize,
       FailClaimed, ReleaseForRetry, StartedWriteFails, Die, StageThrows, Goto, Leave, TypeOK,
       Advance, Stages, SlotStages
  <2>2. CASE \E f \in Executions \ {e} : StepOf(f)
    BY <2>2, StepsUntouched DEF Untouched, RunInv
  <2>3. CASE \E r \in Runs : CreateFrozenRun(r)
    BY <2>3 DEF CreateFrozenRun
  <2> QED
    BY <2>1, <2>2, <2>3 DEF Next, StepOf
<1> QED
  BY <1>1, RunInvariant, PTL DEF NothingBoughtTwice, Spec

-----------------------------------------------------------------------------
(* Runs that ended.                                                        *)

\* Only owners write an artifact, a plan or a result; the others write under
\* the condition that the run is pending.
LEMMA EndedKept ==
  ASSUME RunInv, NEW e \in Executions, StepOf(e), pc[e] \notin Owning,
         status[RunOf[e]] \in {"completed", "failed"}
  PROVE UNCHANGED run
<1> USE RunAssumption DEF RunInv, TypeOK, Goto, Locals, Leave, FailIfOpen, run, Owning, Open
<1>1. CASE Preflight(e)
  BY <1>1 DEF Preflight
<1>2. CASE PolicyMismatch(e)
  BY <1>2 DEF PolicyMismatch
<1>3. CASE Claim(e)
  BY <1>3 DEF Claim, CanClaim
<1>4. CASE NotClaimable(e)
  BY <1>4 DEF NotClaimable
<1>5. CASE Die(e)
  BY <1>5 DEF Die
<1>6. pc[e] \in {"idle", "claim", "mismatch"}
  BY DEF Steps
<1> QED
  BY <1>1, <1>2, <1>3, <1>4, <1>5, <1>6 DEF StepOf, Progress, MarkStarted, PassGate, UsePersisted, LoadStage, StageRefuses, FillPlan,
     CallProvider, ProviderFails, FillSlot, UntypedError, ApplyPolicy, PolicyInputInconsistent,
     VerifyCandidate, CandidateRefused, Finalize, FailClaimed, ReleaseForRetry, StartedWriteFails, NeedsWork

LEMMA EndedStep ==
  ASSUME RunInv, Next, NEW r \in Runs, status[r] \in {"completed", "failed"}
  PROVE /\ status'[r] = status[r]
        /\ failed'[r] = failed[r]
        /\ plan'[r] = plan[r]
        /\ slot'[r] = slot[r]
        /\ result'[r] = result[r]
<1>1. CASE \E e \in Executions : StepOf(e)
  <2>1. PICK e \in Executions : StepOf(e)
    BY <1>1
  <2>2. CASE RunOf[e] # r
    BY <2>1, <2>2, StepsUntouched DEF Untouched, RunInv
  <2>3. CASE RunOf[e] = r
    <3>1. pc[e] \notin Owning
      BY <2>3 DEF RunInv, Owned, Open
    <3> QED
      BY <2>1, <2>3, <3>1, EndedKept DEF run
  <2> QED
    BY <2>2, <2>3
<1>2. CASE \E q \in Runs : CreateFrozenRun(q)
  BY <1>2 DEF CreateFrozenRun, RunInv, TypeOK
<1> QED
  BY <1>1, <1>2 DEF Next, StepOf

\* A terminal run is final: late writers, stale readers and the plan, whose
\* write has no condition on the status, leave it as it is.
THEOREM TerminalRunsAreFinal == Spec => TerminalIsFinal
<1>1. RunInv /\ [Next]_vars =>
        [\A r \in Runs :
           status[r] \in {"completed", "failed"} =>
             /\ status'[r] = status[r]
             /\ failed'[r] = failed[r]
             /\ plan'[r] = plan[r]
             /\ slot'[r] = slot[r]
             /\ result'[r] = result[r]]_vars
  BY EndedStep
<1> QED
  BY <1>1, RunInvariant, PTL DEF TerminalIsFinal, Spec

-----------------------------------------------------------------------------
(* The refinement.                                                         *)

Phase == [r \in Runs |-> IF status[r] \in {"pending", "running"}
                         THEN "open" ELSE status[r]]

\* What the record may see of a step, in terms of one run.
LEMMA FailSeen ==
  ASSUME RunInv, NEW r \in Runs, NEW st \in {"pending", "running"}, FailIfOpen(r, st)
  PROVE Record!Fail(r) \/ UNCHANGED <<Phase, slot, result>>
<1>1. CASE Open(r, st)
  <2>1. Phase[r] = "open"
    BY <1>1 DEF Phase, Open
  <2>2. status' = [status EXCEPT ![r] = "failed"] /\ UNCHANGED <<slot, result>>
    BY <1>1 DEF FailIfOpen
  <2>3. Phase' = [Phase EXCEPT ![r] = "failed"]
    BY <2>2 DEF Phase, RunInv, TypeOK
  <2> QED
    BY <2>1, <2>2, <2>3 DEF Phase, Record!Fail
<1>2. CASE ~Open(r, st)
  BY <1>2 DEF FailIfOpen, Phase
<1> QED
  BY <1>1, <1>2

LEMMA StepSeen ==
  ASSUME RunInv, NEW e \in Executions, StepOf(e)
  PROVE Record!Next \/ UNCHANGED <<Phase, slot, result>>
<1> USE RunAssumption
<1>0. CASE UNCHANGED run
  BY <1>0 DEF run, Phase
<1>1. CASE \E st \in {"pending", "running"} : FailIfOpen(RunOf[e], st)
  BY <1>1, FailSeen DEF Record!Next
<1>2. CASE PolicyMismatch(e)
  BY <1>1, <1>2 DEF PolicyMismatch
<1>3. CASE Claim(e)
  BY <1>3 DEF Claim, CanClaim, Open, Phase, RunInv, TypeOK
<1>4. CASE \E code : StageThrows(e, code)
  BY <1>0, <1>1, <1>4 DEF StageThrows
<1>5. CASE FillPlan(e)
  BY <1>4, <1>5 DEF FillPlan, Phase, run
<1>6. CASE FillSlot(e)
  <2> DEFINE r == RunOf[e]
  <2>1. CASE UNCHANGED run
    BY <1>0, <2>1
  <2>2. CASE /\ CanFill(r, stage[e])
             /\ slot' = [slot EXCEPT ![r][stage[e]] = held[e][stage[e]]]
             /\ UNCHANGED <<status, failed, plan, result>>
    <3>1. Phase[r] = "open" /\ Phase' = Phase /\ slot[r][stage[e]] = None
      BY <2>2 DEF CanFill, Eligible, Phase
    <3>2. stage[e] \in SlotStages /\ held[e][stage[e]] \in Artifact
      BY <1>6 DEF FillSlot, RunInv, StepKnows
    <3> QED
      BY <2>2, <3>1, <3>2 DEF Phase, Record!Next, Record!Learn
  <2> QED
    BY <1>4, <1>6, <2>1, <2>2 DEF FillSlot
<1>7. CASE Finalize(e)
  <2> DEFINE r == RunOf[e]
  <2>1. CASE Open(r, "running")
    <3>1. /\ status' = [status EXCEPT ![r] = "completed"]
          /\ result' = [result EXCEPT ![r] = Candidate(e)]
          /\ slot' = slot
      BY <1>7, <2>1 DEF Finalize
    <3>2. Phase[r] = "open" /\ Phase' = [Phase EXCEPT ![r] = "completed"]
      BY <2>1, <3>1 DEF Open, Phase, RunInv, TypeOK
    <3>3. Candidate(e) \in Result
      BY <1>7, CandidateType DEF Finalize, RunInv
    <3>4. /\ Candidate(e).objective = slot[r]["objective"]
          /\ Candidate(e).evidence = slot[r]["evidence"]
          /\ \A s \in SlotStages : slot[r][s] # None
      BY <1>7 DEF Finalize, Candidate, RunInv, StepKnows, SlotStages, HasInputs
    <3>5. Record!Complete(r)
      BY <3>1, <3>2, <3>3, <3>4 DEF Phase, Record!Complete
    <3> QED
      BY <3>5 DEF Record!Next
  <2>2. CASE ~Open(r, "running")
    BY <1>7, <2>2 DEF Finalize, Phase
  <2> QED
    BY <2>1, <2>2
<1>8. CASE FailClaimed(e)
  BY <1>1, <1>8 DEF FailClaimed
<1>9. CASE ReleaseForRetry(e)
  BY <1>9 DEF ReleaseForRetry, Open, Phase, RunInv, TypeOK
<1> QED
  BY <1>0, <1>2, <1>3, <1>4, <1>5, <1>6, <1>7, <1>8, <1>9
  DEF StepOf, Progress, Preflight, NotClaimable, MarkStarted, StartedWriteFails, PassGate,
      UsePersisted, LoadStage, StageRefuses, CallProvider, ProviderFails, UntypedError,
      ApplyPolicy, PolicyInputInconsistent, VerifyCandidate, CandidateRefused, Die, run

\* A reader of runs sees an append-only record, whoever executes them.
THEOREM RunRefinesRecord == Spec => RefinesRecord
<1>1. Init => Record!Init
  BY RunAssumption DEF Init, Record!Init
<1>2. RunInv /\ [Next]_vars => [Record!Next]_(Record!vars)
  <2> SUFFICES ASSUME RunInv, [Next]_vars
               PROVE Record!Next \/ UNCHANGED <<Phase, slot, result>>
    BY DEF Record!vars, Phase
  <2>1. CASE \E e \in Executions : StepOf(e)
    BY <2>1, StepSeen
  <2>2. CASE \E r \in Runs : CreateFrozenRun(r)
    <3>1. PICK r \in Runs : CreateFrozenRun(r)
      BY <2>2
    <3>2. PICK blocked \in BOOLEAN :
            status' = [status EXCEPT ![r] = IF blocked THEN "failed" ELSE "pending"]
      BY <3>1 DEF CreateFrozenRun
    <3>3. Phase[r] = "absent"
          /\ Phase' = [Phase EXCEPT ![r] = IF blocked THEN "failed" ELSE "open"]
      BY <3>1, <3>2 DEF CreateFrozenRun, Phase, RunInv, TypeOK
    <3>4. UNCHANGED <<slot, result>>
      BY <3>1 DEF CreateFrozenRun
    <3>5. Record!Create(r)
      BY <3>3, <3>4 DEF Record!Create, Phase
    <3> QED
      BY <3>5 DEF Record!Next
  <2>3. CASE UNCHANGED vars
    BY <2>3 DEF vars, Phase
  <2> QED
    BY <2>1, <2>2, <2>3 DEF Next, StepOf
<1> QED
  BY <1>1, <1>2, RunInvariant, PTL DEF RefinesRecord, Record!Spec, Spec
=============================================================================
