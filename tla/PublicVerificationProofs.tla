--------------------- MODULE PublicVerificationProofs ----------------------
(***************************************************************************)
(* Proofs about what a verifier meets.                                     *)
(*                                                                         *)
(* Part 1, VerificationExecution: the budget of attempts bounds the claims *)
(* of a run, and a run is frozen only under the standing consent - for     *)
(* every number of callers, requests and attempts, whatever leases expire  *)
(* and whoever dies.  Where no live call outlives its lease, one execution *)
(* works on the runs of a link and their number keeps the quota.           *)
(*                                                                         *)
(* Part 2, CredentialVerification: an answer about a credential is borne   *)
(* out by what it was read from - for any number of readers and keys,      *)
(* however the rows are altered and whatever cannot be read.               *)
(*                                                                         *)
(* Part 3, VerificationSession: the work a link buys is bounded, at once   *)
(* and over time, and neither an outcome nor a confirmation is taken back  *)
(* - for any number of calls, requests and definitions.                    *)
(***************************************************************************)
EXTENDS VerificationExecution, CredentialVerification, VerificationSession,
        FiniteSetTheorems, TLAPS

\* The callers that spent an attempt and may still claim the run with it.
Waiting(r) ==
  {c \in Callers :
     /\ RequestOf[c] = r
     /\ \/ pc[c] = "engine"
        \/ pc[c] = "executing" /\ epc[c] = "claim"}

Shape ==
  /\ attempts \in [Requests -> Nat]
  /\ claims \in [Requests -> Nat]
  /\ pc \in [Callers -> Steps]
  /\ epc \in [Callers -> Engine!Steps]
  /\ status \in [Requests -> Engine!Statuses]

\* The engine works only for a caller that is executing.
EngineIsDriven == \A c \in Callers : epc[c] # "idle" => pc[c] = "executing"

\* Every claim was paid with an attempt of its own.
Paid ==
  \A r \in Requests :
    /\ claims[r] + Cardinality(Waiting(r)) <= attempts[r]
    /\ attempts[r] <= MaxAttempts

IInv == Shape /\ EngineIsDriven /\ Paid

-----------------------------------------------------------------------------
(* What a step of the engine does to the counter of an execution and to    *)
(* the status of the runs.                                                 *)

Moves(c, s) ==
  /\ epc' = [epc EXCEPT ![c] = s]
  /\ s \in Engine!Steps /\ s # "claim"
  /\ epc[c] # "claim" => s # "claimed"

StatusKept ==
  /\ status' \in [Requests -> Engine!Statuses]
  /\ \A r \in Requests : status[r] = "absent" => status'[r] = "absent"

LEMMA FailKeeps ==
  ASSUME Shape, NEW r \in Requests, NEW st \in {"pending", "running"},
         Engine!FailIfOpen(r, st)
  PROVE  StatusKept
  BY DEF Shape, StatusKept, Engine!FailIfOpen, Engine!Open, Engine!Statuses

LEMMA LeaveMoves ==
  ASSUME NEW c \in Callers, Engine!Leave(c)
  PROVE  Moves(c, "idle")
  BY DEF Moves, Engine!Leave, Engine!Goto, Engine!Steps

LEMMA ThrowMoves ==
  ASSUME Shape, VerificationAssumption, NEW c \in Callers, NEW code,
         Engine!StageThrows(c, code)
  PROVE  Moves(c, "resolving") /\ StatusKept
<1>1. RequestOf[c] \in Requests
  BY DEF VerificationAssumption
<1>2. Moves(c, "resolving")
  BY DEF Moves, Engine!StageThrows, Engine!Goto, Engine!Steps, Engine!Owning
<1>3. CASE Engine!FailIfOpen(RequestOf[c], "pending")
  BY <1>1, <1>2, <1>3, FailKeeps
<1>4. CASE UNCHANGED status
  BY <1>2, <1>4 DEF StatusKept, Shape
<1> QED
  BY <1>3, <1>4 DEF Engine!StageThrows, Engine!run

LEMMA AdvanceMoves ==
  ASSUME NEW c \in Callers, NEW artifact, Engine!Advance(c, artifact)
  PROVE  \E s : Moves(c, s)
<1>1. CASE stage[c] = "contextual"
  <2>1. Moves(c, "policy")
    BY <1>1 DEF Moves, Engine!Advance, Engine!Goto, Engine!Steps, Engine!Owning
  <2> QED
    BY <2>1
<1>2. CASE stage[c] # "contextual"
  <2>1. Moves(c, "gate")
    BY <1>2 DEF Moves, Engine!Advance, Engine!Goto, Engine!Steps, Engine!Owning
  <2> QED
    BY <2>1
<1> QED
  BY <1>1, <1>2

LEMMA ProgressMoves ==
  ASSUME Shape, VerificationAssumption, NEW c \in Callers, Engine!Progress(c)
  PROVE  /\ epc[c] # "idle"
         /\ \E s : Moves(c, s)
         /\ StatusKept
<1>0. RequestOf[c] \in Requests
  BY DEF VerificationAssumption
<1> DEFINE Goal == epc[c] # "idle" /\ (\E s : Moves(c, s)) /\ StatusKept
<1> USE DEF Shape
<1>1. CASE Engine!PolicyMismatch(c)
  BY <1>0, <1>1, LeaveMoves, FailKeeps DEF Engine!PolicyMismatch
<1>2. CASE Engine!Claim(c)
  <2>1. Moves(c, "claimed")
    BY <1>2 DEF Engine!Claim, Moves, Engine!Goto, Engine!Steps, Engine!Owning
  <2>2. StatusKept
    BY <1>0, <1>2 DEF Engine!Claim, Engine!CanClaim, Engine!Open, StatusKept,
                      Engine!Statuses
  <2> QED
    BY <1>2, <2>1, <2>2 DEF Engine!Claim
<1>3. CASE Engine!NotClaimable(c)
  BY <1>3, LeaveMoves DEF Engine!NotClaimable, Engine!run, StatusKept
<1>4. CASE Engine!MarkStarted(c) \/ Engine!PassGate(c)
  <2>1. Moves(c, "gate") \/ Moves(c, "load")
    BY <1>4 DEF Engine!MarkStarted, Engine!PassGate, Moves, Engine!Goto,
                Engine!Steps, Engine!Owning
  <2> QED
    BY <1>4, <2>1 DEF Engine!MarkStarted, Engine!PassGate, Engine!run, StatusKept
<1>5. CASE Engine!UsePersisted(c)
  BY <1>5, AdvanceMoves DEF Engine!UsePersisted, Engine!run, StatusKept
<1>6. CASE Engine!LoadStage(c)
  <2>1. CASE Engine!StageThrows(c, "EXECUTION_PLAN_MISMATCH")
    BY <1>6, <2>1, ThrowMoves DEF Engine!LoadStage, Engine!NeedsWork
  <2>2. CASE (Engine!Goto(c, "plan") \/ Engine!Goto(c, "call")) /\ UNCHANGED Engine!run
    <3>1. Moves(c, "plan") \/ Moves(c, "call")
      BY <2>2 DEF Moves, Engine!Goto, Engine!Steps, Engine!Owning
    <3> QED
      BY <1>6, <2>2, <3>1 DEF Engine!LoadStage, Engine!NeedsWork, Engine!run,
                              StatusKept
  <2> QED
    BY <1>6, <2>1, <2>2 DEF Engine!LoadStage
<1>7. CASE Engine!StageRefuses(c)
  BY <1>7, ThrowMoves DEF Engine!StageRefuses, Engine!NeedsWork
<1>8. CASE Engine!FillPlan(c)
  <2>1. CASE Engine!StageThrows(c, "STAGE_ARTIFACT_CONFLICT")
    BY <1>8, <2>1, ThrowMoves DEF Engine!FillPlan
  <2>2. CASE Engine!Goto(c, "call") /\ UNCHANGED status
    <3>1. Moves(c, "call")
      BY <1>8, <2>2 DEF Moves, Engine!Goto, Engine!Steps, Engine!Owning
    <3> QED
      BY <1>8, <2>2, <3>1 DEF Engine!FillPlan, StatusKept
  <2> QED
    BY <1>8, <2>1, <2>2 DEF Engine!FillPlan, Engine!run
<1>9. CASE Engine!CallProvider(c)
  <2>1. UNCHANGED status /\ epc[c] = "call"
    BY <1>9 DEF Engine!CallProvider, Engine!run
  <2>2. \/ Engine!Goto(c, "fill")
        \/ \E artifact : Engine!Advance(c, artifact)
    BY <1>9 DEF Engine!CallProvider
  <2>3. CASE Engine!Goto(c, "fill")
    <3>1. Moves(c, "fill")
      BY <2>1, <2>3 DEF Moves, Engine!Goto, Engine!Steps, Engine!Owning
    <3> QED
      BY <2>1, <3>1 DEF StatusKept
  <2>4. CASE \E artifact : Engine!Advance(c, artifact)
    BY <2>1, <2>4, AdvanceMoves DEF StatusKept
  <2> QED
    BY <2>2, <2>3, <2>4
<1>10. CASE Engine!ProviderFails(c)
  BY <1>10, ThrowMoves DEF Engine!ProviderFails
<1>11. CASE Engine!FillSlot(c)
  <2>1. CASE \E code : Engine!StageThrows(c, code)
    BY <1>11, <2>1, ThrowMoves DEF Engine!FillSlot
  <2>2. CASE UNCHANGED status /\ \E artifact : Engine!Advance(c, artifact)
    BY <1>11, <2>2, AdvanceMoves DEF Engine!FillSlot, StatusKept
  <2> QED
    BY <1>11, <2>1, <2>2 DEF Engine!FillSlot, Engine!run
<1>12. CASE Engine!UntypedError(c)
  BY <1>12, ThrowMoves DEF Engine!UntypedError
<1>13. CASE Engine!ApplyPolicy(c) \/ Engine!VerifyCandidate(c)
  <2>1. Moves(c, "verify") \/ Moves(c, "finalize")
    BY <1>13 DEF Engine!ApplyPolicy, Engine!VerifyCandidate, Moves, Engine!Goto,
                 Engine!Steps, Engine!Owning
  <2> QED
    BY <1>13, <2>1 DEF Engine!ApplyPolicy, Engine!VerifyCandidate, Engine!run,
                       StatusKept
<1>14. CASE Engine!PolicyInputInconsistent(c) \/ Engine!CandidateRefused(c)
  <2>1. Moves(c, "failing")
    BY <1>14 DEF Engine!PolicyInputInconsistent, Engine!CandidateRefused, Moves,
                 Engine!Goto, Engine!Steps, Engine!Owning
  <2> QED
    BY <1>14, <2>1 DEF Engine!PolicyInputInconsistent, Engine!CandidateRefused,
                       Engine!run, StatusKept
<1>15. CASE Engine!Finalize(c)
  <2>1. StatusKept
    BY <1>0, <1>15 DEF Engine!Finalize, Engine!Open, StatusKept, Engine!Statuses
  <2> QED
    BY <1>15, <2>1, LeaveMoves DEF Engine!Finalize
<1>16. CASE Engine!FailClaimed(c)
  BY <1>0, <1>16, LeaveMoves, FailKeeps DEF Engine!FailClaimed
<1>17. CASE Engine!ReleaseForRetry(c)
  <2>1. StatusKept
    BY <1>0, <1>17 DEF Engine!ReleaseForRetry, Engine!Open, StatusKept,
                       Engine!Statuses
  <2> QED
    BY <1>17, <2>1, LeaveMoves DEF Engine!ReleaseForRetry
<1> QED
  BY <1>1, <1>2, <1>3, <1>4, <1>5, <1>6, <1>7, <1>8, <1>9, <1>10, <1>11, <1>12,
     <1>13, <1>14, <1>15, <1>16, <1>17 DEF Engine!Progress

-----------------------------------------------------------------------------
(* The budget.                                                             *)

LEMMA WaitingFinite ==
  ASSUME VerificationAssumption, NEW r
  PROVE  IsFiniteSet(Waiting(r)) /\ Cardinality(Waiting(r)) \in Nat
  BY FS_Subset, FS_CardinalityType DEF Waiting, VerificationAssumption

\* Nobody new waits and nothing is claimed: the account stands.
LEMMA FewerWait ==
  ASSUME VerificationAssumption, Shape, Paid,
         UNCHANGED <<attempts, claims>>,
         \A r \in Requests : Waiting(r)' \subseteq Waiting(r)
  PROVE  Paid'
<1> SUFFICES ASSUME NEW r \in Requests
             PROVE  /\ claims[r]' + Cardinality(Waiting(r)') <= attempts[r]'
                    /\ attempts[r]' <= MaxAttempts
  BY DEF Paid
<1>1. Waiting(r)' \subseteq Waiting(r)
  OBVIOUS
<1>2. /\ IsFiniteSet(Waiting(r)')
      /\ Cardinality(Waiting(r)') <= Cardinality(Waiting(r))
  BY <1>1, WaitingFinite, FS_Subset
<1>3. Cardinality(Waiting(r)') \in Nat /\ Cardinality(Waiting(r)) \in Nat
  BY <1>2, WaitingFinite, FS_CardinalityType
<1>4. claims[r] \in Nat /\ attempts[r] \in Nat
  BY DEF Shape
<1>5. claims[r]' = claims[r] /\ attempts[r]' = attempts[r]
  OBVIOUS
<1> QED
  BY <1>2, <1>3, <1>4, <1>5 DEF Paid, VerificationAssumption

\* A caller moves to a place where it does not wait, the engine stands still.
LEMMA CallerMoves ==
  ASSUME VerificationAssumption, IInv, NEW c \in Callers,
         NEW s \in Steps \ {"engine", "executing"}, Goto(c, s),
         pc[c] # "executing",
         UNCHANGED <<attempts, claims, epc>>, StatusKept
  PROVE  IInv'
<1>1. Shape'
  BY DEF IInv, Shape, Goto, StatusKept
<1>2. EngineIsDriven'
  BY DEF IInv, Shape, Goto, EngineIsDriven
<1>3. \A r \in Requests : Waiting(r)' \subseteq Waiting(r)
  BY DEF IInv, Shape, Goto, Waiting
<1>4. Paid'
  BY <1>3, FewerWait DEF IInv
<1> QED
  BY <1>1, <1>2, <1>4 DEF IInv

LEMMA SpendKeeps ==
  ASSUME VerificationAssumption, IInv, NEW c \in Callers, Spend(c)
  PROVE  IInv'
<1> DEFINE q == RequestOf[c]
<1>0. q \in Requests
  BY DEF VerificationAssumption
<1>1. UNCHANGED <<status, epc, claims>>
  BY DEF Spend, engine, run
<1>2. CASE ~CanSpend(q)
  <2>1. Goto(c, "budget") /\ UNCHANGED attempts /\ pc[c] = "spend"
    BY <1>2 DEF Spend
  <2> QED
    BY <1>1, <2>1, CallerMoves DEF Steps, StatusKept, IInv, Shape
<1>3. CASE CanSpend(q)
  <2>1. /\ Goto(c, "engine") /\ pc[c] = "spend"
        /\ attempts' = [attempts EXCEPT ![q] = @ + 1]
        /\ attempts[q] < MaxAttempts
    BY <1>3 DEF Spend, CanSpend
  <2>2. Shape'
    BY <1>0, <1>1, <2>1 DEF IInv, Shape, Goto, Steps
  <2>3. EngineIsDriven'
    BY <1>1, <2>1 DEF IInv, Shape, Goto, EngineIsDriven
  <2>4. Waiting(q)' = Waiting(q) \cup {c} /\ c \notin Waiting(q)
    BY <1>1, <2>1 DEF IInv, Shape, Goto, Waiting
  <2>5. \A r \in Requests \ {q} : Waiting(r)' = Waiting(r)
    BY <1>1, <2>1 DEF IInv, Shape, Goto, Waiting
  <2>6. ASSUME NEW r \in Requests
        PROVE  /\ claims[r]' + Cardinality(Waiting(r)') <= attempts[r]'
               /\ attempts[r]' <= MaxAttempts
    <3>1. /\ claims[r]' = claims[r]
          /\ claims[r] \in Nat /\ attempts[r] \in Nat /\ MaxAttempts \in Nat
          /\ Cardinality(Waiting(r)) \in Nat
          /\ claims[r] + Cardinality(Waiting(r)) <= attempts[r]
          /\ attempts[r] <= MaxAttempts
      BY <1>1, WaitingFinite DEF IInv, Shape, Paid, VerificationAssumption
    <3>2. CASE r = q
      <4>1. Cardinality(Waiting(r)') = Cardinality(Waiting(r)) + 1
        BY <2>4, <3>2, WaitingFinite, FS_AddElement
      <4>2. attempts[r]' = attempts[r] + 1 /\ attempts[r] < MaxAttempts
        BY <1>0, <2>1, <3>2 DEF IInv, Shape
      <4> QED
        BY <3>1, <4>1, <4>2
    <3>3. CASE r # q
      <4>1. Waiting(r)' = Waiting(r) /\ attempts[r]' = attempts[r]
        BY <1>0, <2>1, <2>5, <3>3 DEF IInv, Shape
      <4> QED
        BY <3>1, <4>1
    <3> QED
      BY <3>2, <3>3
  <2> QED
    BY <2>2, <2>3, <2>6 DEF IInv, Paid
<1> QED
  BY <1>2, <1>3

\* A step of the engine for an executing caller, and the account of its claim.
LEMMA ExecutingKeeps ==
  ASSUME VerificationAssumption, IInv, NEW c \in Callers, pc[c] = "executing",
         NEW s, Moves(c, s), EngineGoesOn(c), StatusKept
  PROVE  IInv'
<1> DEFINE q == RequestOf[c]
<1>0. q \in Requests
  BY DEF VerificationAssumption
<1>1. epc'[c] = s /\ s \in Engine!Steps
  BY DEF Moves, IInv, Shape
<1>2. UNCHANGED attempts
  BY DEF EngineGoesOn, rows
<1>3. Shape'
  <2>1. pc' \in [Callers -> Steps]
    BY DEF EngineGoesOn, Goto, IInv, Shape, Steps
  <2>2. claims' \in [Requests -> Nat]
    BY <1>0 DEF EngineGoesOn, IInv, Shape
  <2>3. epc' \in [Callers -> Engine!Steps]
    BY DEF Moves, IInv, Shape
  <2> QED
    BY <1>2, <2>1, <2>2, <2>3 DEF Shape, IInv, StatusKept
<1>4. EngineIsDriven'
  BY <1>1 DEF EngineGoesOn, Goto, Moves, IInv, Shape, EngineIsDriven
<1>5. \A r \in Requests : Waiting(r)' = Waiting(r) \ {c}
  BY <1>1 DEF EngineGoesOn, Goto, Moves, IInv, Shape, Waiting
<1>6. CASE ~(epc[c] = "claim" /\ epc'[c] = "claimed")
  <2>1. UNCHANGED claims
    BY <1>6 DEF EngineGoesOn
  <2>2. Paid'
    BY <1>2, <1>5, <2>1, FewerWait DEF IInv
  <2> QED
    BY <1>3, <1>4, <2>2 DEF IInv
<1>7. CASE epc[c] = "claim" /\ epc'[c] = "claimed"
  <2>1. claims' = [claims EXCEPT ![q] = @ + 1]
    BY <1>7 DEF EngineGoesOn
  <2>2. ASSUME NEW r \in Requests
        PROVE  /\ claims[r]' + Cardinality(Waiting(r)') <= attempts[r]'
               /\ attempts[r]' <= MaxAttempts
    <3>1. /\ attempts[r]' = attempts[r]
          /\ claims[r] \in Nat /\ attempts[r] \in Nat /\ MaxAttempts \in Nat
          /\ Cardinality(Waiting(r)) \in Nat
          /\ claims[r] + Cardinality(Waiting(r)) <= attempts[r]
          /\ attempts[r] <= MaxAttempts
      BY <1>2, WaitingFinite DEF IInv, Shape, Paid, VerificationAssumption
    <3>2. CASE r = q
      <4>1. c \in Waiting(r)
        BY <1>7, <3>2 DEF Waiting
      <4>2. Cardinality(Waiting(r)') = Cardinality(Waiting(r)) - 1
        BY <1>5, <4>1, WaitingFinite, FS_RemoveElement
      <4>3. claims[r]' = claims[r] + 1
        BY <1>0, <2>1, <3>2 DEF IInv, Shape
      <4> QED
        BY <3>1, <4>2, <4>3
    <3>3. CASE r # q
      <4>1. c \notin Waiting(r)
        BY <3>3 DEF Waiting
      <4>2. Waiting(r)' = Waiting(r)
        BY <1>5, <4>1
      <4>3. claims[r]' = claims[r]
        BY <1>0, <2>1, <3>3 DEF IInv, Shape
      <4> QED
        BY <3>1, <4>2, <4>3
    <3> QED
      BY <3>2, <3>3
  <2> QED
    BY <1>3, <1>4, <2>2 DEF IInv, Paid
<1> QED
  BY <1>6, <1>7

-----------------------------------------------------------------------------
(* The invariant.                                                          *)

LEMMA InitHolds ==
  ASSUME VerificationAssumption, Init
  PROVE  IInv
<1>1. \A r \in Requests : Waiting(r) = {}
  BY DEF Init, Waiting
<1>2. Cardinality({}) = 0
  BY FS_EmptySet
<1>3. Shape
  BY DEF Init, Shape, Steps, Engine!Init, Engine!Steps, Engine!Statuses
<1>4. EngineIsDriven
  BY DEF Init, EngineIsDriven, Engine!Init
<1>5. Paid
  BY <1>1, <1>2 DEF Init, Paid, VerificationAssumption
<1> QED
  BY <1>3, <1>4, <1>5 DEF IInv

\* Only the transaction of the freeze and the engine write the status.
LEMMA StepKeeps ==
  ASSUME VerificationAssumption, IInv, NEW c \in Callers,
         Begin(c) \/ BeginRead(c) \/ Step(c) \/ StartedWriteFails(c)
           \/ Die(c) \/ WorkThrows(c)
  PROVE  IInv' /\ (Commit(c) \/ StatusKept)
<1>0. RequestOf[c] \in Requests
  BY DEF VerificationAssumption
<1>a. UNCHANGED status => StatusKept
  BY DEF IInv, Shape, StatusKept
<1> DEFINE Target == Steps \ {"engine", "executing"}
<1>1. CASE \/ Begin(c) \/ BeginRead(c) \/ Acquire(c) \/ CountRuns(c)
           \/ Prepare(c) \/ AlreadyFrozen(c) \/ FreezeRefused(c) \/ FindRun(c)
           \/ Attach(c) \/ EngineAnswers(c) \/ Release(c) \/ ReadRow(c)
           \/ WorkThrows(c)
  <2>1. UNCHANGED <<attempts, claims, epc, status>> /\ pc[c] # "executing"
    BY <1>1 DEF Begin, BeginRead, Acquire, CountRuns, Prepare, AlreadyFrozen,
                FreezeRefused, FindRun, Attach, EngineAnswers, Release, ReadRow,
                WorkThrows, rows, engine, run
  <2>2. \E s \in Target : Goto(c, s)
    BY <1>1 DEF Begin, BeginRead, Acquire, CountRuns, Prepare, AlreadyFrozen,
                FreezeRefused, FindRun, Attach, EngineAnswers, Release, ReadRow,
                WorkThrows, Steps
  <2> QED
    BY <1>a, <2>1, <2>2, CallerMoves
<1>2. CASE \/ ExecutionInProgress(c) \/ ReleaseAndThrow(c) \/ AnswerFromRow(c)
           \/ AnswerFromLease(c)
  <2>1. UNCHANGED <<attempts, claims, epc, status>> /\ pc[c] # "executing"
    BY <1>2 DEF ExecutionInProgress, ReleaseAndThrow, AnswerFromRow,
                AnswerFromLease, rows, engine, run
  <2>2. Goto(c, "idle")
    BY <1>2 DEF ExecutionInProgress, ReleaseAndThrow, AnswerFromRow,
                AnswerFromLease, Answered
  <2> QED
    BY <1>a, <2>1, <2>2, CallerMoves DEF Steps
<1>3. CASE Commit(c)
  <2>1. /\ UNCHANGED <<attempts, claims, epc>> /\ pc[c] # "executing"
        /\ Goto(c, "find")
        /\ status' \in [Requests -> Engine!Statuses]
    BY <1>0, <1>3 DEF Commit, IInv, Shape, Engine!Statuses
  <2>2. Shape'
    BY <2>1 DEF IInv, Shape, Goto, Steps
  <2>3. EngineIsDriven'
    BY <2>1 DEF IInv, Shape, Goto, EngineIsDriven
  <2>4. \A r \in Requests : Waiting(r)' \subseteq Waiting(r)
    BY <2>1 DEF IInv, Shape, Goto, Waiting
  <2>5. Paid'
    BY <2>1, <2>4, FewerWait DEF IInv
  <2> QED
    BY <1>3, <2>2, <2>3, <2>5 DEF IInv
<1>4. CASE Spend(c)
  BY <1>a, <1>4, SpendKeeps DEF Spend, engine, run
<1>5. CASE StartEngine(c)
  <2>1. /\ UNCHANGED <<attempts, claims, status>>
        /\ pc[c] = "engine" /\ Goto(c, "executing") /\ epc[c] = "idle"
        /\ \E s \in Engine!Steps : epc' = [epc EXCEPT ![c] = s]
    BY <1>5 DEF StartEngine, rows, Engine!Preflight, Engine!run, Engine!Goto,
                Engine!Steps
  <2>2. Shape'
    BY <2>1 DEF IInv, Shape, Goto, Steps
  <2>3. EngineIsDriven'
    BY <2>1 DEF IInv, Shape, Goto, EngineIsDriven
  <2>4. \A r \in Requests : Waiting(r)' \subseteq Waiting(r)
    BY <2>1 DEF IInv, Shape, Goto, Waiting
  <2>5. Paid'
    BY <2>1, <2>4, FewerWait DEF IInv
  <2> QED
    BY <1>a, <2>1, <2>2, <2>3, <2>5 DEF IInv
<1>6. CASE Execute(c)
  BY <1>6, ProgressMoves, ExecutingKeeps DEF Execute, IInv
<1>7. CASE AuthorizationWithdrawn(c)
  BY <1>7, ThrowMoves, ExecutingKeeps DEF AuthorizationWithdrawn, IInv
<1>8. CASE StartedWriteFails(c)
  <2>1. Engine!Leave(c) /\ UNCHANGED status /\ pc[c] = "executing"
        /\ EngineGoesOn(c)
    BY <1>8 DEF StartedWriteFails, Engine!StartedWriteFails, Engine!run
  <2> QED
    BY <1>a, <2>1, LeaveMoves, ExecutingKeeps
<1>9. CASE FailIfBudgetExhausted(c)
  <2>1. /\ UNCHANGED <<attempts, claims, epc>> /\ pc[c] # "executing"
        /\ Goto(c, "release")
    BY <1>9 DEF FailIfBudgetExhausted, rows
  <2>2. StatusKept
    BY <1>0, <1>9, <1>a, FailKeeps DEF FailIfBudgetExhausted, run, IInv
  <2> QED
    BY <2>1, <2>2, CallerMoves DEF Steps
<1>10. CASE Die(c)
  <2>1. /\ UNCHANGED <<attempts, claims, status>>
        /\ Goto(c, "idle") /\ epc' = [epc EXCEPT ![c] = "idle"]
    BY <1>10 DEF Die, rows, run, Answered, Engine!Leave, Engine!Goto
  <2>2. Shape'
    BY <2>1 DEF IInv, Shape, Goto, Steps, Engine!Steps
  <2>3. EngineIsDriven'
    BY <2>1 DEF IInv, Shape, Goto, EngineIsDriven
  <2>4. \A r \in Requests : Waiting(r)' \subseteq Waiting(r)
    BY <2>1 DEF IInv, Shape, Goto, Waiting
  <2>5. Paid'
    BY <2>1, <2>4, FewerWait DEF IInv
  <2> QED
    BY <1>a, <2>1, <2>2, <2>3, <2>5 DEF IInv
<1> QED
  BY <1>1, <1>2, <1>3, <1>4, <1>5, <1>6, <1>7, <1>8, <1>9, <1>10 DEF Step

LEMMA NextHolds ==
  ASSUME VerificationAssumption, IInv, [Next]_vars
  PROVE  IInv'
<1>1. CASE RevokeShare \/ ReplacePolicy \/ Tick \/ UNCHANGED vars
  <2>1. UNCHANGED <<attempts, claims, pc, epc, status>>
    BY <1>1 DEF RevokeShare, ReplacePolicy, Tick, vars, rows, engine, run
  <2> QED
    BY <2>1 DEF IInv, Shape, EngineIsDriven, Paid, Waiting
<1>2. CASE \E c \in Callers :
             Begin(c) \/ BeginRead(c) \/ Step(c) \/ StartedWriteFails(c)
               \/ Die(c) \/ WorkThrows(c)
  BY <1>2, StepKeeps
<1> QED
  BY <1>1, <1>2 DEF Next

\* Every run has a place for the version it is frozen under.
RecordsVersions == DOMAIN frozenUnder = Requests

LEMMA VersionsRecorded == Spec => []RecordsVersions
<1>1. Init => RecordsVersions
  BY DEF Init, RecordsVersions
<1>2. RecordsVersions /\ [Next]_vars => RecordsVersions'
  <2> SUFFICES ASSUME RecordsVersions, [Next]_vars
               PROVE  DOMAIN frozenUnder' = Requests
    BY DEF RecordsVersions
  <2>1. CASE RevokeShare \/ ReplacePolicy \/ Tick \/ UNCHANGED vars
    BY <2>1 DEF RevokeShare, ReplacePolicy, Tick, vars, rows, RecordsVersions
  <2>2. ASSUME NEW c \in Callers,
               Begin(c) \/ BeginRead(c) \/ Step(c) \/ StartedWriteFails(c)
                 \/ Die(c) \/ WorkThrows(c)
        PROVE  DOMAIN frozenUnder' = Requests
    <3>1. CASE Commit(c)
      BY <3>1 DEF Commit, RecordsVersions
    <3>2. CASE Execute(c) \/ AuthorizationWithdrawn(c) \/ StartedWriteFails(c)
      BY <3>2 DEF Execute, AuthorizationWithdrawn, StartedWriteFails,
                  EngineGoesOn, rows, RecordsVersions
    <3>3. CASE \/ Begin(c) \/ BeginRead(c) \/ Die(c) \/ WorkThrows(c)
               \/ Acquire(c) \/ ExecutionInProgress(c) \/ CountRuns(c)
               \/ Prepare(c) \/ AlreadyFrozen(c) \/ FreezeRefused(c)
               \/ FindRun(c) \/ Attach(c) \/ Spend(c) \/ StartEngine(c)
               \/ EngineAnswers(c) \/ FailIfBudgetExhausted(c) \/ Release(c)
               \/ ReleaseAndThrow(c) \/ ReadRow(c) \/ AnswerFromRow(c)
               \/ AnswerFromLease(c)
      BY <3>3 DEF Begin, BeginRead, Die, WorkThrows, Acquire,
                  ExecutionInProgress, CountRuns, Prepare, AlreadyFrozen,
                  FreezeRefused, FindRun, Attach, Spend, StartEngine,
                  EngineAnswers, FailIfBudgetExhausted, Release,
                  ReleaseAndThrow, ReadRow, AnswerFromRow, AnswerFromLease,
                  rows, RecordsVersions
    <3> QED
      BY <2>2, <3>1, <3>2, <3>3 DEF Step
  <2> QED
    BY <2>1, <2>2 DEF Next
<1> QED
  BY <1>1, <1>2, PTL DEF Spec

\* The invariant holds in every behaviour.
THEOREM BudgetInvariant == Spec => []IInv
<1>1. Init => IInv
  BY VerificationAssumption, InitHolds
<1>2. IInv /\ [Next]_vars => IInv'
  BY VerificationAssumption, NextHolds
<1> QED
  BY <1>1, <1>2, PTL DEF Spec

\* A run is claimed at most as often as attempts were spent on it, and those
\* are at most the budget.
THEOREM BudgetHolds == Spec => []BudgetBoundsClaims
<1>1. IInv => BudgetBoundsClaims
  <2> SUFFICES ASSUME IInv, NEW r \in Requests
               PROVE  claims[r] <= attempts[r] /\ attempts[r] <= MaxAttempts
    BY DEF BudgetBoundsClaims
  <2>1. Cardinality(Waiting(r)) \in Nat
    BY VerificationAssumption, WaitingFinite
  <2> QED
    BY <2>1 DEF IInv, Shape, Paid
<1> QED
  BY <1>1, BudgetInvariant, PTL

\* A run comes to be only under the consent of the instant of its creation.
THEOREM ConsentHolds == Spec => FrozenUnderConsent
<1> DEFINE A == \A r \in Requests :
                  ~Consumed(r) /\ Consumed(r)' =>
                    ~revoked /\ enabled /\ frozenUnder'[r] = version
<1>1. IInv /\ RecordsVersions /\ [Next]_vars => [A]_vars
  <2> SUFFICES ASSUME IInv, RecordsVersions, Next, NEW r \in Requests,
                      ~Consumed(r), Consumed(r)'
               PROVE  ~revoked /\ enabled /\ frozenUnder'[r] = version
    BY DEF A
  <2>1. CASE RevokeShare \/ ReplacePolicy \/ Tick
    BY <2>1 DEF RevokeShare, ReplacePolicy, Tick, engine, run, Consumed
  <2>2. ASSUME NEW c \in Callers,
               Begin(c) \/ BeginRead(c) \/ Step(c) \/ StartedWriteFails(c)
                 \/ Die(c) \/ WorkThrows(c)
        PROVE  ~revoked /\ enabled /\ frozenUnder'[r] = version
    <3>1. CASE StatusKept
      BY <3>1 DEF StatusKept, Consumed
    <3>2. CASE Commit(c)
      <4>1. r = RequestOf[c]
        BY <3>2 DEF Commit, Consumed, IInv, Shape
      <4> QED
        BY <3>2, <4>1 DEF Commit, ConsentStands, Authorized, ShareValid,
                          RecordsVersions
    <3> QED
      BY VerificationAssumption, <2>2, <3>1, <3>2, StepKeeps
  <2> QED
    BY <2>1, <2>2 DEF Next
<1> QED
  BY <1>1, BudgetInvariant, VersionsRecorded, PTL DEF Spec, FrozenUnderConsent
-----------------------------------------------------------------------------
(* The lease of the link: who holds it holds it alone, as long as no live  *)
(* call outlives it, and what he counted is still so when he creates.      *)

Holding == UnderLease \ {"acquire"}

\* What is consumed was asked for by a caller; the callers are finitely many.
Asked == {RequestOf[c] : c \in Callers}

LeaseTypes ==
  /\ clock \in Nat
  /\ now \in [Callers -> Nat]
  /\ createdAt \in [Requests -> Nat]
  /\ lease \in [owner : Callers \cup {Gone, None}, run : Requests \cup {None}, expiresAt : Nat]
  /\ \A r \in Requests : Consumed(r) => r \in Asked

\* No live call outlives the lease it asks for or holds, and a call that works
\* is the owner of the lease of the link.
LeaseKept ==
  \A c \in Callers :
    /\ now[c] <= clock
    /\ pc[c] \in UnderLease => clock < now[c] + LeaseTtl
    /\ pc[c] \in Holding => lease.owner = c /\ lease.expiresAt = now[c] + LeaseTtl

\* A call that is to create a run counted fewer than the quota.
QuotaKept ==
  /\ QuotaBoundsRuns
  /\ \A c \in Callers :
       pc[c] \in {"prepare", "commit"} => Cardinality(Recent(now[c])) < RunQuota

LeaseInv == IInv /\ LeaseTypes /\ LeaseKept /\ QuotaKept

LEMMA AddsAtMostOne ==
  ASSUME NEW S, IsFiniteSet(S), NEW x
  PROVE  IsFiniteSet(S \cup {x}) /\ Cardinality(S \cup {x}) <= Cardinality(S) + 1
<1>1. Cardinality(S) \in Nat
  BY FS_CardinalityType
<1> QED
  BY <1>1, FS_AddElement

LEMMA RecentFinite ==
  ASSUME VerificationAssumption, LeaseTypes, NEW t
  PROVE  IsFiniteSet(Recent(t)) /\ Cardinality(Recent(t)) \in Nat
<1>1. IsFiniteSet(Asked)
  <2>1. RequestOf \in Surjection(Callers, Asked)
    BY DEF Asked, VerificationAssumption, Surjection
  <2> QED
    BY <2>1, FS_Surjection DEF VerificationAssumption
<1>2. Recent(t) \subseteq Asked
  BY DEF Recent, LeaseTypes
<1> QED
  BY <1>1, <1>2, FS_Subset, FS_CardinalityType

\* Later, fewer runs are recent.
LEMMA RecentShrinks ==
  ASSUME VerificationAssumption, LeaseTypes, NEW t \in Nat, NEW u \in Nat, t <= u
  PROVE  Recent(u) \subseteq Recent(t) /\ Cardinality(Recent(u)) <= Cardinality(Recent(t))
<1>1. Recent(u) \subseteq Recent(t)
  BY DEF Recent, LeaseTypes, VerificationAssumption
<1> QED
  BY <1>1, RecentFinite, FS_Subset

\* Nothing comes to be consumed and no date is written: the counts can only fall.
LEMMA CountsFall ==
  ASSUME VerificationAssumption, LeaseTypes, StatusKept, UNCHANGED createdAt, NEW t \in Nat
  PROVE  Recent(t)' \subseteq Recent(t) /\ Cardinality(Recent(t)') <= Cardinality(Recent(t))
<1>1. Recent(t)' \subseteq Recent(t)
  BY DEF Recent, LeaseTypes, StatusKept, Consumed
<1> QED
  BY <1>1, RecentFinite, FS_Subset

LEMMA QuotaFalls ==
  ASSUME VerificationAssumption, LeaseInv, IInv', LeaseTypes', StatusKept,
         UNCHANGED <<clock, createdAt>>,
         \A c \in Callers :
           pc'[c] \in {"prepare", "commit"} =>
             now'[c] = now[c] /\ Cardinality(Recent(now[c])) < RunQuota
  PROVE  QuotaKept'
<1>1. QuotaBoundsRuns'
  <2>1. Cardinality(Recent(clock)) <= RunQuota /\ clock \in Nat
    BY DEF LeaseInv, QuotaKept, QuotaBoundsRuns, LeaseTypes
  <2>2. Cardinality(Recent(clock)') <= Cardinality(Recent(clock))
    BY <2>1, CountsFall DEF LeaseInv
  <2>3. Cardinality(Recent(clock)) \in Nat /\ Cardinality(Recent(clock)') \in Nat
    BY RecentFinite, <2>1, CountsFall, FS_Subset, FS_CardinalityType DEF LeaseInv
  <2> QED
    BY <2>1, <2>2, <2>3 DEF QuotaBoundsRuns, VerificationAssumption
<1>2. ASSUME NEW c \in Callers, pc'[c] \in {"prepare", "commit"}
      PROVE  Cardinality(Recent(now[c])') < RunQuota
  <2>1. now[c] \in Nat /\ now'[c] = now[c] /\ Cardinality(Recent(now[c])) < RunQuota
    BY <1>2 DEF LeaseInv, LeaseTypes
  <2> PICK t \in Nat : t = now[c] /\ t = now'[c]
    BY <2>1
  <2>2. Cardinality(Recent(t)') <= Cardinality(Recent(t))
    BY CountsFall DEF LeaseInv
  <2>3. IsFiniteSet(Recent(t)) /\ IsFiniteSet(Recent(t)')
    BY RecentFinite, CountsFall, FS_Subset DEF LeaseInv
  <2>4. Cardinality(Recent(t)) \in Nat /\ Cardinality(Recent(t)') \in Nat
    BY <2>3, FS_CardinalityType
  <2>5. Recent(now[c])' = Recent(t)'
    BY DEF Recent
  <2> QED
    BY <2>1, <2>2, <2>4, <2>5 DEF VerificationAssumption
<1> QED
  BY <1>1, <1>2 DEF QuotaKept

\* A call that works is the only one.
LEMMA OneHolder ==
  ASSUME VerificationAssumption, LeaseInv, NEW c \in Callers, NEW d \in Callers,
         pc[c] \in Holding, pc[d] \in Holding
  PROVE  c = d
  BY DEF LeaseInv, LeaseKept

\* A call goes on under its lease.
LEMMA WorkGoesOn ==
  ASSUME VerificationAssumption, LeaseInv, IInv', StatusKept, NEW c \in Callers,
         pc[c] \in Holding, NEW s \in Holding, Goto(c, s),
         s = "commit" => pc[c] = "prepare",
         s = "prepare" => Cardinality(Recent(now[c])) < RunQuota,
         UNCHANGED <<clock, now, createdAt>>,
         lease' = lease \/ lease' = [lease EXCEPT !.run = RequestOf[c]]
  PROVE  LeaseInv'
<1>1. pc \in [Callers -> Steps] /\ RequestOf[c] \in Requests
  BY DEF LeaseInv, IInv, Shape, VerificationAssumption
<1>2. lease' \in [owner : Callers \cup {Gone, None}, run : Requests \cup {None}, expiresAt : Nat]
      /\ lease'.owner = lease.owner /\ lease'.expiresAt = lease.expiresAt
  BY <1>1 DEF LeaseInv, LeaseTypes
<1>3. LeaseTypes'
  BY <1>2 DEF LeaseInv, LeaseTypes, StatusKept, Consumed
<1>4. LeaseKept'
  BY <1>1, <1>2 DEF LeaseInv, LeaseKept, Goto, Holding
<1>5. QuotaKept'
  BY <1>1, <1>3, QuotaFalls DEF LeaseInv, QuotaKept, Goto
<1> QED
  BY <1>3, <1>4, <1>5 DEF LeaseInv

\* The time a call has read.
Knows(c, t) == now' = [now EXCEPT ![c] = t]

\* A call is outside its lease afterwards, and takes it from nobody else.
LEMMA WorkEnds ==
  ASSUME VerificationAssumption, LeaseInv, IInv', StatusKept, NEW c \in Callers,
         NEW s \in Steps \ UnderLease, Goto(c, s),
         NEW t \in Nat, t <= clock, Knows(c, t),
         UNCHANGED <<clock, createdAt>>,
         lease' \in [owner : Callers \cup {Gone, None}, run : Requests \cup {None},
                     expiresAt : Nat],
         lease' = lease \/ lease.owner = c
  PROVE  LeaseInv'
<1>1. pc \in [Callers -> Steps]
  BY DEF LeaseInv, IInv, Shape
<1>3. LeaseTypes'
  BY DEF LeaseInv, LeaseTypes, StatusKept, Consumed, Knows
<1>4. LeaseKept'
  BY <1>1 DEF LeaseInv, LeaseTypes, LeaseKept, Goto, Holding, Knows
<1>5. QuotaKept'
  <2>1. \A d \in Callers :
          pc'[d] \in {"prepare", "commit"} => d # c /\ pc[d] = pc'[d] /\ now'[d] = now[d]
    BY <1>1 DEF LeaseInv, LeaseTypes, Goto, UnderLease, Knows
  <2> QED
    BY <1>3, <2>1, QuotaFalls DEF LeaseInv, QuotaKept
<1> QED
  BY <1>3, <1>4, <1>5 DEF LeaseInv

\* Released leaves a lease.
LEMMA ReleasedIsLease ==
  ASSUME VerificationAssumption, LeaseTypes, NEW c \in Callers
  PROVE  /\ Released(c) \in [owner : Callers \cup {Gone, None}, run : Requests \cup {None},
                             expiresAt : Nat]
         /\ Released(c) = lease \/ lease.owner = c
  BY DEF LeaseTypes, Released, NoLease

LEMMA BeginLease ==
  ASSUME VerificationAssumption, LeaseInv, IInv', NEW c \in Callers, Begin(c)
  PROVE  LeaseInv'
<1>1. /\ pc \in [Callers -> Steps] /\ clock \in Nat
      /\ now' = [now EXCEPT ![c] = clock] /\ StatusKept
      /\ UNCHANGED <<clock, createdAt, lease, status>>
  BY DEF LeaseInv, LeaseTypes, IInv, Shape, Begin, rows, engine, run, StatusKept
<1>2. CASE Goto(c, "read")
  <2>1. PICK t \in Nat : t <= clock /\ Knows(c, t)
    <3>1. Knows(c, clock)
      BY <1>1 DEF Knows
    <3> QED
      BY <1>1, <3>1
  <2>2. lease' = lease /\ "read" \in Steps \ UnderLease
    BY <1>1 DEF Steps, UnderLease
  <2> QED
    BY <1>1, <1>2, <2>1, <2>2, WorkEnds DEF LeaseInv, LeaseTypes
<1>3. CASE Goto(c, "acquire")
  <2>1. LeaseTypes'
    BY <1>1 DEF LeaseInv, LeaseTypes, Consumed
  <2>2. LeaseKept'
    BY <1>1, <1>3 DEF LeaseInv, LeaseTypes, LeaseKept, Goto, Holding, UnderLease,
                      VerificationAssumption
  <2>3. \A d \in Callers :
          pc'[d] \in {"prepare", "commit"} => d # c /\ pc[d] = pc'[d] /\ now'[d] = now[d]
    BY <1>1, <1>3 DEF LeaseInv, LeaseTypes, Goto
  <2>4. QuotaKept'
    BY <1>1, <2>1, <2>3, QuotaFalls DEF LeaseInv, QuotaKept
  <2> QED
    BY <2>1, <2>2, <2>4 DEF LeaseInv
<1> QED
  BY <1>2, <1>3 DEF Begin

\* The lease is free only when no call works under it.
LEMMA AcquireLease ==
  ASSUME VerificationAssumption, LeaseInv, IInv', NEW c \in Callers, Acquire(c)
  PROVE  LeaseInv'
<1>1. /\ pc \in [Callers -> Steps] /\ clock \in Nat /\ StatusKept
      /\ UNCHANGED <<clock, now, createdAt, status>>
      /\ pc[c] = "acquire"
      /\ \E s \in {"attach", "count"} : Goto(c, s)
      /\ lease' = [owner |-> c, run |-> None, expiresAt |-> now[c] + LeaseTtl]
  BY DEF LeaseInv, LeaseTypes, IInv, Shape, Acquire, rows, locals, engine, run, StatusKept
<1>2. \A d \in Callers : pc[d] \notin Holding
  BY DEF LeaseInv, LeaseTypes, LeaseKept, Acquire, LeaseFree, Holding, VerificationAssumption
<1>3. LeaseTypes'
  BY <1>1 DEF LeaseInv, LeaseTypes, Consumed, VerificationAssumption
<1>4. LeaseKept'
  BY <1>1, <1>2 DEF LeaseInv, LeaseTypes, LeaseKept, Goto, Holding, UnderLease
<1>5. \A d \in Callers : pc'[d] \notin {"prepare", "commit"}
  BY <1>1, <1>2 DEF Goto, Holding, UnderLease
<1>6. QuotaKept'
  BY <1>1, <1>3, <1>5, QuotaFalls
<1> QED
  BY <1>3, <1>4, <1>6 DEF LeaseInv

\* One run more, where fewer than the quota were counted, and by nobody else.
LEMMA CommitLease ==
  ASSUME VerificationAssumption, LeaseInv, IInv', NEW c \in Callers, Commit(c)
  PROVE  LeaseInv'
<1> DEFINE r == RequestOf[c]
<1>1. /\ pc \in [Callers -> Steps] /\ clock \in Nat /\ now[c] \in Nat /\ now[c] <= clock
      /\ UNCHANGED <<clock, now, lease>>
      /\ pc[c] = "commit" /\ Goto(c, "find")
      /\ r \in Requests /\ r \in Asked
      /\ createdAt' = [createdAt EXCEPT ![r] = clock]
      /\ status' = [status EXCEPT ![r] = "pending"]
      /\ status \in [Requests -> Engine!Statuses] /\ createdAt \in [Requests -> Nat]
  BY DEF LeaseInv, LeaseTypes, LeaseKept, IInv, Shape, Commit, locals, Asked, VerificationAssumption
<1>2. \A d \in Callers \ {c} : pc[d] \notin Holding
  BY <1>1, OneHolder DEF Holding, UnderLease
<1>3. LeaseTypes'
  <2>1. createdAt' \in [Requests -> Nat]
    BY <1>1
  <2>2. ASSUME NEW q \in Requests, Consumed(q)' PROVE q \in Asked
    BY <1>1, <2>2 DEF Consumed, LeaseInv, LeaseTypes
  <2> QED
    BY <1>1, <2>1, <2>2 DEF LeaseInv, LeaseTypes
<1>4. LeaseKept'
  BY <1>1, <1>2 DEF LeaseInv, LeaseTypes, LeaseKept, Goto, Holding, UnderLease
<1>5. QuotaBoundsRuns'
  <2>1. PICK t \in Nat : t = now[c] /\ t <= clock
    BY <1>1
  <2>2. PICK u \in Nat : u = clock
    BY <1>1
  <2>3. Cardinality(Recent(t)) < RunQuota /\ IsFiniteSet(Recent(u))
        /\ Cardinality(Recent(u)) <= Cardinality(Recent(t))
    BY <1>1, <2>1, <2>2, RecentFinite, RecentShrinks DEF LeaseInv, QuotaKept
  <2>4. Cardinality(Recent(t)) \in Nat /\ Cardinality(Recent(u)) \in Nat
    BY RecentFinite DEF LeaseInv
  <2>5. Recent(u)' \subseteq Recent(u) \cup {r}
    BY <1>1 DEF Recent, Consumed
  <2>6. IsFiniteSet(Recent(u) \cup {r}) /\ Cardinality(Recent(u) \cup {r}) <= Cardinality(Recent(u)) + 1
    BY <2>3, <2>4, AddsAtMostOne
  <2>7. Cardinality(Recent(u)') <= Cardinality(Recent(u) \cup {r})
    BY <2>5, <2>6, FS_Subset
  <2>8. Cardinality(Recent(u)') \in Nat /\ Cardinality(Recent(u) \cup {r}) \in Nat
    BY <2>5, <2>6, FS_Subset, FS_CardinalityType
  <2>9. Cardinality(Recent(u)') <= RunQuota
    BY <2>3, <2>4, <2>6, <2>7, <2>8 DEF VerificationAssumption
  <2>10. Recent(clock)' = Recent(u)'
    BY <1>1, <2>2 DEF Recent
  <2> QED
    BY <2>9, <2>10 DEF QuotaBoundsRuns
<1>6. \A d \in Callers : pc'[d] \notin {"prepare", "commit"}
  BY <1>1, <1>2 DEF Goto, Holding, UnderLease
<1> QED
  BY <1>3, <1>4, <1>5, <1>6 DEF LeaseInv, QuotaKept

\* A step of a call that runs the engine leaves the lease and the rows alone.
LEMMA ExecuteLease ==
  ASSUME VerificationAssumption, LeaseInv, IInv', StatusKept, NEW c \in Callers,
         pc[c] = "executing", EngineGoesOn(c)
  PROVE  LeaseInv'
<1>1. PICK s \in {"budget", "executing"} : Goto(c, s)
  BY DEF EngineGoesOn
<1>2. s \in Holding /\ s # "commit" /\ s # "prepare" /\ pc[c] \in Holding
  BY DEF Holding, UnderLease
<1>3. UNCHANGED <<clock, now, createdAt, lease>>
  BY DEF EngineGoesOn, rows, locals
<1> QED
  BY <1>1, <1>2, <1>3, WorkGoesOn

\* Every step of a call keeps the lease.
LEMMA CallLease ==
  ASSUME VerificationAssumption, LeaseInv, IInv', NEW c \in Callers,
         Begin(c) \/ BeginRead(c) \/ Step(c) \/ StartedWriteFails(c)
           \/ Die(c) \/ WorkThrows(c)
  PROVE  LeaseInv'
<1>0. /\ pc \in [Callers -> Steps] /\ clock \in Nat /\ now \in [Callers -> Nat]
      /\ now[c] \in Nat /\ now[c] <= clock
      /\ Commit(c) \/ StatusKept
  BY StepKeeps DEF LeaseInv, LeaseTypes, LeaseKept, IInv, Shape
<1>1. CASE Begin(c)
  BY <1>1, BeginLease
<1>2. CASE Acquire(c)
  BY <1>2, AcquireLease
<1>3. CASE Commit(c)
  BY <1>3, CommitLease
<1>4. CASE CountRuns(c)
  <2>1. /\ pc[c] \in Holding /\ StatusKept
        /\ UNCHANGED <<clock, now, createdAt, lease>>
    BY <1>0, <1>4 DEF CountRuns, rows, locals, Holding, UnderLease, Commit
  <2>2. CASE WithinQuota(now[c])
    <3>1. Goto(c, "prepare") /\ "prepare" \in Holding /\ Cardinality(Recent(now[c])) < RunQuota
      BY <1>4, <2>2 DEF CountRuns, WithinQuota, Holding, UnderLease
    <3> QED
      BY <2>1, <3>1, WorkGoesOn
  <2>3. CASE ~WithinQuota(now[c])
    <3>1. Goto(c, "abort") /\ "abort" \in Holding
      BY <1>4, <2>3 DEF CountRuns, Holding, UnderLease
    <3> QED
      BY <2>1, <3>1, WorkGoesOn
  <2> QED
    BY <2>2, <2>3
<1>5. CASE \/ Prepare(c) \/ AlreadyFrozen(c) \/ FreezeRefused(c) \/ FindRun(c) \/ Attach(c)
           \/ Spend(c) \/ StartEngine(c) \/ EngineAnswers(c) \/ FailIfBudgetExhausted(c)
           \/ WorkThrows(c)
  <2>1. /\ pc[c] \in Holding
        /\ UNCHANGED <<clock, now, createdAt>>
        /\ lease' = lease \/ lease' = [lease EXCEPT !.run = RequestOf[c]]
    BY <1>5 DEF Prepare, AlreadyFrozen, FreezeRefused, FindRun, Attach, Spend, StartEngine,
                EngineAnswers, FailIfBudgetExhausted, WorkThrows, rows, locals, Holding, UnderLease
  <2>2. PICK s \in Holding : Goto(c, s) /\ s # "prepare" /\ (s = "commit" => pc[c] = "prepare")
    BY <1>5 DEF Prepare, AlreadyFrozen, FreezeRefused, FindRun, Attach, Spend, StartEngine,
                EngineAnswers, FailIfBudgetExhausted, WorkThrows, Holding, UnderLease
  <2>3. StatusKept
    BY <1>0, <1>5 DEF Prepare, AlreadyFrozen, FreezeRefused, FindRun, Attach, Spend, StartEngine,
                EngineAnswers, FailIfBudgetExhausted, WorkThrows, Commit, engine, run, StatusKept,
                LeaseInv, IInv, Shape
  <2> QED
    BY <2>1, <2>2, <2>3, WorkGoesOn
<1>6. CASE Execute(c) \/ AuthorizationWithdrawn(c) \/ StartedWriteFails(c)
  <2>1. pc[c] = "executing" /\ EngineGoesOn(c)
    BY <1>6 DEF Execute, AuthorizationWithdrawn, StartedWriteFails
  <2>2. StatusKept
    BY <1>0, <2>1 DEF Commit
  <2> QED
    BY <2>1, <2>2, ExecuteLease
<1>7. CASE \/ ExecutionInProgress(c) \/ Release(c) \/ ReleaseAndThrow(c) \/ BeginRead(c)
           \/ ReadRow(c) \/ AnswerFromRow(c) \/ AnswerFromLease(c) \/ Die(c)
  <2>1. UNCHANGED <<clock, createdAt, status>>
    BY <1>7 DEF ExecutionInProgress, Release, ReleaseAndThrow, BeginRead, ReadRow, AnswerFromRow,
                AnswerFromLease, Die, rows, engine, run
  <2>2. StatusKept
    BY <2>1 DEF StatusKept, LeaseInv, IInv, Shape
  <2>3. PICK s \in Steps \ UnderLease : Goto(c, s)
    BY <1>7 DEF ExecutionInProgress, Release, ReleaseAndThrow, BeginRead, ReadRow, AnswerFromRow,
                AnswerFromLease, Die, Answered, Steps, UnderLease
  <2>4. PICK t \in Nat : t <= clock /\ Knows(c, t)
    <3>1. Knows(c, 0) \/ Knows(c, clock) \/ Knows(c, now[c])
      BY <1>0, <1>7 DEF ExecutionInProgress, Release, ReleaseAndThrow, BeginRead, ReadRow,
                AnswerFromRow, AnswerFromLease, Die, Answered, Knows, locals
    <3> QED
      BY <1>0, <3>1
  <2>5. /\ lease' \in [owner : Callers \cup {Gone, None}, run : Requests \cup {None},
                       expiresAt : Nat]
        /\ lease' = lease \/ lease.owner = c
    <3>1. CASE Release(c) \/ ReleaseAndThrow(c)
      BY <3>1, ReleasedIsLease DEF Release, ReleaseAndThrow, LeaseInv
    <3>2. CASE Die(c)
      BY <3>2 DEF Die, LeaseInv, LeaseTypes
    <3>3. CASE UNCHANGED lease
      BY <3>3 DEF LeaseInv, LeaseTypes
    <3> QED
      BY <1>7, <3>1, <3>2, <3>3 DEF ExecutionInProgress, BeginRead, ReadRow, AnswerFromRow,
                AnswerFromLease
  <2> QED
    BY <2>1, <2>2, <2>3, <2>4, <2>5, WorkEnds
<1> QED
  BY <1>1, <1>2, <1>3, <1>4, <1>5, <1>6, <1>7 DEF Step

\* Time passes under the leases of live calls, and runs grow old.
LEMMA TickLease ==
  ASSUME VerificationAssumption, ~Slow, LeaseInv, IInv', Tick
  PROVE  LeaseInv'
<1>1. /\ UNCHANGED <<now, lease, createdAt, status, pc>>
      /\ clock \in Nat /\ clock' = clock + 1
      /\ \A c \in Callers : pc[c] \in UnderLease => clock + 1 < now[c] + LeaseTtl
  BY DEF LeaseInv, LeaseTypes, Tick, rows, locals, engine, run
<1>2. LeaseTypes'
  BY <1>1 DEF LeaseInv, LeaseTypes, Consumed
<1>3. LeaseKept'
  BY <1>1 DEF LeaseInv, LeaseTypes, LeaseKept
<1>4. \A t : Recent(t)' = Recent(t)
  BY <1>1 DEF Recent, Consumed
<1>5. QuotaBoundsRuns'
  <2>1. PICK t \in Nat, u \in Nat : t = clock /\ u = t + 1
    BY <1>1
  <2>2. Cardinality(Recent(u)) <= Cardinality(Recent(t)) /\ Cardinality(Recent(t)) <= RunQuota
    BY <2>1, RecentShrinks DEF LeaseInv, QuotaKept, QuotaBoundsRuns
  <2>3. Cardinality(Recent(t)) \in Nat /\ Cardinality(Recent(u)) \in Nat
    BY RecentFinite DEF LeaseInv
  <2>4. Recent(clock)' = Recent(u)
    BY <1>1, <1>4, <2>1 DEF Recent
  <2> QED
    BY <2>2, <2>3, <2>4 DEF QuotaBoundsRuns, VerificationAssumption
<1>6. QuotaKept'
  BY <1>1, <1>4, <1>5 DEF LeaseInv, QuotaKept, Recent
<1> QED
  BY <1>2, <1>3, <1>6 DEF LeaseInv

LEMMA LeaseInitHolds ==
  ASSUME VerificationAssumption, Init
  PROVE  LeaseInv
<1>1. \A t : Recent(t) = {}
  BY DEF Init, Recent, Consumed, Engine!Init
<1>2. QuotaKept
  BY <1>1, FS_EmptySet DEF Init, QuotaKept, QuotaBoundsRuns, VerificationAssumption
<1>3. LeaseTypes /\ LeaseKept
  BY DEF Init, LeaseTypes, LeaseKept, NoLease, Consumed, Engine!Init, VerificationAssumption,
         UnderLease, Holding
<1> QED
  BY <1>2, <1>3, InitHolds DEF LeaseInv

LEMMA LeaseNextHolds ==
  ASSUME VerificationAssumption, ~Slow, LeaseInv, [Next]_vars
  PROVE  LeaseInv'
<1>1. IInv'
  BY NextHolds DEF LeaseInv
<1>2. CASE Tick
  BY <1>1, <1>2, TickLease
<1>3. CASE RevokeShare \/ ReplacePolicy \/ UNCHANGED vars
  <2>1. UNCHANGED <<clock, now, lease, createdAt, status, pc>>
    BY <1>3 DEF RevokeShare, ReplacePolicy, vars, rows, locals, engine, run
  <2> QED
    BY <1>1, <2>1 DEF LeaseInv, LeaseTypes, LeaseKept, QuotaKept, QuotaBoundsRuns, Recent, Consumed
<1>4. CASE \E c \in Callers :
             Begin(c) \/ BeginRead(c) \/ Step(c) \/ StartedWriteFails(c)
               \/ Die(c) \/ WorkThrows(c)
  BY <1>1, <1>4, CallLease
<1> QED
  BY <1>2, <1>3, <1>4 DEF Next

\* As long as no live call outlives its lease, a call that works owns the lease
\* of the link, and what it counted stands when it creates.
THEOREM LeaseInvariant ==
  ASSUME ~Slow
  PROVE  Spec => []LeaseInv
<1>1. Init => LeaseInv
  BY VerificationAssumption, LeaseInitHolds
<1>2. LeaseInv /\ [Next]_vars => LeaseInv'
  BY VerificationAssumption, LeaseNextHolds
<1> QED
  BY <1>1, <1>2, PTL DEF Spec

\* One execution works on the runs of a link, whatever the requests.
THEOREM OneExecutionHolds ==
  ASSUME ~Slow
  PROVE  Spec => []OneExecutionPerLink
<1>1. LeaseInv => OneExecutionPerLink
  <2> SUFFICES ASSUME LeaseInv, NEW c \in Callers, NEW d \in Callers,
                      epc[c] \in Engine!Owning, epc[d] \in Engine!Owning
               PROVE  c = d
    BY DEF OneExecutionPerLink
  <2>1. pc[c] = "executing" /\ pc[d] = "executing"
    BY DEF LeaseInv, IInv, EngineIsDriven, Engine!Owning
  <2> QED
    BY <2>1, OneHolder, VerificationAssumption DEF Holding, UnderLease
<1> QED
  BY <1>1, LeaseInvariant, PTL

\* The runs created in any window are at most the quota of the link, although
\* counting them and creating one are two transactions.
THEOREM QuotaOfRunsHolds ==
  ASSUME ~Slow
  PROVE  Spec => []QuotaBoundsRuns
<1>1. LeaseInv => QuotaBoundsRuns
  BY DEF LeaseInv, QuotaKept
<1> QED
  BY <1>1, LeaseInvariant, PTL
-----------------------------------------------------------------------------
(* PART 2.  What an answer about a credential rests on.                    *)

Authenticities == {"INVALID", "INDETERMINATE", "VERIFIED"}
Evidences ==
  {"REGISTERED", "REVOKED_ON_CHAIN", "NOT_FOUND", "UNAVAILABLE", "NOT_APPLICABLE_MOCK",
   "REGISTRANT_UNEXPECTED", "PENDING"}
Headlines ==
  {"INVALID", "REVOKED", "INDETERMINATE", "VERIFIED", "VERIFIED_WITH_LIMITED_EVIDENCE"}
Marks == {"revoked", "told", "compromised"}
Records == {"none", "mock", "pending", "registered", "revoked"}
KeyStatuses == {"absent", "active", "retired", "compromised"}

Tasks ==
  [at : {"idle", "document", "evidence", "answered"}, status : {"draft", "issued", "revoked"},
   schema : {"v1", "v2", "v3"}, method : 0..MaxKeys, defects : SUBSET Defects,
   record : Records, authenticity : Authenticities \cup {NoAnswer},
   evidence : Evidences \cup {NoAnswer}, headline : Headlines \cup {NoAnswer},
   began : SUBSET Marks]

WorldTypes ==
  /\ credentialStatus \in {"draft", "issued", "revoked"} /\ schema \in {"v1", "v2", "v3"}
  /\ signedBy \in 0..MaxKeys /\ current \in 1..MaxKeys /\ defects \subseteq Defects
  /\ record \in Records
  /\ registrant \in {"nobody", "issuer", "stranger"} /\ entryRevoked \in BOOLEAN
  /\ keys \in [1..MaxKeys -> KeyStatuses]
  /\ told \in BOOLEAN

\* The issuer revoked the entry of the hash.
RevokedByIssuer == registrant = "issuer" /\ entryRevoked

\* Versions that were not reached are absent, so a mark is never written over;
\* what is signed names a version that was; a row that says revoked, and
\* whoever said it, follow the chain.
WorldInv ==
  /\ WorldTypes
  /\ \A v \in 1..MaxKeys : keys[v] = "absent" <=> v > current
  /\ signedBy # 0 => signedBy <= current
  /\ credentialStatus # "draft" /\ schema = "v2" => signedBy # 0
  /\ credentialStatus = "revoked" \/ told => RevokedByIssuer

\* The row of the task was one of the credential, and what was settled when the
\* task began is settled.
RowKnows(x) ==
  /\ credentialStatus # "draft"
  /\ x.schema = schema /\ x.method = signedBy
  /\ x.status = "revoked" => credentialStatus = "revoked"
  /\ "revoked" \in x.began => x.status = "revoked"
  /\ "told" \in x.began => told
  /\ "compromised" \in x.began => CompromisedNow

Sound(x) == x.schema = "v2" /\ x.defects \cap ArtifactDefects = {}

\* What an authenticity is worth.
AuthenticityKnows(x) ==
  /\ x.authenticity = "INVALID" => x.defects \cap ArtifactDefects # {} \/ CompromisedNow
  /\ x.authenticity = "VERIFIED" => Sound(x) /\ "compromised" \notin x.began

\* What the last reading answered.
EvidenceKnows(x) ==
  /\ x.headline = Headline(x.authenticity, StatusOf(x, x.evidence), x.evidence)
  /\ x.evidence \in Evidences
  /\ x.evidence = "REVOKED_ON_CHAIN" => RevokedByIssuer
  /\ x.evidence = "REGISTERED" =>
       registrant = "issuer" /\ x.record \notin {"none", "mock"} /\ "told" \notin x.began

TaskInv(x) ==
  /\ x \in Tasks
  /\ x.at # "idle" => RowKnows(x)
  /\ x.at = "document" => x.schema = "v2" /\ x.defects \cap (ArtifactDefects \ {"signature"}) = {}
  /\ x.at \in {"evidence", "answered"} => x.authenticity \in Authenticities /\ AuthenticityKnows(x)
  /\ x.at = "answered" => EvidenceKnows(x)

AnswerInv ==
  /\ WorldInv
  /\ task \in [Readers -> Tasks]
  /\ \A t \in Readers : TaskInv(task[t])

-----------------------------------------------------------------------------
(* The checks of the row.                                                  *)

LEMMA ChecksAreDefects ==
  /\ Len(Checks) = 9
  /\ \A n \in 1..9 : Checks[n] \in ArtifactDefects \ {"signature"} /\ Checks[n] # "none"
  /\ \A d \in ArtifactDefects \ {"signature"} : \E n \in 1..9 : Checks[n] = d
  <1>1. /\ Len(Checks) = 9
        /\ Checks[1] = "canonicalization" /\ Checks[2] = "no proof" /\ Checks[3] = "contract"
        /\ Checks[4] = "proof value" /\ Checks[5] = "unreproducible" /\ Checks[6] = "hash"
        /\ Checks[7] = "content" /\ Checks[8] = "method" /\ Checks[9] = "foreign did"
    BY DEF Checks
  <1>2. ArtifactDefects \ {"signature"} =
          {"canonicalization", "no proof", "contract", "proof value", "unreproducible", "hash",
           "content", "method", "foreign did"}
    BY DEF ArtifactDefects
  <1>3. ASSUME NEW n \in 1..9
        PROVE  Checks[n] \in ArtifactDefects \ {"signature"} /\ Checks[n] # "none"
    <2>1. n \in {1, 2, 3, 4, 5, 6, 7, 8, 9}
      OBVIOUS
    <2> QED
      BY <1>1, <1>2, <2>1
  <1>4. \A d \in ArtifactDefects \ {"signature"} : \E n \in 1..9 : Checks[n] = d
    <2> SUFFICES ASSUME NEW d \in ArtifactDefects \ {"signature"},
                        \A n \in 1..9 : Checks[n] # d
                 PROVE  FALSE
      OBVIOUS
    <2>1. /\ Checks[1] # d /\ Checks[2] # d /\ Checks[3] # d /\ Checks[4] # d /\ Checks[5] # d
          /\ Checks[6] # d /\ Checks[7] # d /\ Checks[8] # d /\ Checks[9] # d
      OBVIOUS
    <2> QED
      BY <1>1, <1>2, <2>1
  <1> QED
    BY <1>1, <1>3, <1>4

\* A row that fails a check has a first one, and no other row has.
LEMMA FailureIsDefect ==
  ASSUME NEW x
  PROVE  FirstFailure(x) # "none" <=> x.defects \cap (ArtifactDefects \ {"signature"}) # {}
  <1> DEFINE fails == {n \in 1..Len(Checks) : Checks[n] \in x.defects}
  <1>1. fails # {} <=> x.defects \cap (ArtifactDefects \ {"signature"}) # {}
    BY ChecksAreDefects
  <1>2. CASE fails = {}
    BY <1>1, <1>2 DEF FirstFailure
  <1>3. CASE fails # {}
    <2>1. fails \subseteq 1..9
      BY ChecksAreDefects
    <2>2. \E n \in fails : \A m \in fails : n <= m
      BY <1>3, <2>1
    <2>3. (CHOOSE n \in fails : \A m \in fails : n <= m) \in 1..9
      BY <2>1, <2>2
    <2>4. FirstFailure(x) = Checks[CHOOSE n \in fails : \A m \in fails : n <= m]
      BY <1>3 DEF FirstFailure
    <2> QED
      BY <1>1, <1>3, <2>3, <2>4, ChecksAreDefects
  <1> QED
    BY <1>2, <1>3

-----------------------------------------------------------------------------
(* Steps of the world: what a task knows stays so.                         *)

\* What moves without a task: rows and the chain go forward, marks stay.
Forward ==
  /\ UNCHANGED <<schema, task>>
  /\ credentialStatus # "draft" => credentialStatus' # "draft" /\ signedBy' = signedBy
  /\ credentialStatus = "revoked" => credentialStatus' = "revoked"
  /\ registrant = "issuer" => registrant' = "issuer"
  /\ RevokedByIssuer => RevokedByIssuer'
  /\ told' = told
  /\ \A v \in 1..MaxKeys : keys[v] = "compromised" => keys'[v] = "compromised"

LEMMA ForwardStep ==
  ASSUME AnswerInv, Forward, WorldInv'
  PROVE  AnswerInv'
  <1>1. ASSUME NEW x, TaskInv(x) PROVE TaskInv(x)'
    <2>1. credentialStatus # "draft" /\ CompromisedNow => CompromisedNow'
      BY DEF Forward, CompromisedNow, AnswerInv, WorldInv, WorldTypes
    <2>2. RowKnows(x) => RowKnows(x)'
      BY <2>1 DEF RowKnows, Forward
    <2>3. RowKnows(x) /\ AuthenticityKnows(x) => AuthenticityKnows(x)'
      BY <2>1 DEF RowKnows, AuthenticityKnows, Sound
    <2>4. EvidenceKnows(x) => EvidenceKnows(x)'
      BY DEF EvidenceKnows, Forward, Headline, StatusOf
    <2> QED
      BY <1>1, <2>2, <2>3, <2>4 DEF TaskInv
  <1>2. task' = task /\ task \in [Readers -> Tasks] /\ \A t \in Readers : TaskInv(task[t])
    BY DEF AnswerInv, Forward
  <1>3. \A t \in Readers : TaskInv(task[t])'
    BY <1>1, <1>2
  <1> QED
    BY <1>2, <1>3 DEF AnswerInv

LEMMA SignForward ==
  ASSUME AnswerInv, credentialStatus = "draft", Sign, credentialStatus' = "issued",
         record' \in Records, UNCHANGED <<schema, defects, chain, target, identity, told, task>>
  PROVE  AnswerInv'
  <1>1. WorldInv
    BY DEF AnswerInv
  <1>2. /\ UNCHANGED <<schema, defects, registrant, entryRevoked, keys, current, told, task>>
        /\ signedBy' = IF schema = "v1" THEN 0 ELSE current
    BY DEF Sign, chain, identity
  <1>3. /\ current \in 1..MaxKeys /\ current \in 0..MaxKeys /\ 0 \in 0..MaxKeys
        /\ current # 0 /\ current <= current
    BY <1>1, AnswerAssumption DEF WorldInv, WorldTypes
  <1>4. WorldInv'
    <2>1. WorldTypes'
      BY <1>1, <1>2, <1>3 DEF WorldInv, WorldTypes
    <2>2. signedBy' # 0 => signedBy' <= current'
      BY <1>2, <1>3
    <2>3. schema' = "v2" => signedBy' # 0
      BY <1>2, <1>3
    <2>4. \A v \in 1..MaxKeys : keys'[v] = "absent" <=> v > current'
      BY <1>1, <1>2 DEF WorldInv
    <2>5. credentialStatus' = "revoked" \/ told' => RevokedByIssuer'
      BY <1>1, <1>2 DEF WorldInv, RevokedByIssuer
    <2> QED
      BY <2>1, <2>2, <2>3, <2>4, <2>5 DEF WorldInv
  <1>5. Forward
    BY <1>2 DEF Forward, RevokedByIssuer
  <1> QED
    BY <1>4, <1>5, ForwardStep

LEMMA WorldSteps ==
  ASSUME AnswerInv,
         \/ IssueMock \/ IssueUnrecorded \/ Reserve \/ Finalize \/ RevokeOnChain
         \/ PersistRevocation \/ TargetChanges
         \/ \E who \in {"issuer", "stranger"} : Register(who)
         \/ \E d \in Defects : Alter(d)
  PROVE  AnswerInv'
  <1>1. WorldInv
    BY DEF AnswerInv
  <1>2. CASE IssueMock \/ IssueUnrecorded \/ Reserve
    BY <1>1, <1>2, SignForward DEF IssueMock, IssueUnrecorded, Reserve, Records
  <1>3. CASE Finalize \/ TargetChanges \/ \E d \in Defects : Alter(d)
    <2>1. /\ UNCHANGED <<credentialStatus, schema, signedBy, registrant, entryRevoked, keys, current,
                         told, task>>
          /\ record' \in Records /\ defects' \subseteq Defects
      BY <1>1, <1>3 DEF Finalize, TargetChanges, Alter, credential, chain, identity, Records,
                        WorldInv, WorldTypes
    <2>2. WorldInv'
      BY <1>1, <2>1 DEF WorldInv, WorldTypes, RevokedByIssuer
    <2>3. Forward
      BY <2>1 DEF Forward, RevokedByIssuer
    <2> QED
      BY <2>2, <2>3, ForwardStep
  <1>4. CASE RevokeOnChain \/ PersistRevocation \/ \E who \in {"issuer", "stranger"} : Register(who)
    <2>1. /\ UNCHANGED <<schema, signedBy, defects, keys, current, told, task>>
          /\ record' \in Records
          /\ credentialStatus' = credentialStatus
             \/ (credentialStatus = "issued" /\ credentialStatus' = "revoked" /\ RevokedByIssuer)
          /\ registrant' = registrant
             \/ (registrant = "nobody" /\ registrant' \in {"issuer", "stranger"})
          /\ entryRevoked' = entryRevoked \/ entryRevoked' = TRUE
      <3>1. CASE RevokeOnChain
        BY <1>1, <3>1 DEF RevokeOnChain, credential, identity, WorldInv, WorldTypes
      <3>2. CASE PersistRevocation
        BY <1>1, <3>2 DEF PersistRevocation, chain, identity, Records, RevokedByIssuer
      <3>3. CASE \E who \in {"issuer", "stranger"} : Register(who)
        BY <1>1, <3>3 DEF Register, credential, identity, WorldInv, WorldTypes
      <3> QED
        BY <1>4, <3>1, <3>2, <3>3
    <2>2. Forward
      BY <2>1 DEF Forward, RevokedByIssuer
    <2>3. WorldTypes'
      BY <1>1, <2>1 DEF WorldInv, WorldTypes
    <2>4. credentialStatus' = "revoked" \/ told' => RevokedByIssuer'
      BY <1>1, <2>1, <2>2 DEF WorldInv, Forward
    <2>5. credentialStatus' # "draft" /\ schema' = "v2" => signedBy' # 0
      BY <1>1, <2>1 DEF WorldInv
    <2>6. /\ \A v \in 1..MaxKeys : keys'[v] = "absent" <=> v > current'
          /\ signedBy' # 0 => signedBy' <= current'
      BY <1>1, <2>1 DEF WorldInv
    <2> QED
      BY <2>2, <2>3, <2>4, <2>5, <2>6, ForwardStep DEF WorldInv
  <1> QED
    BY <1>2, <1>3, <1>4

LEMMA KeySteps ==
  ASSUME AnswerInv, Rotate \/ \E v \in 1..MaxKeys : Compromise(v)
  PROVE  AnswerInv'
  <1>1. WorldInv
    BY DEF AnswerInv
  <1>2. /\ keys \in [1..MaxKeys -> KeyStatuses] /\ current \in Nat /\ current >= 1
        /\ current <= MaxKeys /\ MaxKeys \in Nat
        /\ \A v \in 1..MaxKeys : keys[v] = "absent" <=> v > current
    BY <1>1, AnswerAssumption DEF WorldInv, WorldTypes
  <1>3. /\ UNCHANGED <<credentialStatus, schema, signedBy, record, defects, registrant, entryRevoked,
                       told, task>>
    BY DEF Rotate, Compromise, credential, chain
  <1>4. /\ keys' \in [1..MaxKeys -> KeyStatuses]
        /\ current' \in 1..MaxKeys /\ current' >= current
        /\ \A v \in 1..MaxKeys : keys'[v] = "absent" <=> v > current'
        /\ \A v \in 1..MaxKeys : keys[v] = "compromised" => keys'[v] = "compromised"
    <2>1. CASE Rotate
      <3>1. /\ current < MaxKeys /\ current' = current + 1
            /\ keys' = [keys EXCEPT ![current + 1] = "active",
                                    ![current] = IF keys[current] = "active" THEN "retired"
                                                 ELSE keys[current]]
        BY <1>2, <2>1 DEF Rotate
      <3>2. keys[current + 1] = "absent" /\ keys[current] # "absent"
        BY <1>2, <3>1
      <3>3. current + 1 \in 1..MaxKeys /\ current \in 1..MaxKeys /\ current + 1 # current
        BY <1>2, <3>1
      <3>4. /\ keys'[current + 1] = "active"
            /\ keys'[current] = IF keys[current] = "active" THEN "retired" ELSE keys[current]
            /\ \A v \in 1..MaxKeys \ {current, current + 1} : keys'[v] = keys[v]
        BY <1>2, <3>1, <3>3
      <3>5. keys' \in [1..MaxKeys -> KeyStatuses]
        BY <1>2, <3>1, <3>3 DEF KeyStatuses
      <3>6. \A v \in 1..MaxKeys : keys'[v] = "absent" <=> v > current + 1
        <4> SUFFICES ASSUME NEW v \in 1..MaxKeys
                     PROVE  keys'[v] = "absent" <=> v > current + 1
          OBVIOUS
        <4>1. CASE v \in {current, current + 1}
          <5>1. ~(v > current + 1)
            BY <1>2, <4>1
          <5> QED
            BY <3>2, <3>4, <4>1, <5>1
        <4>2. CASE v \notin {current, current + 1}
          <5>1. v > current + 1 <=> v > current
            BY <1>2, <4>2
          <5> QED
            BY <1>2, <3>4, <4>2, <5>1
        <4> QED
          BY <4>1, <4>2
      <3>7. \A v \in 1..MaxKeys : keys[v] = "compromised" => keys'[v] = "compromised"
        BY <3>2, <3>4
      <3> QED
        BY <1>2, <3>1, <3>3, <3>5, <3>6, <3>7
    <2>2. ASSUME NEW v \in 1..MaxKeys, Compromise(v)
          PROVE  /\ keys' \in [1..MaxKeys -> KeyStatuses]
                 /\ current' = current
                 /\ \A w \in 1..MaxKeys : keys'[w] = "absent" <=> w > current
                 /\ \A w \in 1..MaxKeys : keys[w] = "compromised" => keys'[w] = "compromised"
      <3>1. /\ keys[v] \in {"active", "retired"} /\ keys' = [keys EXCEPT ![v] = "compromised"]
            /\ current' = current
        BY <2>2 DEF Compromise
      <3>2. \A w \in 1..MaxKeys : keys'[w] = IF w = v THEN "compromised" ELSE keys[w]
        BY <1>2, <3>1
      <3>3. \A w \in 1..MaxKeys : keys'[w] = "absent" <=> keys[w] = "absent"
        BY <3>1, <3>2
      <3>4. keys' \in [1..MaxKeys -> KeyStatuses]
        BY <1>2, <3>1 DEF KeyStatuses
      <3> QED
        BY <1>2, <3>1, <3>2, <3>3, <3>4
    <2>3. current \in 1..MaxKeys /\ current >= current
      BY <1>2
    <2> QED
      BY <2>1, <2>2, <2>3
  <1>5. signedBy' # 0 => signedBy' <= current'
    <2>1. signedBy \in Nat /\ current' \in Nat
      BY <1>1, <1>4 DEF WorldInv, WorldTypes
    <2> QED
      BY <1>1, <1>2, <1>3, <1>4, <2>1 DEF WorldInv
  <1>6. WorldInv'
    <2>1. WorldTypes'
      BY <1>1, <1>3, <1>4 DEF WorldInv, WorldTypes
    <2> QED
      BY <1>1, <1>3, <1>4, <1>5, <2>1 DEF WorldInv, RevokedByIssuer
  <1>7. Forward
    BY <1>3, <1>4 DEF Forward, RevokedByIssuer
  <1> QED
    BY <1>6, <1>7, ForwardStep

-----------------------------------------------------------------------------
(* Steps of a reader.                                                      *)

\* The headline, case by case (deriveVerificationHeadline).
LEMMA HeadlineCases ==
  ASSUME NEW a \in Authenticities, NEW s \in {"REVOKED", "ACTIVE"}, NEW e \in Evidences
  PROVE  /\ Headline(a, s, e) \in Headlines
         /\ Headline(a, s, e) = "INVALID" => a = "INVALID"
         /\ Headline(a, s, e) = "REVOKED" => s = "REVOKED"
         /\ Headline(a, s, e) = "VERIFIED" => e = "REGISTERED"
         /\ Valid(Headline(a, s, e)) => a = "VERIFIED" /\ s = "ACTIVE"
  <1>1. CASE a = "INVALID"
    BY <1>1 DEF Headline, Headlines, Valid
  <1>2. CASE a # "INVALID" /\ s = "REVOKED"
    BY <1>2 DEF Headline, Headlines, Valid
  <1>3. CASE a = "INDETERMINATE" /\ s = "ACTIVE"
    BY <1>3 DEF Headline, Headlines, Valid
  <1>4. CASE a = "VERIFIED" /\ s = "ACTIVE"
    BY <1>4 DEF Headline, Headlines, Valid, Evidences
  <1> QED
    BY <1>1, <1>2, <1>3, <1>4 DEF Authenticities

LEMMA StatusCases ==
  ASSUME NEW x, NEW e
  PROVE  /\ StatusOf(x, e) \in {"REVOKED", "ACTIVE"}
         /\ StatusOf(x, e) = "REVOKED" <=> e = "REVOKED_ON_CHAIN" \/ x.status = "revoked"
  BY DEF StatusOf

\* A step of one task.
LEMMA TaskStep ==
  ASSUME AnswerInv, NEW t \in Readers, NEW y, task' = [task EXCEPT ![t] = y], TaskInv(y),
         UNCHANGED <<credentialStatus, schema, signedBy, record, defects, registrant,
                     entryRevoked, target, keys, current>>,
         told' \in BOOLEAN, told => told', told' => RevokedByIssuer
  PROVE  AnswerInv'
  <1>1. ASSUME NEW x, TaskInv(x) PROVE TaskInv(x)'
    <2>1. RowKnows(x) => RowKnows(x)'
      BY DEF RowKnows, CompromisedNow
    <2>2. AuthenticityKnows(x) => AuthenticityKnows(x)'
      BY DEF AuthenticityKnows, CompromisedNow, Sound
    <2>3. EvidenceKnows(x) => EvidenceKnows(x)'
      BY DEF EvidenceKnows, RevokedByIssuer, Headline, StatusOf
    <2> QED
      BY <1>1, <2>1, <2>2, <2>3 DEF TaskInv
  <1>2. WorldInv'
    BY DEF AnswerInv, WorldInv, WorldTypes, RevokedByIssuer
  <1>3. y \in Tasks /\ task \in [Readers -> Tasks] /\ \A u \in Readers : TaskInv(task[u])
    BY DEF AnswerInv, TaskInv
  <1>4. task' \in [Readers -> Tasks] /\ \A u \in Readers : task'[u] = task[u] \/ task'[u] = y
    BY <1>3
  <1>5. \A u \in Readers : TaskInv(task[u])'
    BY <1>1, <1>3, <1>4
  <1> QED
    BY <1>2, <1>4, <1>5 DEF AnswerInv

\* What is settled when a task begins.
LEMMA SettledKnows ==
  /\ Settled \subseteq Marks
  /\ "revoked" \in Settled <=> credentialStatus = "revoked"
  /\ "told" \in Settled => told
  /\ "compromised" \in Settled => CompromisedNow
  BY DEF Settled, Marks, CompromisedNow

LEMMA ReadCredentialInv == ASSUME AnswerInv, NEW t \in Readers, ReadCredential(t) PROVE AnswerInv'
  <1> DEFINE row == [Idle EXCEPT !.status = credentialStatus, !.schema = schema,
                                 !.method = signedBy, !.defects = defects, !.record = record,
                                 !.began = Settled]
  <1>1. PICK y : y = [row EXCEPT !.authenticity = BeforeDocument(row),
                                 !.at = IF BeforeDocument(row) = NoAnswer THEN "document"
                                        ELSE "evidence"]
    OBVIOUS
  <1>2. /\ task' = [task EXCEPT ![t] = y] /\ credentialStatus # "draft"
        /\ UNCHANGED <<credentialStatus, schema, signedBy, record, defects, registrant,
                       entryRevoked, target, keys, current, told>>
    BY <1>1 DEF ReadCredential, credential, chain, identity
  <1>3. WorldInv
    BY DEF AnswerInv
  <1>4. /\ row.schema = schema /\ row.defects = defects
        /\ y = [at |-> IF BeforeDocument(row) = NoAnswer THEN "document" ELSE "evidence",
                status |-> credentialStatus, schema |-> schema, method |-> signedBy,
                defects |-> defects, record |-> record, authenticity |-> BeforeDocument(row),
                evidence |-> NoAnswer, headline |-> NoAnswer, began |-> Settled]
    BY <1>1 DEF Idle
  <1> HIDE DEF row
  <1>5. /\ schema # "v2" => BeforeDocument(row) = "INDETERMINATE"
        /\ schema = "v2" /\ defects \cap (ArtifactDefects \ {"signature"}) # {} =>
             BeforeDocument(row) = "INVALID"
        /\ schema = "v2" /\ defects \cap (ArtifactDefects \ {"signature"}) = {} =>
             BeforeDocument(row) = NoAnswer
    <2>1. FirstFailure(row) # "none" <=> defects \cap (ArtifactDefects \ {"signature"}) # {}
      BY <1>4, FailureIsDefect
    <2> QED
      BY <1>4, <2>1 DEF BeforeDocument
  <1>6. BeforeDocument(row) \in {"INDETERMINATE", "INVALID", NoAnswer}
    BY <1>5
  <1>7. y \in Tasks
    BY <1>3, <1>4, <1>6, SettledKnows
    DEF Tasks, WorldInv, WorldTypes, Authenticities, NoAnswer
  <1>8. RowKnows(y)
    BY <1>2, <1>4, SettledKnows DEF RowKnows
  <1>9. TaskInv(y)
    <2>1. CASE schema # "v2" \/ defects \cap (ArtifactDefects \ {"signature"}) # {}
      <3>1. y.at = "evidence" /\ y.authenticity \in {"INDETERMINATE", "INVALID"}
        BY <1>4, <1>5, <2>1 DEF NoAnswer
      <3>2. y.authenticity = "INVALID" => y.defects \cap ArtifactDefects # {}
        BY <1>4, <1>5, <2>1
      <3> QED
        BY <1>7, <1>8, <3>1, <3>2 DEF TaskInv, AuthenticityKnows, Authenticities
    <2>2. CASE schema = "v2" /\ defects \cap (ArtifactDefects \ {"signature"}) = {}
      BY <1>4, <1>5, <1>7, <1>8, <2>2 DEF TaskInv, NoAnswer
    <2> QED
      BY <2>1, <2>2
  <1>10. told' \in BOOLEAN /\ (told => told') /\ (told' => RevokedByIssuer)
    BY <1>2, <1>3 DEF WorldInv, WorldTypes
  <1> QED
    BY <1>2, <1>9, <1>10, TaskStep

LEMMA ReadDocumentInv == ASSUME AnswerInv, NEW t \in Readers, ReadDocument(t) PROVE AnswerInv'
  <1>1. PICK answer \in {ByDocument(task[t]), "INDETERMINATE"} :
          task' = [task EXCEPT ![t].authenticity = answer, ![t].at = "evidence"]
    BY DEF ReadDocument
  <1>2. PICK x : x = task[t]
    OBVIOUS
  <1>3. PICK y : y = [x EXCEPT !.authenticity = answer, !.at = "evidence"]
    OBVIOUS
  <1>4. /\ WorldInv /\ TaskInv(x) /\ x \in Tasks /\ x.at = "document"
        /\ task \in [Readers -> Tasks]
        /\ UNCHANGED <<credentialStatus, schema, signedBy, record, defects, registrant,
                       entryRevoked, target, keys, current, told>>
    BY <1>2 DEF AnswerInv, TaskInv, ReadDocument, At, credential, chain, identity
  <1>5. task' = [task EXCEPT ![t] = y]
    BY <1>1, <1>2, <1>3, <1>4
  <1>6. /\ y = [at |-> "evidence", status |-> x.status, schema |-> x.schema, method |-> x.method,
                defects |-> x.defects, record |-> x.record, authenticity |-> answer,
                evidence |-> x.evidence, headline |-> x.headline, began |-> x.began]
    BY <1>3, <1>4 DEF Tasks
  <1>7. RowKnows(x) /\ x.schema = "v2" /\ x.defects \cap (ArtifactDefects \ {"signature"}) = {}
    BY <1>4 DEF TaskInv
  <1>8. x.method \in 1..MaxKeys /\ x.method = signedBy /\ signedBy # 0 /\ keys[signedBy] # "absent"
    <2>1. signedBy # 0 /\ signedBy <= current /\ x.method = signedBy
      BY <1>4, <1>7 DEF RowKnows, WorldInv
    <2>2. signedBy \in 1..MaxKeys /\ current \in 1..MaxKeys
      BY <1>4, <2>1, AnswerAssumption DEF WorldInv, WorldTypes
    <2>3. ~(signedBy > current)
      BY <2>1, <2>2
    <2> QED
      BY <1>4, <2>1, <2>2, <2>3 DEF WorldInv
  <1>9. x.method \in Published <=> ~CompromisedNow
    <2>1. keys[signedBy] \in {"active", "retired", "compromised"}
      BY <1>4, <1>8 DEF WorldInv, WorldTypes, KeyStatuses
    <2> QED
      BY <1>8, <2>1 DEF Published, CompromisedNow
  <1>10. ByDocument(x) \in Authenticities
    BY DEF ByDocument, Authenticities
  <1>11. y \in Tasks
    BY <1>1, <1>2, <1>4, <1>6, <1>10 DEF Tasks, Authenticities
  <1>12. AuthenticityKnows(y)
    <2>1. answer = "INVALID" => "signature" \in x.defects \/ CompromisedNow
      BY <1>1, <1>2, <1>9 DEF ByDocument
    <2>2. answer = "VERIFIED" => "signature" \notin x.defects /\ ~CompromisedNow
      BY <1>1, <1>2, <1>9 DEF ByDocument
    <2>3. "signature" \in ArtifactDefects
      BY DEF ArtifactDefects
    <2>4. "signature" \notin x.defects => x.defects \cap ArtifactDefects = {}
      BY <1>7
    <2> QED
      BY <1>6, <1>7, <2>1, <2>2, <2>3, <2>4 DEF AuthenticityKnows, Sound, RowKnows
  <1>13. TaskInv(y)
    <2>1. RowKnows(y)
      BY <1>6, <1>7 DEF RowKnows
    <2> QED
      BY <1>1, <1>2, <1>6, <1>10, <1>11, <1>12, <2>1 DEF TaskInv, Authenticities
  <1>14. told' \in BOOLEAN /\ (told => told') /\ (told' => RevokedByIssuer)
    BY <1>4 DEF WorldInv, WorldTypes
  <1> QED
    BY <1>4, <1>5, <1>13, <1>14, TaskStep

LEMMA ReadEvidenceInv == ASSUME AnswerInv, NEW t \in Readers, ReadEvidence(t) PROVE AnswerInv'
  <1>1. PICK x : x = task[t]
    OBVIOUS
  <1>2. PICK answer :
          /\ IF BeforeChain(x) # NoAnswer THEN answer = BeforeChain(x)
             ELSE answer = ByChain(x) \/ answer = "UNAVAILABLE"
          /\ task' = [task EXCEPT ![t].evidence = answer,
                                  ![t].headline = Headline(x.authenticity, StatusOf(x, answer), answer),
                                  ![t].at = "answered"]
          /\ told' = (told \/ Headline(x.authenticity, StatusOf(x, answer), answer) = "REVOKED")
    BY <1>1 DEF ReadEvidence, WithoutChain
  <1>3. PICK headline : headline = Headline(x.authenticity, StatusOf(x, answer), answer)
    OBVIOUS
  <1>4. PICK y : y = [x EXCEPT !.evidence = answer, !.headline = headline, !.at = "answered"]
    OBVIOUS
  <1>5. /\ WorldInv /\ TaskInv(x) /\ x \in Tasks /\ x.at = "evidence"
        /\ task \in [Readers -> Tasks]
        /\ UNCHANGED <<credentialStatus, schema, signedBy, record, defects, registrant,
                       entryRevoked, target, keys, current>>
    BY <1>1 DEF AnswerInv, TaskInv, ReadEvidence, At, credential, chain, identity
  <1>6. task' = [task EXCEPT ![t] = y]
    BY <1>1, <1>2, <1>3, <1>4, <1>5
  <1>7. /\ y = [at |-> "answered", status |-> x.status, schema |-> x.schema, method |-> x.method,
                defects |-> x.defects, record |-> x.record, authenticity |-> x.authenticity,
                evidence |-> answer, headline |-> headline, began |-> x.began]
    BY <1>4, <1>5 DEF Tasks
  <1>8. RowKnows(x) /\ x.authenticity \in Authenticities /\ AuthenticityKnows(x)
    BY <1>5 DEF TaskInv
  <1>9. /\ BeforeChain(x) \in {"NOT_FOUND", "UNAVAILABLE", "NOT_APPLICABLE_MOCK", NoAnswer}
        /\ BeforeChain(x) = NoAnswer => x.record \notin {"none", "mock"}
    <2>1. CASE x.record = "none"
      BY <2>1 DEF BeforeChain, NoAnswer
    <2>2. CASE x.record = "mock"
      BY <2>2 DEF BeforeChain, NoAnswer
    <2>3. CASE x.record \notin {"none", "mock"}
      BY <2>3 DEF BeforeChain, NoAnswer
    <2> QED
      BY <2>1, <2>2, <2>3
  <1>10. /\ ByChain(x) \in {"PENDING", "NOT_FOUND", "REGISTRANT_UNEXPECTED", "REVOKED_ON_CHAIN",
                            "REGISTERED"}
         /\ ByChain(x) = "REVOKED_ON_CHAIN" => RevokedByIssuer
         /\ ByChain(x) = "REGISTERED" => registrant = "issuer" /\ ~entryRevoked
    <2>1. registrant \in {"nobody", "issuer", "stranger"}
      BY <1>5 DEF WorldInv, WorldTypes
    <2> QED
      BY <2>1 DEF ByChain, RevokedByIssuer
  <1>11. /\ answer \in Evidences
         /\ answer = "REVOKED_ON_CHAIN" => RevokedByIssuer
         /\ answer = "REGISTERED" =>
              registrant = "issuer" /\ ~entryRevoked /\ x.record \notin {"none", "mock"}
    BY <1>2, <1>9, <1>10 DEF Evidences, NoAnswer
  <1>12. answer = "REGISTERED" => "told" \notin x.began
    BY <1>5, <1>8, <1>11 DEF RowKnows, WorldInv, RevokedByIssuer
  <1>13. headline \in Headlines /\ (headline = "REVOKED" => RevokedByIssuer)
    <2>1. StatusOf(x, answer) \in {"REVOKED", "ACTIVE"}
      BY StatusCases
    <2>2. headline \in Headlines /\ (headline = "REVOKED" => StatusOf(x, answer) = "REVOKED")
      BY <1>3, <1>8, <1>11, <2>1, HeadlineCases
    <2>3. StatusOf(x, answer) = "REVOKED" => answer = "REVOKED_ON_CHAIN" \/ x.status = "revoked"
      BY StatusCases
    <2>4. x.status = "revoked" => RevokedByIssuer
      BY <1>5, <1>8 DEF RowKnows, WorldInv
    <2> QED
      BY <1>11, <2>2, <2>3, <2>4
  <1>14. TaskInv(y)
    <2>1. y \in Tasks
      BY <1>5, <1>7, <1>11, <1>13 DEF Tasks
    <2>2. RowKnows(y) /\ AuthenticityKnows(y)
      BY <1>7, <1>8 DEF RowKnows, AuthenticityKnows, Sound
    <2>3. StatusOf(y, answer) = StatusOf(x, answer)
      BY <1>7 DEF StatusOf
    <2>4. EvidenceKnows(y)
      BY <1>3, <1>7, <1>11, <1>12, <2>3 DEF EvidenceKnows
    <2> QED
      BY <1>7, <1>8, <2>1, <2>2, <2>4 DEF TaskInv
  <1>15. told' \in BOOLEAN /\ (told => told') /\ (told' => RevokedByIssuer)
    <2>1. told' = (told \/ headline = "REVOKED")
      BY <1>2, <1>3
    <2> QED
      BY <1>5, <1>13, <2>1 DEF WorldInv, WorldTypes
  <1> QED
    BY <1>5, <1>6, <1>14, <1>15, TaskStep

LEMMA IdleTask == TaskInv(Idle)
  BY AnswerAssumption
  DEF TaskInv, Idle, Tasks, Records, Authenticities, Evidences, Headlines, NoAnswer, Marks

LEMMA LeaveInv == ASSUME AnswerInv, NEW t \in Readers, Leave(t) PROVE AnswerInv'
  <1>1. /\ task' = [task EXCEPT ![t] = Idle]
        /\ UNCHANGED <<credentialStatus, schema, signedBy, record, defects, registrant,
                       entryRevoked, target, keys, current, told>>
    BY DEF Leave, credential, chain, identity
  <1>2. told' \in BOOLEAN /\ (told => told') /\ (told' => RevokedByIssuer)
    BY <1>1 DEF AnswerInv, WorldInv, WorldTypes
  <1> QED
    BY <1>1, <1>2, IdleTask, TaskStep

LEMMA AnswerInitInv == AnswerInit => AnswerInv
  <1> SUFFICES ASSUME AnswerInit PROVE AnswerInv
    OBVIOUS
  <1>1. WorldInv
    <2>1. MaxKeys \in Nat /\ 1 \in 1..MaxKeys /\ 0 \in 0..MaxKeys
      BY AnswerAssumption
    <2>2. \A v \in 1..MaxKeys : v = 1 <=> ~(v > 1)
      BY <2>1
    <2>3. /\ keys = [v \in 1..MaxKeys |-> IF v = 1 THEN "active" ELSE "absent"]
          /\ current = 1 /\ signedBy = 0
      BY DEF AnswerInit
    <2>4. \A v \in 1..MaxKeys : keys[v] = "absent" <=> v # 1
      BY <2>3
    <2>5. \A v \in 1..MaxKeys : keys[v] = "absent" <=> v > current
      BY <2>2, <2>3, <2>4
    <2>6. keys \in [1..MaxKeys -> KeyStatuses]
      BY <2>3 DEF KeyStatuses
    <2>7. WorldTypes
      BY <2>1, <2>3, <2>6 DEF AnswerInit, WorldTypes, Records, Defects
    <2> QED
      BY <2>3, <2>5, <2>7 DEF AnswerInit, WorldInv, RevokedByIssuer
  <1>2. Idle \in Tasks
    BY IdleTask DEF TaskInv
  <1> QED
    BY <1>1, <1>2, IdleTask DEF AnswerInit, AnswerInv

LEMMA AnswerNextInv == AnswerInv /\ [AnswerNext]_answerVars => AnswerInv'
  <1> SUFFICES ASSUME AnswerInv, [AnswerNext]_answerVars PROVE AnswerInv'
    OBVIOUS
  <1>1. ASSUME NEW t \in Readers, ReadCredential(t) \/ ReadDocument(t) \/ ReadEvidence(t) \/ Leave(t)
        PROVE  AnswerInv'
    BY <1>1, ReadCredentialInv, ReadDocumentInv, ReadEvidenceInv, LeaveInv
  <1>2. CASE UNCHANGED answerVars
    <2>1. Forward
      BY <1>2 DEF answerVars, credential, chain, identity, Forward, RevokedByIssuer
    <2>2. WorldInv'
      BY <1>2 DEF answerVars, credential, chain, identity, AnswerInv, WorldInv, WorldTypes,
                  RevokedByIssuer
    <2> QED
      BY <2>1, <2>2, ForwardStep
  <1> QED
    BY <1>1, <1>2, WorldSteps, KeySteps DEF AnswerNext

\* Whatever is issued, revoked, altered, rotated and marked between the three
\* readings of any number of requests, and whatever cannot be read.
THEOREM AnswersSafe == AnswerSpec => []AnswerInv
  BY AnswerInitInv, AnswerNextInv, PTL DEF AnswerSpec

\* An answer says nothing that the row, the DID document and the chain it was
\* read from do not bear out (getCredentialVerification).
THEOREM AnswersHold == AnswerSpec => []AnswersAreTruthful
  <1>1. ASSUME AnswerInv, NEW t \in Readers, At(t, "answered")
        PROVE  LET x == task[t] IN
          /\ x.headline = "INVALID" => x.defects \cap ArtifactDefects # {} \/ CompromisedNow
          /\ Valid(x.headline) =>
               /\ x.defects \cap ArtifactDefects = {}
               /\ "compromised" \notin x.began /\ "revoked" \notin x.began
          /\ x.headline = "REVOKED" => RevokedByIssuer
          /\ x.headline = "VERIFIED" =>
               registrant = "issuer" /\ x.record \notin {"none", "mock"} /\ "told" \notin x.began
    <2>1. PICK x : x = task[t]
      OBVIOUS
    <2>2. /\ WorldInv /\ x.authenticity \in Authenticities /\ x.evidence \in Evidences
          /\ RowKnows(x) /\ AuthenticityKnows(x) /\ EvidenceKnows(x)
      BY <1>1, <2>1 DEF AnswerInv, TaskInv, At, EvidenceKnows
    <2>3. PICK s : s = StatusOf(x, x.evidence)
      OBVIOUS
    <2>4. /\ s \in {"REVOKED", "ACTIVE"}
          /\ s = "REVOKED" <=> x.evidence = "REVOKED_ON_CHAIN" \/ x.status = "revoked"
      BY <2>3, StatusCases
    <2>5. x.headline = Headline(x.authenticity, s, x.evidence)
      BY <2>2, <2>3 DEF EvidenceKnows
    <2>6. /\ x.headline = "INVALID" => x.authenticity = "INVALID"
          /\ x.headline = "REVOKED" => s = "REVOKED"
          /\ x.headline = "VERIFIED" => x.evidence = "REGISTERED"
          /\ Valid(x.headline) => x.authenticity = "VERIFIED" /\ s = "ACTIVE"
      BY <2>2, <2>4, <2>5, HeadlineCases
    <2>7. x.headline = "INVALID" => x.defects \cap ArtifactDefects # {} \/ CompromisedNow
      BY <2>2, <2>6 DEF AuthenticityKnows
    <2>8. Valid(x.headline) => /\ x.defects \cap ArtifactDefects = {}
                               /\ "compromised" \notin x.began /\ "revoked" \notin x.began
      BY <2>2, <2>4, <2>6 DEF AuthenticityKnows, Sound, RowKnows
    <2>9. x.headline = "REVOKED" => RevokedByIssuer
      BY <2>2, <2>4, <2>6 DEF EvidenceKnows, RowKnows, WorldInv
    <2>10. x.headline = "VERIFIED" =>
             registrant = "issuer" /\ x.record \notin {"none", "mock"} /\ "told" \notin x.began
      BY <2>2, <2>6 DEF EvidenceKnows
    <2> QED
      BY <2>1, <2>7, <2>8, <2>9, <2>10
  <1>2. AnswerInv => AnswersAreTruthful
    <2> SUFFICES ASSUME AnswerInv PROVE AnswersAreTruthful
      OBVIOUS
    <2>1. GenuineIsNeverInvalid /\ OnlyTheIssuerRevokes
      BY <1>1 DEF GenuineIsNeverInvalid, OnlyTheIssuerRevokes, AnsweredWith, RevokedByIssuer
    <2>2. AlteredIsNeverValid /\ BrokenKeysProveNothing /\ RevokedIsNeverValid
      BY <1>1 DEF AlteredIsNeverValid, BrokenKeysProveNothing, RevokedIsNeverValid
    <2>3. VerifiedIsAnchored /\ RevocationIsMonotone
      BY <1>1 DEF VerifiedIsAnchored, RevocationIsMonotone, AnsweredWith
    <2> QED
      BY <2>1, <2>2, <2>3 DEF AnswersAreTruthful
  <1> QED
    BY <1>2, AnswersSafe, PTL

-----------------------------------------------------------------------------
(* PART 3.  What a link lets a verifier ask for, and what stays.           *)

Attempts ==
  [request : Sessions, startedAt : Nat, leaseExpiresAt : Nat, outcome : Outcomes]
Rows == [status : Statuses, expiresAt : Nat, definition : Definitions \cup {NoDefinition}]
Places == {"idle", "call", "waiting", "accept", "reject"}

\* Whoever is busy claimed an attempt of its own.
ClaimsInv ==
  /\ \A c \in Proposers : proposing[c] # "idle" => claim[c] \in Ids
  /\ \A c, d \in Proposers :
       proposing[c] # "idle" /\ proposing[d] # "idle" /\ claim[c] = claim[d] => c = d

\* An answer ends the work it is of.
AnswersInv == \A c \in Proposers : proposing[c] \in {"accept", "reject"} => claim[c] \notin jobs

\* Work is of an open attempt under its lease, one attempt of a request.
WorkInv ==
  /\ \A a \in Work :
       a \in Ids /\ proposals[a].outcome = "open" /\ time < proposals[a].leaseExpiresAt
  /\ \A a, b \in Work : proposals[a].request = proposals[b].request => a = b

StartsInv ==
  /\ \A a \in Ids : proposals[a].startedAt <= time
  /\ StartsWithinQuota

ActiveInv == IsFiniteSet(Active) /\ OpenRequestsBounded

SessionInv == SessionTypeOK /\ ClaimsInv /\ AnswersInv /\ WorkInv /\ StartsInv /\ ActiveInv

LEMMA SessionNumbers ==
  /\ MaxActive \in Nat /\ RequestTtl \in Nat /\ Quota \in Nat /\ StartsWindow \in Nat
  /\ Cooldown \in Nat /\ ProposalLease \in Nat /\ ProposalLease > 0 /\ Retries \in Nat
  /\ Retries > 0 /\ Horizon \in Nat
  BY SessionAssumption

-----------------------------------------------------------------------------
(* What a step does to the attempts.                                       *)

\* Attempts are appended, and keep what they were but for the outcome of one
\* that is open.
Evolves ==
  /\ proposals' \in Seq(Attempts) /\ Len(proposals) <= Len(proposals')
  /\ \A a \in Ids :
       /\ proposals'[a].request = proposals[a].request
       /\ proposals'[a].startedAt = proposals[a].startedAt
       /\ proposals'[a].leaseExpiresAt = proposals[a].leaseExpiresAt
       /\ proposals[a].outcome # "open" => proposals'[a].outcome = proposals[a].outcome

\* One attempt at most gets an outcome.
Closes(a) ==
  /\ Evolves /\ Len(proposals') = Len(proposals)
  /\ \A b \in Ids : b # a => proposals'[b] = proposals[b]

LEMMA RowsOfAttempts ==
  ASSUME SessionTypeOK
  PROVE  /\ proposals \in Seq(Attempts) /\ Len(proposals) \in Nat
         /\ Ids = 1..Len(proposals) /\ \A a \in Ids : proposals[a] \in Attempts
         /\ time \in Nat
  <1>1. proposals \in Seq(Attempts)
    BY DEF SessionTypeOK, Attempts
  <1>2. time \in Nat
    BY SessionNumbers DEF SessionTypeOK
  <1>3. Len(proposals) \in Nat /\ Ids = 1..Len(proposals)
    BY <1>1 DEF Ids
  <1> QED
    BY <1>1, <1>2, <1>3

LEMMA CloseFacts ==
  ASSUME SessionTypeOK, NEW a \in Ids, NEW o \in Outcomes, proposals[a].outcome = "open",
         proposals' = Close(a, o)
  PROVE  Closes(a)
  <1>1. proposals \in Seq(Attempts) /\ proposals[a] \in Attempts /\ Ids = 1..Len(proposals)
    BY RowsOfAttempts
  <1>2. PICK x : x = [proposals[a] EXCEPT !.outcome = o]
    OBVIOUS
  <1>3. x \in Attempts
    BY <1>1, <1>2 DEF Attempts
  <1>4. /\ x.request = proposals[a].request /\ x.startedAt = proposals[a].startedAt
        /\ x.leaseExpiresAt = proposals[a].leaseExpiresAt
    BY <1>1, <1>2 DEF Attempts
  <1>5. proposals' = [proposals EXCEPT ![a] = x]
    BY <1>2 DEF Close
  <1>6. /\ proposals' \in Seq(Attempts) /\ Len(proposals') = Len(proposals)
        /\ proposals'[a] = x
        /\ \A b \in Ids : b # a => proposals'[b] = proposals[b]
    BY <1>1, <1>3, <1>5
  <1>7. Len(proposals) <= Len(proposals')
    BY <1>6, RowsOfAttempts
  <1>8. ASSUME NEW b \in Ids
        PROVE  /\ proposals'[b].request = proposals[b].request
               /\ proposals'[b].startedAt = proposals[b].startedAt
               /\ proposals'[b].leaseExpiresAt = proposals[b].leaseExpiresAt
               /\ proposals[b].outcome # "open" => proposals'[b].outcome = proposals[b].outcome
    BY <1>4, <1>6
  <1> QED
    BY <1>6, <1>7, <1>8 DEF Closes, Evolves

LEMMA SameFacts ==
  ASSUME SessionTypeOK, proposals' = proposals, NEW a
  PROVE  Closes(a)
  BY RowsOfAttempts DEF Closes, Evolves

LEMMA ClaimFacts ==
  ASSUME SessionTypeOK, NEW c \in Proposers, NEW q \in Sessions, ClaimProposal(c, q)
  PROVE  /\ Evolves /\ Len(proposals') = Len(proposals) + 1
         /\ proposals'[Len(proposals) + 1] =
              [request |-> q, startedAt |-> time, leaseExpiresAt |-> time + ProposalLease,
               outcome |-> "open"]
         /\ \A a \in Ids : a \notin Open(q) => proposals'[a] = proposals[a]
  <1> DEFINE closed == [a \in Ids |-> IF a \in Open(q)
                                      THEN [proposals[a] EXCEPT !.outcome = "DISCARDED"]
                                      ELSE proposals[a]]
             new == [request |-> q, startedAt |-> time, leaseExpiresAt |-> time + ProposalLease,
                     outcome |-> "open"]
  <1>1. /\ proposals \in Seq(Attempts) /\ Len(proposals) \in Nat /\ Ids = 1..Len(proposals)
        /\ time \in Nat
    BY RowsOfAttempts
  <1>2. proposals' = Append(closed, new)
    BY DEF ClaimProposal
  <1>3. new \in Attempts
    BY <1>1, SessionNumbers DEF Attempts, Outcomes
  <1>4. closed \in [1..Len(proposals) -> Attempts]
    <2> SUFFICES ASSUME NEW a \in Ids PROVE closed[a] \in Attempts
      BY <1>1
    <2>1. proposals[a] \in Attempts
      BY RowsOfAttempts
    <2>2. [proposals[a] EXCEPT !.outcome = "DISCARDED"] \in Attempts
      BY <2>1 DEF Attempts, Outcomes
    <2> QED
      BY <2>1, <2>2
  <1>5. closed \in Seq(Attempts) /\ Len(closed) = Len(proposals)
    BY <1>1, <1>4
  <1>6. ASSUME NEW a \in Ids
        PROVE  /\ closed[a].request = proposals[a].request
               /\ closed[a].startedAt = proposals[a].startedAt
               /\ closed[a].leaseExpiresAt = proposals[a].leaseExpiresAt
               /\ proposals[a].outcome # "open" => closed[a].outcome = proposals[a].outcome
               /\ a \notin Open(q) => closed[a] = proposals[a]
    <2>1. proposals[a] \in Attempts
      BY RowsOfAttempts
    <2> QED
      BY <2>1 DEF Attempts, Open
  <1> HIDE DEF closed, new
  <1>7. /\ proposals' \in Seq(Attempts) /\ Len(proposals') = Len(proposals) + 1
        /\ proposals'[Len(proposals) + 1] = new
        /\ \A a \in Ids : proposals'[a] = closed[a]
    BY <1>1, <1>2, <1>3, <1>5
  <1>8. Len(proposals) <= Len(proposals')
    BY <1>1, <1>7
  <1> QED
    BY <1>6, <1>7, <1>8 DEF new, Evolves

-----------------------------------------------------------------------------
(* The steps that open no attempt and do not move the clock.               *)

\* The busy go on with their claim, work only ends, and who gets an outcome was
\* not worked on.
Settles ==
  /\ time' = time
  /\ \E a : Closes(a) /\ a \notin Work
  /\ Work' \subseteq Work
  /\ \A c \in Proposers : proposing'[c] # "idle" => proposing[c] # "idle" /\ claim'[c] = claim[c]

LEMMA StartsAreFinite ==
  ASSUME SessionTypeOK, NEW t
  PROVE  IsFiniteSet(StartsIn(t)) /\ Cardinality(StartsIn(t)) \in Nat
  <1>1. IsFiniteSet(1..Len(proposals))
    BY RowsOfAttempts, FS_Interval
  <1>2. StartsIn(t) \subseteq 1..Len(proposals)
    BY DEF StartsIn, Ids
  <1>3. IsFiniteSet(StartsIn(t))
    BY <1>1, <1>2, FS_Subset
  <1> QED
    BY <1>3, FS_CardinalityType

LEMMA SettlesInv ==
  ASSUME SessionInv, Settles
  PROVE  ClaimsInv' /\ WorkInv' /\ StartsInv'
  <1> USE DEF SessionInv
  <1>1. PICK a : Closes(a) /\ a \notin Work
    BY DEF Settles
  <1>2. /\ Ids' = Ids /\ time' = time
        /\ \A b \in Ids : /\ proposals'[b].request = proposals[b].request
                          /\ proposals'[b].startedAt = proposals[b].startedAt
                          /\ proposals'[b].leaseExpiresAt = proposals[b].leaseExpiresAt
                          /\ b # a => proposals'[b].outcome = proposals[b].outcome
    BY <1>1 DEF Closes, Evolves, Ids, Settles
  <1>3. ClaimsInv'
    <2>1. \A c \in Proposers :
            proposing'[c] # "idle" => proposing[c] # "idle" /\ claim'[c] = claim[c]
      BY DEF Settles
    <2>2. ASSUME NEW c \in Proposers, proposing'[c] # "idle" PROVE claim'[c] \in Ids'
      BY <1>2, <2>1, <2>2 DEF ClaimsInv
    <2>3. ASSUME NEW c \in Proposers, NEW d \in Proposers, proposing'[c] # "idle",
                 proposing'[d] # "idle", claim'[c] = claim'[d]
          PROVE  c = d
      BY <2>1, <2>3 DEF ClaimsInv
    <2> QED
      BY <2>2, <2>3 DEF ClaimsInv
  <1>4. WorkInv'
    <2>1. ASSUME NEW b \in Work'
          PROVE  b \in Work /\ b \in Ids /\ b # a
      BY <1>1 DEF Settles, WorkInv
    <2>2. ASSUME NEW b \in Work'
          PROVE  b \in Ids' /\ proposals'[b].outcome = "open" /\ time' < proposals'[b].leaseExpiresAt
      BY <1>2, <2>1 DEF WorkInv
    <2>3. ASSUME NEW b \in Work', NEW d \in Work', proposals'[b].request = proposals'[d].request
          PROVE  b = d
      BY <1>2, <2>1, <2>3 DEF WorkInv
    <2> QED
      BY <2>2, <2>3 DEF WorkInv
  <1>5. StartsInv'
    <2>1. \A b \in Ids' : proposals'[b].startedAt <= time'
      BY <1>2 DEF StartsInv
    <2>2. \A t : StartsIn(t)' = StartsIn(t)
      BY <1>2 DEF StartsIn
    <2> QED
      BY <1>2, <2>1, <2>2 DEF StartsInv, StartsWithinQuota
  <1> QED
    BY <1>3, <1>4, <1>5

LEMMA WorkShrinks ==
  ASSUME jobs' \subseteq jobs,
         \A c \in Proposers : proposing'[c] = "call" => proposing[c] = "call" /\ claim'[c] = claim[c]
  PROVE  Work' \subseteq Work
  BY DEF Work

\* Work is of the attempts there are.
LEMMA NothingIsNoWork ==
  ASSUME SessionInv
  PROVE  0 \notin Work
  BY RowsOfAttempts DEF SessionInv, WorkInv

LEMMA SettlesUnopened ==
  ASSUME SessionInv, time' = time, proposals' = proposals, Work' \subseteq Work,
         \A c \in Proposers :
           proposing'[c] # "idle" => proposing[c] # "idle" /\ claim'[c] = claim[c]
  PROVE  Settles
  BY SameFacts, NothingIsNoWork DEF Settles, SessionInv

LEMMA ActiveShrinks ==
  ASSUME ActiveInv, Active' \subseteq Active
  PROVE  ActiveInv'
  <1>1. IsFiniteSet(Active') /\ Cardinality(Active') <= Cardinality(Active)
    BY FS_Subset DEF ActiveInv
  <1>2. Cardinality(Active') \in Nat /\ Cardinality(Active) \in Nat /\ MaxActive \in Nat
    BY <1>1, FS_CardinalityType, SessionNumbers DEF ActiveInv
  <1> QED
    BY <1>1, <1>2 DEF ActiveInv, OpenRequestsBounded

LEMMA ActiveStays ==
  ASSUME ActiveInv, request' = request, time' = time
  PROVE  ActiveInv'
  BY DEF ActiveInv, OpenRequestsBounded, Active, Expired

-----------------------------------------------------------------------------
(* The holder, the issuer and the clock.                                   *)

LEMMA ConsentSessionInv ==
  ASSUME SessionInv, RevokeLink \/ ChangePolicy
  PROVE  SessionInv' /\ Settles
  <1>1. UNCHANGED <<time, request, proposals, jobs, proposing, claim, tries>>
    BY DEF RevokeLink, ChangePolicy, proposerLocals
  <1>2. valid' \in BOOLEAN /\ allowed' \in BOOLEAN
    BY DEF RevokeLink, ChangePolicy, SessionInv, SessionTypeOK
  <1>3. SessionTypeOK'
    BY <1>1, <1>2 DEF SessionInv, SessionTypeOK, Ids
  <1>4. Settles
    BY <1>1, WorkShrinks, SettlesUnopened
  <1>5. AnswersInv'
    BY <1>1 DEF SessionInv, AnswersInv
  <1> QED
    BY <1>1, <1>3, <1>4, <1>5, SettlesInv, ActiveStays DEF SessionInv

LEMMA TimeSessionInv ==
  ASSUME SessionInv, TimePasses
  PROVE  SessionInv'
  <1> USE DEF SessionInv
  <1>1. /\ UNCHANGED <<valid, allowed, request, proposals, jobs, proposing, claim, tries>>
        /\ time < Horizon /\ time' = time + 1
        /\ \A a \in Work : time + 1 < proposals[a].leaseExpiresAt
    BY DEF TimePasses, proposerLocals
  <1>2. time \in Nat /\ Horizon \in Nat /\ Ids' = Ids /\ Work' = Work
    BY <1>1, RowsOfAttempts, SessionNumbers DEF Ids, Work
  <1>3. time' \in 0..Horizon
    BY <1>1, <1>2
  <1>4. SessionTypeOK'
    BY <1>1, <1>2, <1>3 DEF SessionTypeOK
  <1>5. ClaimsInv' /\ AnswersInv'
    BY <1>1, <1>2 DEF ClaimsInv, AnswersInv
  <1>6. WorkInv'
    BY <1>1, <1>2 DEF WorkInv
  <1>7. StartsInv'
    <2>1. \A a \in Ids : proposals[a].startedAt \in Nat /\ proposals[a].startedAt <= time
      BY RowsOfAttempts DEF StartsInv, Attempts
    <2>2. \A t : StartsIn(t)' = StartsIn(t)
      BY <1>1, <1>2 DEF StartsIn
    <2>3. ASSUME NEW t \in 0..time' PROVE Cardinality(StartsIn(t)) <= Quota
      <3>1. CASE t \in 0..time
        BY <3>1 DEF StartsInv, StartsWithinQuota
      <3>2. CASE t = time + 1
        <4>1. StartsIn(t) \subseteq StartsIn(time)
          BY <1>2, <2>1, <3>2, SessionNumbers DEF StartsIn
        <4>2. Cardinality(StartsIn(t)) <= Cardinality(StartsIn(time))
          BY <4>1, StartsAreFinite, FS_Subset
        <4>3. Cardinality(StartsIn(time)) <= Quota
          BY <1>2 DEF StartsInv, StartsWithinQuota
        <4> QED
          BY <4>2, <4>3, StartsAreFinite, SessionNumbers
      <3> QED
        BY <1>1, <1>2, <3>1, <3>2
    <2> QED
      BY <1>1, <1>2, <2>1, <2>2, <2>3 DEF StartsInv, StartsWithinQuota
  <1>8. ActiveInv'
    <2>1. \A q \in Sessions : request[q].expiresAt \in Nat
      BY DEF SessionTypeOK
    <2>2. \A q \in Sessions : Expired(q) => Expired(q)'
      BY <1>1, <1>2, <2>1 DEF Expired
    <2>3. Active' \subseteq Active
      BY <1>1, <2>2 DEF Active
    <2> QED
      BY <2>3, ActiveShrinks
  <1> QED
    BY <1>4, <1>5, <1>6, <1>7, <1>8

-----------------------------------------------------------------------------
(* Drafts and confirmation.                                                *)

\* One row is written: the others, the attempts and the calls are untouched.
LEMMA RowsSettle ==
  ASSUME SessionInv, request' \in [Sessions -> Rows],
         UNCHANGED <<time, valid, allowed, proposals, jobs, proposerLocals>>
  PROVE  Settles /\ SessionTypeOK' /\ AnswersInv'
  <1> USE DEF SessionInv
  <1>1. UNCHANGED <<time, valid, allowed, proposals, jobs, proposing, claim, tries>>
    BY DEF proposerLocals
  <1>2. SessionTypeOK'
    BY <1>1 DEF SessionTypeOK, Rows, Ids
  <1>3. Settles
    BY <1>1, WorkShrinks, SettlesUnopened
  <1> QED
    BY <1>1, <1>2, <1>3 DEF AnswersInv

LEMMA DraftSessionInv ==
  ASSUME SessionInv, NEW q \in Sessions, CreateDraft(q)
  PROVE  SessionInv' /\ Settles
  <1>1. PICK r : r = [status |-> "draft", expiresAt |-> time + RequestTtl,
                      definition |-> NoDefinition]
    OBVIOUS
  <1>2. request' = [request EXCEPT ![q] = r] /\ time' = time
    BY <1>1 DEF CreateDraft
  <1>3. time \in Nat /\ RequestTtl \in Nat
    BY RowsOfAttempts, SessionNumbers DEF SessionInv
  <1>4. r \in Rows
    BY <1>1, <1>3 DEF Rows, Statuses
  <1>5. request \in [Sessions -> Rows]
    BY DEF SessionInv, SessionTypeOK, Rows
  <1>6. request' \in [Sessions -> Rows]
    BY <1>2, <1>4, <1>5
  <1>7. UNCHANGED <<time, valid, allowed, proposals, jobs, proposerLocals>>
    BY DEF CreateDraft
  <1>8. Settles /\ SessionTypeOK' /\ AnswersInv'
    BY <1>6, <1>7, RowsSettle
  <1>9. ActiveInv'
    <2>1. IsFiniteSet(Active) /\ Cardinality(Active) < MaxActive
      BY DEF SessionInv, ActiveInv, CreateDraft, RoomForDraft
    <2>2. Active' \subseteq Active \cup {q}
      BY <1>2, <1>5 DEF Active, Expired
    <2>a. Cardinality(Active) \in Nat
      BY <2>1, FS_CardinalityType
    <2>b. /\ IsFiniteSet(Active \cup {q})
          /\ \/ Cardinality(Active \cup {q}) = Cardinality(Active)
             \/ Cardinality(Active \cup {q}) = Cardinality(Active) + 1
      BY <2>1, FS_AddElement, Zenon
    <2>3. /\ IsFiniteSet(Active \cup {q})
          /\ Cardinality(Active \cup {q}) <= Cardinality(Active) + 1
          /\ Cardinality(Active) \in Nat
      BY <2>a, <2>b
    <2>4. IsFiniteSet(Active') /\ Cardinality(Active') <= Cardinality(Active \cup {q})
      BY <2>2, <2>3, FS_Subset
    <2>5. Cardinality(Active') \in Nat /\ Cardinality(Active \cup {q}) \in Nat
      BY <2>3, <2>4, FS_CardinalityType
    <2>6. Cardinality(Active') <= MaxActive
      BY <2>1, <2>3, <2>4, <2>5, SessionNumbers
    <2> QED
      BY <2>4, <2>6 DEF ActiveInv, OpenRequestsBounded
  <1> QED
    BY <1>8, <1>9, SettlesInv DEF SessionInv

LEMMA ConfirmSessionInv ==
  ASSUME SessionInv, NEW q \in Sessions, Confirm(q)
  PROVE  SessionInv' /\ Settles
  <1>1. PICK d \in Definitions :
          request' = [request EXCEPT ![q].status = "confirmed", ![q].definition = d]
    BY DEF Confirm
  <1>2. request \in [Sessions -> Rows] /\ request[q] \in Rows
    BY DEF SessionInv, SessionTypeOK, Rows
  <1>3. PICK r : r = [request[q] EXCEPT !.status = "confirmed", !.definition = d]
    OBVIOUS
  <1>4. r \in Rows /\ r.expiresAt = request[q].expiresAt
    BY <1>2, <1>3 DEF Rows, Statuses
  <1>5. request' = [request EXCEPT ![q] = r]
    BY <1>1, <1>2, <1>3
  <1>6. request' \in [Sessions -> Rows]
    BY <1>2, <1>4, <1>5
  <1>7. UNCHANGED <<time, valid, allowed, proposals, jobs, proposerLocals>>
    BY DEF Confirm
  <1>8. Settles /\ SessionTypeOK' /\ AnswersInv'
    BY <1>6, <1>7, RowsSettle
  <1>9. q \in Active
    BY DEF Confirm, Confirmable, Active
  <1>10. Active' \subseteq Active
    BY <1>2, <1>4, <1>5, <1>7, <1>9 DEF Active, Expired
  <1> QED
    BY <1>8, <1>10, SettlesInv, ActiveShrinks DEF SessionInv

LEMMA ConsumeSessionInv ==
  ASSUME SessionInv, NEW q \in Sessions, Consume(q)
  PROVE  SessionInv' /\ Settles
  <1>1. request \in [Sessions -> Rows] /\ request[q] \in Rows
    BY DEF SessionInv, SessionTypeOK, Rows
  <1>2. PICK r : r = [request[q] EXCEPT !.status = "consumed"]
    OBVIOUS
  <1>3. r \in Rows /\ r.status = "consumed"
    BY <1>1, <1>2 DEF Rows, Statuses
  <1>4. request' = [request EXCEPT ![q] = r]
    BY <1>2 DEF Consume
  <1>5. request' \in [Sessions -> Rows]
    BY <1>1, <1>3, <1>4
  <1>6. UNCHANGED <<time, valid, allowed, proposals, jobs, proposerLocals>>
    BY DEF Consume
  <1>7. Settles /\ SessionTypeOK' /\ AnswersInv'
    BY <1>5, <1>6, RowsSettle
  <1>8. Active' \subseteq Active
    BY <1>1, <1>3, <1>4, <1>6 DEF Active, Expired
  <1> QED
    BY <1>7, <1>8, SettlesInv, ActiveShrinks DEF SessionInv

-----------------------------------------------------------------------------
(* The claim of a proposal.                                                *)

LEMMA ClaimSessionInv ==
  ASSUME SessionInv, NEW c \in Proposers, NEW q \in Sessions, ClaimProposal(c, q)
  PROVE  SessionInv' /\ Evolves
  <1> USE DEF SessionInv
  <1>1. PICK n : n = Len(proposals) + 1
    OBVIOUS
  <1>2. /\ Evolves /\ Len(proposals') = n
        /\ proposals'[n] = [request |-> q, startedAt |-> time,
                            leaseExpiresAt |-> time + ProposalLease, outcome |-> "open"]
        /\ \A a \in Ids : a \notin Open(q) => proposals'[a] = proposals[a]
    BY <1>1, ClaimFacts
  <1>3. /\ n \in Nat /\ n > 0 /\ n \notin Ids /\ Ids' = Ids \cup {n} /\ time \in Nat
        /\ Len(proposals) \in Nat
    BY <1>1, <1>2, RowsOfAttempts DEF Ids
  <1>4. /\ UNCHANGED <<time, valid, allowed, request, jobs>>
        /\ proposing[c] = "idle" /\ NoLiveClaim(q) /\ WithinLimits
        /\ proposing' = [proposing EXCEPT ![c] = "call"]
        /\ claim' = [claim EXCEPT ![c] = n]
        /\ tries' = [tries EXCEPT ![c] = 1]
    BY <1>1 DEF ClaimProposal
  <1>5. /\ proposing \in [Proposers -> Places] /\ claim \in [Proposers -> Nat]
        /\ tries \in [Proposers -> 0..Retries]
    BY DEF SessionTypeOK, Places
  <1>6. /\ proposing'[c] = "call" /\ claim'[c] = n
        /\ \A d \in Proposers : d # c => proposing'[d] = proposing[d] /\ claim'[d] = claim[d]
    BY <1>4, <1>5
  <1>7. SessionTypeOK'
    <2>1. tries' \in [Proposers -> 0..Retries]
      BY <1>4, <1>5, SessionNumbers
    <2>2. proposing' \in [Proposers -> Places] /\ claim' \in [Proposers -> Nat]
      BY <1>3, <1>4, <1>5 DEF Places
    <2>3. proposals' \in Seq(Attempts)
      BY <1>2 DEF Evolves
    <2> QED
      BY <1>3, <1>4, <2>1, <2>2, <2>3 DEF SessionTypeOK, Places, Attempts
  <1>8. ClaimsInv'
    <2>1. ASSUME NEW d \in Proposers, proposing'[d] # "idle" PROVE claim'[d] \in Ids'
      BY <1>3, <1>6, <2>1 DEF ClaimsInv
    <2>2. ASSUME NEW d \in Proposers, d # c, proposing'[d] # "idle" PROVE claim'[d] # n
      BY <1>3, <1>6, <2>2 DEF ClaimsInv
    <2>3. ASSUME NEW d \in Proposers, NEW e \in Proposers, proposing'[d] # "idle",
                 proposing'[e] # "idle", claim'[d] = claim'[e]
          PROVE  d = e
      BY <1>6, <2>2, <2>3 DEF ClaimsInv
    <2> QED
      BY <2>1, <2>3 DEF ClaimsInv
  <1>9. AnswersInv'
    BY <1>4, <1>6 DEF AnswersInv
  <1>10. WorkInv'
    <2>1. ASSUME NEW a \in Work' PROVE a \in Work \/ a = n
      BY <1>4, <1>6 DEF Work
    <2>2. ASSUME NEW a \in Work
          PROVE  /\ a \in Ids /\ a \notin Open(q) /\ proposals[a].request # q
                 /\ proposals'[a] = proposals[a]
      <3>1. /\ a \in Ids /\ proposals[a].outcome = "open" /\ time < proposals[a].leaseExpiresAt
            /\ proposals[a].leaseExpiresAt \in Nat
        BY RowsOfAttempts DEF WorkInv, Attempts
      <3>2. a \notin Open(q)
        BY <1>3, <1>4, <3>1 DEF NoLiveClaim
      <3> QED
        BY <1>2, <3>1, <3>2 DEF Open
    <2>3. /\ proposals'[n].request = q /\ proposals'[n].outcome = "open"
          /\ proposals'[n].leaseExpiresAt = time + ProposalLease
      BY <1>2
    <2>4. time < time + ProposalLease
      BY <1>3, SessionNumbers
    <2>5. ASSUME NEW a \in Work'
          PROVE  a \in Ids' /\ proposals'[a].outcome = "open" /\ time' < proposals'[a].leaseExpiresAt
      BY <1>3, <1>4, <2>1, <2>2, <2>3, <2>4 DEF WorkInv
    <2>6. ASSUME NEW a \in Work', NEW b \in Work', proposals'[a].request = proposals'[b].request
          PROVE  a = b
      BY <2>1, <2>2, <2>3, <2>6 DEF WorkInv
    <2> QED
      BY <2>5, <2>6 DEF WorkInv
  <1>11. StartsInv'
    <2>1. /\ \A a \in Ids : /\ proposals'[a].startedAt = proposals[a].startedAt
                            /\ proposals[a].startedAt <= time /\ proposals[a].startedAt \in Nat
          /\ proposals'[n].startedAt = time
      BY <1>2, RowsOfAttempts DEF Evolves, StartsInv, Attempts
    <2>2. \A a \in Ids' : proposals'[a].startedAt <= time'
      BY <1>3, <1>4, <2>1
    <2>3. ASSUME NEW t \in 0..time PROVE Cardinality(StartsIn(t)') <= Quota
      <3>1. CASE t < time
        <4>1. StartsIn(t)' = StartsIn(t)
          BY <1>3, <2>1, <3>1, SessionNumbers DEF StartsIn
        <4> QED
          BY <4>1 DEF StartsInv, StartsWithinQuota
      <3>2. CASE t = time
        <4>1. StartsIn(time)' \subseteq StartsIn(time) \cup {n}
          BY <1>3, <1>4, <2>1 DEF StartsIn
        <4>2. StartsIn(time) = Since(time - StartsWindow)
          BY <1>3, <2>1, SessionNumbers DEF StartsIn, Since
        <4>3. Cardinality(StartsIn(time)) < Quota
          BY <1>4, <4>2 DEF WithinLimits
        <4>4. /\ IsFiniteSet(StartsIn(time) \cup {n})
              /\ Cardinality(StartsIn(time) \cup {n}) <= Cardinality(StartsIn(time)) + 1
          BY StartsAreFinite, FS_AddElement
        <4>5. IsFiniteSet(StartsIn(time)') /\ Cardinality(StartsIn(time)') <= Cardinality(StartsIn(time) \cup {n})
          BY <4>1, <4>4, FS_Subset
        <4>6. Cardinality(StartsIn(time)') \in Nat /\ Cardinality(StartsIn(time) \cup {n}) \in Nat
          BY <4>4, <4>5, FS_CardinalityType
        <4>7. Cardinality(StartsIn(time)') <= Quota
          BY <4>3, <4>4, <4>5, <4>6, StartsAreFinite, SessionNumbers
        <4> QED
          BY <1>4, <3>2, <4>7
      <3> QED
        BY <1>3, <3>1, <3>2
    <2> QED
      BY <1>4, <2>2, <2>3 DEF StartsInv, StartsWithinQuota
  <1>12. ActiveInv'
    BY <1>4, ActiveStays
  <1> QED
    BY <1>2, <1>7, <1>8, <1>9, <1>10, <1>11, <1>12

-----------------------------------------------------------------------------
(* The calls.                                                              *)

\* A call that returns holds nothing, and the others go on.
LEMMA ReturnFacts ==
  ASSUME SessionTypeOK, NEW c \in Proposers, Return(c)
  PROVE  /\ proposing' \in [Proposers -> Places] /\ claim' \in [Proposers -> Nat]
         /\ tries' \in [Proposers -> 0..Retries]
         /\ proposing'[c] = "idle"
         /\ \A d \in Proposers : d # c => proposing'[d] = proposing[d] /\ claim'[d] = claim[d]
  BY SessionNumbers DEF SessionTypeOK, Return, Places

\* A step at the end of a call, or of the provider: the work there is goes on
\* or ends, and what it has no part in is as it was.
LEMMA ReturnSessionInv ==
  ASSUME SessionInv, NEW c \in Proposers, Return(c), time' = time, jobs' = jobs,
         valid' = valid, allowed' = allowed, request' \in [Sessions -> Rows],
         NEW a, Closes(a), a \notin Work
  PROVE  SessionTypeOK' /\ ClaimsInv' /\ AnswersInv' /\ WorkInv' /\ StartsInv' /\ Settles
  <1> USE DEF SessionInv
  <1>1. /\ proposing' \in [Proposers -> Places] /\ claim' \in [Proposers -> Nat]
        /\ tries' \in [Proposers -> 0..Retries] /\ proposing'[c] = "idle"
        /\ \A d \in Proposers : d # c => proposing'[d] = proposing[d] /\ claim'[d] = claim[d]
    BY ReturnFacts
  <1>2. \A d \in Proposers : proposing'[d] # "idle" =>
          d # c /\ proposing'[d] = proposing[d] /\ claim'[d] = claim[d]
    BY <1>1
  <1>3. Work' \subseteq Work
    BY <1>2, WorkShrinks
  <1>4. Settles
    BY <1>2, <1>3 DEF Settles
  <1>5. proposals' \in Seq(Attempts) /\ Ids' = Ids
    BY DEF Closes, Evolves, Ids
  <1>6. SessionTypeOK'
    BY <1>1, <1>5 DEF SessionTypeOK, Attempts, Rows, Places
  <1>7. AnswersInv'
    BY <1>2 DEF AnswersInv
  <1> QED
    BY <1>4, <1>6, <1>7, SettlesInv

\* The attempt of an answer is not worked on any more.
LEMMA AnswersAreNoWork ==
  ASSUME SessionInv, NEW c \in Proposers, proposing[c] \in {"accept", "reject"}
  PROVE  claim[c] \in Ids /\ claim[c] \notin Work
  BY DEF SessionInv, ClaimsInv, AnswersInv, Work

LEMMA StartSessionInv ==
  ASSUME SessionInv, NEW c \in Proposers, StartJob(c)
  PROVE  SessionInv' /\ Settles
  <1> USE DEF SessionInv
  <1>1. /\ UNCHANGED <<time, valid, allowed, request, proposals, claim, tries>>
        /\ jobs' = jobs \cup {claim[c]} /\ proposing[c] = "call"
        /\ proposing' = [proposing EXCEPT ![c] = "waiting"]
    BY DEF StartJob
  <1>2. /\ proposing \in [Proposers -> Places]
        /\ claim[c] \in Ids
    BY <1>1 DEF SessionTypeOK, Places, ClaimsInv
  <1>3. /\ proposing' \in [Proposers -> Places] /\ proposing'[c] = "waiting"
        /\ \A d \in Proposers : d # c => proposing'[d] = proposing[d]
    BY <1>1, <1>2 DEF Places
  <1>4. SessionTypeOK'
    BY <1>1, <1>2, <1>3 DEF SessionTypeOK, Places, Ids
  <1>5. Work' \subseteq Work
    BY <1>1, <1>3 DEF Work
  <1>6. Settles
    BY <1>1, <1>3, <1>5, SettlesUnopened
  <1>7. AnswersInv'
    BY <1>1, <1>3 DEF AnswersInv, ClaimsInv
  <1> QED
    BY <1>1, <1>4, <1>6, <1>7, SettlesInv, ActiveStays

LEMMA ProviderSessionInv ==
  ASSUME SessionInv, NEW c \in Proposers, ProviderAnswers(c)
  PROVE  SessionInv' /\ Settles
  <1> USE DEF SessionInv
  <1>1. /\ UNCHANGED <<time, valid, allowed, request, proposals, claim, tries>>
        /\ jobs' = jobs \ {claim[c]} /\ proposing[c] = "waiting"
    BY DEF ProviderAnswers
  <1>2. PICK step \in {"accept", "reject"} : proposing' = [proposing EXCEPT ![c] = step]
    BY DEF ProviderAnswers
  <1>3. proposing \in [Proposers -> Places]
    BY DEF SessionTypeOK, Places
  <1>4. /\ proposing' \in [Proposers -> Places] /\ proposing'[c] = step
        /\ \A d \in Proposers : d # c => proposing'[d] = proposing[d]
    BY <1>2, <1>3 DEF Places
  <1>5. SessionTypeOK'
    BY <1>1, <1>4 DEF SessionTypeOK, Places, Ids
  <1>6. Work' \subseteq Work
    BY <1>1, <1>4, WorkShrinks
  <1>7. Settles
    BY <1>1, <1>4, <1>6, SettlesUnopened
  <1>8. AnswersInv'
    BY <1>1, <1>4 DEF AnswersInv
  <1> QED
    BY <1>1, <1>5, <1>7, <1>8, SettlesInv, ActiveStays

LEMMA WorkEndsSessionInv ==
  ASSUME SessionInv, NEW a \in jobs, JobEnds(a)
  PROVE  SessionInv' /\ Settles
  <1> USE DEF SessionInv
  <1>1. /\ UNCHANGED <<time, valid, allowed, request, proposals, proposing, claim, tries>>
        /\ jobs' = jobs \ {a}
    BY DEF JobEnds, proposerLocals
  <1>2. SessionTypeOK'
    BY <1>1 DEF SessionTypeOK, Ids
  <1>3. Settles
    BY <1>1, WorkShrinks, SettlesUnopened
  <1>4. AnswersInv'
    BY <1>1 DEF AnswersInv
  <1> QED
    BY <1>1, <1>2, <1>3, <1>4, SettlesInv, ActiveStays

LEMMA UnopenedReturnInv ==
  ASSUME SessionInv, NEW c \in Proposers, Return(c),
         UNCHANGED <<time, valid, allowed, request, proposals, jobs>>
  PROVE  SessionInv' /\ Settles
  <1> USE DEF SessionInv
  <1>1. request' \in [Sessions -> Rows]
    BY DEF SessionTypeOK, Rows
  <1>2. Closes(0) /\ 0 \notin Work
    BY SameFacts, NothingIsNoWork
  <1> QED
    BY <1>1, <1>2, ReturnSessionInv, ActiveStays

LEMMA UnavailableSessionInv ==
  ASSUME SessionInv, NEW c \in Proposers, ProposalUnavailable(c)
  PROVE  SessionInv' /\ Settles
  <1> USE DEF SessionInv
  <1>1. /\ proposing[c] = "reject" /\ Return(c)
        /\ UNCHANGED <<time, valid, allowed, request, jobs>>
    BY DEF ProposalUnavailable
  <1>2. CASE proposals[claim[c]].outcome = "open"
    <2>1. proposals' = Close(claim[c], "FAILED")
      BY <1>2 DEF ProposalUnavailable
    <2>2. claim[c] \in Ids /\ claim[c] \notin Work
      BY <1>1, AnswersAreNoWork
    <2>3. "FAILED" \in Outcomes
      BY DEF Outcomes
    <2>4. Closes(claim[c])
      BY <1>2, <2>1, <2>2, <2>3, CloseFacts
    <2>5. request' \in [Sessions -> Rows]
      BY <1>1 DEF SessionTypeOK, Rows
    <2> QED
      BY <1>1, <2>2, <2>4, <2>5, ReturnSessionInv, ActiveStays
  <1>3. CASE proposals[claim[c]].outcome # "open"
    <2>1. proposals' = proposals
      BY <1>3 DEF ProposalUnavailable
    <2> QED
      BY <1>1, <2>1, UnopenedReturnInv
  <1> QED
    BY <1>2, <1>3

LEMMA AcceptSessionInv ==
  ASSUME SessionInv, NEW c \in Proposers, Accept(c)
  PROVE  SessionInv' /\ Settles
  <1> USE DEF SessionInv
  <1>1. PICK a, q : a = claim[c] /\ q = proposals[a].request
    OBVIOUS
  <1>2. /\ proposing[c] = "accept" /\ proposals[a].outcome = "open" /\ Acceptable(q)
        /\ proposals' = Close(a, "SUCCEEDED")
        /\ request' = [request EXCEPT ![q].status = "proposed"]
        /\ Return(c) /\ UNCHANGED <<time, valid, allowed, jobs>>
    BY <1>1 DEF Accept, NotSuperseded
  <1>3. a \in Ids /\ a \notin Work
    BY <1>1, <1>2, AnswersAreNoWork
  <1>4. q \in Sessions
    BY <1>1, <1>3, RowsOfAttempts DEF Attempts
  <1>5. "SUCCEEDED" \in Outcomes
    BY DEF Outcomes
  <1>6. Closes(a)
    BY <1>2, <1>3, <1>5, CloseFacts
  <1>7. request \in [Sessions -> Rows] /\ request[q] \in Rows
    BY <1>4 DEF SessionTypeOK, Rows
  <1>8. PICK r : r = [request[q] EXCEPT !.status = "proposed"]
    OBVIOUS
  <1>9. r \in Rows /\ r.expiresAt = request[q].expiresAt
    BY <1>7, <1>8 DEF Rows, Statuses
  <1>10. request' = [request EXCEPT ![q] = r]
    BY <1>2, <1>8
  <1>11. request' \in [Sessions -> Rows]
    BY <1>7, <1>9, <1>10
  <1>12. q \in Active
    BY <1>2, <1>4 DEF Acceptable, Active
  <1>13. Active' \subseteq Active
    BY <1>2, <1>7, <1>9, <1>10, <1>12 DEF Active, Expired
  <1> QED
    BY <1>2, <1>3, <1>6, <1>11, <1>13, ReturnSessionInv, ActiveShrinks

LEMMA DiscardSessionInv ==
  ASSUME SessionInv, NEW c \in Proposers, Discard(c)
  PROVE  SessionInv' /\ Settles
  <1> USE DEF SessionInv
  <1>1. /\ proposing[c] = "accept" /\ proposals[claim[c]].outcome = "open"
        /\ proposals' = Close(claim[c], "DISCARDED")
        /\ Return(c) /\ UNCHANGED <<time, valid, allowed, request, jobs>>
    BY DEF Discard, NotSuperseded
  <1>2. claim[c] \in Ids /\ claim[c] \notin Work
    BY <1>1, AnswersAreNoWork
  <1>3. "DISCARDED" \in Outcomes
    BY DEF Outcomes
  <1>4. Closes(claim[c])
    BY <1>1, <1>2, <1>3, CloseFacts
  <1>5. request' \in [Sessions -> Rows]
    BY <1>1 DEF SessionTypeOK, Rows
  <1> QED
    BY <1>1, <1>2, <1>4, <1>5, ReturnSessionInv, ActiveStays

LEMMA ConflictSessionInv ==
  ASSUME SessionInv, NEW c \in Proposers, AcceptConflicts(c)
  PROVE  SessionInv' /\ Settles
  <1> USE DEF SessionInv
  <1>1. UNCHANGED <<time, valid, allowed, request, proposals, jobs>>
    BY DEF AcceptConflicts
  <1>2. CASE CanRetry(c)
    <2>1. tries' = [tries EXCEPT ![c] = tries[c] + 1] /\ UNCHANGED <<proposing, claim>>
      BY <1>2 DEF AcceptConflicts
    <2>2. tries \in [Proposers -> 0..Retries] /\ tries[c] < Retries
      BY <1>2 DEF CanRetry, SessionTypeOK
    <2>3. tries' \in [Proposers -> 0..Retries]
      BY <2>1, <2>2, SessionNumbers
    <2>4. SessionTypeOK'
      BY <1>1, <2>1, <2>3 DEF SessionTypeOK, Ids
    <2>5. Settles
      BY <1>1, <2>1, WorkShrinks, SettlesUnopened
    <2>6. AnswersInv'
      BY <1>1, <2>1 DEF AnswersInv
    <2> QED
      BY <1>1, <2>4, <2>5, <2>6, SettlesInv, ActiveStays
  <1>3. CASE ~CanRetry(c)
    <2>1. Return(c)
      BY <1>3 DEF AcceptConflicts
    <2> QED
      BY <1>1, <2>1, UnopenedReturnInv
  <1> QED
    BY <1>2, <1>3

LEMMA GivesUpSessionInv ==
  ASSUME SessionInv, NEW c \in Proposers, TransportFails(c) \/ Superseded(c) \/ ProposerDies(c)
  PROVE  SessionInv' /\ Settles
  <1>1. Return(c) /\ UNCHANGED <<time, valid, allowed, request, proposals, jobs>>
    BY DEF TransportFails, Superseded, ProposerDies, OnTransportFailure
  <1> QED
    BY <1>1, UnopenedReturnInv

-----------------------------------------------------------------------------
(* The theorems.                                                           *)

LEMMA SessionInitInv == SessionInit => SessionInv
  <1> SUFFICES ASSUME SessionInit PROVE SessionInv
    OBVIOUS
  <1> USE DEF SessionInit
  <1>1. Absent \in Rows
    BY DEF Absent, Rows, Statuses
  <1>2. request \in [Sessions -> Rows]
    BY <1>1
  <1>3. proposals \in Seq(Attempts) /\ Len(proposals) = 0
    OBVIOUS
  <1>4. Ids = {}
    BY <1>3 DEF Ids
  <1>5. 0 \in 0..Horizon /\ 0 \in 0..Retries
    BY SessionNumbers
  <1>6. SessionTypeOK
    BY <1>2, <1>3, <1>4, <1>5 DEF SessionTypeOK, Attempts, Rows
  <1>7. ClaimsInv /\ AnswersInv
    BY DEF ClaimsInv, AnswersInv
  <1>8. WorkInv
    <2>1. Work = {}
      BY DEF Work
    <2> QED
      BY <2>1 DEF WorkInv
  <1>9. StartsInv
    <2>1. \A t : StartsIn(t) = {}
      BY <1>4 DEF StartsIn
    <2>2. \A t : Cardinality(StartsIn(t)) = 0
      BY <2>1, FS_EmptySet, Zenon
    <2>3. StartsWithinQuota
      BY <2>2, SessionNumbers DEF StartsWithinQuota
    <2> QED
      BY <1>4, <2>3 DEF StartsInv
  <1>10. ActiveInv
    <2>1. Active = {}
      BY DEF Active, Absent
    <2> QED
      BY <2>1, FS_EmptySet, SessionNumbers DEF ActiveInv, OpenRequestsBounded
  <1> QED
    BY <1>6, <1>7, <1>8, <1>9, <1>10 DEF SessionInv

LEMMA SettlesEvolves ==
  ASSUME Settles
  PROVE  Evolves
  BY DEF Settles, Closes

LEMMA SessionStep ==
  ASSUME SessionInv, SessionNext
  PROVE  SessionInv' /\ Evolves
  <1>1. CASE RevokeLink \/ ChangePolicy
    BY <1>1, ConsentSessionInv, SettlesEvolves
  <1>2. CASE TimePasses
    <2>1. Evolves
      BY <1>2, SameFacts DEF TimePasses, Closes, SessionInv
    <2> QED
      BY <1>2, <2>1, TimeSessionInv
  <1>3. ASSUME NEW q \in Sessions, CreateDraft(q) \/ Confirm(q) \/ Consume(q)
        PROVE  SessionInv' /\ Evolves
    BY <1>3, DraftSessionInv, ConfirmSessionInv, ConsumeSessionInv, SettlesEvolves
  <1>4. ASSUME NEW q \in Sessions, NEW c \in Proposers, ClaimProposal(c, q)
        PROVE  SessionInv' /\ Evolves
    BY <1>4, ClaimSessionInv
  <1>5. ASSUME NEW c \in Proposers, StartJob(c) \/ ProviderAnswers(c)
        PROVE  SessionInv' /\ Evolves
    BY <1>5, StartSessionInv, ProviderSessionInv, SettlesEvolves
  <1>6. ASSUME NEW c \in Proposers,
               TransportFails(c) \/ Superseded(c) \/ ProposerDies(c) \/ AcceptConflicts(c)
        PROVE  SessionInv' /\ Evolves
    BY <1>6, GivesUpSessionInv, ConflictSessionInv, SettlesEvolves
  <1>7. ASSUME NEW c \in Proposers, ProposalUnavailable(c) \/ Accept(c) \/ Discard(c)
        PROVE  SessionInv' /\ Evolves
    BY <1>7, UnavailableSessionInv, AcceptSessionInv, DiscardSessionInv, SettlesEvolves
  <1>8. ASSUME NEW a \in jobs, JobEnds(a)
        PROVE  SessionInv' /\ Evolves
    BY <1>8, WorkEndsSessionInv, SettlesEvolves
  <1> QED
    BY <1>1, <1>2, <1>3, <1>4, <1>5, <1>6, <1>7, <1>8 DEF SessionNext

LEMMA SessionStutters ==
  ASSUME SessionInv, UNCHANGED sessionVars
  PROVE  SessionInv'
  <1>1. UNCHANGED <<time, valid, allowed, request, proposals, jobs, proposing, claim, tries>>
    BY DEF sessionVars, proposerLocals
  <1>2. Settles
    BY <1>1, WorkShrinks, SettlesUnopened
  <1>3. SessionTypeOK' /\ AnswersInv'
    BY <1>1 DEF SessionInv, SessionTypeOK, Ids, AnswersInv
  <1> QED
    BY <1>1, <1>2, <1>3, SettlesInv, ActiveStays DEF SessionInv

\* The inductive invariant of the session: work is of open attempts under
\* their lease, one of a request, answers end it, and starts and open requests
\* are counted as they are made (verification-request.service.ts and
\* verification-requirement-proposal.service.ts).
THEOREM SessionSafe == SessionSpec => []SessionInv
  <1>1. SessionInv /\ [SessionNext]_sessionVars => SessionInv'
    BY SessionStep, SessionStutters
  <1> QED
    BY <1>1, SessionInitInv, PTL DEF SessionSpec

LEMMA WorkIsSingle ==
  ASSUME WorkInv
  PROVE  NoParallelWork
  BY DEF WorkInv, NoParallelWork, Work

\* For any number of requests and of callers who give up, die and come back,
\* the provider works once at a time for a request, is asked within the quota
\* of every window, and no more requests are open than the link may have.
THEOREM ProviderWorkHolds == SessionSpec => []ProviderWorkIsBounded
  <1>1. SessionInv => ProviderWorkIsBounded
    BY WorkIsSingle DEF SessionInv, StartsInv, ActiveInv, ProviderWorkIsBounded
  <1> QED
    BY <1>1, SessionSafe, PTL

\* Only a draft is opened, only one that is not confirmed is confirmed, and a
\* proposal is accepted for a draft.
LEMMA ConfirmedStays ==
  ASSUME SessionInv, SessionNext, NEW q \in Sessions, request[q].status \in {"confirmed", "consumed"}
  PROVE  /\ request'[q].status \in {"confirmed", "consumed"}
         /\ request'[q].definition = request[q].definition
  <1>1. request \in [Sessions -> Rows] /\ request[q] \in Rows
    BY DEF SessionInv, SessionTypeOK, Rows
  <1>2. CASE request' = request
    BY <1>2
  <1>3. ASSUME NEW p \in Sessions, CreateDraft(p)
        PROVE  request'[q] = request[q]
    BY <1>1, <1>3 DEF CreateDraft
  <1>4. ASSUME NEW p \in Sessions, Confirm(p)
        PROVE  request'[q] = request[q]
    <2>1. p # q
      BY <1>4 DEF Confirm, Confirmable
    <2>2. PICK d \in Definitions :
            request' = [request EXCEPT ![p].status = "confirmed", ![p].definition = d]
      BY <1>4 DEF Confirm
    <2> QED
      BY <1>1, <2>1, <2>2
  <1>5. ASSUME NEW p \in Sessions, Consume(p)
        PROVE  request'[q].status \in {"confirmed", "consumed"} /\ request'[q].definition = request[q].definition
    <2>1. request' = [request EXCEPT ![p].status = "consumed"]
      BY <1>5 DEF Consume
    <2>2. CASE p # q
      BY <1>1, <2>1, <2>2
    <2>3. CASE p = q
      <3>1. request'[q] = [request[q] EXCEPT !.status = "consumed"]
        BY <1>1, <2>1, <2>3
      <3> QED
        BY <1>1, <3>1 DEF Rows
    <2> QED
      BY <2>2, <2>3
  <1>6. ASSUME NEW c \in Proposers, Accept(c)
        PROVE  request'[q] = request[q]
    <2>1. PICK p : p = proposals[claim[c]].request
      OBVIOUS
    <2>2. Acceptable(p) /\ request' = [request EXCEPT ![p].status = "proposed"]
      BY <1>6, <2>1 DEF Accept
    <2>3. p # q
      BY <2>2 DEF Acceptable
    <2> QED
      BY <1>1, <2>2, <2>3
  <1>7. ASSUME RevokeLink \/ ChangePolicy \/ TimePasses
        PROVE  request' = request
    BY <1>7 DEF RevokeLink, ChangePolicy, TimePasses
  <1>8. ASSUME NEW c \in Proposers,
               \/ \E p \in Sessions : ClaimProposal(c, p)
               \/ StartJob(c) \/ ProviderAnswers(c) \/ ProposalUnavailable(c) \/ TransportFails(c)
               \/ Discard(c) \/ Superseded(c) \/ AcceptConflicts(c) \/ ProposerDies(c)
        PROVE  request' = request
    BY <1>8 DEF ClaimProposal, StartJob, ProviderAnswers, ProposalUnavailable, TransportFails,
                Discard, Superseded, AcceptConflicts, ProposerDies
  <1>9. ASSUME NEW a \in jobs, JobEnds(a)
        PROVE  request' = request
    BY <1>9 DEF JobEnds
  <1> QED
    BY <1>2, <1>3, <1>4, <1>5, <1>6, <1>7, <1>8, <1>9 DEF SessionNext

\* A late answer, a second call and a second confirmation find what was
\* settled as it was: an attempt has one outcome, and what a verifier
\* confirmed is neither replaced nor taken back.
THEOREM SettledHolds == SessionSpec => SettledStaysSettled
  <1>1. SessionInv /\ [SessionNext]_sessionVars =>
          [\A a \in Ids : proposals[a].outcome # "open" =>
             proposals'[a].outcome = proposals[a].outcome]_sessionVars
    BY SessionStep DEF Evolves
  <1>2. SessionInv /\ [SessionNext]_sessionVars =>
          [\A q \in Sessions : request[q].status \in {"confirmed", "consumed"} =>
             /\ request'[q].status \in {"confirmed", "consumed"}
             /\ request'[q].definition = request[q].definition]_sessionVars
    BY ConfirmedStays
  <1> QED
    BY <1>1, <1>2, SessionSafe, PTL
      DEF SessionSpec, SettledStaysSettled, OutcomesAreFinal, ConfirmedIsImmutable
=============================================================================
