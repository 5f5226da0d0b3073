----------------------- MODULE VerificationExecution -----------------------
(***************************************************************************)
(* The execution of public verifications over one shared link              *)
(* (services/api/src/public-verification): the lease of the link, the      *)
(* quota of runs, the freezing of a run under the consent of the holder,   *)
(* the budget of attempts of a run and the reading of its result.  The     *)
(* attempt runs the engine of ReasoningRun, composed as it is, with the    *)
(* consent re-read before every provider stage.                            *)
(*                                                                         *)
(* A caller is one HTTP call about one confirmed request of the link; a    *)
(* request is consumed in the transaction that creates its run, so a       *)
(* request is consumed exactly when its run is there.                      *)
(***************************************************************************)
EXTENDS Integers, FiniteSets

CONSTANTS
  Callers,          \* calls of verification-execute or of the result
  Requests,         \* confirmed requests of the link, each with its run
  RequestOf,        \* the request a caller is about
  MaxAttempts,      \* MAX_EXECUTION_ATTEMPTS_PER_RUN
  RunQuota,         \* RUN_STARTS_PER_SHARE_WINDOW
  QuotaWindow,      \* RUN_QUOTA_WINDOW_MS
  LeaseTtl,         \* executionLeaseMs
  ShareExpiresAt,
  RequestExpiresAt,
  MaxTime,          \* bound of the clock
  MaxVersion,       \* bound of the policy version
  Slow,             \* whether a live call may outlive its lease
  Faults,           \* whether processes die and writes are lost
  Gone,             \* the token of a holder that exists no more
  None

ASSUME VerificationAssumption ==
  /\ IsFiniteSet(Callers)
  /\ RequestOf \in [Callers -> Requests]
  /\ MaxAttempts \in Nat \ {0}
  /\ {RunQuota, QuotaWindow, ShareExpiresAt, RequestExpiresAt, MaxTime, MaxVersion} \subseteq Nat
  /\ LeaseTtl \in Nat \ {0}
  /\ Slow \in BOOLEAN
  /\ Faults \in BOOLEAN
  /\ Gone \notin Callers
  /\ None \notin Callers \cup Requests \cup {Gone}

VARIABLES
  clock,
  \* --- the grant and its policy
  revoked, enabled, version,
  \* --- the lease of the link
  lease,
  \* --- the runs, beside the fields the engine writes
  attempts,      \* executionAttempts
  createdAt,
  frozenUnder,   \* policyVersionSnapshot
  \* --- callers
  pc, now, seen, snapshot,
  \* --- the engine
  status, failed, plan, slot, result, epc, stage, held, err,
  \* --- how often each run was claimed, for the properties
  claims

Engine == INSTANCE ReasoningRun WITH
  Runs <- Requests, Executions <- Callers, RunOf <- RequestOf,
  Values <- {"v"}, Policies <- {"p"}, Models <- {"m"},
  PolicyOf <- [c \in Callers |-> "p"], ModelOf <- [c \in Callers |-> "m"],
  pc <- epc

consent == <<revoked, enabled, version>>
rows    == <<attempts, createdAt, frozenUnder>>
locals  == <<now, seen, snapshot>>
run     == <<status, failed, plan, slot, result>>
engine  == <<run, epc, stage, held, err>>
vars    == <<clock, consent, lease, rows, pc, locals, engine, claims>>

-----------------------------------------------------------------------------
NoLease == [owner |-> None, run |-> None, expiresAt |-> 0]

Init ==
  /\ clock = 0
  /\ revoked = FALSE
  /\ enabled = TRUE
  /\ version = 1
  /\ lease = NoLease
  /\ attempts = [r \in Requests |-> 0]
  /\ createdAt = [r \in Requests |-> 0]
  /\ frozenUnder = [r \in Requests |-> 0]
  /\ pc = [c \in Callers |-> "idle"]
  /\ now = [c \in Callers |-> 0]
  /\ seen = [c \in Callers |-> "absent"]
  /\ snapshot = [c \in Callers |-> 0]
  /\ claims = [r \in Requests |-> 0]
  /\ Engine!Init

Goto(c, step) == pc' = [pc EXCEPT ![c] = step]

\* The end of a call: it forgets what it read.
Answered(c) ==
  /\ Goto(c, "idle")
  /\ now' = [now EXCEPT ![c] = 0]
  /\ seen' = [seen EXCEPT ![c] = "absent"]
  /\ snapshot' = [snapshot EXCEPT ![c] = 0]

\* Consumption and creation of the run are one transaction.
Consumed(r) == status[r] # "absent"

\* assertShareValid and assertContextualShareAuthority at an instant.
ShareValid(t) == ~revoked /\ ShareExpiresAt > t
Authorized(t) == ShareValid(t) /\ enabled

-----------------------------------------------------------------------------
(* The holder and the clock.                                               *)

RevokeShare ==
  /\ ~revoked
  /\ revoked' = TRUE
  /\ UNCHANGED <<clock, enabled, version, lease, rows, pc, locals, engine, claims>>

ReplacePolicy ==
  /\ version < MaxVersion
  /\ version' = version + 1
  /\ enabled' \in BOOLEAN
  /\ UNCHANGED <<clock, revoked, lease, rows, pc, locals, engine, claims>>

\* From the reading of the time to the release of the lease.
UnderLease ==
  {"acquire", "count", "prepare", "commit", "find", "attach", "spend", "engine", "executing",
   "budget", "release", "abort"}

\* A lease, which counts from the time its call read, lasts longer than the
\* worst attempt of a live call, unless Slow.
Tick ==
  /\ clock < MaxTime
  /\ Slow \/ \A c \in Callers : pc[c] \in UnderLease => clock + 1 < now[c] + LeaseTtl
  /\ clock' = clock + 1
  /\ UNCHANGED <<consent, lease, rows, pc, locals, engine, claims>>

-----------------------------------------------------------------------------
(* execute, up to the attempt.                                             *)

\* loadSessionForShare, and findRunForRequest of a consumed request.  Only a
\* pending run is resumed; new work needs a policy that is enabled now.
Begin(c) ==
  LET r == RequestOf[c] IN
  /\ pc[c] = "idle"
  /\ ShareValid(clock)
  /\ now' = [now EXCEPT ![c] = clock]
  /\ seen' = [seen EXCEPT ![c] = status[r]]
  /\ \/ /\ ~Consumed(r)
        /\ Authorized(clock)
        /\ Goto(c, "acquire")
     \/ /\ status[r] = "pending"
        /\ Goto(c, "acquire")
     \/ /\ Consumed(r)
        /\ status[r] # "pending"
        /\ Goto(c, "read")
  /\ UNCHANGED <<clock, consent, lease, rows, snapshot, engine, claims>>

LeaseFree(t) == lease.owner = None \/ lease.expiresAt <= t

\* acquireExecutionLease: a compare-and-set with the time of the call.
Acquire(c) ==
  /\ pc[c] = "acquire"
  /\ LeaseFree(now[c])
  /\ lease' = [owner |-> c, run |-> None, expiresAt |-> now[c] + LeaseTtl]
  /\ Goto(c, IF seen[c] = "pending" THEN "attach" ELSE "count")
  /\ UNCHANGED <<clock, consent, rows, locals, engine, claims>>

\* EXECUTION_IN_PROGRESS.
ExecutionInProgress(c) ==
  /\ pc[c] = "acquire"
  /\ ~LeaseFree(now[c])
  /\ Answered(c)
  /\ UNCHANGED <<clock, consent, lease, rows, engine, claims>>

Recent(t) == {r \in Requests : Consumed(r) /\ createdAt[r] > t - QuotaWindow}

WithinQuota(t) == Cardinality(Recent(t)) < RunQuota

CountRuns(c) ==
  /\ pc[c] = "count"
  /\ Goto(c, IF WithinQuota(now[c]) THEN "prepare" ELSE "abort")
  /\ UNCHANGED <<clock, consent, lease, rows, locals, engine, claims>>

\* Phase 1 of the freeze: the consent is captured.
Prepare(c) ==
  LET r == RequestOf[c] IN
  /\ pc[c] = "prepare"
  /\ \/ /\ ShareValid(now[c])
        /\ Consumed(r)
        /\ Goto(c, "find")
        /\ UNCHANGED snapshot
     \/ /\ ~Consumed(r)
        /\ Authorized(now[c])
        /\ RequestExpiresAt > now[c]
        /\ snapshot' = [snapshot EXCEPT ![c] = version]
        /\ Goto(c, "commit")
     \/ /\ \/ ~ShareValid(now[c])
           \/ ~Consumed(r) /\ ~(Authorized(now[c]) /\ RequestExpiresAt > now[c])
        /\ Goto(c, "abort")
        /\ UNCHANGED snapshot
  /\ UNCHANGED <<clock, consent, lease, rows, now, seen, engine, claims>>

\* Mutant of ConsentStands: the capture is taken as permanent.
ConsentCaptured(c) == snapshot[c] > 0

\* Share, policy and version, re-read inside the transaction.
ConsentStands(c) == Authorized(now[c]) /\ version = snapshot[c]

\* Phase 2: one serializable transaction consumes the request and creates
\* the run.
Commit(c) ==
  LET r == RequestOf[c] IN
  /\ pc[c] = "commit"
  /\ ConsentStands(c)
  /\ ~Consumed(r)
  /\ status' = [status EXCEPT ![r] = "pending"]
  /\ createdAt' = [createdAt EXCEPT ![r] = clock]
  /\ frozenUnder' = [frozenUnder EXCEPT ![r] = snapshot[c]]
  /\ Goto(c, "find")
  /\ UNCHANGED <<clock, consent, lease, attempts, locals, failed, plan, slot,
                 result, epc, stage, held, err, claims>>

\* The request was consumed meanwhile, by a caller whose lease this one
\* replaced.
AlreadyFrozen(c) ==
  /\ pc[c] = "commit"
  /\ ConsentStands(c)
  /\ Consumed(RequestOf[c])
  /\ Goto(c, "find")
  /\ UNCHANGED <<clock, consent, lease, rows, locals, engine, claims>>

\* The consent changed, the evidence is blocked or unusable, or the
\* transaction lost a conflict: no run, and nothing is consumed.
FreezeRefused(c) ==
  /\ pc[c] = "commit"
  /\ Goto(c, "abort")
  /\ UNCHANGED <<clock, consent, lease, rows, locals, engine, claims>>

\* findRunForRequest.
FindRun(c) ==
  /\ pc[c] = "find"
  /\ seen' = [seen EXCEPT ![c] = status[RequestOf[c]]]
  /\ Goto(c, "attach")
  /\ UNCHANGED <<clock, consent, lease, rows, now, snapshot, engine, claims>>

\* attachRunToLease: whether it applied is not looked at.
Attach(c) ==
  /\ pc[c] = "attach"
  /\ lease' = IF lease.owner = c THEN [lease EXCEPT !.run = RequestOf[c]] ELSE lease
  /\ Goto(c, IF seen[c] = "pending" THEN "spend" ELSE "release")
  /\ UNCHANGED <<clock, consent, rows, locals, engine, claims>>

-----------------------------------------------------------------------------
(* The attempt.                                                            *)

CanSpend(r) == status[r] = "pending" /\ ~failed[r] /\ attempts[r] < MaxAttempts

\* Mutant of Spend: the attempt is left to be counted when the engine has answered.
SpendAfterwards(c) ==
  /\ pc[c] = "spend"
  /\ Goto(c, IF CanSpend(RequestOf[c]) THEN "engine" ELSE "budget")
  /\ UNCHANGED <<clock, consent, lease, rows, locals, engine, claims>>

\* The attempt is spent before the engine is called.
Spend(c) ==
  LET r == RequestOf[c] IN
  /\ pc[c] = "spend"
  /\ IF CanSpend(r)
       THEN /\ attempts' = [attempts EXCEPT ![r] = @ + 1]
            /\ Goto(c, "engine")
       ELSE /\ Goto(c, "budget")
            /\ UNCHANGED attempts
  /\ UNCHANGED <<clock, consent, lease, createdAt, frozenUnder, locals, engine, claims>>

\* executeReasoningRun begins.
StartEngine(c) ==
  /\ pc[c] = "engine"
  /\ Engine!Preflight(c)
  /\ Goto(c, "executing")
  /\ UNCHANGED <<clock, consent, lease, rows, locals, claims>>

\* The preflight answers by itself: the run has ended already.
EngineAnswers(c) ==
  LET r == RequestOf[c] IN
  /\ pc[c] = "engine"
  /\ ~Engine!Open(r, "pending") /\ ~Engine!Open(r, "running")
  /\ Goto(c, "budget")
  /\ UNCHANGED <<clock, consent, lease, rows, locals, engine, claims>>

\* What the engine throws is swallowed: its outcome is in the row.
EngineGoesOn(c) ==
  /\ Goto(c, IF epc'[c] = "idle" THEN "budget" ELSE "executing")
  /\ claims' = IF epc[c] = "claim" /\ epc'[c] = "claimed"
               THEN [claims EXCEPT ![RequestOf[c]] = @ + 1] ELSE claims
  /\ UNCHANGED <<clock, consent, lease, rows, locals>>

\* assertStillAuthorized, with the time of the gate.
StillAuthorized == Authorized(clock)

\* A step of the engine; its gate opens only under a standing consent.
Execute(c) ==
  /\ pc[c] = "executing"
  /\ Engine!Progress(c)
  /\ epc[c] = "gate" /\ epc'[c] = "load" => StillAuthorized
  /\ EngineGoesOn(c)

AuthorizationWithdrawn(c) ==
  /\ pc[c] = "executing"
  /\ epc[c] = "gate"
  /\ ~StillAuthorized
  /\ Engine!StageThrows(c, "EXECUTION_AUTHORIZATION_WITHDRAWN")
  /\ EngineGoesOn(c)

StartedWriteFails(c) ==
  /\ pc[c] = "executing"
  /\ Engine!StartedWriteFails(c)
  /\ EngineGoesOn(c)

\* Mutant of FailIfBudgetExhausted: the budget is not looked at after it.
BudgetIgnored(c) ==
  /\ pc[c] = "budget"
  /\ UNCHANGED run
  /\ Goto(c, "release")
  /\ UNCHANGED <<clock, consent, lease, rows, locals, epc, stage, held, err, claims>>

FailIfBudgetExhausted(c) ==
  LET r == RequestOf[c] IN
  /\ pc[c] = "budget"
  /\ IF attempts[r] >= MaxAttempts THEN Engine!FailIfOpen(r, "pending")
                                   ELSE UNCHANGED run
  /\ Goto(c, "release")
  /\ UNCHANGED <<clock, consent, lease, rows, locals, epc, stage, held, err, claims>>

-----------------------------------------------------------------------------
(* The lease is given back, and the result read.                           *)

\* releaseExecutionLease, by the token of the owner.
Released(c) == IF lease.owner = c THEN NoLease ELSE lease

Release(c) ==
  /\ pc[c] = "release"
  /\ lease' = Released(c)
  /\ Goto(c, "read")
  /\ UNCHANGED <<clock, consent, rows, locals, engine, claims>>

\* What the work threw leaves through the finally block.
ReleaseAndThrow(c) ==
  /\ pc[c] = "abort"
  /\ lease' = Released(c)
  /\ Answered(c)
  /\ UNCHANGED <<clock, consent, rows, engine, claims>>

\* readResult by itself: the GET of the result.
BeginRead(c) ==
  /\ pc[c] = "idle"
  /\ ShareValid(clock)
  /\ Goto(c, "read")
  /\ UNCHANGED <<clock, consent, lease, rows, locals, engine, claims>>

\* loadSessionForShare and the row of the run.
ReadRow(c) ==
  LET r == RequestOf[c] IN
  /\ pc[c] = "read"
  /\ ShareValid(clock)
  /\ status[r] \in {"pending", "running"}
  /\ now' = [now EXCEPT ![c] = clock]
  /\ seen' = [seen EXCEPT ![c] = status[r]]
  /\ Goto(c, "check")
  /\ UNCHANGED <<clock, consent, lease, rows, snapshot, engine, claims>>

\* Completed, failed, without a run, or not available any more.
AnswerFromRow(c) ==
  /\ pc[c] = "read"
  /\ ~ShareValid(clock) \/ status[RequestOf[c]] \notin {"pending", "running"}
  /\ Answered(c)
  /\ UNCHANGED <<clock, consent, lease, rows, engine, claims>>

\* hasLiveLeaseForRun: PROCESSING under a live lease; otherwise what the row
\* said decides, although it was read before.
AnswerFromLease(c) ==
  /\ pc[c] = "check"
  /\ Answered(c)
  /\ UNCHANGED <<clock, consent, lease, rows, engine, claims>>

-----------------------------------------------------------------------------
\* The process of a caller dies: its token and its claim belong to nobody.
Die(c) ==
  /\ Faults
  /\ pc[c] # "idle"
  /\ lease' = IF lease.owner = c THEN [lease EXCEPT !.owner = Gone] ELSE lease
  /\ Engine!Leave(c)
  /\ UNCHANGED run
  /\ Answered(c)
  /\ UNCHANGED <<clock, consent, rows, claims>>

\* A read or write of the work throws, or the release itself is lost.
WorkThrows(c) ==
  /\ Faults
  /\ pc[c] \in {"count", "prepare", "find", "attach", "spend", "budget"}
  /\ Goto(c, "abort")
  /\ UNCHANGED <<clock, consent, lease, rows, locals, engine, claims>>

Step(c) ==
  \/ Acquire(c) \/ ExecutionInProgress(c) \/ CountRuns(c) \/ Prepare(c)
  \/ Commit(c) \/ AlreadyFrozen(c) \/ FreezeRefused(c) \/ FindRun(c)
  \/ Attach(c) \/ Spend(c) \/ StartEngine(c) \/ EngineAnswers(c)
  \/ Execute(c) \/ AuthorizationWithdrawn(c) \/ FailIfBudgetExhausted(c)
  \/ Release(c) \/ ReleaseAndThrow(c)
  \/ ReadRow(c) \/ AnswerFromRow(c) \/ AnswerFromLease(c)

Next ==
  \/ RevokeShare \/ ReplacePolicy \/ Tick
  \/ \E c \in Callers :
       Begin(c) \/ BeginRead(c) \/ Step(c) \/ StartedWriteFails(c)
         \/ Die(c) \/ WorkThrows(c)

Spec == Init /\ [][Next]_vars

\* Every await of a call ends, and a verifier who was told to retry does.
FairSpec ==
  /\ Spec
  /\ \A c \in Callers : WF_vars(Step(c)) /\ SF_vars(Begin(c))

-----------------------------------------------------------------------------
Steps == {"idle", "acquire", "count", "prepare", "commit", "find", "attach",
          "spend", "engine", "executing", "budget", "release", "abort", "read",
          "check"}

TypeOK ==
  /\ clock \in 0..MaxTime
  /\ revoked \in BOOLEAN /\ enabled \in BOOLEAN
  /\ version \in Nat
  /\ lease \in [owner : Callers \cup {Gone, None}, run : Requests \cup {None},
               expiresAt : Nat]
  /\ attempts \in [Requests -> Nat] /\ claims \in [Requests -> Nat]
  /\ createdAt \in [Requests -> Nat]
  /\ frozenUnder \in [Requests -> Nat]
  /\ pc \in [Callers -> Steps]
  /\ now \in [Callers -> Nat]
  /\ seen \in [Callers -> Engine!Statuses]
  /\ snapshot \in [Callers -> Nat]
  /\ Engine!TypeOK

\* A run is never claimed, and so nothing bought for it, more often than its
\* budget of attempts allows - whoever lost his lease, died or was replaced
\* between the spending of an attempt and the claim.
BudgetBoundsClaims ==
  \A r \in Requests : claims[r] <= attempts[r] /\ attempts[r] <= MaxAttempts

\* A run comes to be under the consent of that very instant: the link is not
\* revoked, its policy enabled and of the version the run records.
FrozenUnderConsent ==
  [][\A r \in Requests :
       ~Consumed(r) /\ Consumed(r)' =>
         ~revoked /\ enabled /\ frozenUnder'[r] = version]_vars

\* As long as no live holder outlives its lease, one execution works on the
\* runs of a link, whatever the request.
OneExecutionPerLink ==
  \A c, d \in Callers :
    epc[c] \in Engine!Owning /\ epc[d] \in Engine!Owning => c = d

\* Under the same assumption counting and creating, which are two
\* transactions, keep the quota of the link.
QuotaBoundsRuns == Cardinality(Recent(clock)) <= RunQuota

\* A pending run whose verifier keeps asking does not stay pending for ever:
\* it ends, or the link does.
PendingRunsEnd ==
  \A r \in Requests :
    status[r] = "pending" ~>
      status[r] \in {"completed", "failed"} \/ ~ShareValid(clock)
=============================================================================
