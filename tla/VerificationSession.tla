------------------------- MODULE VerificationSession -------------------------
(***************************************************************************)
(* The session of a public verifier before its run (services/api/src/      *)
(* public-verification): drafts on a link, the proposal of requirements by *)
(* a provider - claimed, bought, accepted or discarded - and their         *)
(* confirmation.  Every transaction is SERIALIZABLE: it is one step, or it *)
(* loses a conflict and writes nothing.                                    *)
(*                                                                         *)
(* A call that stops waiting does not stop the provider: its work is in    *)
(* jobs until it ends, whoever waits for it.                               *)
(***************************************************************************)
EXTENDS Integers, Sequences, FiniteSets

CONSTANTS
  Proposers,      \* calls of propose
  Sessions,       \* requests that may be opened on the link
  Definitions,    \* requirements a verifier may confirm
  MaxActive,      \* MAX_ACTIVE_REQUESTS_PER_SHARE
  RequestTtl,     \* VERIFICATION_REQUEST_TTL_MS
  Quota,          \* PROPOSAL_STARTS_PER_SHARE_WINDOW
  StartsWindow,   \* PROPOSAL_QUOTA_WINDOW_MS
  Cooldown,       \* PROPOSAL_COOLDOWN_MS
  ProposalLease,  \* PROPOSAL_LEASE_MS
  Retries,        \* ACCEPT_SERIALIZATION_RETRIES
  Horizon,        \* bound of the clock
  NoDefinition

ASSUME SessionAssumption ==
  /\ {MaxActive, RequestTtl, Quota, StartsWindow, Cooldown, ProposalLease, Retries,
      Horizon} \subseteq Nat
  /\ ProposalLease > 0 /\ Retries > 0
  /\ NoDefinition \notin Definitions \cup Sessions

VARIABLES
  time,
  valid,       \* the link is active
  allowed,     \* its policy is enabled and some authorized credential issued
  request,     \* the rows of VerificationRequest
  proposals,   \* the rows of VerificationProposalAttempt, in order of insertion
  jobs,        \* attempts the provider works on
  proposing, claim, tries

proposerLocals == <<proposing, claim, tries>>
sessionVars == <<time, valid, allowed, request, proposals, jobs, proposerLocals>>

Statuses == {"absent", "draft", "proposed", "confirmed", "consumed"}
Outcomes == {"open", "SUCCEEDED", "FAILED", "DISCARDED"}

Absent == [status |-> "absent", expiresAt |-> 0, definition |-> NoDefinition]

SessionInit ==
  /\ time = 0
  /\ valid = TRUE
  /\ allowed = TRUE
  /\ request = [q \in Sessions |-> Absent]
  /\ proposals = <<>>
  /\ jobs = {}
  /\ proposing = [c \in Proposers |-> "idle"]
  /\ claim = [c \in Proposers |-> 0]
  /\ tries = [c \in Proposers |-> 0]

\* assertComputeAllowed.
ComputeAllowed == valid /\ allowed

Expired(q) == request[q].expiresAt <= time

Return(c) ==
  /\ proposing' = [proposing EXCEPT ![c] = "idle"]
  /\ claim' = [claim EXCEPT ![c] = 0]
  /\ tries' = [tries EXCEPT ![c] = 0]

-----------------------------------------------------------------------------
(* The holder, the issuer and the clock.                                   *)

RevokeLink ==
  /\ valid
  /\ valid' = FALSE
  /\ UNCHANGED <<time, allowed, request, proposals, jobs, proposerLocals>>

ChangePolicy ==
  /\ allowed' = ~allowed
  /\ UNCHANGED <<time, valid, request, proposals, jobs, proposerLocals>>

\* Work the provider has or is about to get.
Work == jobs \cup {claim[c] : c \in {d \in Proposers : proposing[d] = "call"}}

\* The lease of a proposal is twice the timeout of the provider: the work of
\* an attempt ends before its lease does.
TimePasses ==
  /\ time < Horizon
  /\ \A a \in Work : time + 1 < proposals[a].leaseExpiresAt
  /\ time' = time + 1
  /\ UNCHANGED <<valid, allowed, request, proposals, jobs, proposerLocals>>

-----------------------------------------------------------------------------
(* Drafts and confirmation.                                                *)

Active ==
  {q \in Sessions :
     request[q].status \notin {"absent", "consumed"} /\ ~Expired(q)}

RoomForDraft == Cardinality(Active) < MaxActive

CreateDraft(q) ==
  /\ request[q].status = "absent"
  /\ ComputeAllowed
  /\ RoomForDraft
  /\ request' = [request EXCEPT ![q] =
       [status |-> "draft", expiresAt |-> time + RequestTtl, definition |-> NoDefinition]]
  /\ UNCHANGED <<time, valid, allowed, proposals, jobs, proposerLocals>>

\* draft, confirmed by hand, or requirements_proposed; the same definition
\* again is answered without a write and another one is refused.
Confirmable(q) == request[q].status \in {"draft", "proposed"}

Confirm(q) ==
  /\ Confirmable(q)
  /\ ~Expired(q)
  /\ ComputeAllowed
  /\ \E d \in Definitions :
       request' = [request EXCEPT ![q].status = "confirmed", ![q].definition = d]
  /\ UNCHANGED <<time, valid, allowed, proposals, jobs, proposerLocals>>

\* The freeze of the run consumes the request (verification-run-freeze).
Consume(q) ==
  /\ request[q].status = "confirmed"
  /\ ~Expired(q)
  /\ ComputeAllowed
  /\ request' = [request EXCEPT ![q].status = "consumed"]
  /\ UNCHANGED <<time, valid, allowed, proposals, jobs, proposerLocals>>

-----------------------------------------------------------------------------
(* The claim of a proposal.                                                *)

Ids == 1..Len(proposals)

Open(q) == {a \in Ids : proposals[a].request = q /\ proposals[a].outcome = "open"}

Since(t) == {a \in Ids : proposals[a].startedAt > t}

NoLiveClaim(q) == \A a \in Open(q) : proposals[a].leaseExpiresAt <= time

\* Mutant of WithinLimits: the quota is one too large.
WithinLimitsLoose ==
  /\ Cardinality(Since(time - StartsWindow)) <= Quota
  /\ Since(time - Cooldown) = {}

\* Quota of the link in its window, and cooldown between two starts.
WithinLimits ==
  /\ Cardinality(Since(time - StartsWindow)) < Quota
  /\ Since(time - Cooldown) = {}

\* One transaction: an expired claim is discarded and a new one inserted.
\* Replays, and refusals for a live claim, the quota or the cooldown, write
\* nothing.
ClaimProposal(c, q) ==
  /\ proposing[c] = "idle"
  /\ request[q].status = "draft"
  /\ ~Expired(q)
  /\ ComputeAllowed
  /\ NoLiveClaim(q)
  /\ WithinLimits
  /\ proposals' =
       Append([a \in Ids |-> IF a \in Open(q)
                             THEN [proposals[a] EXCEPT !.outcome = "DISCARDED"]
                             ELSE proposals[a]],
              [request |-> q, startedAt |-> time,
               leaseExpiresAt |-> time + ProposalLease, outcome |-> "open"])
  /\ proposing' = [proposing EXCEPT ![c] = "call"]
  /\ claim' = [claim EXCEPT ![c] = Len(proposals) + 1]
  /\ tries' = [tries EXCEPT ![c] = 1]
  /\ UNCHANGED <<time, valid, allowed, request, jobs>>

-----------------------------------------------------------------------------
(* The provider.                                                           *)

StartJob(c) ==
  /\ proposing[c] = "call"
  /\ jobs' = jobs \cup {claim[c]}
  /\ proposing' = [proposing EXCEPT ![c] = "waiting"]
  /\ UNCHANGED <<time, valid, allowed, request, proposals, claim, tries>>

\* The work ends and nobody hears of it, or its answer is lost.
JobEnds(a) ==
  /\ a \in jobs
  /\ jobs' = jobs \ {a}
  /\ UNCHANGED <<time, valid, allowed, request, proposals, proposerLocals>>

ProviderAnswers(c) ==
  /\ proposing[c] = "waiting"
  /\ claim[c] \in jobs
  /\ jobs' = jobs \ {claim[c]}
  /\ \E step \in {"accept", "reject"} : proposing' = [proposing EXCEPT ![c] = step]
  /\ UNCHANGED <<time, valid, allowed, request, proposals, claim, tries>>

Close(a, outcome) == [proposals EXCEPT ![a].outcome = outcome]

\* An answer that is of no use closes the attempt, if it still is open.
ProposalUnavailable(c) ==
  /\ proposing[c] = "reject"
  /\ proposals' = IF proposals[claim[c]].outcome = "open"
                 THEN Close(claim[c], "FAILED") ELSE proposals
  /\ Return(c)
  /\ UNCHANGED <<time, valid, allowed, request, jobs>>

\* Whether the work ended is not known: the attempt stays open and its lease
\* decides.
OnTransportFailure(c) == proposals

TransportFails(c) ==
  /\ proposing[c] = "waiting"
  /\ proposals' = OnTransportFailure(c)
  /\ Return(c)
  /\ UNCHANGED <<time, valid, allowed, request, jobs>>

-----------------------------------------------------------------------------
(* The acceptance of a proposal.                                           *)

\* Mutant of NotSuperseded: it is the lease that decides.
LeaseDecides(a) == TRUE

\* Fencing: an attempt somebody closed meanwhile is not accepted; one whose
\* lease merely expired is.
NotSuperseded(a) == proposals[a].outcome = "open"

\* Consent, and the request itself, re-read: a decision by hand wins.
Acceptable(q) ==
  /\ ComputeAllowed
  /\ request[q].status = "draft"
  /\ ~Expired(q)

Accept(c) ==
  LET a == claim[c]
      q == proposals[a].request IN
  /\ proposing[c] = "accept"
  /\ NotSuperseded(a)
  /\ Acceptable(q)
  /\ proposals' = Close(a, "SUCCEEDED")
  /\ request' = [request EXCEPT ![q].status = "proposed"]
  /\ Return(c)
  /\ UNCHANGED <<time, valid, allowed, jobs>>

Discard(c) ==
  LET a == claim[c] IN
  /\ proposing[c] = "accept"
  /\ NotSuperseded(a)
  /\ ~Acceptable(proposals[a].request)
  /\ proposals' = Close(a, "DISCARDED")
  /\ Return(c)
  /\ UNCHANGED <<time, valid, allowed, request, jobs>>

Superseded(c) ==
  /\ proposing[c] = "accept"
  /\ ~NotSuperseded(claim[c])
  /\ Return(c)
  /\ UNCHANGED <<time, valid, allowed, request, proposals, jobs>>

\* Mutant of CanRetry: one retry too many.
CanRetryOnceMore(c) == tries[c] <= Retries

CanRetry(c) == tries[c] < Retries

\* A serialization conflict is retried, without the provider, a few times;
\* after the last one the attempt is left open.
AcceptConflicts(c) ==
  /\ proposing[c] = "accept"
  /\ IF CanRetry(c)
       THEN /\ tries' = [tries EXCEPT ![c] = @ + 1]
            /\ UNCHANGED <<proposing, claim>>
       ELSE Return(c)
  /\ UNCHANGED <<time, valid, allowed, request, proposals, jobs>>

\* The process dies.
ProposerDies(c) ==
  /\ proposing[c] # "idle"
  /\ Return(c)
  /\ UNCHANGED <<time, valid, allowed, request, proposals, jobs>>

-----------------------------------------------------------------------------
SessionNext ==
  \/ RevokeLink \/ ChangePolicy \/ TimePasses
  \/ \E q \in Sessions :
       \/ CreateDraft(q) \/ Confirm(q) \/ Consume(q)
       \/ \E c \in Proposers : ClaimProposal(c, q)
  \/ \E c \in Proposers :
       \/ StartJob(c) \/ ProviderAnswers(c) \/ ProposalUnavailable(c)
       \/ TransportFails(c) \/ Accept(c) \/ Discard(c) \/ Superseded(c)
       \/ AcceptConflicts(c) \/ ProposerDies(c)
  \/ \E a \in jobs : JobEnds(a)

SessionSpec == SessionInit /\ [][SessionNext]_sessionVars

-----------------------------------------------------------------------------
SessionTypeOK ==
  /\ time \in 0..Horizon
  /\ valid \in BOOLEAN /\ allowed \in BOOLEAN
  /\ request \in [Sessions -> [status : Statuses, expiresAt : Nat,
                               definition : Definitions \cup {NoDefinition}]]
  /\ proposals \in Seq([request : Sessions, startedAt : Nat,
                       leaseExpiresAt : Nat, outcome : Outcomes])
  /\ jobs \subseteq Ids
  /\ proposing \in [Proposers -> {"idle", "call", "waiting", "accept", "reject"}]
  /\ claim \in [Proposers -> Nat] /\ tries \in [Proposers -> 0..Retries]

\* The provider never works twice at once for a request, although the calls
\* that wait for it give up long before it does.
NoParallelWork ==
  \A a, b \in jobs : proposals[a].request = proposals[b].request => a = b

\* The starts of the window that ends at t.
StartsIn(t) == {a \in Ids : proposals[a].startedAt \in (t - StartsWindow + 1)..t}

\* What the provider was asked to start, over all requests of the link, stays
\* within the quota of every window.
StartsWithinQuota ==
  \A t \in 0..time :
    Cardinality(StartsIn(t)) <= Quota

\* An attempt has one outcome: a late answer does not revive one that was
\* discarded or that failed, and what succeeded stays so.
OutcomesAreFinal ==
  [][\A a \in Ids : proposals[a].outcome # "open" =>
       proposals'[a].outcome = proposals[a].outcome]_sessionVars

\* What a verifier confirmed is neither replaced by another confirmation nor
\* taken back by a proposal that arrives late.
ConfirmedIsImmutable ==
  [][\A q \in Sessions : request[q].status \in {"confirmed", "consumed"} =>
       /\ request'[q].status \in {"confirmed", "consumed"}
       /\ request'[q].definition = request[q].definition]_sessionVars

\* A leaked link cannot pile up open requests.
OpenRequestsBounded == Cardinality(Active) <= MaxActive

\* A leaked link and an insistent verifier buy no more work of the provider
\* than the quotas grant, although quotas, leases and provider are asked in
\* different transactions.
ProviderWorkIsBounded == NoParallelWork /\ StartsWithinQuota /\ OpenRequestsBounded

\* No late answer and no second request reopens what was settled: the outcome
\* of an attempt, a confirmed requirement.
SettledStaysSettled == OutcomesAreFinal /\ ConfirmedIsImmutable
=============================================================================
