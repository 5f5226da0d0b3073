# Formal specification of the verifiable-credentials platform

TLA+ modules, TLC configurations and TLAPS proofs kept beside the code of the
*Credenciales Verificables y Perfil Formativo* platform. Paths below are
relative to the root of the repository; `api/` stands for
`services/api/src/`.

The project follows a credential through the API: the evidence attached to it
and its analysis, its issuance and anchoring in the `CredentialRegistry`
contract, the profile of its holder, the links the holder shares, the reasoning
runs and public verifications over them, and under all that the accounts, the
keys of issuers and the deployment of the contract. Of the clients it has the two
that keep a session of their own: the telephone of a holder and the page on which
a verifier analyses a shared profile. What is modelled is the control that
requests, operators, processes that die and providers that lag or lose answers
can interleave; what the other screens and the AI service do inside is not
(section 5).

| module | what it is | checked by |
|---|---|---|
| `AnchoredCredential` | abstract: the life cycle of a credential and its on-chain counterpart | refined by `CredentialAnchoring` |
| `CredentialAnchoring` | issuance, write lane, reconciliation, revocation, anchor rotation, contract, node | 3 runs, `CredentialAnchoringProofs` |
| `RegistrationLogScan` | the bounded search for a registration in the logs | 2 runs, `RegistryProofs` |
| `RegistryDeployment` | the tool that deploys the contract and publishes its manifest | `registry_evidence`, `RegistryProofs` |
| `SignerRotation` | provisioning and rotation of issuer keys, DID documents | `signer_rotation`, `SignerRotationProofs` |
| `FrozenRun` | abstract: a reasoning run as an append-only record | refined by `ReasoningRun` |
| `ReasoningRun` | claims, stages, write-once slots and the end of reasoning runs | 2 runs, `ReasoningRunProofs` |
| `EpistemicPolicy` | the verdict on every requirement, from an answer of the AI to the reader | 2 runs, `EvidenceToProfileProofs` |
| `VerificationExecution` | public executions under a lease; composes `ReasoningRun` | 2 runs, `PublicVerificationProofs` |
| `VerificationSession` | drafts, proposals and confirmations of a verifier | `public_verification`, `PublicVerificationProofs` |
| `ProfileSharing` | links of a holder and their verification policy | `public_verification`, `ProfileSharingProofs` |
| `CredentialVerification` | the public answer about a credential | `public_verification`, `PublicVerificationProofs` |
| `CredentialAnalysis` | evidence of a credential, analysis runs, extraction slots | 2 runs, `EvidenceToProfileProofs` |
| `SemanticReuse` | templates, approvals and applied interpretations | `evidence_to_profile`, `EvidenceToProfileProofs` |
| `FormativeProfile` | rebuilds of the profile of a holder and its embedding | `evidence_to_profile`, `EvidenceToProfileProofs` |
| `AccountAccess` | sessions, recovery links, registration, personal DIDs, mail | 2 runs, `AccountAccessProofs` |
| `MobileSession` | the session of a holder on a telephone | 2 runs, `AccountAccessProofs` |
| `VerifierPage` | the page on which a verifier analyses a profile | 2 runs, `ProfileSharingProofs` |

The `MC` modules hold the instances for TLC. To repeat a check:
`tlc -config PublicVerification.cfg MCPublicVerification.tla`,
`tlapm EvidenceToProfileProofs.tla`. `PROJECT.json` lists the runs, the source
lines every definition stands for, the hazards, a mutant for every property a
run checks and the theorems.

## 1. Inventory of the system

Postgres (through Prisma) holds all durable state. The API (NestJS) runs as one
process by deployment policy (`api/blockchain/README.md`, "Escritor unico");
nothing in the code prevents two. The chain is Anvil or Base Sepolia behind an
RPC provider. A Python AI service and a mail provider are called over HTTP.

| component | state | operations | what is hard | what makes it correct |
|---|---|---|---|---|
| Issuance (`api/credentials/credentials.service.ts`) | `Credential.status`, proof | issue: read, resolve signers, TX#1, anchor | reads before an await used in a transaction after it; death after TX#1 | a credential is issued together with exactly one pending intent |
| Durable intent (`api/blockchain/blockchain-registration.service.ts`) | `BlockchainRecord` (status, frozen anchor, evidence) | create intent, execute, finalize (TX#2) | late finalization | finalized only with evidence of the frozen anchor, idempotently |
| Write lane (`api/blockchain/anchor-write-coordinator.ts`) | queue, nonce manager and uncertainty latch, per profile, in memory | enqueue, gates, send once, wait for the receipt | shared accounts, ambiguous sends, a key marked while waiting | no nonce gap, no blind resend, no send past the gate |
| Reconciliation (`blockchain-registration-reconciliation.service.ts`, `reconciliation-log-scan.ts`) | none of its own | search the log, select evidence, finalize | bounded range, rejecting providers, clocks | an absence is reported only of what is absent; what is there is adopted |
| Revocation (`issuer-credential-revocation.service.ts`) | `Credential.status`, record | classify, write, classify again, persist | two writers, unknown outcome, rotated anchor | database revoked only after the chain, signed by the historical anchor |
| Registry contract (`contracts/src/CredentialRegistry.sol`) | registration and revocation per hash | register, revoke, status | anyone may register a public hash | only the registrant revokes |
| Deployment of the registry (`api/blockchain/deployment`) | manifests on disk | gate, send, read twice, publish | overlapping runs, reorganisations, deaths, partial files | one contract, one whole manifest, of a contract that stays |
| Signer rotation, provisioning, DIDs (`api/identity`) | identities, key bindings, profile status, secrets | provision, rotate either key, resolve a DID | concurrent rotations, shared anchors, lost answers | append-only key history; old proofs keep verifying |
| Signer resolution, secrets (`api/signing`) | `SignerProfile` | resolve for a new intent, for a record | profile status at the time of use | the right account signs |
| Verification (`api/verification`) | none | three reads: row, DID document, chain | the reads mix states of different moments | an answer says nothing its three readings do not bear out |
| Reasoning runs (`api/reasoning-run`) | run status, claim, write-once artifact slots | freeze, claim, stages, release, fail, finalize, read | owner dies; write after release; versions | one owner, each slot written once, terminal is terminal; a verdict is earned by the evidence |
| Public verification (`api/public-verification`) | request, run, lease per share, attempt budget | draft, propose, confirm, freeze, execute, read | expired leases, consent changed under way, retries | consumed iff a run exists, budget and quotas respected |
| Analysis runs, evidence, extraction (`api/analysis-run`, `document-evidence`, `text-evidence`, `source-extraction`) | rows, objects, run status, slots | upload, submit, trigger, claim, execute, backfill | issuance meanwhile, owner dies, lost answers | one current row, objects readable, completed together with its artifact |
| Templates and reuse (`api/issuer-course-templates`, `reusable-semantic-interpretation`) | templates, approvals, applications | save, approve, review, apply | approval changes after the review; two applications | one active interpretation, the one that was reviewed |
| Formative profiles (`api/profiles`, `api/profile-embedding`) | derived rows | rebuild, ingest, compose | stale readings, failing rebuilds | one current profile, of the rows it was built from |
| Profile sharing (`api/profile-sharing`) | grants, policy and its version | create, recover, revoke, read, replace policy | two replacements from one reading | the policy is the last intent of the holder |
| Authentication, password reset, mail (`api/auth`, `api/mail`, `api/identity/ensure-did-for-user.ts`) | sessions, tokens, locks, detached jobs | log in, register, request, deliver, confirm | quotas counted concurrently, delivery of unknown outcome | one live link, single use, old sessions end |
| Platform administration, objectives, API shell | rows | CRUD, validation, transport | little shared state | validation |
| Mobile application (`apps/mobile`) | state shown, token in memory, epoch, token in the secure store, query cache | restore, log in, register, log out, retry, authenticated requests | handlers stop at the store and at the API; late answers of another session | one session is shown, used and kept; a closed one is none of these |
| Web application (`apps/web`) | per page; the page of a verifier keeps a token in `sessionStorage` | load, start, confirm, run, poll | answers lost or late, reloads | the page shows what the server did for the token it keeps |
| AI service, infrastructure, shared packages | none durable of interest | analysis, deployment | - | - |

Interactions: issuance commits the intent, then enters the lane shared with
revocations; the lane sends through the node, whose logs feed the
reconciliation; revocation takes its signer from the record; rotation moves the
pointers of an issuer and never touches a record. Issuance, revocation, the analysis
that follows an issuance and an application each ask for a rebuild of the profile. A public
verification freezes a run under the policy of a link and drives the engine of
the reasoning runs, which asks again for the consent before each stage. The page
of the verifier asks for drafts, proposals, confirmations and executions and polls
for the result; the telephone logs in and reads through the sessions of the accounts.

## 2. The modules and the code

A step of a model is what the code does between two awaits: one statement or one
transaction of the database, one call to a provider. A SERIALIZABLE transaction
is one step, or fails and writes nothing. A request that throws is an action of
its own, and so is the death of a process where the code leaves something behind.

### CredentialAnchoring, AnchoredCredential

*State.* `profileStatus`, `anchorOf`, `credential`, `record` are the database;
`registered`, `revoked`, `mined`, `pool`, `inflight` the chain and the node;
`queue`, `uncertain`, `nextNonce` the memory of `AnchorWriteCoordinator` in each
task; `pc`, `signer`, `txOf` what each request holds. `attempts` and `lateSends`
are history, read by properties only.

| request | steps |
|---|---|
| issuance | `PrepareIssue` → `CommitIssue` (TX#1) → the lane → `Finalize` (TX#2) |
| revocation | `StartRevoke` → `ClassifyActive` → the lane → `Reclassify` → `PersistRevocation`; `ClassifyRevoked` goes straight to the persistence |
| reconciliation | `StartReconcile` → `Scan` → `Finalize` |
| the lane | `EnterLane` → `Gate` → `Preflight` → `SendAccepted` or `SendThrew` → `ReceiptConfirmed`; `WriteFailed`, `GateRefused`, `SkipRevoked` leave it |

`RequestError` is every throw outside the lane. `Crash` wipes the memory of a
task and its requests. `Mine`, `Deliver`, `Evict`, `RegisterByStranger`,
`MarkCompromised` and `RotateAnchor` are the environment and the operators. The
canonical hash is the credential itself. Reads of the chain may lag
(`CanSee...`): they may miss an effect and never invent one. One chain, so a lane
is per profile. The wait for a receipt ends in `WriteFailed` at the latest; the
transaction stays in the pool and may be mined later. There are no
reorganisations: the code takes one confirmation and undoes nothing. The mock
mode of the client and the reason of a revocation are left out.

`AnchoredCredential` has three variables per credential - what the database says,
what the contract says, the anchor of the intent - and five steps. It promises
that the database follows the chain, that the chain revokes only what the
database had adopted, and that no stage is left backwards. `RefinesLifecycle`
gives the mapping.

### RegistrationLogScan

One call of `scanRegistrationLogs`: read the head, locate the first block by
bisection over timestamps (`locateStartBlock`) or by a bound in seconds when a
timestamp cannot be read (`boundedSearchStart`), then ask for windows of logs,
forwards if the date of issue is known and backwards otherwise, halving the
window when the provider rejects its size. Every step is one answer; the chain
grows meanwhile. Time is in whole seconds and blocks are at least one second
apart; `Drift` covers the disagreement of the clocks. A provider answers truly up
to the head it reported; one whose `limit` is 0 rejects, answers and errs as it
pleases.

### RegistryDeployment

One execution of the tool: the gate (`ReadPending` … `Estimate`), one `Send`,
`Wait`, two observations (`ReadCode` … `ReadReceipt`, the second must agree with
the first) and the manifest (`OpenTemporary`, `FillTemporary`, `Publish` by a
hard link, `CleanUp`). Runs share an account and a directory; `Mine`, `Forget`,
`Reorganise` and `SendByHand` are the world, and `deepest` remembers how far below
the highest block a reorganisation reached. The contract of a transaction
follows from its nonce, so nonces name contracts and manifests. `Confirmations`
is 2 where the code asks for 5; one transaction of the account per block; what the
node says of confirmations while waiting is not trusted for anything. The codes
of a refusal are grouped; source, toolchain and artifact checks precede whatever
moves and are one refusal; preflight mode is the gate alone. The directory is not
fsynced and neither does the model promise that it survives a power failure.

### SignerRotation

A call of the operator is a provisioning, a rotation of the assertion key or one
of the anchor key: `Begin…`, `WriteSecret` (or `SecretFails`), `PersistInitial` or
`CreateProfile`, `RotateAssertion` or `RotateAnchor`, with `Die` and lost answers
between any two. A profile is named by its call and purpose. Issuances
`Prepare`, `Revalidate` and `Issue` meanwhile; `Compromise` and `Suspend` are
administrative. `HistoryIsValid` and `Resolves` are what
`issuer-did-document.resolver.ts` accepts and publishes. Bytes of keys, the
document and the parsing of the command line are left out.

### ReasoningRun, FrozenRun

An execution is one call of `executeReasoningRun`: `Preflight` (which may fail a
run of another policy version), `Claim` by compare-and-set, then for each of the
stages `LoadStage`, `UsePersisted` or `FillPlan` → `CallProvider` → `FillSlot`,
then `ApplyPolicy`, `VerifyCandidate` and `Finalize`. Each error carries a code,
resolved as a release (`ReleaseForRetry`) or a failure (`FailClaimed`) by the
tables of the orchestrator. Executions belong to processes of different policy
versions and models and may `Die`. `FrozenRun` is what a reader relies on: a
record that is open, learns each fact of its stages once, and ends once, with an
outcome made of those facts.

### EpistemicPolicy

What a run concludes. `Ask` is the call for one requirement: the answer is
accepted (`WellFormed` of the contextual validator, `Anchored` of the verifier of
references) or fails the run; `Decide` is `applyDeterministicReasoningPolicy` with
its integrity guards and precedence; `Complete` and `NotPersistable` are the
validator of the result; `Read` is the synthesis of `objective-synthesis.ts`. An
answer keeps its tokens and references, and of its texts which required ones are
blank and whether they mention the provenance as support. The code asks in the
order of the snapshot, which decides nothing here. The AI service's own
validation (`contextual_reasoning/validation.py`) is outside `api/` and does not
narrow what matters below: it does not forbid a weaker claim beside REACHED.

### VerificationExecution, VerificationSession

A caller is one HTTP call with one link. `VerificationExecution` takes the lease
(`Acquire`), counts the runs of the window (`CountRuns`), freezes the run under
the consent (`Prepare`, `Commit`), attaches it to the lease, spends an attempt
(`Spend`), drives `ReasoningRun` (`INSTANCE` as `Engine`, `Execute`) re-reading the
consent before each stage, fails the run when the budget is spent and releases.
`ReadRow`, `AnswerFromRow`, `AnswerFromLease` are the reading of a result. A lease counts
from the time its call read (`now`); without `Slow` no live call is still under it
(`UnderLease`) when it ends, with `Slow` one may be.

`VerificationSession` is what comes before: drafts, proposals
(`ClaimProposal`, the provider at work in `jobs`, `Accept`, `Discard`,
`Superseded`, at most one retry of a conflict) and `Confirm`. A call that stops
waiting does not stop the provider.

### ProfileSharing

`CreateShare`, `RecoverLink`, `Revoke` (set, or read the time that is set), the
public `View` and `Replace` of the policy: read and `Validate` outside the
transaction, `Write` in it, `Answer` after it. `intents` is the history of what
the holder asked for. The expiry of links and changes of credentials are the
environment; the public page's content is left out.

### CredentialVerification

Three reads - `ReadCredential`, `ReadDocument`, `ReadEvidence` - and the headline made of
authenticity, evidence and status. What moves between them is the rest of the
system, reduced to the order of its writes: signing and issuance with a pending
record in one step (`Reserve`), registration by anybody, revocation on chain and
then in the database, rotation, compromise, alteration of a row beside the
application. Drafts are not seen; mock credentials have no chain to be revoked on.

### CredentialAnalysis

One credential. Uploads save an object, replace the row and, when that fails,
delete the object; texts are submitted or generated at issuance. `TriggerDocument`,
`TriggerText`, `IssueDraft` and the two backfill scripts create runs, `Claim` them,
read the source, fill the extraction slot, call the AI service, `CompleteRun` with
the analysis or `MarkFailed`, and embed. `LostAnswers` lets a commit succeed and
its answer be lost, `Crashes` lets a call die. `EvidenceIsReadable` takes that the
commit of an upload is answered: a commit whose answer is lost makes
`document-evidence.service.ts:117` delete the object of a row that exists.

### SemanticReuse, FormativeProfile

`SemanticReuse`: saving and approving read and write in statements of their own;
an application is a SERIALIZABLE transaction over a partial unique index, retried
once (`RetryApply`), and a lost race is answered from what won
(`ReconcileConcurrentApply`). Analyses are given; drift of a content that makes it
inapplicable is a rejection that may happen.

`FormativeProfile`: a rebuild reads the credentials, their analyses and the
applied interpretations (`ReadCredentials`, `ReadAnalyses`,
`ReadInterpretations`), then replaces the current profile in a SERIALIZABLE
transaction (`Persist`) and composes the embedding after it (`Compose`). Of the
content it keeps the source that each credential contributes: its latest
analysis, the interpretation its issuer reviewed, or none. `Analyse`, of the issuance,
is followed by a rebuild; `AnalyseFromPdf` (any status, outside of any run, hence not in
`CredentialAnalysis`) and `AnalyseDraft` (the run of a draft, whose end reads no status)
are not. `unread` is the history of the credentials such an analysis left behind.

### AccountAccess

A task is a request or a detached job. The issue of a link takes an advisory
lock, counts, invalidates and inserts in READ COMMITTED, statement by statement,
with locks on rows; the delivery that follows may time out with the message in
the mailbox; a confirmation checks, hashes, then `Consume`s and `CommitReset`s.
Login verifies the password and signs the version later. Registration and
`EnsureDid` write at once or read what won. One clock; changes of status and of
the host of DIDs are the environment; expiry of access tokens and the limiter by
address keep no state the properties read.

### MobileSession

A task is a handler of `session-provider.tsx` and a step what runs between two
awaits, because JavaScript runs one at a time: `Login` … `LoginAccepted` …
`TokenStored`, `Logout` … `Cleared`, `Retry`, `Request`, and the restore with which
`Restart` (the application killed and opened again) begins. `queue` is the secure
store, which does what it is asked in order; `Restart` leaves the rest of it
undone. `epoch` and `token` are the two references by which an answer is known to
be late; `cache` is the sessions whose data the query cache holds, `closed` the
history of those their holder closed and no start opened again. `Screen` is where the
redirects lead. The store may fail, as in `session-storage.ts`: a read finds nothing
though the token is there (`Found`), a deletion leaves it there and is not told
(`Delete`, with `undeleted` for its history), a write is told to have failed.

### VerifierPage

A call goes out, is served and answered in three steps, and may be lost on either
way. `LoadedProfile` … `LoadedResult` are the first effect, `StartSession` …
`Proposed`, `ConfirmRequirements`, `RunAnalysis` and `StartNewAnalysis` the
buttons, `Tick` and `Polled` the interval. `Goes` changes the step, and with it
begins or cleans up the effect of the polling. `Reload` keeps the storage only;
`blocked` is a browser without it. On the server a request is its status alone:
what `VerificationSession` and `VerificationExecution` detail is one step here.

## 3. What the runs check

A run explores a subsystem. Where its modules share no variable a behaviour
picks one part (variable `part`) and the others keep their initial state, so that
one run covers several instances without their product. Most properties of a run
are conjunctions of named parts, each stated at its module; a property that holds
under some constants only is stated for the part that has them.

| run | instances | properties |
|---|---|---|
| `anchoring_shared_lane` | 2 credentials of 2 issuers that share one anchor; 2 issuances, 1 revocation, 1 reconciliation, one task; nonces 0..2; a node that keeps what it accepts; fairness | `NoStuckTransaction`, `AtMostOneLateSend`, `QueueDrains`, `RegistrationAdopted` |
| `anchoring_recovery` | 1 credential, 2 anchors, 2 tasks, 2 issuances, 2 revocations, 1 reconciliation; nonces 0..1; evictions | `TypeOK`, `DatabaseFollowsChain`, `AtMostOneRegistration`, `WritesFollowTheRecord`, `RefinesLifecycle` |
| `registry_evidence` | logs: every chain of 5 blocks over 7 instants, every date, window 4, budget 5, all providers; deployment: 2 runs that overlap, 1 run with faults and 2 reorganisations, 2 runs where reorganisations are as deep as the confirmations | `EmptyMeansAbsent`, `WindowsAdvance`, `LearnsTheWindow`, `ManifestsTellTheirRun`, `DeploymentsLast` |
| `signer_rotation` | 2 issuers, 3 calls of any kind, 1 issuance, faults | `DidIsPublishable`, `ProofsResolve`, `AnchorInService`, `OrphansAreReported`, `BrokenKeysStayKnown` |
| `endings` | versions: a reasoning run, 3 executions in processes of 2 policies and 2 models that die; claims, pending, texts, accounts: a reasoning run, a verification, an analysis of a text and the recovery of an account under their fairness; holder, page: a telephone with 2 handlers and a page with 1 request under theirs | `OneOwner`, `OneModelPerRun`, `RefinesRecord`, `NothingBoughtTwice`, `RunsEnd`, `WaitingEnds` |
| `public_verification` | takeover: 2 callers of one request, short leases, slow holders, deaths; consent: the same without faults, the policy replaced twice; quota: 2 requests of a link with 1 run, each with its caller, no slow holder; session: 2 requests, 1 active, 2 definitions; sharing: 2 tasks over a link and a credential; one by one: 1 task, 2 credentials, 3 versions; answers: 2 keys, 1 defect, failing DIDs and RPC; page: 2 requests, reloads and lost answers | `BudgetBoundsClaims`, `ProviderWorkIsBounded`, `SharingFollowsIntent`, `AnswersAreTruthful`, `FrozenUnderConsent`, `SettledStaysSettled`, `VerificationPartsHold` |
| `account_access` | links: 2 people, 2 tasks, 4 links over 3 instants; resets: 1 account, 3 tasks, 2 passwords; registrations: 3 tasks, 2 hosts; holder: 3 handlers, 3 sessions, nobody retries; retries: 2 handlers, 2 sessions, and the button that retries; both over a store that may fail | `LinksAndSessionsAreTrue`, `AccessPartsHold`, `OnlyLinksReset` |
| `evidence_to_profile` | documents: 2 calls, 2 rows, 1 run; repeats: 1 row, 2 runs; texts: 2 rows, 2 runs, lost answers; reuse: 2 requests, 2 credentials, 1 template, 2 approvals; rebuilds: 2 operations with failures; one by one: 1 operation, 2 credentials, 2 profiles, 2 analyses, 1 approval; verdicts: 1 requirement, 1 unit, 1 source, and every claim with every candidate | `VerdictsAreEarned`, `DoubtOnlyAbstains`, `EvidenceIsWhole`, `ProfileFollowsEvidence`, `EvidencePartsHold` |
| `anchoring_compromise`, `log_scan_client_dates`, `reasoning_grounding`, `unreadable_result` | a counterexample is expected | see *Findings* |

**The chain.**
- `DatabaseFollowsChain`: a record says registered or revoked only with the very
  transaction of the chain, sent by the anchor of its intent.
- `AtMostOneRegistration`: no crash, timeout, retry or reconciliation leads to a
  second registration ("no blind resend").
- `WritesFollowTheRecord`: whatever rotates, the record's anchor signs, and only
  finalized records are revoked.
- `RefinesLifecycle`: a life cycle without steps backwards; a late TX#2 after a
  revocation would break it.
- `NoStuckTransaction`: the latch and the lane keep an account's nonces
  contiguous, whichever tasks share it. It needs a node that drops nothing
  (`Evictions = FALSE`): no code of the API replaces what a node forgot.
- `AtMostOneLateSend`: after a profile is marked as compromised a task sends at most
  one more transaction with it.
- `QueueDrains`, `RegistrationAdopted`: a failed write never blocks those behind it; a
  registration the chain holds is adopted in the end.
- `EmptyMeansAbsent`, `WindowsAdvance`, `LearnsTheWindow`: an empty answer means that
  no block up to the head holds the registration, windows never skip it, and with a
  provider of a constant limit the scan gives up only if the budget is too small.
- `ManifestsTellTheirRun` (`NothingSentUnreported`, `ManifestsAreWhole`,
  `FinalizedHasItsManifest`): what reached the node is never answered with "nothing
  was sent"; a manifest is whole since it has a name and is its own run's.
  `DeploymentsLast` (`ManifestsAreFinal`, `RacesDeployOnce`,
  `ManifestsAreAppendOnly`): it names a contract that stays, as long as no
  reorganisation was as deep as the confirmations; of runs that overlap, one that did not find the
  contract of the other confirmed at its gate deploys none, unless a reorganisation
  intervenes; a manifest stays as published.

**Keys.** `DidIsPublishable`: the DID document of an issuer can be built in every
state. `ProofsResolve`: a persisted proof resolves to the key that signed it unless
that key is compromised. `AnchorInService`: no identity points at a retired anchor,
shared ones included. `OrphansAreReported`: a secret whose write was confirmed and
that is not in use is named to the operator when the call ends. `BrokenKeysStayKnown`: a
compromise never becomes an ordinary retirement, no retired key comes back, and an
identity returns to service only with both roles in order.

**Runs.** `OneOwner`, `OneModelPerRun`, `NothingBoughtTwice`, `RefinesRecord`: one
execution works on a run, all its artifacts are of the model its frozen plan names (the
policy version may be another, see below), no provider answers for a filled slot, and a
reader sees an append-only record. `BudgetBoundsClaims`, `FrozenUnderConsent`: a run
is claimed at most as often as attempts were spent, and comes to be only while the
link's consent stands. `ProviderWorkIsBounded` (`NoParallelWork`, `StartsWithinQuota`,
`OpenRequestsBounded`): a leaked link buys no more proposals than the quotas grant.
`SettledStaysSettled` (`OutcomesAreFinal`, `ConfirmedIsImmutable`): no late answer
reopens what was settled. `VerificationPartsHold` adds
`OneExecutionAtATime` and `RunsWithinQuota`, as long as no live call outlives its
lease (`~Slow`), as the code intends (`public-verification.limits.ts:106` makes the lease
longer than the calls of an attempt may take).

**Verdicts.** `VerdictsAreEarned` (`PositiveIsEarned`, `PartialIsConstitutive`,
`GuardsOnlyAbstain`): a conclusion in favour of a person rests on units of the run's
own catalogue, on an assessable requirement, with nothing left open; a partial one is
a reduction of the same requirement; guards take away and never make a conclusion.
`DoubtOnlyAbstains` compares answers: one more doubt, one more allegation or one unit
less never yields another verdict than an abstention.

**Links and answers.** `SharingFollowsIntent` (`PolicyIsLastIntent`,
`VersionNamesOneIntent`, `SelectedWereIssued`, `AnnouncedWasConsented`,
`RevocationsAgree`, `RevocationIsOnce`): however requests overlap, a link shares what its
holder asked for last. `SerialPolicyIsExact`, a part of `VerificationPartsHold`, adds
`VersionMovesWithIntent` and `MarksAreOfTheLastChange` for one request after the other.
`AnswersAreTruthful` (`GenuineIsNeverInvalid`,
`AlteredIsNeverValid`, `BrokenKeysProveNothing`, `RevokedIsNeverValid`,
`OnlyTheIssuerRevokes`, `VerifiedIsAnchored`, `RevocationIsMonotone`): an answer about
a credential is borne out by what it read at three moments. The monotony is of
answers with the registry in reach: nothing remembers a revocation seen on chain only
when the registry is out of reach later. `PageFollowsServer`, the last part of `VerificationPartsHold`,
(`ShownIsStored`,
`OneAtATime`, `NeverBlank`): the session and the result on the screen are of the
request whose token is kept, a button acts once and comes back, and no step is
reached without what its screen shows.

**Evidence and profile.** `EvidenceIsWhole` (`OneCurrent`, `EvidenceIsReadable` unless
the answer of a commit is lost, `CompletedMeansAnalysed`, `EmbeddingsFollowSlots`,
`HistoryIsFinal`, `TextsFrozenAfterIssue`, `ManualRunsAreForDrafts`),
`ProfileFollowsEvidence` (`OneCurrentProfile`, `ReflectsItsCause`,
`CoverageIsOfTheSnapshot`, `ProfilesAreImmutable`; `AtRestTruthful` when operations come
one after the other and none fails: at rest the current profile is of the issued
credentials and tells the latest source of each, but of those that an analysis without
a rebuild left `unread`), `EvidencePartsHold` (the types of all parts;
`InterpretationsAreReviewed`, that is `OneActiveInterpretation`, `ApprovedFromItsSource`,
`WritesWhatWasReviewed` and `HistoryIsFrozen`; and `ProfileFollowsEvidence` for one
operation after the other, over more credentials).

**Accounts.** `LinksAndSessionsAreTrue` (`OneLiveLink`, `SpentInTime`,
`DeliveredLinksLast`, `VersionsCountResets`, `SessionsKnowThePassword`,
`AnsweredDidsAreStored`) and `OnlyLinksReset` (`NewestLinkResets`, `ResetEndsSessions`,
`OnlyLinksChangePasswords`, `DidsAreForever`): of an account one link is live, the
newest, which works once, in time, and ends every session that began before it.
`AccessPartsHold` is what holds of one part: `QuotasAreKept` (no window holds more links than
the quotas grant, however many requests counted at once) and `HolderSessionHolds` (`ClosedStaysOut`;
`LogoutWins`, `CacheIsOfTheHolder`, `OneSession` where nobody retries): on the
telephone no order of late answers shows, holds, keeps or writes back a session its holder
closed, its data leaves the cache with it, and the session shown, in memory and kept is
one. What the store itself refuses to delete is the exception the properties name: such a
session may stay in the store, may be opened by the next start, and its data may be
fetched by a request that reads the token while the session is being cleared.

**Endings.** `RunsEnd`: the claim of a reasoning run is given up (`ClaimsAreGivenUp`), a
pending verification whose caller insists ends, or its link does (`PendingRunsEnd`),
a claimed analysis ends (`ClaimedRunsEnd`). `WaitingEnds`: every accepted request about an
account ends and the lock of the issue comes free (`RequestsEnd`); on the telephone a
restoration or a login ends (`RestoreEnds`), and on the first screen and that of the login
it ends in, out, or with something to retry or sign in with (`BootEnds`, which leaves a
link to a screen of the holder out: after an error that may pass, that screen goes on
saying "Validando tu acceso", see below); and who waits for an analysis is shown its end or an
error (`ProcessingEnds`).

Types are checked along (`TypeOK`, `PartsTypeOK`). Every property of a run has a
mutant in `PROJECT.json`: a plausible mistake in a named definition (a dropped guard,
a latch forgotten, a comparison reversed) that makes TLC report it violated. The
mutated operators sit above the originals.

*Bounds.* Bounds named `Max…` cap what would grow: nonces, rows, versions, profiles,
time. Two of everything that contends (tasks, callers, credentials of a lane, runs of
the tool, applications) give every pair of overlapping operations; a third is there
where a case needs it (three calls of an operator, so that a rotation meets another
one over a third one's key; three executions for two versions and two models; three
versions of a policy for a change and its undoing). Windows, quotas, leases and
confirmations are scaled to two or three units so that they expire inside the bound
of time. Anchoring: two nonces are a replacement, a gap and a transaction queued
behind another, three add a gap followed by two sends. The scan's 10,000 blocks, 1,000
requests and 300 s become 4, 5 and 2, so that windows are cut at both ends, halved to one block in
the middle of a pass and the budget is exhausted. Answers of the AI service are every
combination of the claim, the search and the candidate, each as it is and with one
thing odd. Proofs cover the real values.

`CHECK_DEADLOCK FALSE` stands where a call, a run or the bounds come to an end; only
the anchoring runs, where a request may always begin again, check for deadlock.

*Fairness.* Awaits of the code end: the database, the providers and the storage have
timeouts. So each module asks for `WF` of the step of a request, execution or task that
has begun (`FairSpec`). Beyond that:
- `PersistentReconcile` (for `RegistrationAdopted`): the reconciliation of a pending
  credential is called again and its calls do not fail for ever.
- `SF` of `Begin` in `VerificationExecution`: the verifier calls again whenever the link
  lets it, as the page that polls does.
- `SF` of `Reached` in `VerifierPage`: of the polls that are sent again and again one is
  answered; `WF` alone would let every answer be lost.
- `SF` of `Advance` in `AccountAccess`: Postgres grants a lock in the order of a queue, so
  a waiter gets it though it is taken many times.

Nobody is obliged to make a request, to rotate, to die, or the node to mine. Deaths are
off where an end is promised, because nothing takes over from a dead owner:
reasoning-run-execution-claim.service.ts and the analysis executor say so.

*Findings.* Four runs end in an expected counterexample.
1. `NoSendWhenCompromised`: `api/blockchain/blockchain-registration.service.ts:315`
   says of a compromised profile "no se transmite". The gate runs before the
   preflight and, for a revocation, before a read of the chain; a mark set in
   that window does not stop the send. `AtMostOneLateSend` bounds it.
2. `NothingBeforeStart`: the search for a registration starts at the date of
   issue, which the client of the issuance may supply. A date later than the
   registration by more than the skew makes the search start after its block,
   and the reconciliation answers `CHAIN_NOT_REGISTERED` on every call.
3. `GroundingFailureIsTerminal`: the evidence-units stage throws
   `GROUNDING_INPUT_UNUSABLE`, declared terminal; the table of the orchestrator
   (`reasoning-run-execution.service.ts:77`) lists `GROUNDING_UNUSABLE`, so the run
   is released and may be retried for ever.
4. `CompletedRunsAreReadable`: an answer that is REACHED and has a FOUND weaker claim
   is let in, decided as SUPPORTED and persisted; `objective-synthesis.ts:138` throws on
   it, so nobody can read the completed run.

*Where the code departs from its comments, shown by the models but by no run.* Each is
a short sequence; the property named is weakened, or stated for one request after the
other, because of it.
- `reasoning-run-execution.service.ts:268` reads the version of the plan in preflight;
  a plan frozen between that reading and the claim by a process of another policy is
  executed by this one, against lines 176 and 251 (what was read is read again under
  the claim; a run never meets another policy).
- `reasoning-run-execution.service.ts:484` fails the run for every error of the final
  verification, a lost connection included, where line 432 says an untyped error
  releases it.
- `verification-result.service.ts:184`: the row is read, the run ends and its lease is
  released, the lease is read: the reader is told EXECUTION_INTERRUPTED of a run that
  completed, against line 182.
- `credentials.service.ts:477-480` wants a credential never issued with a retired key.
  `credential-proof.service.ts:233` reads the pointer in the transaction of the issuance,
  and a rotation that commits between that reading and the end of the transaction
  (`:616`) leaves a proof of the previous key, which goes on resolving (`ProofsResolve`).
  Both being SERIALIZABLE does not prevent it: they are ordered with the issuance first.
- `analysis-run-execution.service.ts:543`: a claim refused because the credential was
  issued meanwhile throws outside the handler of failures (98-101), so the run stays
  pending; `docs/ai/analysis-run-and-persistence-v1.md:56` says a failure is marked.
- `document-evidence.service.ts:65` reads the status before the object is stored; the
  transaction does not read it again, so a credential issued meanwhile gets a new
  document, against its message (66-67) and `docs/architecture/domain-rules-v0.md:465`.
- `issuer-analysis-run.service.ts:155`: two triggers find no run and create one each
  over the same text, against 113-116 (it is rejected).
- `credential-ai.controller.ts:29-64`, `ai-integration.service.ts:34-88`: the analysis of a
  PDF is persisted for a credential in any status, issued included, and no rebuild
  follows. Likewise a run that an issuer asks of a draft, when the credential is issued
  before it completes: the completing transaction reads no status
  (`analysis-run-execution.service.ts:222-249`). The profile does without the analysis
  until something else rebuilds it, against steps 6 and 7 of
  `docs/flows/semantic-analysis-flow.md:26-27` (persist, then recompute the profile).
- `formative-profile.service.ts:247-298,304-339`: a rebuild that read before a
  revocation may commit after the rebuild of that revocation, and the current profile
  shows the revoked credential again, against `automatic-profile-rebuild.service.ts:112`.
- `reusable-semantic-interpretation.service.ts:470`: the answer to a lost race compares
  with the template as it is now, so an application of the reviewed approval may be
  answered with a newer one, against line 443.
- `issuer-course-templates.service.ts:226-288`: two saves of one credential both find no
  duplicate and create two templates, against `domain-rules-v0.md:776`.
- `share-verification-policy.service.ts:162`: a credential revoked between the check and
  the write enters the policy, against line 159 ("lo que NUNCA se puede").
  `:166-170`: two requests decide from one reading, so a version may move without a
  change of intent (`domain-rules-v0.md:2085`), and the marks of `:199` are of the state
  that was read and not of the last flip (line 195).
- `manifest-store.ts:116-123`: any error of `access` counts as "does not exist", where
  `deployment-preflight.ts:325` wants what cannot be checked to count as a collision;
  the exclusive link keeps the manifest all the same.
- `session-provider.tsx:229-240`: `retry` takes the epoch after its await. A logout that is
  pressed while it reads the store is undone by the answer of `/auth/me`, which shows the
  closed session again, against lines 94-95 ("un logout debe ganar"). Two retries, or one and
  a login, likewise leave what is shown and what is kept apart.
- `session-storage.ts:42-48` swallows every error of a deletion, which its comment takes for
  that of a key that does not exist (46). The closed session stays in the store, and the
  next start opens it again, against `session-provider.tsx:94-95`. A request that reads the
  token while such a deletion is pending may put data of the closed session in the cache.
- `session-provider.tsx:245-254`: a request that reads no token while a logout clears the
  store clears it once more, and discards a login begun meanwhile. A second login during
  one whose session was closed gets the promise of the first (168).
- `(holder)/_layout.tsx:32`: a deep link opened while the server is down shows "Validando tu
  acceso" and no way to retry, which `index.tsx:16-17` promises.
- `public-analysis-route.tsx:318`: the answer of an execution that comes after "Iniciar un
  nuevo análisis" shows the old result again (the polling had ended the wait).
  `:277,308`: without `sessionStorage` confirming and running do nothing, against
  `request-token-storage.ts:58`. `:230` decides by the items of the screen of the click, so
  a failed proposal may leave an empty list, against 228-229; `:225` overwrites what was
  typed meanwhile. `:176`: a network error at the load leaves "Cargando" without a retry.
- A blank rationale: `deterministic-epistemic-policy.ts:296-308` abstains for it, and
  `reasoning-run-result-artifact.validator.ts:482` then refuses to persist the result,
  so the guard's abstention is never seen.

## 4. What is proved

For every value of the constants, from the named assumptions of the modules:
`RequestAssumption`, `ValueAssumption` (domains of functions, kinds of requests
disjoint, `NoTx`, `NoProfile` and `Stranger` apart from the values), `ScanAssumption`
(`2 * Drift <= Skew <= Slack`, which the constants of the code satisfy for a drift of
up to 150 s), `RunAssumption`, `VerificationAssumption` (finitely many callers, a budget
of at least one attempt, a lease that is not 0), `IdentityAssumption`, `SetsAssumption`
(finitely many credentials, people and tasks), `AnswerAssumption` (finitely many readers,
at least one key version), `SessionAssumption` (of a verifier: limits are numbers, a lease
and a number of retries are not 0; of a telephone: the bounds are numbers, the handlers
finitely many), `BoundsAssumption` (at least one confirmation of a deployment, one key of
links), `NamesAssumption` (finitely many runs of the tool, `None` and `Wallet` apart from
the values), `LimitsAssumption` (limits are numbers, and a link is kept in the table at
least as long as any window counts it or it lives: 7 days, where the windows and the life
of a link are of a day at most, `password-reset.limits.ts`). `AnalysisAssumption`,
`ReuseAssumption` and `ProfileAssumption` say of the calls, requests, operations and
credentials that there are some and finitely many, and of the bounds that they are
numbers. `EpistemicPolicy` and `VerifierPage` assume nothing. Where a theorem holds under
some values of the constants only, its hypothesis says which, and the table repeats it.

| theorem | statement |
|---|---|
| `TypeCorrect`, `LaneExclusive` | `Spec => []TypeOK`; a writer past the gate is the head of its lane |
| `AnchoringSafe` | the inductive invariant `SafetyInv` |
| `DatabaseNeverAhead`, `NoSecondRegistration`, `RecordedAnchorSigns`, `OneLateSend` | `DatabaseFollowsChain`, `AtMostOneRegistration`, `WritesFollowTheRecord`, `AtMostOneLateSend` |
| `NothingIsStuck` | `NoStuckTransaction`, if the node drops nothing (`~Evictions`) |
| `AnchoringRefines` | `Spec => RefinesLifecycle` |
| `ScanCorrect`, `EmptyAnswerIsAbsence`, `WindowsLeaveNoGap`, `WindowIsLearnt` | the invariant of the scan; `EmptyMeansAbsent` if dates come from the server; `WindowsAdvance`; `LearnsTheWindow` |
| `DeploymentSafe`, `DeploymentTypes`, `ManifestsTell` | the invariant of the deployment; types; `ManifestsTellTheirRun` |
| `ManifestsStay`, `RacesAreSeen`, `DeploymentsEndure` | `ManifestsAreFinal`, `RacesDeployOnce`; with them `DeploymentsLast` |
| `RunInvariant`, `ExclusiveClaim`, `SingleModel`, `NoSecondPurchase` | the inductive invariant of runs; `OneOwner`, `OneModelPerRun`, `NothingBoughtTwice` |
| `CoherentCompletion`, `TerminalRunsAreFinal` | a result is there exactly when the run completed and is made of its artifacts; what ended never changes (no run lists these two, as `RefinesRecord` implies what they say) |
| `RunRefinesRecord` | `Spec => RefinesRecord` |
| `BudgetInvariant`, `BudgetHolds`, `ConsentHolds` | the invariant of public executions; `BudgetBoundsClaims`, `FrozenUnderConsent` |
| `LeaseInvariant`, `OneExecutionHolds`, `QuotaOfRunsHolds` | if no live call outlives its lease (`~Slow`): who works holds the lease; `OneExecutionPerLink`, `QuotaBoundsRuns`, of which `OneExecutionAtATime` and `RunsWithinQuota` are the instances |
| `SessionSafe`, `ProviderWorkHolds`, `SettledHolds` | the invariant of the session of a verifier; `ProviderWorkIsBounded`, `SettledStaysSettled` |
| `AnswersSafe`, `AnswersHold` | the invariant of the public answers; `AnswersAreTruthful` |
| `DidHolds`, `ProofsHold`, `AnchorsHold` | `DidIsPublishable`, `ProofsResolve`, `AnchorInService` |
| `OrphansHold`, `BrokenKeysHold` | `OrphansAreReported`, `BrokenKeysStayKnown` |
| `PolicyInvariant`, `VerdictsEarned`, `DoubtAbstainsAlways` | the invariant of the policy; `VerdictsAreEarned`, `DoubtOnlyAbstains` |
| `EvidenceHolds`, `InterpretationsHold` | `EvidenceIsWhole`; `InterpretationsAreReviewed`, a conjunct of `EvidencePartsHold` |
| `ProfileHolds` | `ProfileFollowsEvidence`, with `AtRestTruthful` if operations come one after the other and none fails |
| `SharingSafe`, `SharingOnlyGrows` | the invariant of sharing; rows, versions and revocations are never taken back |
| `LastIntentHolds`, `VersionsHold`, `SelectionHolds`, `ConsentHolds`, `RevocationsHold` | `PolicyIsLastIntent`, `VersionNamesOneIntent`, `SelectedWereIssued`, `AnnouncedWasConsented`, `RevocationsAgree`: the parts of `SharingFollowsIntent` that are invariants |
| `RevocationHolds`, `SharingHolds` | `RevocationIsOnce`; all of it together, `SharingFollowsIntent` |
| `SerialSharingSafe`, `VersionMoves`, `MarksHold` | if requests come one after the other (`OneByOne`): what was read is current; `VersionMovesWithIntent`, `MarksAreOfTheLastChange` |
| `AccountsSafe`, `TypesHold`, `QuotasAlwaysHold` | the invariant of the accounts; types; `QuotasHold`, of which `QuotasAreKept` is the instance |
| `LinksAndSessionsHold`, `OnlyLinksResetHolds` | `LinksAndSessionsAreTrue`, `OnlyLinksReset` |
| `ClosedStaysOutAlways` | `ClosedStaysOut` on a telephone, whatever its user does and its store fails to do: a closed session is kept only where the store refused to delete it |
| `HolderInvariant`, `ShownSessionIsTheHolders` | where nobody retries, over a store that may fail: the invariant of the session on a telephone; `LogoutWins`, `CacheIsOfTheHolder`, and the two parts of `OneSession` |
| `PageInvariant`, `PageTellsOneRequest` | the invariant of the page of a verifier; `ShownIsStored`, `OneAtATime`, `NeverBlank` |

*The lane.* Types alone are not inductive: the signer of a request indexes the
queues, so `LaneInv` adds that a request past its start has a signer (`StepOK`), that
a record that exists names an anchor (`AnchorOK`) and that whoever is past the gate is
the head of its queue (`HolderOK`). Entering appends and leaving removes the head, so
nobody else's place changes.

*Anchoring.* What carries a step over is what a request knows. `RequestSafe` says it
for each step: the signer is the anchor of the record, the transaction awaited is of
the right kind and account, the evidence about to be written is the one the registry
holds. Two monotonicity facts, `RecordGrows` and `RegistryGrows`, keep it true of every
request that does not move, so that each action is a lemma about its own request.
`AtMostOneRegistration` needs `OneIssuance`: at most one issuance of a credential is
before its send, and then nothing was sent. `AtMostOneLateSend` needs `LateInv`: after the late send the mark
stays, the gate is closed, and by exclusivity nobody else was past it. For the
refinement `NodeInv` adds that whatever the node holds was signed and that the
registry is never ahead of an intent; five lemmas map the five steps that the life
cycle sees, and the rest stutters.

*Nonces.* `NonceInv` says that a lane without the latch has every nonce below its next
one covered: executed, or held by the node. Without evictions what is covered stays so
(a replacement covers the nonce of what it replaces). A lane takes its nonce from the
node, which answers the first free one, or counts on from its own last send; an
ambiguous send latches the lane, by exclusivity nobody else is past its gate, and a
crash leaves nothing to count on from. Nothing of this is about the number of tasks.

*The scan.* `ScanInv` says that the bisection brackets the target, that the first block
is not after the registration when the date came from the server, and that the blocks
behind the cursor do not hold it. What the scan gives up for is counted: `LearnInv` says
that with a provider of a constant limit the size of the window is one of the halvings of
the first, the requests so far are the refused halvings and the windows behind the cursor,
so the scan that is out of requests asked for more than the budget could hold. The facts
about halvings go by induction over numbers, which is here the least number of a set that
is written down (`LeastNumber`, from the well-foundedness of `Nat` in
`WellFoundedInduction`), so that no theorem takes an operator as a parameter.

*Deployment.* A reading is of a height and a fork. Two blocks of one height and fork are
the same (`Observed`: once a fork is behind, nothing is added to it), so two readings
that agree saw one block, and the threshold between them says how deep it was; only a
reorganisation that reaches that deep takes it away (`Confirmed`, `Stays`). `ChainInv`
says that a sender has one transaction in one place, which counts the nonces: those of the
chain and the pool are of different senders, so the pending nonce is one. For runs that
overlap `RaceInv` adds, while nothing is reorganised, that the nonces of the chain are
counted: a run whose gate found as many confirmed as its own nonce saw whoever holds a
lower one.

*Runs.* `SingleModel` is about models only: that a result is of the policy of its plan is
not proved, because it does not hold (section 3). `RunInv` strengthens `OneOwner` with `Owned` (who owns a claim owns an open
run) and `StepKnows`, what an execution knows when it is about to call, fill or
finalize: the slot is empty, the plan is its model's, the inputs are those of the
row. Nobody else writes the row while it is owned, so only the owner's own step can
disturb it. The refinement then maps `FillSlot` and `Finalize` to the learning and the
end of `FrozenRun`.

*Public executions.* `Paid` counts: the claims of a run and the callers that spent an
attempt and may still claim (`Waiting`) are at most the attempts spent, which are at
most the budget. `Spend` adds one to both sides, a claim moves one caller from the
set to the count, and a death or a refused claim only removes one; cardinalities of
finite sets come from `FiniteSetTheorems`. The invariant of the engine that the
argument needs is only that the engine works for a caller that is executing. Without
`Slow`, `LeaseInv` says that a call from its `acquire` to its release reads a time its
lease still covers and, once it holds the lease, is the owner that the row names: a lease
is taken when it is free or has run out, and then no live call held it. So between the
count of a call and its creation nobody else of the link creates, and the window that ends
with the new run has the room that was counted; earlier windows are as they were.

*Sessions.* A step opens an attempt, lets the clock tick or settles (`Settles`: it gives at
most one attempt an outcome, of one nobody works on, and starts no work), so only two
lemmas count. A claim finds no attempt of the request under its lease and `WorkInv` has
all work under its lease: hence one work per request. Its quota is counted at the start
of the window that ends now, where everything that started is, so the window has room for
one more (`StartsInv`); earlier windows are as they were, and a tick leaves of the last
window a part.

*Answers.* A verification reads three times and the world moves between the readings, so
`TaskInv` keeps what each reading is still worth: of the row, that what was settled when
it began is settled (`RowKnows`); of the keys, that a rejection has a defect or a
compromised key behind it (`AuthenticityKnows`); of the chain, that whatever was said of
the entry was so (`EvidenceKnows`). The steps of the world only go forward (`Forward`) and
so keep every task's knowledge: versions not reached are absent, hence no rotation writes
over the mark of a compromise, and whoever says revoked follows the issuer's own entry.

*Keys.* `Inv` of `SignerRotationProofs` says that bound keys form per identity a
history with distinct versions and at most one active key, the current one, that
pointers name what exists and no retired profile, and what a call that validated
before its transaction may still rely on. For the secrets `SecretInv` adds that the
profiles of a call are in no row before it persists (`FreshInv`), that an anchor in use
was created (`AnchorInv`), and that a call writes the secrets of what it is about to
attach (`WrittenInv`): what it leaves behind is then what it names.

*Verdicts.* `PolicyInv` says that accepted answers are well formed and anchored and that a
verdict is the policy's on its answer. What remains is about operators: `Verdict` is
monotone, in that a doubt leaves nothing but to abstain and an answer that rests on
less fails every guard the answer failed.

*Evidence.* `AnalysisInv` adds to what it says what each call in progress holds: an object
that is being uploaded is stored and no row names it, and no two calls upload the same
one (`UploadsInv`), so that neither the replacement nor its compensation touches the
current object; a call that executes a run names one that exists (`ClaimsInv`), and the
analyses are those of the completed runs, each once (`AnalysedInv`). What a step may do
to a run is one relation (`RunFollows`), from which the three action properties follow.

*Interpretations.* A transaction that is about to commit read the approval that was
reviewed (`RequestInv`), and the templates and rows that others write meanwhile keep it
true (`RowsGrow`: a template keeps where it was saved from, a row is only superseded).
At the commit the active row is the one of the snapshot, so superseding it leaves the new
one alone.

*Profiles.* `OperationInv` says what an operation knows: what it changed is still changed
when it reads, so the snapshot shows its reason from the statement on that reads it
(`SeenInv`), and its row still has no coverage when it composes (`ComposingInv`,
`ComposersApart`). For operations that come one after the other `SerialProfileInv` says
how far the operation is on its way: before it begins the newest profile tells the truth,
and what it has read is the truth of what it has read, but for the credentials with an
analysis that no rebuild follows (`Tells`): one may be persisted at any moment, and only a
rebuild that reads it takes its credential back in.

*Sharing.* Requests overlap freely, so a request may hold an old policy; what it holds is
a version that was (`BaseInv`), and versions, intents and revocations only grow
(`Grows`). The policy is the last intent because the transaction writes both. With one
task `SerialInv` says that what a request read is still there when it writes, and
`LastFlip` of a longer history is the new version or the old mark.

*Accounts.* What a transaction relies on is what it locked. The holder of the lock of the
issue (`LockInv`) finds the rows it counted, so there is room for its link in every
window that ends with it, and `QuotasHold` follows from the order of `createdAt`: a
window that ends at an older link is as it was. A row an open transaction wrote is as
live as it left it. Two relations carry every other task over a step: `Steady` (accounts,
DIDs and versions are not taken back, a link spent moves a version) and `Spares(t)` (what
`t` locked is untouched). A live link is the newest of its account because an issue
invalidates those before it, and versions count the links that were spent, which is why
a session of an older version knows an older password.

*The telephone.* A token that is being stored for the first time is nowhere else, neither
shown nor held, kept, closed or with another handler (`StoredNew`), so no write brings back
a closed one: only a deletion that the store refused leaves one there. What is shown needs more (`ShownInv`): the token in memory is that of the
session shown and kept (`HeldIsKept`), one login is under way at a time and nothing is
held meanwhile (`LoginAlone`), a restoration is alone (`RestoreAlone`), and the queue of the
secure store lets no clearing run behind the write of a login that is still of the epoch
(`InOrder`, which also says that a request that waits to read the token finds none, or one
the store refused to delete). A retry breaks just that, since it takes its epoch after it has read the
store, and the theorems leave it out of the operations.

*The page.* `PageInv` says what every call under way is about and what its answer still
says: a call is for the token that is kept, or for a request that is gone
(`ActsOnStored`), a token is of a request the API created (`TokensExist`), an answer about a
run is still so (`AnswersHold`), the first load is alone (`LoadsAlone`), and the polling is
there exactly while the page processes. Each button and each answer is a lemma of its own,
and the steps of the server move a request only forward.

*Only model-checked.* Liveness (`QueueDrains`, `RegistrationAdopted`, `RunsEnd`,
`WaitingEnds`), which is out of the prover's reach with fairness; the types with all their
bounds of some parts of `PartsTypeOK` (the inductive invariants carry types, often without
the bounds); and what a telephone does when its user retries, but for `ClosedStaysOut`.
Every other property of a run is a theorem, or a conjunction of named parts each of which
is one.

## 5. Not modelled

More than half of the implementation by lines is the screens of the web and mobile
applications and the AI service: presentation of what one call answers, and stateless
analysis behind HTTP that appears here as any answer it may give. The API's projections, DTOs, validators of
format, configuration and scripts of seeding keep no state that steps can
interleave over. That is why the map covers the control of the API and a small share
of the lines of the repository.

- *Issuance* is modelled but for the creation and editing of drafts and the canonical
  form that is hashed: a draft is edited by its issuer alone, row by row, and the hash
  stands for the credential.
- *Signer resolution*: the store of secrets is I/O; its failures are those of the step
  that calls it.
- *Issuers and course templates*: data and memberships of issuers are CRUD.
- *Platform administration*, *objectives and requirement proposals* (outside public
  verification): versioned rows and checks of what an AI service returns.
- *Semantic interpretation and AI client*: what an analysis yields is a value; the
  client is answers and failures.
- *Infrastructure*: what it promises the writer, one task of the API at most, is
  assumed nowhere: the anchoring has any number of them.
- Reorganisations under the anchoring, because the code claims nothing about them
  beyond one confirmation; a provider whose log nodes lag behind its own head, because
  the code cannot tell.

What would come next: the composition of `FormativeProfile` with `ProfileSharing`, whose
page shows it, and of `VerifierPage` with `VerificationSession` and
`VerificationExecution`, whose answers it takes as steps of one request.
