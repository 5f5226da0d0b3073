------------------------- MODULE CredentialAnchoring -------------------------
(***************************************************************************)
(* The durable anchoring of credentials in the CredentialRegistry contract *)
(* (services/api/src/credentials, .../blockchain, .../identity, and        *)
(* contracts/src/CredentialRegistry.sol).                                  *)
(*                                                                         *)
(* Requests (issuance, revocation, reconciliation) run interleaved inside  *)
(* API tasks.  Each step of a request is what the code does between two    *)
(* awaits: one database transaction, one read of the chain, one send, one  *)
(* wait for a receipt.  Writers of one signer profile share one FIFO lane  *)
(* of their task.  A task may crash: its requests, lanes, nonce managers   *)
(* and uncertainty latches disappear, the database and the chain remain.   *)
(*                                                                         *)
(* The Ethereum node, the accounts of third parties and the operator who   *)
(* marks a profile as compromised are the environment.                     *)
(***************************************************************************)
EXTENDS Integers, Sequences

CONSTANTS
  Credentials,      \* credentials, each standing for its canonical hash too
  Issuers,
  Profiles,         \* SignerProfile rows of purpose anchor, each one account
  Tasks,            \* processes of the API
  Issuances, Revocations, Reconciliations,   \* request identifiers
  IssuerOf,         \* the issuer of a credential
  CredentialOf,     \* the credential a request is about
  TaskOf,           \* the task a request runs in
  InitialAnchor,    \* the anchor each issuer was provisioned with
  NoProfile, NoTx,
  Stranger,         \* an account that is no profile of the system
  MaxNonce,         \* bound: no account sends a nonce above this one
  Evictions         \* whether the node may drop a transaction it accepted

Requests == Issuances \cup Revocations \cup Reconciliations
Writers  == Issuances \cup Revocations

Tx == [acct : Profiles \cup {Stranger}, nonce : Nat,
       op : {"register", "revoke"}, cred : Credentials]

ASSUME RequestAssumption ==
  /\ IssuerOf \in [Credentials -> Issuers]
  /\ CredentialOf \in [Requests -> Credentials]
  /\ TaskOf \in [Requests -> Tasks]
  /\ InitialAnchor \in [Issuers -> Profiles]
  /\ Issuances \cap Revocations = {}
  /\ Writers \cap Reconciliations = {}

ASSUME ValueAssumption ==
  /\ NoProfile \notin Profiles
  /\ NoTx \notin Tx
  /\ Stranger \notin Profiles
  /\ MaxNonce \in Nat
  /\ Evictions \in BOOLEAN

VARIABLES
  \* --- database
  profileStatus,  \* SignerProfile.status
  anchorOf,       \* IssuerTechnicalIdentity.anchorSignerProfileId
  credential,     \* Credential.status
  record,         \* the one BlockchainRecord of a credential
  \* --- chain and node
  registered,     \* the transaction that registered a hash, or NoTx
  revoked,        \* the transaction that revoked it, or NoTx
  mined,          \* per account: the next nonce the chain will execute
  pool,           \* transactions the node accepted and has not executed
  inflight,       \* transactions sent whose arrival nobody has confirmed
  \* --- memory of the tasks
  queue,          \* AnchorWriteCoordinator.queues: head = the one writing
  uncertain,      \* AnchorWriteCoordinator.uncertainLanes
  nextNonce,      \* NonceManager: next local nonce, Unset before the first send
  \* --- requests
  pc,
  signer,         \* the profile the request resolved
  txOf,           \* the transaction it sent, or the evidence it found
  \* --- history
  attempts,       \* every transaction a nonce manager ever handed to a signer
  lateSends       \* per task and profile: sends made when it was compromised

db      == <<profileStatus, anchorOf, credential, record>>
chain   == <<registered, revoked, mined, pool, inflight>>
lanes   == <<queue, uncertain, nextNonce>>
reqs    == <<pc, signer, txOf>>
history == <<attempts, lateSends>>
vars    == <<profileStatus, anchorOf, credential, record,
             registered, revoked, mined, pool, inflight,
             queue, uncertain, nextNonce,
             pc, signer, txOf, attempts, lateSends>>

-----------------------------------------------------------------------------
Unset == -1

NoRecord == [status |-> "none", anchor |-> NoProfile, tx |-> NoTx]

Record == [status : {"none", "pending", "registered", "revoked"},
           anchor : Profiles \cup {NoProfile}, tx : Tx \cup {NoTx}]

\* Where a request stands.  A writer is inside its lane from "gated" on.
InLane == {"gated", "sending", "waiting"}
Steps  == {"idle", "prepared", "classifying", "entering", "queued",
           "scanning", "finalizing", "reclassifying", "persisting"} \cup InLane

Op(q) == IF q \in Issuances THEN "register" ELSE "revoke"
Cred(q) == CredentialOf[q]
Lane(q) == queue[TaskOf[q]][signer[q]]

AtHead(q) == Lane(q) # <<>> /\ Head(Lane(q)) = q

Init ==
  /\ profileStatus = [p \in Profiles |-> "active"]
  /\ anchorOf = InitialAnchor
  /\ credential = [c \in Credentials |-> "draft"]
  /\ record = [c \in Credentials |-> NoRecord]
  /\ registered = [c \in Credentials |-> NoTx]
  /\ revoked = [c \in Credentials |-> NoTx]
  /\ mined = [p \in Profiles |-> 0]
  /\ pool = {}
  /\ inflight = {}
  /\ queue = [t \in Tasks |-> [p \in Profiles |-> <<>>]]
  /\ uncertain = [t \in Tasks |-> {}]
  /\ nextNonce = [t \in Tasks |-> [p \in Profiles |-> Unset]]
  /\ pc = [q \in Requests |-> "idle"]
  /\ signer = [q \in Requests |-> NoProfile]
  /\ txOf = [q \in Requests |-> NoTx]
  /\ attempts = {}
  /\ lateSends = [t \in Tasks |-> [p \in Profiles |-> 0]]

\* The request goes on at step s; at "idle" it forgets what it held.
Goto(q, s) ==
  /\ pc' = [pc EXCEPT ![q] = s]
  /\ IF s = "idle"
     THEN /\ signer' = [signer EXCEPT ![q] = NoProfile]
          /\ txOf' = [txOf EXCEPT ![q] = NoTx]
     ELSE UNCHANGED <<signer, txOf>>

\* Mutant of ReleaseLane: a failure breaks the chain of the queue.
LaneNotReleased(q) == queue' = queue

\* A writer leaves the head of its lane, whatever the outcome.
ReleaseLane(q) ==
  queue' = [queue EXCEPT ![TaskOf[q]][signer[q]] = Tail(@)]

\* Mutant of AfterFailure: a failed issuance is left in no step the code knows.
AfterFailureUnhandled(q) == IF q \in Issuances THEN "failed" ELSE "reclassifying"

\* Where a writer goes on when its write failed: an issuance swallows the
\* error, a revocation reads the chain again before it decides.
AfterFailure(q) == IF q \in Issuances THEN "idle" ELSE "reclassifying"

-----------------------------------------------------------------------------
(* Reads of the chain.  A provider may answer from a state that lags, so an  *)
(* effect that took place may still be invisible; it never invents one.      *)

CanSeeActive(c, p)  == registered[c] # NoTx /\ registered[c].acct = p
CanSeeRevoked(c, p) == CanSeeActive(c, p) /\ revoked[c] # NoTx

-----------------------------------------------------------------------------
(* Issuance: CredentialsService.issueCredential.                             *)

\* The reads before the transaction: draft, and the signer of the current
\* anchor, which has to be active.
PrepareIssue(q) ==
  /\ q \in Issuances
  /\ pc[q] = "idle"
  /\ credential[Cred(q)] = "draft"
  /\ LET p == anchorOf[IssuerOf[Cred(q)]] IN
       /\ profileStatus[p] = "active"
       /\ signer' = [signer EXCEPT ![q] = p]
  /\ pc' = [pc EXCEPT ![q] = "prepared"]
  /\ UNCHANGED <<db, chain, lanes, txOf, history>>

\* Mutant of BindingStillHolds: TX#1 trusts the draft read before it.
BindingWithoutDraft(q) ==
  /\ anchorOf[IssuerOf[Cred(q)]] = signer[q]
  /\ profileStatus[signer[q]] = "active"

\* What TX#1 reads again: the draft and the binding of the anchor.
BindingStillHolds(q) ==
  /\ credential[Cred(q)] = "draft"
  /\ anchorOf[IssuerOf[Cred(q)]] = signer[q]
  /\ profileStatus[signer[q]] = "active"

\* TX#1, serializable: the credential becomes issued together with its pending
\* intent.  When a condition no longer holds it throws (RequestError).
CommitIssue(q) ==
  /\ q \in Issuances
  /\ pc[q] = "prepared"
  /\ BindingStillHolds(q)
  /\ credential' = [credential EXCEPT ![Cred(q)] = "issued"]
  /\ record' = [record EXCEPT ![Cred(q)] =
                 [status |-> "pending", anchor |-> signer[q], tx |-> NoTx]]
  /\ Goto(q, "entering")
  /\ UNCHANGED <<profileStatus, anchorOf, chain, lanes, history>>

-----------------------------------------------------------------------------
(* Revocation, up to the lane: IssuerCredentialRevocationService.            *)

\* Mutant of Revocable: a pending record is taken for a finalized one.
RevocableWhenPending(c) ==
  credential[c] = "issued" /\ record[c].status \in {"pending", "registered"}

\* One read of the credential with its record.  Only an issued credential
\* whose record is finalized goes on, and its signer is the historical anchor,
\* not the issuer's current one.
Revocable(c) == credential[c] = "issued" /\ record[c].status = "registered"
SignerOfRevocation(c) == record[c].anchor

StartRevoke(q) ==
  /\ q \in Revocations
  /\ pc[q] = "idle"
  /\ Revocable(Cred(q))
  /\ signer' = [signer EXCEPT ![q] = SignerOfRevocation(Cred(q))]
  /\ pc' = [pc EXCEPT ![q] = "classifying"]
  /\ UNCHANGED <<db, chain, lanes, txOf, history>>

\* DB_ISSUED_CHAIN_ACTIVE leads to a write, DB_ISSUED_CHAIN_REVOKED to the
\* synchronisation of the database; everything else throws (RequestError).
ClassifyActive(q) ==
  /\ pc[q] = "classifying"
  /\ CanSeeActive(Cred(q), signer[q])
  /\ Goto(q, "entering")
  /\ UNCHANGED <<db, chain, lanes, history>>

ClassifyRevoked(q) ==
  /\ pc[q] = "classifying"
  /\ CanSeeRevoked(Cred(q), signer[q])
  /\ Goto(q, "persisting")
  /\ UNCHANGED <<db, chain, lanes, history>>

-----------------------------------------------------------------------------
(* The lane: AnchorWriteCoordinator, shared by registrations and revocations.*)

SignerUsable(p) == profileStatus[p] # "compromised"
LaneCertain(q)  == signer[q] \notin uncertain[TaskOf[q]]

\* The fast refusal of a compromised profile, then enqueue.
EnterLane(q) ==
  /\ pc[q] = "entering"
  /\ SignerUsable(signer[q])
  /\ queue' = [queue EXCEPT ![TaskOf[q]][signer[q]] = Append(@, q)]
  /\ Goto(q, "queued")
  /\ UNCHANGED <<db, chain, uncertain, nextNonce, history>>

\* Mutant of GatePasses: the key is only checked before waiting for the lane.
GateWithoutKey(q) == AtHead(q) /\ LaneCertain(q)

\* At the head of the lane: the latch first, then the authoritative gate on
\* the key.  A refusal is WriteFailed or GateRefused.
GatePasses(q) == AtHead(q) /\ LaneCertain(q) /\ SignerUsable(signer[q])

Gate(q) ==
  /\ pc[q] = "queued"
  /\ GatePasses(q)
  /\ Goto(q, "gated")
  /\ UNCHANGED <<db, chain, lanes, history>>

\* The preflight of the provider and, for a revocation only, the gate on the
\* state of the chain, which answers "send" ...
Preflight(q) ==
  /\ pc[q] = "gated"
  /\ q \in Revocations => CanSeeActive(Cred(q), signer[q])
  /\ Goto(q, "sending")
  /\ UNCHANGED <<db, chain, lanes, history>>

\* ... or "already_revoked": nothing is sent.
SkipRevoked(q) ==
  /\ q \in Revocations
  /\ pc[q] = "gated"
  /\ CanSeeRevoked(Cred(q), signer[q])
  /\ ReleaseLane(q)
  /\ Goto(q, "reclassifying")
  /\ UNCHANGED <<db, chain, uncertain, nextNonce, history>>

\* The node takes tx unless its nonce is behind; a pending transaction of the
\* same account and nonce gives way to it.
Rivals(tx) == {x \in pool : x.acct = tx.acct /\ x.nonce = tx.nonce}
PoolWith(tx) == (pool \ Rivals(tx)) \cup {tx}
Acceptable(tx) == mined[tx.acct] <= tx.nonce

\* What the provider answers to "how many transactions, pending included":
\* the first nonce at which the account has nothing pending.
IsPendingNonce(p, n) ==
  LET Taken(m) == \E x \in pool : x.acct = p /\ x.nonce = m IN
    /\ mined[p] <= n
    /\ \A m \in mined[p] .. n - 1 : Taken(m)
    /\ ~Taken(n)

\* The nonce manager reads the pending nonce once and counts on by itself.
NonceToUse(q, n) ==
  LET known == nextNonce[TaskOf[q]][signer[q]] IN
    IF known = Unset THEN IsPendingNonce(signer[q], n) ELSE n = known

\* The transaction of q with nonce n is handed to the signer; the local nonce
\* is reserved before anything else can fail.
Attempt(q, n) ==
  LET tx == [acct |-> signer[q], nonce |-> n, op |-> Op(q), cred |-> Cred(q)] IN
    /\ pc[q] = "sending"
    /\ NonceToUse(q, n)
    /\ nextNonce' = [nextNonce EXCEPT ![TaskOf[q]][signer[q]] = n + 1]
    /\ attempts' = attempts \cup {tx}
    /\ lateSends' = IF SignerUsable(signer[q]) THEN lateSends
                    ELSE [lateSends EXCEPT ![TaskOf[q]][signer[q]] = @ + 1]

\* The send returned a response: the node holds the transaction.
SendAccepted(q, n) ==
  LET tx == [acct |-> signer[q], nonce |-> n, op |-> Op(q), cred |-> Cred(q)] IN
    /\ Attempt(q, n)
    /\ Acceptable(tx)
    /\ pool' = PoolWith(tx)
    /\ txOf' = [txOf EXCEPT ![q] = tx]
    /\ pc' = [pc EXCEPT ![q] = "waiting"]
    /\ UNCHANGED <<db, registered, revoked, mined, inflight, queue, uncertain, signer>>

\* Mutant of Latch: an ambiguous send leaves the lane open.
LatchForgotten(q) == uncertain

\* The latch of the lane, closed by an ambiguous send and never opened again
\* while the task lives.
Latch(q) == [uncertain EXCEPT ![TaskOf[q]] = @ \cup {signer[q]}]

\* The send threw: the transaction may be on its way (and arrive later, or
\* never) or may not have left at all.
SendThrew(q, n) ==
  LET tx == [acct |-> signer[q], nonce |-> n, op |-> Op(q), cred |-> Cred(q)] IN
    /\ Attempt(q, n)
    /\ inflight' \in {inflight, inflight \cup {tx}}
    /\ uncertain' = Latch(q)
    /\ ReleaseLane(q)
    /\ Goto(q, AfterFailure(q))
    /\ UNCHANGED <<db, registered, revoked, mined, pool>>

\* A receipt with status 1, valid evidence and a readable block.
ReceiptConfirmed(q) ==
  /\ pc[q] = "waiting"
  /\ txOf[q] \in {registered[Cred(q)], revoked[Cred(q)]}
  /\ ReleaseLane(q)
  /\ Goto(q, IF q \in Issuances THEN "finalizing" ELSE "reclassifying")
  /\ UNCHANGED <<db, chain, uncertain, nextNonce, history>>

\* Any other way a write ends: the lane was latched, a read threw, the
\* preflight refused the provider, the contract object could not be built, no
\* receipt in time, a reverted transaction.
WriteFailed(q) ==
  /\ \/ pc[q] = "queued" /\ AtHead(q)
     \/ pc[q] \in InLane
  /\ ReleaseLane(q)
  /\ Goto(q, AfterFailure(q))
  /\ UNCHANGED <<db, chain, uncertain, nextNonce, history>>

\* A gate of a revocation that throws its own error ends the request: the
\* profile is compromised, or the chain does not show the registration.
GateRefused(q) ==
  /\ q \in Revocations
  /\ \/ pc[q] = "queued" /\ AtHead(q) /\ ~SignerUsable(signer[q])
     \/ pc[q] = "gated"
  /\ ReleaseLane(q)
  /\ Goto(q, "idle")
  /\ UNCHANGED <<db, chain, uncertain, nextNonce, history>>

-----------------------------------------------------------------------------
(* TX#2 and reconciliation.                                                  *)

\* Mutants of Finalizable: the status is not part of the predicate; the
\* reconciliation discovers but does not finalize.
FinalizableWithoutStatus(q) == record[Cred(q)].anchor = signer[q]
FinalizableByIssuance(q) == q \in Issuances /\ record[Cred(q)].status = "pending"

\* Only a pending record of the same intent is finalized; otherwise nothing is
\* written, be it an idempotent success or a conflict.
Finalizable(q) ==
  /\ record[Cred(q)].status = "pending"
  /\ record[Cred(q)].anchor = signer[q]

Finalize(q) ==
  /\ pc[q] = "finalizing"
  /\ record' = IF Finalizable(q)
               THEN [record EXCEPT ![Cred(q)] =
                      [status |-> "registered", anchor |-> @.anchor, tx |-> txOf[q]]]
               ELSE record
  /\ Goto(q, "idle")
  /\ UNCHANGED <<profileStatus, anchorOf, credential, chain, lanes, history>>

\* Reconciliation of a pending record; a finalized or revoked one is answered
\* without touching anything.
StartReconcile(q) ==
  /\ q \in Reconciliations
  /\ pc[q] = "idle"
  /\ credential[Cred(q)] = "issued"
  /\ record[Cred(q)].status = "pending"
  /\ signer' = [signer EXCEPT ![q] = record[Cred(q)].anchor]
  /\ pc' = [pc EXCEPT ![q] = "scanning"]
  /\ UNCHANGED <<db, chain, lanes, txOf, history>>

\* The log search found one registration by the expected registrant.  Nothing
\* found, another registrant or an unreadable chain is RequestError: the
\* record stays pending and nothing is sent.
EvidenceFound(q) == CanSeeActive(Cred(q), signer[q])

Scan(q) ==
  /\ pc[q] = "scanning"
  /\ EvidenceFound(q)
  /\ txOf' = [txOf EXCEPT ![q] = registered[Cred(q)]]
  /\ pc' = [pc EXCEPT ![q] = "finalizing"]
  /\ UNCHANGED <<db, chain, lanes, signer, history>>

-----------------------------------------------------------------------------
(* Revocation, after the lane.                                               *)

\* Mutant of RevocationObserved: a write that failed is taken for a success.
RevocationAssumed(q) == TRUE

\* The database follows only a revocation read back from the chain.
RevocationObserved(q) == CanSeeRevoked(Cred(q), signer[q])

Reclassify(q) ==
  /\ pc[q] = "reclassifying"
  /\ RevocationObserved(q)
  /\ Goto(q, "persisting")
  /\ UNCHANGED <<db, chain, lanes, history>>

\* One transaction: the credential if it is still issued, then its record if
\* it is registered.
PersistRevocation(q) ==
  /\ pc[q] = "persisting"
  /\ IF credential[Cred(q)] = "issued"
     THEN /\ credential' = [credential EXCEPT ![Cred(q)] = "revoked"]
          /\ record' = IF record[Cred(q)].status = "registered"
                       THEN [record EXCEPT ![Cred(q)] =
                              [status |-> "revoked", anchor |-> @.anchor, tx |-> @.tx]]
                       ELSE record
     ELSE UNCHANGED <<credential, record>>
  /\ Goto(q, "idle")
  /\ UNCHANGED <<profileStatus, anchorOf, chain, lanes, history>>

\* Outside the lane any step may throw before it has an effect: a condition
\* that no longer holds, the database, the provider, the store of secrets.
RequestError(q) ==
  /\ pc[q] \notin {"idle", "queued"} \cup InLane
  /\ Goto(q, "idle")
  /\ UNCHANGED <<db, chain, lanes, history>>

-----------------------------------------------------------------------------
(* Operators of the system and the process itself.                           *)

\* rotateAnchorSigner: the pointer moves to an active profile; the previous
\* one is retired only if it was active and no issuer points to it any more.
RotateAnchor(i, p) ==
  LET old == anchorOf[i] IN
    /\ profileStatus[old] # "retired"
    /\ profileStatus[p] = "active"
    /\ p # old
    /\ anchorOf' = [anchorOf EXCEPT ![i] = p]
    /\ profileStatus' =
         IF profileStatus[old] = "active" /\ old \notin {anchorOf'[j] : j \in Issuers}
         THEN [profileStatus EXCEPT ![old] = "retired"]
         ELSE profileStatus
    /\ UNCHANGED <<credential, record, chain, lanes, reqs, history>>

\* The operator marks a profile by hand; no code of the API does it.
MarkCompromised(p) ==
  /\ profileStatus[p] # "compromised"
  /\ profileStatus' = [profileStatus EXCEPT ![p] = "compromised"]
  /\ UNCHANGED <<anchorOf, credential, record, chain, lanes, reqs, history>>

Crash(t) ==
  LET mine == {q \in Requests : TaskOf[q] = t} IN
    /\ queue' = [queue EXCEPT ![t] = [p \in Profiles |-> <<>>]]
    /\ uncertain' = [uncertain EXCEPT ![t] = {}]
    /\ nextNonce' = [nextNonce EXCEPT ![t] = [p \in Profiles |-> Unset]]
    /\ pc' = [q \in Requests |-> IF q \in mine THEN "idle" ELSE pc[q]]
    /\ signer' = [q \in Requests |-> IF q \in mine THEN NoProfile ELSE signer[q]]
    /\ txOf' = [q \in Requests |-> IF q \in mine THEN NoTx ELSE txOf[q]]
    /\ UNCHANGED <<db, chain, history>>

-----------------------------------------------------------------------------
(* The node and the contract.                                                *)

\* registerCredential reverts when the hash exists; revokeCredential reverts
\* unless it exists, was registered by the sender and is not revoked yet.
Registers(tx) == tx.op = "register" /\ registered[tx.cred] = NoTx
Revokes(tx) ==
  /\ tx.op = "revoke"
  /\ registered[tx.cred] # NoTx
  /\ registered[tx.cred].acct = tx.acct
  /\ revoked[tx.cred] = NoTx

\* The next transaction of an account is executed; one that reverts changes
\* nothing but consumes its nonce.
Mine(tx) ==
  /\ tx \in pool
  /\ tx.nonce = mined[tx.acct]
  /\ mined' = [mined EXCEPT ![tx.acct] = @ + 1]
  /\ pool' = pool \ {tx}
  /\ registered' = IF Registers(tx) THEN [registered EXCEPT ![tx.cred] = tx]
                                    ELSE registered
  /\ revoked' = IF Revokes(tx) THEN [revoked EXCEPT ![tx.cred] = tx] ELSE revoked
  /\ UNCHANGED <<db, inflight, lanes, reqs, history>>

\* A transaction whose send threw reaches the node after all.
Deliver(tx) ==
  /\ tx \in inflight
  /\ inflight' = inflight \ {tx}
  /\ pool' = IF Acceptable(tx) THEN PoolWith(tx) ELSE pool
  /\ UNCHANGED <<db, registered, revoked, mined, lanes, reqs, history>>

Evict(tx) ==
  /\ Evictions
  /\ tx \in pool
  /\ pool' = pool \ {tx}
  /\ UNCHANGED <<db, registered, revoked, mined, inflight, lanes, reqs, history>>

\* The contract lets anyone register a hash; once issued, the hash is public.
RegisterByStranger(c) ==
  /\ credential[c] # "draft"
  /\ registered[c] = NoTx
  /\ registered' = [registered EXCEPT ![c] =
       [acct |-> Stranger, nonce |-> 0, op |-> "register", cred |-> c]]
  /\ UNCHANGED <<db, revoked, mined, pool, inflight, lanes, reqs, history>>

-----------------------------------------------------------------------------
Write(q) ==
  \/ EnterLane(q) \/ Gate(q) \/ Preflight(q) \/ SkipRevoked(q)
  \/ \E n \in 0 .. MaxNonce : SendAccepted(q, n) \/ SendThrew(q, n)
  \/ ReceiptConfirmed(q) \/ WriteFailed(q) \/ GateRefused(q)

RequestStep(q) ==
  \/ PrepareIssue(q) \/ CommitIssue(q)
  \/ StartRevoke(q) \/ ClassifyActive(q) \/ ClassifyRevoked(q)
  \/ Reclassify(q) \/ PersistRevocation(q)
  \/ StartReconcile(q) \/ Scan(q) \/ Finalize(q)
  \/ RequestError(q)

Environment ==
  \/ \E i \in Issuers, p \in Profiles : RotateAnchor(i, p)
  \/ \E p \in Profiles : MarkCompromised(p)
  \/ \E t \in Tasks : Crash(t)
  \/ \E tx \in pool : Mine(tx) \/ Evict(tx)
  \/ \E tx \in inflight : Deliver(tx)
  \/ \E c \in Credentials : RegisterByStranger(c)

Next == (\E q \in Requests : Write(q) \/ RequestStep(q)) \/ Environment

Spec == Init /\ [][Next]_vars

-----------------------------------------------------------------------------
(* Properties.                                                               *)

\* Types of every variable.
TypeOK ==
  /\ profileStatus \in [Profiles -> {"active", "retired", "compromised"}]
  /\ anchorOf \in [Issuers -> Profiles]
  /\ credential \in [Credentials -> {"draft", "issued", "revoked"}]
  /\ record \in [Credentials -> Record]
  /\ registered \in [Credentials -> Tx \cup {NoTx}]
  /\ revoked \in [Credentials -> Tx \cup {NoTx}]
  /\ mined \in [Profiles -> Nat]
  /\ pool \subseteq Tx /\ inflight \subseteq Tx /\ attempts \subseteq Tx
  /\ queue \in [Tasks -> [Profiles -> Seq(Writers)]]
  /\ uncertain \in [Tasks -> SUBSET Profiles]
  /\ nextNonce \in [Tasks -> [Profiles -> Nat \cup {Unset}]]
  /\ pc \in [Requests -> Steps]
  /\ signer \in [Requests -> Profiles \cup {NoProfile}]
  /\ txOf \in [Requests -> Tx \cup {NoTx}]
  /\ lateSends \in [Tasks -> [Profiles -> Nat]]

\* The database never runs ahead of the chain: a record says registered or
\* revoked only with the very transaction that registered the hash, sent by
\* the anchor of its intent, and a credential is revoked exactly when its
\* record is, and then its anchor revoked it on chain.
DatabaseFollowsChain ==
  \A c \in Credentials :
    LET r == record[c] IN
      /\ r.status \in {"registered", "revoked"} =>
           registered[c] = r.tx /\ r.tx # NoTx /\ r.tx.acct = r.anchor
      /\ credential[c] = "revoked" <=> r.status = "revoked"
      /\ r.status = "revoked" => revoked[c] # NoTx /\ revoked[c].acct = r.anchor

\* No blind resend: whatever crashes, times out, is retried or reconciled, at
\* most one registration of a credential is ever handed to a signer.
AtMostOneRegistration ==
  \A x, y \in attempts :
    x.op = "register" /\ y.op = "register" /\ x.cred = y.cred => x = y

\* Every write is signed by the anchor frozen in the record, through rotations,
\* and a revocation is only ever sent for a record finalized before.
WritesFollowTheRecord ==
  \A x \in attempts :
    /\ x.acct = record[x.cred].anchor
    /\ x.op = "revoke" => record[x.cred].status \in {"registered", "revoked"}

\* The lane and its latch keep the nonces of an account contiguous: no
\* transaction the node holds waits behind a nonce that nobody sent.  It is
\* promised of a node that drops nothing it accepted.
Covered(p, n) == n < mined[p] \/ \E x \in pool : x.acct = p /\ x.nonce = n

NoStuckTransaction ==
  \A x \in pool : \A n \in 0 .. x.nonce : Covered(x.acct, n)

\* The gate inside the lane: once a profile is marked as compromised, a task
\* signs with it at most once more, the write that had passed the gate already.
AtMostOneLateSend ==
  \A t \in Tasks, p \in Profiles : lateSends[t][p] <= 1

\* "compromised -> PROHIBIDO: no se transmite" taken literally.  The code has
\* a window between the gate and the send, so this does not hold.
NoSendWhenCompromised ==
  \A t \in Tasks, p \in Profiles : lateSends[t][p] = 0

\* The anchoring implements the life cycle of AnchoredCredential.
StageOf(c) == IF credential[c] = "draft" THEN "draft" ELSE record[c].status

ChainOf(c) ==
  IF registered[c] = NoTx THEN "absent"
  ELSE IF registered[c].acct # record[c].anchor THEN "foreign"
  ELSE IF revoked[c] = NoTx THEN "anchored" ELSE "revoked"

Lifecycle == INSTANCE AnchoredCredential WITH
  stage  <- [c \in Credentials |-> StageOf(c)],
  chain  <- [c \in Credentials |-> ChainOf(c)],
  anchor <- [c \in Credentials |-> record[c].anchor]

RefinesLifecycle == Lifecycle!Spec

-----------------------------------------------------------------------------
(* Fairness.  Every await of a request ends: the database and the provider   *)
(* have timeouts and the wait for a receipt lasts 90 seconds at most, so a    *)
(* request that can move moves.  Nothing obliges anyone to make a request,    *)
(* to rotate, to crash, or the node to mine.                                  *)
Ends(q) == Write(q) \/ (pc[q] # "idle" /\ RequestStep(q))

FairSpec == Spec /\ \A q \in Requests : WF_vars(Ends(q))

\* A failure never blocks the lane: whoever queues gets out of the queue.
QueueDrains ==
  \A q \in Writers : pc[q] = "queued" ~> pc[q] # "queued"

\* The reconciler of a credential keeps being called, and its calls neither
\* fail nor crash for ever.
PersistentReconcile ==
  \A q \in Reconciliations :
    /\ WF_vars(StartReconcile(q))
    /\ SF_vars(Scan(q))
    /\ SF_vars(Finalize(q))

RecoverySpec == FairSpec /\ PersistentReconcile

\* The scenario reconciliation exists for: a registration that the chain holds
\* and the database does not know is adopted in the end.
RegistrationAdopted ==
  \A c \in {Cred(q) : q \in Reconciliations} :
    (record[c].status = "pending" /\ CanSeeActive(c, record[c].anchor))
      ~> record[c].status \in {"registered", "revoked"}

=============================================================================
