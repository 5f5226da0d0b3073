----------------------- MODULE CredentialVerification -----------------------
(***************************************************************************)
(* What the public verification of a credential answers while the          *)
(* credential is issued, revoked and altered and the keys of its issuer    *)
(* rotate: src/services/api/src/verification (verification.service.ts,     *)
(* credential-authenticity.verifier.ts, credential-blockchain-             *)
(* evidence.reader.ts, verification-outcome.ts) and                        *)
(* identity/issuer-did-document.resolver.ts.                               *)
(*                                                                         *)
(* A verification only reads, and reads three times: the row, the DID      *)
(* document and the chain.  What moves in between is the rest of the       *)
(* system, reduced here to the order of its writes.                        *)
(***************************************************************************)
EXTENDS Naturals, Sequences, FiniteSets

CONSTANTS
    Readers,     \* verifications in progress at once
    MaxKeys,     \* bound: versions of the assertion key
    MaxDefects,  \* bound: ways in which the row is altered at once
    DidFaults,   \* whether reading the DID document may fail
    RpcFaults    \* whether reading the chain may fail

ASSUME AnswerAssumption ==
    /\ IsFiniteSet(Readers) /\ Readers # {}
    /\ MaxKeys \in Nat \ {0} /\ MaxDefects \in Nat
    /\ {DidFaults, RpcFaults} \subseteq BOOLEAN

VARIABLES
    credentialStatus, \* Credential.status
    schema,   \* Credential.schemaVersion
    signedBy, \* version of the key that signed the proof, 0 before
    defects,  \* what contradicts the contract in the rows of the credential
    record,   \* its BlockchainRecord
    registrant, entryRevoked, \* the entry of the hash in the registry
    target,   \* whether the configured deployment is the one of the record
    keys,     \* status of each version of the assertion key
    current,  \* the version the identity refers to
    told,     \* someone was answered that the credential is revoked
    task

credential == <<credentialStatus, schema, signedBy, record>>
chain == <<registrant, entryRevoked>>
identity == <<keys, current>>
answerVars == <<credential, defects, chain, target, identity, told, task>>

NoAnswer == "no answer"

Checks ==
    << "canonicalization", "no proof", "contract", "proof value", "unreproducible",
       "hash", "content", "method", "foreign did" >>
ArtifactDefects ==
    {"canonicalization", "no proof", "contract", "proof value", "unreproducible", "hash",
     "content", "method", "foreign did", "signature"}
\* What the reader of the evidence meets in the rows.
RecordDefects == {"two rows", "record hash", "no registrant"}
Defects == ArtifactDefects \cup RecordDefects

Idle == [at |-> "idle", status |-> "draft", schema |-> "v2", method |-> 0, defects |-> {},
         record |-> "none", authenticity |-> NoAnswer, evidence |-> NoAnswer,
         headline |-> NoAnswer, began |-> {}]

AnswerInit ==
    /\ credentialStatus = "draft" /\ schema \in {"v1", "v2", "v3"} /\ signedBy = 0
    /\ defects = {} /\ record = "none"
    /\ registrant = "nobody" /\ entryRevoked = FALSE
    /\ target = TRUE
    /\ keys = [v \in 1..MaxKeys |-> IF v = 1 THEN "active" ELSE "absent"]
    /\ current = 1
    /\ told = FALSE
    /\ task = [t \in Readers |-> Idle]

At(t, place) == task[t].at = place

-----------------------------------------------------------------------------
(* The credential, the chain and the identity of the issuer.                *)

\* Mutant of Sign: the proof refers to the version after the one that signed.
SignAhead == /\ keys[current] = "active"
             /\ signedBy' = IF schema = "v1" THEN 0 ELSE current + 1
\* A version before the signature carries no proof.
Sign == /\ keys[current] = "active"
        /\ signedBy' = IF schema = "v1" THEN 0 ELSE current

IssueMock ==
    /\ credentialStatus = "draft" /\ record = "none" /\ Sign
    /\ credentialStatus' = "issued" /\ record' = "mock"
    /\ UNCHANGED <<schema, defects, chain, target, identity, told, task>>

\* The first transaction of an issuance: issued, and the intent to register it.
Reserve ==
    /\ credentialStatus = "draft" /\ record = "none" /\ Sign
    /\ credentialStatus' = "issued" /\ record' = "pending"
    /\ UNCHANGED <<schema, defects, chain, target, identity, told, task>>

Register(who) ==
    /\ record = "pending" /\ registrant = "nobody" /\ registrant' = who
    /\ UNCHANGED <<credential, defects, entryRevoked, target, identity, told, task>>

Finalize ==
    /\ record = "pending" /\ registrant = "issuer" /\ record' = "registered"
    /\ UNCHANGED <<credentialStatus, schema, signedBy, defects, chain, target, identity,
                   told, task>>

\* A credential of the time before the registry kept its record has none.
IssueUnrecorded ==
    /\ credentialStatus = "draft" /\ record = "none" /\ Sign
    /\ credentialStatus' = "issued"
    /\ UNCHANGED <<schema, record, defects, chain, target, identity, told, task>>

\* Only who registered an entry can revoke it, and the issuer revokes what is finalized.
RevokeOnChain ==
    /\ registrant # "nobody" /\ ~entryRevoked
    /\ registrant = "issuer" => record = "registered"
    /\ entryRevoked' = TRUE
    /\ UNCHANGED <<credential, defects, registrant, target, identity, told, task>>

PersistRevocation ==
    /\ credentialStatus = "issued" /\ record = "registered"
    /\ registrant = "issuer" /\ entryRevoked
    /\ credentialStatus' = "revoked" /\ record' = "revoked"
    /\ UNCHANGED <<schema, signedBy, defects, chain, target, identity, told, task>>

\* A row drifts: somebody writes to the database beside the application.
Alter(d) ==
    /\ credentialStatus # "draft" /\ Cardinality(defects) < MaxDefects
    /\ d \notin defects /\ defects' = defects \cup {d}
    /\ UNCHANGED <<credential, chain, target, identity, told, task>>

TargetChanges ==
    /\ RpcFaults /\ target' = ~target
    /\ UNCHANGED <<credential, defects, chain, identity, told, task>>

Rotate ==
    /\ current < MaxKeys
    /\ keys' = [keys EXCEPT ![current + 1] = "active",
                            ![current] = IF @ = "active" THEN "retired" ELSE @]
    /\ current' = current + 1
    /\ UNCHANGED <<credential, defects, chain, target, told, task>>

Compromise(v) ==
    /\ keys[v] \in {"active", "retired"} /\ keys' = [keys EXCEPT ![v] = "compromised"]
    /\ UNCHANGED <<credential, defects, chain, target, current, told, task>>

-----------------------------------------------------------------------------
(* The three dimensions.                                                    *)

\* The first check a row fails, or none.
FirstFailure(row) ==
    LET failed == {n \in 1..Len(Checks) : Checks[n] \in row.defects} IN
    IF failed = {} THEN "none" ELSE Checks[CHOOSE n \in failed : \A m \in failed : n <= m]

\* verify, up to the DID document
BeforeDocument(row) ==
    CASE row.schema # "v2" -> "INDETERMINATE"
      [] row.schema = "v2" /\ FirstFailure(row) # "none" -> "INVALID"
      [] OTHER -> NoAnswer

\* validateAssertionHistory
Consistent ==
    /\ keys[current] # "retired"
    /\ \A v \in 1..MaxKeys : keys[v] = "active" => v = current
\* Mutant of Published: only the key the identity refers to.
CurrentOnly == {v \in {current} : keys[v] # "compromised"}
Published == {v \in 1..MaxKeys : keys[v] \in {"active", "retired"}}

\* verify, from the DID document on
ByDocument(row) ==
    IF ~Consistent THEN "INDETERMINATE"
    ELSE IF row.method \in Published /\ "signature" \notin row.defects THEN "VERIFIED"
    ELSE "INVALID"

\* read, before the chain
BeforeChain(row) ==
    CASE row.record = "none" -> "NOT_FOUND"
      [] row.record # "none" /\ "two rows" \in row.defects -> "UNAVAILABLE"
      [] row.record = "mock" /\ "two rows" \notin row.defects -> "NOT_APPLICABLE_MOCK"
      [] row.record \notin {"none", "mock"}
            /\ (row.defects \cap {"two rows", "record hash", "hash", "no registrant"} # {} \/ ~target)
            -> "UNAVAILABLE"
      [] OTHER -> NoAnswer

ByChain(row) ==
    CASE registrant = "nobody" -> IF row.record = "pending" THEN "PENDING" ELSE "NOT_FOUND"
      [] registrant = "stranger" -> "REGISTRANT_UNEXPECTED"
      [] OTHER -> IF entryRevoked THEN "REVOKED_ON_CHAIN" ELSE "REGISTERED"

\* read, when the registry cannot be read: what the row says of it is no evidence
WithoutChain(row) == "UNAVAILABLE"

\* deriveCredentialStatus
StatusOf(row, evidence) ==
    IF evidence = "REVOKED_ON_CHAIN" \/ row.status = "revoked" THEN "REVOKED" ELSE "ACTIVE"

\* deriveVerificationHeadline
Headline(authenticity, state, evidence) ==
    CASE authenticity = "INVALID" -> "INVALID"
      [] authenticity # "INVALID" /\ state = "REVOKED" -> "REVOKED"
      [] authenticity = "INDETERMINATE" /\ state # "REVOKED" -> "INDETERMINATE"
      [] OTHER -> CASE evidence = "REGISTERED" -> "VERIFIED"
                    [] evidence = "REGISTRANT_UNEXPECTED" -> "INDETERMINATE"
                    [] OTHER -> "VERIFIED_WITH_LIMITED_EVIDENCE"

\* deriveLegacyVerificationResult = valid_issued
Valid(headline) == headline \in {"VERIFIED", "VERIFIED_WITH_LIMITED_EVIDENCE"}

-----------------------------------------------------------------------------
(* getCredentialVerification.                                               *)

\* What is settled when a verification begins.
Settled ==
    (IF credentialStatus = "revoked" THEN {"revoked"} ELSE {})
        \cup (IF told THEN {"told"} ELSE {})
        \cup (IF signedBy # 0 /\ keys[signedBy] = "compromised" THEN {"compromised"} ELSE {})

\* A draft is a reference nobody knows.
ReadCredential(t) ==
    LET row == [Idle EXCEPT !.status = credentialStatus, !.schema = schema,
                            !.method = signedBy, !.defects = defects, !.record = record,
                            !.began = Settled] IN
    /\ task[t] = Idle /\ credentialStatus # "draft"
    /\ task' = [task EXCEPT ![t] =
           [row EXCEPT !.authenticity = BeforeDocument(row),
                       !.at = IF BeforeDocument(row) = NoAnswer THEN "document" ELSE "evidence"]]
    /\ UNCHANGED <<credential, defects, chain, target, identity, told>>

ReadDocument(t) ==
    /\ At(t, "document")
    /\ \E answer \in {ByDocument(task[t])} \cup (IF DidFaults THEN {"INDETERMINATE"} ELSE {}) :
          task' = [task EXCEPT ![t].authenticity = answer, ![t].at = "evidence"]
    /\ UNCHANGED <<credential, defects, chain, target, identity, told>>

ReadEvidence(t) ==
    /\ At(t, "evidence")
    /\ \E answer \in IF BeforeChain(task[t]) # NoAnswer THEN {BeforeChain(task[t])}
                     ELSE {ByChain(task[t])} \cup (IF RpcFaults THEN {WithoutChain(task[t])} ELSE {}) :
          LET state == StatusOf(task[t], answer)
              headline == Headline(task[t].authenticity, state, answer) IN
          /\ task' = [task EXCEPT ![t].evidence = answer, ![t].headline = headline,
                                  ![t].at = "answered"]
          /\ told' = (told \/ headline = "REVOKED")
    /\ UNCHANGED <<credential, defects, chain, target, identity>>

Leave(t) ==
    /\ At(t, "answered") /\ task' = [task EXCEPT ![t] = Idle]
    /\ UNCHANGED <<credential, defects, chain, target, identity, told>>

AnswerNext ==
    \/ IssueMock \/ IssueUnrecorded \/ Reserve \/ Finalize \/ RevokeOnChain
    \/ PersistRevocation \/ TargetChanges \/ Rotate
    \/ \E who \in {"issuer", "stranger"} : Register(who)
    \/ \E d \in Defects : Alter(d)
    \/ \E v \in 1..MaxKeys : Compromise(v)
    \/ \E t \in Readers : ReadCredential(t) \/ ReadDocument(t) \/ ReadEvidence(t) \/ Leave(t)

AnswerSpec == AnswerInit /\ [][AnswerNext]_answerVars

-----------------------------------------------------------------------------
(* What must hold.                                                          *)

AnsweredWith(t, headlines) == At(t, "answered") /\ task[t].headline \in headlines
CompromisedNow == signedBy # 0 /\ keys[signedBy] = "compromised"

\* The values each variable takes.
AnswerTypeOK ==
    /\ credentialStatus \in {"draft", "issued", "revoked"} /\ schema \in {"v1", "v2", "v3"}
    /\ signedBy \in 0..MaxKeys /\ current \in 1..MaxKeys /\ defects \subseteq Defects
    /\ record \in {"none", "mock", "pending", "registered", "revoked"}
    /\ registrant \in {"nobody", "issuer", "stranger"}
    /\ keys \in [1..MaxKeys -> {"absent", "active", "retired", "compromised"}]
    /\ \A t \in Readers :
          task[t].evidence \in {NoAnswer, "REGISTERED", "REVOKED_ON_CHAIN", "NOT_FOUND",
              "UNAVAILABLE", "NOT_APPLICABLE_MOCK", "REGISTRANT_UNEXPECTED", "PENDING"}

\* False is not unknown: a credential nobody altered, signed with a key nobody broke, is
\* never called invalid, whatever rotates, is revoked or is out of reach meanwhile.
GenuineIsNeverInvalid ==
    \A t \in Readers : AnsweredWith(t, {"INVALID"}) =>
        task[t].defects \cap ArtifactDefects # {} \/ CompromisedNow

\* What contradicts its own proof is not presented as valid, whatever the chain says of it.
AlteredIsNeverValid ==
    \A t \in Readers : At(t, "answered") /\ task[t].defects \cap ArtifactDefects # {} =>
        ~Valid(task[t].headline)

\* Once the key that signed is marked as compromised, its proofs are worth nothing, also to
\* a registered credential.
BrokenKeysProveNothing ==
    \A t \in Readers : At(t, "answered") /\ "compromised" \in task[t].began =>
        ~Valid(task[t].headline)

\* After the issuer revoked, no answer is valid: neither a chain out of reach nor the lack
\* of one brings the credential back.
RevokedIsNeverValid ==
    \A t \in Readers : At(t, "answered") /\ "revoked" \in task[t].began =>
        ~Valid(task[t].headline)

\* Nobody but the issuer revokes: an entry a stranger made for the same hash and revoked
\* is no revocation, an outage is none either.
OnlyTheIssuerRevokes ==
    \A t \in Readers : AnsweredWith(t, {"REVOKED"}) =>
        credentialStatus = "revoked" \/ (registrant = "issuer" /\ entryRevoked)

\* Fully verified means that the registry has the hash, from the expected registrant, though
\* its record may still wait to be finalized: not a row that says so, and not the evidence of
\* a demonstration.
VerifiedIsAnchored ==
    \A t \in Readers : AnsweredWith(t, {"VERIFIED"}) =>
        registrant = "issuer" /\ task[t].record \notin {"none", "mock"}

\* Once somebody was told that the credential is revoked, nobody who asks later is told
\* that it is fully verified: at worst the registry is out of reach and the evidence is
\* limited, since nothing remembers a revocation that only the chain reported.
RevocationIsMonotone ==
    \A t \in Readers : AnsweredWith(t, {"VERIFIED"}) => "told" \notin task[t].began

\* What the answers say, together: nothing that the rows, the DID documents and the chain
\* they were read from, at three moments, do not bear out.
AnswersAreTruthful ==
    /\ GenuineIsNeverInvalid /\ AlteredIsNeverValid /\ BrokenKeysProveNothing
    /\ RevokedIsNeverValid /\ OnlyTheIssuerRevokes /\ VerifiedIsAnchored
    /\ RevocationIsMonotone
=============================================================================
