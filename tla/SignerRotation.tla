--------------------------- MODULE SignerRotation ---------------------------
(***************************************************************************)
(* The technical identity of issuers (services/api/src/identity): initial  *)
(* provisioning and rotation of the assertion and anchor keys by an        *)
(* operator, the DID document derived from the history of assertion keys,  *)
(* and the proofs that issuances sign meanwhile.                           *)
(*                                                                         *)
(* A call of the operator generates its own profile ids, so a profile is   *)
(* named by the call and its purpose.  A step of a call is what it does    *)
(* between two awaits: the reads before, one write to the secret store,    *)
(* one statement or one SERIALIZABLE transaction.                          *)
(***************************************************************************)
EXTENDS Naturals

CONSTANTS
  Issuers,
  Calls,       \* calls of TechnicalIdentityProvisioningService
  Issuances,   \* calls of issueCredential
  None,
  Faults       \* whether calls die and answers are lost

Purposes == {"assertion", "anchor"}
Profiles == [by : Calls, purpose : Purposes]
New(c, purpose) == [by |-> c, purpose |-> purpose]

AssertionProfiles == {p \in Profiles : p.purpose = "assertion"}
AnchorProfiles    == {p \in Profiles : p.purpose = "anchor"}

ASSUME IdentityAssumption ==
  /\ None \notin Issuers \cup Profiles
  /\ Faults \in BOOLEAN

VARIABLES
  \* --- rows
  status,      \* SignerProfile.status
  version,     \* SignerProfile.keyVersion
  identity,    \* IssuerTechnicalIdentity.status
  assertionOf, \* IssuerTechnicalIdentity.assertionSignerProfileId
  anchorOf,    \* IssuerTechnicalIdentity.anchorSignerProfileId
  bound,       \* IssuerAssertionKeyBinding: the issuer of a profile
  secrets,     \* SecureStrings in the secret store
  \* --- what the operator was told
  reported,    \* profiles named as orphan secret or unattached profile
  \* --- calls
  pc, op, issuer, anchor, nextVersion, written,
  \* --- issuances
  ipc, signer, proofs

rows  == <<status, version, identity, assertionOf, anchorOf, bound>>
plan  == <<op, issuer, anchor, nextVersion>>
calls == <<pc, op, issuer, anchor, nextVersion, written>>
sign  == <<ipc, signer, proofs>>
vars  == <<status, version, identity, assertionOf, anchorOf, bound, secrets,
           reported, pc, op, issuer, anchor, nextVersion, written,
           ipc, signer, proofs>>

Statuses   == {"absent", "active", "retired", "compromised"}
Identities == {"none", "active", "rotation_required", "disabled"}
Ops        == {"none", "initial", "assertion", "anchor"}
CallStates == {"idle", "write_assertion", "write_anchor", "persist", "rotate",
               "done", "failed", "dead"}

TypeOK ==
  /\ status \in [Profiles -> Statuses]
  /\ version \in [Profiles -> Nat]
  /\ identity \in [Issuers -> Identities]
  /\ assertionOf \in [Issuers -> AssertionProfiles \cup {None}]
  /\ anchorOf \in [Issuers -> AnchorProfiles \cup {None}]
  /\ bound \in [Profiles -> Issuers \cup {None}]
  /\ secrets \subseteq Profiles
  /\ reported \subseteq Profiles
  /\ pc \in [Calls -> CallStates]
  /\ op \in [Calls -> Ops]
  /\ issuer \in [Calls -> Issuers \cup {None}]
  /\ anchor \in [Calls -> AnchorProfiles \cup {None}]
  /\ nextVersion \in [Calls -> Nat]
  /\ written \in [Calls -> SUBSET Profiles]
  /\ ipc \in [Issuances -> {"idle", "prepared", "checked", "issued", "rejected"}]
  /\ signer \in [Issuances -> AssertionProfiles \cup {None}]
  /\ proofs \in SUBSET [issuer : Issuers, version : Nat, key : AssertionProfiles]

Init ==
  /\ status = [p \in Profiles |-> "absent"]
  /\ version = [p \in Profiles |-> 0]
  /\ identity = [i \in Issuers |-> "none"]
  /\ assertionOf = [i \in Issuers |-> None]
  /\ anchorOf = [i \in Issuers |-> None]
  /\ bound = [p \in Profiles |-> None]
  /\ secrets = {}
  /\ reported = {}
  /\ pc = [c \in Calls |-> "idle"]
  /\ op = [c \in Calls |-> "none"]
  /\ issuer = [c \in Calls |-> None]
  /\ anchor = [c \in Calls |-> None]
  /\ nextVersion = [c \in Calls |-> 0]
  /\ written = [c \in Calls |-> {}]
  /\ ipc = [q \in Issuances |-> "idle"]
  /\ signer = [q \in Issuances |-> None]
  /\ proofs = {}

-----------------------------------------------------------------------------
\* The history of assertion keys of an issuer.
History(i) == {p \in Profiles : bound[p] = i}

\* Mutant of IsNextVersion: checked before the transaction only.
AnyVersion(i, v) == v \in {version[p] + 1 : p \in History(i)}

\* v is the version that follows the highest of the whole history.
IsNextVersion(i, v) ==
  /\ v \in {version[p] + 1 : p \in History(i)}
  /\ \A p \in History(i) : version[p] < v

\* isUsableSharedAnchor.
UsableAnchor(p) == p.purpose = "anchor" /\ status[p] = "active"

\* Mutant of AnchorStillUsable: trusts the validation before the secrets.
AnchorWasUsable(c) == TRUE

\* The anchor of an initial provisioning, read again in the transaction.
AnchorStillUsable(c) ==
  anchor[c] = New(c, "anchor") \/ UsableAnchor(anchor[c])

\* loadRotationCandidate.
Candidate(p, current) == p # current /\ status[p] = "active"

Rotatable(i) == identity[i] \in {"active", "rotation_required"}

\* loadCurrentProfile.
CurrentAdmitsRotation(p) == p \in Profiles /\ status[p] # "retired"

\* Mutant of Reconciled: only the role that was rotated is looked at.
ReconciledAssertionOnly(i, statusNow, boundNow, assertionNow, anchorNow) ==
  IF statusNow[assertionNow] = "active" \/ statusNow[anchorNow] = "active"
  THEN "active" ELSE "rotation_required"

\* reconcileIdentityStatus, over the rows the transaction has written.
Reconciled(i, statusNow, boundNow, assertionNow, anchorNow) ==
  IF /\ statusNow[assertionNow] = "active"
     /\ boundNow[assertionNow] = i
     /\ statusNow[anchorNow] = "active"
  THEN "active" ELSE "rotation_required"

\* The previous profile of a rotation: a compromise is never rewritten.
Retired(p) == IF status[p] = "active" THEN "retired" ELSE status[p]

-----------------------------------------------------------------------------
(* What the DID endpoint answers. *)

\* Mutant of Published: retired keys are left out.
PublishedActiveOnly(i) == {p \in History(i) : status[p] = "active"}

\* validateAssertionHistory: what is published, the compromised keys omitted.
Published(i) == {p \in History(i) : status[p] # "compromised"}

HistoryIsValid(i) ==
  /\ \A p \in History(i) : p.purpose = "assertion"
  /\ assertionOf[i] \in History(i)
  /\ status[assertionOf[i]] # "retired"
  /\ \A p \in History(i) : status[p] = "active" => p = assertionOf[i]
  /\ \A p \in Published(i) : version[p] >= 1
  /\ \A p, r \in Published(i) : version[p] = version[r] => p = r

\* evaluateIssuerDidPublication: the key that #assert-v resolves to.
Resolves(i, v, p) ==
  identity[i] # "none" /\ HistoryIsValid(i) /\ p \in Published(i) /\ version[p] = v

-----------------------------------------------------------------------------
(* provisionInitial, rotateAssertion, rotateAnchor: the steps of a call. *)

Begin(c, o, i, a, v, where) ==
  /\ pc[c] = "idle"
  /\ pc' = [pc EXCEPT ![c] = where]
  /\ op' = [op EXCEPT ![c] = o]
  /\ issuer' = [issuer EXCEPT ![c] = i]
  /\ anchor' = [anchor EXCEPT ![c] = a]
  /\ nextVersion' = [nextVersion EXCEPT ![c] = v]
  /\ UNCHANGED <<status, version, identity, assertionOf, anchorOf, bound,
                 secrets, reported, written, ipc, signer, proofs>>

\* The validation before the secrets, which the transaction repeats.
BeginInitial(c, i, a) ==
  /\ identity[i] = "none"
  /\ a = New(c, "anchor") \/ UsableAnchor(a)
  /\ Begin(c, "initial", i, a, 1, "write_assertion")

\* The version is derived before the secret is written.
BeginAssertion(c, i) ==
  \E v \in {version[p] + 1 : p \in History(i)} :
    /\ \A p \in History(i) : version[p] < v
    /\ Begin(c, "assertion", i, None, v, "write_assertion")

\* A shared anchor needs no secret: the rotation decides everything.
BeginAnchor(c, i, a) ==
  \/ /\ a = New(c, "anchor")
     /\ Begin(c, "anchor", i, a, 1, "write_anchor")
  \/ /\ a # New(c, "anchor")
     /\ Begin(c, "anchor", i, a, 0, "rotate")

Finish(c, state, told) ==
  /\ pc' = [pc EXCEPT ![c] = state]
  /\ reported' = reported \cup told

AfterWrite(c) ==
  IF pc[c] = "write_assertion" /\ op[c] = "initial" /\ anchor[c] = New(c, "anchor")
  THEN "write_anchor" ELSE "persist"

Writes(c) == IF pc[c] = "write_assertion" THEN New(c, "assertion") ELSE New(c, "anchor")

\* writeSecret, outside any transaction.
WriteSecret(c) ==
  /\ pc[c] \in {"write_assertion", "write_anchor"}
  /\ secrets' = secrets \cup {Writes(c)}
  /\ written' = [written EXCEPT ![c] = @ \cup {Writes(c)}]
  /\ pc' = [pc EXCEPT ![c] = AfterWrite(c)]
  /\ UNCHANGED <<status, version, identity, assertionOf, anchorOf, bound,
                 reported, op, issuer, anchor, nextVersion, ipc, signer, proofs>>

\* Mutant of WriteFailureReport: nothing.
NothingReported(c) == {}

\* What writeSecret reports when it fails: what was created before.
WriteFailureReport(c) == written[c]

\* The write fails, or its answer is lost and the parameter exists.
SecretFails(c) ==
  /\ pc[c] \in {"write_assertion", "write_anchor"}
  /\ \/ UNCHANGED secrets
     \/ Faults /\ secrets' = secrets \cup {Writes(c)}
  /\ Finish(c, "failed", WriteFailureReport(c))
  /\ UNCHANGED <<status, version, identity, assertionOf, anchorOf, bound,
                 op, issuer, anchor, nextVersion, written, ipc, signer, proofs>>

\* The transaction of provisionInitial: it validates again, creates the rows
\* and is answered, or is committed and reported as failed.
PersistInitial(c) ==
  LET i == issuer[c]
      k == New(c, "assertion")
      created == {k} \cup ({New(c, "anchor")} \cap {anchor[c]}) IN
  /\ pc[c] = "persist" /\ op[c] = "initial"
  /\ identity[i] = "none"
  /\ AnchorStillUsable(c)
  /\ status' = [p \in Profiles |->
       IF p \in created THEN "active" ELSE status[p]]
  /\ version' = [p \in Profiles |->
       IF p \in created THEN 1 ELSE version[p]]
  /\ identity' = [identity EXCEPT ![i] = "active"]
  /\ assertionOf' = [assertionOf EXCEPT ![i] = k]
  /\ anchorOf' = [anchorOf EXCEPT ![i] = anchor[c]]
  /\ bound' = [bound EXCEPT ![k] = i]
  /\ \/ Finish(c, "done", {})
     \/ Faults /\ Finish(c, "failed", written[c])
  /\ UNCHANGED <<secrets, op, issuer, anchor, nextVersion, written,
                 ipc, signer, proofs>>

\* The profile of a rotation, in a statement of its own.
CreateProfile(c) ==
  LET p == New(c, op[c]) IN
  /\ pc[c] = "persist" /\ op[c] \in {"assertion", "anchor"}
  /\ status' = [status EXCEPT ![p] = "active"]
  /\ version' = [version EXCEPT ![p] = nextVersion[c]]
  /\ \/ pc' = [pc EXCEPT ![c] = "rotate"] /\ UNCHANGED reported
     \/ Faults /\ Finish(c, "failed", written[c])
  /\ UNCHANGED <<identity, assertionOf, anchorOf, bound, secrets, op, issuer,
                 anchor, nextVersion, written, ipc, signer, proofs>>

\* The database refuses: what was written is reported.
PersistFails(c) ==
  /\ pc[c] = "persist"
  /\ Finish(c, "failed", written[c])
  /\ UNCHANGED <<status, version, identity, assertionOf, anchorOf, bound,
                 secrets, op, issuer, anchor, nextVersion, written,
                 ipc, signer, proofs>>

\* The end of delegateRotation: answered, or committed and reported.
Delegated(c) ==
  \/ Finish(c, "done", {})
  \/ Faults /\ Finish(c, "failed", written[c])

\* rotateAssertionSigner, one SERIALIZABLE transaction.
RotateAssertion(c) ==
  LET i   == issuer[c]
      old == assertionOf[i]
      new == New(c, "assertion") IN
  /\ pc[c] = "rotate" /\ op[c] = "assertion"
  /\ Rotatable(i) /\ CurrentAdmitsRotation(old)
  /\ bound[old] = i
  /\ Candidate(new, old)
  /\ bound[new] = None
  /\ IsNextVersion(i, version[new])
  /\ bound' = [bound EXCEPT ![new] = i]
  /\ status' = [status EXCEPT ![old] = Retired(old)]
  /\ assertionOf' = [assertionOf EXCEPT ![i] = new]
  /\ identity' = [identity EXCEPT ![i] =
                    Reconciled(i, status', bound', new, anchorOf[i])]
  /\ Delegated(c)
  /\ UNCHANGED <<version, anchorOf, secrets, op, issuer, anchor, nextVersion,
                 written, ipc, signer, proofs>>

\* retireUnreferencedAnchor: after the pointer has moved, over the
\* identities of any status.
Unreferenced(p, anchors) == \A i \in Issuers : anchors[i] # p

\* rotateAnchorSigner, one SERIALIZABLE transaction.
RotateAnchor(c) ==
  LET i   == issuer[c]
      old == anchorOf[i]
      new == anchor[c] IN
  /\ pc[c] = "rotate" /\ op[c] = "anchor"
  /\ Rotatable(i) /\ CurrentAdmitsRotation(old)
  /\ Candidate(new, old)
  /\ anchorOf' = [anchorOf EXCEPT ![i] = new]
  /\ status' = [status EXCEPT ![old] =
                  IF Unreferenced(old, anchorOf') THEN Retired(old) ELSE @]
  /\ identity' = [identity EXCEPT ![i] =
                    Reconciled(i, status', bound, assertionOf[i], new)]
  /\ Delegated(c)
  /\ UNCHANGED <<version, assertionOf, bound, secrets, op, issuer, anchor,
                 nextVersion, written, ipc, signer, proofs>>

\* The rotation is refused or aborted: the new profile stays unattached.
RotationFails(c) ==
  /\ pc[c] = "rotate"
  /\ Finish(c, "failed", written[c])
  /\ UNCHANGED <<status, version, identity, assertionOf, anchorOf, bound,
                 secrets, op, issuer, anchor, nextVersion, written,
                 ipc, signer, proofs>>

\* The process of the operator dies between two steps.
Die(c) ==
  /\ Faults
  /\ pc[c] \in {"write_assertion", "write_anchor", "persist", "rotate"}
  /\ pc' = [pc EXCEPT ![c] = "dead"]
  /\ UNCHANGED <<status, version, identity, assertionOf, anchorOf, bound,
                 secrets, reported, op, issuer, anchor, nextVersion, written,
                 ipc, signer, proofs>>

-----------------------------------------------------------------------------
(* Administrative writes, which no code of the repository makes. *)

Compromise(p) ==
  /\ status[p] \in {"active", "retired"}
  /\ status' = [status EXCEPT ![p] = "compromised"]
  /\ UNCHANGED <<version, identity, assertionOf, anchorOf, bound, secrets,
                 reported, pc, op, issuer, anchor, nextVersion, written,
                 ipc, signer, proofs>>

\* An identity is stopped, or given back to the operator to be rotated.
Suspend(i) ==
  /\ \/ /\ identity[i] = "active"
        /\ \E s \in {"rotation_required", "disabled"} :
             identity' = [identity EXCEPT ![i] = s]
     \/ /\ identity[i] = "disabled"
        /\ identity' = [identity EXCEPT ![i] = "rotation_required"]
  /\ UNCHANGED <<status, version, assertionOf, anchorOf, bound, secrets,
                 reported, pc, op, issuer, anchor, nextVersion, written,
                 ipc, signer, proofs>>

-----------------------------------------------------------------------------
(* issueCredential, as far as the assertion key goes. *)

\* prepareAssertionSigner, before the transaction.
Prepare(q, i) ==
  /\ ipc[q] = "idle"
  /\ identity[i] = "active" /\ status[assertionOf[i]] = "active"
  /\ ipc' = [ipc EXCEPT ![q] = "prepared"]
  /\ signer' = [signer EXCEPT ![q] = assertionOf[i]]
  /\ UNCHANGED <<status, version, identity, assertionOf, anchorOf, bound,
                 secrets, reported, pc, op, issuer, anchor, nextVersion,
                 written, proofs>>

\* revalidateAssertionBinding: the current pointer is still this profile.
StillCurrent(p) == assertionOf[bound[p]] = p /\ status[p] = "active"

Revalidate(q) ==
  /\ ipc[q] = "prepared"
  /\ ipc' = [ipc EXCEPT ![q] = IF StillCurrent(signer[q]) THEN "checked" ELSE "rejected"]
  /\ UNCHANGED <<status, version, identity, assertionOf, anchorOf, bound,
                 secrets, reported, pc, op, issuer, anchor, nextVersion,
                 written, signer, proofs>>

\* The rest of the transaction: proof and credential are persisted.  The
\* read of Revalidate takes no lock and a rotation reads nothing an issuance
\* writes, so a rotation may commit in between, SERIALIZABLE or not.
Issue(q) ==
  LET p == signer[q] IN
  /\ ipc[q] = "checked"
  /\ ipc' = [ipc EXCEPT ![q] = "issued"]
  /\ proofs' = proofs \cup
       {[issuer |-> bound[p], version |-> version[p], key |-> p]}
  /\ UNCHANGED <<status, version, identity, assertionOf, anchorOf, bound,
                 secrets, reported, pc, op, issuer, anchor, nextVersion,
                 written, signer>>

-----------------------------------------------------------------------------
OperatorStep(c) ==
  \/ \E i \in Issuers, a \in AnchorProfiles : BeginInitial(c, i, a)
  \/ \E i \in Issuers : BeginAssertion(c, i)
  \/ \E i \in Issuers, a \in AnchorProfiles : BeginAnchor(c, i, a)
  \/ WriteSecret(c) \/ SecretFails(c)
  \/ PersistInitial(c) \/ CreateProfile(c) \/ PersistFails(c)
  \/ RotateAssertion(c) \/ RotateAnchor(c) \/ RotationFails(c)
  \/ Die(c)

IssuanceStep(q) ==
  (\E i \in Issuers : Prepare(q, i)) \/ Revalidate(q) \/ Issue(q)

Next ==
  \/ \E c \in Calls : OperatorStep(c)
  \/ \E q \in Issuances : IssuanceStep(q)
  \/ \E p \in Profiles : Compromise(p)
  \/ \E i \in Issuers : Suspend(i)

Spec == Init /\ [][Next]_vars

-----------------------------------------------------------------------------
(* Properties. *)

\* Whatever rotations interleave, whatever keys are compromised and whichever
\* calls die, the DID endpoint never answers inconsistent_configuration: the
\* history of an issuer satisfies the resolver that lives in another file.
DidIsPublishable == \A i \in Issuers : identity[i] # "none" => HistoryIsValid(i)

\* A proof once persisted goes on resolving to the key that signed it, unless
\* that key is compromised; its fragment never resolves to another key, not
\* even after a compromise took the key out of the document.
ProofsResolve ==
  \A f \in proofs :
    /\ status[f.key] # "compromised" => Resolves(f.issuer, f.version, f.key)
    /\ \A p \in Profiles : Resolves(f.issuer, f.version, p) => p = f.key

\* No identity, of any status, is left pointing at a retired anchor: not by
\* the rotation of another issuer that shared it, not by a provisioning that
\* chose it before it was retired.
AnchorInService ==
  \A i \in Issuers : identity[i] # "none" => status[anchorOf[i]] # "retired"

\* Every secret whose write was confirmed is in use or was reported to the
\* operator when its call ended, whichever write failed and whether or not
\* the database had committed.
Attached(p) ==
  IF p.purpose = "assertion" THEN bound[p] # None
  ELSE status[p] \in {"retired", "compromised"} \/ \E i \in Issuers : anchorOf[i] = p

OrphansAreReported ==
  \A c \in Calls : pc[c] \in {"done", "failed"} =>
    \A p \in written[c] : Attached(p) \/ p \in reported

\* A rotation never turns a compromise into an ordinary retirement, and no
\* retired key comes back.
StatusOnlyDegrades ==
  [][\A p \in Profiles : /\ status[p] = "compromised" => status'[p] = "compromised"
                         /\ status[p] = "retired" => status'[p] \in {"retired", "compromised"}]_vars

\* An identity returns to service only with both roles in order: rotating
\* one of two compromised keys is not enough.
ActiveMeansHealthy ==
  [][\A i \in Issuers : identity[i] # "active" /\ identity'[i] = "active" =>
       status'[assertionOf'[i]] = "active" /\ status'[anchorOf'[i]] = "active"]_vars

\* No rotation, no repair and no second rotation hides that a key was broken.
BrokenKeysStayKnown ==
  /\ StatusOnlyDegrades
  /\ ActiveMeansHealthy
=============================================================================
