------------------------ MODULE SignerRotationProofs ------------------------
(***************************************************************************)
(* DidIsPublishable, ProofsResolve, AnchorInService, OrphansAreReported    *)
(* and BrokenKeysStayKnown hold of every behaviour of SignerRotation, for  *)
(* any issuers, calls and issuances, with and without faults.              *)
(***************************************************************************)
EXTENDS SignerRotation, TLAPS

Active == {"write_assertion", "write_anchor", "persist", "rotate"}

\* A bound key is an assertion key of an issuer with identity, its call is
\* over, and it is active only while it is the current one.
HistoryInv ==
  \A p \in Profiles : bound[p] # None =>
    /\ p.purpose = "assertion"
    /\ identity[bound[p]] # "none"
    /\ version[p] >= 1
    /\ status[p] = "active" => assertionOf[bound[p]] = p
    /\ pc[p.by] \in {"done", "failed"}

\* Two keys of one history differ in their versions.
VersionsInv ==
  \A p, r \in Profiles :
    bound[p] # None /\ bound[p] = bound[r] /\ version[p] = version[r] => p = r

\* The pointers of an identity: in the history, and never a retired profile.
PointerInv ==
  \A i \in Issuers : identity[i] # "none" =>
    /\ assertionOf[i] \in AssertionProfiles
    /\ bound[assertionOf[i]] = i
    /\ status[assertionOf[i]] # "retired"
    /\ anchorOf[i] \in AnchorProfiles
    /\ status[anchorOf[i]] # "retired"

CallInv ==
  \A c \in Calls : pc[c] \in Active =>
    /\ issuer[c] \in Issuers
    /\ op[c] \in {"initial", "anchor"} => anchor[c] \in AnchorProfiles

ProofInv ==
  /\ \A f \in proofs : bound[f.key] = f.issuer /\ version[f.key] = f.version
  /\ \A q \in Issuances : ipc[q] \in {"prepared", "checked"} =>
       signer[q] \in AssertionProfiles /\ bound[signer[q]] # None

Inv == TypeOK /\ HistoryInv /\ VersionsInv /\ PointerInv /\ CallInv /\ ProofInv

-----------------------------------------------------------------------------
LEMMA ProfileFacts ==
  /\ \A c \in Calls : /\ New(c, "assertion") \in AssertionProfiles
                      /\ New(c, "anchor") \in AnchorProfiles
                      /\ New(c, "assertion").by = c /\ New(c, "anchor").by = c
                      /\ New(c, "assertion").purpose = "assertion"
                      /\ New(c, "anchor").purpose = "anchor"
  /\ AssertionProfiles \subseteq Profiles
  /\ AnchorProfiles \subseteq Profiles
  /\ \A p \in AssertionProfiles : p.purpose = "assertion"
  /\ \A p \in AnchorProfiles : p.purpose = "anchor"
  /\ AssertionProfiles \cap AnchorProfiles = {}
  /\ \A p \in Profiles : p.by \in Calls
  /\ None \notin Profiles /\ None \notin Issuers
BY IdentityAssumption DEF New, AssertionProfiles, AnchorProfiles, Profiles, Purposes

\* A call is over once and for all.
Settled == \A c \in Calls : pc[c] \in {"done", "failed"} => pc'[c] = pc[c]

\* A step that writes neither the rows nor the issuances.
LEMMA QuietStep ==
  ASSUME Inv, TypeOK', CallInv', Settled, UNCHANGED rows, UNCHANGED sign
  PROVE  Inv'
<1>1. HistoryInv'
  BY ProfileFacts DEF Inv, HistoryInv, Settled, rows
<1>2. VersionsInv' /\ PointerInv' /\ ProofInv'
  BY DEF Inv, VersionsInv, PointerInv, ProofInv, rows, sign
<1>. QED  BY <1>1, <1>2 DEF Inv

-----------------------------------------------------------------------------
(* Type correctness. *)

THEOREM InitInv == Init => Inv
<1>. SUFFICES ASSUME Init PROVE Inv
  OBVIOUS
<1>1. TypeOK
  BY ProfileFacts DEF Init, TypeOK, Statuses, Identities, Ops, CallStates
<1>2. HistoryInv /\ VersionsInv /\ PointerInv /\ CallInv /\ ProofInv
  BY DEF Init, HistoryInv, VersionsInv, PointerInv, CallInv, ProofInv, Active
<1>. QED  BY <1>1, <1>2 DEF Inv

LEMMA BeginStep ==
  ASSUME Inv, NEW c \in Calls, NEW o \in {"initial", "assertion", "anchor"},
         NEW i \in Issuers, NEW a \in AnchorProfiles \cup {None}, NEW v \in Nat,
         NEW w \in Active,
         o \in {"initial", "anchor"} => a \in AnchorProfiles,
         Begin(c, o, i, a, v, w)
  PROVE  Inv'
<1>1. TypeOK'
  BY DEF Inv, TypeOK, Begin, Ops, CallStates, Active
<1>2. CallInv' /\ Settled
  BY DEF Inv, TypeOK, CallInv, Begin, Active, Settled
<1>. QED  BY <1>1, <1>2, QuietStep DEF Begin, rows, sign

LEMMA BeginSteps ==
  ASSUME Inv, NEW c \in Calls, NEW i \in Issuers, NEW a \in AnchorProfiles,
         BeginInitial(c, i, a) \/ BeginAssertion(c, i) \/ BeginAnchor(c, i, a)
  PROVE  Inv'
<1>1. CASE BeginInitial(c, i, a)
  BY <1>1, BeginStep DEF BeginInitial, Active
<1>2. CASE BeginAssertion(c, i)
  <2>1. PICK p \in History(i) : Begin(c, "assertion", i, None, version[p] + 1, "write_assertion")
    BY <1>2 DEF BeginAssertion
  <2>2. version[p] + 1 \in Nat
    BY DEF Inv, TypeOK, History
  <2>. QED  BY <2>1, <2>2, BeginStep DEF Active
<1>3. CASE BeginAnchor(c, i, a)
  BY <1>3, BeginStep DEF BeginAnchor, Active
<1>. QED  BY <1>1, <1>2, <1>3

LEMMA WriteSteps ==
  ASSUME Inv, NEW c \in Calls, WriteSecret(c) \/ SecretFails(c)
  PROVE  Inv'
<1>1. Writes(c) \in Profiles
  BY ProfileFacts DEF Writes
<1>2. TypeOK'
  <2>1. CASE WriteSecret(c)
    BY <1>1, <2>1 DEF Inv, TypeOK, WriteSecret, AfterWrite, CallStates
  <2>2. CASE SecretFails(c)
    <3>1. written[c] \subseteq Profiles
      BY DEF Inv, TypeOK
    <3>. QED  BY <1>1, <2>2, <3>1 DEF Inv, TypeOK, SecretFails, Finish, WriteFailureReport, CallStates
  <2>. QED  BY <2>1, <2>2
<1>3. CallInv' /\ Settled
  BY DEF Inv, TypeOK, CallInv, WriteSecret, AfterWrite, SecretFails, Finish, Active, Settled
<1>. QED  BY <1>2, <1>3, QuietStep DEF WriteSecret, SecretFails, Finish, rows, sign

LEMMA EndSteps ==
  ASSUME Inv, NEW c \in Calls, PersistFails(c) \/ RotationFails(c) \/ Die(c)
  PROVE  Inv'
<1>1. written[c] \subseteq Profiles
  BY DEF Inv, TypeOK
<1>2. TypeOK'
  BY <1>1 DEF Inv, TypeOK, PersistFails, RotationFails, Die, Finish, CallStates
<1>3. CallInv' /\ Settled
  BY DEF Inv, TypeOK, CallInv, PersistFails, RotationFails, Die, Finish, Active, Settled
<1>. QED  BY <1>2, <1>3, QuietStep DEF PersistFails, RotationFails, Die, Finish, rows, sign

-----------------------------------------------------------------------------
(* The steps that write rows. *)

LEMMA PersistInitialStep ==
  ASSUME Inv, NEW c \in Calls, PersistInitial(c)
  PROVE  Inv'
<1>. DEFINE i == issuer[c]
            k == New(c, "assertion")
            created == {k} \cup ({New(c, "anchor")} \cap {anchor[c]})
<1>1. /\ i \in Issuers /\ k \in AssertionProfiles /\ k \in Profiles
      /\ anchor[c] \in AnchorProfiles /\ anchor[c] \in Profiles /\ anchor[c] # k
      /\ identity[i] = "none" /\ pc[c] = "persist"
      /\ New(c, "anchor") \in Profiles
      /\ written[c] \subseteq Profiles
  BY ProfileFacts DEF PersistInitial, Inv, TypeOK, CallInv, Active
<1>2. /\ status' = [p \in Profiles |-> IF p \in created THEN "active" ELSE status[p]]
      /\ version' = [p \in Profiles |-> IF p \in created THEN 1 ELSE version[p]]
      /\ identity' = [identity EXCEPT ![i] = "active"]
      /\ assertionOf' = [assertionOf EXCEPT ![i] = k]
      /\ anchorOf' = [anchorOf EXCEPT ![i] = anchor[c]]
      /\ bound' = [bound EXCEPT ![k] = i]
      /\ UNCHANGED <<secrets, op, issuer, anchor, nextVersion, written,
                     ipc, signer, proofs>>
      /\ pc' \in {[pc EXCEPT ![c] = "done"], [pc EXCEPT ![c] = "failed"]}
      /\ reported' \in {reported, reported \cup written[c]}
      /\ anchor[c] = New(c, "anchor") \/ status[anchor[c]] = "active"
  BY DEF PersistInitial, Finish, AnchorStillUsable, UsableAnchor
<1>. HIDE DEF i, k, created
<1>3. \A p \in Profiles : bound[p] # i /\ (bound[p] # None => p \notin created)
  <2>1. \A p \in Profiles : p \in created => bound[p] = None
    BY <1>1, ProfileFacts DEF Inv, HistoryInv, created, k
  <2>2. \A p \in Profiles : bound[p] # i
    BY <1>1, ProfileFacts DEF Inv, HistoryInv
  <2>. QED  BY <2>1, <2>2
<1>4. TypeOK'
  BY <1>1, <1>2 DEF Inv, TypeOK, Statuses, Identities, CallStates
<1>5. HistoryInv'
  <2>. SUFFICES ASSUME NEW p \in Profiles, bound'[p] # None
                PROVE  /\ p.purpose = "assertion"
                       /\ identity'[bound'[p]] # "none"
                       /\ version'[p] >= 1
                       /\ status'[p] = "active" => assertionOf'[bound'[p]] = p
                       /\ pc'[p.by] \in {"done", "failed"}
    BY DEF HistoryInv
  <2>1. CASE p = k
    <3>1. p.purpose = "assertion" /\ p.by = c /\ bound'[p] = i /\ p \in created
      BY <2>1, <1>1, <1>2, ProfileFacts DEF Inv, TypeOK, k, created
    <3>. QED  BY <3>1, <2>1, <1>1, <1>2 DEF Inv, TypeOK
  <2>2. CASE p # k
    <3>1. bound[p] = bound'[p] /\ bound[p] # None /\ p \notin created /\ bound[p] # i
      BY <2>2, <1>1, <1>2, <1>3 DEF Inv, TypeOK
    <3>2. p.by # c /\ p.by \in Calls
      BY <3>1, <1>1, ProfileFacts DEF Inv, HistoryInv
    <3>3. bound[p] \in Issuers
      BY <3>1 DEF Inv, TypeOK
    <3>. QED  BY <3>1, <3>2, <3>3, <1>1, <1>2 DEF Inv, TypeOK, HistoryInv
  <2>. QED  BY <2>1, <2>2
<1>6. VersionsInv'
  BY <1>1, <1>2, <1>3 DEF Inv, TypeOK, VersionsInv
<1>7. PointerInv'
  <2>. SUFFICES ASSUME NEW j \in Issuers, identity'[j] # "none"
                PROVE  /\ assertionOf'[j] \in AssertionProfiles
                       /\ bound'[assertionOf'[j]] = j
                       /\ status'[assertionOf'[j]] # "retired"
                       /\ anchorOf'[j] \in AnchorProfiles
                       /\ status'[anchorOf'[j]] # "retired"
    BY DEF PointerInv
  <2>1. CASE j = i
    <3>1. assertionOf'[j] = k /\ anchorOf'[j] = anchor[c] /\ bound'[k] = i /\ k \in created
      BY <2>1, <1>1, <1>2 DEF Inv, TypeOK, created
    <3>2. status'[k] = "active" /\ status'[anchor[c]] = "active"
      BY <3>1, <1>1, <1>2 DEF created
    <3>. QED  BY <3>1, <3>2, <1>1, <2>1
  <2>2. CASE j # i
    <3>1. identity[j] # "none" /\ assertionOf'[j] = assertionOf[j] /\ anchorOf'[j] = anchorOf[j]
      BY <2>2, <1>1, <1>2 DEF Inv, TypeOK
    <3>2. /\ assertionOf[j] \in AssertionProfiles /\ bound[assertionOf[j]] = j
          /\ anchorOf[j] \in AnchorProfiles
          /\ status[assertionOf[j]] # "retired" /\ status[anchorOf[j]] # "retired"
      BY <3>1 DEF Inv, PointerInv
    <3>3. assertionOf[j] # k
      BY <3>2, <1>1, <1>2, ProfileFacts DEF Inv, HistoryInv, k
    <3>. QED  BY <3>1, <3>2, <3>3, <1>1, <1>2, ProfileFacts DEF Inv, TypeOK
  <2>. QED  BY <2>1, <2>2
<1>8. CallInv'
  BY <1>1, <1>2 DEF Inv, TypeOK, CallInv, Active
<1>9. ProofInv'
  <2>1. \A p \in Profiles : bound[p] # None => bound'[p] = bound[p] /\ version'[p] = version[p]
    BY <1>1, <1>2, <1>3 DEF Inv, TypeOK, created
  <2>2. \A f \in proofs : f.key \in Profiles /\ f.issuer # None
    BY ProfileFacts DEF Inv, TypeOK
  <2>. QED  BY <2>1, <2>2, <1>2, ProfileFacts DEF Inv, ProofInv
<1>. QED  BY <1>4, <1>5, <1>6, <1>7, <1>8, <1>9 DEF Inv

LEMMA CreateProfileStep ==
  ASSUME Inv, NEW c \in Calls, CreateProfile(c)
  PROVE  Inv'
<1>. DEFINE p == New(c, op[c])
<1>1. /\ p \in Profiles /\ p.by = c /\ pc[c] = "persist"
      /\ written[c] \subseteq Profiles
      /\ nextVersion[c] \in Nat
  BY ProfileFacts DEF CreateProfile, Inv, TypeOK
<1>2. /\ status' = [status EXCEPT ![p] = "active"]
      /\ version' = [version EXCEPT ![p] = nextVersion[c]]
      /\ UNCHANGED <<identity, assertionOf, anchorOf, bound, secrets, op, issuer,
                     anchor, nextVersion, written, ipc, signer, proofs>>
      /\ pc' \in {[pc EXCEPT ![c] = "rotate"], [pc EXCEPT ![c] = "failed"]}
      /\ reported' \in {reported, reported \cup written[c]}
  BY DEF CreateProfile, Finish
<1>3. bound[p] = None
  BY <1>1 DEF Inv, HistoryInv
<1>. HIDE DEF p
<1>4. TypeOK'
  BY <1>1, <1>2 DEF Inv, TypeOK, Statuses, CallStates
<1>5. HistoryInv'
  BY <1>1, <1>2, <1>3, ProfileFacts DEF Inv, TypeOK, HistoryInv
<1>6. VersionsInv' /\ CallInv'
  BY <1>1, <1>2, <1>3 DEF Inv, TypeOK, VersionsInv, CallInv, Active
<1>7. PointerInv'
  BY <1>1, <1>2, ProfileFacts DEF Inv, TypeOK, PointerInv
<1>8. ProofInv'
  <2>1. \A f \in proofs : f.key \in Profiles /\ f.issuer # None
    BY ProfileFacts DEF Inv, TypeOK
  <2>. QED  BY <2>1, <1>1, <1>2, <1>3 DEF Inv, TypeOK, ProofInv
<1>. QED  BY <1>4, <1>5, <1>6, <1>7, <1>8 DEF Inv

LEMMA RotateAssertionStep ==
  ASSUME Inv, NEW c \in Calls, RotateAssertion(c)
  PROVE  Inv'
<1>. DEFINE i == issuer[c]
            old == assertionOf[i]
            new == New(c, "assertion")
<1>1. /\ i \in Issuers /\ pc[c] = "rotate"
      /\ identity[i] \in {"active", "rotation_required"}
      /\ old \in AssertionProfiles /\ bound[old] = i
      /\ new \in AssertionProfiles /\ new # old /\ status[new] = "active"
      /\ new.by = c /\ new.purpose = "assertion"
      /\ bound[new] = None
      /\ written[c] \subseteq Profiles
      /\ \A p \in History(i) : version[p] < version[new]
      /\ version[new] \in {version[p] + 1 : p \in History(i)}
  BY ProfileFacts DEF RotateAssertion, Rotatable, Candidate, IsNextVersion,
     Inv, TypeOK, CallInv, PointerInv, Active
<1>2. /\ bound' = [bound EXCEPT ![new] = i]
      /\ status' = [status EXCEPT ![old] = Retired(old)]
      /\ assertionOf' = [assertionOf EXCEPT ![i] = new]
      /\ \E s \in {"active", "rotation_required"} : identity' = [identity EXCEPT ![i] = s]
      /\ pc' \in {[pc EXCEPT ![c] = "done"], [pc EXCEPT ![c] = "failed"]}
      /\ reported' \in {reported, reported \cup written[c]}
      /\ UNCHANGED <<version, anchorOf, secrets, op, issuer, anchor, nextVersion,
                     written, ipc, signer, proofs>>
  BY DEF RotateAssertion, Delegated, Finish, Reconciled
<1>3. Retired(old) \in Statuses /\ Retired(old) # "active"
  BY <1>1, ProfileFacts DEF Retired, Inv, TypeOK, Statuses
<1>. HIDE DEF i, old, new
<1>4. TypeOK'
  BY <1>1, <1>2, <1>3, ProfileFacts DEF Inv, TypeOK, Identities, CallStates
<1>5. version[new] >= 1
  BY <1>1 DEF Inv, TypeOK, History
<1>6. HistoryInv'
  <2>. SUFFICES ASSUME NEW p \in Profiles, bound'[p] # None
                PROVE  /\ p.purpose = "assertion"
                       /\ identity'[bound'[p]] # "none"
                       /\ version'[p] >= 1
                       /\ status'[p] = "active" => assertionOf'[bound'[p]] = p
                       /\ pc'[p.by] \in {"done", "failed"}
    BY DEF HistoryInv
  <2>1. CASE p = new
    BY <2>1, <1>1, <1>2, <1>5, ProfileFacts DEF Inv, TypeOK
  <2>2. CASE p # new
    <3>1. bound[p] = bound'[p] /\ bound[p] \in Issuers
      BY <2>2, <1>2 DEF Inv, TypeOK
    <3>2. p.by \in Calls /\ pc'[p.by] \in {"done", "failed"}
      BY <3>1, <1>1, <1>2, ProfileFacts DEF Inv, TypeOK, HistoryInv
    <3>3. p.purpose = "assertion" /\ version'[p] >= 1 /\ identity'[bound'[p]] # "none"
      BY <3>1, <1>1, <1>2, ProfileFacts DEF Inv, TypeOK, HistoryInv
    <3>4. ASSUME status'[p] = "active" PROVE assertionOf'[bound'[p]] = p
      <4>1. p # old /\ status[p] = "active"
        BY <3>4, <1>1, <1>2, <1>3, ProfileFacts DEF Inv, TypeOK
      <4>2. assertionOf[bound[p]] = p
        BY <4>1, <3>1, ProfileFacts DEF Inv, HistoryInv
      <4>3. bound[p] # i
        BY <4>1, <4>2 DEF old
      <4>. QED  BY <4>2, <4>3, <3>1, <1>1, <1>2 DEF Inv, TypeOK
    <3>. QED  BY <3>2, <3>3, <3>4
  <2>. QED  BY <2>1, <2>2
<1>7. VersionsInv'
  <2>1. \A p \in Profiles : bound[p] = i => version[p] < version[new] /\ version[p] \in Nat
    BY <1>1 DEF History, Inv, TypeOK
  <2>. QED  BY <2>1, <1>1, <1>2, ProfileFacts DEF Inv, TypeOK, VersionsInv
<1>8. PointerInv'
  <2>. SUFFICES ASSUME NEW j \in Issuers, identity'[j] # "none"
                PROVE  /\ assertionOf'[j] \in AssertionProfiles
                       /\ bound'[assertionOf'[j]] = j
                       /\ status'[assertionOf'[j]] # "retired"
                       /\ anchorOf'[j] \in AnchorProfiles
                       /\ status'[anchorOf'[j]] # "retired"
    BY DEF PointerInv
  <2>1. identity[j] # "none"
    BY <1>1, <1>2 DEF Inv, TypeOK
  <2>2. /\ assertionOf[j] \in AssertionProfiles /\ bound[assertionOf[j]] = j
        /\ anchorOf[j] \in AnchorProfiles /\ anchorOf[j] # old
        /\ status[assertionOf[j]] # "retired" /\ status[anchorOf[j]] # "retired"
    BY <2>1, <1>1, ProfileFacts DEF Inv, PointerInv
  <2>3. anchorOf'[j] \in AnchorProfiles /\ status'[anchorOf'[j]] # "retired"
    BY <2>2, <1>2, ProfileFacts DEF Inv, TypeOK
  <2>4. CASE j = i
    <3>1. assertionOf'[j] = new /\ bound'[new] = i /\ status'[new] = "active"
      BY <2>4, <1>1, <1>2, ProfileFacts DEF Inv, TypeOK
    <3>. QED  BY <3>1, <2>3, <2>4, <1>1
  <2>5. CASE j # i
    <3>1. assertionOf[j] # old /\ assertionOf[j] # new
      BY <2>2, <2>5, <1>1, ProfileFacts
    <3>2. assertionOf'[j] = assertionOf[j]
      BY <2>5, <1>2 DEF Inv, TypeOK
    <3>3. bound'[assertionOf[j]] = j /\ status'[assertionOf[j]] = status[assertionOf[j]]
      BY <3>1, <2>2, <1>2, ProfileFacts DEF Inv, TypeOK
    <3>. QED  BY <3>2, <3>3, <2>2, <2>3
  <2>. QED  BY <2>4, <2>5
<1>9. CallInv'
  BY <1>1, <1>2 DEF Inv, TypeOK, CallInv, Active
<1>10. ProofInv'
  <2>1. \A p \in Profiles : bound[p] # None => bound'[p] = bound[p] /\ version'[p] = version[p]
    BY <1>1, <1>2 DEF Inv, TypeOK
  <2>2. \A f \in proofs : f.key \in Profiles /\ f.issuer # None
    BY ProfileFacts DEF Inv, TypeOK
  <2>. QED  BY <2>1, <2>2, <1>2, ProfileFacts DEF Inv, ProofInv
<1>. QED  BY <1>4, <1>6, <1>7, <1>8, <1>9, <1>10 DEF Inv

LEMMA RotateAnchorStep ==
  ASSUME Inv, NEW c \in Calls, RotateAnchor(c)
  PROVE  Inv'
<1>. DEFINE i == issuer[c]
            old == anchorOf[i]
            new == anchor[c]
<1>1. /\ i \in Issuers /\ pc[c] = "rotate"
      /\ identity[i] \in {"active", "rotation_required"}
      /\ old \in AnchorProfiles /\ new \in AnchorProfiles
      /\ new # old /\ status[new] = "active"
      /\ written[c] \subseteq Profiles
  BY ProfileFacts DEF RotateAnchor, Rotatable, Candidate,
     Inv, TypeOK, CallInv, PointerInv, Active
<1>2. /\ anchorOf' = [anchorOf EXCEPT ![i] = new]
      /\ \E s \in {status[old], Retired(old)} :
           /\ status' = [status EXCEPT ![old] = s]
           /\ s # status[old] => Unreferenced(old, anchorOf')
      /\ \E s \in {"active", "rotation_required"} : identity' = [identity EXCEPT ![i] = s]
      /\ pc' \in {[pc EXCEPT ![c] = "done"], [pc EXCEPT ![c] = "failed"]}
      /\ reported' \in {reported, reported \cup written[c]}
      /\ UNCHANGED <<version, assertionOf, bound, secrets, op, issuer, anchor,
                     nextVersion, written, ipc, signer, proofs>>
  BY DEF RotateAnchor, Delegated, Finish, Reconciled
<1>3. Retired(old) \in Statuses /\ status[old] \in Statuses
  BY <1>1, ProfileFacts DEF Retired, Inv, TypeOK, Statuses
<1>. HIDE DEF i, old, new
<1>4. TypeOK'
  BY <1>1, <1>2, <1>3, ProfileFacts DEF Inv, TypeOK, Identities, CallStates
<1>5. \A p \in AssertionProfiles : status'[p] = status[p]
  BY <1>1, <1>2, ProfileFacts DEF Inv, TypeOK
<1>6. HistoryInv'
  <2>. SUFFICES ASSUME NEW p \in Profiles, bound[p] # None
                PROVE  /\ p.purpose = "assertion"
                       /\ identity'[bound[p]] # "none"
                       /\ version[p] >= 1
                       /\ status'[p] = "active" => assertionOf[bound[p]] = p
                       /\ pc'[p.by] \in {"done", "failed"}
    BY <1>2 DEF HistoryInv
  <2>1. p.purpose = "assertion" /\ p \in AssertionProfiles /\ bound[p] \in Issuers
    BY ProfileFacts DEF Inv, HistoryInv, TypeOK, AssertionProfiles
  <2>2. p.by \in Calls /\ p.by # c
    BY <1>1, ProfileFacts DEF Inv, HistoryInv
  <2>. QED  BY <2>1, <2>2, <1>1, <1>2, <1>5 DEF Inv, TypeOK, HistoryInv
<1>7. VersionsInv' /\ CallInv' /\ ProofInv'
  BY <1>1, <1>2 DEF Inv, TypeOK, VersionsInv, CallInv, ProofInv, Active
<1>8. PointerInv'
  <2>. SUFFICES ASSUME NEW j \in Issuers, identity'[j] # "none"
                PROVE  /\ assertionOf[j] \in AssertionProfiles
                       /\ bound[assertionOf[j]] = j
                       /\ status'[assertionOf[j]] # "retired"
                       /\ anchorOf'[j] \in AnchorProfiles
                       /\ status'[anchorOf'[j]] # "retired"
    BY <1>2 DEF PointerInv
  <2>1. identity[j] # "none"
    BY <1>1, <1>2 DEF Inv, TypeOK
  <2>2. /\ assertionOf[j] \in AssertionProfiles /\ bound[assertionOf[j]] = j
        /\ anchorOf[j] \in AnchorProfiles
        /\ status[assertionOf[j]] # "retired" /\ status[anchorOf[j]] # "retired"
    BY <2>1 DEF Inv, PointerInv
  <2>3. anchorOf'[j] \in AnchorProfiles
    BY <2>2, <1>1, <1>2 DEF Inv, TypeOK
  <2>4. status'[anchorOf'[j]] # "retired"
    <3>1. CASE j = i
      BY <3>1, <1>1, <1>2, ProfileFacts DEF Inv, TypeOK
    <3>2. CASE j # i /\ anchorOf[j] # old
      BY <3>2, <2>2, <1>1, <1>2, ProfileFacts DEF Inv, TypeOK
    <3>3. CASE j # i /\ anchorOf[j] = old
      <4>1. anchorOf'[j] = old
        BY <3>3, <1>1, <1>2 DEF Inv, TypeOK
      <4>2. ~ Unreferenced(old, anchorOf')
        BY <4>1 DEF Unreferenced
      <4>. QED  BY <4>1, <4>2, <3>3, <2>2, <1>1, <1>2, ProfileFacts DEF Inv, TypeOK
    <3>. QED  BY <3>1, <3>2, <3>3
  <2>. QED  BY <2>2, <2>3, <2>4, <1>5
<1>. QED  BY <1>4, <1>6, <1>7, <1>8 DEF Inv

LEMMA AdministrativeSteps ==
  ASSUME Inv,
         (\E p \in Profiles : Compromise(p)) \/ (\E i \in Issuers : Suspend(i))
  PROVE  Inv'
<1>1. ASSUME NEW p \in Profiles, Compromise(p) PROVE Inv'
  <2>1. TypeOK'
    BY <1>1 DEF Compromise, Inv, TypeOK, Statuses
  <2>2. HistoryInv' /\ PointerInv'
    BY <1>1, ProfileFacts DEF Compromise, Inv, TypeOK, HistoryInv, PointerInv
  <2>3. VersionsInv' /\ CallInv' /\ ProofInv'
    BY <1>1 DEF Compromise, Inv, VersionsInv, CallInv, ProofInv
  <2>. QED  BY <2>1, <2>2, <2>3 DEF Inv
<1>2. ASSUME NEW i \in Issuers, Suspend(i) PROVE Inv'
  <2>1. /\ \E s \in {"rotation_required", "disabled"} : identity' = [identity EXCEPT ![i] = s]
        /\ identity[i] # "none"
        /\ UNCHANGED <<status, version, assertionOf, anchorOf, bound, secrets,
                       reported, pc, op, issuer, anchor, nextVersion, written,
                       ipc, signer, proofs>>
    BY <1>2 DEF Suspend
  <2>2. TypeOK'
    BY <2>1 DEF Inv, TypeOK, Identities
  <2>3. HistoryInv' /\ PointerInv'
    BY <2>1 DEF Inv, TypeOK, HistoryInv, PointerInv
  <2>4. VersionsInv' /\ CallInv' /\ ProofInv'
    BY <2>1 DEF Inv, VersionsInv, CallInv, ProofInv
  <2>. QED  BY <2>2, <2>3, <2>4 DEF Inv
<1>. QED  BY <1>1, <1>2

LEMMA IssuanceSteps ==
  ASSUME Inv, NEW q \in Issuances, IssuanceStep(q)
  PROVE  Inv'
<1>1. ASSUME NEW i \in Issuers, Prepare(q, i) PROVE Inv'
  <2>1. assertionOf[i] \in AssertionProfiles /\ bound[assertionOf[i]] # None
    BY <1>1, ProfileFacts DEF Prepare, Inv, PointerInv
  <2>2. TypeOK' /\ ProofInv'
    BY <1>1, <2>1 DEF Prepare, Inv, TypeOK, ProofInv
  <2>3. HistoryInv' /\ VersionsInv' /\ PointerInv' /\ CallInv'
    BY <1>1 DEF Prepare, Inv, HistoryInv, VersionsInv, PointerInv, CallInv
  <2>. QED  BY <2>2, <2>3 DEF Inv
<1>2. ASSUME Revalidate(q) PROVE Inv'
  <2>1. TypeOK' /\ ProofInv'
    BY <1>2 DEF Revalidate, Inv, TypeOK, ProofInv
  <2>2. HistoryInv' /\ VersionsInv' /\ PointerInv' /\ CallInv'
    BY <1>2 DEF Revalidate, Inv, HistoryInv, VersionsInv, PointerInv, CallInv
  <2>. QED  BY <2>1, <2>2 DEF Inv
<1>3. ASSUME Issue(q) PROVE Inv'
  <2>1. signer[q] \in AssertionProfiles /\ bound[signer[q]] \in Issuers /\ version[signer[q]] \in Nat
    BY <1>3, ProfileFacts DEF Issue, Inv, TypeOK, ProofInv
  <2>2. TypeOK' /\ ProofInv'
    BY <1>3, <2>1 DEF Issue, Inv, TypeOK, ProofInv
  <2>3. HistoryInv' /\ VersionsInv' /\ PointerInv' /\ CallInv'
    BY <1>3 DEF Issue, Inv, HistoryInv, VersionsInv, PointerInv, CallInv
  <2>. QED  BY <2>2, <2>3 DEF Inv
<1>. QED  BY <1>1, <1>2, <1>3 DEF IssuanceStep

\* Inv is inductive.
LEMMA NextInv == Inv /\ [Next]_vars => Inv'
<1>. SUFFICES ASSUME Inv, [Next]_vars PROVE Inv'
  OBVIOUS
<1>1. ASSUME NEW c \in Calls, OperatorStep(c) PROVE Inv'
  <2>1. New(c, "anchor") \in AnchorProfiles
    BY ProfileFacts
  <2>. QED
    BY <1>1, <2>1, BeginSteps, WriteSteps, EndSteps, PersistInitialStep, CreateProfileStep,
       RotateAssertionStep, RotateAnchorStep DEF OperatorStep
<1>2. CASE UNCHANGED vars
  BY <1>2 DEF vars, Inv, TypeOK, HistoryInv, VersionsInv, PointerInv, CallInv, ProofInv
<1>. QED  BY <1>1, <1>2, IssuanceSteps, AdministrativeSteps DEF Next

THEOREM Correctness == Spec => []Inv
BY InitInv, NextInv, PTL DEF Spec

-----------------------------------------------------------------------------
(* What the invariant gives. *)

LEMMA InvGivesHistory == Inv => DidIsPublishable
<1>. SUFFICES ASSUME Inv, NEW i \in Issuers, identity[i] # "none"
              PROVE  HistoryIsValid(i)
  BY DEF DidIsPublishable
<1>1. \A p \in History(i) : p \in Profiles /\ bound[p] = i /\ bound[p] # None
  BY ProfileFacts DEF History
<1>2. assertionOf[i] \in History(i) /\ status[assertionOf[i]] # "retired"
  BY ProfileFacts DEF Inv, PointerInv, History
<1>3. \A p \in History(i) : /\ p.purpose = "assertion" /\ version[p] >= 1
                            /\ status[p] = "active" => p = assertionOf[i]
  BY <1>1 DEF Inv, HistoryInv
<1>4. \A p, r \in History(i) : version[p] = version[r] => p = r
  BY <1>1 DEF Inv, VersionsInv
<1>. QED  BY <1>2, <1>3, <1>4 DEF HistoryIsValid, Published

LEMMA InvGivesProofs == Inv => ProofsResolve
<1>. SUFFICES ASSUME Inv, NEW f \in proofs
              PROVE  /\ status[f.key] # "compromised" => Resolves(f.issuer, f.version, f.key)
                     /\ \A p \in Profiles : Resolves(f.issuer, f.version, p) => p = f.key
  BY DEF ProofsResolve
<1>1. /\ f.key \in Profiles /\ f.issuer \in Issuers
      /\ bound[f.key] = f.issuer /\ version[f.key] = f.version
  BY ProfileFacts DEF Inv, TypeOK, ProofInv
<1>2. identity[f.issuer] # "none" /\ f.key \in History(f.issuer)
  BY <1>1, ProfileFacts DEF Inv, HistoryInv, History
<1>3. HistoryIsValid(f.issuer)
  BY <1>1, <1>2, InvGivesHistory DEF DidIsPublishable
<1>4. ASSUME NEW p \in Profiles, Resolves(f.issuer, f.version, p) PROVE p = f.key
  <2>1. bound[p] = f.issuer /\ version[p] = f.version
    BY <1>4 DEF Resolves, Published, History
  <2>2. bound[p] # None
    BY <2>1, <1>1, ProfileFacts
  <2>. QED  BY <2>1, <2>2, <1>1 DEF Inv, VersionsInv
<1>. QED  BY <1>1, <1>2, <1>3, <1>4 DEF Resolves, Published

\* The DID document of an issuer with identity can always be built.
THEOREM DidHolds == Spec => []DidIsPublishable
BY Correctness, InvGivesHistory, PTL

\* A persisted proof resolves to the key that signed it and to no other.
THEOREM ProofsHold == Spec => []ProofsResolve
BY Correctness, InvGivesProofs, PTL

\* No identity points at a retired anchor.
THEOREM AnchorsHold == Spec => []AnchorInService
<1>1. Inv => AnchorInService
  BY DEF Inv, PointerInv, AnchorInService
<1>. QED  BY <1>1, Correctness, PTL

-----------------------------------------------------------------------------
(* OrphansAreReported and BrokenKeysStayKnown.  *)

\* The profiles of a call are not in the rows before it persists.
FreshInv ==
  \A c \in Calls : pc[c] \in {"idle", "write_assertion", "write_anchor", "persist"} =>
    status[New(c, "assertion")] = "absent" /\ status[New(c, "anchor")] = "absent"

\* An identity that is not there has no anchor; the anchor of one was created.
AnchorInv ==
  \A i \in Issuers :
    /\ identity[i] = "none" => anchorOf[i] = None
    /\ anchorOf[i] # None => status[anchorOf[i]] # "absent"

\* A call writes the secrets of what it is about to attach.
WrittenInv ==
  \A c \in Calls :
    /\ pc[c] = "idle" => written[c] = {}
    /\ pc[c] = "write_assertion" => op[c] \in {"initial", "assertion"}
    /\ pc[c] = "write_anchor" => op[c] \in {"initial", "anchor"} /\ anchor[c] = New(c, "anchor")
    /\ pc[c] \in Active => \A p \in written[c] :
         \/ p = New(c, "assertion") /\ op[c] \in {"initial", "assertion"}
         \/ p = New(c, "anchor") /\ p = anchor[c] /\ op[c] \in {"initial", "anchor"}

SecretInv == Inv /\ FreshInv /\ AnchorInv /\ WrittenInv /\ OrphansAreReported

\* What no step does: mend a broken key, bring a retired one back, detach.
Degrades ==
  \A p \in Profiles :
    /\ status[p] = "compromised" => status'[p] = "compromised"
    /\ status[p] = "retired" => status'[p] \in {"retired", "compromised"}
Stays == \A p \in Profiles : Attached(p) => Attached(p)'
Healthy ==
  \A i \in Issuers : identity[i] # "active" /\ identity'[i] = "active" =>
    status'[assertionOf'[i]] = "active" /\ status'[anchorOf'[i]] = "active"

\* What is proved of every step.
Kept == FreshInv' /\ AnchorInv' /\ WrittenInv' /\ OrphansAreReported' /\ Degrades /\ Healthy

\* A call that ends has attached or reported what it wrote; those of others stay.
LEMMA ReportedStep ==
  ASSUME SecretInv, NEW c \in Calls, Stays, reported \subseteq reported', UNCHANGED written,
         \A d \in Calls : d # c => pc'[d] = pc[d],
         pc'[c] \in {"done", "failed"} =>
           \A p \in written[c] : Attached(p)' \/ p \in reported'
  PROVE  OrphansAreReported'
<1>1. \A d \in Calls : written[d] \subseteq Profiles
  BY DEF SecretInv, Inv, TypeOK
<1>2. ASSUME NEW d \in Calls, d # c, pc'[d] \in {"done", "failed"}, NEW p \in written[d]
      PROVE  Attached(p)' \/ p \in reported'
  BY <1>1, <1>2 DEF SecretInv, OrphansAreReported, Stays
<1>. QED  BY <1>2 DEF OrphansAreReported

\* The rows are left alone.
LEMMA RowsKept ==
  ASSUME UNCHANGED rows
  PROVE  Degrades /\ Stays /\ Healthy
BY DEF rows, Degrades, Stays, Healthy, Attached

LEMMA BeginKept ==
  ASSUME SecretInv, NEW c \in Calls, NEW o \in {"initial", "assertion", "anchor"},
         NEW i \in Issuers, NEW a \in AnchorProfiles \cup {None}, NEW v \in Nat,
         NEW w \in Active,
         w = "write_assertion" => o \in {"initial", "assertion"},
         w = "write_anchor" => o = "anchor" /\ a = New(c, "anchor"),
         w # "persist",
         Begin(c, o, i, a, v, w)
  PROVE  Kept
<1>1. UNCHANGED rows /\ UNCHANGED written /\ UNCHANGED reported
  BY DEF Begin, rows
<1>2. FreshInv' /\ AnchorInv' /\ WrittenInv'
  BY DEF Begin, SecretInv, Inv, TypeOK, FreshInv, AnchorInv, WrittenInv, Active
<1>3. pc'[c] \notin {"done", "failed"} /\ \A d \in Calls : d # c => pc'[d] = pc[d]
  BY DEF Begin, SecretInv, Inv, TypeOK, Active
<1>. QED  BY <1>1, <1>2, <1>3, RowsKept, ReportedStep DEF Kept

LEMMA BeginsKept ==
  ASSUME SecretInv, NEW c \in Calls, NEW i \in Issuers, NEW a \in AnchorProfiles,
         BeginInitial(c, i, a) \/ BeginAssertion(c, i) \/ BeginAnchor(c, i, a)
  PROVE  Kept
<1>1. CASE BeginInitial(c, i, a)
  BY <1>1, BeginKept DEF BeginInitial, Active
<1>2. CASE BeginAssertion(c, i)
  <2>1. PICK p \in History(i) : Begin(c, "assertion", i, None, version[p] + 1, "write_assertion")
    BY <1>2 DEF BeginAssertion
  <2>2. version[p] + 1 \in Nat
    BY DEF SecretInv, Inv, TypeOK, History
  <2>. QED  BY <2>1, <2>2, BeginKept DEF Active
<1>3. CASE BeginAnchor(c, i, a)
  BY <1>3, BeginKept DEF BeginAnchor, Active
<1>. QED  BY <1>1, <1>2, <1>3

LEMMA WriteKept ==
  ASSUME SecretInv, NEW c \in Calls, WriteSecret(c)
  PROVE  Kept
<1>1. /\ UNCHANGED rows /\ UNCHANGED <<op, anchor, reported>>
      /\ pc[c] \in {"write_assertion", "write_anchor"}
      /\ pc' = [pc EXCEPT ![c] = AfterWrite(c)]
      /\ written' = [written EXCEPT ![c] = @ \cup {Writes(c)}]
  BY DEF WriteSecret, rows
<1>2. AfterWrite(c) \in {"write_anchor", "persist"}
  BY DEF AfterWrite
<1>3. /\ pc'[c] = AfterWrite(c) /\ written'[c] = written[c] \cup {Writes(c)}
      /\ \A d \in Calls : d # c => pc'[d] = pc[d] /\ written'[d] = written[d]
  BY <1>1 DEF SecretInv, Inv, TypeOK
<1>4. FreshInv' /\ AnchorInv'
  BY <1>1, <1>2, <1>3 DEF SecretInv, FreshInv, AnchorInv, rows
<1>5. WrittenInv'
  <2>1. AfterWrite(c) = "write_anchor" => op[c] = "initial" /\ anchor[c] = New(c, "anchor")
    BY DEF AfterWrite
  <2>2. \A p \in written'[c] :
          \/ p = New(c, "assertion") /\ op[c] \in {"initial", "assertion"}
          \/ p = New(c, "anchor") /\ p = anchor[c] /\ op[c] \in {"initial", "anchor"}
    BY <1>1, <1>3 DEF Writes, SecretInv, WrittenInv, Active
  <2>. QED  BY <1>1, <1>2, <1>3, <2>1, <2>2 DEF SecretInv, WrittenInv
<1>6. OrphansAreReported'
  <2>1. \A d \in Calls : written[d] \subseteq Profiles
    BY DEF SecretInv, Inv, TypeOK
  <2>. QED  BY <2>1, <1>1, <1>2, <1>3, RowsKept DEF SecretInv, OrphansAreReported, Stays
<1>. QED  BY <1>1, <1>4, <1>5, <1>6, RowsKept DEF Kept

\* A call that ends without writing rows names what it wrote, or dies.
LEMMA EndsKept ==
  ASSUME SecretInv, NEW c \in Calls,
         SecretFails(c) \/ PersistFails(c) \/ RotationFails(c) \/ Die(c)
  PROVE  Kept
<1>1. /\ UNCHANGED rows /\ UNCHANGED <<op, anchor, written>>
      /\ reported \subseteq reported'
      /\ \/ pc' = [pc EXCEPT ![c] = "failed"] /\ written[c] \subseteq reported'
         \/ pc' = [pc EXCEPT ![c] = "dead"]
  BY DEF SecretFails, PersistFails, RotationFails, Die, Finish, WriteFailureReport, rows
<1>2. FreshInv' /\ AnchorInv' /\ WrittenInv'
  BY <1>1 DEF SecretInv, Inv, TypeOK, FreshInv, AnchorInv, WrittenInv, Active, rows
<1>3. /\ \A d \in Calls : d # c => pc'[d] = pc[d]
      /\ pc'[c] \in {"done", "failed"} => written[c] \subseteq reported'
  BY <1>1 DEF SecretInv, Inv, TypeOK
<1>. QED  BY <1>1, <1>2, <1>3, RowsKept, ReportedStep DEF Kept

\* The rows of a new identity.
LEMMA PersistInitialKept ==
  ASSUME SecretInv, NEW c \in Calls, PersistInitial(c)
  PROVE  Kept
<1>. DEFINE i == issuer[c]
            k == New(c, "assertion")
            created == {k} \cup ({New(c, "anchor")} \cap {anchor[c]})
<1>1. /\ i \in Issuers /\ k \in AssertionProfiles /\ k \in Profiles
      /\ k.purpose = "assertion"
      /\ anchor[c] \in AnchorProfiles /\ anchor[c] \in Profiles /\ anchor[c].purpose = "anchor"
      /\ identity[i] = "none" /\ anchorOf[i] = None /\ pc[c] = "persist" /\ op[c] = "initial"
      /\ \A p \in created : p \in Profiles /\ p.by = c /\ status[p] = "absent"
  BY ProfileFacts
     DEF PersistInitial, SecretInv, Inv, TypeOK, CallInv, FreshInv, AnchorInv, Active
<1>2. /\ status' = [p \in Profiles |-> IF p \in created THEN "active" ELSE status[p]]
      /\ identity' = [identity EXCEPT ![i] = "active"]
      /\ assertionOf' = [assertionOf EXCEPT ![i] = k]
      /\ anchorOf' = [anchorOf EXCEPT ![i] = anchor[c]]
      /\ bound' = [bound EXCEPT ![k] = i]
      /\ UNCHANGED <<op, anchor, written>>
      /\ \/ pc' = [pc EXCEPT ![c] = "done"] /\ reported' = reported
         \/ pc' = [pc EXCEPT ![c] = "failed"] /\ reported' = reported \cup written[c]
      /\ anchor[c] = New(c, "anchor") \/ status[anchor[c]] = "active"
  BY DEF PersistInitial, Finish, AnchorStillUsable, UsableAnchor
<1>3. status'[k] = "active" /\ status'[anchor[c]] = "active"
  BY <1>1, <1>2
<1>4. \A p \in written[c] : p = k \/ p = anchor[c]
  BY <1>1 DEF SecretInv, WrittenInv, Active
<1>5. \A p \in Profiles : status[p] # "absent" => status'[p] = status[p]
  BY <1>1, <1>2
<1>. HIDE DEF i, k, created
<1>6. FreshInv'
  <2>. SUFFICES ASSUME NEW d \in Calls, d # c,
                       pc[d] \in {"idle", "write_assertion", "write_anchor", "persist"}
                PROVE  status'[New(d, "assertion")] = "absent" /\ status'[New(d, "anchor")] = "absent"
    BY <1>1, <1>2 DEF SecretInv, Inv, TypeOK, FreshInv
  <2>1. New(d, "assertion") \notin created /\ New(d, "anchor") \notin created
    BY <1>1, ProfileFacts
  <2>. QED  BY <2>1, <1>2, ProfileFacts DEF SecretInv, FreshInv
<1>7. AnchorInv'
  BY <1>1, <1>2, <1>3, <1>5, ProfileFacts DEF SecretInv, Inv, TypeOK, AnchorInv
<1>8. WrittenInv'
  BY <1>1, <1>2 DEF SecretInv, Inv, TypeOK, WrittenInv, Active
<1>9. Stays
  <2>. SUFFICES ASSUME NEW p \in Profiles, Attached(p) PROVE Attached(p)'
    BY DEF Stays
  <2>1. bound[p] # None => bound'[p] # None
    BY <1>1, <1>2, ProfileFacts DEF SecretInv, Inv, TypeOK
  <2>2. status[p] \in {"retired", "compromised"} => status'[p] = status[p]
    BY <1>5
  <2>3. \A j \in Issuers : anchorOf[j] = p => anchorOf'[j] = p
    BY <1>1, <1>2, ProfileFacts DEF SecretInv, Inv, TypeOK
  <2>. QED  BY <2>1, <2>2, <2>3 DEF Attached
<1>10. Attached(k)' /\ Attached(anchor[c])'
  <2>1. bound'[k] = i /\ anchorOf'[i] = anchor[c]
    BY <1>1, <1>2 DEF SecretInv, Inv, TypeOK
  <2>2. Attached(k)'
    BY <2>1, <1>1, ProfileFacts DEF Attached
  <2>3. Attached(anchor[c])'
    BY <2>1, <1>1, <1>2 DEF Attached
  <2>. QED  BY <2>2, <2>3
<1>11. OrphansAreReported'
  <2>1. \A d \in Calls : d # c => pc'[d] = pc[d]
    BY <1>2 DEF SecretInv, Inv, TypeOK
  <2>2. ASSUME NEW p \in written[c] PROVE Attached(p)'
    <3>1. CASE p = k
      BY <3>1, <1>10, <1>1 DEF Attached
    <3>2. CASE p = anchor[c]
      BY <3>2, <1>10, <1>2 DEF Attached
    <3>. QED  BY <3>1, <3>2, <1>4
  <2>. QED  BY <1>2, <1>9, <2>1, <2>2, ReportedStep
<1>12. Degrades /\ Healthy
  BY <1>1, <1>2, <1>3, <1>5 DEF Degrades, Healthy, SecretInv, Inv, TypeOK
<1>. QED  BY <1>6, <1>7, <1>8, <1>11, <1>12 DEF Kept

LEMMA CreateProfileKept ==
  ASSUME SecretInv, NEW c \in Calls, CreateProfile(c)
  PROVE  Kept
<1>. DEFINE p == New(c, op[c])
<1>1. /\ p \in Profiles /\ p.by = c /\ pc[c] = "persist" /\ status[p] = "absent"
  BY ProfileFacts DEF CreateProfile, SecretInv, FreshInv
<1>2. /\ status' = [status EXCEPT ![p] = "active"]
      /\ UNCHANGED <<identity, assertionOf, anchorOf, bound, op, anchor, written>>
      /\ \/ pc' = [pc EXCEPT ![c] = "rotate"] /\ reported' = reported
         \/ pc' = [pc EXCEPT ![c] = "failed"] /\ reported' = reported \cup written[c]
  BY DEF CreateProfile, Finish
<1>. HIDE DEF p
<1>3. /\ \A r \in Profiles : status[r] # "absent" => status'[r] = status[r]
      /\ \A r \in Profiles : r # p => status'[r] = status[r]
  BY <1>1, <1>2 DEF SecretInv, Inv, TypeOK
<1>4. FreshInv'
  <2>. SUFFICES ASSUME NEW d \in Calls, d # c,
                       pc[d] \in {"idle", "write_assertion", "write_anchor", "persist"}
                PROVE  status'[New(d, "assertion")] = "absent" /\ status'[New(d, "anchor")] = "absent"
    BY <1>1, <1>2 DEF SecretInv, Inv, TypeOK, FreshInv
  <2>. QED  BY <1>1, <1>3, ProfileFacts DEF SecretInv, FreshInv
<1>5. AnchorInv' /\ WrittenInv'
  BY <1>1, <1>2, <1>3, ProfileFacts DEF SecretInv, Inv, TypeOK, AnchorInv, WrittenInv, Active
<1>6. Stays
  BY <1>1, <1>2, <1>3 DEF Stays, Attached
<1>7. OrphansAreReported'
  <2>1. \A d \in Calls : d # c => pc'[d] = pc[d]
    BY <1>2 DEF SecretInv, Inv, TypeOK
  <2>2. pc'[c] \in {"done", "failed"} => written[c] \subseteq reported'
    BY <1>2 DEF SecretInv, Inv, TypeOK
  <2>. QED  BY <1>2, <1>6, <2>1, <2>2, ReportedStep
<1>8. Degrades /\ Healthy
  BY <1>2, <1>3 DEF Degrades, Healthy
<1>. QED  BY <1>4, <1>5, <1>7, <1>8 DEF Kept

LEMMA RotateAssertionKept ==
  ASSUME SecretInv, NEW c \in Calls, RotateAssertion(c)
  PROVE  Kept
<1>. DEFINE i == issuer[c]
            old == assertionOf[i]
            new == New(c, "assertion")
<1>1. /\ i \in Issuers /\ pc[c] = "rotate" /\ op[c] = "assertion"
      /\ old \in AssertionProfiles /\ old \in Profiles /\ bound[old] = i
      /\ new \in AssertionProfiles /\ new \in Profiles /\ new.purpose = "assertion" /\ new # old
      /\ status[new] = "active"
      /\ identity[i] # "none"
  BY ProfileFacts DEF RotateAssertion, Rotatable, Candidate, SecretInv, Inv, TypeOK, CallInv,
     PointerInv, Active
<1>2. /\ bound' = [bound EXCEPT ![new] = i]
      /\ status' = [status EXCEPT ![old] = Retired(old)]
      /\ assertionOf' = [assertionOf EXCEPT ![i] = new]
      /\ identity' = [identity EXCEPT ![i] = Reconciled(i, status', bound', new, anchorOf[i])]
      /\ UNCHANGED <<anchorOf, op, anchor, written>>
      /\ \/ pc' = [pc EXCEPT ![c] = "done"] /\ reported' = reported
         \/ pc' = [pc EXCEPT ![c] = "failed"] /\ reported' = reported \cup written[c]
  BY DEF RotateAssertion, Delegated, Finish
<1>3. Reconciled(i, status', bound', new, anchorOf[i]) \in {"active", "rotation_required"}
  BY DEF Reconciled
<1>4. \A p \in Profiles :
        /\ status'[p] # status[p] => status[p] = "active" /\ status'[p] = "retired"
        /\ status[p] = "absent" <=> status'[p] = "absent"
  BY <1>1, <1>2 DEF Retired, SecretInv, Inv, TypeOK
<1>5. Healthy
  <2>. SUFFICES ASSUME NEW j \in Issuers, identity[j] # "active", identity'[j] = "active"
                PROVE  status'[assertionOf'[j]] = "active" /\ status'[anchorOf'[j]] = "active"
    BY DEF Healthy
  <2>1. j = i
    BY <1>1, <1>2 DEF SecretInv, Inv, TypeOK
  <2>2. Reconciled(i, status', bound', new, anchorOf[i]) = "active"
    BY <2>1, <1>1, <1>2 DEF SecretInv, Inv, TypeOK
  <2>3. status'[new] = "active" /\ status'[anchorOf[i]] = "active"
    BY <2>2 DEF Reconciled
  <2>. QED  BY <2>1, <2>3, <1>1, <1>2 DEF SecretInv, Inv, TypeOK
<1>. HIDE DEF i, old, new
<1>6. FreshInv'
  BY <1>1, <1>2, <1>4, ProfileFacts DEF SecretInv, Inv, TypeOK, FreshInv
<1>7. AnchorInv'
  BY <1>1, <1>2, <1>3, <1>4, ProfileFacts DEF SecretInv, Inv, TypeOK, AnchorInv
<1>8. WrittenInv'
  BY <1>1, <1>2 DEF SecretInv, Inv, TypeOK, WrittenInv, Active
<1>9. Stays
  <2>. SUFFICES ASSUME NEW p \in Profiles, Attached(p) PROVE Attached(p)'
    BY DEF Stays
  <2>1. bound[p] # None => bound'[p] # None
    BY <1>1, <1>2, ProfileFacts DEF SecretInv, Inv, TypeOK
  <2>. QED  BY <2>1, <1>2, <1>4 DEF Attached
<1>10. OrphansAreReported'
  <2>1. \A d \in Calls : d # c => pc'[d] = pc[d]
    BY <1>2 DEF SecretInv, Inv, TypeOK
  <2>2. \A p \in written[c] : p = new
    BY <1>1 DEF SecretInv, WrittenInv, Active, new
  <2>3. Attached(new)'
    BY <1>1, <1>2, ProfileFacts DEF Attached, SecretInv, Inv, TypeOK
  <2>. QED  BY <1>2, <1>9, <2>1, <2>2, <2>3, ReportedStep
<1>. QED  BY <1>4, <1>5, <1>6, <1>7, <1>8, <1>10 DEF Kept, Degrades

LEMMA RotateAnchorKept ==
  ASSUME SecretInv, NEW c \in Calls, RotateAnchor(c)
  PROVE  Kept
<1>. DEFINE i == issuer[c]
            old == anchorOf[i]
            new == anchor[c]
            s == IF Unreferenced(old, anchorOf') THEN Retired(old) ELSE status[old]
<1>1. /\ i \in Issuers /\ pc[c] = "rotate" /\ op[c] = "anchor"
      /\ old \in AnchorProfiles /\ old \in Profiles
      /\ new \in AnchorProfiles /\ new \in Profiles /\ new.purpose = "anchor" /\ new # old
      /\ status[new] = "active"
      /\ identity[i] # "none"
      /\ status[old] # "absent"
  BY ProfileFacts DEF RotateAnchor, Rotatable, Candidate, SecretInv, Inv, TypeOK, CallInv,
     PointerInv, AnchorInv, Active
<1>2. /\ anchorOf' = [anchorOf EXCEPT ![i] = new]
      /\ status' = [status EXCEPT ![old] = s]
      /\ identity' = [identity EXCEPT ![i] = Reconciled(i, status', bound, assertionOf[i], new)]
      /\ UNCHANGED <<assertionOf, bound, op, anchor, written>>
      /\ \/ pc' = [pc EXCEPT ![c] = "done"] /\ reported' = reported
         \/ pc' = [pc EXCEPT ![c] = "failed"] /\ reported' = reported \cup written[c]
  BY DEF RotateAnchor, Delegated, Finish
<1>3. Reconciled(i, status', bound, assertionOf[i], new) \in {"active", "rotation_required"}
  BY DEF Reconciled
<1>4. \A p \in Profiles :
        /\ status'[p] # status[p] => status[p] = "active" /\ status'[p] = "retired"
        /\ status[p] = "absent" <=> status'[p] = "absent"
  BY <1>1, <1>2 DEF Retired, SecretInv, Inv, TypeOK
<1>5. Healthy
  <2>. SUFFICES ASSUME NEW j \in Issuers, identity[j] # "active", identity'[j] = "active"
                PROVE  status'[assertionOf'[j]] = "active" /\ status'[anchorOf'[j]] = "active"
    BY DEF Healthy
  <2>1. j = i
    BY <1>1, <1>2 DEF SecretInv, Inv, TypeOK
  <2>2. Reconciled(i, status', bound, assertionOf[i], new) = "active"
    BY <2>1, <1>1, <1>2 DEF SecretInv, Inv, TypeOK
  <2>3. status'[assertionOf[i]] = "active" /\ status'[new] = "active"
    BY <2>2 DEF Reconciled
  <2>. QED  BY <2>1, <2>3, <1>1, <1>2 DEF SecretInv, Inv, TypeOK
<1>6. Stays
  <2>. SUFFICES ASSUME NEW p \in Profiles, Attached(p) PROVE Attached(p)'
    BY DEF Stays
  <2>1. CASE p.purpose = "assertion"
    BY <2>1, <1>2 DEF Attached
  <2>2. CASE p.purpose # "assertion" /\ status[p] \in {"retired", "compromised"}
    BY <2>2, <1>4 DEF Attached
  <2>3. CASE p.purpose # "assertion" /\ \E j \in Issuers : anchorOf[j] = p
    <3>1. CASE p = old /\ Unreferenced(old, anchorOf')
      <4>1. status'[p] = Retired(old)
        BY <3>1, <1>1, <1>2 DEF SecretInv, Inv, TypeOK
      <4>2. Retired(old) \in {"retired", "compromised"}
        BY <1>1 DEF Retired, SecretInv, Inv, TypeOK, Statuses
      <4>. QED  BY <4>1, <4>2, <2>3 DEF Attached
    <3>2. CASE p = old /\ ~ Unreferenced(old, anchorOf')
      BY <3>2, <2>3 DEF Attached, Unreferenced
    <3>3. CASE p # old
      <4>1. PICK j \in Issuers : anchorOf[j] = p
        BY <2>3
      <4>2. anchorOf'[j] = p
        BY <4>1, <3>3, <1>1, <1>2 DEF SecretInv, Inv, TypeOK
      <4>. QED  BY <4>2, <2>3 DEF Attached
    <3>. QED  BY <3>1, <3>2, <3>3
  <2>. QED  BY <2>1, <2>2, <2>3 DEF Attached
<1>. HIDE DEF i, old, new, s
<1>7. FreshInv'
  BY <1>1, <1>2, <1>4, ProfileFacts DEF SecretInv, Inv, TypeOK, FreshInv
<1>8. AnchorInv'
  BY <1>1, <1>2, <1>3, <1>4, ProfileFacts DEF SecretInv, Inv, TypeOK, AnchorInv
<1>9. WrittenInv'
  BY <1>1, <1>2 DEF SecretInv, Inv, TypeOK, WrittenInv, Active
<1>10. OrphansAreReported'
  <2>1. \A d \in Calls : d # c => pc'[d] = pc[d]
    BY <1>2 DEF SecretInv, Inv, TypeOK
  <2>2. \A p \in written[c] : p = new
    BY <1>1 DEF SecretInv, WrittenInv, Active, new
  <2>3. anchorOf'[i] = new
    BY <1>1, <1>2 DEF SecretInv, Inv, TypeOK
  <2>4. \A p \in written[c] : Attached(p)'
    BY <2>2, <2>3, <1>1 DEF Attached
  <2>. QED  BY <1>2, <1>6, <2>1, <2>4, ReportedStep
<1>. QED  BY <1>4, <1>5, <1>7, <1>8, <1>9, <1>10 DEF Kept, Degrades

\* A key is compromised, an identity is stopped or given back.
LEMMA AdministrationKept ==
  ASSUME SecretInv,
         (\E p \in Profiles : Compromise(p)) \/ (\E i \in Issuers : Suspend(i))
  PROVE  Kept
<1>1. /\ UNCHANGED <<assertionOf, anchorOf, bound, reported, pc, op, anchor, written>>
      /\ \A p \in Profiles : status'[p] # status[p] =>
           status[p] \in {"active", "retired"} /\ status'[p] = "compromised"
      /\ \A i \in Issuers :
           /\ identity'[i] = "none" <=> identity[i] = "none"
           /\ identity'[i] = "active" => identity[i] = "active"
  <2>1. ASSUME NEW p \in Profiles, Compromise(p) PROVE <1>1!:
    BY <2>1 DEF Compromise, SecretInv, Inv, TypeOK
  <2>2. ASSUME NEW i \in Issuers, Suspend(i) PROVE <1>1!:
    BY <2>2 DEF Suspend, SecretInv, Inv, TypeOK
  <2>. QED  BY <2>1, <2>2
<1>2. FreshInv' /\ AnchorInv' /\ WrittenInv'
  BY <1>1, ProfileFacts DEF SecretInv, Inv, TypeOK, FreshInv, AnchorInv, WrittenInv
<1>3. Stays /\ Degrades /\ Healthy
  BY <1>1 DEF Stays, Attached, Degrades, Healthy
<1>4. OrphansAreReported'
  <2>1. \A d \in Calls : written[d] \subseteq Profiles
    BY DEF SecretInv, Inv, TypeOK
  <2>. QED  BY <2>1, <1>1, <1>3 DEF SecretInv, OrphansAreReported, Stays
<1>. QED  BY <1>2, <1>3, <1>4 DEF Kept

LEMMA QuietKept ==
  ASSUME SecretInv,
         (\E q \in Issuances : IssuanceStep(q)) \/ UNCHANGED vars
  PROVE  Kept
<1>1. UNCHANGED rows /\ UNCHANGED <<reported, pc, op, anchor, written>>
  BY DEF IssuanceStep, Prepare, Revalidate, Issue, vars, rows
<1>2. FreshInv' /\ AnchorInv' /\ WrittenInv' /\ OrphansAreReported'
  BY <1>1 DEF SecretInv, FreshInv, AnchorInv, WrittenInv, OrphansAreReported, Attached, rows
<1>. QED  BY <1>1, <1>2, RowsKept DEF Kept

LEMMA NextKept == SecretInv /\ [Next]_vars => SecretInv' /\ Kept
<1>. SUFFICES ASSUME SecretInv, [Next]_vars PROVE SecretInv' /\ Kept
  OBVIOUS
<1>1. Inv'
  BY NextInv DEF SecretInv
<1>2. Kept
  <2>1. ASSUME NEW c \in Calls, OperatorStep(c) PROVE Kept
    <3>1. New(c, "anchor") \in AnchorProfiles
      BY ProfileFacts
    <3>. QED
      BY <2>1, <3>1, BeginsKept, WriteKept, EndsKept, PersistInitialKept, CreateProfileKept,
         RotateAssertionKept, RotateAnchorKept DEF OperatorStep
  <2>. QED  BY <2>1, AdministrationKept, QuietKept DEF Next
<1>. QED  BY <1>1, <1>2 DEF SecretInv, Kept

LEMMA InitSecrets == Init => SecretInv
<1>. SUFFICES ASSUME Init PROVE SecretInv
  OBVIOUS
<1>1. FreshInv /\ AnchorInv /\ WrittenInv
  BY ProfileFacts DEF Init, FreshInv, AnchorInv, WrittenInv, Active
<1>2. OrphansAreReported
  BY DEF Init, OrphansAreReported
<1>. QED  BY <1>1, <1>2, InitInv DEF SecretInv

\* Every secret whose write was confirmed is in use or was reported.
THEOREM OrphansHold == Spec => []OrphansAreReported
<1>1. SecretInv => OrphansAreReported
  BY DEF SecretInv
<1>. QED  BY <1>1, InitSecrets, NextKept, PTL DEF Spec

\* No step mends a broken key, brings a retired one back or returns an
\* identity to service with one of its roles out of order.
THEOREM BrokenKeysHold == Spec => BrokenKeysStayKnown
<1>1. SecretInv /\ [Next]_vars => Degrades /\ Healthy
  BY NextKept DEF Kept
<1>2. Spec => [][Degrades]_vars /\ [][Healthy]_vars
  BY <1>1, InitSecrets, NextKept, PTL DEF Spec
<1>. QED  BY <1>2 DEF BrokenKeysStayKnown, StatusOnlyDegrades, ActiveMeansHealthy, Degrades, Healthy
=============================================================================
