------------------------ MODULE ProfileSharingProofs ------------------------
(***************************************************************************)
(* What a link shares is what its holder asked for, for any credentials,   *)
(* requests in progress and bounds: the properties of ProfileSharing that  *)
(* hold however requests overlap (part 1), and the two that hold of        *)
(* requests that come one after the other (part 2).  And what the page     *)
(* that is opened with a link shows, for any number of requests and any    *)
(* order of their answers (VerifierPage, part 3).                          *)
(***************************************************************************)
EXTENDS ProfileSharing, SequenceTheorems, TLAPS

(***************************************************************************)
(* PART 1.  The policy of a link is the last of its intents; a request     *)
(* carries a version that was, and the intents only grow, so what it read  *)
(* stays true of the log however late it acts.                             *)
(***************************************************************************)

NotDraft(c) == states[c] # "draft"

IntentOf(p) == [enabled |-> p.enabled, ids |-> p.ids]

\* The policy of a link is the last of its intents, whole.
GrantInv(g) ==
    /\ policies[g].version = Len(intents[g])
    /\ policies[g].version = 0 => ~policies[g].enabled
    /\ policies[g].version > 0 => IntentOf(policies[g]) = intents[g][Len(intents[g])]
    /\ \A c \in policies[g].ids : NotDraft(c)

TaskRecords ==
    [op : {"none", "recover", "revoke", "view", "replace"},
     at : {"idle", "set", "reread", "count", "validate", "write", "answer"},
     grant : Nat, request : Intents, base : Policies, version : 0..MaxVersions,
     mark : Tasks \cup {NoTask}, shown : BOOLEAN]

\* What a request read of the policy is a version it had, or none.
BaseInv(t) ==
    LET g == call[t].grant
        base == call[t].base IN
    /\ base.version \in 0..Len(intents[g])
    /\ base.version > 0 => IntentOf(base) = intents[g][base.version]
    /\ \A c \in base.ids : NotDraft(c)

\* The place a request is at says what it does.
PlaceInv(t) ==
    /\ call[t].at \in {"set", "reread"} => call[t].op = "revoke"
    /\ call[t].at = "count" => call[t].op = "view"
    /\ call[t].at \in {"validate", "write"} => call[t].op = "replace"
    /\ call[t].shown => call[t].at = "answer" /\ call[t].op = "view"

\* What a request that is under way may rely on.
TaskInv(t) ==
    LET g == call[t].grant IN
    call[t].at # "idle" =>
        /\ g \in DOMAIN grants
        /\ call[t].op \in {"view", "replace"} => BaseInv(t)
        /\ call[t].at = "write" => \A c \in call[t].request.ids : NotDraft(c)
        /\ (call[t].at = "answer" /\ call[t].op = "replace") =>
              /\ call[t].version \in DOMAIN intents[g]
              /\ intents[g][call[t].version] = call[t].request
        /\ call[t].shown => /\ call[t].base.version > 0 /\ call[t].base.enabled
                            /\ \E c \in call[t].base.ids : NotDraft(c)
        /\ call[t].at = "reread" => grants[g].revoked # NoTask
        /\ (call[t].at = "answer" /\ call[t].op = "revoke") =>
              grants[g].revoked # NoTask /\ call[t].mark = grants[g].revoked

Inv ==
    /\ SharingTypeOK
    /\ call \in [Tasks -> TaskRecords]
    /\ \A g \in DOMAIN grants : GrantInv(g)
    /\ \A t \in Tasks : PlaceInv(t) /\ TaskInv(t)

\* What no step takes back: a credential that left the draft, the revocation
\* of a link, an intent of its holder.
Grows ==
    /\ \A c \in Credentials : NotDraft(c) => NotDraft(c)'
    /\ \A g \in DOMAIN grants :
        /\ g \in DOMAIN grants'
        /\ grants[g].revoked # NoTask => grants'[g].revoked = grants[g].revoked
        /\ \A v \in DOMAIN intents[g] :
              v \in DOMAIN intents'[g] /\ intents'[g][v] = intents[g][v]

-----------------------------------------------------------------------------
(* Sequences.                                                               *)

LEMMA Updated ==
    ASSUME NEW S, NEW s \in Seq(S), NEW g \in DOMAIN s, NEW e \in S, NEW r,
           r = [s EXCEPT ![g] = e]
    PROVE  /\ r \in Seq(S) /\ Len(r) = Len(s) /\ DOMAIN r = DOMAIN s
           /\ \A h \in DOMAIN s : r[h] = IF h = g THEN e ELSE s[h]
<1>1. DOMAIN s = 1..Len(s)
  BY LenProperties
<1>2. r \in Seq(S) /\ Len(r) = Len(s) /\ \A h \in 1..Len(s) : r[h] = IF h = g THEN e ELSE s[h]
  BY <1>1, ExceptSeq
<1>3. DOMAIN r = 1..Len(r)
  BY <1>2, LenProperties
<1> QED
  BY <1>1, <1>2, <1>3

LEMMA Appended ==
    ASSUME NEW S, NEW s \in Seq(S), NEW e \in S, NEW r, r = Append(s, e)
    PROVE  /\ r \in Seq(S) /\ Len(r) = Len(s) + 1 /\ DOMAIN r = 1..Len(s) + 1
           /\ r[Len(s) + 1] = e
           /\ \A h \in DOMAIN s : h \in DOMAIN r /\ r[h] = s[h]
<1>1. DOMAIN s = 1..Len(s) /\ Len(s) \in Nat
  BY LenProperties
<1>2. /\ r \in Seq(S) /\ Len(r) = Len(s) + 1 /\ r[Len(s) + 1] = e
      /\ \A h \in 1..Len(s) : r[h] = s[h]
  BY AppendProperties
<1>3. DOMAIN r = 1..Len(r)
  BY <1>2, LenProperties
<1> QED
  BY <1>1, <1>2, <1>3

\* What the types say of the rows.
LEMMA Rows ==
    ASSUME SharingTypeOK
    PROVE  /\ DOMAIN grants = 1..Len(grants) /\ Len(grants) \in Nat
           /\ DOMAIN policies = DOMAIN grants /\ DOMAIN intents = DOMAIN grants
           /\ \A g \in DOMAIN grants :
                /\ grants[g] \in Grants /\ policies[g] \in Policies
                /\ intents[g] \in Seq(Intents) /\ Len(intents[g]) \in Nat
                /\ DOMAIN intents[g] = 1..Len(intents[g])
                /\ \A v \in DOMAIN intents[g] : intents[g][v] \in Intents
<1>1. grants \in Seq(Grants) /\ policies \in Seq(Policies) /\ intents \in Seq(Seq(Intents))
  BY DEF SharingTypeOK
<1>2. /\ DOMAIN grants = 1..Len(grants) /\ Len(grants) \in Nat
      /\ DOMAIN policies = 1..Len(policies) /\ DOMAIN intents = 1..Len(intents)
  BY <1>1, LenProperties
<1>3. DOMAIN policies = DOMAIN grants /\ DOMAIN intents = DOMAIN grants
  BY <1>2 DEF SharingTypeOK
<1>4. ASSUME NEW g \in DOMAIN grants
      PROVE  /\ grants[g] \in Grants /\ policies[g] \in Policies
             /\ intents[g] \in Seq(Intents) /\ Len(intents[g]) \in Nat
             /\ DOMAIN intents[g] = 1..Len(intents[g])
             /\ \A v \in DOMAIN intents[g] : intents[g][v] \in Intents
  <2>1. grants[g] \in Grants /\ policies[g] \in Policies /\ intents[g] \in Seq(Intents)
    BY <1>1, <1>2, <1>3, ElementOfSeq
  <2> QED
    BY <2>1, LenProperties, ElementOfSeq
<1> QED
  BY <1>2, <1>3, <1>4

\* The same after a step.
LEMMA RowsNext ==
    ASSUME SharingTypeOK', NEW g \in DOMAIN grants'
    PROVE  DOMAIN intents'[g] = 1..Len(intents'[g]) /\ Len(intents'[g]) \in Nat
<1>1. intents' \in Seq(Seq(Intents)) /\ Len(intents') = Len(grants') /\ grants' \in Seq(Grants)
  BY DEF SharingTypeOK
<1>2. DOMAIN intents' = DOMAIN grants' /\ DOMAIN intents' = 1..Len(intents')
  BY <1>1, LenProperties
<1>3. intents'[g] \in Seq(Intents)
  BY <1>1, <1>2, ElementOfSeq
<1> QED
  BY <1>3, LenProperties

-----------------------------------------------------------------------------
(* The rows: their types, and that they only grow.                          *)

LEMMA Constants ==
    ASSUME BoundsAssumption
    PROVE  /\ MaxGrants \in Nat /\ MaxVersions \in Nat /\ MaxSealKeys \in Nat /\ MaxSealKeys >= 1
           /\ NoPolicy \in Policies /\ NoIntent \in Intents /\ NoCall \in TaskRecords
  BY DEF BoundsAssumption, NoPolicy, Policies, NoIntent, Intents, NoCall, TaskRecords, NoTask

LEMMA CredentialChangesGrows ==
    ASSUME Inv, NEW c \in Credentials, CredentialChanges(c)
    PROVE  SharingTypeOK' /\ Grows
<1> USE DEF CredentialChanges
<1>1. states' \in [Credentials -> {"draft", "issued", "revoked"}]
  BY DEF Inv, SharingTypeOK
<1>2. \A d \in Credentials : NotDraft(d) => NotDraft(d)'
  BY DEF Inv, SharingTypeOK, NotDraft
<1>3. SharingTypeOK'
  BY <1>1 DEF Inv, SharingTypeOK
<1> QED
  BY <1>2, <1>3 DEF Grows

LEMMA ExpireGrows ==
    ASSUME Inv, NEW g \in DOMAIN grants, Expire(g)
    PROVE  SharingTypeOK' /\ Grows /\ DOMAIN grants' = DOMAIN grants
<1> DEFINE row == [grants[g] EXCEPT !.expired = TRUE]
<1>1. grants \in Seq(Grants) /\ grants[g] \in Grants
  BY Rows DEF Inv, SharingTypeOK
<1>2. row \in Grants /\ row.revoked = grants[g].revoked
  BY <1>1 DEF Grants
<1>3. grants' = [grants EXCEPT ![g] = row]
  BY DEF Expire
<1> HIDE DEF row
<1>4. /\ grants' \in Seq(Grants) /\ Len(grants') = Len(grants) /\ DOMAIN grants' = DOMAIN grants
      /\ \A h \in DOMAIN grants : grants'[h] = IF h = g THEN row ELSE grants[h]
  BY <1>1, <1>2, <1>3, Updated
<1>5. SharingTypeOK'
  BY <1>4 DEF Inv, SharingTypeOK, Expire
<1>6. Grows
  BY <1>2, <1>4 DEF Grows, Expire, NotDraft
<1> QED
  BY <1>4, <1>5, <1>6

LEMMA CreateShareGrows ==
    ASSUME BoundsAssumption, Inv, CreateShare
    PROVE  /\ SharingTypeOK' /\ Grows
           /\ DOMAIN grants' = DOMAIN grants \cup {Len(grants) + 1}
           /\ \A g \in DOMAIN grants : /\ policies'[g] = policies[g]
                                       /\ intents'[g] = intents[g]
           /\ policies'[Len(grants) + 1] = NoPolicy
           /\ intents'[Len(grants) + 1] = << >>
<1> DEFINE row == [revoked |-> NoTask, expired |-> FALSE, sealed |-> key]
<1>1. /\ grants \in Seq(Grants) /\ policies \in Seq(Policies) /\ intents \in Seq(Seq(Intents))
      /\ Len(policies) = Len(grants) /\ Len(intents) = Len(grants)
      /\ DOMAIN grants = 1..Len(grants) /\ Len(grants) \in Nat
      /\ DOMAIN policies = DOMAIN grants /\ DOMAIN intents = DOMAIN grants
  BY Rows DEF Inv, SharingTypeOK
<1>2. row \in Grants /\ NoPolicy \in Policies /\ << >> \in Seq(Intents)
  <2>1. key \in 1..MaxSealKeys
    BY Constants DEF Inv, SharingTypeOK, CreateShare, Sealable
  <2>2. row \in Grants
    BY <2>1 DEF Grants
  <2> QED
    BY <2>2, Constants, EmptySeq
<1>3. /\ grants' = Append(grants, row) /\ policies' = Append(policies, NoPolicy)
      /\ intents' = Append(intents, << >>)
      /\ UNCHANGED <<states, key>> /\ Len(grants) < MaxGrants
  BY DEF CreateShare
<1> HIDE DEF row
<1>4. /\ grants' \in Seq(Grants) /\ Len(grants') = Len(grants) + 1
      /\ DOMAIN grants' = 1..Len(grants) + 1
      /\ \A h \in DOMAIN grants : h \in DOMAIN grants' /\ grants'[h] = grants[h]
  BY <1>1, <1>2, <1>3, Appended
<1>5. /\ policies' \in Seq(Policies) /\ Len(policies') = Len(grants) + 1
      /\ policies'[Len(grants) + 1] = NoPolicy
      /\ \A h \in DOMAIN grants : policies'[h] = policies[h]
  BY <1>1, <1>2, <1>3, Appended
<1>6. /\ intents' \in Seq(Seq(Intents)) /\ Len(intents') = Len(grants) + 1
      /\ intents'[Len(grants) + 1] = << >>
      /\ \A h \in DOMAIN grants : intents'[h] = intents[h]
  <2>1. Seq(Intents) = Seq(Intents)
    OBVIOUS
  <2> QED
    BY <1>1, <1>2, <1>3, Appended
<1>7. SharingTypeOK'
  BY <1>1, <1>3, <1>4, <1>5, <1>6, Constants DEF Inv, SharingTypeOK
<1>8. Grows
  BY <1>3, <1>4, <1>6 DEF Grows, NotDraft
<1>9. DOMAIN grants' = DOMAIN grants \cup {Len(grants) + 1}
  BY <1>1, <1>4
<1> QED
  BY <1>5, <1>6, <1>7, <1>8, <1>9

LEMMA SetRevokedGrows ==
    ASSUME Inv, NEW t \in Tasks, NoTask \notin Tasks, SetRevoked(t)
    PROVE  /\ SharingTypeOK' /\ Grows
           /\ DOMAIN grants' = DOMAIN grants /\ call[t].grant \in DOMAIN grants
           /\ grants'[call[t].grant].revoked # NoTask
<1> DEFINE g == call[t].grant
           row == [grants[g] EXCEPT !.revoked = t]
<1>1. g \in DOMAIN grants /\ grants \in Seq(Grants) /\ grants[g] \in Grants
  BY Rows DEF Inv, SharingTypeOK, TaskInv, SetRevoked, CallAt
<1>2. row \in Grants /\ row.revoked = t
  BY <1>1 DEF Grants
<1>3. /\ grants' = IF grants[g].revoked = NoTask THEN [grants EXCEPT ![g] = row] ELSE grants
      /\ UNCHANGED <<states, key, policies, intents>>
  BY DEF SetRevoked, Marked
<1> HIDE DEF row, g
<1>4. CASE grants[g].revoked = NoTask
  <2>1. /\ grants' \in Seq(Grants) /\ Len(grants') = Len(grants)
        /\ DOMAIN grants' = DOMAIN grants
        /\ \A h \in DOMAIN grants : grants'[h] = IF h = g THEN row ELSE grants[h]
    BY <1>1, <1>2, <1>3, <1>4, Updated
  <2>2. SharingTypeOK'
    BY <1>3, <2>1 DEF Inv, SharingTypeOK
  <2>3. Grows
    BY <1>3, <1>4, <2>1 DEF Grows, NotDraft
  <2> QED
    BY <1>1, <1>2, <2>1, <2>2, <2>3 DEF g
<1>5. CASE grants[g].revoked # NoTask
  <2>1. UNCHANGED <<grants, states, key, policies, intents>>
    BY <1>3, <1>5
  <2>2. SharingTypeOK'
    BY <2>1 DEF Inv, SharingTypeOK
  <2>3. Grows
    BY <2>1 DEF Grows, NotDraft
  <2> QED
    BY <1>1, <1>5, <2>1, <2>2, <2>3 DEF g
<1> QED
  BY <1>4, <1>5

\* The transaction that replaces a policy does nothing to its link, or ...
Refused(t) == call[t].base.version = 0 /\ policies[call[t].grant].version > 0

\* ... writes the next version with the request, whole.
LEMMA WriteGrows ==
    ASSUME BoundsAssumption, Inv, NEW t \in Tasks, Write(t), ~Refused(t),
           NEW g, g = call[t].grant
    PROVE  /\ SharingTypeOK' /\ Grows /\ grants' = grants /\ g \in DOMAIN grants
           /\ \A h \in DOMAIN grants \ {g} :
                intents'[h] = intents[h] /\ policies'[h] = policies[h]
           /\ Len(intents'[g]) = Len(intents[g]) + 1
           /\ intents'[g][Len(intents[g]) + 1] = call[t].request
           /\ policies'[g].version = Len(intents[g]) + 1
           /\ IntentOf(policies'[g]) = call[t].request
           /\ policies'[g].enabledAt =
                Stamp(call[t].request.enabled /\ ~call[t].base.enabled,
                      policies[g].enabledAt, Len(intents[g]) + 1)
           /\ policies'[g].disabledAt =
                Stamp(~call[t].request.enabled
                        /\ (call[t].base.enabled \/ call[t].base.version = 0),
                      policies[g].disabledAt, Len(intents[g]) + 1)
           /\ call' = [call EXCEPT ![t].version = Len(intents[g]) + 1, ![t].at = "answer"]
           /\ Len(intents[g]) + 1 \in 0..MaxVersions
<1> DEFINE base == call[t].base
           request == call[t].request
           version == policies[g].version + 1
           row == [version |-> version, enabled |-> request.enabled, ids |-> request.ids,
                   enabledAt |-> Stamp(request.enabled /\ ~base.enabled,
                                       policies[g].enabledAt, version),
                   disabledAt |-> Stamp(~request.enabled /\ (base.enabled \/ base.version = 0),
                                        policies[g].disabledAt, version)]
           log == Append(intents[g], request)
<1>1. /\ g \in DOMAIN grants /\ DOMAIN policies = DOMAIN grants /\ DOMAIN intents = DOMAIN grants
      /\ policies \in Seq(Policies) /\ intents \in Seq(Seq(Intents))
      /\ policies[g] \in Policies /\ intents[g] \in Seq(Intents) /\ Len(intents[g]) \in Nat
      /\ policies[g].version = Len(intents[g])
      /\ request \in Intents
  BY Rows DEF Inv, SharingTypeOK, TaskInv, GrantInv, Write, CallAt, TaskRecords
<1>2. /\ version <= MaxVersions
      /\ policies' = [policies EXCEPT ![g] = row]
      /\ intents' = [intents EXCEPT ![g] = log]
      /\ call' = [call EXCEPT ![t].version = version, ![t].at = "answer"]
      /\ UNCHANGED <<states, key, grants>>
  BY DEF Write, Refused, NextVersion, Selection
<1>3. version \in 0..MaxVersions /\ version = Len(intents[g]) + 1 /\ MaxVersions \in Nat
  BY <1>1, <1>2, Constants DEF Policies
<1>4. row \in Policies
  <2>1. request.enabled \in BOOLEAN /\ request.ids \in SUBSET Credentials
    BY <1>1 DEF Intents
  <2>2. policies[g].enabledAt \in 0..MaxVersions /\ policies[g].disabledAt \in 0..MaxVersions
    BY <1>1 DEF Policies
  <2>3. /\ row.enabledAt \in 0..MaxVersions /\ row.disabledAt \in 0..MaxVersions
    BY <1>3, <2>2 DEF Stamp
  <2> QED
    BY <1>3, <2>1, <2>3 DEF Policies
<1>5. /\ IntentOf(row) = request /\ row.version = version
      /\ row.enabledAt = Stamp(request.enabled /\ ~base.enabled,
                               policies[g].enabledAt, Len(intents[g]) + 1)
      /\ row.disabledAt = Stamp(~request.enabled /\ (base.enabled \/ base.version = 0),
                                policies[g].disabledAt, Len(intents[g]) + 1)
  BY <1>1, <1>3 DEF IntentOf, Intents
<1>6. /\ log \in Seq(Intents) /\ Len(log) = Len(intents[g]) + 1
      /\ log[Len(intents[g]) + 1] = request
      /\ \A v \in DOMAIN intents[g] : v \in DOMAIN log /\ log[v] = intents[g][v]
  BY <1>1, Appended
<1> HIDE DEF row, log, request, base, version
<1>7. /\ policies' \in Seq(Policies) /\ Len(policies') = Len(policies)
      /\ \A h \in DOMAIN policies : policies'[h] = IF h = g THEN row ELSE policies[h]
  BY <1>1, <1>2, <1>4, Updated
<1>8. /\ intents' \in Seq(Seq(Intents)) /\ Len(intents') = Len(intents)
      /\ \A h \in DOMAIN intents : intents'[h] = IF h = g THEN log ELSE intents[h]
  BY <1>1, <1>2, <1>6, Updated
<1>9. SharingTypeOK'
  BY <1>2, <1>7, <1>8 DEF Inv, SharingTypeOK
<1>10. Grows
  BY <1>1, <1>2, <1>6, <1>8 DEF Grows, NotDraft
<1> QED
  BY <1>1, <1>2, <1>3, <1>5, <1>6, <1>7, <1>8, <1>9, <1>10 DEF request, base

\* A step that touches no row.
RowsKept == UNCHANGED <<states, key, grants, policies, intents>>

LEMMA KeptGrows ==
    ASSUME Inv, RowsKept
    PROVE  SharingTypeOK' /\ Grows
  BY DEF RowsKept, Inv, SharingTypeOK, Grows, NotDraft

LEMMA QuietSteps ==
    ASSUME NEW t \in Tasks
    PROVE  /\ ReadRevoked(t) \/ CountIssued(t) \/ Validate(t) \/ Answer(t) => RowsKept
           /\ Write(t) /\ Refused(t) => RowsKept
           /\ \A g \in DOMAIN grants :
                /\ RecoverLink(t, g) \/ Revoke(t, g) \/ View(t, g) => RowsKept
                /\ \A request \in Intents : Replace(t, g, request) => RowsKept
<1>1. ReadRevoked(t) \/ CountIssued(t) \/ Validate(t) \/ Answer(t) => RowsKept
  BY DEF RowsKept, ReadRevoked, CountIssued, Validate, Answer
<1>2. Write(t) /\ Refused(t) => RowsKept
  BY DEF RowsKept, Write, Refused
<1>3. ASSUME NEW g \in DOMAIN grants
      PROVE  /\ RecoverLink(t, g) \/ Revoke(t, g) \/ View(t, g) => RowsKept
             /\ \A request \in Intents : Replace(t, g, request) => RowsKept
  BY DEF RowsKept, RecoverLink, Revoke, View, Replace
<1> QED
  BY <1>1, <1>2, <1>3

LEMMA ChangeKeyGrows ==
    ASSUME BoundsAssumption, Inv, ChangeKey
    PROVE  SharingTypeOK' /\ Grows
<1>1. key' \in 0..MaxSealKeys /\ UNCHANGED <<states, grants, policies, intents>>
  BY Constants DEF ChangeKey, Inv, SharingTypeOK
<1> QED
  BY <1>1 DEF Inv, SharingTypeOK, Grows, NotDraft

-----------------------------------------------------------------------------
(* The requests: one that does not move keeps what it relies on, because    *)
(* the rows only grow; one that moves has it anew.                          *)

LEMMA TaskKept ==
    ASSUME Inv, SharingTypeOK', Grows, NEW t \in Tasks, call'[t] = call[t]
    PROVE  PlaceInv(t)' /\ TaskInv(t)'
<1>1. PlaceInv(t)'
  BY DEF Inv, PlaceInv
<1>2. CASE call[t].at = "idle"
  BY <1>1, <1>2 DEF TaskInv
<1>3. CASE call[t].at # "idle"
  <2> DEFINE g == call[t].grant
  <2>1. g \in DOMAIN grants /\ TaskInv(t) /\ PlaceInv(t) /\ call[t] \in TaskRecords
    BY <1>3 DEF Inv, TaskInv
  <2>2. /\ g \in DOMAIN grants'
        /\ grants[g].revoked # NoTask => grants'[g].revoked = grants[g].revoked
        /\ \A v \in DOMAIN intents[g] :
              v \in DOMAIN intents'[g] /\ intents'[g][v] = intents[g][v]
    BY <2>1 DEF Grows
  <2>3. /\ DOMAIN intents[g] = 1..Len(intents[g]) /\ Len(intents[g]) \in Nat
        /\ DOMAIN intents'[g] = 1..Len(intents'[g]) /\ Len(intents'[g]) \in Nat
    BY <2>1, <2>2, Rows, RowsNext DEF Inv
  <2>4. call[t].base.ids \subseteq Credentials /\ call[t].request.ids \subseteq Credentials
        /\ call[t].base.version \in Nat
    BY <2>1 DEF TaskRecords, Policies, Intents
  <2>5. \A c \in Credentials : NotDraft(c) => NotDraft(c)'
    BY DEF Grows
  <2>6. call[t].op \in {"view", "replace"} => BaseInv(t)'
    <3> HAVE call[t].op \in {"view", "replace"}
    <3>1. /\ call[t].base.version \in 0..Len(intents[g])
          /\ call[t].base.version > 0 => IntentOf(call[t].base) = intents[g][call[t].base.version]
          /\ \A c \in call[t].base.ids : NotDraft(c)
      BY <1>3, <2>1 DEF TaskInv, BaseInv
    <3>2. \A c \in call[t].base.ids : NotDraft(c)'
      BY <2>4, <2>5, <3>1
    <3>3. Len(intents[g]) <= Len(intents'[g])
      BY <2>2, <2>3
    <3>4. call[t].base.version > 0 => IntentOf(call[t].base) = intents'[g][call[t].base.version]
      BY <2>2, <2>3, <2>4, <3>1
    <3>5. call[t].base.version \in 0..Len(intents'[g])
      BY <2>3, <2>4, <3>1, <3>3
    <3> QED
      BY <3>2, <3>4, <3>5 DEF BaseInv, IntentOf
  <2>7. call[t].at = "write" => \A c \in call[t].request.ids : NotDraft(c)'
    BY <2>1, <2>4, <2>5 DEF TaskInv
  <2>8. (call[t].at = "answer" /\ call[t].op = "replace") =>
           /\ call[t].version \in DOMAIN intents'[g]
           /\ intents'[g][call[t].version] = call[t].request
    BY <2>1, <2>2 DEF TaskInv
  <2>9. call[t].shown => /\ call[t].base.version > 0 /\ call[t].base.enabled
                         /\ \E c \in call[t].base.ids : NotDraft(c)'
    BY <1>3, <2>1, <2>4, <2>5 DEF TaskInv
  <2>10. /\ call[t].at = "reread" => grants'[g].revoked # NoTask
         /\ (call[t].at = "answer" /\ call[t].op = "revoke") =>
              grants'[g].revoked # NoTask /\ call[t].mark = grants'[g].revoked
    BY <2>1, <2>2 DEF TaskInv
  <2> QED
    BY <1>1, <2>2, <2>6, <2>7, <2>8, <2>9, <2>10 DEF TaskInv
<1> QED
  BY <1>2, <1>3

LEMMA GrantKept ==
    ASSUME Inv, Grows, NEW g \in DOMAIN grants,
           policies'[g] = policies[g], intents'[g] = intents[g]
    PROVE  GrantInv(g)'
<1>1. GrantInv(g) /\ policies[g].ids \subseteq Credentials
  BY Rows DEF Inv, Policies
<1> QED
  BY <1>1 DEF GrantInv, IntentOf, Grows

\* A request that ends, or has not begun, relies on nothing.
LEMMA IdleRelies ==
    ASSUME NEW t \in Tasks, call'[t] = NoCall
    PROVE  PlaceInv(t)' /\ TaskInv(t)'
  BY DEF PlaceInv, TaskInv, NoCall

LEMMA Moves ==
    ASSUME Inv, SharingTypeOK', Grows, \A g \in DOMAIN grants' : GrantInv(g)',
           NEW t \in Tasks, NEW r \in TaskRecords, call' = [call EXCEPT ![t] = r],
           call'[t] = r => PlaceInv(t)' /\ TaskInv(t)'
    PROVE  Inv'
<1>1. call' \in [Tasks -> TaskRecords] /\ call'[t] = r
      /\ \A u \in Tasks \ {t} : call'[u] = call[u]
  BY DEF Inv
<1>2. \A u \in Tasks \ {t} : PlaceInv(u)' /\ TaskInv(u)'
  BY <1>1, TaskKept
<1> QED
  BY <1>1, <1>2 DEF Inv

\* The same where no row is touched.
LEMMA QuietMoves ==
    ASSUME Inv, RowsKept,
           NEW t \in Tasks, NEW r \in TaskRecords, call' = [call EXCEPT ![t] = r],
           call'[t] = r => PlaceInv(t)' /\ TaskInv(t)'
    PROVE  Inv'
<1>1. SharingTypeOK' /\ Grows
  BY KeptGrows
<1>2. \A g \in DOMAIN grants' : GrantInv(g)'
  BY <1>1, GrantKept DEF RowsKept
<1> QED
  BY <1>1, <1>2, Moves

\* The same where no request moves.
LEMMA Around ==
    ASSUME Inv, SharingTypeOK', Grows, \A g \in DOMAIN grants' : GrantInv(g)', call' = call
    PROVE  Inv'
<1>1. \A u \in Tasks : PlaceInv(u)' /\ TaskInv(u)'
  BY TaskKept
<1> QED
  BY <1>1 DEF Inv

-----------------------------------------------------------------------------
(* Every action keeps the invariant.                                        *)

LEMMA AroundSteps ==
    ASSUME BoundsAssumption, Inv,
           \/ ChangeKey \/ CreateShare
           \/ \E c \in Credentials : CredentialChanges(c)
           \/ \E g \in DOMAIN grants : Expire(g)
    PROVE  Inv' /\ Grows
<1>1. CASE ChangeKey
  <2>1. SharingTypeOK' /\ Grows
    BY <1>1, ChangeKeyGrows
  <2>2. \A g \in DOMAIN grants' : GrantInv(g)'
    BY <1>1, <2>1, GrantKept DEF ChangeKey
  <2> QED
    BY <1>1, <2>1, <2>2, Around DEF ChangeKey
<1>2. CASE CreateShare
  <2>1. /\ SharingTypeOK' /\ Grows
        /\ DOMAIN grants' = DOMAIN grants \cup {Len(grants) + 1}
        /\ \A g \in DOMAIN grants : policies'[g] = policies[g] /\ intents'[g] = intents[g]
        /\ policies'[Len(grants) + 1] = NoPolicy /\ intents'[Len(grants) + 1] = << >>
    BY <1>2, CreateShareGrows
  <2>2. \A g \in DOMAIN grants : GrantInv(g)'
    BY <2>1, GrantKept
  <2>3. ASSUME NEW g \in DOMAIN grants', g \notin DOMAIN grants
        PROVE  GrantInv(g)'
    <3>1. policies'[g] = NoPolicy /\ intents'[g] = << >>
      BY <2>1, <2>3
    <3> QED
      BY <3>1 DEF GrantInv, NoPolicy
  <2>4. \A g \in DOMAIN grants' : GrantInv(g)'
    BY <2>1, <2>2, <2>3
  <2> QED
    BY <1>2, <2>1, <2>4, Around DEF CreateShare
<1>3. ASSUME NEW c \in Credentials, CredentialChanges(c)
      PROVE  Inv' /\ Grows
  <2>1. SharingTypeOK' /\ Grows
    BY <1>3, CredentialChangesGrows
  <2>2. \A g \in DOMAIN grants' : GrantInv(g)'
    BY <1>3, <2>1, GrantKept DEF CredentialChanges
  <2> QED
    BY <1>3, <2>1, <2>2, Around DEF CredentialChanges
<1>4. ASSUME NEW g \in DOMAIN grants, Expire(g)
      PROVE  Inv' /\ Grows
  <2>1. SharingTypeOK' /\ Grows /\ DOMAIN grants' = DOMAIN grants
    BY <1>4, ExpireGrows
  <2>2. \A h \in DOMAIN grants' : GrantInv(h)'
    BY <1>4, <2>1, GrantKept DEF Expire
  <2> QED
    BY <1>4, <2>1, <2>2, Around DEF Expire
<1> QED
  BY <1>1, <1>2, <1>3, <1>4

LEMMA RevokeSteps ==
    ASSUME BoundsAssumption, NoTask \notin Tasks, Inv, NEW t \in Tasks,
           \/ SetRevoked(t) \/ ReadRevoked(t)
           \/ \E g \in DOMAIN grants : RecoverLink(t, g) \/ Revoke(t, g)
    PROVE  Inv' /\ Grows
<1> USE DEF CallAt
<1>1. CASE SetRevoked(t)
  <2> DEFINE r == [call[t] EXCEPT !.at = "reread"]
  <2>1. /\ SharingTypeOK' /\ Grows /\ DOMAIN grants' = DOMAIN grants
        /\ call[t].grant \in DOMAIN grants /\ grants'[call[t].grant].revoked # NoTask
    BY <1>1, SetRevokedGrows
  <2>2. \A g \in DOMAIN grants' : GrantInv(g)'
    BY <1>1, <2>1, GrantKept DEF SetRevoked
  <2>3. call[t] \in TaskRecords /\ call[t].op = "revoke" /\ call[t].at = "set" /\ ~call[t].shown
    BY <1>1 DEF SetRevoked, Inv, PlaceInv
  <2>4. r \in TaskRecords /\ call' = [call EXCEPT ![t] = r]
    BY <1>1, <2>3 DEF SetRevoked, Go, TaskRecords
  <2>5. call'[t] = r => PlaceInv(t)' /\ TaskInv(t)'
    BY <2>1, <2>3 DEF PlaceInv, TaskInv, TaskRecords
  <2> QED
    BY <2>1, <2>2, <2>4, <2>5, Moves
<1>2. CASE ReadRevoked(t)
  <2> DEFINE g == call[t].grant
             r == [call[t] EXCEPT !.mark = grants[g].revoked, !.at = "answer"]
  <2>1. /\ call[t] \in TaskRecords /\ call[t].op = "revoke" /\ call[t].at = "reread"
        /\ ~call[t].shown /\ g \in DOMAIN grants /\ grants[g].revoked # NoTask
    BY <1>2 DEF ReadRevoked, Inv, PlaceInv, TaskInv
  <2>2. RowsKept
    BY <1>2, QuietSteps
  <2>3. grants[g].revoked \in Tasks \cup {NoTask}
    BY <2>1, Rows DEF Inv, Grants
  <2>4. r \in TaskRecords /\ call' = [call EXCEPT ![t] = r]
    BY <1>2, <2>1, <2>3 DEF ReadRevoked, TaskRecords
  <2>5. call'[t] = r => PlaceInv(t)' /\ TaskInv(t)'
    BY <2>1, <2>2 DEF PlaceInv, TaskInv, TaskRecords, RowsKept
  <2>6. Inv'
    BY <2>2, <2>4, <2>5, QuietMoves
  <2> QED
    BY <2>2, <2>6, KeptGrows
<1>3. ASSUME NEW g \in DOMAIN grants, RecoverLink(t, g)
      PROVE  Inv' /\ Grows
  <2> DEFINE r == [NoCall EXCEPT !.op = "recover", !.at = "answer", !.grant = g]
  <2>1. RowsKept
    BY <1>3, QuietSteps
  <2> g \in Nat /\ NoCall \in TaskRecords
    BY Rows, Constants DEF Inv
  <2>2. r \in TaskRecords /\ call' = [call EXCEPT ![t] = r]
    BY <1>3 DEF RecoverLink, TaskRecords
  <2>3. call'[t] = r => PlaceInv(t)' /\ TaskInv(t)'
    BY <2>1 DEF PlaceInv, TaskInv, RowsKept, NoCall
  <2>4. Inv'
    BY <2>1, <2>2, <2>3, QuietMoves
  <2> QED
    BY <2>1, <2>4, KeptGrows
<1>4. ASSUME NEW g \in DOMAIN grants, Revoke(t, g)
      PROVE  Inv' /\ Grows
  <2> DEFINE late == [NoCall EXCEPT !.op = "revoke", !.at = "answer", !.grant = g,
                                  !.mark = grants[g].revoked]
             first == [NoCall EXCEPT !.op = "revoke", !.at = "set", !.grant = g]
  <2> g \in Nat /\ NoCall \in TaskRecords
    BY Rows, Constants DEF Inv
  <2>1. RowsKept
    BY <1>4, QuietSteps
  <2>2. CASE grants[g].revoked # NoTask
    <3>1. grants[g].revoked \in Tasks \cup {NoTask}
      BY Rows DEF Inv, Grants
    <3>2. late \in TaskRecords /\ call' = [call EXCEPT ![t] = late]
      BY <1>4, <2>2, <3>1 DEF Revoke, TaskRecords
    <3>3. call'[t] = late => PlaceInv(t)' /\ TaskInv(t)'
      BY <2>1, <2>2 DEF PlaceInv, TaskInv, RowsKept, NoCall
    <3> HIDE DEF late
    <3> QED
      BY <2>1, <3>2, <3>3, QuietMoves, KeptGrows
  <2>3. CASE grants[g].revoked = NoTask
    <3>1. first \in TaskRecords /\ call' = [call EXCEPT ![t] = first]
      BY <1>4, <2>3 DEF Revoke, TaskRecords
    <3>2. call'[t] = first => PlaceInv(t)' /\ TaskInv(t)'
      BY <2>1 DEF PlaceInv, TaskInv, RowsKept, NoCall
    <3> HIDE DEF first
    <3> QED
      BY <2>1, <3>1, <3>2, QuietMoves, KeptGrows
  <2> QED
    BY <2>2, <2>3
<1> QED
  BY <1>1, <1>2, <1>3, <1>4

LEMMA ViewSteps ==
    ASSUME BoundsAssumption, Inv, NEW t \in Tasks,
           CountIssued(t) \/ Answer(t) \/ \E g \in DOMAIN grants : View(t, g)
    PROVE  Inv' /\ Grows
<1> USE DEF CallAt
<1>1. CASE CountIssued(t)
  <2> DEFINE base == call[t].base
             r == [call[t] EXCEPT !.shown = Available(base), !.at = "answer"]
  <2>1. /\ call[t] \in TaskRecords /\ call[t].op = "view" /\ call[t].at = "count"
        /\ call[t].grant \in DOMAIN grants /\ BaseInv(t)
    BY <1>1 DEF CountIssued, Inv, PlaceInv, TaskInv
  <2>2. RowsKept
    BY <1>1, QuietSteps
  <2>3. Available(base) \in BOOLEAN
    BY <2>1 DEF Available, TaskRecords, Policies
  <2>4. r \in TaskRecords /\ call' = [call EXCEPT ![t] = r]
    BY <1>1, <2>1, <2>3 DEF CountIssued, TaskRecords
  <2>5. Available(base) => /\ base.version > 0 /\ base.enabled
                           /\ \E c \in base.ids : NotDraft(c)
    BY DEF Available, Effective, NotDraft
  <2>6. call'[t] = r => BaseInv(t)'
    BY <2>1, <2>2 DEF BaseInv, RowsKept, NotDraft, TaskRecords
  <2>7. call'[t] = r => \A c : NotDraft(c)' <=> NotDraft(c)
    BY <2>2 DEF RowsKept, NotDraft
  <2>8. call'[t] = r => PlaceInv(t)' /\ TaskInv(t)'
    <3> HAVE call'[t] = r
    <3>1. /\ r.op = "view" /\ r.at = "answer" /\ r.grant = call[t].grant /\ r.base = base
          /\ r.shown = Available(base)
      BY <2>1 DEF TaskRecords
    <3> HIDE DEF r
    <3>2. PlaceInv(t)'
      BY <3>1 DEF PlaceInv
    <3>3. TaskInv(t)'
      BY <2>1, <2>2, <2>5, <2>6, <2>7, <3>1 DEF TaskInv, RowsKept
    <3> QED
      BY <3>2, <3>3
  <2>9. Inv'
    BY <2>2, <2>4, <2>8, QuietMoves
  <2> QED
    BY <2>2, <2>9, KeptGrows
<1>2. CASE Answer(t)
  <2>1. RowsKept
    BY <1>2, QuietSteps
  <2>2. NoCall \in TaskRecords /\ call' = [call EXCEPT ![t] = NoCall]
    BY <1>2, Constants DEF Answer, End
  <2>3. Inv'
    BY <2>1, <2>2, IdleRelies, QuietMoves
  <2> QED
    BY <2>1, <2>3, KeptGrows
<1>3. ASSUME NEW g \in DOMAIN grants, View(t, g)
      PROVE  Inv' /\ Grows
  <2> DEFINE r == [NoCall EXCEPT !.op = "view", !.at = "count", !.grant = g, !.base = policies[g]]
  <2>1. RowsKept
    BY <1>3, QuietSteps
  <2>2. GrantInv(g) /\ policies[g] \in Policies /\ Len(intents[g]) \in Nat
    BY Rows DEF Inv
  <2> g \in Nat /\ NoCall \in TaskRecords
    BY Rows, Constants DEF Inv
  <2>3. r \in TaskRecords /\ call' = [call EXCEPT ![t] = r]
    BY <1>3, <2>2 DEF View, TaskRecords
  <2>4. call'[t] = r => BaseInv(t)'
    BY <2>1, <2>2 DEF BaseInv, GrantInv, RowsKept, NotDraft, NoCall
  <2>5. call'[t] = r => PlaceInv(t)' /\ TaskInv(t)'
    BY <2>1, <2>4 DEF PlaceInv, TaskInv, RowsKept, NoCall
  <2>6. Inv'
    BY <2>1, <2>3, <2>5, QuietMoves
  <2> QED
    BY <2>1, <2>6, KeptGrows
<1> QED
  BY <1>1, <1>2, <1>3

LEMMA ReplaceBegins ==
    ASSUME BoundsAssumption, Inv, NEW t \in Tasks, NEW g \in DOMAIN grants,
           NEW request \in Intents, Replace(t, g, request)
    PROVE  Inv' /\ Grows
<1> DEFINE r == [NoCall EXCEPT !.op = "replace", !.at = "validate", !.grant = g,
                             !.request = request, !.base = policies[g]]
<1> g \in Nat /\ NoCall \in TaskRecords
  BY Rows, Constants DEF Inv
<1>1. RowsKept
  BY QuietSteps
<1>2. GrantInv(g) /\ policies[g] \in Policies /\ Len(intents[g]) \in Nat
  BY Rows DEF Inv
<1>3. r \in TaskRecords /\ call' = [call EXCEPT ![t] = r]
  BY <1>2 DEF Replace, TaskRecords
<1>4. call'[t] = r => BaseInv(t)'
  BY <1>1, <1>2 DEF BaseInv, GrantInv, RowsKept, NotDraft, NoCall
<1>5. call'[t] = r => PlaceInv(t)' /\ TaskInv(t)'
  BY <1>1, <1>4 DEF PlaceInv, TaskInv, RowsKept, NoCall
<1>6. Inv'
  BY <1>1, <1>3, <1>5, QuietMoves
<1> QED
  BY <1>1, <1>6, KeptGrows

\* What is added was found issued and what was there had been: a request that
\* is let through selects no draft.
LEMMA ValidateStep ==
    ASSUME BoundsAssumption, Inv, NEW t \in Tasks, Validate(t)
    PROVE  Inv' /\ Grows
<1> DEFINE base == call[t].base
           request == call[t].request
           same == [call[t] EXCEPT !.version = base.version, !.at = "answer"]
           next == [call[t] EXCEPT !.at = "write"]
<1>1. RowsKept
  BY QuietSteps
<1>2. /\ call[t] \in TaskRecords /\ call[t].op = "replace" /\ call[t].at = "validate"
      /\ ~call[t].shown /\ call[t].grant \in DOMAIN grants /\ BaseInv(t)
  BY DEF Validate, CallAt, Inv, PlaceInv, TaskInv
<1>3. \A c : NotDraft(c)' <=> NotDraft(c)
  BY <1>1 DEF RowsKept, NotDraft
<1>4. CASE ~Authorizable(request.ids \ base.ids)
  <2>1. NoCall \in TaskRecords /\ call' = [call EXCEPT ![t] = NoCall]
    BY <1>4, Constants DEF Validate, End
  <2> QED
    BY <1>1, <2>1, IdleRelies, QuietMoves, KeptGrows
<1>5. CASE Authorizable(request.ids \ base.ids) /\ Unchanged(base, request)
  <2>1. same \in TaskRecords /\ call' = [call EXCEPT ![t] = same]
    BY <1>2, <1>5 DEF Validate, TaskRecords, Policies
  <2>2. base.version \in DOMAIN intents[call[t].grant]
        /\ intents[call[t].grant][base.version] = request
    <3>1. request \in Intents /\ base.version > 0 /\ IntentOf(base) = request
      BY <1>2, <1>5 DEF TaskRecords, Unchanged, IntentOf, Intents
    <3>2. /\ DOMAIN intents[call[t].grant] = 1..Len(intents[call[t].grant])
          /\ Len(intents[call[t].grant]) \in Nat
      BY <1>2, Rows DEF Inv
    <3> QED
      BY <1>2, <3>1, <3>2 DEF BaseInv
  <2>3. /\ same.op = "replace" /\ same.at = "answer" /\ same.grant = call[t].grant
        /\ same.base = base /\ same.request = request /\ same.version = base.version
        /\ ~same.shown
    BY <1>2 DEF TaskRecords
  <2> HIDE DEF same
  <2>4. call'[t] = same => BaseInv(t)'
    BY <1>1, <1>2, <1>3, <2>3 DEF BaseInv, RowsKept
  <2>5. call'[t] = same => PlaceInv(t)' /\ TaskInv(t)'
    BY <1>1, <1>2, <2>2, <2>3, <2>4 DEF PlaceInv, TaskInv, RowsKept
  <2> QED
    BY <1>1, <2>1, <2>5, QuietMoves, KeptGrows
<1>6. CASE Authorizable(request.ids \ base.ids) /\ ~Unchanged(base, request)
  <2>1. next \in TaskRecords /\ call' = [call EXCEPT ![t] = next]
    BY <1>2, <1>6 DEF Validate, Go, TaskRecords
  <2>2. \A c \in request.ids : NotDraft(c)
    BY <1>2, <1>6 DEF Authorizable, BaseInv, NotDraft
  <2>3. /\ next.op = "replace" /\ next.at = "write" /\ next.grant = call[t].grant
        /\ next.base = base /\ next.request = request /\ ~next.shown
    BY <1>2 DEF TaskRecords
  <2> HIDE DEF next
  <2>4. call'[t] = next => BaseInv(t)'
    BY <1>1, <1>2, <1>3, <2>3 DEF BaseInv, RowsKept
  <2>5. call'[t] = next => PlaceInv(t)' /\ TaskInv(t)'
    BY <1>1, <1>2, <1>3, <2>2, <2>3, <2>4 DEF PlaceInv, TaskInv, RowsKept
  <2> QED
    BY <1>1, <2>1, <2>5, QuietMoves, KeptGrows
<1> QED
  BY <1>4, <1>5, <1>6

LEMMA WriteStep ==
    ASSUME BoundsAssumption, Inv, NEW t \in Tasks, Write(t)
    PROVE  Inv' /\ Grows
<1>1. CASE Refused(t)
  <2>1. RowsKept
    BY <1>1, QuietSteps
  <2>2. NoCall \in TaskRecords /\ call' = [call EXCEPT ![t] = NoCall]
    BY <1>1, Constants DEF Write, Refused, End
  <2> QED
    BY <2>1, <2>2, IdleRelies, QuietMoves, KeptGrows
<1>2. CASE ~Refused(t)
  <2> DEFINE version == Len(intents[call[t].grant]) + 1
             r == [call[t] EXCEPT !.version = version, !.at = "answer"]
  <2>0. PICK g : g = call[t].grant
    OBVIOUS
  <2>00. PICK request : request = call[t].request
    OBVIOUS
  <2>1. /\ SharingTypeOK' /\ Grows /\ grants' = grants /\ g \in DOMAIN grants
        /\ \A h \in DOMAIN grants \ {g} :
             intents'[h] = intents[h] /\ policies'[h] = policies[h]
        /\ Len(intents'[g]) = Len(intents[g]) + 1
        /\ intents'[g][Len(intents[g]) + 1] = request
        /\ policies'[g].version = Len(intents[g]) + 1
        /\ IntentOf(policies'[g]) = request
        /\ call' = [call EXCEPT ![t].version = Len(intents[g]) + 1, ![t].at = "answer"]
        /\ Len(intents[g]) + 1 \in 0..MaxVersions
    BY <1>2, <2>0, <2>00, WriteGrows
  <2>2. /\ call[t] \in TaskRecords /\ call[t].op = "replace" /\ call[t].at = "write"
        /\ ~call[t].shown /\ request \in Intents /\ \A c \in request.ids : NotDraft(c)
        /\ BaseInv(t)
    BY <2>00 DEF Write, CallAt, Inv, PlaceInv, TaskInv, TaskRecords
  <2>3. /\ r \in TaskRecords /\ call' = [call EXCEPT ![t] = r]
        /\ r.op = "replace" /\ r.at = "answer" /\ r.grant = g /\ r.request = request
        /\ r.version = version /\ ~r.shown /\ r.base = call[t].base
    BY <2>0, <2>00, <2>1, <2>2 DEF TaskRecords
  <2>4. request.ids \subseteq Credentials /\ \A c \in request.ids : NotDraft(c)'
    BY <2>1, <2>2 DEF Grows, Intents
  <2>5. GrantInv(g)'
    <3>1. policies'[g].ids = request.ids
      BY <2>1 DEF IntentOf
    <3> QED
      BY <2>1, <2>4, <3>1 DEF GrantInv, IntentOf
  <2>6. \A h \in DOMAIN grants' : GrantInv(h)'
    BY <2>1, <2>5, GrantKept
  <2>7. version \in DOMAIN intents'[g] /\ intents'[g][version] = request
    BY <2>0, <2>1, Rows, RowsNext DEF Inv
  <2>8. call'[t] = r => BaseInv(t)'
    <3>1. /\ DOMAIN intents'[g] = 1..Len(intents'[g]) /\ DOMAIN intents[g] = 1..Len(intents[g])
          /\ Len(intents'[g]) \in Nat /\ Len(intents[g]) \in Nat
      BY <2>1, Rows, RowsNext DEF Inv
    <3> DEFINE base == call[t].base
    <3>2. /\ base.version \in 0..Len(intents[g]) /\ base.ids \subseteq Credentials
          /\ base.version > 0 => IntentOf(base) = intents[g][base.version]
          /\ \A c \in base.ids : NotDraft(c)
      BY <2>0, <2>2 DEF BaseInv, TaskRecords, Policies
    <3>3. /\ base.version \in 0..Len(intents'[g])
          /\ base.version > 0 => IntentOf(base) = intents'[g][base.version]
          /\ \A c \in base.ids : NotDraft(c)'
      BY <2>1, <3>1, <3>2 DEF Grows
    <3> HIDE DEF r
    <3> HAVE call'[t] = r
    <3>4. call'[t].base = base /\ call'[t].grant = g
      BY <2>3
    <3> QED
      BY <3>3, <3>4 DEF BaseInv, IntentOf
  <2>9. call'[t] = r => PlaceInv(t)' /\ TaskInv(t)'
    <3> HIDE DEF r
    <3> HAVE call'[t] = r
    <3>1. /\ call'[t].op = "replace" /\ call'[t].at = "answer" /\ call'[t].grant = g
          /\ call'[t].request = request /\ call'[t].version = version /\ ~call'[t].shown
      BY <2>3
    <3>2. PlaceInv(t)'
      BY <3>1 DEF PlaceInv
    <3>3. call'[t].version \in DOMAIN intents'[g] /\ intents'[g][call'[t].version] = request
      BY <2>7, <3>1
    <3>4. TaskInv(t)'
      BY <2>1, <2>8, <3>1, <3>3 DEF TaskInv
    <3> QED
      BY <3>2, <3>4
  <2> HIDE DEF r
  <2> QED
    BY <2>1, <2>3, <2>6, <2>9, Moves
<1> QED
  BY <1>1, <1>2

-----------------------------------------------------------------------------
(* The theorems of part 1.                                                  *)

LEMMA InitInv ==
    ASSUME BoundsAssumption, SharingInit
    PROVE  Inv
<1>1. << >> \in Seq(Grants) /\ << >> \in Seq(Policies) /\ << >> \in Seq(Seq(Intents))
      /\ Len(<< >>) = 0 /\ DOMAIN << >> = {}
  BY EmptySeq
<1>2. SharingTypeOK
  BY <1>1, Constants DEF SharingInit, SharingTypeOK
<1>3. call \in [Tasks -> TaskRecords] /\ \A t \in Tasks : call[t] = NoCall
  BY Constants DEF SharingInit
<1>4. \A t \in Tasks : PlaceInv(t) /\ TaskInv(t)
  BY <1>3 DEF PlaceInv, TaskInv, NoCall
<1> QED
  BY <1>1, <1>2, <1>3, <1>4 DEF Inv, SharingInit

LEMMA NextInv ==
    ASSUME SetsAssumption, BoundsAssumption, Inv, [SharingNext]_sharingVars
    PROVE  Inv' /\ [Grows]_sharingVars
<1>1. NoTask \notin Tasks
  BY DEF SetsAssumption
<1>2. CASE ChangeKey \/ CreateShare
  BY <1>2, AroundSteps
<1>3. ASSUME NEW c \in Credentials, CredentialChanges(c)
      PROVE  Inv' /\ Grows
  BY <1>3, AroundSteps
<1>4. ASSUME NEW g \in DOMAIN grants, Expire(g)
      PROVE  Inv' /\ Grows
  BY <1>4, AroundSteps
<1>5. ASSUME NEW t \in Tasks, Serve(t)
      PROVE  Inv' /\ Grows
  <2>1. CASE SetRevoked(t) \/ ReadRevoked(t)
    BY <1>1, <2>1, RevokeSteps
  <2>2. CASE CountIssued(t) \/ Answer(t)
    BY <2>2, ViewSteps
  <2>3. CASE Validate(t)
    BY <2>3, ValidateStep
  <2>4. CASE Write(t)
    BY <2>4, WriteStep
  <2> QED
    BY <1>5, <2>1, <2>2, <2>3, <2>4 DEF Serve
<1>6. ASSUME NEW t \in Tasks, NEW g \in DOMAIN grants,
             RecoverLink(t, g) \/ Revoke(t, g) \/ View(t, g)
      PROVE  Inv' /\ Grows
  <2>1. CASE RecoverLink(t, g) \/ Revoke(t, g)
    BY <1>1, <2>1, RevokeSteps
  <2>2. CASE View(t, g)
    BY <2>2, ViewSteps
  <2> QED
    BY <1>6, <2>1, <2>2
<1>7. ASSUME NEW t \in Tasks, NEW g \in DOMAIN grants, NEW request \in Intents,
             Replace(t, g, request)
      PROVE  Inv' /\ Grows
  BY <1>7, ReplaceBegins
<1>8. CASE UNCHANGED sharingVars
  <2>1. RowsKept /\ call' = call
    BY <1>8 DEF sharingVars, RowsKept
  <2>2. SharingTypeOK' /\ Grows
    BY <2>1, KeptGrows
  <2>3. \A g \in DOMAIN grants' : GrantInv(g)'
    BY <2>1, <2>2, GrantKept DEF RowsKept
  <2> QED
    BY <1>8, <2>1, <2>2, <2>3, Around
<1> QED
  BY <1>2, <1>3, <1>4, <1>5, <1>6, <1>7, <1>8 DEF SharingNext

\* The inductive invariant of any requests that overlap: rows and requests
\* agree about the intents of the holder.
THEOREM SharingSafe ==
    ASSUME SetsAssumption, BoundsAssumption
    PROVE  SharingSpec => []Inv
<1>1. SharingInit => Inv
  BY InitInv
<1>2. Inv /\ [SharingNext]_sharingVars => Inv'
  BY NextInv
<1> QED
  BY <1>1, <1>2, PTL DEF SharingSpec

\* Nothing the rows say is taken back: an issued credential is not a draft
\* again, a revocation keeps its time and an intent its version.
THEOREM SharingOnlyGrows ==
    ASSUME SetsAssumption, BoundsAssumption
    PROVE  SharingSpec => [][Grows]_sharingVars
<1>1. Inv /\ [SharingNext]_sharingVars => [Grows]_sharingVars
  BY NextInv
<1> QED
  BY <1>1, SharingSafe, PTL DEF SharingSpec

\* A link that was revoked stays revoked since the time it was, whoever
\* revokes it again (revokeForUser).
THEOREM RevocationHolds ==
    ASSUME SetsAssumption, BoundsAssumption
    PROVE  SharingSpec => RevocationIsOnce
<1>1. [Grows]_sharingVars => [\A g \in DOMAIN grants : grants[g].revoked # NoTask =>
                          grants'[g].revoked = grants[g].revoked]_sharingVars
  BY DEF Grows
<1> QED
  BY <1>1, SharingOnlyGrows, PTL DEF RevocationIsOnce

\* However many requests overlap, the policy of a link is the last intent of
\* its holder, whole (replaceForShare).
THEOREM LastIntentHolds ==
    ASSUME SetsAssumption, BoundsAssumption
    PROVE  SharingSpec => []PolicyIsLastIntent
<1>1. Inv => PolicyIsLastIntent
  BY DEF Inv, GrantInv, PolicyIsLastIntent, IntentOf
<1> QED
  BY <1>1, SharingSafe, PTL

\* A version is one intent of the holder, and a request is answered with the
\* version that says what it asked for (replaceForShare).
THEOREM VersionsHold ==
    ASSUME SetsAssumption, BoundsAssumption
    PROVE  SharingSpec => []VersionNamesOneIntent
<1>1. Inv => VersionNamesOneIntent
  BY DEF Inv, GrantInv, TaskInv, VersionNamesOneIntent, CallAt
<1> QED
  BY <1>1, SharingSafe, PTL

\* No draft is in a policy, although a selection is checked outside the
\* transaction that writes it (assertAllAuthorizable).
THEOREM SelectionHolds ==
    ASSUME SetsAssumption, BoundsAssumption
    PROVE  SharingSpec => []SelectedWereIssued
<1>1. Inv => SelectedWereIssued
  BY DEF Inv, GrantInv, SelectedWereIssued, NotDraft
<1> QED
  BY <1>1, SharingSafe, PTL

\* The public reader announces verification only under a version that its
\* holder had enabled over some issued credential, although it reads the
\* policy and counts in two queries (contextualVerificationAvailable).
THEOREM ConsentHolds ==
    ASSUME SetsAssumption, BoundsAssumption
    PROVE  SharingSpec => []AnnouncedWasConsented
<1>1. ASSUME Inv, NEW t \in Tasks, CallAt(t, "answer"), call[t].shown
      PROVE  LET g == call[t].grant
                 v == call[t].base.version IN
             /\ v \in DOMAIN intents[g] /\ intents[g][v].enabled
             /\ \E c \in intents[g][v].ids : NotDraft(c)
  <2> DEFINE g == call[t].grant
             base == call[t].base
  <2>1. /\ g \in DOMAIN grants /\ BaseInv(t) /\ base.version > 0 /\ base.enabled
        /\ \E c \in base.ids : NotDraft(c)
    BY <1>1 DEF Inv, TaskInv, PlaceInv, CallAt
  <2>2. DOMAIN intents[g] = 1..Len(intents[g]) /\ Len(intents[g]) \in Nat
    BY <1>1, <2>1, Rows DEF Inv
  <2>3. base.version \in DOMAIN intents[g] /\ intents[g][base.version] = IntentOf(base)
    BY <2>1, <2>2 DEF BaseInv
  <2> QED
    BY <2>1, <2>3 DEF IntentOf
<1>2. Inv => AnnouncedWasConsented
  BY <1>1 DEF AnnouncedWasConsented, NotDraft
<1> QED
  BY <1>2, SharingSafe, PTL

\* Every request that revokes a link is answered with the time that is kept,
\* although each reads, compares, sets and reads again (revokeForUser).
THEOREM RevocationsHold ==
    ASSUME SetsAssumption, BoundsAssumption
    PROVE  SharingSpec => []RevocationsAgree
<1>1. Inv => RevocationsAgree
  BY DEF Inv, TaskInv, RevocationsAgree, CallAt
<1> QED
  BY <1>1, SharingSafe, PTL

\* What a link shares is what its holder asked for last, announced under the
\* versions that allowed it and revoked once: all of it together.
THEOREM SharingHolds ==
    ASSUME SetsAssumption, BoundsAssumption
    PROVE  SharingSpec => SharingFollowsIntent
BY LastIntentHolds, VersionsHold, SelectionHolds, ConsentHolds, RevocationsHold,
   RevocationHolds, PTL DEF SharingFollowsIntent

(***************************************************************************)
(* PART 2.  When requests come one after the other, what a request read of *)
(* the policy is still the policy when it writes: the version moves only   *)
(* with the intent, and the marks of a policy are of its last change.      *)
(***************************************************************************)

OneByOne == \A t, u \in Tasks : t = u

MovesInv(g) == \A v \in 2..Len(intents[g]) : intents[g][v] # intents[g][v - 1]

MarksInv(g) ==
    /\ policies[g].enabledAt = LastFlip(intents[g], TRUE)
    /\ policies[g].disabledAt = LastFlip(intents[g], FALSE)

\* What was read is current, and what is written is not what is there.
CurrentInv(t) ==
    /\ call[t].at \in {"validate", "write"} => call[t].base = policies[call[t].grant]
    /\ call[t].at = "write" => ~Unchanged(call[t].base, call[t].request)

SerialInv ==
    /\ Inv
    /\ \A g \in DOMAIN grants : MovesInv(g) /\ MarksInv(g)
    /\ \A t \in Tasks : CurrentInv(t)

\* The greatest of a set, when there is one.
LEMMA Greatest ==
    ASSUME NEW F \in SUBSET Nat, NEW n \in F, \A w \in F : w <= n
    PROVE  (CHOOSE v \in F : \A w \in F : w <= v) = n
<1>1. ASSUME NEW v \in F, \A w \in F : w <= v
      PROVE  v = n
  <2>1. v \in Nat /\ n \in Nat /\ n <= v /\ v <= n
    BY <1>1
  <2> QED
    BY <2>1
<1> QED
  BY <1>1

\* An intent more is the last change where it changes the state.
LEMMA FlipOfAppend ==
    ASSUME NEW log \in Seq(Intents), NEW r \in Intents, NEW on,
           NEW next \in Seq(Intents), Len(next) = Len(log) + 1,
           next[Len(log) + 1] = r,
           \A v \in DOMAIN log : v \in DOMAIN next /\ next[v] = log[v]
    PROVE  LastFlip(next, on) =
             IF r.enabled = on /\ (Len(log) = 0 \/ log[Len(log)].enabled # on)
             THEN Len(log) + 1 ELSE LastFlip(log, on)
<1> DEFINE n == Len(log) + 1
           changes == r.enabled = on /\ (Len(log) = 0 \/ log[Len(log)].enabled # on)
<1>1. /\ DOMAIN log = 1..Len(log) /\ Len(log) \in Nat
      /\ DOMAIN next = 1..n /\ n \in DOMAIN next
  BY LenProperties
<1>2. \A v \in DOMAIN log : v \in Flips(next, on) <=> v \in Flips(log, on)
  BY <1>1 DEF Flips
<1>3. n \in Flips(next, on) <=> changes
  BY <1>1 DEF Flips
<1>4. Flips(next, on) \subseteq DOMAIN next /\ Flips(log, on) \subseteq DOMAIN log
  BY DEF Flips
<1>5. CASE changes
  <2>1. /\ Flips(next, on) \in SUBSET Nat /\ n \in Flips(next, on)
        /\ \A w \in Flips(next, on) : w <= n
    BY <1>1, <1>3, <1>4, <1>5
  <2> HIDE DEF n, changes
  <2>2. (CHOOSE v \in Flips(next, on) : \A w \in Flips(next, on) : w <= v) = n
    BY <2>1, Greatest
  <2>3. LastFlip(next, on) = n
    BY <2>1, <2>2 DEF LastFlip
  <2> QED
    BY <1>5, <2>3 DEF n, changes
<1>6. CASE ~changes
  <2>1. \A v \in Flips(next, on) : v \in DOMAIN log
    BY <1>1, <1>3, <1>4, <1>6
  <2> HIDE DEF n, changes
  <2>3. Flips(next, on) = Flips(log, on)
    BY <1>2, <1>4, <2>1
  <2>2. LastFlip(next, on) = LastFlip(log, on)
    BY <2>3 DEF LastFlip
  <2> QED
    BY <1>6, <2>2 DEF changes
<1> QED
  BY <1>5, <1>6

LEMMA NoFlips == \A on : LastFlip(<< >>, on) = 0
<1>1. ASSUME NEW on
      PROVE  Flips(<< >>, on) = {}
  BY DEF Flips
<1> QED
  BY <1>1 DEF LastFlip

\* A step that writes no policy leaves what requests read of them current.
LEMMA SerialKept ==
    ASSUME SerialInv, Inv', policies' = policies, intents' = intents,
           DOMAIN grants' = DOMAIN grants, \A t \in Tasks : CurrentInv(t)'
    PROVE  SerialInv'
  BY DEF SerialInv, MovesInv, MarksInv

LEMMA CurrentKept ==
    ASSUME NEW t \in Tasks, CurrentInv(t), call'[t] = call[t],
           call[t].at \in {"validate", "write"} =>
              policies'[call[t].grant] = policies[call[t].grant]
    PROVE  CurrentInv(t)'
  BY DEF CurrentInv, Unchanged

LEMMA CreateShareSerial ==
    ASSUME BoundsAssumption, SerialInv, Inv', CreateShare
    PROVE  SerialInv'
<1>1. /\ DOMAIN grants' = DOMAIN grants \cup {Len(grants) + 1}
      /\ \A g \in DOMAIN grants : policies'[g] = policies[g] /\ intents'[g] = intents[g]
      /\ policies'[Len(grants) + 1] = NoPolicy /\ intents'[Len(grants) + 1] = << >>
  BY CreateShareGrows DEF SerialInv
<1>2. \A g \in DOMAIN grants : MovesInv(g)' /\ MarksInv(g)'
  BY <1>1 DEF SerialInv, MovesInv, MarksInv
<1>3. ASSUME NEW g \in DOMAIN grants', g \notin DOMAIN grants
      PROVE  MovesInv(g)' /\ MarksInv(g)'
  <2>1. policies'[g] = NoPolicy /\ intents'[g] = << >>
    BY <1>1, <1>3
  <2>2. MovesInv(g)'
    BY <2>1 DEF MovesInv
  <2>3. LastFlip(intents'[g], TRUE) = 0 /\ LastFlip(intents'[g], FALSE) = 0
    BY <2>1, NoFlips
  <2>4. policies'[g].enabledAt = 0 /\ policies'[g].disabledAt = 0
    BY <2>1 DEF NoPolicy
  <2>5. MarksInv(g)'
    BY <2>3, <2>4, Zenon DEF MarksInv
  <2> QED
    BY <2>2, <2>5
<1>4. ASSUME NEW t \in Tasks
      PROVE  CurrentInv(t)'
  <2>1. call' = call /\ CurrentInv(t)
    BY DEF CreateShare, SerialInv
  <2>2. call[t].at \in {"validate", "write"} => call[t].grant \in DOMAIN grants
    BY DEF SerialInv, Inv, TaskInv
  <2> QED
    BY <1>1, <2>1, <2>2, CurrentKept
<1> QED
  BY <1>2, <1>3, <1>4 DEF SerialInv

\* The one request in progress writes over what it read.
LEMMA WriteSerial ==
    ASSUME BoundsAssumption, OneByOne, SerialInv, Inv', NEW t \in Tasks, Write(t)
    PROVE  SerialInv'
<1>1. PICK g : g = call[t].grant
  OBVIOUS
<1>2. PICK request : request = call[t].request
  OBVIOUS
<1>3. PICK base : base = call[t].base
  OBVIOUS
<1>4. /\ g \in DOMAIN grants /\ base = policies[g] /\ ~Unchanged(base, request)
      /\ GrantInv(g) /\ MovesInv(g) /\ MarksInv(g) /\ call[t] \in TaskRecords
      /\ request \in Intents /\ base \in Policies
      /\ intents[g] \in Seq(Intents) /\ Len(intents[g]) \in Nat
      /\ DOMAIN intents[g] = 1..Len(intents[g])
  BY <1>1, <1>2, <1>3, Rows
     DEF SerialInv, CurrentInv, Inv, TaskInv, Write, CallAt, TaskRecords
<1>5. ~Refused(t)
  BY <1>1, <1>3, <1>4 DEF Refused
<1>6. /\ grants' = grants
      /\ \A h \in DOMAIN grants \ {g} :
           intents'[h] = intents[h] /\ policies'[h] = policies[h]
      /\ Len(intents'[g]) = Len(intents[g]) + 1
      /\ intents'[g][Len(intents[g]) + 1] = request
      /\ policies'[g].enabledAt =
           Stamp(request.enabled /\ ~base.enabled, policies[g].enabledAt, Len(intents[g]) + 1)
      /\ policies'[g].disabledAt =
           Stamp(~request.enabled /\ (base.enabled \/ base.version = 0),
                 policies[g].disabledAt, Len(intents[g]) + 1)
      /\ call' = [call EXCEPT ![t].version = Len(intents[g]) + 1, ![t].at = "answer"]
      /\ \A v \in DOMAIN intents[g] : v \in DOMAIN intents'[g] /\ intents'[g][v] = intents[g][v]
  <2>1. Inv
    BY DEF SerialInv
  <2>2. /\ Grows /\ grants' = grants
        /\ \A h \in DOMAIN grants \ {g} :
             intents'[h] = intents[h] /\ policies'[h] = policies[h]
        /\ Len(intents'[g]) = Len(intents[g]) + 1
        /\ intents'[g][Len(intents[g]) + 1] = call[t].request
        /\ policies'[g].enabledAt =
             Stamp(call[t].request.enabled /\ ~call[t].base.enabled,
                   policies[g].enabledAt, Len(intents[g]) + 1)
        /\ policies'[g].disabledAt =
             Stamp(~call[t].request.enabled
                     /\ (call[t].base.enabled \/ call[t].base.version = 0),
                   policies[g].disabledAt, Len(intents[g]) + 1)
        /\ call' = [call EXCEPT ![t].version = Len(intents[g]) + 1, ![t].at = "answer"]
    BY <1>1, <1>5, <2>1, WriteGrows
  <2>3. \A v \in DOMAIN intents[g] : v \in DOMAIN intents'[g] /\ intents'[g][v] = intents[g][v]
    BY <1>4, <2>2 DEF Grows
  <2> QED
    BY <1>2, <1>3, <2>2, <2>3
<1>7. intents'[g] \in Seq(Intents)
  <2>1. intents' \in Seq(Seq(Intents)) /\ Len(intents') = Len(grants') /\ grants' \in Seq(Grants)
    BY DEF Inv, SharingTypeOK
  <2> QED
    BY <1>4, <1>6, <2>1, LenProperties, ElementOfSeq
\* What the policy says of the log it was read with.
<1>8. /\ base.version = Len(intents[g])
      /\ Len(intents[g]) = 0 => ~base.enabled
      /\ Len(intents[g]) > 0 => base.enabled = intents[g][Len(intents[g])].enabled
  BY <1>4 DEF GrantInv, IntentOf
<1>9. MovesInv(g)'
  <2>1. Len(intents[g]) > 0 => intents[g][Len(intents[g])] # request
    BY <1>4 DEF GrantInv, IntentOf, Unchanged
  <2>2. ASSUME NEW v \in 2..Len(intents'[g])
        PROVE  intents'[g][v] # intents'[g][v - 1]
    <3>1. CASE v = Len(intents[g]) + 1
      BY <1>4, <1>6, <2>1, <2>2, <3>1
    <3>2. CASE v # Len(intents[g]) + 1
      <4>1. v \in 2..Len(intents[g]) /\ v - 1 \in DOMAIN intents[g] /\ v \in DOMAIN intents[g]
        BY <1>4, <1>6, <2>2, <3>2
      <4> QED
        BY <1>4, <1>6, <4>1 DEF MovesInv
    <3> QED
      BY <3>1, <3>2
  <2> QED
    BY <2>2 DEF MovesInv
<1>10. MarksInv(g)'
  <2>0. PICK log, next : log = intents[g] /\ next = intents'[g]
    OBVIOUS
  <2>1. ASSUME NEW on
        PROVE  LastFlip(next, on) =
                 IF request.enabled = on /\ (Len(log) = 0 \/ log[Len(log)].enabled # on)
                 THEN Len(log) + 1 ELSE LastFlip(log, on)
    <3>1. /\ log \in Seq(Intents) /\ next \in Seq(Intents) /\ Len(next) = Len(log) + 1
          /\ next[Len(log) + 1] = request
          /\ \A v \in DOMAIN log : v \in DOMAIN next /\ next[v] = log[v]
      BY <1>4, <1>6, <1>7, <2>0
    <3> QED
      BY <1>4, <3>1, FlipOfAppend
  <2>2. request.enabled \in BOOLEAN /\ base.enabled \in BOOLEAN
    BY <1>4 DEF Intents, Policies
  <2>3. /\ policies[g].enabledAt = LastFlip(intents[g], TRUE)
        /\ policies[g].disabledAt = LastFlip(intents[g], FALSE)
    BY <1>4, Zenon DEF MarksInv
  <2>4. policies'[g].enabledAt = LastFlip(intents'[g], TRUE)
    <3>0. PICK on : on = TRUE
      OBVIOUS
    <3>1. PICK old, new : old = LastFlip(log, on) /\ new = LastFlip(next, on)
      OBVIOUS
    <3>2. new = IF request.enabled = on /\ (Len(log) = 0 \/ log[Len(log)].enabled # on)
                THEN Len(log) + 1 ELSE old
      BY <2>1, <3>1
    <3>3. policies[g].enabledAt = old /\ log = intents[g]
      BY <2>0, <2>3, <3>0, <3>1, Zenon
    <3>4. (request.enabled = on /\ (Len(log) = 0 \/ log[Len(log)].enabled # on))
            <=> request.enabled /\ ~base.enabled
      <4>1. Len(log) \in Nat /\ base.version = Len(log)
        BY <1>4, <1>8, <3>3
      <4>2. Len(log) = 0 => ~base.enabled
        BY <1>8, <3>3
      <4>3. Len(log) # 0 => log[Len(log)].enabled = base.enabled
        BY <1>8, <3>3, <4>1
      <4> QED
        BY <2>2, <3>0, <4>1, <4>2, <4>3
    <3>5. policies'[g].enabledAt = IF request.enabled /\ ~base.enabled THEN Len(log) + 1 ELSE old
      BY <1>6, <3>3 DEF Stamp
    <3>6. policies'[g].enabledAt = new
      BY <3>2, <3>4, <3>5, Zenon
    <3> QED
      BY <2>0, <3>0, <3>1, <3>6, Zenon
  <2>5. policies'[g].disabledAt = LastFlip(intents'[g], FALSE)
    <3>0. PICK on : on = FALSE
      OBVIOUS
    <3>1. PICK old, new : old = LastFlip(log, on) /\ new = LastFlip(next, on)
      OBVIOUS
    <3>2. new = IF request.enabled = on /\ (Len(log) = 0 \/ log[Len(log)].enabled # on)
                THEN Len(log) + 1 ELSE old
      BY <2>1, <3>1
    <3>3. policies[g].disabledAt = old /\ log = intents[g]
      BY <2>0, <2>3, <3>0, <3>1, Zenon
    <3>4. (request.enabled = on /\ (Len(log) = 0 \/ log[Len(log)].enabled # on))
            <=> ~request.enabled /\ (base.enabled \/ base.version = 0)
      <4>1. Len(log) \in Nat /\ base.version = Len(log)
        BY <1>4, <1>8, <3>3
      <4>2. Len(log) = 0 => ~base.enabled
        BY <1>8, <3>3
      <4>3. Len(log) # 0 => log[Len(log)].enabled = base.enabled
        BY <1>8, <3>3, <4>1
      <4> QED
        BY <2>2, <3>0, <4>1, <4>2, <4>3
    <3>5. policies'[g].disabledAt =
            IF ~request.enabled /\ (base.enabled \/ base.version = 0) THEN Len(log) + 1 ELSE old
      BY <1>6, <3>3 DEF Stamp
    <3>6. policies'[g].disabledAt = new
      BY <3>2, <3>4, <3>5, Zenon
    <3> QED
      BY <2>0, <3>0, <3>1, <3>6, Zenon
  <2> QED
    BY <2>4, <2>5, Zenon DEF MarksInv
<1>11. ASSUME NEW h \in DOMAIN grants \ {g}
       PROVE  MovesInv(h)' /\ MarksInv(h)'
  <2>1. intents'[h] = intents[h] /\ policies'[h] = policies[h] /\ MovesInv(h) /\ MarksInv(h)
    BY <1>6 DEF SerialInv
  <2>2. MovesInv(h)'
    BY <2>1 DEF MovesInv
  <2>3. MarksInv(h)'
    BY <2>1, Zenon DEF MarksInv
  <2> QED
    BY <2>2, <2>3
<1>12. \A u \in Tasks : CurrentInv(u)'
  <2>1. \A u \in Tasks : u = t
    BY DEF OneByOne
  <2>2. call'[t].at = "answer"
    BY <1>4, <1>6 DEF TaskRecords, SerialInv, Inv
  <2> QED
    BY <2>1, <2>2 DEF CurrentInv
<1> QED
  BY <1>6, <1>9, <1>10, <1>11, <1>12 DEF SerialInv

\* Only a request that passes the check writes, and only over what changes.
LEMMA ValidateSerial ==
    ASSUME BoundsAssumption, SerialInv, Inv', NEW t \in Tasks, Validate(t)
    PROVE  SerialInv'
<1> DEFINE base == call[t].base
           request == call[t].request
<1>1. /\ UNCHANGED <<states, key, grants, policies, intents>>
      /\ call \in [Tasks -> TaskRecords] /\ call[t] \in TaskRecords
      /\ call[t].at = "validate" /\ CurrentInv(t)
  BY DEF Validate, CallAt, SerialInv, Inv
<1>2. \A u \in Tasks \ {t} : call'[u] = call[u]
  BY <1>1 DEF Validate, End, Go
<1>3. CurrentInv(t)'
  <2>1. CASE ~Authorizable(request.ids \ base.ids)
    <3>1. call'[t] = NoCall
      BY <1>1, <2>1 DEF Validate, End
    <3> QED
      BY <3>1 DEF CurrentInv, NoCall
  <2>2. CASE Authorizable(request.ids \ base.ids) /\ Unchanged(base, request)
    <3>1. call'[t].at = "answer"
      BY <1>1, <2>2 DEF Validate, TaskRecords
    <3> QED
      BY <3>1 DEF CurrentInv
  <2>3. CASE Authorizable(request.ids \ base.ids) /\ ~Unchanged(base, request)
    <3>1. /\ call'[t].base = base /\ call'[t].request = request
          /\ call'[t].grant = call[t].grant
      BY <1>1, <2>3 DEF Validate, Go, TaskRecords
    <3> QED
      BY <1>1, <2>3, <3>1 DEF CurrentInv, Unchanged
  <2> QED
    BY <2>1, <2>2, <2>3
<1>4. \A u \in Tasks : CurrentInv(u)'
  BY <1>1, <1>2, <1>3, CurrentKept DEF SerialInv
<1> QED
  BY <1>1, <1>4, SerialKept

\* What begins reads the policy that is there, and nothing else is awaited.
LEMMA ReplaceSerial ==
    ASSUME SerialInv, Inv', NEW t \in Tasks, NEW g \in DOMAIN grants,
           NEW request \in Intents, Replace(t, g, request)
    PROVE  SerialInv'
<1>1. /\ UNCHANGED <<states, key, grants, policies, intents>>
      /\ call \in [Tasks -> TaskRecords]
  BY DEF Replace, SerialInv, Inv
<1>2. /\ \A u \in Tasks \ {t} : call'[u] = call[u]
      /\ call'[t].at = "validate" /\ call'[t].grant = g /\ call'[t].base = policies[g]
  BY <1>1 DEF Replace, NoCall
<1>3. CurrentInv(t)'
  BY <1>1, <1>2 DEF CurrentInv
<1>4. \A u \in Tasks : CurrentInv(u)'
  BY <1>1, <1>2, <1>3, CurrentKept DEF SerialInv
<1> QED
  BY <1>1, <1>4, SerialKept

\* The other steps of a request leave it where nothing is to be written.
LEMMA OtherSerial ==
    ASSUME SerialInv, Inv', NEW t \in Tasks,
           \/ SetRevoked(t) \/ ReadRevoked(t) \/ CountIssued(t) \/ Answer(t)
           \/ \E g \in DOMAIN grants : RecoverLink(t, g) \/ Revoke(t, g) \/ View(t, g)
    PROVE  SerialInv'
<1>1. policies' = policies /\ intents' = intents /\ call \in [Tasks -> TaskRecords]
  BY DEF SetRevoked, ReadRevoked, CountIssued, Answer, RecoverLink, Revoke, View, SerialInv, Inv
<1>2. DOMAIN grants' = DOMAIN grants
  <2>1. CASE SetRevoked(t)
    <3>1. CASE grants' = grants
      BY <3>1
    <3>2. CASE grants' # grants
      BY <2>1, <3>2 DEF SetRevoked, Marked
    <3> QED
      BY <3>1, <3>2
  <2>2. CASE ~SetRevoked(t)
    BY <2>2 DEF ReadRevoked, CountIssued, Answer, RecoverLink, Revoke, View
  <2> QED
    BY <2>1, <2>2
<1>3. /\ \A u \in Tasks \ {t} : call'[u] = call[u]
      /\ call'[t].at \notin {"validate", "write"}
  <2>1. CASE SetRevoked(t) \/ ReadRevoked(t) \/ CountIssued(t)
    BY <1>1, <2>1 DEF SetRevoked, ReadRevoked, CountIssued, Go, TaskRecords
  <2>2. CASE Answer(t)
    BY <1>1, <2>2 DEF Answer, End, NoCall
  <2>3. ASSUME NEW g \in DOMAIN grants, RecoverLink(t, g) \/ Revoke(t, g) \/ View(t, g)
        PROVE  /\ \A u \in Tasks \ {t} : call'[u] = call[u]
               /\ call'[t].at \notin {"validate", "write"}
    <3>1. CASE RecoverLink(t, g)
      BY <1>1, <3>1 DEF RecoverLink, NoCall
    <3>2. CASE Revoke(t, g)
      BY <1>1, <3>2 DEF Revoke, NoCall
    <3>3. CASE View(t, g)
      BY <1>1, <3>3 DEF View, NoCall
    <3> QED
      BY <2>3, <3>1, <3>2, <3>3
  <2> QED
    BY <2>1, <2>2, <2>3
<1>4. \A u \in Tasks : CurrentInv(u)'
  <2>1. CurrentInv(t)'
    BY <1>3 DEF CurrentInv
  <2> QED
    BY <1>1, <1>3, <2>1, CurrentKept DEF SerialInv
<1> QED
  BY <1>1, <1>2, <1>4, SerialKept

LEMMA SerialNext ==
    ASSUME SetsAssumption, BoundsAssumption, OneByOne, SerialInv, [SharingNext]_sharingVars
    PROVE  SerialInv'
<1>1. Inv'
  BY NextInv DEF SerialInv
<1>2. CASE CreateShare
  BY <1>1, <1>2, CreateShareSerial
<1>3. ASSUME policies' = policies, intents' = intents, call' = call,
             DOMAIN grants' = DOMAIN grants
      PROVE  SerialInv'
  <2>1. \A t \in Tasks : CurrentInv(t)'
    BY <1>3, CurrentKept DEF SerialInv
  <2> QED
    BY <1>1, <1>3, <2>1, SerialKept
<1>4. CASE ChangeKey \/ UNCHANGED sharingVars
  BY <1>3, <1>4 DEF ChangeKey, sharingVars
<1>5. ASSUME NEW c \in Credentials, CredentialChanges(c)
      PROVE  SerialInv'
  BY <1>3, <1>5 DEF CredentialChanges
<1>6. ASSUME NEW g \in DOMAIN grants, Expire(g)
      PROVE  SerialInv'
  BY <1>3, <1>6, ExpireGrows DEF Expire, SerialInv
<1>7. ASSUME NEW t \in Tasks, Serve(t)
      PROVE  SerialInv'
  BY <1>1, <1>7, ValidateSerial, WriteSerial, OtherSerial DEF Serve
<1>8. ASSUME NEW t \in Tasks, NEW g \in DOMAIN grants,
             RecoverLink(t, g) \/ Revoke(t, g) \/ View(t, g)
      PROVE  SerialInv'
  BY <1>1, <1>8, OtherSerial
<1>9. ASSUME NEW t \in Tasks, NEW g \in DOMAIN grants, NEW request \in Intents,
             Replace(t, g, request)
      PROVE  SerialInv'
  BY <1>1, <1>9, ReplaceSerial
<1> QED
  BY <1>2, <1>4, <1>5, <1>6, <1>7, <1>8, <1>9 DEF SharingNext

LEMMA InitSerial ==
    ASSUME BoundsAssumption, SharingInit
    PROVE  SerialInv
<1>1. Inv /\ DOMAIN grants = {} /\ \A t \in Tasks : call[t] = NoCall
  BY InitInv DEF SharingInit
<1>2. \A t \in Tasks : CurrentInv(t)
  BY <1>1 DEF CurrentInv, NoCall
<1> QED
  BY <1>1, <1>2 DEF SerialInv

\* The inductive invariant of requests that come one after the other: what a
\* request read of the policy is the policy until it writes.
THEOREM SerialSharingSafe ==
    ASSUME SetsAssumption, BoundsAssumption, OneByOne
    PROVE  SharingSpec => []SerialInv
<1>1. SharingInit => SerialInv
  BY InitSerial
<1>2. SerialInv /\ [SharingNext]_sharingVars => SerialInv'
  BY SerialNext
<1> QED
  BY <1>1, <1>2, PTL DEF SharingSpec

\* The version moves only with the intent: what is sent again as it is leaves
\* it where it was (replaceForShare).
THEOREM VersionMoves ==
    ASSUME SetsAssumption, BoundsAssumption, OneByOne
    PROVE  SharingSpec => []VersionMovesWithIntent
<1>1. SerialInv => VersionMovesWithIntent
  BY DEF SerialInv, MovesInv, VersionMovesWithIntent
<1> QED
  BY <1>1, SerialSharingSafe, PTL

\* enabledAt and disabledAt are the last versions that turned the policy on
\* and off (replaceForShare).
THEOREM MarksHold ==
    ASSUME SetsAssumption, BoundsAssumption, OneByOne
    PROVE  SharingSpec => []MarksAreOfTheLastChange
<1>1. SerialInv => MarksAreOfTheLastChange
  BY Zenon DEF SerialInv, MarksInv, MarksAreOfTheLastChange
<1> QED
  BY <1>1, SerialSharingSafe, PTL

-----------------------------------------------------------------------------
(***************************************************************************)
(* PART 3.  The page on which a verifier uses the link (VerifierPage), for *)
(* any number of requests; its variables are those of an instance.         *)
(*                                                                         *)
(* What a late answer may do depends on what else is in progress, so the   *)
(* invariant says for every handler where its call may be awaited, what    *)
(* its answer still says of the request, and that whatever is not of the   *)
(* token kept is of a request that is gone.                                *)
(***************************************************************************)
CONSTANT MaxRequests

VARIABLES step, session, result, busy, executing, items, enabled, polling, calls, stored, blocked,
          request, link

Page == INSTANCE VerifierPage

\* A request of which a run was created: it is neither open nor gone again.
Consumed == {"processing"} \cup Page!Ended

CallNames == {"none", "profile", "session", "result", "create", "propose", "confirm", "execute"}
AnswerNames == {"none", "enabled", "disabled", "created", "consumed"} \cup Page!Statuses \cup Page!Errors

PageTypes ==
  /\ step \in {"loading", "unavailable", "objective", "requirements", "ready",
               "processing", "completed", "failed"}
  /\ session \in Page!Drafts \cup {Page!NoToken} /\ stored \in Page!Drafts \cup {Page!NoToken}
  /\ polling \in Page!Drafts \cup {Page!NoToken}
  /\ result \in [of : Page!Drafts \cup {Page!NoToken}, is : {"none"} \cup Page!Statuses]
  /\ busy \in BOOLEAN /\ executing \in BOOLEAN /\ enabled \in BOOLEAN /\ blocked \in BOOLEAN
  /\ items \in {"none", "blank", "filled"}
  /\ calls \in [Page!Makers -> [call : CallNames, at : {"idle", "sent", "working", "answered"},
                           token : Page!Drafts \cup {Page!NoToken}, answer : AnswerNames, had : BOOLEAN]]
  /\ request \in [Page!Drafts -> Page!Statuses]
  /\ link \in {"open", "disabled", "revoked"}

\* The calls each handler makes.
CallsOf(m) ==
  CASE m = "load" -> {"profile", "session", "result"}
    [] m = "start" -> {"create", "propose"}
    [] m = "confirm" -> {"confirm"}
    [] m = "run" -> {"execute", "result"}
    [] m = "poll" -> {"result"}

\* What a call is answered.
AnswersTo(asked) ==
  CASE asked = "profile" -> {"enabled", "disabled", "fatal", "other"}
    [] asked = "session" -> Page!Open \cup {"consumed"} \cup Page!Errors
    [] asked = "result" -> Page!Open \cup Consumed \cup Page!Errors
    [] asked = "create" -> {"created", "fatal", "other"}
    [] asked = "propose" -> {"proposed", "confirmed"} \cup Page!Errors
    [] asked = "confirm" -> {"confirmed"} \cup Page!Errors
    [] asked = "execute" -> Consumed \cup Page!Errors

CallShape ==
  \A m \in Page!Makers :
    LET c == calls[m] IN
    \/ c = Page!NoCall
    \/ /\ c.call \in CallsOf(m) /\ c.at \in {"sent", "working", "answered"}
       /\ c.at = "answered" => c.answer \in AnswersTo(c.call)
       /\ c.at # "answered" => c.answer = "none"
       /\ c.at = "working" => m = "run" /\ c.call = "execute"
       /\ c.call = "profile" => c.token = Page!NoToken
       /\ c.call = "create" /\ c.at # "answered" => c.token = Page!NoToken
       /\ c.call = "create" /\ c.answer = "created" => c.token # Page!NoToken
       /\ c.call \notin {"profile", "create"} => c.token # Page!NoToken

\* A token is of a request the API created.
TokensExist ==
  /\ stored # Page!NoToken => request[stored] # "absent"
  /\ \A m \in Page!Makers : calls[m].token # Page!NoToken => request[calls[m].token] # "absent"

\* What was answered of a run is still so.
AnswersHold ==
  \A m \in Page!Makers :
    LET c == calls[m] IN
    /\ c.answer \in Consumed => request[c.token] \in Consumed
    /\ c.answer = "completed" => request[c.token] = "completed"
    /\ c.answer = "lost" => request[c.token] = "gone"
    /\ m = "run" /\ c.answer \in Page!Open => request[c.token] \notin Consumed
    /\ m = "poll" /\ c.answer \in Page!Open => session # Page!NoToken

LoadsAlone ==
  /\ calls["load"] # Page!NoCall => step = "loading"
  /\ step = "loading" =>
       /\ \A m \in Page!Makers \ {"load"} : calls[m] = Page!NoCall
       /\ session = Page!NoToken /\ result = Page!NoResult
  /\ calls["load"].call \in {"session", "result"} => calls["load"].token = stored

PollsWhileProcessing ==
  /\ polling = IF step = "processing" THEN stored ELSE Page!NoToken
  /\ step = "processing" => stored # Page!NoToken
  /\ calls["poll"] # Page!NoCall => step = "processing" /\ calls["poll"].token = stored

ActsOnStored ==
  /\ blocked => stored = Page!NoToken
  /\ calls["start"] # Page!NoCall => result = Page!NoResult
  /\ calls["start"].call = "create" => step = "objective" /\ session = Page!NoToken
  /\ calls["start"].call = "propose" =>
       /\ step = "requirements" /\ session = calls["start"].token
       /\ stored = calls["start"].token \/ stored = Page!NoToken
  /\ calls["confirm"] # Page!NoCall => step = "requirements" /\ calls["confirm"].token = stored
  /\ calls["run"] # Page!NoCall =>
       \/ calls["run"].token = stored
       \/ stored = Page!NoToken /\ request[calls["run"].token] = "gone"

StoredIsShown ==
  /\ stored # Page!NoToken => {session, result.of} \subseteq {Page!NoToken, stored}
  /\ step = "objective" => session = Page!NoToken /\ result = Page!NoResult

ResultHolds ==
  /\ result.is = "none" <=> result.of = Page!NoToken
  /\ result.is \in Consumed => request[result.of] \in Consumed
  /\ result.is = "completed" => request[result.of] = "completed"
  /\ step = "completed" => result.is = "completed"
  /\ step = "failed" => result.is \in {"retryable", "failed"}

\* Before its run is created a request that is kept has its session on the screen.
SessionBeforeRun ==
  /\ step = "ready" /\ stored # Page!NoToken => session # Page!NoToken
  /\ (step = "processing" \/ calls["run"] # Page!NoCall) /\ stored # Page!NoToken /\ request[stored] \notin Consumed
       => session # Page!NoToken

PageInv ==
  /\ PageTypes /\ CallShape /\ TokensExist /\ AnswersHold /\ LoadsAlone /\ PollsWhileProcessing
  /\ ActsOnStored /\ StoredIsShown /\ ResultHolds /\ SessionBeforeRun /\ Page!OneAtATime

CallRecords ==
  [call : CallNames, at : {"idle", "sent", "working", "answered"},
   token : Page!Drafts \cup {Page!NoToken}, answer : AnswerNames, had : BOOLEAN]

LEMMA NoCallFacts ==
  /\ Page!NoCall \in CallRecords
  /\ Page!NoCall.call = "none" /\ Page!NoCall.at = "idle" /\ Page!NoCall.token = Page!NoToken /\ Page!NoCall.answer = "none"
  BY DEF Page!NoCall, CallRecords, CallNames, AnswerNames

LEMMA StepOfFacts ==
  /\ Page!StepOf("draft") = "requirements" /\ Page!StepOf("proposed") = "requirements"
  /\ Page!StepOf("confirmed") = "ready" /\ Page!StepOf("processing") = "processing"
  /\ Page!StepOf("completed") = "completed" /\ Page!StepOf("retryable") = "failed"
  /\ Page!StepOf("failed") = "failed"
  BY DEF Page!StepOf

\* What is known of a call in progress.
LEMMA CallFacts ==
  ASSUME PageInv, NEW m \in Page!Makers
  PROVE  /\ calls[m] \in CallRecords
         /\ calls[m].call = "none" <=> calls[m] = Page!NoCall
         /\ calls[m] # Page!NoCall => calls[m].call \in CallsOf(m)
         /\ calls[m].at = "answered" => calls[m] # Page!NoCall /\ calls[m].answer \in AnswersTo(calls[m].call)
         /\ calls[m] # Page!NoCall /\ calls[m].call \notin {"profile", "create"} => calls[m].token \in Page!Drafts
         /\ calls[m].answer # "none" => calls[m].at = "answered"
<1>1. calls[m] \in CallRecords
  BY DEF PageInv, PageTypes, CallRecords
<1>2. calls[m].call = "none" <=> calls[m] = Page!NoCall
  <2>1. "none" \notin CallsOf(m)
    BY DEF CallsOf, Page!Makers
  <2> QED
    BY <2>1, NoCallFacts DEF PageInv, CallShape
<1> QED
  BY <1>1, <1>2, NoCallFacts DEF PageInv, CallShape, CallRecords

LEMMA NoDraft == Page!NoToken \notin Page!Drafts
  BY DEF Page!NoToken, Page!Drafts

\* What says something of a request names it.
LEMMA AnswersName ==
  ASSUME PageInv, NEW m \in Page!Makers, calls[m].answer \in Consumed \cup Page!Open \cup {"lost"}
  PROVE  calls[m].token \in Page!Drafts
<1>1. calls[m] # Page!NoCall /\ calls[m].answer \in AnswersTo(calls[m].call)
  BY CallFacts DEF Consumed, Page!Open, Page!Ended
<1>2. calls[m].call \notin {"profile", "create"}
  BY <1>1 DEF AnswersTo, Consumed, Page!Open, Page!Ended
<1> QED
  BY <1>1, <1>2, CallFacts

-----------------------------------------------------------------------------
(* The server.  *)

\* A request is created once, and a run of it never taken back.
RequestsMove ==
  /\ request' \in [Page!Drafts -> Page!Statuses]
  /\ \A k \in Page!Drafts :
       /\ request[k] # "absent" => request'[k] # "absent"
       /\ request[k] = "gone" => request'[k] = "gone"
       /\ request[k] \in Consumed => request'[k] \in Consumed
       /\ request[k] = "completed" => request'[k] = "completed"

CreatesNoRun == \A k \in Page!Drafts : request[k] \notin Consumed => request'[k] \notin Consumed

SamePage == UNCHANGED <<Page!page, stored, blocked>> /\ link' \in {"open", "disabled", "revoked"}

\* What the answer b of a call of m may say.
Truthful(m, b) ==
  LET k == calls[m].token IN
  /\ b \in AnswersTo(calls[m].call)
  /\ b \in Consumed => request'[k] \in Consumed
  /\ b = "completed" => request'[k] = "completed"
  /\ b = "lost" => request'[k] = "gone"
  /\ m = "run" /\ b \in Page!Open => request'[k] \notin Consumed
  /\ m = "poll" /\ b \in Page!Open => session # Page!NoToken

RepliesWith(m, b) ==
  /\ calls' \in [Page!Makers -> CallRecords]
  /\ \A u \in Page!Makers \ {m} : calls'[u] = calls[u]
  /\ calls'[m].call = calls[m].call
  /\ calls'[m].at = "answered" /\ calls'[m].answer = b
  /\ \/ b # "created" /\ calls'[m].token = calls[m].token
     \/ /\ m = "start" /\ calls[m].call = "create" /\ b \in {"created", "other"}
        /\ calls'[m].token \in Page!Drafts /\ request'[calls'[m].token] # "absent"

\* The requests move and the calls keep what they say.
LEMMA ServedInv ==
  ASSUME PageInv, SamePage, RequestsMove, CreatesNoRun,
         \/ UNCHANGED calls
         \/ \E m \in Page!Makers, b \in AnswerNames :
              calls[m] # Page!NoCall /\ RepliesWith(m, b) /\ Truthful(m, b)
  PROVE  PageInv'
<1>1. calls' \in [Page!Makers -> CallRecords]
  BY DEF PageInv, PageTypes, CallRecords, RepliesWith
<1>2. PageTypes'
  BY <1>1 DEF PageInv, PageTypes, CallRecords, SamePage, Page!page, RequestsMove
<1>3. \A u \in Page!Makers :
        /\ calls'[u].call = calls[u].call
        /\ \/ calls'[u].token = calls[u].token
              /\ (calls'[u] = calls[u] \/ calls'[u].answer # "created")
           \/ /\ u = "start" /\ calls'[u].call = "create" /\ calls'[u].answer \in {"created", "other"}
              /\ calls'[u].token \in Page!Drafts /\ request'[calls'[u].token] # "absent"
        /\ calls'[u] = Page!NoCall <=> calls[u] = Page!NoCall
        /\ \/ calls'[u] = calls[u]
           \/ calls[u] # Page!NoCall /\ calls'[u].at = "answered" /\ Truthful(u, calls'[u].answer)
  <2>1. ASSUME NEW m \in Page!Makers, calls[m] # Page!NoCall, calls'[m].call = calls[m].call
        PROVE  calls'[m] # Page!NoCall
    BY <2>1, CallFacts, NoCallFacts
  <2> QED
    BY <2>1 DEF RepliesWith
<1>4. \A u \in Page!Makers : calls[u] \in CallRecords /\ calls[u].token \in Page!Drafts \cup {Page!NoToken}
  BY CallFacts DEF CallRecords
<1>5. CallShape'
  <2> SUFFICES ASSUME NEW u \in Page!Makers, calls'[u] # Page!NoCall
               PROVE  LET c == calls'[u] IN
                      /\ c.call \in CallsOf(u) /\ c.at \in {"sent", "working", "answered"}
                      /\ c.at = "answered" => c.answer \in AnswersTo(c.call)
                      /\ c.at # "answered" => c.answer = "none"
                      /\ c.at = "working" => u = "run" /\ c.call = "execute"
                      /\ c.call = "profile" => c.token = Page!NoToken
                      /\ c.call = "create" /\ c.at # "answered" => c.token = Page!NoToken
                      /\ c.call = "create" /\ c.answer = "created" => c.token # Page!NoToken
                      /\ c.call \notin {"profile", "create"} => c.token # Page!NoToken
    BY DEF CallShape
  <2>1. CASE calls'[u] = calls[u]
    BY <2>1 DEF PageInv, CallShape
  <2>2. CASE calls[u] # Page!NoCall /\ calls'[u].at = "answered" /\ Truthful(u, calls'[u].answer)
    <3> QED
      BY <1>3, <2>2, NoDraft DEF PageInv, CallShape, Truthful
  <2> QED
    BY <1>3, <2>1, <2>2
<1>6. /\ UNCHANGED <<step, session, result, busy, executing, items, enabled, polling, stored, blocked>>
      /\ stored \in Page!Drafts \cup {Page!NoToken}
  BY DEF SamePage, Page!page, PageInv, PageTypes
<1>7. TokensExist'
  BY <1>3, <1>4, <1>6 DEF PageInv, TokensExist, RequestsMove
<1>8. AnswersHold'
  <2> SUFFICES ASSUME NEW u \in Page!Makers
               PROVE  LET c == calls'[u] IN
                      /\ c.answer \in Consumed => request'[c.token] \in Consumed
                      /\ c.answer = "completed" => request'[c.token] = "completed"
                      /\ c.answer = "lost" => request'[c.token] = "gone"
                      /\ u = "run" /\ c.answer \in Page!Open => request'[c.token] \notin Consumed
                      /\ u = "poll" /\ c.answer \in Page!Open => session # Page!NoToken
    BY <1>6 DEF AnswersHold
  <2>1. CASE calls'[u] = calls[u]
    <3>1. calls[u].answer \in Consumed \cup Page!Open \cup {"lost"} => calls[u].token \in Page!Drafts
      BY AnswersName
    <3>2. "completed" \in Consumed
      BY DEF Consumed, Page!Ended
    <3> QED
      BY <2>1, <3>1, <3>2, <1>6 DEF PageInv, AnswersHold, RequestsMove, CreatesNoRun
  <2>2. CASE calls[u] # Page!NoCall /\ calls'[u].at = "answered" /\ Truthful(u, calls'[u].answer)
    BY <1>3, <2>2 DEF Truthful, Consumed, Page!Open, Page!Ended
  <2> QED
    BY <1>3, <2>1, <2>2
<1>9. LoadsAlone'
  BY <1>3, <1>6 DEF PageInv, LoadsAlone, Page!Makers
<1>10. PollsWhileProcessing'
  BY <1>3, <1>6 DEF PageInv, PollsWhileProcessing, Page!Makers
<1>11. ActsOnStored'
  <2>1. calls["run"] # Page!NoCall => calls["run"].token \in Page!Drafts
    BY CallFacts DEF CallsOf, Page!Makers
  <2> QED
    BY <1>3, <1>6, <2>1 DEF PageInv, ActsOnStored, Page!Makers, RequestsMove
<1>12. StoredIsShown' /\ Page!OneAtATime'
  BY <1>3, <1>6 DEF PageInv, StoredIsShown, Page!OneAtATime, Page!InProgress, Page!Acts, Page!Makers
<1>13. ResultHolds'
  <2>1. result.is # "none" => result.of \in Page!Drafts
    BY DEF PageInv, ResultHolds, PageTypes
  <2>2. "none" \notin Consumed
    BY DEF Consumed, Page!Ended
  <2>3. /\ result.is \in Consumed => request'[result.of] \in Consumed
        /\ result.is = "completed" => request'[result.of] = "completed"
    BY <2>1, <2>2 DEF PageInv, ResultHolds, RequestsMove
  <2>4. step' = step /\ result' = result
    BY <1>6
  <2>5. ResultHolds
    BY DEF PageInv
  <2> QED
    BY <2>3, <2>4, <2>5 DEF ResultHolds
<1>14. SessionBeforeRun'
  BY <1>3, <1>6 DEF PageInv, SessionBeforeRun, Page!Makers, RequestsMove
<1> QED
  BY <1>2, <1>5, <1>7, <1>8, <1>9, <1>10, <1>11, <1>12, <1>13, <1>14 DEF PageInv

LEMMA RepliesFacts ==
  ASSUME PageInv, NEW m \in Page!Makers, NEW a \in AnswerNames \ {"created"}, Page!Replies(m, a)
  PROVE  RepliesWith(m, a) \/ RepliesWith(m, "other")
<1>1. PICK b \in {a, "other"} : calls' = [calls EXCEPT ![m].at = "answered", ![m].answer = b]
  BY DEF Page!Replies
<1>2. calls \in [Page!Makers -> CallRecords] /\ b \in AnswerNames \ {"created"}
  BY DEF PageInv, PageTypes, CallRecords, AnswerNames, Page!Errors
<1> QED
  BY <1>1, <1>2 DEF RepliesWith, CallRecords

\* An error that may pass is an answer to every call.
LEMMA OtherFits ==
  ASSUME PageInv, NEW m \in Page!Makers, calls[m] # Page!NoCall
  PROVE  Truthful(m, "other")
<1>1. calls[m].call \in CallNames \ {"none"}
  BY CallFacts DEF CallRecords
<1> QED
  BY <1>1 DEF Truthful, AnswersTo, Page!Errors, CallNames, Consumed, Page!Open, Page!Ended

LEMMA AnsweredInv ==
  ASSUME PageInv, SamePage, RequestsMove, CreatesNoRun, NEW m \in Page!Makers, calls[m] # Page!NoCall,
         NEW a \in AnswerNames \ {"created"}, Page!Replies(m, a), Truthful(m, a)
  PROVE  PageInv'
<1>1. \E b \in AnswerNames : RepliesWith(m, b) /\ Truthful(m, b)
  BY RepliesFacts, OtherFits DEF AnswerNames, Page!Errors
<1> QED
  BY <1>1, ServedInv

LEMMA StillMoves == UNCHANGED request /\ PageInv => RequestsMove /\ CreatesNoRun
  BY DEF RequestsMove, CreatesNoRun, PageInv, PageTypes

LEMMA ServerNames ==
  /\ Page!Open \cup Consumed \cup Page!Errors \cup {"enabled", "disabled", "consumed"} \subseteq AnswerNames \ {"created"}
  /\ Page!Statuses = {"absent", "gone"} \cup Page!Open \cup Consumed
  /\ Page!Open \cap Consumed = {} /\ Page!Errors \cap (Page!Open \cup Consumed) = {}
  BY DEF AnswerNames, Page!Open, Consumed, Page!Ended, Page!Errors, Page!Statuses

LEMMA RefusedInv ==
  ASSUME PageInv, NEW m \in Page!Makers, Page!Refused(m)
  PROVE  PageInv'
<1> DEFINE k == calls[m].token
<1>1. SamePage /\ UNCHANGED request /\ calls[m] # Page!NoCall
  BY NoCallFacts DEF Page!Refused, SamePage, Page!server, PageInv, PageTypes
<1>2. calls[m].call \in CallNames \ {"none"} /\ k \in Page!Drafts \cup {Page!NoToken}
  BY <1>1, CallFacts DEF CallRecords
<1>3. CASE Page!Replies(m, "fatal")
  <2>1. Truthful(m, "fatal")
    BY <1>2 DEF Truthful, AnswersTo, CallNames, Page!Errors, Consumed, Page!Open, Page!Ended
  <2> QED
    BY <1>1, <1>3, <2>1, AnsweredInv, StillMoves, ServerNames DEF Page!Errors
<1>4. CASE k # Page!NoToken /\ request[k] = "gone" /\ Page!Replies(m, "lost")
  <2>1. calls[m].call \notin {"profile"}
    BY <1>1, <1>4 DEF PageInv, CallShape
  <2>2. calls[m].call # "create"
    <3>1. calls[m].call = "create" /\ calls[m].at = "sent" => k = Page!NoToken
      BY <1>1 DEF PageInv, CallShape
    <3> QED
      BY <1>4, <3>1 DEF Page!Refused
  <2>3. Truthful(m, "lost")
    BY <1>1, <1>2, <1>4, <2>1, <2>2 DEF Truthful, AnswersTo, CallNames, Page!Errors, Consumed,
       Page!Open, Page!Ended
  <2> QED
    BY <1>1, <1>4, <2>3, AnsweredInv, StillMoves, ServerNames DEF Page!Errors
<1> QED
  BY <1>3, <1>4 DEF Page!Refused

\* Which handler makes a call, and where a request that is asked for may be.
LEMMA CallOf ==
  ASSUME PageInv, NEW m \in Page!Makers, calls[m] # Page!NoCall
  PROVE  /\ calls[m].call = "profile" => m = "load"
         /\ calls[m].call = "session" => m = "load"
         /\ calls[m].call = "result" => m \in {"load", "run", "poll"}
         /\ calls[m].call \in {"create", "propose"} => m = "start"
         /\ calls[m].call = "confirm" => m = "confirm"
         /\ calls[m].call = "execute" => m = "run"
         /\ calls[m].call \notin {"profile", "create"} =>
              /\ calls[m].token \in Page!Drafts /\ request[calls[m].token] \in Page!Statuses \ {"absent"}
<1>1. calls[m].call \in CallsOf(m) /\ (calls[m].call \notin {"profile", "create"} => calls[m].token \in Page!Drafts)
  BY CallFacts
<1>2. /\ calls[m].call = "profile" => m = "load"
      /\ calls[m].call = "session" => m = "load"
      /\ calls[m].call = "result" => m \in {"load", "run", "poll"}
      /\ calls[m].call \in {"create", "propose"} => m = "start"
      /\ calls[m].call = "confirm" => m = "confirm"
      /\ calls[m].call = "execute" => m = "run"
  BY <1>1 DEF CallsOf, Page!Makers
<1> QED
  BY <1>1, <1>2, NoDraft DEF PageInv, PageTypes, TokensExist

LEMMA ReadInv ==
  ASSUME PageInv, NEW m \in Page!Makers, Page!Read(m)
  PROVE  PageInv'
<1> DEFINE k == calls[m].token
<1>1. SamePage /\ UNCHANGED request /\ RequestsMove /\ CreatesNoRun
  BY StillMoves DEF Page!Read, SamePage, Page!server, PageInv, PageTypes
<1>2. CASE Page!Arrives(m, "profile") /\ Page!Replies(m, IF link = "open" THEN "enabled" ELSE "disabled")
  <2>1. PICK a \in {"enabled", "disabled"} : Page!Replies(m, a)
    BY <1>2
  <2>2. Truthful(m, a)
    BY <1>2 DEF Truthful, Page!Arrives, AnswersTo, Consumed, Page!Open, Page!Ended
  <2> QED
    BY <1>1, <1>2, <2>1, <2>2, AnsweredInv, ServerNames, NoCallFacts DEF Page!Arrives
<1>3. CASE /\ Page!Arrives(m, "session") /\ request[k] # "gone"
           /\ Page!Replies(m, IF request[k] \in Page!Open THEN request[k] ELSE "consumed")
  <2>1. PICK a \in Page!Open \cup {"consumed"} : Page!Replies(m, a)
    BY <1>3
  <2>2. m = "load" /\ calls[m] # Page!NoCall
    BY <1>3, CallOf, NoCallFacts DEF Page!Arrives
  <2>3. Truthful(m, a)
    BY <1>3, <2>2 DEF Truthful, Page!Arrives, AnswersTo, Consumed, Page!Open, Page!Ended
  <2> QED
    BY <1>1, <2>1, <2>2, <2>3, AnsweredInv, ServerNames
<1>4. CASE Page!Arrives(m, "result") /\ request[k] # "gone" /\ Page!Replies(m, request[k])
  <2>1. calls[m] # Page!NoCall
    BY <1>4, NoCallFacts DEF Page!Arrives
  <2>2. k \in Page!Drafts /\ request[k] \in Page!Open \cup Consumed
    BY <1>4, <2>1, CallOf, ServerNames DEF Page!Arrives
  <2>3. m = "poll" /\ request[k] \in Page!Open => session # Page!NoToken
    <3>1. m = "poll" => step = "processing" /\ k = stored
      BY <2>1 DEF PageInv, PollsWhileProcessing
    <3> QED
      BY <2>2, <3>1, ServerNames, NoDraft DEF PageInv, SessionBeforeRun
  <2>4. Truthful(m, request[k])
    BY <1>1, <1>4, <2>2, <2>3, ServerNames
       DEF Truthful, Page!Arrives, AnswersTo, Page!Errors
  <2> QED
    BY <1>1, <1>4, <2>1, <2>2, <2>4, AnsweredInv, ServerNames
<1> QED
  BY <1>2, <1>3, <1>4 DEF Page!Read

LEMMA CreateInv ==
  ASSUME PageInv, NEW m \in Page!Makers, Page!Create(m)
  PROVE  PageInv'
<1>1. calls[m].call = "create" /\ calls[m] # Page!NoCall /\ m = "start" /\ calls \in [Page!Makers -> CallRecords]
  BY CallOf, NoCallFacts DEF Page!Create, Page!Arrives, PageInv, PageTypes, CallRecords
<1>2. PICK k \in Page!Drafts, b \in {"created", "other"} :
        /\ request[k] = "absent" /\ request' = [request EXCEPT ![k] = "draft"]
        /\ calls' = [calls EXCEPT ![m].at = "answered", ![m].token = k, ![m].answer = b]
  BY DEF Page!Create
<1>3. request \in [Page!Drafts -> Page!Statuses]
  BY DEF PageInv, PageTypes
<1>4. RequestsMove /\ CreatesNoRun /\ request'[k] # "absent"
  BY <1>2, <1>3 DEF RequestsMove, CreatesNoRun, Page!Statuses, Page!Open, Consumed, Page!Ended
<1>5. SamePage
  BY DEF Page!Create, SamePage, PageInv, PageTypes
<1>6. b \in AnswerNames /\ RepliesWith(m, b)
  <2>1. b \in AnswerNames
    BY DEF AnswerNames, Page!Errors
  <2>2. /\ calls' \in [Page!Makers -> CallRecords] /\ \A u \in Page!Makers \ {m} : calls'[u] = calls[u]
        /\ calls'[m].call = calls[m].call /\ calls'[m].at = "answered" /\ calls'[m].answer = b
        /\ calls'[m].token = k
    <3>1. PICK c \in CallRecords : c = calls[m]
      BY <1>1
    <3>2. calls' = [calls EXCEPT ![m] = [c EXCEPT !.at = "answered", !.token = k, !.answer = b]]
      BY <1>1, <1>2, <3>1
    <3>3. /\ [c EXCEPT !.at = "answered", !.token = k, !.answer = b] \in CallRecords
          /\ [c EXCEPT !.at = "answered", !.token = k, !.answer = b].call = c.call
          /\ [c EXCEPT !.at = "answered", !.token = k, !.answer = b].at = "answered"
          /\ [c EXCEPT !.at = "answered", !.token = k, !.answer = b].token = k
          /\ [c EXCEPT !.at = "answered", !.token = k, !.answer = b].answer = b
      BY <2>1 DEF CallRecords
    <3> QED
      BY <1>1, <3>1, <3>2, <3>3
  <2> QED
    BY <1>1, <1>4, <2>1, <2>2 DEF RepliesWith
<1>7. Truthful(m, b)
  BY <1>1, <1>2 DEF Truthful, AnswersTo, Consumed, Page!Open, Page!Ended
<1> QED
  BY <1>1, <1>4, <1>5, <1>6, <1>7, ServedInv

LEMMA ProposeInv ==
  ASSUME PageInv, NEW m \in Page!Makers, Page!Propose(m)
  PROVE  PageInv'
<1> DEFINE k == calls[m].token
<1>1. calls[m].call = "propose" /\ calls[m] # Page!NoCall /\ m = "start" /\ k \in Page!Drafts
  BY CallOf, NoCallFacts DEF Page!Propose, Page!Arrives
<1>2. SamePage /\ request \in [Page!Drafts -> Page!Statuses]
  BY DEF Page!Propose, SamePage, PageInv, PageTypes
<1>3. \A a \in {"proposed", "confirmed"} : Truthful(m, a) /\ a \in AnswerNames \ {"created"}
  BY <1>1 DEF Truthful, AnswersTo, Consumed, Page!Open, Page!Ended, AnswerNames, Page!Statuses
<1>4. \E a \in {"proposed", "confirmed"} : Page!Replies(m, a)
  BY DEF Page!Propose
<1>5. RequestsMove /\ CreatesNoRun
  <2>1. CASE request[k] = "draft" /\ request' = [request EXCEPT ![k] = "proposed"]
    BY <1>1, <1>2, <2>1 DEF RequestsMove, CreatesNoRun, Page!Statuses, Page!Open, Consumed,
       Page!Ended
  <2> QED
    BY <2>1, StillMoves DEF Page!Propose
<1> QED
  BY <1>1, <1>2, <1>3, <1>4, <1>5, AnsweredInv

LEMMA ConfirmInv ==
  ASSUME PageInv, NEW m \in Page!Makers, Page!Confirm(m)
  PROVE  PageInv'
<1> DEFINE k == calls[m].token
<1>1. calls[m].call = "confirm" /\ calls[m] # Page!NoCall /\ m = "confirm" /\ k \in Page!Drafts
  BY CallOf, NoCallFacts DEF Page!Confirm, Page!Arrives
<1>2. SamePage /\ request \in [Page!Drafts -> Page!Statuses]
  BY DEF Page!Confirm, SamePage, PageInv, PageTypes
<1>3. \A a \in {"confirmed", "other"} : Truthful(m, a) /\ a \in AnswerNames \ {"created"}
  BY <1>1 DEF Truthful, AnswersTo, Consumed, Page!Open, Page!Ended, AnswerNames, Page!Statuses,
     Page!Errors
<1>4. \E a \in {"confirmed", "other"} : Page!Replies(m, a)
  BY DEF Page!Confirm
<1>5. RequestsMove /\ CreatesNoRun
  <2>1. CASE request[k] \in Page!Open /\ request' = [request EXCEPT ![k] = "confirmed"]
    BY <1>1, <1>2, <2>1 DEF RequestsMove, CreatesNoRun, Page!Statuses, Page!Open, Consumed,
       Page!Ended
  <2> QED
    BY <2>1, StillMoves DEF Page!Confirm
<1> QED
  BY <1>1, <1>2, <1>3, <1>4, <1>5, AnsweredInv

LEMMA ExecuteInv ==
  ASSUME PageInv, NEW m \in Page!Makers, Page!Execute(m)
  PROVE  PageInv'
<1> DEFINE k == calls[m].token
<1>1. calls[m].call = "execute" /\ calls[m] # Page!NoCall /\ m = "run" /\ k \in Page!Drafts /\ calls[m].at = "sent"
  BY CallOf, NoCallFacts DEF Page!Execute, Page!Arrives
<1>2. SamePage /\ request \in [Page!Drafts -> Page!Statuses] /\ calls \in [Page!Makers -> CallRecords]
  BY DEF Page!Execute, SamePage, PageInv, PageTypes, CallRecords
<1>3. CASE /\ request[k] \in {"processing", "completed", "failed"}
           /\ Page!Replies(m, request[k]) /\ UNCHANGED request
  <2>1. Truthful(m, request[k])
    BY <1>1, <1>3 DEF Truthful, AnswersTo, Consumed, Page!Open, Page!Ended
  <2>2. request[k] \in AnswerNames \ {"created"}
    BY <1>3 DEF AnswerNames, Page!Statuses, Page!Ended
  <2> QED
    BY <1>1, <1>2, <1>3, <2>1, <2>2, AnsweredInv, StillMoves
<1>4. CASE /\ request[k] \in {"retryable", "confirmed"}
           /\ request' = [request EXCEPT ![k] = "processing"]
           /\ calls' = [calls EXCEPT ![m].at = "working"]
  <2>1. /\ calls' \in [Page!Makers -> CallRecords]
        /\ \A u \in Page!Makers : /\ calls'[u].call = calls[u].call /\ calls'[u].token = calls[u].token
                                  /\ calls'[u].answer = calls[u].answer
                                  /\ calls'[u].at = IF u = m THEN "working" ELSE calls[u].at
                                  /\ u # m => calls'[u] = calls[u]
    BY <1>1, <1>2, <1>4 DEF CallRecords
  <2>2. RequestsMove /\ request'[k] \in Consumed /\ \A j \in Page!Drafts \ {k} : request'[j] = request[j]
    BY <1>1, <1>2, <1>4 DEF RequestsMove, Page!Statuses, Page!Open, Consumed, Page!Ended
  <2>3. UNCHANGED <<step, session, result, busy, executing, items, enabled, polling, stored, blocked, link>>
    BY <1>2, <1>4 DEF Page!Execute, Page!page
  <2>4. PageTypes'
    BY <2>1, <2>2, <2>3 DEF PageInv, PageTypes, CallRecords, RequestsMove
  <2>5. \A u \in Page!Makers : calls'[u] = Page!NoCall <=> calls[u] = Page!NoCall
    BY <1>1, <2>1, NoCallFacts
  <2>6. CallShape'
    BY <1>1, <2>1, <2>5 DEF PageInv, CallShape
  <2>7. TokensExist'
    BY <2>1, <2>2, <2>3 DEF PageInv, TokensExist, PageTypes, CallRecords, RequestsMove
  <2>8. AnswersHold'
    <3> SUFFICES ASSUME NEW u \in Page!Makers
                 PROVE  LET c == calls[u] IN
                        /\ c.answer \in Consumed => request'[c.token] \in Consumed
                        /\ c.answer = "completed" => request'[c.token] = "completed"
                        /\ c.answer = "lost" => request'[c.token] = "gone"
                        /\ u = "run" /\ c.answer \in Page!Open => request'[c.token] \notin Consumed
                        /\ u = "poll" /\ c.answer \in Page!Open => session # Page!NoToken
      BY <2>1, <2>3 DEF AnswersHold
    <3>1. calls["run"].answer = "none"
      BY <1>1 DEF PageInv, CallShape
    <3>2. "none" \notin Page!Open
      BY DEF Page!Open
    <3>3. calls[u].answer \in Consumed \cup Page!Open \cup {"lost"} => calls[u].token \in Page!Drafts
      BY AnswersName
    <3>4. "completed" \in Consumed
      BY DEF Consumed, Page!Ended
    <3> QED
      BY <2>2, <3>1, <3>2, <3>3, <3>4 DEF PageInv, AnswersHold, RequestsMove
  <2>9. LoadsAlone'
    BY <2>1, <2>3, <2>5 DEF PageInv, LoadsAlone, Page!Makers
  <2>10. PollsWhileProcessing' /\ ActsOnStored'
    BY <1>1, <2>1, <2>2, <2>3, <2>5 DEF PageInv, PollsWhileProcessing, ActsOnStored, Page!Makers,
       RequestsMove
  <2>11. StoredIsShown' /\ Page!OneAtATime'
    BY <2>3, <2>5 DEF PageInv, StoredIsShown, Page!OneAtATime, Page!InProgress, Page!Acts,
       Page!Makers
  <2>12. ResultHolds'
    <3>1. result.is # "none" => result.of \in Page!Drafts
      BY DEF PageInv, ResultHolds, PageTypes
    <3>2. "none" \notin Consumed
      BY DEF Consumed, Page!Ended
    <3>3. /\ result.is \in Consumed => request'[result.of] \in Consumed
          /\ result.is = "completed" => request'[result.of] = "completed"
      BY <2>2, <3>1, <3>2 DEF PageInv, ResultHolds, RequestsMove
    <3>4. ResultHolds /\ step' = step /\ result' = result
      BY <2>3 DEF PageInv
    <3> QED
      BY <3>3, <3>4 DEF ResultHolds
  <2>13. SessionBeforeRun'
    <3>1. stored \in Page!Drafts \cup {Page!NoToken}
      BY DEF PageInv, PageTypes
    <3> QED
      BY <2>2, <2>3, <2>5, <3>1 DEF PageInv, SessionBeforeRun, Page!Makers, RequestsMove
  <2> QED
    BY <2>4, <2>6, <2>7, <2>8, <2>9, <2>10, <2>11, <2>12, <2>13 DEF PageInv
<1> QED
  BY <1>3, <1>4 DEF Page!Execute

LEMMA FinishInv ==
  ASSUME PageInv, NEW m \in Page!Makers, Page!Finish(m)
  PROVE  PageInv'
<1> DEFINE k == calls[m].token
<1>1. calls[m] # Page!NoCall /\ m = "run" /\ calls[m].call = "execute" /\ request[k] \in Page!Ended
  <2>1. calls[m].at = "working"
    BY DEF Page!Finish
  <2> QED
    BY <2>1, NoCallFacts DEF Page!Finish, PageInv, CallShape
<1>2. SamePage /\ UNCHANGED request
  BY DEF Page!Finish, SamePage, Page!server, PageInv, PageTypes
<1>3. PICK a \in {"fatal", request[k]} : Page!Replies(m, a)
  BY DEF Page!Finish
<1>4. Truthful(m, a) /\ a \in AnswerNames \ {"created"}
  BY <1>1, <1>2 DEF Truthful, AnswersTo, Consumed, Page!Open, Page!Ended, Page!Errors,
     AnswerNames, Page!Statuses
<1> QED
  BY <1>1, <1>2, <1>3, <1>4, AnsweredInv, StillMoves

LEMMA LoseInv ==
  ASSUME PageInv, NEW m \in Page!Makers, Page!Lose(m)
  PROVE  PageInv'
<1>1. calls[m] # Page!NoCall /\ SamePage /\ UNCHANGED request
  BY NoCallFacts DEF Page!Lose, SamePage, Page!server, PageInv, PageTypes
<1>2. "other" \in AnswerNames \ {"created"} /\ Page!Replies(m, "other")
  BY DEF Page!Lose, Page!Replies, AnswerNames, Page!Errors
<1> QED
  BY <1>1, <1>2, AnsweredInv, OtherFits, StillMoves

\* The run of a request goes on, a request expires, the holder changes the link.
LEMMA ServerInv ==
  ASSUME PageInv, Page!ChangeLink \/ \E k \in Page!Drafts : Page!RunEnds(k) \/ Page!Expire(k)
  PROVE  PageInv'
<1>1. request \in [Page!Drafts -> Page!Statuses]
  BY DEF PageInv, PageTypes
<1>2. SamePage /\ UNCHANGED calls
  BY DEF Page!ChangeLink, Page!RunEnds, Page!Expire, SamePage, PageInv, PageTypes
<1>3. RequestsMove /\ CreatesNoRun
  <2>1. ASSUME NEW k \in Page!Drafts, Page!RunEnds(k) PROVE RequestsMove /\ CreatesNoRun
    BY <1>1, <2>1 DEF Page!RunEnds, RequestsMove, CreatesNoRun, Page!Statuses, Consumed,
       Page!Ended, Page!Open
  <2>2. ASSUME NEW k \in Page!Drafts, Page!Expire(k) PROVE RequestsMove /\ CreatesNoRun
    BY <1>1, <2>2 DEF Page!Expire, RequestsMove, CreatesNoRun, Page!Statuses, Consumed,
       Page!Ended, Page!Open
  <2> QED
    BY <2>1, <2>2, StillMoves DEF Page!ChangeLink
<1> QED
  BY <1>2, <1>3, ServedInv

(* The page.  *)

\* A call is over; so is a poll, where the step leaves the polling.
EndsCall(m) ==
  calls' = [u \in Page!Makers |-> IF u = m \/ (u = "poll" /\ step' # "processing") THEN Page!NoCall ELSE calls[u]]

LEMMA GoesEnds ==
  ASSUME PageInv, NEW m \in Page!Makers, NEW s, Page!Goes(s, Page!Done(m))
  PROVE  step' = s /\ EndsCall(m)
<1>1. calls = [u \in Page!Makers |-> calls[u]]
  BY DEF PageInv, PageTypes
<1>2. Page!Done(m) = [u \in Page!Makers |-> IF u = m THEN Page!NoCall ELSE calls[u]]
  BY <1>1 DEF Page!Done
<1>3. "poll" \in Page!Makers
  BY DEF Page!Makers
<1> QED
  BY <1>2, <1>3 DEF Page!Goes, EndsCall

\* The handlers that are over give back what they took.
GivesBack(m) ==
  /\ busy' = IF m \in Page!Acts THEN FALSE ELSE busy
  /\ executing' = IF m = "run" THEN FALSE ELSE executing
  /\ items' \in {"none", "blank", "filled"} /\ enabled' \in BOOLEAN
  /\ UNCHANGED <<blocked, request, link>>

\* While a call is awaited nothing but what the step allows is in progress.
LEMMA Alone ==
  ASSUME PageInv, NEW m \in Page!Makers, calls[m] # Page!NoCall
  PROVE  /\ m # "load" => calls["load"] = Page!NoCall /\ step # "loading"
         /\ m = "load" => step = "loading" /\ \A u \in Page!Makers \ {"load"} : calls[u] = Page!NoCall
         /\ m \in Page!Acts => \A u \in Page!Acts \ {m} : calls[u] = Page!NoCall
         /\ m \in {"start", "confirm"} => calls["poll"] = Page!NoCall
         /\ m = "poll" => calls["start"] = Page!NoCall /\ calls["confirm"] = Page!NoCall
<1>1. /\ m # "load" => calls["load"] = Page!NoCall /\ step # "loading"
      /\ m = "load" => step = "loading" /\ \A u \in Page!Makers \ {"load"} : calls[u] = Page!NoCall
  BY DEF PageInv, LoadsAlone, Page!Makers
<1>2. m \in Page!Acts => \A u \in Page!Acts \ {m} : calls[u] = Page!NoCall
  BY DEF PageInv, Page!OneAtATime, Page!InProgress
<1>3. calls["start"] # Page!NoCall => step \in {"objective", "requirements"}
  <2>1. calls["start"] # Page!NoCall => calls["start"].call \in {"create", "propose"}
    BY CallFacts DEF CallsOf, Page!Makers
  <2> QED
    BY <2>1 DEF PageInv, ActsOnStored
<1>4. calls["confirm"] # Page!NoCall => step = "requirements"
  BY DEF PageInv, ActsOnStored
<1>5. calls["poll"] # Page!NoCall => step = "processing"
  BY DEF PageInv, PollsWhileProcessing
<1> QED
  BY <1>1, <1>2, <1>3, <1>4, <1>5

\* The calls that go on keep what they say.
LEMMA EndsKept ==
  ASSUME PageInv, NEW m \in Page!Makers, EndsCall(m), UNCHANGED request, stored' \in {stored, Page!NoToken},
         calls'["poll"].answer \in Page!Open => session' # Page!NoToken
  PROVE  /\ calls' \in [Page!Makers -> CallRecords] /\ CallShape' /\ TokensExist' /\ AnswersHold'
         /\ \A u \in Page!Makers : calls'[u] = IF u = m \/ (u = "poll" /\ step' # "processing") THEN Page!NoCall ELSE calls[u]
<1>1. \A u \in Page!Makers : calls'[u] = IF u = m \/ (u = "poll" /\ step' # "processing") THEN Page!NoCall ELSE calls[u]
  BY DEF EndsCall
<1>2. calls' \in [Page!Makers -> CallRecords]
  BY NoCallFacts, CallFacts DEF EndsCall
<1>3. CallShape'
  BY <1>1 DEF PageInv, CallShape
<1>4. TokensExist'
  BY <1>1, NoCallFacts DEF PageInv, TokensExist
<1>5. AnswersHold'
  <2>1. "none" \notin Consumed \cup Page!Open
    BY DEF Consumed, Page!Open, Page!Ended
  <2> QED
    BY <1>1, <2>1, NoCallFacts DEF PageInv, AnswersHold
<1> QED
  BY <1>1, <1>2, <1>3, <1>4, <1>5

LEMMA EndsOne ==
  ASSUME PageInv, NEW m \in Page!Makers, calls[m] # Page!NoCall, EndsCall(m), GivesBack(m)
  PROVE  Page!OneAtATime'
<1>1. \A u \in Page!Acts : calls'[u] = IF u = m THEN Page!NoCall ELSE calls[u]
  BY DEF EndsCall, Page!Acts, Page!Makers
<1>2. Page!InProgress' = Page!InProgress \ {m}
  BY <1>1 DEF Page!InProgress
<1>3. CASE m \in Page!Acts
  <2>1. Page!InProgress' = {}
    BY <1>2, <1>3 DEF PageInv, Page!OneAtATime, Page!InProgress
  <2>2. busy' = FALSE
    BY <1>3 DEF GivesBack
  <2>3. executing' = FALSE
    BY <1>3 DEF GivesBack, PageInv, Page!OneAtATime, Page!InProgress
  <2> QED
    BY <2>1, <2>2, <2>3 DEF Page!OneAtATime
<1>4. CASE m \notin Page!Acts
  <2>1. Page!InProgress' = Page!InProgress
    BY <1>2, <1>4 DEF Page!InProgress
  <2>2. busy' = busy /\ executing' = executing
    BY <1>4 DEF GivesBack, Page!Acts
  <2> QED
    BY <2>1, <2>2 DEF PageInv, Page!OneAtATime
<1> QED
  BY <1>3, <1>4

LEMMA ErrorInv ==
  ASSUME PageInv, NEW m \in Page!Makers, calls[m] # Page!NoCall, NEW a \in Page!Errors, calls[m].answer = a,
         Page!ApplyError(a, Page!Done(m)), GivesBack(m)
  PROVE  PageInv'
<1>1. CASE a = "lost"
  <2>1. stored' = Page!NoToken /\ session' = Page!NoToken /\ result' = Page!NoResult /\ Page!Goes("objective", Page!Done(m))
    BY <1>1 DEF Page!ApplyError
  <2>2. step' = "objective" /\ EndsCall(m) /\ polling' = Page!NoToken
    BY <2>1, GoesEnds DEF Page!Goes
  <2>3. calls'["poll"] = Page!NoCall
    BY <2>2 DEF EndsCall, Page!Makers
  <2>4. /\ calls' \in [Page!Makers -> CallRecords] /\ CallShape' /\ TokensExist' /\ AnswersHold'
        /\ \A u \in Page!Makers : calls'[u] = IF u = m \/ u = "poll" THEN Page!NoCall ELSE calls[u]
    BY <2>1, <2>2, <2>3, EndsKept, NoCallFacts DEF GivesBack, Page!Open
  <2>5. PageTypes'
    BY <2>1, <2>2, <2>4 DEF PageInv, PageTypes, GivesBack, CallRecords, Page!NoResult
  <2>6. LoadsAlone'
    BY <2>2, <2>4, Alone, NoCallFacts DEF LoadsAlone, Page!Makers
  <2>7. PollsWhileProcessing'
    BY <2>2, <2>3 DEF PollsWhileProcessing
  <2>8. ActsOnStored'
    <3>1. calls'["start"] = Page!NoCall /\ calls'["confirm"] = Page!NoCall
      <4>1. m \notin {"start", "confirm"} => calls["start"] = Page!NoCall /\ calls["confirm"] = Page!NoCall
        BY Alone DEF Page!Makers, Page!Acts
      <4> QED
        BY <2>4, <4>1, Alone DEF Page!Makers, Page!Acts
    <3>2. ASSUME calls'["run"] # Page!NoCall PROVE request'[calls'["run"].token] = "gone"
      <4>1. calls["run"] # Page!NoCall /\ m # "run" /\ calls'["run"] = calls["run"]
        BY <2>4, <3>2 DEF Page!Makers
      <4>2. m = "poll"
        BY <4>1, Alone DEF Page!Makers, Page!Acts
      <4>3. calls["poll"].token = stored /\ request[calls["poll"].token] = "gone" /\ stored # Page!NoToken
        BY <1>1, <4>2 DEF PageInv, PollsWhileProcessing, AnswersHold
      <4> QED
        BY <4>1, <4>3 DEF PageInv, ActsOnStored, GivesBack
    <3> QED
      BY <2>1, <3>1, <3>2, NoCallFacts DEF ActsOnStored
  <2>9. StoredIsShown' /\ ResultHolds' /\ SessionBeforeRun'
    BY <2>1, <2>2 DEF StoredIsShown, ResultHolds, SessionBeforeRun, Page!NoResult, Consumed,
       Page!Ended
  <2> QED
    BY <2>2, <2>4, <2>5, <2>6, <2>7, <2>8, <2>9, EndsOne DEF PageInv
<1>2. CASE a = "fatal"
  <2>1. stored' = stored /\ session' = session /\ result' = result /\ Page!Goes("unavailable", Page!Done(m))
    BY <1>2 DEF Page!ApplyError
  <2>2. step' = "unavailable" /\ EndsCall(m) /\ polling' = Page!NoToken
    BY <2>1, GoesEnds DEF Page!Goes
  <2>3. calls'["poll"] = Page!NoCall
    BY <2>2 DEF EndsCall, Page!Makers
  <2>4. /\ calls' \in [Page!Makers -> CallRecords] /\ CallShape' /\ TokensExist' /\ AnswersHold'
        /\ \A u \in Page!Makers : calls'[u] = IF u = m \/ u = "poll" THEN Page!NoCall ELSE calls[u]
    BY <2>1, <2>2, <2>3, EndsKept, NoCallFacts DEF GivesBack, Page!Open
  <2>5. PageTypes'
    BY <2>1, <2>2, <2>4 DEF PageInv, PageTypes, GivesBack, CallRecords
  <2>6. LoadsAlone'
    BY <2>2, <2>4, Alone, NoCallFacts DEF LoadsAlone, Page!Makers
  <2>7. PollsWhileProcessing'
    BY <2>2, <2>3 DEF PollsWhileProcessing
  <2>8. ActsOnStored'
    <3>1. calls'["start"] = Page!NoCall /\ calls'["confirm"] = Page!NoCall
      <4>1. m \notin {"start", "confirm"} => calls["start"] = Page!NoCall /\ calls["confirm"] = Page!NoCall
        BY Alone DEF Page!Makers, Page!Acts
      <4> QED
        BY <2>4, <4>1, Alone DEF Page!Makers, Page!Acts
    <3>2. calls'["run"] # Page!NoCall => calls'["run"] = calls["run"]
      BY <2>4 DEF Page!Makers
    <3> QED
      BY <2>1, <3>1, <3>2, NoCallFacts DEF ActsOnStored, PageInv, GivesBack
  <2>9. StoredIsShown' /\ ResultHolds'
    BY <2>1, <2>2 DEF StoredIsShown, ResultHolds, GivesBack, PageInv
  <2>10. SessionBeforeRun'
    <3>1. calls'["run"] # Page!NoCall => calls["run"] # Page!NoCall
      BY <2>4 DEF Page!Makers
    <3> QED
      BY <2>1, <2>2, <3>1 DEF SessionBeforeRun, GivesBack, PageInv
  <2> QED
    BY <2>2, <2>4, <2>5, <2>6, <2>7, <2>8, <2>9, <2>10, EndsOne DEF PageInv
<1>3. CASE a = "other"
  <2>1. UNCHANGED <<stored, session, result, step, polling>> /\ calls' = Page!Done(m)
    BY <1>3 DEF Page!ApplyError
  <2>2. EndsCall(m)
    <3>1. step # "processing" => calls["poll"] = Page!NoCall
      BY DEF PageInv, PollsWhileProcessing
    <3>2. calls = [u \in Page!Makers |-> calls[u]]
      BY DEF PageInv, PageTypes
    <3> QED
      BY <2>1, <3>1, <3>2 DEF EndsCall, Page!Done
  <2>3. calls'["poll"].answer \in Page!Open => session' # Page!NoToken
    <3>1. calls'["poll"] \in {Page!NoCall, calls["poll"]}
      BY <2>2 DEF EndsCall, Page!Makers
    <3> QED
      BY <2>1, <3>1, NoCallFacts DEF PageInv, AnswersHold, Page!Makers, Page!Open
  <2>4. /\ calls' \in [Page!Makers -> CallRecords] /\ CallShape' /\ TokensExist' /\ AnswersHold'
        /\ \A u \in Page!Makers : calls'[u] = Page!NoCall \/ calls'[u] = calls[u]
    BY <2>1, <2>2, <2>3, EndsKept DEF GivesBack
  <2>5. PageTypes'
    BY <2>1, <2>4 DEF PageInv, PageTypes, GivesBack, CallRecords
  <2>6. LoadsAlone' /\ PollsWhileProcessing'
    BY <2>1, <2>4, NoCallFacts DEF PageInv, LoadsAlone, PollsWhileProcessing, Page!Makers
  <2>8. ActsOnStored'
    BY <2>1, <2>4, NoCallFacts DEF PageInv, ActsOnStored, GivesBack, Page!Makers
  <2>9. StoredIsShown' /\ ResultHolds'
    BY <2>1 DEF StoredIsShown, ResultHolds, GivesBack, PageInv
  <2>10. SessionBeforeRun'
    <3>1. calls'["run"] # Page!NoCall => calls["run"] # Page!NoCall
      BY <2>4 DEF Page!Makers
    <3> QED
      BY <2>1, <3>1 DEF SessionBeforeRun, GivesBack, PageInv
  <2> QED
    BY <2>2, <2>4, <2>5, <2>6, <2>8, <2>9, <2>10, EndsOne DEF PageInv
<1> QED
  BY <1>1, <1>2, <1>3 DEF Page!Errors

LEMMA StepsOfSessions ==
  ASSUME NEW a \in Page!Open \cup Consumed
  PROVE  /\ Page!StepOf(a) \in {"requirements", "ready", "processing", "completed", "failed"}
         /\ Page!StepOf(a) = "processing" => a = "processing"
         /\ Page!StepOf(a) = "ready" => a = "confirmed"
         /\ Page!StepOf(a) = "completed" => a = "completed"
         /\ Page!StepOf(a) = "failed" => a \in {"retryable", "failed"}
         /\ a \in Page!Open => Page!StepOf(a) \in {"requirements", "ready"}
  BY StepOfFacts DEF Page!Open, Consumed, Page!Ended

\* A result was read, by whoever reads one.
LEMMA ResultInv ==
  ASSUME PageInv, NEW m \in {"load", "run", "poll"}, calls[m] # Page!NoCall,
         NEW k \in Page!Drafts, calls[m].token = k,
         NEW a \in Page!Open \cup Consumed, calls[m].answer = a,
         Page!ShowResult(k, a, Page!Done(m)), GivesBack(m),
         stored' = stored, session' = IF m = "load" THEN k ELSE session,
         m = "load" => stored = k
  PROVE  PageInv'
<1>0. m \in Page!Makers /\ stored \in Page!Drafts \cup {Page!NoToken} /\ session \in Page!Drafts \cup {Page!NoToken}
  BY DEF Page!Makers, PageInv, PageTypes
<1>1. result' = [of |-> k, is |-> a] /\ Page!Goes(Page!StepOf(a), Page!Done(m))
  BY DEF Page!ShowResult
<1>2. step' = Page!StepOf(a) /\ EndsCall(m)
  BY <1>0, <1>1, GoesEnds
<1>3. /\ a \in Consumed => request[k] \in Consumed
      /\ a = "completed" => request[k] = "completed"
      /\ m = "run" /\ a \in Page!Open => request[k] \notin Consumed
      /\ m = "poll" /\ a \in Page!Open => session # Page!NoToken
  BY <1>0 DEF PageInv, AnswersHold
<1>4. /\ a \in Page!Statuses /\ a # "none" /\ "gone" \notin Consumed
      /\ {"processing", "completed", "retryable", "failed"} = Consumed /\ "confirmed" \in Page!Open
  BY DEF Page!Statuses, Page!Open, Consumed, Page!Ended
<1>5. stored = k \/ (stored = Page!NoToken /\ m = "run" /\ request[k] = "gone")
  BY <1>0 DEF PageInv, PollsWhileProcessing, ActsOnStored
<1>6. calls["start"] = Page!NoCall /\ calls["confirm"] = Page!NoCall
  BY <1>0, Alone DEF Page!Makers, Page!Acts
<1>7. calls'["poll"].answer \in Page!Open => session' # Page!NoToken
  <2>1. calls'["poll"] \in {Page!NoCall, calls["poll"]}
    BY <1>2 DEF EndsCall, Page!Makers
  <2> QED
    BY <1>0, <2>1, NoCallFacts, NoDraft DEF PageInv, AnswersHold, Page!Makers, Page!Open
<1>8. /\ calls' \in [Page!Makers -> CallRecords] /\ CallShape' /\ TokensExist' /\ AnswersHold'
      /\ \A u \in Page!Makers : calls'[u] = IF u = m \/ (u = "poll" /\ step' # "processing") THEN Page!NoCall ELSE calls[u]
  BY <1>0, <1>2, <1>7, EndsKept DEF GivesBack
<1>9. step' = "processing" => stored # Page!NoToken
  <2> SUFFICES ASSUME step' = "processing" PROVE stored # Page!NoToken
    OBVIOUS
  <2>1. a = "processing"
    BY <1>2, StepsOfSessions
  <2>2. request[k] \in Consumed
    BY <1>3, <1>4, <2>1
  <2> QED
    BY <1>4, <1>5, <2>2, NoDraft
<1>10. polling' = IF step' = "processing" THEN stored ELSE Page!NoToken
  BY <1>1, <1>2 DEF Page!Goes, PageInv, PollsWhileProcessing
<1>11. PageTypes'
  BY <1>0, <1>1, <1>2, <1>4, <1>8, <1>10, StepsOfSessions
     DEF PageInv, PageTypes, GivesBack, CallRecords
<1>12. LoadsAlone'
  <2>1. step' # "loading"
    BY <1>2, StepsOfSessions
  <2>2. calls'["load"] = Page!NoCall
    BY <1>0, <1>8, Alone DEF Page!Makers
  <2> QED
    BY <2>1, <2>2, NoCallFacts DEF LoadsAlone
<1>13. PollsWhileProcessing'
  <2>1. calls'["poll"] # Page!NoCall => step' = "processing" /\ calls'["poll"] = calls["poll"]
    BY <1>8 DEF Page!Makers
  <2> QED
    BY <1>9, <1>10, <2>1 DEF PageInv, PollsWhileProcessing
<1>14. ActsOnStored'
  <2>1. calls'["start"] = Page!NoCall /\ calls'["confirm"] = Page!NoCall
    BY <1>6, <1>8 DEF Page!Makers
  <2>2. calls'["run"] # Page!NoCall => calls'["run"] = calls["run"]
    BY <1>8 DEF Page!Makers
  <2> QED
    BY <2>1, <2>2, NoCallFacts DEF PageInv, ActsOnStored, GivesBack
<1>15. StoredIsShown'
  <2>1. step' # "objective"
    BY <1>2, StepsOfSessions
  <2> QED
    BY <1>1, <1>5, <2>1 DEF PageInv, StoredIsShown
<1>16. ResultHolds'
  <2>1. UNCHANGED request
    BY DEF GivesBack
  <2> QED
    BY <1>1, <1>2, <1>3, <1>4, <2>1, NoDraft, StepsOfSessions DEF ResultHolds
<1>17. SessionBeforeRun'
  <2>1. ASSUME step' = "ready", stored # Page!NoToken PROVE session' # Page!NoToken
    <3>1. a = "confirmed" /\ stored = k
      BY <1>2, <1>5, <2>1, StepsOfSessions
    <3>2. m = "run" => session # Page!NoToken
      BY <1>3, <1>4, <2>1, <3>1 DEF PageInv, SessionBeforeRun
    <3> QED
      BY <1>3, <1>4, <3>1, <3>2, NoDraft
  <2>2. ASSUME step' = "processing" \/ calls'["run"] # Page!NoCall, stored # Page!NoToken, request[stored] \notin Consumed
        PROVE  session' # Page!NoToken
    <3>1. CASE step' = "processing"
      BY <1>2, <1>3, <1>4, <1>5, <2>2, <3>1, StepsOfSessions
    <3>2. CASE calls'["run"] # Page!NoCall
      <4>1. calls["run"] # Page!NoCall /\ m # "run"
        BY <1>8, <3>2 DEF Page!Makers
      <4>2. m # "load"
        BY <1>0, <4>1, Alone DEF Page!Makers
      <4> QED
        BY <2>2, <4>1, <4>2 DEF PageInv, SessionBeforeRun
    <3> QED
      BY <2>2, <3>1, <3>2
  <2> QED
    BY <2>1, <2>2 DEF SessionBeforeRun, GivesBack
<1>18. Page!OneAtATime'
  BY <1>0, <1>2, EndsOne
<1> QED
  BY <1>8, <1>11, <1>12, <1>13, <1>14, <1>15, <1>16, <1>17, <1>18 DEF PageInv

\* A session was read, proposed or confirmed.
LEMMA SessionInv ==
  ASSUME PageInv, NEW m \in {"load", "start", "confirm"}, calls[m] # Page!NoCall,
         NEW k \in Page!Drafts, calls[m].token = k, NEW a \in Page!Open,
         m = "load" => stored = k, calls[m].call # "create",
         Page!Goes(Page!StepOf(a), Page!Done(m)), GivesBack(m),
         stored' = stored, session' = k, result' = IF m = "load" THEN Page!NoResult ELSE result
  PROVE  PageInv'
<1>0. m \in Page!Makers /\ stored \in Page!Drafts \cup {Page!NoToken}
  BY DEF Page!Makers, PageInv, PageTypes
<1>2. step' = Page!StepOf(a) /\ EndsCall(m) /\ Page!StepOf(a) \in {"requirements", "ready"}
  BY <1>0, GoesEnds, StepsOfSessions
<1>3. polling' = Page!NoToken /\ calls'["poll"] = Page!NoCall
  BY <1>2 DEF Page!Goes, EndsCall, Page!Makers
<1>4. /\ calls' \in [Page!Makers -> CallRecords] /\ CallShape' /\ TokensExist' /\ AnswersHold'
      /\ \A u \in Page!Makers : calls'[u] = IF u = m \/ u = "poll" THEN Page!NoCall ELSE calls[u]
  BY <1>0, <1>2, <1>3, EndsKept, NoCallFacts DEF GivesBack, Page!Open
<1>5. \A u \in Page!Makers : calls'[u] = Page!NoCall
  BY <1>0, <1>4, Alone DEF Page!Makers, Page!Acts
<1>6. stored = k \/ stored = Page!NoToken
  <2>1. m = "start" => calls[m].call = "propose"
    BY <1>0, CallFacts DEF CallsOf
  <2> QED
    BY <1>0, <2>1 DEF PageInv, ActsOnStored
<1>7. PageTypes'
  BY <1>0, <1>2, <1>3, <1>4 DEF PageInv, PageTypes, GivesBack, CallRecords, Page!NoResult
<1>8. LoadsAlone' /\ PollsWhileProcessing'
  BY <1>2, <1>3, <1>5, NoCallFacts DEF LoadsAlone, PollsWhileProcessing, Page!Makers
<1>9. ActsOnStored'
  BY <1>5, NoCallFacts DEF PageInv, ActsOnStored, GivesBack, Page!Makers
<1>10. StoredIsShown'
  BY <1>2, <1>6 DEF PageInv, StoredIsShown, Page!NoResult
<1>11. ResultHolds'
  BY <1>2 DEF PageInv, ResultHolds, GivesBack, Page!NoResult, Consumed, Page!Ended
<1>12. SessionBeforeRun'
  BY <1>2, <1>5, NoDraft DEF SessionBeforeRun, Page!Makers
<1>13. Page!OneAtATime'
  BY <1>0, <1>2, EndsOne
<1> QED
  BY <1>4, <1>7, <1>8, <1>9, <1>10, <1>11, <1>12, <1>13 DEF PageInv

-----------------------------------------------------------------------------

LEMMA AnswerFacts ==
  ASSUME PageInv, NEW m \in Page!Makers, NEW asked, Page!Answered(m, asked)
  PROVE  calls[m] # Page!NoCall /\ calls[m].call = asked /\ Page!Answer(m) \in AnswersTo(asked)
         /\ Page!Answer(m) = calls[m].answer
  BY CallFacts DEF Page!Answered, Page!Answer

LEMMA ProfileInv ==
  ASSUME PageInv, Page!LoadedProfile
  PROVE  PageInv'
<1>1. /\ calls["load"] # Page!NoCall /\ Page!Answer("load") = calls["load"].answer /\ "load" \in Page!Makers
      /\ UNCHANGED <<busy, executing, items, blocked, request, link>>
  BY AnswerFacts DEF Page!LoadedProfile, Page!Makers, Page!server
<1>2. /\ step = "loading" /\ session = Page!NoToken /\ result = Page!NoResult /\ polling = Page!NoToken
      /\ \A u \in Page!Makers \ {"load"} : calls[u] = Page!NoCall
  BY <1>1, Alone DEF PageInv, LoadsAlone, PollsWhileProcessing
<1>3. enabled' \in BOOLEAN => GivesBack("load")
  BY <1>1 DEF GivesBack, Page!Acts, PageInv, PageTypes
<1>4. CASE Page!Answer("load") \in Page!Errors
  <2>1. Page!ApplyError(Page!Answer("load"), Page!Done("load")) /\ enabled' = enabled
    BY <1>4 DEF Page!LoadedProfile
  <2> QED
    BY <1>1, <1>3, <1>4, <2>1, ErrorInv DEF PageInv, PageTypes
<1>5. CASE Page!Answer("load") \notin Page!Errors
  <2>1. enabled' \in BOOLEAN /\ stored' = stored
    BY <1>5 DEF Page!LoadedProfile
  <2>2. CASE stored # Page!NoToken
    <3>1. Page!Call("load", "session", stored) /\ UNCHANGED <<step, session, result, polling>>
      BY <1>5, <2>2 DEF Page!LoadedProfile
    <3>2. PICK c \in CallRecords : c = calls["load"]
      BY <1>1, CallFacts
    <3>3. PICK k \in Page!Drafts : k = stored
      BY <2>2 DEF PageInv, PageTypes
    <3>4. PICK d \in CallRecords : /\ d.call = "session" /\ d.at = "sent" /\ d.token = k /\ d.answer = "none"
                                   /\ calls' = [calls EXCEPT !["load"] = d]
      <4>1. calls' = [calls EXCEPT !["load"] =
                        [c EXCEPT !.call = "session", !.at = "sent", !.token = k, !.answer = "none"]]
        BY <1>1, <3>1, <3>2, <3>3 DEF Page!Call, PageInv, PageTypes
      <4>2. LET d == [c EXCEPT !.call = "session", !.at = "sent", !.token = k, !.answer = "none"]
            IN d \in CallRecords /\ d.call = "session" /\ d.at = "sent" /\ d.token = k /\ d.answer = "none"
        BY DEF CallRecords, CallNames, AnswerNames
      <4> QED
        BY <4>1, <4>2
    <3>5. calls' \in [Page!Makers -> CallRecords]
          /\ \A u \in Page!Makers : calls'[u] = IF u = "load" THEN d ELSE calls[u]
      BY <1>1, <3>4 DEF PageInv, PageTypes, CallRecords
    <3>6. d # Page!NoCall
      BY <3>4, NoCallFacts
    <3>7. PageTypes'
      BY <1>1, <2>1, <3>1, <3>5 DEF PageInv, PageTypes, CallRecords
    <3>8. CallShape'
      <4>1. \A u \in Page!Makers \ {"load"} : calls'[u] = calls[u]
        BY <3>5
      <4>2. calls'["load"] = d /\ d.call \in CallsOf("load") /\ d.token # Page!NoToken
        BY <1>1, <3>4, <3>5, NoDraft DEF CallsOf
      <4> QED
        BY <3>4, <4>1, <4>2 DEF PageInv, CallShape
    <3>9. TokensExist' /\ AnswersHold'
      BY <1>1, <2>1, <3>1, <3>3, <3>4, <3>5, NoDraft
         DEF PageInv, TokensExist, AnswersHold, Consumed, Page!Open, Page!Ended
    <3>10. LoadsAlone' /\ PollsWhileProcessing' /\ ActsOnStored'
      BY <1>1, <1>2, <2>1, <3>1, <3>3, <3>4, <3>5, NoCallFacts
         DEF PageInv, LoadsAlone, PollsWhileProcessing, ActsOnStored, Page!Makers
    <3>11. StoredIsShown' /\ ResultHolds' /\ SessionBeforeRun'
      BY <1>1, <1>2, <2>1, <3>1, <3>5
         DEF PageInv, StoredIsShown, ResultHolds, SessionBeforeRun, Page!Makers
    <3>12. Page!OneAtATime'
      BY <1>1, <3>5 DEF PageInv, Page!OneAtATime, Page!InProgress, Page!Acts, Page!Makers
    <3> QED
      BY <3>7, <3>8, <3>9, <3>10, <3>11, <3>12 DEF PageInv
  <2>3. CASE stored = Page!NoToken
    <3>1. \/ Page!Goes("objective", Page!Done("load")) /\ session' = Page!NoToken /\ result' = Page!NoResult
          \/ Page!Goes("unavailable", Page!Done("load")) /\ UNCHANGED <<session, result>>
      BY <1>5, <2>3 DEF Page!LoadedProfile
    <3>2. session' = Page!NoToken /\ result' = Page!NoResult
      BY <1>2, <3>1
    <3>3. step' \in {"objective", "unavailable"} /\ EndsCall("load") /\ polling' = Page!NoToken
      BY <1>1, <3>1, GoesEnds DEF Page!Goes
    <3>4. \A u \in Page!Makers : calls'[u] = Page!NoCall
      BY <1>2, <3>3 DEF EndsCall
    <3>5. calls' \in [Page!Makers -> CallRecords] /\ CallShape' /\ TokensExist' /\ AnswersHold'
      BY <1>1, <2>1, <3>3, <3>4, EndsKept, NoCallFacts DEF Page!Makers, Page!Open
    <3>6. PageTypes'
      BY <1>1, <2>1, <3>2, <3>3, <3>5 DEF PageInv, PageTypes, CallRecords, Page!NoResult
    <3>7. LoadsAlone' /\ PollsWhileProcessing' /\ ActsOnStored'
      BY <2>1, <2>3, <3>3, <3>4, NoCallFacts DEF LoadsAlone, PollsWhileProcessing, ActsOnStored,
         Page!Makers
    <3>8. StoredIsShown' /\ ResultHolds' /\ SessionBeforeRun'
      BY <2>1, <2>3, <3>2, <3>3
         DEF StoredIsShown, ResultHolds, SessionBeforeRun, Page!NoResult, Consumed, Page!Ended
    <3>9. Page!OneAtATime'
      BY <1>1, <1>3, <2>1, <3>3, EndsOne
    <3> QED
      BY <3>5, <3>6, <3>7, <3>8, <3>9 DEF PageInv
  <2> QED
    BY <2>2, <2>3
<1> QED
  BY <1>4, <1>5

\* A call is made and the screen stays as it is.
LEMMA SendsInv ==
  ASSUME PageInv, NEW m \in Page!Makers \ {"start"}, NEW k \in Page!Drafts,
         NEW asked \in CallsOf(m) \ {"profile"}, Page!Call(m, asked, k), request[k] # "absent",
         UNCHANGED <<step, session, result, polling, items, enabled, stored, blocked, request, link>>,
         busy' \in BOOLEAN, executing' \in BOOLEAN, Page!OneAtATime',
         step = "loading" <=> m = "load",
         m \in {"load", "poll", "confirm"} => stored = k,
         m = "poll" => step = "processing",
         m = "confirm" => step = "requirements",
         m = "run" => calls["run"] # Page!NoCall /\ calls["run"].token = k
  PROVE  PageInv'
<1>1. PICK c \in CallRecords : c = calls[m]
  BY CallFacts
<1>2. calls \in [Page!Makers -> CallRecords] /\ asked \in CallNames
  BY DEF PageInv, PageTypes, CallRecords, CallsOf, CallNames, Page!Makers
<1>3. PICK d \in CallRecords : /\ d.call = asked /\ d.at = "sent" /\ d.token = k /\ d.answer = "none"
                               /\ calls' = [calls EXCEPT ![m] = d]
  <2>1. calls' = [calls EXCEPT ![m] =
                    [c EXCEPT !.call = asked, !.at = "sent", !.token = k, !.answer = "none"]]
    BY <1>1, <1>2 DEF Page!Call
  <2>2. LET d == [c EXCEPT !.call = asked, !.at = "sent", !.token = k, !.answer = "none"]
        IN d \in CallRecords /\ d.call = asked /\ d.at = "sent" /\ d.token = k /\ d.answer = "none"
    BY <1>2 DEF CallRecords, AnswerNames
  <2> QED
    BY <2>1, <2>2
<1>4. calls' \in [Page!Makers -> CallRecords] /\ \A u \in Page!Makers : calls'[u] = IF u = m THEN d ELSE calls[u]
  BY <1>2, <1>3
<1>5. d # Page!NoCall
  BY <1>3, NoCallFacts
<1>6. asked \notin {"profile", "create", "propose"}
  BY DEF CallsOf, Page!Makers
<1>7. PageTypes'
  BY <1>4 DEF PageInv, PageTypes, CallRecords
<1>8. CallShape'
  <2>1. d.call \in CallsOf(m) /\ d.token # Page!NoToken
    BY <1>3, NoDraft
  <2> QED
    BY <1>3, <1>4, <1>6, <2>1 DEF PageInv, CallShape
<1>9. TokensExist' /\ AnswersHold'
  BY <1>3, <1>4 DEF PageInv, TokensExist, AnswersHold, Consumed, Page!Open, Page!Ended
<1>10. LoadsAlone'
  <2>1. m # "load" => calls["load"] = Page!NoCall /\ step # "loading"
    BY DEF PageInv, LoadsAlone
  <2> QED
    BY <1>3, <1>4, <2>1, NoCallFacts DEF PageInv, LoadsAlone, Page!Makers
<1>11. PollsWhileProcessing'
  BY <1>3, <1>4 DEF PageInv, PollsWhileProcessing, Page!Makers
<1>12. ActsOnStored'
  BY <1>3, <1>4 DEF PageInv, ActsOnStored, Page!Makers
<1>13. StoredIsShown' /\ ResultHolds'
  BY DEF PageInv, StoredIsShown, ResultHolds
<1>14. SessionBeforeRun'
  <2>1. calls'["run"] # Page!NoCall => calls["run"] # Page!NoCall
    BY <1>4 DEF Page!Makers
  <2> QED
    BY <2>1 DEF PageInv, SessionBeforeRun
<1> QED
  BY <1>7, <1>8, <1>9, <1>10, <1>11, <1>12, <1>13, <1>14 DEF PageInv

\* The call goes on with another: what is in progress stays.
LEMMA GoesOn ==
  ASSUME PageInv, NEW m \in Page!Makers, calls[m] # Page!NoCall \/ m \notin Page!Acts,
         NEW asked, asked # "none", NEW k, Page!Call(m, asked, k), UNCHANGED <<busy, executing>>
  PROVE  Page!OneAtATime'
<1>1. calls'[m].call = asked /\ \A u \in Page!Makers \ {m} : calls'[u] = calls[u]
  <2>1. calls \in [Page!Makers -> CallRecords]
    BY DEF PageInv, PageTypes, CallRecords
  <2>2. PICK c \in CallRecords : c = calls[m]
    BY CallFacts
  <2>3. calls' = [calls EXCEPT ![m] =
                    [c EXCEPT !.call = asked, !.at = "sent", !.token = k, !.answer = "none"]]
    BY <2>1, <2>2 DEF Page!Call
  <2>4. [c EXCEPT !.call = asked, !.at = "sent", !.token = k, !.answer = "none"].call = asked
    BY DEF CallRecords
  <2> QED
    BY <2>1, <2>3, <2>4
<1>2. calls'[m] # Page!NoCall
  BY <1>1, NoCallFacts
<1>3. Page!InProgress' = Page!InProgress
  BY <1>1, <1>2 DEF Page!InProgress, Page!Acts, Page!Makers
<1> QED
  BY <1>3 DEF PageInv, Page!OneAtATime

LEMMA SessionReadInv ==
  ASSUME PageInv, Page!LoadedSession
  PROVE  PageInv'
<1> DEFINE k == calls["load"].token
           a == Page!Answer("load")
<1>1. /\ calls["load"] # Page!NoCall /\ calls["load"].call = "session" /\ "load" \in Page!Makers
      /\ a = calls["load"].answer /\ a \in Page!Open \cup {"consumed"} \cup Page!Errors
      /\ UNCHANGED <<busy, executing, enabled, blocked, request, link>>
  BY AnswerFacts DEF Page!LoadedSession, Page!Makers, Page!server, AnswersTo
<1>2. k \in Page!Drafts /\ k = stored /\ step = "loading" /\ request[k] # "absent"
  BY <1>1, CallFacts, NoDraft DEF PageInv, LoadsAlone, TokensExist
<1>3. items' \in {"none", "blank", "filled"} => GivesBack("load")
  BY <1>1 DEF GivesBack, Page!Acts, PageInv, PageTypes
<1>4. CASE a \in Page!Errors
  <2>1. Page!ApplyError(a, Page!Done("load")) /\ items' = items
    BY <1>4, Zenon DEF Page!LoadedSession, Page!Errors
  <2> QED
    BY <1>1, <1>3, <1>4, <2>1, ErrorInv DEF PageInv, PageTypes
<1>5. CASE a = "consumed"
  <2>1. Page!Call("load", "result", k) /\ UNCHANGED <<step, session, result, polling, items, stored>>
    BY <1>5 DEF Page!LoadedSession, Page!Errors
  <2>2. Page!OneAtATime'
    BY <1>1, <2>1, GoesOn
  <2>3. "load" \in Page!Makers \ {"start"} /\ "result" \in CallsOf("load") \ {"profile"}
    BY DEF Page!Makers, CallsOf
  <2>4. busy' \in BOOLEAN /\ executing' \in BOOLEAN
    BY <1>1 DEF PageInv, PageTypes
  <2> QED
    BY <1>1, <1>2, <2>1, <2>2, <2>3, <2>4, SendsInv
<1>6. CASE a \notin Page!Errors \cup {"consumed"}
  <2>1. /\ session' = k /\ result' = Page!NoResult /\ stored' = stored /\ Page!Goes(Page!StepOf(a), Page!Done("load"))
        /\ items' = IF a = "proposed" THEN "filled" ELSE items
    BY <1>6 DEF Page!LoadedSession
  <2>2. a \in Page!Open /\ GivesBack("load")
    BY <1>1, <1>3, <1>6, <2>1 DEF PageInv, PageTypes
  <2> QED
    BY <1>1, <1>2, <2>1, <2>2, SessionInv
<1> QED
  BY <1>4, <1>5, <1>6

LEMMA LoadedResultInv ==
  ASSUME PageInv, Page!LoadedResult
  PROVE  PageInv'
<1> DEFINE k == calls["load"].token
           a == Page!Answer("load")
<1>1. /\ calls["load"] # Page!NoCall /\ calls["load"].call = "result" /\ "load" \in Page!Makers
      /\ a = calls["load"].answer /\ a \in Page!Open \cup Consumed \cup Page!Errors
      /\ UNCHANGED <<busy, executing, items, enabled, blocked, request, link>>
  BY AnswerFacts DEF Page!LoadedResult, Page!Makers, Page!server, AnswersTo
<1>2. k \in Page!Drafts /\ k = stored
  BY <1>1, CallFacts DEF PageInv, LoadsAlone
<1>3. GivesBack("load")
  BY <1>1 DEF GivesBack, Page!Acts, PageInv, PageTypes
<1>4. CASE a \in Page!Errors
  BY <1>1, <1>3, <1>4, ErrorInv DEF Page!LoadedResult
<1>5. CASE a \notin Page!Errors
  <2>1. session' = k /\ stored' = stored /\ Page!ShowResult(k, a, Page!Done("load"))
    BY <1>5 DEF Page!LoadedResult
  <2>2. a \in Page!Open \cup Consumed
    BY <1>1, <1>5
  <2> QED
    BY <1>1, <1>2, <1>3, <2>1, <2>2, ResultInv
<1> QED
  BY <1>4, <1>5

LEMMA ProposedInv ==
  ASSUME PageInv, Page!Proposed
  PROVE  PageInv'
<1> DEFINE k == calls["start"].token
           a == Page!Answer("start")
<1>1. /\ calls["start"] # Page!NoCall /\ calls["start"].call = "propose" /\ "start" \in Page!Makers
      /\ a = calls["start"].answer /\ a \in {"proposed", "confirmed"} \cup Page!Errors
      /\ busy' = FALSE /\ UNCHANGED <<executing, enabled, blocked, request, link>>
  BY AnswerFacts DEF Page!Proposed, Page!Makers, Page!server, AnswersTo
<1>2. k \in Page!Drafts
  BY <1>1, CallFacts
<1>3. items' \in {"none", "blank", "filled"}
  BY DEF Page!Proposed, PageInv, PageTypes
<1>4. GivesBack("start")
  BY <1>1, <1>3 DEF GivesBack, Page!Acts, PageInv, PageTypes
<1>5. CASE a \in Page!Errors
  BY <1>1, <1>4, <1>5, ErrorInv DEF Page!Proposed
<1>6. CASE a \notin Page!Errors
  <2>1. result' = result /\ stored' = stored /\ session' = k /\ Page!Goes(Page!StepOf(a), Page!Done("start"))
    BY <1>6 DEF Page!Proposed
  <2>2. a \in Page!Open
    BY <1>1, <1>6 DEF Page!Open
  <2> QED
    BY <1>1, <1>2, <1>4, <2>1, <2>2, SessionInv
<1> QED
  BY <1>5, <1>6

LEMMA ConfirmedInv ==
  ASSUME PageInv, Page!Confirmed
  PROVE  PageInv'
<1> DEFINE k == calls["confirm"].token
           a == Page!Answer("confirm")
<1>1. /\ calls["confirm"] # Page!NoCall /\ calls["confirm"].call = "confirm" /\ "confirm" \in Page!Makers
      /\ a = calls["confirm"].answer /\ a \in {"confirmed"} \cup Page!Errors
      /\ busy' = FALSE /\ UNCHANGED <<executing, items, enabled, blocked, request, link>>
  BY AnswerFacts DEF Page!Confirmed, Page!Makers, Page!server, AnswersTo
<1>2. k \in Page!Drafts
  BY <1>1, CallFacts
<1>4. GivesBack("confirm")
  BY <1>1 DEF GivesBack, Page!Acts, PageInv, PageTypes
<1>5. CASE a \in Page!Errors
  BY <1>1, <1>4, <1>5, ErrorInv DEF Page!Confirmed
<1>6. CASE a \notin Page!Errors
  <2>1. result' = result /\ stored' = stored /\ session' = k /\ Page!Goes(Page!StepOf(a), Page!Done("confirm"))
    BY <1>6 DEF Page!Confirmed
  <2>2. a \in Page!Open
    BY <1>1, <1>6 DEF Page!Open
  <2> QED
    BY <1>1, <1>2, <1>4, <2>1, <2>2, SessionInv
<1> QED
  BY <1>5, <1>6

LEMMA ExecutedInv ==
  ASSUME PageInv, Page!Executed
  PROVE  PageInv'
<1> DEFINE k == calls["run"].token
           a == Page!Answer("run")
<1>1. /\ calls["run"] # Page!NoCall /\ calls["run"].call = "execute" /\ "run" \in Page!Makers
      /\ a = calls["run"].answer /\ a \in Consumed \cup Page!Errors
      /\ UNCHANGED <<items, enabled, blocked, request, link>>
  BY AnswerFacts DEF Page!Executed, Page!Makers, Page!server, AnswersTo
<1>2. k \in Page!Drafts /\ request[k] # "absent"
  BY <1>1, CallFacts, NoDraft DEF PageInv, TokensExist
<1>3. busy' = FALSE /\ executing' = FALSE => GivesBack("run")
  BY <1>1 DEF GivesBack, Page!Acts, PageInv, PageTypes
<1>4. CASE a = "other"
  <2>1. Page!Call("run", "result", k) /\ UNCHANGED <<step, session, result, busy, executing, polling, stored>>
    BY <1>4 DEF Page!Executed
  <2>2. Page!OneAtATime'
    BY <1>1, <2>1, GoesOn
  <2>3. "run" \in Page!Makers \ {"start"} /\ "result" \in CallsOf("run") \ {"profile"}
    BY DEF Page!Makers, CallsOf
  <2>4. busy' \in BOOLEAN /\ executing' \in BOOLEAN
    BY <2>1 DEF PageInv, PageTypes
  <2>5. step # "loading"
    BY <1>1, Alone
  <2> QED
    BY <1>1, <1>2, <2>1, <2>2, <2>3, <2>4, <2>5, SendsInv
<1>5. CASE a \in {"fatal", "lost"}
  <2>1. Page!ApplyError(a, Page!Done("run")) /\ executing' = FALSE /\ busy' = FALSE
    BY <1>5 DEF Page!Executed
  <2> QED
    BY <1>1, <1>3, <1>5, <2>1, ErrorInv DEF Page!Errors
<1>6. CASE a \notin Page!Errors
  <2>1. /\ session' = session /\ stored' = stored /\ Page!ShowResult(k, a, Page!Done("run"))
        /\ executing' = FALSE /\ busy' = FALSE
    BY <1>6 DEF Page!Executed, Page!Errors
  <2>2. a \in Page!Open \cup Consumed
    BY <1>1, <1>6
  <2> QED
    BY <1>1, <1>2, <1>3, <2>1, <2>2, ResultInv
<1> QED
  BY <1>4, <1>5, <1>6 DEF Page!Errors

LEMMA ReadInsteadInv ==
  ASSUME PageInv, Page!ReadInstead
  PROVE  PageInv'
<1> DEFINE k == calls["run"].token
           a == Page!Answer("run")
<1>1. /\ calls["run"] # Page!NoCall /\ calls["run"].call = "result" /\ "run" \in Page!Makers
      /\ a = calls["run"].answer /\ a \in Page!Open \cup Consumed \cup Page!Errors
      /\ busy' = FALSE /\ executing' = FALSE
      /\ UNCHANGED <<items, enabled, blocked, request, link>>
  BY AnswerFacts DEF Page!ReadInstead, Page!Makers, Page!server, AnswersTo
<1>2. k \in Page!Drafts
  BY <1>1, CallFacts
<1>3. GivesBack("run")
  BY <1>1 DEF GivesBack, Page!Acts, PageInv, PageTypes
<1>4. CASE a \in Page!Errors
  BY <1>1, <1>3, <1>4, ErrorInv DEF Page!ReadInstead
<1>5. CASE a \notin Page!Errors
  <2>1. session' = session /\ stored' = stored /\ Page!ShowResult(k, a, Page!Done("run"))
    BY <1>5 DEF Page!ReadInstead
  <2>2. a \in Page!Open \cup Consumed
    BY <1>1, <1>5
  <2> QED
    BY <1>1, <1>2, <1>3, <2>1, <2>2, ResultInv
<1> QED
  BY <1>4, <1>5

LEMMA PolledInv ==
  ASSUME PageInv, Page!Polled
  PROVE  PageInv'
<1> DEFINE k == calls["poll"].token
           a == Page!Answer("poll")
<1>1. /\ calls["poll"] # Page!NoCall /\ calls["poll"].call = "result" /\ "poll" \in Page!Makers
      /\ a = calls["poll"].answer /\ a \in Page!Open \cup Consumed \cup Page!Errors
      /\ UNCHANGED <<busy, executing, items, enabled, blocked, request, link>>
  BY AnswerFacts DEF Page!Polled, Page!PolledIn, Page!Makers, Page!server, AnswersTo
<1>2. k \in Page!Drafts
  BY <1>1, CallFacts
<1>3. GivesBack("poll")
  BY <1>1 DEF GivesBack, Page!Acts, PageInv, PageTypes
<1>4. CASE a \in Page!Errors
  BY <1>1, <1>3, <1>4, ErrorInv DEF Page!Polled, Page!PolledIn
<1>5. CASE a \notin Page!Errors
  <2>1. session' = session /\ stored' = stored /\ Page!ShowResult(k, a, Page!Done("poll"))
    BY <1>5 DEF Page!Polled, Page!PolledIn
  <2>2. a \in Page!Open \cup Consumed
    BY <1>1, <1>5
  <2> QED
    BY <1>1, <1>2, <1>3, <2>1, <2>2, ResultInv
<1> QED
  BY <1>4, <1>5

LEMMA TickInv ==
  ASSUME PageInv, Page!Tick
  PROVE  PageInv'
<1>1. /\ step = "processing" /\ polling = stored /\ stored # Page!NoToken /\ calls["poll"] = Page!NoCall
      /\ Page!Call("poll", "result", stored)
      /\ UNCHANGED <<step, session, result, polling, items, enabled, stored, blocked, request, link,
                     busy, executing>>
  BY DEF Page!Tick, PageInv, PollsWhileProcessing, Page!page, Page!server
<1>2. stored \in Page!Drafts /\ request[stored] # "absent" /\ busy' \in BOOLEAN /\ executing' \in BOOLEAN
  BY <1>1 DEF PageInv, PageTypes, TokensExist
<1>3. "poll" \in Page!Makers \ {"start"} /\ "result" \in CallsOf("poll") \ {"profile"} /\ "poll" \notin Page!Acts
  BY DEF Page!Makers, CallsOf, Page!Acts
<1>4. Page!OneAtATime'
  BY <1>1, <1>3, GoesOn
<1> QED
  BY <1>1, <1>2, <1>3, <1>4, SendsInv

LEMMA AsksInv ==
  ASSUME PageInv, Page!ConfirmRequirements
  PROVE  PageInv'
<1>1. /\ step = "requirements" /\ ~busy /\ stored # Page!NoToken /\ busy' = TRUE /\ Page!Call("confirm", "confirm", stored)
      /\ UNCHANGED <<step, session, result, polling, items, enabled, stored, blocked, request, link, executing>>
  BY DEF Page!ConfirmRequirements, Page!server
<1>2. stored \in Page!Drafts /\ request[stored] # "absent" /\ busy' \in BOOLEAN /\ executing' \in BOOLEAN
  BY <1>1 DEF PageInv, PageTypes, TokensExist
<1>3. "confirm" \in Page!Makers \ {"start"} /\ "confirm" \in CallsOf("confirm") \ {"profile"}
  BY DEF Page!Makers, CallsOf
<1>4. Page!OneAtATime'
  <2>1. Page!InProgress = {} /\ ~executing
    BY <1>1 DEF PageInv, Page!OneAtATime
  <2>2. \A u \in Page!Makers \ {"confirm"} : calls'[u] = calls[u]
    BY <1>1 DEF Page!Call, PageInv, PageTypes
  <2>3. calls'["confirm"] # Page!NoCall
    <3>1. calls \in [Page!Makers -> CallRecords]
      BY DEF PageInv, PageTypes, CallRecords
    <3>2. PICK c \in CallRecords : c = calls["confirm"]
      BY <1>3, CallFacts
    <3>3. calls' = [calls EXCEPT !["confirm"] =
                      [c EXCEPT !.call = "confirm", !.at = "sent", !.token = stored, !.answer = "none"]]
      BY <1>1, <1>3, <3>1, <3>2 DEF Page!Call
    <3>4. [c EXCEPT !.call = "confirm", !.at = "sent", !.token = stored, !.answer = "none"].call = "confirm"
      BY DEF CallRecords
    <3> QED
      BY <1>3, <3>1, <3>3, <3>4, NoCallFacts
  <2>4. Page!InProgress' = {"confirm"}
    BY <2>1, <2>2, <2>3 DEF Page!InProgress, Page!Acts, Page!Makers
  <2> QED
    BY <1>1, <2>1, <2>4 DEF Page!OneAtATime
<1> QED
  BY <1>1, <1>2, <1>3, <1>4, SendsInv

\* What is awaited at a step.
LEMMA AwaitedAt ==
  ASSUME PageInv
  PROVE  /\ step # "loading" => calls["load"] = Page!NoCall
         /\ step \notin {"objective", "requirements"} => calls["start"] = Page!NoCall
         /\ step # "requirements" => calls["confirm"] = Page!NoCall
         /\ step # "processing" => calls["poll"] = Page!NoCall
         /\ ~busy => \A u \in Page!Acts : calls[u] = Page!NoCall
<1>1. calls["start"] # Page!NoCall => calls["start"].call \in {"create", "propose"}
  BY CallFacts DEF CallsOf, Page!Makers
<1> QED
  BY <1>1 DEF PageInv, LoadsAlone, PollsWhileProcessing, ActsOnStored, Page!OneAtATime,
     Page!InProgress

\* A step other than the polling is reached with one call at most, which says nothing yet.
LEMMA QuietInv ==
  ASSUME PageInv, NEW d \in CallRecords, NEW m \in Page!Makers,
         calls' \in [Page!Makers -> CallRecords],
         \A u \in Page!Makers : calls'[u] \in {Page!NoCall, calls[u]} \/ (u = m /\ calls'[u] = d),
         d.call \in CallsOf(m) /\ d.at = "sent" /\ d.answer = "none",
         d.call \in {"profile", "create"} => d.token = Page!NoToken,
         d.call \notin {"profile", "create"} => d.token \in Page!Drafts /\ request[d.token] # "absent",
         UNCHANGED request, stored' # Page!NoToken => request[stored'] # "absent",
         calls'["poll"].answer \in Page!Open => session' # Page!NoToken
  PROVE  CallShape' /\ TokensExist' /\ AnswersHold'
<1>1. CallShape'
  BY NoDraft DEF PageInv, CallShape
<1>2. TokensExist'
  BY NoCallFacts, NoDraft DEF PageInv, TokensExist
<1>3. AnswersHold'
  <2>1. "none" \notin Consumed \cup Page!Open
    BY DEF Consumed, Page!Open, Page!Ended
  <2> QED
    BY <2>1, NoCallFacts DEF PageInv, AnswersHold
<1> QED
  BY <1>1, <1>2, <1>3

LEMMA StartInv ==
  ASSUME PageInv, Page!StartSession
  PROVE  PageInv'
<1> DEFINE d == [Page!NoCall EXCEPT !.call = "create", !.at = "sent", !.had = (items # "none")]
<1>1. /\ step = "objective" /\ ~busy /\ busy' = TRUE /\ calls' = [calls EXCEPT !["start"] = d]
      /\ UNCHANGED <<step, session, result, executing, items, enabled, polling, stored, blocked, request, link>>
  BY DEF Page!StartSession, Page!server
<1>2. /\ d \in CallRecords /\ d.call = "create" /\ d.at = "sent" /\ d.token = Page!NoToken /\ d.answer = "none"
      /\ d # Page!NoCall
  BY DEF Page!NoCall, CallRecords, CallNames, AnswerNames
<1> HIDE DEF d
<1>3. calls \in [Page!Makers -> CallRecords] /\ "start" \in Page!Makers /\ "start" \in Page!Acts
  BY DEF PageInv, PageTypes, CallRecords, Page!Makers, Page!Acts
<1>4. calls' \in [Page!Makers -> CallRecords] /\ \A u \in Page!Makers : calls'[u] = IF u = "start" THEN d ELSE Page!NoCall
  BY <1>1, <1>2, <1>3, AwaitedAt DEF Page!Makers, Page!Acts
<1>5. session = Page!NoToken /\ result = Page!NoResult /\ polling = Page!NoToken
  BY <1>1 DEF PageInv, StoredIsShown, PollsWhileProcessing
<1>6. CallShape' /\ TokensExist' /\ AnswersHold'
  <2>1. d.call \in CallsOf("start")
    BY <1>2 DEF CallsOf
  <2>2. calls'["poll"].answer \notin Page!Open
    BY <1>4, NoCallFacts DEF Page!Makers, Page!Open
  <2>3. stored' # Page!NoToken => request[stored'] # "absent"
    BY <1>1 DEF PageInv, TokensExist
  <2>4. \A u \in Page!Makers : calls'[u] \in {Page!NoCall, calls[u]} \/ (u = "start" /\ calls'[u] = d)
    BY <1>4
  <2> QED
    BY <1>1, <1>2, <1>3, <1>4, <2>1, <2>2, <2>3, <2>4, QuietInv
<1>7. PageTypes'
  BY <1>1, <1>4 DEF PageInv, PageTypes, CallRecords
<1>8. LoadsAlone' /\ PollsWhileProcessing' /\ ActsOnStored'
  BY <1>1, <1>2, <1>4, <1>5, NoCallFacts
     DEF PageInv, LoadsAlone, PollsWhileProcessing, ActsOnStored, Page!Makers
<1>9. StoredIsShown' /\ ResultHolds'
  BY <1>1 DEF PageInv, StoredIsShown, ResultHolds
<1>10. SessionBeforeRun'
  BY <1>1, <1>4 DEF SessionBeforeRun, Page!Makers
<1>11. Page!OneAtATime'
  <2>1. ~executing
    BY <1>1 DEF PageInv, Page!OneAtATime
  <2>2. Page!InProgress' = {"start"}
    BY <1>2, <1>4 DEF Page!InProgress, Page!Acts, Page!Makers
  <2> QED
    BY <1>1, <2>1, <2>2 DEF Page!OneAtATime
<1> QED
  BY <1>6, <1>7, <1>8, <1>9, <1>10, <1>11 DEF PageInv

LEMMA CreatedInv ==
  ASSUME PageInv, Page!Created
  PROVE  PageInv'
<1> DEFINE a == Page!Answer("start")
<1>1. /\ calls["start"] # Page!NoCall /\ calls["start"].call = "create" /\ "start" \in Page!Makers /\ "start" \in Page!Acts
      /\ a = calls["start"].answer /\ a \in {"created", "fatal", "other"}
      /\ UNCHANGED <<executing, enabled, blocked, request, link>>
  BY AnswerFacts DEF Page!Created, Page!Makers, Page!Acts, Page!server, AnswersTo
<1>2. step = "objective" /\ session = Page!NoToken /\ result = Page!NoResult
  BY <1>1 DEF PageInv, ActsOnStored, StoredIsShown
<1>3. CASE a # "created"
  <2>1. Page!ApplyError(a, Page!Done("start")) /\ busy' = FALSE /\ items' = items
    BY <1>3 DEF Page!Created
  <2>2. GivesBack("start")
    BY <1>1, <2>1 DEF GivesBack, Page!Acts, PageInv, PageTypes
  <2>3. a \in Page!Errors
    BY <1>1, <1>3 DEF Page!Errors
  <2> QED
    BY <1>1, <2>1, <2>2, <2>3, ErrorInv
<1>4. CASE a = "created"
  <2>1. PICK c \in CallRecords : c = calls["start"]
    BY <1>1, CallFacts
  <2>2. PICK k \in Page!Drafts : k = calls["start"].token /\ request[k] # "absent"
    <3>1. calls["start"].token # Page!NoToken
      BY <1>1, <1>4 DEF PageInv, CallShape
    <3> QED
      BY <1>1, <2>1, <3>1 DEF CallRecords, PageInv, TokensExist
  <2> DEFINE d == [c EXCEPT !.call = "propose", !.at = "sent", !.answer = "none"]
  <2>3. /\ stored' = (IF blocked THEN Page!NoToken ELSE k) /\ session' = k /\ items' = "none"
        /\ result' = result /\ busy' = busy
        /\ Page!Goes("requirements", [calls EXCEPT !["start"] = d])
    BY <1>1, <1>4, <2>1, <2>2 DEF Page!Created, Page!Store, PageInv, PageTypes
  <2>4. d \in CallRecords /\ d.call = "propose" /\ d.at = "sent" /\ d.token = k /\ d.answer = "none"
    BY <2>1, <2>2 DEF CallRecords, CallNames, AnswerNames
  <2> HIDE DEF d
  <2>5. d # Page!NoCall
    BY <2>4, NoCallFacts
  <2>6. calls \in [Page!Makers -> CallRecords] /\ Page!NoCall \in CallRecords
    BY NoCallFacts DEF PageInv, PageTypes, CallRecords
  <2>7. /\ step' = "requirements" /\ polling' = Page!NoToken
        /\ calls' = [[calls EXCEPT !["start"] = d] EXCEPT !["poll"] = Page!NoCall]
    BY <2>3 DEF Page!Goes
  <2>8. \A u \in Page!Makers \ {"start"} : calls[u] = Page!NoCall
    BY <1>1, <1>2, Alone, AwaitedAt DEF Page!Makers, Page!Acts
  <2>9. calls' \in [Page!Makers -> CallRecords] /\ \A u \in Page!Makers : calls'[u] = IF u = "start" THEN d ELSE Page!NoCall
    BY <2>4, <2>6, <2>7, <2>8 DEF Page!Makers
  <2>10. stored' \in {Page!NoToken, k}
    BY <2>3
  <2>11. CallShape' /\ TokensExist' /\ AnswersHold'
    <3>1. d.call \in CallsOf("start")
      BY <2>4 DEF CallsOf
    <3>2. calls'["poll"].answer \notin Page!Open
      BY <2>9, NoCallFacts DEF Page!Makers, Page!Open
    <3>3. stored' # Page!NoToken => request[stored'] # "absent"
      BY <2>2, <2>10
    <3>4. \A u \in Page!Makers : calls'[u] \in {Page!NoCall, calls[u]} \/ (u = "start" /\ calls'[u] = d)
      BY <2>9
    <3> QED
      BY <1>1, <2>2, <2>4, <2>9, <3>1, <3>2, <3>3, <3>4, QuietInv
  <2>12. PageTypes'
    BY <1>1, <2>3, <2>7, <2>9, <2>10 DEF PageInv, PageTypes, CallRecords
  <2>13. LoadsAlone' /\ PollsWhileProcessing' /\ ActsOnStored'
    BY <1>1, <1>2, <2>3, <2>4, <2>7, <2>9, NoCallFacts
       DEF LoadsAlone, PollsWhileProcessing, ActsOnStored, Page!Makers
  <2>14. StoredIsShown' /\ ResultHolds'
    BY <1>2, <2>3, <2>7, <2>10
       DEF StoredIsShown, ResultHolds, Page!NoResult, Consumed, Page!Ended
  <2>15. SessionBeforeRun'
    BY <2>7, <2>9 DEF SessionBeforeRun, Page!Makers
  <2>16. Page!OneAtATime'
    <3>1. Page!InProgress' = Page!InProgress
      BY <1>1, <2>5, <2>8, <2>9 DEF Page!InProgress, Page!Acts, Page!Makers
    <3> QED
      BY <1>1, <2>3, <3>1 DEF PageInv, Page!OneAtATime
  <2> QED
    BY <2>11, <2>12, <2>13, <2>14, <2>15, <2>16 DEF PageInv
<1> QED
  BY <1>3, <1>4

LEMMA EditInv ==
  ASSUME PageInv, Page!EditItems
  PROVE  PageInv'
<1>1. /\ items' \in {"none", "blank", "filled"}
      /\ UNCHANGED <<step, session, result, busy, executing, enabled, polling, calls, stored,
                     blocked, request, link>>
  BY DEF Page!EditItems, Page!server
<1>2. PageTypes' /\ CallShape' /\ TokensExist' /\ AnswersHold'
  BY <1>1 DEF PageInv, PageTypes, CallShape, TokensExist, AnswersHold
<1>3. LoadsAlone' /\ PollsWhileProcessing' /\ ActsOnStored' /\ StoredIsShown'
  BY <1>1 DEF PageInv, LoadsAlone, PollsWhileProcessing, ActsOnStored, StoredIsShown
<1>4. ResultHolds' /\ SessionBeforeRun' /\ Page!OneAtATime'
  BY <1>1 DEF PageInv, ResultHolds, SessionBeforeRun, Page!OneAtATime, Page!InProgress
<1> QED
  BY <1>2, <1>3, <1>4 DEF PageInv

LEMMA RunInv ==
  ASSUME PageInv, Page!RunAnalysis
  PROVE  PageInv'
<1> DEFINE d == [Page!NoCall EXCEPT !.call = "execute", !.at = "sent", !.token = stored]
<1>1. /\ step = "ready" \/ (step = "failed" /\ result.is = "retryable")
      /\ ~busy /\ stored # Page!NoToken /\ ~executing /\ executing' = TRUE /\ busy' = TRUE
      /\ Page!Goes("processing", [calls EXCEPT !["run"] = d])
      /\ UNCHANGED <<session, result, items, enabled, stored, blocked, request, link>>
  BY DEF Page!RunAnalysis, Page!server
<1>2. stored \in Page!Drafts /\ request[stored] # "absent"
  BY <1>1 DEF PageInv, PageTypes, TokensExist
<1>3. d \in CallRecords /\ d.call = "execute" /\ d.at = "sent" /\ d.token = stored /\ d.answer = "none"
  BY <1>2 DEF Page!NoCall, CallRecords, CallNames, AnswerNames
<1> HIDE DEF d
<1>4. d # Page!NoCall
  BY <1>3, NoCallFacts
<1>5. step' = "processing" /\ polling' = stored /\ calls' = [calls EXCEPT !["run"] = d]
  BY <1>1 DEF Page!Goes
<1>6. calls' \in [Page!Makers -> CallRecords] /\ \A u \in Page!Makers : calls'[u] = IF u = "run" THEN d ELSE Page!NoCall
  <2>1. calls \in [Page!Makers -> CallRecords]
    BY DEF PageInv, PageTypes, CallRecords
  <2>2. \A u \in Page!Makers \ {"run"} : calls[u] = Page!NoCall
    BY <1>1, AwaitedAt DEF Page!Makers, Page!Acts
  <2> QED
    BY <1>3, <1>5, <2>1, <2>2 DEF Page!Makers
<1>7. CallShape' /\ TokensExist' /\ AnswersHold'
  <2>1. d.call \in CallsOf("run") /\ "run" \in Page!Makers
    BY <1>3 DEF CallsOf, Page!Makers
  <2>2. calls'["poll"].answer \notin Page!Open
    BY <1>6, NoCallFacts DEF Page!Makers, Page!Open
  <2>4. \A u \in Page!Makers : calls'[u] \in {Page!NoCall, calls[u]} \/ (u = "run" /\ calls'[u] = d)
    BY <1>6
  <2> QED
    BY <1>1, <1>2, <1>3, <1>6, <2>1, <2>2, <2>4, QuietInv
<1>8. PageTypes'
  BY <1>1, <1>2, <1>5, <1>6 DEF PageInv, PageTypes, CallRecords
<1>9. LoadsAlone' /\ PollsWhileProcessing' /\ ActsOnStored'
  BY <1>1, <1>3, <1>5, <1>6, NoCallFacts
     DEF PageInv, LoadsAlone, PollsWhileProcessing, ActsOnStored, Page!Makers
<1>10. StoredIsShown' /\ ResultHolds'
  BY <1>1, <1>5 DEF PageInv, StoredIsShown, ResultHolds
<1>11. SessionBeforeRun'
  <2>1. step = "ready" => session # Page!NoToken
    BY <1>1 DEF PageInv, SessionBeforeRun
  <2>2. result.is = "retryable" => request[stored] \in Consumed
    <3>1. "retryable" \in Consumed
      BY DEF Consumed, Page!Ended
    <3> QED
      BY <1>1, <3>1 DEF PageInv, ResultHolds, StoredIsShown
  <2> QED
    BY <1>1, <1>5, <2>1, <2>2 DEF SessionBeforeRun
<1>12. Page!OneAtATime'
  <2>1. Page!InProgress' = {"run"}
    BY <1>4, <1>6 DEF Page!InProgress, Page!Acts, Page!Makers
  <2> QED
    BY <1>1, <2>1 DEF Page!OneAtATime
<1> QED
  BY <1>7, <1>8, <1>9, <1>10, <1>11, <1>12 DEF PageInv

LEMMA AnewInv ==
  ASSUME PageInv, Page!StartNewAnalysis
  PROVE  PageInv'
<1>1. /\ step = "completed" \/ (step = "failed" /\ result.is = "failed")
      /\ items' = "none" /\ session' = Page!NoToken /\ result' = Page!NoResult /\ Page!Goes("objective", calls)
      /\ UNCHANGED <<busy, executing, enabled, stored, blocked, request, link>>
  BY DEF Page!StartNewAnalysis, Page!server
<1>2. step' = "objective" /\ polling' = Page!NoToken /\ calls["poll"] = Page!NoCall
  BY <1>1, AwaitedAt DEF Page!Goes
<1>3. calls \in [Page!Makers -> CallRecords]
  BY DEF PageInv, PageTypes, CallRecords
<1>4. calls' = calls
  BY <1>1, <1>2, <1>3 DEF Page!Goes, Page!Makers
<1>5. \A u \in Page!Makers \ {"run"} : calls[u] = Page!NoCall
  BY <1>1, AwaitedAt DEF Page!Makers
<1>6. PageTypes' /\ CallShape' /\ TokensExist'
  BY <1>1, <1>2, <1>4 DEF PageInv, PageTypes, CallShape, TokensExist, Page!NoResult
<1>7. AnswersHold'
  BY <1>1, <1>2, <1>4, NoCallFacts DEF PageInv, AnswersHold, Page!Open
<1>8. LoadsAlone' /\ PollsWhileProcessing' /\ ActsOnStored'
  BY <1>1, <1>2, <1>4, <1>5, NoCallFacts
     DEF PageInv, LoadsAlone, PollsWhileProcessing, ActsOnStored, Page!Makers
<1>9. StoredIsShown' /\ ResultHolds'
  BY <1>1, <1>2 DEF StoredIsShown, ResultHolds, Page!NoResult, Consumed, Page!Ended
<1>10. SessionBeforeRun'
  <2>1. result.is \in {"completed", "failed"} /\ {"completed", "failed"} \subseteq Consumed
    BY <1>1 DEF PageInv, ResultHolds, Consumed, Page!Ended
  <2>2. stored # Page!NoToken => request[stored] \in Consumed
    BY <2>1 DEF PageInv, ResultHolds, StoredIsShown
  <2> QED
    BY <1>1, <1>2, <2>2 DEF SessionBeforeRun
<1>11. Page!OneAtATime'
  BY <1>1, <1>4 DEF PageInv, Page!OneAtATime, Page!InProgress
<1> QED
  BY <1>6, <1>7, <1>8, <1>9, <1>10, <1>11 DEF PageInv

\* The page as it is opened: only the storage outlives another one.
Opened ==
  /\ step = "loading" /\ session = Page!NoToken /\ result = Page!NoResult /\ polling = Page!NoToken
  /\ busy = FALSE /\ executing = FALSE /\ items = "none" /\ enabled = FALSE
  /\ calls = Page!Opening
  /\ stored \in Page!Drafts \cup {Page!NoToken} /\ blocked \in BOOLEAN /\ (blocked => stored = Page!NoToken)
  /\ request \in [Page!Drafts -> Page!Statuses] /\ (stored # Page!NoToken => request[stored] # "absent")
  /\ link \in {"open", "disabled", "revoked"}

LEMMA OpenedInv == Opened => PageInv
<1> SUFFICES ASSUME Opened PROVE PageInv
  OBVIOUS
<1> DEFINE d == [Page!NoCall EXCEPT !.call = "profile", !.at = "sent"]
<1>1. /\ d \in CallRecords /\ d.call = "profile" /\ d.at = "sent" /\ d.token = Page!NoToken /\ d.answer = "none"
  BY DEF Page!NoCall, CallRecords, CallNames, AnswerNames
<1>2. calls = [u \in Page!Makers |-> IF u = "load" THEN d ELSE Page!NoCall]
  BY DEF Opened, Page!Opening
<1> HIDE DEF d
<1>3. d # Page!NoCall
  BY <1>1, NoCallFacts
<1>4. calls \in [Page!Makers -> CallRecords] /\ \A u \in Page!Makers : calls[u] = IF u = "load" THEN d ELSE Page!NoCall
  BY <1>1, <1>2, NoCallFacts
<1>5. PageTypes
  BY <1>4 DEF Opened, PageTypes, CallRecords, Page!NoResult
<1>6. CallShape
  <2>1. d.call \in CallsOf("load")
    BY <1>1 DEF CallsOf
  <2> QED
    BY <1>1, <1>4, <2>1 DEF CallShape
<1>7. TokensExist
  BY <1>1, <1>4, NoCallFacts DEF Opened, TokensExist
<1>8. AnswersHold
  <2>1. \A u \in Page!Makers : calls[u].answer = "none"
    BY <1>1, <1>4, NoCallFacts
  <2> QED
    BY <2>1 DEF AnswersHold, Consumed, Page!Open, Page!Ended
<1>9. LoadsAlone /\ PollsWhileProcessing /\ ActsOnStored
  BY <1>1, <1>4, NoCallFacts DEF Opened, LoadsAlone, PollsWhileProcessing, ActsOnStored, Page!Makers
<1>10. StoredIsShown /\ ResultHolds /\ SessionBeforeRun
  BY <1>4 DEF Opened, StoredIsShown, ResultHolds, SessionBeforeRun, Page!NoResult, Consumed,
     Page!Ended, Page!Makers
<1>11. Page!OneAtATime
  BY <1>4 DEF Opened, Page!OneAtATime, Page!InProgress, Page!Acts, Page!Makers
<1> QED
  BY <1>5, <1>6, <1>7, <1>8, <1>9, <1>10, <1>11 DEF PageInv

LEMMA ReloadInv ==
  ASSUME PageInv, Page!Reload
  PROVE  PageInv'
<1>1. Opened'
  <2>1. /\ step' = "loading" /\ session' = Page!NoToken /\ result' = Page!NoResult /\ polling' = Page!NoToken
        /\ busy' = FALSE /\ executing' = FALSE /\ items' = "none" /\ enabled' = FALSE
        /\ calls' = Page!Opening' /\ UNCHANGED <<stored, blocked, request, link>>
    BY DEF Page!Reload, Page!server, Page!Opening
  <2> QED
    BY <2>1 DEF Opened, PageInv, PageTypes, TokensExist, ActsOnStored
<1> QED
  BY <1>1, OpenedInv, PTL

-----------------------------------------------------------------------------
LEMMA PageStays ==
  ASSUME PageInv, UNCHANGED Page!vars
  PROVE  PageInv'
<1>1. UNCHANGED <<step, session, result, busy, executing, items, enabled, polling, calls, stored,
                  blocked, request, link>>
  BY DEF Page!vars, Page!page, Page!server
<1>2. PageTypes' /\ CallShape' /\ TokensExist' /\ AnswersHold'
  BY <1>1 DEF PageInv, PageTypes, CallShape, TokensExist, AnswersHold
<1>3. LoadsAlone' /\ PollsWhileProcessing' /\ ActsOnStored' /\ StoredIsShown'
  BY <1>1 DEF PageInv, LoadsAlone, PollsWhileProcessing, ActsOnStored, StoredIsShown
<1>4. ResultHolds' /\ SessionBeforeRun' /\ Page!OneAtATime'
  BY <1>1 DEF PageInv, ResultHolds, SessionBeforeRun, Page!OneAtATime, Page!InProgress
<1> QED
  BY <1>2, <1>3, <1>4 DEF PageInv

LEMMA PageNextInv ==
  ASSUME PageInv, [Page!Next]_(Page!vars)
  PROVE  PageInv'
<1>1. CASE Page!Person
  BY <1>1, ReloadInv, StartInv, EditInv, AsksInv, RunInv, AnewInv DEF Page!Person
<1>2. CASE Page!Continues
  BY <1>2, ProfileInv, SessionReadInv, LoadedResultInv, CreatedInv, ProposedInv, ConfirmedInv,
     ExecutedInv, ReadInsteadInv, PolledInv DEF Page!Continues
<1>3. CASE Page!Tick
  BY <1>3, TickInv
<1>4. CASE \E m \in Page!Makers : Page!Serve(m) \/ Page!Lose(m)
  BY <1>4, RefusedInv, ReadInv, CreateInv, ProposeInv, ConfirmInv, ExecuteInv, FinishInv,
     LoseInv DEF Page!Serve
<1>5. CASE Page!ChangeLink \/ \E k \in Page!Drafts : Page!RunEnds(k) \/ Page!Expire(k)
  BY <1>5, ServerInv
<1>6. CASE UNCHANGED Page!vars
  BY <1>6, PageStays
<1> QED
  BY <1>1, <1>2, <1>3, <1>4, <1>5, <1>6 DEF Page!Next

\* The invariant of the page holds whatever its reader does, the API answers and
\* the network loses (public-analysis-route.tsx, analysis-flow.ts).
THEOREM PageInvariant == Page!Spec => []PageInv
<1>1. Page!Init => PageInv
  <2>1. Page!Init => Opened
    BY DEF Page!Init, Opened, Page!Statuses
  <2> QED
    BY <2>1, OpenedInv
<1>2. PageInv /\ [Page!Next]_(Page!vars) => PageInv'
  BY PageNextInv
<1> QED
  BY <1>1, <1>2, PTL DEF Page!Spec

\* However late an answer comes, the screen shows the request whose token is kept;
\* one action is in progress at a time and every one gives the buttons back; and no
\* step of the route is reached without what its screen shows.
THEOREM PageTellsOneRequest == Page!Spec => []Page!ShownIsStored /\ []Page!OneAtATime /\ []Page!NeverBlank
<1>1. PageInv => Page!ShownIsStored /\ Page!OneAtATime
  BY DEF PageInv, StoredIsShown, Page!ShownIsStored
<1>2. PageInv => Page!NeverBlank
  <2>1. PageInv => (step = "processing" => polling # Page!NoToken)
    BY DEF PageInv, PollsWhileProcessing
  <2> QED
    BY <2>1 DEF PageInv, ResultHolds, SessionBeforeRun, Page!NeverBlank
<1> QED
  BY <1>1, <1>2, PageInvariant, PTL

=============================================================================
