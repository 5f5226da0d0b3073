--------------------------- MODULE ProfileSharing ---------------------------
(***************************************************************************)
(* The links a holder shares and what each of them allows:                 *)
(* src/services/api/src/profile-sharing/profile-sharing.service.ts,        *)
(* share-lifecycle.ts, share-token-recovery.ts and                         *)
(* share-verification-policy.service.ts.                                   *)
(*                                                                         *)
(* A link is a SharingGrant with a token sealed under the key of the       *)
(* deployment and, once the holder decides so, a policy: whether contextual*)
(* verification is enabled and over which credentials.  The policy is read *)
(* and checked outside the transaction that replaces it.  A task is one    *)
(* request in progress.                                                    *)
(***************************************************************************)
EXTENDS Naturals, Sequences, FiniteSets

CONSTANTS
    Credentials,   \* the credentials of the holder
    Tasks,         \* requests that may be in progress at once
    MaxGrants,     \* bound: links created
    MaxVersions,   \* bound: versions of a policy
    MaxSealKeys    \* bound: keys the deployment has had

NoTask == "no task"

SetsAssumption == /\ Credentials # {} /\ IsFiniteSet(Credentials)
                  /\ Tasks # {} /\ IsFiniteSet(Tasks) /\ NoTask \notin Tasks
BoundsAssumption == {MaxGrants, MaxVersions} \subseteq Nat /\ MaxSealKeys \in Nat \ {0}

VARIABLES
    states,    \* Credential.status
    key,       \* the key in the environment, 0 when none is configured
    grants,    \* SharingGrant rows, in order of creation
    policies,  \* the ShareVerificationPolicy of each grant
    intents,   \* what the holder asked for, version by version, of each grant
    call       \* the requests in progress

sharingVars == <<states, key, grants, policies, intents, call>>

Intents == [enabled : BOOLEAN, ids : SUBSET Credentials]
NoIntent == [enabled |-> FALSE, ids |-> {}]

\* revoked is the request whose time is in revokedAt; sealed, the key of tokenRecovery.
Grants == [revoked : Tasks \cup {NoTask}, expired : BOOLEAN, sealed : 1..MaxSealKeys]

\* enabledAt and disabledAt are the version that set them, 0 when none did.
Policies == [version : 0..MaxVersions, enabled : BOOLEAN, ids : SUBSET Credentials,
             enabledAt : 0..MaxVersions, disabledAt : 0..MaxVersions]
NoPolicy == [version |-> 0, enabled |-> FALSE, ids |-> {}, enabledAt |-> 0, disabledAt |-> 0]

NoCall == [op |-> "none", at |-> "idle", grant |-> 0, request |-> NoIntent,
           base |-> NoPolicy, version |-> 0, mark |-> NoTask, shown |-> FALSE]

SharingInit ==
    /\ states \in [Credentials -> {"draft", "issued"}]
    /\ key \in 0..1
    /\ grants = << >> /\ policies = << >> /\ intents = << >>
    /\ call = [t \in Tasks |-> NoCall]

CallAt(t, place) == call[t].at = place
Go(t, place) == call' = [call EXCEPT ![t].at = place]
End(t) == call' = [call EXCEPT ![t] = NoCall]

ShareActive(g) == grants[g].revoked = NoTask /\ ~grants[g].expired
Effective(ids) == {c \in ids : states[c] = "issued"}

-----------------------------------------------------------------------------
(* Around the service.                                                      *)

CredentialChanges(c) ==
    /\ \/ states[c] = "draft" /\ states' = [states EXCEPT ![c] = "issued"]
       \/ states[c] = "issued" /\ states' = [states EXCEPT ![c] = "revoked"]
    /\ UNCHANGED <<key, grants, policies, intents, call>>

\* The operator configures another key, or none.
ChangeKey ==
    /\ key' \in {0} \cup {k \in 1..MaxSealKeys : k = key + 1}
    /\ key' # key
    /\ UNCHANGED <<states, grants, policies, intents, call>>

\* A link whose expiration was loaded by other means passes it.
Expire(g) ==
    /\ ~grants[g].expired
    /\ grants' = [grants EXCEPT ![g].expired = TRUE]
    /\ UNCHANGED <<states, key, policies, intents, call>>

-----------------------------------------------------------------------------
(* Links.                                                                   *)

\* Mutant of Sealable: a link is created although its token cannot be sealed.
SealableAlways == TRUE

\* The token is sealed before anything is inserted.
Sealable == key # 0

CreateShare ==
    /\ Sealable
    /\ Len(grants) < MaxGrants
    /\ grants' = Append(grants, [revoked |-> NoTask, expired |-> FALSE, sealed |-> key])
    /\ policies' = Append(policies, NoPolicy)
    /\ intents' = Append(intents, << >>)
    /\ UNCHANGED <<states, key, call>>

\* The link itself is handed out again while it is not revoked and the key is
\* the one it was sealed with.
RecoverLink(t, g) ==
    /\ CallAt(t, "idle")
    /\ grants[g].revoked = NoTask /\ grants[g].sealed = key
    /\ call' = [call EXCEPT ![t] = [NoCall EXCEPT !.op = "recover", !.at = "answer",
                                                !.grant = g]]
    /\ UNCHANGED <<states, key, grants, policies, intents>>

\* A revocation reads, compares and sets, and reads again for its answer.
Revoke(t, g) ==
    /\ CallAt(t, "idle")
    /\ call' = [call EXCEPT ![t] =
                   IF grants[g].revoked # NoTask
                   THEN [NoCall EXCEPT !.op = "revoke", !.at = "answer", !.grant = g,
                                     !.mark = grants[g].revoked]
                   ELSE [NoCall EXCEPT !.op = "revoke", !.at = "set", !.grant = g]]
    /\ UNCHANGED <<states, key, grants, policies, intents>>

Marked(g, t) ==
    IF grants[g].revoked = NoTask THEN [grants EXCEPT ![g].revoked = t] ELSE grants

SetRevoked(t) ==
    /\ CallAt(t, "set")
    /\ grants' = Marked(call[t].grant, t)
    /\ Go(t, "reread")
    /\ UNCHANGED <<states, key, policies, intents>>

ReadRevoked(t) ==
    /\ CallAt(t, "reread")
    /\ call' = [call EXCEPT ![t].mark = grants[call[t].grant].revoked, ![t].at = "answer"]
    /\ UNCHANGED <<states, key, grants, policies, intents>>

-----------------------------------------------------------------------------
(* The public reader.                                                       *)

View(t, g) ==
    /\ CallAt(t, "idle") /\ ShareActive(g)
    /\ call' = [call EXCEPT ![t] = [NoCall EXCEPT !.op = "view", !.at = "count", !.grant = g,
                                                !.base = policies[g]]]
    /\ UNCHANGED <<states, key, grants, policies, intents>>

Available(p) == p.version > 0 /\ p.enabled /\ Effective(p.ids) # {}

CountIssued(t) ==
    /\ CallAt(t, "count")
    /\ call' = [call EXCEPT ![t].shown = Available(call[t].base), ![t].at = "answer"]
    /\ UNCHANGED <<states, key, grants, policies, intents>>

-----------------------------------------------------------------------------
(* The policy of a link.                                                    *)

Replace(t, g, request) ==
    /\ CallAt(t, "idle")
    /\ ShareActive(g)
    /\ request.enabled => request.ids # {}
    /\ call' = [call EXCEPT ![t] = [NoCall EXCEPT !.op = "replace", !.at = "validate",
                                                !.grant = g, !.request = request,
                                                !.base = policies[g]]]
    /\ UNCHANGED <<states, key, grants, policies, intents>>

Authorizable(added) == \A c \in added : states[c] = "issued"

\* Mutant of Unchanged: the first version is not compared.
UnchangedAfterFirst(base, request) ==
    base.version > 1 /\ base.enabled = request.enabled /\ base.ids = request.ids

Unchanged(base, request) ==
    base.version > 0 /\ base.enabled = request.enabled /\ base.ids = request.ids

Validate(t) ==
    /\ CallAt(t, "validate")
    /\ LET base == call[t].base
           request == call[t].request IN
       IF ~Authorizable(request.ids \ base.ids) THEN End(t)
       ELSE IF Unchanged(base, request)
            THEN call' = [call EXCEPT ![t].version = base.version, ![t].at = "answer"]
            ELSE Go(t, "write")
    /\ UNCHANGED <<states, key, grants, policies, intents>>

\* Mutant of NextVersion: the version is computed from what was read.
NextVersionRead(g, base) == base.version + 1

NextVersion(g, base) == policies[g].version + 1

\* A time is written when the state changes from the one that was read.
Stamp(flips, old, version) == IF flips THEN version ELSE old

\* The selection is replaced as a whole.
Selection(g, request) == request.ids

\* The transaction: a first policy is created, unless another request created
\* it meanwhile; an existing one is updated, its row locked until the commit.
Write(t) ==
    /\ CallAt(t, "write")
    /\ LET g == call[t].grant
           base == call[t].base
           request == call[t].request
           version == NextVersion(g, base) IN
       IF base.version = 0 /\ policies[g].version > 0
       THEN End(t) /\ UNCHANGED <<policies, intents>>
       ELSE /\ version <= MaxVersions
            /\ policies' = [policies EXCEPT ![g] =
                   [version |-> version, enabled |-> request.enabled,
                    ids |-> Selection(g, request),
                    enabledAt |-> Stamp(request.enabled /\ ~base.enabled, @.enabledAt, version),
                    disabledAt |-> Stamp(~request.enabled /\ (base.enabled \/ base.version = 0),
                                         @.disabledAt, version)]]
            /\ intents' = [intents EXCEPT ![g] = Append(@, request)]
            /\ call' = [call EXCEPT ![t].version = version, ![t].at = "answer"]
    /\ UNCHANGED <<states, key, grants>>

Answer(t) ==
    /\ CallAt(t, "answer")
    /\ End(t)
    /\ UNCHANGED <<states, key, grants, policies, intents>>

-----------------------------------------------------------------------------

Serve(t) ==
    \/ SetRevoked(t) \/ ReadRevoked(t) \/ CountIssued(t)
    \/ Validate(t) \/ Write(t) \/ Answer(t)

SharingNext ==
    \/ ChangeKey \/ CreateShare
    \/ \E c \in Credentials : CredentialChanges(c)
    \/ \E g \in DOMAIN grants : Expire(g)
    \/ \E t \in Tasks :
        \/ Serve(t)
        \/ \E g \in DOMAIN grants :
            \/ RecoverLink(t, g) \/ Revoke(t, g) \/ View(t, g)
            \/ \E request \in Intents : Replace(t, g, request)

SharingSpec == SharingInit /\ [][SharingNext]_sharingVars

-----------------------------------------------------------------------------
(* Properties.                                                              *)

SharingTypeOK ==
    /\ states \in [Credentials -> {"draft", "issued", "revoked"}]
    /\ key \in 0..MaxSealKeys
    /\ grants \in Seq(Grants) /\ Len(grants) <= MaxGrants
    /\ policies \in Seq(Policies) /\ Len(policies) = Len(grants)
    /\ intents \in Seq(Seq(Intents)) /\ Len(intents) = Len(grants)

\* The policy of a link is what the holder asked for last, whole: nothing of
\* an earlier selection is left in it, however requests overlap
\* ("REEMPLAZO, no alta/baja incremental", replaceForShare).
PolicyIsLastIntent ==
    \A g \in DOMAIN grants : policies[g].version > 0 =>
        [enabled |-> policies[g].enabled, ids |-> policies[g].ids]
            = intents[g][Len(intents[g])]

\* A version names one intent: what a request is answered with is what that
\* version said, which is what a VerificationRun freezes with it.
VersionNamesOneIntent ==
    /\ \A g \in DOMAIN grants : policies[g].version = Len(intents[g])
    /\ \A t \in Tasks : (CallAt(t, "answer") /\ call[t].op = "replace") =>
          intents[call[t].grant][call[t].version] = call[t].request

\* Whatever was ever selected had been issued when it was selected, and keeps
\* its row after its issuer revoked it (assertAllAuthorizable).
SelectedWereIssued ==
    \A g \in DOMAIN grants : \A c \in policies[g].ids : states[c] # "draft"

\* A link that was revoked stays revoked, and every request that revokes it
\* is answered with the same time (revokeForUser).
RevocationIsOnce ==
    [][\A g \in DOMAIN grants :
          grants[g].revoked # NoTask => grants'[g].revoked = grants[g].revoked]_sharingVars

RevocationsAgree ==
    \A t \in Tasks : (CallAt(t, "answer") /\ call[t].op = "revoke") =>
        call[t].mark = grants[call[t].grant].revoked

\* The public reader announces contextual verification only under a version
\* in which the holder had enabled it over some credential that was issued
\* (contextualVerificationAvailable).
AnnouncedWasConsented ==
    \A t \in Tasks : (CallAt(t, "answer") /\ call[t].shown) =>
        LET g == call[t].grant
            v == call[t].base.version IN
        /\ v \in DOMAIN intents[g]
        /\ intents[g][v].enabled
        /\ \E c \in intents[g][v].ids : states[c] # "draft"

\* The version moves only with the intent of the holder ("Reenviar exactamente
\* el mismo estado es idempotente y no lo mueve").
VersionMovesWithIntent ==
    \A g \in DOMAIN grants : \A v \in 2..Len(intents[g]) : intents[g][v] # intents[g][v - 1]

\* The versions of a log that turned it on, or off.
Flips(log, on) == {v \in DOMAIN log : /\ log[v].enabled = on
                                      /\ v = 1 \/ log[v - 1].enabled # on}
LastFlip(log, on) ==
    LET flips == Flips(log, on) IN
    IF flips = {} THEN 0 ELSE CHOOSE v \in flips : \A w \in flips : w <= v

\* enabledAt and disabledAt are the last time the policy went to that state
\* ("la ultima vez que paso a habilitado/deshabilitado").
MarksAreOfTheLastChange ==
    \A g \in DOMAIN grants : policies[g].version > 0 =>
        /\ policies[g].enabledAt = LastFlip(intents[g], TRUE)
        /\ policies[g].disabledAt = LastFlip(intents[g], FALSE)

\* What a link shares is what its holder asked for, and what was revoked stays
\* so, whatever requests overlap.
SharingFollowsIntent ==
    /\ [](/\ PolicyIsLastIntent /\ VersionNamesOneIntent /\ SelectedWereIssued
          /\ AnnouncedWasConsented /\ RevocationsAgree)
    /\ RevocationIsOnce
=============================================================================
