-------------------------- MODULE FormativeProfile --------------------------
(***************************************************************************)
(* The profile of one holder as it follows the holder's credentials:       *)
(* src/services/api/src/profiles/formative-profile.service.ts, the rebuilds*)
(* of analysis-run/automatic-profile-rebuild.service.ts and the operations *)
(* that ask for one, and profile-embedding/                                *)
(* profile-embedding-composition.service.ts.                               *)
(*                                                                         *)
(* A rebuild reads the credentials, their analyses and their applied       *)
(* interpretations in three queries outside any transaction, and then      *)
(* replaces the current profile in a SERIALIZABLE transaction; the         *)
(* embedding of the new profile is composed after the commit.  Operations  *)
(* interleave between steps.                                               *)
(***************************************************************************)
EXTENDS Naturals, Sequences, FiniteSets

CONSTANTS
    Credentials,  \* the credentials of the holder
    Operations,   \* operations that may be in progress at once
    MaxProfiles,  \* bound: profiles generated
    MaxAnalyses,  \* bound: analyses of one credential
    MaxApprovals, \* bound: approvals of the reusable content
    Imports,      \* profiles may be ingested from a file of the AI pipeline
    Failures      \* the database may fail a rebuild

ProfileSets == /\ Credentials # {} /\ IsFiniteSet(Credentials)
               /\ Operations # {} /\ IsFiniteSet(Operations)
ProfileBounds == /\ {MaxProfiles, MaxAnalyses, MaxApprovals} \subseteq Nat
                 /\ {Imports, Failures} \subseteq BOOLEAN

ASSUME ProfileAssumption == ProfileSets /\ ProfileBounds

VARIABLES
    status,      \* Credential.status
    analyses,    \* how many semantic analyses of the credential there are
    embedded,    \* the analyses whose source has an embedding: <<c, number>>
    applied,     \* the approval of the active interpretation, 0 when none
    approved,    \* the approval of the template, 0 when none
    profiles,    \* FormativeProfile rows with their embedding, in order of creation
    operation,   \* the operations in progress
    unread       \* history: the credentials with an analysis that no rebuild
                 \* follows and that none has read since

profileVars == <<status, analyses, embedded, applied, approved, profiles, operation, unread>>

\* What a credential contributes to a profile: nothing, one of its analyses,
\* or the interpretation its issuer reviewed.
Source(kind, number) == [kind |-> kind, number |-> number]
NoSource == Source("none", 0)
Origins == {NoSource} \cup [kind : {"ai"}, number : 1..MaxAnalyses]
                      \cup [kind : {"reviewed"}, number : 1..MaxApprovals]

Coverages == {"absent", "unavailable", "partial", "complete"}
Snapshots == UNION {[S -> Origins] : S \in SUBSET Credentials}
Profiles == [sources : Snapshots, current : BOOLEAN, coverage : Coverages]

NoCredential == "no credential"
NoSources == [c \in {} |-> NoSource]
NoOperation == [op |-> "none", at |-> "idle", cred |-> NoCredential,
                seen |-> NoSources, base |-> 0]

ProfileInit ==
    /\ status = [c \in Credentials |-> "draft"]
    /\ analyses = [c \in Credentials |-> 0]
    /\ embedded = {}
    /\ applied = [c \in Credentials |-> 0]
    /\ approved = 0
    /\ profiles = << >>
    /\ operation = [t \in Operations |-> NoOperation]
    /\ unread = {}

OperationAt(t, place) == operation[t].at = place
OperationGoes(t, place) == operation' = [operation EXCEPT ![t].at = place]
BeginOperation(t, op, c, place) ==
    operation' = [operation EXCEPT ![t] = [NoOperation EXCEPT !.op = op, !.at = place, !.cred = c]]

\* An issuance goes on to the analyses after its first rebuild, whatever that
\* rebuild did; every other operation ends with its rebuild.
OperationEnds(t) ==
    operation' = [operation EXCEPT ![t] =
                IF operation[t].op = "issue"
                THEN [NoOperation EXCEPT !.op = "analysis", !.at = "analyse", !.cred = operation[t].cred]
                ELSE NoOperation]

-----------------------------------------------------------------------------
(* The operations a profile follows.                                        *)

\* Two analyses are followed by no rebuild.  A run that an issuer asks for a
\* draft persists its analysis without reading the status again: the credential
\* may have been issued or revoked since.
AnalyseDraft(c) ==
    /\ analyses[c] < MaxAnalyses
    /\ analyses' = [analyses EXCEPT ![c] = @ + 1]
    /\ embedded' \in {embedded, embedded \cup {<<c, analyses[c] + 1>>}}
    /\ unread' = unread \cup {c}
    /\ UNCHANGED <<status, applied, approved, profiles, operation>>

\* A PDF that an issuer sends is analysed for a credential in any status,
\* outside of any run: its source gets no embedding.
AnalyseFromPdf(c) ==
    /\ analyses[c] < MaxAnalyses
    /\ analyses' = [analyses EXCEPT ![c] = @ + 1]
    /\ unread' = unread \cup {c}
    /\ UNCHANGED <<status, embedded, applied, approved, profiles, operation>>

IssueCredential(t, c) ==
    /\ OperationAt(t, "idle") /\ status[c] = "draft"
    /\ status' = [status EXCEPT ![c] = "issued"]
    /\ BeginOperation(t, "issue", c, "credentials")
    /\ UNCHANGED <<analyses, embedded, applied, approved, profiles, unread>>

\* Mutant of Analyse: an analysis that completes is not followed by a rebuild.
AnalyseWithoutRebuild(t) ==
    /\ OperationAt(t, "analyse")
    /\ OperationEnds(t)
    /\ \/ UNCHANGED <<analyses, embedded>>
       \/ LET c == operation[t].cred IN
          /\ analyses[c] < MaxAnalyses
          /\ analyses' = [analyses EXCEPT ![c] = @ + 1]
          /\ embedded' \in {embedded, embedded \cup {<<c, analyses[c] + 1>>}}
    /\ UNCHANGED <<status, applied, approved, profiles, unread>>

\* The automatic analysis that follows the issuance, when there is something
\* to analyse and the service answers; its rebuild comes next.
Analyse(t) ==
    /\ OperationAt(t, "analyse")
    /\ \/ OperationEnds(t) /\ UNCHANGED <<analyses, embedded>>
       \/ LET c == operation[t].cred IN
          /\ analyses[c] < MaxAnalyses
          /\ analyses' = [analyses EXCEPT ![c] = @ + 1]
          /\ embedded' \in {embedded, embedded \cup {<<c, analyses[c] + 1>>}}
          /\ OperationGoes(t, "credentials")
    /\ UNCHANGED <<status, applied, approved, profiles, unread>>

\* A revocation, once it is persisted; asking again for a revoked credential
\* only rebuilds.
RevokeCredential(t, c) ==
    /\ OperationAt(t, "idle") /\ status[c] \in {"issued", "revoked"}
    /\ status' = [status EXCEPT ![c] = "revoked"]
    /\ BeginOperation(t, "revoke", c, "credentials")
    /\ UNCHANGED <<analyses, embedded, applied, approved, profiles, unread>>

ApproveContent ==
    /\ approved < MaxApprovals
    /\ approved' = approved + 1
    /\ UNCHANGED <<status, analyses, embedded, applied, profiles, operation, unread>>

\* The approval in force is applied to an issued credential, or was already.
Apply(t, c) ==
    /\ OperationAt(t, "idle") /\ status[c] = "issued" /\ approved > 0
    /\ applied' = [applied EXCEPT ![c] = approved]
    /\ BeginOperation(t, "apply", c, "credentials")
    /\ UNCHANGED <<status, analyses, embedded, approved, profiles, unread>>

\* The holder asks for a rebuild.
Rebuild(t) ==
    /\ OperationAt(t, "idle")
    /\ BeginOperation(t, "rebuild", NoCredential, "credentials")
    /\ UNCHANGED <<status, analyses, embedded, applied, approved, profiles, unread>>

\* A profile computed elsewhere is ingested: nothing is read.
Import(t) ==
    /\ OperationAt(t, "idle") /\ Imports
    /\ BeginOperation(t, "import", NoCredential, "begin")
    /\ UNCHANGED <<status, analyses, embedded, applied, approved, profiles, unread>>

-----------------------------------------------------------------------------
(* A rebuild.                                                               *)

\* The credentials a rebuild reads.
Selected(c) == status[c] = "issued"

ReadCredentials(t) ==
    /\ OperationAt(t, "credentials")
    /\ operation' = [operation EXCEPT ![t].seen = [c \in {d \in Credentials : Selected(d)} |-> NoSource],
                            ![t].at = "analyses"]
    /\ UNCHANGED <<status, analyses, embedded, applied, approved, profiles, unread>>

\* Mutant of LatestAnalysis: the first row is used without asking for it.
LatestAnalysisUnchecked(c) == Source("ai", analyses[c])

\* The latest analysis of each.
LatestAnalysis(c) == IF analyses[c] = 0 THEN NoSource ELSE Source("ai", analyses[c])

ReadAnalyses(t) ==
    /\ OperationAt(t, "analyses")
    /\ operation' = [operation EXCEPT ![t].seen = [c \in DOMAIN operation[t].seen |-> LatestAnalysis(c)],
                            ![t].at = "interpretations"]
    /\ unread' = unread \ DOMAIN operation[t].seen
    /\ UNCHANGED <<status, analyses, embedded, applied, approved, profiles>>

\* The source of a credential: the interpretation its issuer reviewed, else
\* the analysis that was read, else nothing.
Resolved(c, read) == IF applied[c] > 0 THEN Source("reviewed", applied[c]) ELSE read

ReadInterpretations(t) ==
    /\ OperationAt(t, "interpretations")
    /\ operation' = [operation EXCEPT ![t].seen = [c \in DOMAIN operation[t].seen |-> Resolved(c, operation[t].seen[c])],
                            ![t].at = "begin"]
    /\ UNCHANGED <<status, analyses, embedded, applied, approved, profiles, unread>>

\* The transaction takes its snapshot at its first statement.
BeginPersist(t) ==
    /\ OperationAt(t, "begin")
    /\ Len(profiles) < MaxProfiles
    /\ operation' = [operation EXCEPT ![t].base = Len(profiles), ![t].at = "commit"]
    /\ UNCHANGED <<status, analyses, embedded, applied, approved, profiles, unread>>

\* Mutant of Serializable: the transaction takes what it read for granted.
SerializableAlways(t) == TRUE

\* A transaction that replaces the current profile commits only when no other
\* one did since its snapshot.
Serializable(t) == Len(profiles) = operation[t].base

Retired(base) == [i \in DOMAIN profiles |->
                     IF i <= base THEN [profiles[i] EXCEPT !.current = FALSE] ELSE profiles[i]]

Persist(t) ==
    /\ OperationAt(t, "commit")
    /\ Serializable(t)
    /\ Len(profiles) < MaxProfiles
    /\ profiles' = Append(Retired(operation[t].base),
                          [sources |-> operation[t].seen, current |-> TRUE, coverage |-> "absent"])
    /\ operation' = [operation EXCEPT ![t].base = Len(profiles) + 1,
                            ![t].at = IF operation[t].op = "import" THEN "answer" ELSE "compose"]
    /\ UNCHANGED <<status, analyses, embedded, applied, approved, unread>>

\* The transaction met another one: it is not retried.
PersistFails(t) ==
    /\ OperationAt(t, "commit")
    /\ ~Serializable(t)
    /\ OperationEnds(t)
    /\ UNCHANGED <<status, analyses, embedded, applied, approved, profiles, unread>>

\* A query of the rebuild fails; only a revocation reports it to its caller.
RebuildFails(t) ==
    /\ Failures
    /\ operation[t].at \in {"credentials", "analyses", "interpretations", "begin", "commit"}
    /\ OperationEnds(t)
    /\ UNCHANGED <<status, analyses, embedded, applied, approved, profiles, unread>>

\* A credential enters the embedding of the profile with the analysis the
\* profile names, when the source of that analysis has an embedding.
Included(c, s) == s.kind = "ai" /\ <<c, s.number>> \in embedded

Coverage(sources) ==
    LET included == {c \in DOMAIN sources : Included(c, sources[c])} IN
    CASE included = {} -> "unavailable"
      [] included # {} /\ included = DOMAIN sources -> "complete"
      [] OTHER -> "partial"

\* The embedding of the profile is composed once; it may also fail, or be off.
Compose(t) ==
    /\ OperationAt(t, "compose")
    /\ \/ profiles' = [profiles EXCEPT ![operation[t].base].coverage =
                                   Coverage(profiles[operation[t].base].sources)]
       \/ UNCHANGED profiles
    /\ OperationGoes(t, "answer")
    /\ UNCHANGED <<status, analyses, embedded, applied, approved, unread>>

AnswerOperation(t) ==
    /\ OperationAt(t, "answer")
    /\ OperationEnds(t)
    /\ UNCHANGED <<status, analyses, embedded, applied, approved, profiles, unread>>

-----------------------------------------------------------------------------

OperationStep(t) ==
    \/ Analyse(t)
    \/ ReadCredentials(t) \/ ReadAnalyses(t) \/ ReadInterpretations(t)
    \/ BeginPersist(t) \/ Persist(t) \/ PersistFails(t) \/ RebuildFails(t)
    \/ Compose(t) \/ AnswerOperation(t)

ProfileNext ==
    \/ ApproveContent
    \/ \E c \in Credentials : AnalyseDraft(c) \/ AnalyseFromPdf(c)
    \/ \E t \in Operations :
        \/ Rebuild(t) \/ Import(t) \/ OperationStep(t)
        \/ \E c \in Credentials : IssueCredential(t, c) \/ RevokeCredential(t, c) \/ Apply(t, c)

ProfileSpec == ProfileInit /\ [][ProfileNext]_profileVars

-----------------------------------------------------------------------------
(* Properties.                                                              *)

ProfileTypeOK ==
    /\ status \in [Credentials -> {"draft", "issued", "revoked"}]
    /\ analyses \in [Credentials -> 0..MaxAnalyses]
    /\ embedded \subseteq Credentials \X (1..MaxAnalyses)
    /\ applied \in [Credentials -> 0..MaxApprovals] /\ approved \in 0..MaxApprovals
    /\ profiles \in Seq(Profiles) /\ Len(profiles) <= MaxProfiles
    /\ \A t \in Operations : operation[t].base \in 0..MaxProfiles
    /\ unread \subseteq Credentials

CurrentProfiles == {i \in DOMAIN profiles : profiles[i].current}

\* Once a profile exists exactly one is current, and it is the newest, however
\* the transactions that replace it overlap (rebuildForUser and
\* persistAiArtifactForUser; no index of the table says so).
OneCurrentProfile ==
    profiles # << >> => CurrentProfiles = {Len(profiles)}

\* A profile persisted for a reason shows that reason: without the credential
\* whose revocation asked for it, with the one that was issued unless it was
\* revoked meanwhile, and with the reviewed interpretation that was applied,
\* never the raw inference (resolveSemanticSourceForCredential).
ReflectsItsCause ==
    \A t \in Operations : OperationAt(t, "compose") =>
        LET sources == profiles[operation[t].base].sources
            c == operation[t].cred IN
        CASE operation[t].op = "revoke" -> c \notin DOMAIN sources
          [] operation[t].op = "issue" -> c \in DOMAIN sources \/ status[c] = "revoked"
          [] operation[t].op = "apply" -> c \in DOMAIN sources => sources[c].kind = "reviewed"
          [] operation[t].op = "analysis" -> c \in DOMAIN sources => sources[c] # NoSource
          [] OTHER -> TRUE

\* The coverage stored with a profile is about that profile: complete only
\* when every credential in it is there with its own analysis and that
\* analysis has an embedding (ProfileEmbeddingCompositionService).
CoverageIsOfTheSnapshot ==
    \A i \in DOMAIN profiles : profiles[i].coverage = "complete" =>
        /\ profiles[i].sources # NoSources
        /\ \A c \in DOMAIN profiles[i].sources :
              LET s == profiles[i].sources[c] IN s.kind = "ai" /\ <<c, s.number>> \in embedded

\* A profile, once persisted, keeps its sources; it gets one coverage and it
\* never becomes current again.
ProfilesAreImmutable ==
    [][\A i \in DOMAIN profiles :
          /\ i \in DOMAIN profiles'
          /\ profiles'[i].sources = profiles[i].sources
          /\ profiles[i].coverage # "absent" => profiles'[i].coverage = profiles[i].coverage
          /\ profiles'[i].current => profiles[i].current]_profileVars

\* What a rebuild that nothing interrupts would find.
Truth == [c \in {d \in Credentials : status[d] = "issued"} |->
             IF applied[c] > 0 THEN Source("reviewed", applied[c]) ELSE LatestAnalysis(c)]

\* At rest the current profile says what the rows say of every credential but
\* those that were analysed with no rebuild after it, and of those as well once
\* their issuer reviewed an interpretation: the other operations that change
\* what a profile reads are followed by a rebuild that sees the change.
AtRestTruthful ==
    (\A t \in Operations : OperationAt(t, "idle")) =>
        IF profiles = << >> THEN DOMAIN Truth = {}
        ELSE LET sources == profiles[Len(profiles)].sources IN
             /\ DOMAIN sources = DOMAIN Truth
             /\ \A c \in DOMAIN sources :
                   c \notin unread \/ applied[c] > 0 => sources[c] = Truth[c]

\* Operations that come one after the other, none of which fails.
OneAfterTheOther == ~Failures /\ ~Imports /\ \A t, u \in Operations : t = u

\* What the holder reads comes from the evidence: one profile is current, it
\* shows the reason it was built for and the coverage it has, it is never
\* rewritten, and when no two operations overlap it is the truth at rest, but
\* for the analyses that no rebuild follows (FormativeProfileService,
\* AutomaticProfileRebuildService).
ProfileFollowsEvidence ==
    /\ [](/\ OneCurrentProfile /\ ReflectsItsCause /\ CoverageIsOfTheSnapshot
          /\ OneAfterTheOther => AtRestTruthful)
    /\ ProfilesAreImmutable
=============================================================================
