---------------------------- MODULE SemanticReuse ----------------------------
(***************************************************************************)
(* The reusable content of one issuer and the interpretations applied to   *)
(* its credentials: src/services/api/src/issuer-course-templates/          *)
(* issuer-course-templates.service.ts and                                  *)
(* reusable-semantic-interpretation/reusable-semantic-interpretation.      *)
(* service.ts.                                                             *)
(*                                                                         *)
(* An issuer saves a credential as a template, approves an analysis for it *)
(* and applies the approval to other credentials, after having looked at   *)
(* it.  Saving and approving read and write in statements of their own; an *)
(* application is a SERIALIZABLE transaction, retried once, over a partial *)
(* unique index.                                                           *)
(***************************************************************************)
EXTENDS Naturals, Sequences, FiniteSets

CONSTANTS
    Reusable,         \* issued credentials of one reusable type
    Requests,         \* requests that may be in progress at once
    MaxOwnAnalyses,   \* analyses each credential has
    MaxTemplates,     \* bound: templates created
    MaxGiven,         \* bound: approvals given
    MaxApplications   \* bound: applications

ReuseSets == /\ Reusable # {} /\ IsFiniteSet(Reusable)
             /\ Requests # {} /\ IsFiniteSet(Requests)
ReuseBounds ==
    {MaxOwnAnalyses, MaxTemplates, MaxGiven, MaxApplications} \subseteq Nat

ASSUME ReuseAssumption == ReuseSets /\ ReuseBounds

VARIABLES
    standing,      \* Credential.status
    templates,     \* IssuerCourseTemplate rows, in order of creation
    applications,  \* CredentialReusableSemanticInterpretation rows
    approvals,     \* how many approvals were given: the clock of the revisions
    request        \* the requests in progress

reuseVars == <<standing, templates, applications, approvals, request>>

NoOrigin == "no credential"

\* The approvedSemantic... columns: the analysis, its credential and when it
\* was approved, which is the revision a client refers to.
NoApproval == [cred |-> NoOrigin, number |-> 0, revision |-> 0]
Approvals == [cred : Reusable, number : 1..MaxOwnAnalyses, revision : 1..MaxGiven]

Templates == [from : Reusable \cup {NoOrigin}, title : {"own", "renamed"},
              active : BOOLEAN, approval : Approvals \cup {NoApproval}]
Applications == [cred : Reusable, approval : Approvals, status : {"active", "superseded"}]

NoRequest == [op |-> "none", at |-> "idle", cred |-> NoOrigin, number |-> 0,
              template |-> 0, reviewed |-> 0, attempt |-> 0, seen |-> NoApproval, row |-> 0]

MaxAttempts == 2

ReuseInit ==
    /\ standing = [c \in Reusable |-> "issued"]
    /\ templates = << >> /\ applications = << >>
    /\ approvals = 0
    /\ request = [t \in Requests |-> NoRequest]

RequestAt(t, place) == request[t].at = place
RequestEnds(t) == request' = [request EXCEPT ![t] = NoRequest]

RevokeReusable(c) ==
    /\ standing[c] = "issued"
    /\ standing' = [standing EXCEPT ![c] = "revoked"]
    /\ UNCHANGED <<templates, applications, approvals, request>>

-----------------------------------------------------------------------------
(* Templates.                                                               *)

SavedFrom(c) == {i \in DOMAIN templates : templates[i].from = c /\ templates[i].active}

AddTemplate(from) ==
    /\ Len(templates) < MaxTemplates
    /\ templates' = Append(templates, [from |-> from, title |-> "own",
                                       active |-> TRUE, approval |-> NoApproval])

CreateTemplate ==
    /\ AddTemplate(NoOrigin)
    /\ UNCHANGED <<standing, applications, approvals, request>>

\* Any template of the issuer, archived or not, may be renamed, archived and
\* put in use again; its approval stays.
PatchTemplate(i) ==
    /\ \E title \in {"own", "renamed"}, active \in BOOLEAN :
          templates' = [templates EXCEPT ![i].title = title, ![i].active = active]
    /\ UNCHANGED <<standing, applications, approvals, request>>

\* The issuer saves an issued credential, or approves one of its analyses, in
\* which case a template that was saved from it before is used.
Save(t, c) ==
    /\ RequestAt(t, "idle") /\ standing[c] = "issued"
    /\ request' = [request EXCEPT ![t] = [NoRequest EXCEPT !.op = "save", !.at = "check", !.cred = c]]
    /\ UNCHANGED <<standing, templates, applications, approvals>>

ApproveCredential(t, c, n) ==
    /\ RequestAt(t, "idle") /\ standing[c] = "issued"
    /\ request' = [request EXCEPT ![t] = [NoRequest EXCEPT !.op = "approve", !.at = "find",
                                                !.cred = c, !.number = n]]
    /\ UNCHANGED <<standing, templates, applications, approvals>>

FindTemplate(t) ==
    /\ RequestAt(t, "find")
    /\ \/ \E i \in SavedFrom(request[t].cred) :
             request' = [request EXCEPT ![t].template = i, ![t].at = "approve"]
       \/ /\ SavedFrom(request[t].cred) = {}
          /\ request' = [request EXCEPT ![t].at = "check"]
    /\ UNCHANGED <<standing, templates, applications, approvals>>

\* Mutant of Saveable: the check of duplicates is gone.
SaveableAlways(c) == standing[c] = "issued"

\* An issued credential no active template with its title was saved from.
Saveable(c) == standing[c] = "issued" /\ \A i \in SavedFrom(c) : templates[i].title # "own"

CheckDuplicate(t) ==
    /\ RequestAt(t, "check")
    /\ IF Saveable(request[t].cred)
       THEN request' = [request EXCEPT ![t].at = "create"]
       ELSE RequestEnds(t)
    /\ UNCHANGED <<standing, templates, applications, approvals>>

CreateFromCredential(t) ==
    /\ RequestAt(t, "create")
    /\ AddTemplate(request[t].cred)
    /\ IF request[t].op = "approve"
       THEN request' = [request EXCEPT ![t].template = Len(templates) + 1, ![t].at = "approve"]
       ELSE RequestEnds(t)
    /\ UNCHANGED <<standing, applications, approvals>>

\* A template saved from a credential takes the analyses of that credential.
Approvable(i, c) == templates[i].from \in {NoOrigin, c}

ApproveTemplate(t, i, c, n) ==
    /\ RequestAt(t, "idle")
    /\ Approvable(i, c)
    /\ request' = [request EXCEPT ![t] = [NoRequest EXCEPT !.op = "approve", !.at = "approve", !.cred = c,
                                                !.number = n, !.template = i]]
    /\ UNCHANGED <<standing, templates, applications, approvals>>

\* Mutant of Approval: the source is taken from the template.
ApprovalOfTemplate(t) == [cred |-> templates[request[t].template].from,
                          number |-> request[t].number, revision |-> approvals + 1]

Approval(t) == [cred |-> request[t].cred, number |-> request[t].number, revision |-> approvals + 1]

GiveApproval(t) ==
    /\ RequestAt(t, "approve")
    /\ approvals < MaxGiven
    /\ templates' = [templates EXCEPT ![request[t].template].approval = Approval(t)]
    /\ approvals' = approvals + 1
    /\ RequestEnds(t)
    /\ UNCHANGED <<standing, applications>>

-----------------------------------------------------------------------------
(* Applications.                                                            *)

ActiveRows(c) == {k \in DOMAIN applications : applications[k].cred = c
                                             /\ applications[k].status = "active"}
ActiveRow(c) == IF ActiveRows(c) = {} THEN 0 ELSE CHOOSE k \in ActiveRows(c) : TRUE

\* The issuer looks at the approval of a template and asks to apply it.
Review(t, c, i) ==
    /\ RequestAt(t, "idle") /\ standing[c] = "issued"
    /\ templates[i].approval # NoApproval
    /\ request' = [request EXCEPT ![t] = [NoRequest EXCEPT !.op = "apply", !.at = "begin", !.cred = c,
                    !.template = i, !.reviewed = templates[i].approval.revision, !.attempt = 1]]
    /\ UNCHANGED <<standing, templates, applications, approvals>>

\* Mutant of RevisionMatches: what is approved now is applied.
RevisionMatchesAlways(t) == TRUE

RevisionMatches(t) == templates[request[t].template].approval.revision = request[t].reviewed

\* Everything is read again in the snapshot of the transaction: the credential,
\* the approval, the active row.  The same approval is not applied twice, and
\* a destination that differs from the source may be turned down.
BeginApply(t) ==
    /\ RequestAt(t, "begin")
    /\ LET c == request[t].cred
           approval == templates[request[t].template].approval
           row == ActiveRow(c) IN
       \/ RequestEnds(t)
       \/ /\ standing[c] = "issued" /\ RevisionMatches(t)
          /\ request' = [request EXCEPT ![t].seen = approval, ![t].row = row,
                         ![t].at = IF row # 0 /\ applications[row].approval = approval
                                   THEN "answer" ELSE "commit"]
    /\ UNCHANGED <<standing, templates, applications, approvals>>

\* The active row is still the one of the snapshot.
NoConflict(t) == ActiveRow(request[t].cred) = request[t].row

Superseding(row) == [k \in DOMAIN applications |->
    IF k = row THEN [applications[k] EXCEPT !.status = "superseded"] ELSE applications[k]]

CommitApply(t) ==
    /\ RequestAt(t, "commit") /\ NoConflict(t)
    /\ Len(applications) < MaxApplications
    /\ applications' = Append(Superseding(request[t].row),
                              [cred |-> request[t].cred, approval |-> request[t].seen,
                               status |-> "active"])
    /\ request' = [request EXCEPT ![t].row = Len(applications) + 1, ![t].at = "answer"]
    /\ UNCHANGED <<standing, templates, approvals>>

\* A serialization conflict is tried once more, from the reading on.
RetryApply(t) ==
    /\ RequestAt(t, "commit") /\ ~NoConflict(t)
    /\ IF request[t].attempt < MaxAttempts
       THEN request' = [request EXCEPT ![t].attempt = @ + 1, ![t].at = "begin"]
       ELSE RequestEnds(t)
    /\ UNCHANGED <<standing, templates, applications, approvals>>

\* When there was no active row in the snapshot, the index may be what fails.
UniqueConflict(t) ==
    /\ RequestAt(t, "commit") /\ ~NoConflict(t) /\ request[t].row = 0
    /\ request' = [request EXCEPT ![t].at = "reconcile"]
    /\ UNCHANGED <<standing, templates, applications, approvals>>

\* Nothing is written any more: the active row is the answer when it carries
\* the approval the template has now.
ReconcileConcurrentApply(t) ==
    /\ RequestAt(t, "reconcile")
    /\ LET row == ActiveRow(request[t].cred) IN
       IF /\ standing[request[t].cred] = "issued"
          /\ row # 0
          /\ applications[row].approval = templates[request[t].template].approval
       THEN request' = [request EXCEPT ![t].row = row, ![t].at = "answer"]
       ELSE RequestEnds(t)
    /\ UNCHANGED <<standing, templates, applications, approvals>>

\* The rebuild of the profile that follows is in FormativeProfile.
AnswerRequest(t) ==
    /\ RequestAt(t, "answer")
    /\ RequestEnds(t)
    /\ UNCHANGED <<standing, templates, applications, approvals>>

-----------------------------------------------------------------------------

RequestStep(t) ==
    \/ FindTemplate(t) \/ CheckDuplicate(t) \/ CreateFromCredential(t) \/ GiveApproval(t)
    \/ BeginApply(t) \/ CommitApply(t) \/ RetryApply(t) \/ UniqueConflict(t)
    \/ ReconcileConcurrentApply(t) \/ AnswerRequest(t)

ReuseNext ==
    \/ CreateTemplate
    \/ \E c \in Reusable : RevokeReusable(c)
    \/ \E i \in DOMAIN templates : PatchTemplate(i)
    \/ \E t \in Requests :
        \/ RequestStep(t)
        \/ \E c \in Reusable :
            \/ Save(t, c)
            \/ \E n \in 1..MaxOwnAnalyses : ApproveCredential(t, c, n)
            \/ \E i \in DOMAIN templates :
                \/ Review(t, c, i)
                \/ \E n \in 1..MaxOwnAnalyses : ApproveTemplate(t, i, c, n)

ReuseSpec == ReuseInit /\ [][ReuseNext]_reuseVars

-----------------------------------------------------------------------------
(* Properties.                                                              *)

ReuseTypeOK ==
    /\ standing \in [Reusable -> {"issued", "revoked"}]
    /\ templates \in Seq(Templates) /\ Len(templates) <= MaxTemplates
    /\ applications \in Seq(Applications) /\ Len(applications) <= MaxApplications
    /\ approvals \in 0..MaxGiven
    /\ \A t \in Requests : /\ request[t].template \in 0..Len(templates)
                        /\ request[t].row \in 0..Len(applications)
                        /\ request[t].attempt \in 0..MaxAttempts

\* A credential has at most one active interpretation, however applications
\* overlap (performApply, SERIALIZABLE and crsi_one_active_per_credential_uq).
OneActiveInterpretation == \A c \in Reusable : Cardinality(ActiveRows(c)) <= 1

\* What an application writes is the approval its issuer looked at, also when
\* the template was approved again meanwhile and when the transaction was
\* retried (the check of approvalRevision in performApply).
WritesWhatWasReviewed ==
    [][\A t \in Requests :
          (RequestAt(t, "commit") /\ applications' # applications /\ request'[t].at = "answer")
              => applications'[request'[t].row].approval.revision = request[t].reviewed]_reuseVars

\* An application is history: a row stays, keeps what was applied and only
\* goes from active to superseded.
HistoryIsFrozen ==
    [][\A k \in DOMAIN applications :
          /\ k \in DOMAIN applications'
          /\ applications'[k] \in {applications[k],
                                   [applications[k] EXCEPT !.status = "superseded"]}]_reuseVars

\* A template that was saved from a credential is approved with an analysis
\* of that credential, along both ways to approve
\* (SEMANTIC_ANALYSIS_SOURCE_CREDENTIAL_MISMATCH_MESSAGE).
ApprovedFromItsSource ==
    \A i \in DOMAIN templates :
        (templates[i].from # NoOrigin /\ templates[i].approval # NoApproval)
            => templates[i].approval.cred = templates[i].from

\* An interpretation that is applied is the one its issuer reviewed: one is
\* active, what was approved comes from its own source, and what an application
\* wrote is neither another approval nor changed later.
InterpretationsAreReviewed ==
    /\ [](OneActiveInterpretation /\ ApprovedFromItsSource)
    /\ WritesWhatWasReviewed /\ HistoryIsFrozen
=============================================================================
