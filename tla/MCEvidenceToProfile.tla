------------------------- MODULE MCEvidenceToProfile -------------------------
(***************************************************************************)
(* From the evidence of a credential to the profile of its holder, for     *)
(* TLC: the analysis of the evidence (CredentialAnalysis), the content an  *)
(* issuer approves once and applies to many credentials (SemanticReuse),   *)
(* the profile that is rebuilt from both (FormativeProfile) and the        *)
(* verdicts on what the evidence supports (EpistemicPolicy).  A behaviour  *)
(* picks one part, some of them under several choices of the constants,    *)
(* and the others stay in their initial state.                             *)
(***************************************************************************)
EXTENDS EpistemicPolicy, CredentialAnalysis, SemanticReuse, FormativeProfile, TLC

CONSTANTS t1, t2, c1, c2, s1

VARIABLES
    part, o_status, o_analyses, o_embedded, o_applied, o_approved, o_profiles, o_operation,
    o_unread

\* The module that is extended analyses a document that may be replaced and
\* no commit of it is lost; one instance analyses a document twice, another texts
\* whose commits may answer nothing.
Repeats == INSTANCE CredentialAnalysis WITH MaxDocuments <- 1, MaxRuns <- 2
TextsOnly == INSTANCE CredentialAnalysis WITH
    Modes <- {"text"}, MaxDocuments <- 0, MaxTexts <- 2, MaxRuns <- 2, LostAnswers <- TRUE

\* The module that is extended has two operations at once that may fail; this
\* is one operation after the other over two credentials, none fails.
OneByOne == INSTANCE FormativeProfile WITH
    Credentials <- {c1, c2}, Operations <- {s1}, MaxProfiles <- 2, MaxAnalyses <- 2,
    MaxApprovals <- 1, Imports <- FALSE, Failures <- FALSE,
    status <- o_status, analyses <- o_analyses, embedded <- o_embedded,
    applied <- o_applied, approved <- o_approved, profiles <- o_profiles,
    operation <- o_operation, unread <- o_unread

\* Answers to one requirement, over one unit and one source: every claim with
\* every candidate, each as it is and with one thing more that is odd.
NoCandidate ==
    [candidate |-> FALSE, support |-> {}, continuity |-> "NO",
     transformation |-> "SEMANTIC_SHIFT", shift |-> TRUE, usefulness |-> "NOT_EVALUATED"]

Candidate(s, c, h, u) ==
    [candidate |-> TRUE, support |-> s, continuity |-> c, shift |-> h, usefulness |-> u,
     transformation |-> CASE c = "YES" -> "CONSTITUTIVE_REDUCTION"
                          [] c = "NO" -> "SEMANTIC_SHIFT"
                          [] OTHER -> "UNRESOLVED"]

Candidates ==
    {Candidate(s, "YES", FALSE, u) :
        s \in SUBSET {s1}, u \in {"YES", "NO", "UNRESOLVED", "NOT_EVALUATED"}}
    \cup {Candidate({s1}, c, h, "NOT_EVALUATED") : c \in {"NO", "UNRESOLVED"}, h \in BOOLEAN}

Claiming(full, ceiling, search) ==
    [full |-> full, semantic |-> FALSE, composition |-> FALSE,
     observability |-> "SUFFICIENT", alleged |-> {}, twice |-> FALSE,
     search |-> search, ceiling |-> ceiling, inflated |-> FALSE, blank |-> {}]

Answered ==
    {Claiming(f, k, s) @@ NoCandidate :
        f \in {"REACHED", "NOT_REACHED"}, k \in SUBSET {s1}, s \in {"NONE", "UNRESOLVED"}}
    \cup {Claiming(f, k, "FOUND") @@ c :
        f \in {"REACHED", "NOT_REACHED"}, k \in SUBSET {s1}, c \in Candidates}

Odd(a) ==
    {[a EXCEPT !.full = "UNRESOLVED"], [a EXCEPT !.semantic = TRUE],
     [a EXCEPT !.composition = TRUE], [a EXCEPT !.inflated = TRUE],
     [a EXCEPT !.blank = {"search"}], [a EXCEPT !.blank = {"other"}],
     [a EXCEPT !.observability = "MATERIAL_GAP"],
     [a EXCEPT !.observability = "MATERIAL_GAP", !.alleged = {s1}],
     [a EXCEPT !.observability = "UNRESOLVED"], [a EXCEPT !.alleged = {s1}],
     [a EXCEPT !.alleged = {s1}, !.twice = TRUE],
     [a EXCEPT !.transformation = "SEMANTIC_SHIFT"],
     [a EXCEPT !.usefulness = "YES"], [a EXCEPT !.search = "FOUND"]}

SampleAnswers == Answered \cup UNION {Odd(a) : a \in Answered}

ASSUME InstancesAssumed ==
    /\ TextsOnly!CallersAssumption /\ TextsOnly!AnalysisBounds /\ Repeats!AnalysisBounds
    /\ OneByOne!ProfileSets /\ OneByOne!ProfileBounds

analysis == analysisVars
reuse == reuseVars
serial == <<o_status, o_analyses, o_embedded, o_applied, o_approved, o_profiles, o_operation,
            o_unread>>
profile == <<profileVars, serial>>
verdict == vars

InitAll ==
    /\ part \in {"documents", "repeats", "texts", "reuse", "rebuilds", "one by one", "verdicts"}
    /\ AnalysisInit /\ ReuseInit /\ ProfileInit /\ OneByOne!ProfileInit /\ Init
    /\ part # "verdicts" => included = {} /\ ~capable[s1] /\ target[s1] = "UNRESOLVED"

NextDocuments == part = "documents" /\ AnalysisNext /\ UNCHANGED <<part, reuse, profile, verdict>>
NextRepeats == part = "repeats" /\ Repeats!AnalysisNext /\ UNCHANGED <<part, reuse, profile, verdict>>
NextTexts == part = "texts" /\ TextsOnly!AnalysisNext /\ UNCHANGED <<part, reuse, profile, verdict>>
NextReuse == part = "reuse" /\ ReuseNext /\ UNCHANGED <<part, analysis, profile, verdict>>
NextRebuilds ==
    part = "rebuilds" /\ ProfileNext /\ UNCHANGED <<part, analysis, reuse, serial, verdict>>
NextOneByOne ==
    part = "one by one" /\ OneByOne!ProfileNext
        /\ UNCHANGED <<part, analysis, reuse, profileVars, verdict>>
NextVerdicts == part = "verdicts" /\ Next /\ UNCHANGED <<part, analysis, reuse, profile>>

NextAll ==
    \/ NextDocuments \/ NextRepeats \/ NextTexts \/ NextReuse
    \/ NextRebuilds \/ NextOneByOne \/ NextVerdicts
SpecAll == InitAll /\ [][NextAll]_<<part, analysis, reuse, profile, verdict>>

\* The verdicts alone.
VerdictsSpec ==
    InitAll /\ part = "verdicts" /\ [][NextVerdicts]_<<part, analysis, reuse, profile, verdict>>

Symmetry == Permutations({t1, t2}) \cup Permutations({c1, c2})

-----------------------------------------------------------------------------
(* The properties of the four modules that are extended keep their names.   *)

\* Every variable of every part stays in its type.
PartsTypeOK ==
    CASE part = "documents" -> AnalysisTypeOK
      [] part = "repeats" -> Repeats!AnalysisTypeOK
      [] part = "texts" -> TextsOnly!AnalysisTypeOK
      [] part = "reuse" -> ReuseTypeOK
      [] part = "rebuilds" -> ProfileTypeOK
      [] part = "one by one" -> OneByOne!ProfileTypeOK
      [] part = "verdicts" -> TypeOK

\* What the parts promise besides, and their types: an interpretation applied
\* is the one that was reviewed (SemanticReuse), and one operation after the
\* other leaves a profile that tells the truth, but for the analyses that no
\* rebuild follows (FormativeProfile).
EvidencePartsHold ==
    /\ []PartsTypeOK
    /\ InterpretationsAreReviewed
    /\ OneByOne!ProfileFollowsEvidence
=============================================================================
