--------------------------- MODULE EpistemicPolicy ---------------------------
(***************************************************************************)
(* The verdict on every requirement of a run, from what the AI service     *)
(* answered to what a reader is shown: reasoning-run/                      *)
(* contextual-reasoning.validator.ts and contextual-reasoning-             *)
(* references.verifier.ts (what is let in),                                *)
(* deterministic-epistemic-policy.ts (the policy and its guards),          *)
(* reasoning-run-result-artifact.validator.ts (what may be persisted) and  *)
(* objective-synthesis.ts (what the reader gets).                          *)
(*                                                                         *)
(* An answer keeps the tokens and the references the policy reads.  Of the *)
(* texts it keeps which required ones are blank, and whether they mention  *)
(* the provenance of a credential as support.                              *)
(***************************************************************************)
EXTENDS Naturals

CONSTANTS
    Requirements,   \* of the frozen definition
    Units,          \* evidence units an answer may name
    Sources,        \* sources an answer may name
    Answers         \* what the AI service may answer about a requirement

Statuses     == {"YES", "NO", "UNRESOLVED"}
Usefulness   == Statuses \cup {"NOT_EVALUATED"}
Targets      == {"FORMATIVE_EVIDENCE", "INDIVIDUAL_ACHIEVEMENT", "UNRESOLVED"}
FinalStates  == {"SUPPORTED", "PARTIALLY_SUPPORTED", "INSUFFICIENT_EVIDENCE",
                 "ABSTAIN", "NOT_ASSESSABLE"}
Positive     == {"SUPPORTED", "PARTIALLY_SUPPORTED"}

\* support, continuity, transformation, shift and usefulness are the
\* candidate's, and mean nothing without one.
Answer ==
    [full : {"REACHED", "NOT_REACHED", "UNRESOLVED"},
     semantic : BOOLEAN, composition : BOOLEAN,
     observability : {"SUFFICIENT", "MATERIAL_GAP", "UNRESOLVED"},
     alleged : SUBSET Sources, twice : BOOLEAN,
     search : {"FOUND", "NONE", "UNRESOLVED"}, candidate : BOOLEAN,
     support : SUBSET Units, continuity : Statuses,
     transformation : {"CONSTITUTIVE_REDUCTION", "SEMANTIC_SHIFT", "UNRESOLVED"},
     shift : BOOLEAN, usefulness : Usefulness,
     ceiling : SUBSET Units, inflated : BOOLEAN, blank : SUBSET {"search", "other"}]

VARIABLES
    capable, target,                  \* the frozen analysis of each requirement
    catalog, included, incomplete,    \* the frozen evidence
    stage,                            \* how far the execution is
    answers,                          \* accepted, of each requirement
    verdicts,                         \* finalState of each requirement
    shown                             \* what the last reader was given

frozen == <<capable, target, catalog, included, incomplete>>
vars == <<frozen, stage, answers, verdicts, shown>>

-----------------------------------------------------------------------------
(* What is let in.                                                          *)

TransformationOf ==
    [s \in Statuses |-> IF s = "YES" THEN "CONSTITUTIVE_REDUCTION"
                        ELSE IF s = "NO" THEN "SEMANTIC_SHIFT" ELSE "UNRESOLVED"]

WellFormed(a) ==
    /\ a \in Answer
    /\ a.candidate <=> a.search = "FOUND"
    /\ a.candidate =>
         /\ a.transformation = TransformationOf[a.continuity]
         /\ a.continuity = "NO" => a.shift
         /\ a.continuity # "YES" => a.usefulness = "NOT_EVALUATED"

Cited(a) == a.ceiling \cup (IF a.candidate THEN a.support ELSE {})

Anchored(a) == Cited(a) \subseteq catalog /\ a.alleged \subseteq included

-----------------------------------------------------------------------------
(* derivePolicyInputs                                                       *)

Continuous(a) == a.candidate /\ a.continuity = "YES"
Useful(a)     == Continuous(a) /\ a.usefulness = "YES"

\* Mutant of Unresolved: the usefulness that stayed open is taken for a no.
UnresolvedButUsefulness(r, a) ==
    \/ a.semantic \/ a.composition \/ a.full = "UNRESOLVED"
    \/ a.observability # "SUFFICIENT" \/ a.search = "UNRESOLVED"
    \/ a.candidate /\ a.continuity = "UNRESOLVED"
    \/ target[r] = "UNRESOLVED"

Unresolved(r, a) ==
    \/ a.semantic \/ a.composition
    \/ a.full = "UNRESOLVED"
    \/ a.observability # "SUFFICIENT"
    \/ a.search = "UNRESOLVED"
    \/ a.candidate /\ a.continuity = "UNRESOLVED"
    \/ Continuous(a) /\ a.usefulness = "UNRESOLVED"
    \/ target[r] = "UNRESOLVED"

SearchRequired(r, a) ==
    capable[r] /\ a.full = "NOT_REACHED" /\ a.observability = "SUFFICIENT"

-----------------------------------------------------------------------------
(* epistemicIntegrityGuards: each is a contradiction with the facts of the  *)
(* run, and any of them is a hard failure.                                  *)

Undocumented(r, a) == SearchRequired(r, a) /\ "search" \in a.blank

AllegesWholeSource(a) == a.twice \/ ~(a.alleged \subseteq incomplete)

MissesNothing(a) ==
    /\ included # {} /\ incomplete = {}
    /\ a.alleged # {} \/ a.observability = "MATERIAL_GAP"

\* Mutant of Ungrounded: only a partial conclusion is asked for evidence.
UngroundedCandidate(a) == Useful(a) /\ Cited(a) \cap catalog = {}

Ungrounded(a) ==
    /\ a.full = "REACHED" \/ Useful(a)
    /\ Cited(a) \cap catalog = {}

HardFailure(r, a) ==
    \/ Undocumented(r, a) \/ AllegesWholeSource(a) \/ MissesNothing(a)
    \/ Ungrounded(a) \/ a.inflated

\* resolveFinalState: the order is POLICY_GUARD_PRECEDENCE.
FinalState(r, a, failure) ==
    IF ~capable[r] THEN "NOT_ASSESSABLE"
    ELSE IF Unresolved(r, a) \/ failure THEN "ABSTAIN"
    ELSE IF a.full = "REACHED" THEN "SUPPORTED"
    ELSE IF Useful(a) /\ Continuous(a) THEN "PARTIALLY_SUPPORTED"
    ELSE "INSUFFICIENT_EVIDENCE"

PreGuardState(r, a) == FinalState(r, a, FALSE)
Verdict(r, a) == FinalState(r, a, HardFailure(r, a))

-----------------------------------------------------------------------------
(* What may be persisted and what is shown.                                 *)

Persistable(a) == a.blank = {} /\ (a.search = "FOUND" <=> a.candidate) /\ Cited(a) \subseteq catalog

\* projectReasoningRunEvidence
WeakerClaim(a) == a.search = "FOUND" /\ a.candidate
Supporting(a)  == a.ceiling \cup (IF WeakerClaim(a) THEN a.support ELSE {})

\* buildObjectiveSynthesisV1 throws on the others.
Synthesizes(state, a) ==
    /\ state = "SUPPORTED" => ~WeakerClaim(a)
    /\ state = "PARTIALLY_SUPPORTED" => WeakerClaim(a)

-----------------------------------------------------------------------------
Init ==
    /\ capable \in [Requirements -> BOOLEAN]
    /\ target \in [Requirements -> Targets]
    /\ catalog \in SUBSET Units
    /\ included \in SUBSET Sources
    /\ incomplete \in SUBSET included
    /\ included = {} => catalog = {}
    /\ stage = "reasoning" /\ shown = "nothing"
    /\ answers = [r \in {} |-> {}] /\ verdicts = [r \in {} |-> {}]

Asking(r) == stage = "reasoning" /\ r \in Requirements \ DOMAIN answers

\* A usable answer.  The code asks in the order of the snapshot, which decides
\* nothing here.
Accept(r, a) ==
    /\ WellFormed(a) /\ Anchored(a)
    /\ answers' = [q \in DOMAIN answers \cup {r} |-> IF q = r THEN a ELSE answers[q]]
    /\ UNCHANGED <<frozen, stage, verdicts, shown>>

\* PROVIDER_INVALID_OUTPUT fails the run.
Refuse(r, a) ==
    /\ ~(WellFormed(a) /\ Anchored(a))
    /\ stage' = "failed"
    /\ UNCHANGED <<frozen, answers, verdicts, shown>>

\* The call for one requirement, which returns any answer.
Ask(r) == Asking(r) /\ \E a \in Answers : Accept(r, a) \/ Refuse(r, a)

\* A transient failure gives the claim back; the next execution asks all again.
Retry ==
    /\ \E r \in Requirements : Asking(r)
    /\ answers' = [r \in {} |-> {}]
    /\ UNCHANGED <<frozen, stage, verdicts, shown>>

\* applyDeterministicReasoningPolicy
Decide ==
    /\ stage = "reasoning" /\ \A r \in Requirements : ~Asking(r)
    /\ verdicts' = [r \in Requirements |-> Verdict(r, answers[r])]
    /\ stage' = "decided"
    /\ UNCHANGED <<frozen, answers, shown>>

Complete ==
    /\ stage = "decided" /\ \A r \in Requirements : Persistable(answers[r])
    /\ stage' = "completed"
    /\ UNCHANGED <<frozen, answers, verdicts, shown>>

\* REASONING_FINAL_RESULT_NOT_PERSISTABLE
NotPersistable ==
    /\ stage = "decided" /\ \E r \in Requirements : ~Persistable(answers[r])
    /\ stage' = "failed"
    /\ UNCHANGED <<frozen, answers, verdicts, shown>>

\* mapReasoningRunDetail, for the holder and for a verifier.
Read ==
    /\ stage = "completed"
    /\ shown' = IF \A r \in Requirements : Synthesizes(verdicts[r], answers[r])
                THEN "detail" ELSE "unreadable"
    /\ UNCHANGED <<frozen, stage, answers, verdicts>>

Next ==
    \/ \E r \in Requirements : Ask(r)
    \/ Retry \/ Decide \/ Complete \/ NotPersistable \/ Read

Spec == Init /\ [][Next]_vars

-----------------------------------------------------------------------------
TypeOK ==
    /\ capable \in [Requirements -> BOOLEAN] /\ target \in [Requirements -> Targets]
    /\ catalog \subseteq Units /\ included \subseteq Sources /\ incomplete \subseteq included
    /\ stage \in {"reasoning", "decided", "completed", "failed"}
    /\ DOMAIN answers \subseteq Requirements /\ DOMAIN verdicts \subseteq Requirements
    /\ \A r \in DOMAIN answers : answers[r] \in Answer
    /\ \A r \in DOMAIN verdicts : verdicts[r] \in FinalStates
    /\ shown \in {"nothing", "detail", "unreadable"}

Decided == stage \in {"decided", "completed"}

\* A conclusion in favour of a person rests on a unit of the run's own
\* catalogue, on an assessable requirement, with nothing left open: neither a
\* gap, nor a doubt of the model, nor a fact of the run that contradicts it.
PositiveIsEarned ==
    \A r \in Requirements : Decided /\ verdicts[r] \in Positive =>
        /\ capable[r] /\ target[r] # "UNRESOLVED"
        /\ Supporting(answers[r]) # {} /\ Supporting(answers[r]) \subseteq catalog
        /\ answers[r].observability = "SUFFICIENT"
        /\ answers[r].alleged \subseteq incomplete
        /\ ~answers[r].inflated

\* A partial conclusion is a reduction of the same requirement that was found
\* useful, and never a neighbour or a prerequisite of it.
PartialIsConstitutive ==
    \A r \in Requirements : Decided /\ verdicts[r] = "PARTIALLY_SUPPORTED" =>
        /\ WeakerClaim(answers[r]) /\ answers[r].full = "NOT_REACHED"
        /\ answers[r].transformation = "CONSTITUTIVE_REDUCTION"
        /\ answers[r].usefulness = "YES"

\* The three negative states are not confused: the guards never turn one
\* state into another but for abstaining, and never assess what cannot be.
GuardsOnlyAbstain ==
    \A r \in Requirements : Decided =>
        /\ verdicts[r] \in {PreGuardState(r, answers[r]), "ABSTAIN"}
        /\ verdicts[r] = "NOT_ASSESSABLE" <=> ~capable[r]
        /\ verdicts[r] = "INSUFFICIENT_EVIDENCE" => ~HardFailure(r, answers[r])

\* What a run concludes is earned by its own evidence, and its guards take
\* conclusions away without ever making one.
VerdictsAreEarned == PositiveIsEarned /\ PartialIsConstitutive /\ GuardsOnlyAbstain

\* The same answer with one more doubt, or one more allegation.
Doubts(a) ==
    {[a EXCEPT !.semantic = TRUE], [a EXCEPT !.composition = TRUE],
     [a EXCEPT !.full = "UNRESOLVED"], [a EXCEPT !.inflated = TRUE],
     [a EXCEPT !.observability = "MATERIAL_GAP"],
     [a EXCEPT !.observability = "UNRESOLVED"],
     [a EXCEPT !.search = "UNRESOLVED", !.candidate = FALSE]}
    \cup IF Continuous(a) THEN {[a EXCEPT !.usefulness = "UNRESOLVED"]} ELSE {}

\* The same answer resting on less.
Weaker(a, u) == [a EXCEPT !.ceiling = @ \ {u}, !.support = @ \ {u}]

\* A doubt or a missing unit only ever takes a verdict to an abstention: no
\* answer gets a better one, or another one, by knowing less.
DoubtOnlyAbstains ==
    \A r \in Requirements : Decided =>
        /\ \A d \in Doubts(answers[r]) : Verdict(r, d) \in {verdicts[r], "ABSTAIN"}
        /\ \A u \in Units : Verdict(r, Weaker(answers[r], u)) \in {verdicts[r], "ABSTAIN"}

\* What was persisted of a completed run is what its readers get.
CompletedRunsAreReadable == shown # "unreadable"
=============================================================================
