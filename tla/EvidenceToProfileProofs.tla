----------------------- MODULE EvidenceToProfileProofs -----------------------
(***************************************************************************)
(* What is proved on the way from the evidence of a credential to the      *)
(* profile of its holder, module after module: the verdicts of a reasoning *)
(* run (EpistemicPolicy), the analysis of evidence (CredentialAnalysis),   *)
(* the interpretations an issuer applies (SemanticReuse) and the profile   *)
(* that is rebuilt from both (FormativeProfile).  Each has an inductive    *)
(* invariant of its own:                                                   *)
(*                                                                         *)
(* - PolicyInv: accepted answers are well formed, anchored in the run's    *)
(*   catalogue and within its requirements, and what was decided is what   *)
(*   the policy says of them;                                              *)
(* - AnalysisInv: one text and one document are current and the object of  *)
(*   the current document is stored, given what each call in progress      *)
(*   stored, replaced or claimed; a completed run has its analysis, and    *)
(*   embeddings follow the slots they were computed from;                  *)
(* - ReuseInv: one interpretation of a credential is active, what is       *)
(*   approved comes from the credential its template was saved from, and a *)
(*   transaction about to commit read the approval that was reviewed;      *)
(* - ProfileInv: one profile is current and its coverage is of its own     *)
(*   snapshot, given what each operation has read; and, when operations do *)
(*   not overlap and nothing fails, SerialProfileInv: the newest profile   *)
(*   is of the sources as they are, or an operation is about to read them. *)
(***************************************************************************)
EXTENDS EpistemicPolicy, CredentialAnalysis, SemanticReuse, FormativeProfile,
        SequenceTheorems, FiniteSetTheorems, TLAPS

\* What was let in, of the answers accepted so far.
AnswersHold ==
    \A r \in DOMAIN answers : WellFormed(answers[r]) /\ Anchored(answers[r])

\* What was decided is what the policy says of every requirement.
VerdictsHold ==
    Decided =>
        /\ DOMAIN answers = Requirements
        /\ verdicts = [r \in Requirements |-> Verdict(r, answers[r])]

PolicyInv == TypeOK /\ AnswersHold /\ VerdictsHold

-----------------------------------------------------------------------------
(* The policy.                                                              *)

\* A verdict is one of the five states.
LEMMA VerdictIsState ==
    ASSUME NEW r, NEW a
    PROVE  Verdict(r, a) \in FinalStates
  BY DEF Verdict, FinalState, FinalStates

\* A hard failure only takes the verdict to an abstention, and only what is not
\* capable is not assessable (resolveFinalState).
LEMMA FailureOnlyAbstains ==
    ASSUME NEW r, NEW a
    PROVE  /\ Verdict(r, a) \in {PreGuardState(r, a), "ABSTAIN"}
           /\ Verdict(r, a) = "NOT_ASSESSABLE" <=> ~capable[r]
           /\ Verdict(r, a) = "INSUFFICIENT_EVIDENCE" => ~HardFailure(r, a)
  BY DEF Verdict, PreGuardState, FinalState

\* A positive verdict excludes every doubt and every failure.
LEMMA PositiveExcludes ==
    ASSUME NEW r, NEW a, Verdict(r, a) \in Positive
    PROVE  /\ capable[r] /\ ~Unresolved(r, a) /\ ~HardFailure(r, a)
           /\ Verdict(r, a) = "SUPPORTED" => a.full = "REACHED"
           /\ Verdict(r, a) = "PARTIALLY_SUPPORTED" => a.full # "REACHED" /\ Useful(a)
  BY DEF Verdict, FinalState, Positive

\* The support a reader is shown is all that the answer cites.
LEMMA SupportIsCited ==
    ASSUME NEW a, WellFormed(a)
    PROVE  Supporting(a) = Cited(a)
  BY DEF WellFormed, Supporting, Cited, WeakerClaim

\* One more doubt leaves the policy nothing but to abstain.
LEMMA DoubtAbstains ==
    ASSUME NEW r, NEW a \in Answer, NEW d \in Doubts(a)
    PROVE  Unresolved(r, d) \/ HardFailure(r, d)
  <1>1. CASE d = [a EXCEPT !.semantic = TRUE]
    BY <1>1 DEF Answer, Unresolved
  <1>2. CASE d = [a EXCEPT !.composition = TRUE]
    BY <1>2 DEF Answer, Unresolved
  <1>3. CASE d = [a EXCEPT !.full = "UNRESOLVED"]
    BY <1>3 DEF Answer, Unresolved
  <1>4. CASE d = [a EXCEPT !.inflated = TRUE]
    BY <1>4 DEF Answer, HardFailure
  <1>5. CASE \/ d = [a EXCEPT !.observability = "MATERIAL_GAP"]
             \/ d = [a EXCEPT !.observability = "UNRESOLVED"]
    BY <1>5 DEF Answer, Unresolved
  <1>6. CASE d = [a EXCEPT !.search = "UNRESOLVED", !.candidate = FALSE]
    BY <1>6 DEF Answer, Unresolved
  <1>7. CASE Continuous(a) /\ d = [a EXCEPT !.usefulness = "UNRESOLVED"]
    <2>1. d.candidate /\ d.continuity = "YES" /\ d.usefulness = "UNRESOLVED"
      BY <1>7 DEF Answer, Continuous
    <2>2. QED
      BY <2>1 DEF Unresolved, Continuous
  <1>8. QED
    BY <1>1, <1>2, <1>3, <1>4, <1>5, <1>6, <1>7 DEF Doubts

\* An answer that rests on less is as doubtful, and fails what the answer failed.
LEMMA LessFailsMore ==
    ASSUME NEW r, NEW a \in Answer, NEW u
    PROVE  LET w == Weaker(a, u)
           IN  /\ Unresolved(r, w) <=> Unresolved(r, a)
               /\ HardFailure(r, a) => HardFailure(r, w)
               /\ w.full = a.full /\ (Useful(w) <=> Useful(a))
  <1> DEFINE w == Weaker(a, u)
  <1>1. /\ w.full = a.full /\ w.semantic = a.semantic /\ w.composition = a.composition
        /\ w.observability = a.observability /\ w.search = a.search
        /\ w.candidate = a.candidate /\ w.continuity = a.continuity
        /\ w.usefulness = a.usefulness /\ w.blank = a.blank
        /\ w.alleged = a.alleged /\ w.twice = a.twice /\ w.inflated = a.inflated
    BY DEF Answer, Weaker
  <1>2. w.ceiling \subseteq a.ceiling /\ w.support \subseteq a.support
    BY DEF Answer, Weaker
  <1> HIDE DEF w
  <1>3. (Continuous(w) <=> Continuous(a)) /\ (Useful(w) <=> Useful(a))
    BY <1>1 DEF Continuous, Useful
  <1>4. Unresolved(r, w) <=> Unresolved(r, a)
    BY <1>1, <1>3 DEF Unresolved
  <1>5. Cited(w) \subseteq Cited(a)
    BY <1>1, <1>2 DEF Cited
  <1>6. Ungrounded(a) => Ungrounded(w)
    BY <1>1, <1>3, <1>5 DEF Ungrounded
  <1>7. /\ Undocumented(r, a) => Undocumented(r, w)
        /\ AllegesWholeSource(a) => AllegesWholeSource(w)
        /\ MissesNothing(a) => MissesNothing(w)
    BY <1>1 DEF Undocumented, SearchRequired, AllegesWholeSource, MissesNothing
  <1>8. HardFailure(r, a) => HardFailure(r, w)
    BY <1>1, <1>6, <1>7 DEF HardFailure
  <1>9. QED
    BY <1>1, <1>3, <1>4, <1>8 DEF w

-----------------------------------------------------------------------------
(* The run.                                                                 *)

\* Every run starts without answers.
LEMMA InitHolds == Init => PolicyInv
  BY DEF Init, PolicyInv, TypeOK, AnswersHold, VerdictsHold, Decided

\* A call keeps the answers of the other requirements, and lets in one that
\* holds or none.
LEMMA AskHolds ==
    ASSUME PolicyInv, NEW r \in Requirements, Ask(r)
    PROVE  PolicyInv'
  <1>1. stage = "reasoning"
    BY DEF Ask, Asking
  <1>2. CASE \E a \in Answers : Accept(r, a)
    <2>1. PICK a \in Answers : Accept(r, a)
      BY <1>2
    <2>2. a \in Answer
      BY <2>1 DEF Accept, WellFormed
    <2>3. TypeOK'
      BY <2>1, <2>2 DEF Accept, PolicyInv, TypeOK, frozen
    <2>4. AnswersHold'
      BY <2>1 DEF Accept, PolicyInv, AnswersHold, WellFormed, Anchored, frozen
    <2>5. VerdictsHold'
      BY <1>1, <2>1 DEF Accept, VerdictsHold, Decided
    <2>6. QED
      BY <2>3, <2>4, <2>5 DEF PolicyInv
  <1>3. CASE \E a \in Answers : Refuse(r, a)
    BY <1>3 DEF Refuse, PolicyInv, TypeOK, AnswersHold, VerdictsHold, Decided,
                WellFormed, Anchored, frozen
  <1>4. QED
    BY <1>2, <1>3 DEF Ask

\* Nothing is decided before every requirement has its answer.
LEMMA DecideHolds ==
    ASSUME PolicyInv, Decide
    PROVE  PolicyInv'
  <1>1. DOMAIN answers = Requirements
    BY DEF Decide, Asking, PolicyInv, TypeOK
  <1>2. TypeOK'
    BY VerdictIsState DEF Decide, PolicyInv, TypeOK, frozen
  <1>3. AnswersHold'
    BY DEF Decide, PolicyInv, AnswersHold, WellFormed, Anchored, frozen
  <1>4. VerdictsHold'
    BY <1>1 DEF Decide, VerdictsHold, frozen, Verdict, FinalState, Unresolved, Continuous,
                Useful, HardFailure, Undocumented, SearchRequired, AllegesWholeSource,
                MissesNothing, Ungrounded, Cited
  <1>5. QED
    BY <1>2, <1>3, <1>4 DEF PolicyInv

\* The other steps leave the answers and the verdicts, or drop both.
LEMMA OtherStepsHold ==
    ASSUME PolicyInv, Retry \/ Complete \/ NotPersistable \/ Read \/ UNCHANGED vars
    PROVE  PolicyInv'
  <1>1. TypeOK'
    BY DEF Retry, Complete, NotPersistable, Read, vars, PolicyInv, TypeOK, frozen
  <1>2. AnswersHold'
    BY DEF Retry, Complete, NotPersistable, Read, vars, PolicyInv, AnswersHold,
           WellFormed, Anchored, frozen
  <1>3. CASE Retry \/ NotPersistable
    BY <1>1, <1>2, <1>3 DEF Retry, Asking, NotPersistable, PolicyInv, VerdictsHold, Decided
  <1>4. CASE Complete \/ Read \/ UNCHANGED vars
    <2>1. VerdictsHold'
      BY <1>4 DEF Complete, Read, vars, PolicyInv, VerdictsHold, Decided, frozen, Verdict,
                  FinalState, Unresolved, Continuous, Useful, HardFailure, Undocumented,
                  SearchRequired, AllegesWholeSource, MissesNothing, Ungrounded, Cited
    <2>2. QED
      BY <1>1, <1>2, <2>1 DEF PolicyInv
  <1>5. QED
    BY <1>3, <1>4

\* The inductive invariant: accepted answers hold, and what was decided is what
\* the policy says of them (reasoning-run-contextual-reasoning.service.ts,
\* applyDeterministicReasoningPolicy).
THEOREM PolicyInvariant == Spec => []PolicyInv
  <1>1. PolicyInv /\ [Next]_vars => PolicyInv'
    BY AskHolds, DecideHolds, OtherStepsHold DEF Next
  <1>2. QED
    BY <1>1, InitHolds, PTL DEF Spec

-----------------------------------------------------------------------------
(* What the invariant says of every verdict.                                *)

\* The verdict that was written and the answer it was written for.
LEMMA DecidedVerdict ==
    ASSUME PolicyInv, Decided, NEW r \in Requirements
    PROVE  /\ verdicts[r] = Verdict(r, answers[r])
           /\ WellFormed(answers[r]) /\ Anchored(answers[r]) /\ answers[r] \in Answer
  BY DEF PolicyInv, AnswersHold, VerdictsHold, WellFormed

\* A positive verdict rests on units of the catalogue.
LEMMA EarnedInvariant ==
    ASSUME PolicyInv
    PROVE  PositiveIsEarned
  <1> SUFFICES ASSUME NEW r \in Requirements, Decided, verdicts[r] \in Positive
               PROVE  /\ capable[r] /\ target[r] # "UNRESOLVED"
                      /\ Supporting(answers[r]) # {}
                      /\ Supporting(answers[r]) \subseteq catalog
                      /\ answers[r].observability = "SUFFICIENT"
                      /\ answers[r].alleged \subseteq incomplete
                      /\ ~answers[r].inflated
    BY DEF PositiveIsEarned
  <1> DEFINE a == answers[r]
  <1>1. verdicts[r] = Verdict(r, a) /\ WellFormed(a) /\ Anchored(a)
    BY DecidedVerdict
  <1> HIDE DEF a
  <1>2. /\ capable[r] /\ ~Unresolved(r, a) /\ ~HardFailure(r, a)
        /\ a.full = "REACHED" \/ Useful(a)
    BY <1>1, PositiveExcludes DEF Positive
  <1>3. Supporting(a) # {} /\ Supporting(a) \subseteq catalog
    BY <1>1, <1>2, SupportIsCited DEF HardFailure, Ungrounded, Anchored
  <1>4. a.observability = "SUFFICIENT" /\ target[r] # "UNRESOLVED"
    BY <1>2 DEF Unresolved
  <1>5. a.alleged \subseteq incomplete /\ ~a.inflated
    BY <1>2 DEF HardFailure, AllegesWholeSource
  <1>6. QED
    BY <1>2, <1>3, <1>4, <1>5 DEF a

\* A partial verdict is a constitutive reduction that was found useful.
LEMMA ConstitutiveInvariant ==
    ASSUME PolicyInv
    PROVE  PartialIsConstitutive
  <1> SUFFICES ASSUME NEW r \in Requirements, Decided, verdicts[r] = "PARTIALLY_SUPPORTED"
               PROVE  /\ WeakerClaim(answers[r]) /\ answers[r].full = "NOT_REACHED"
                      /\ answers[r].transformation = "CONSTITUTIVE_REDUCTION"
                      /\ answers[r].usefulness = "YES"
    BY DEF PartialIsConstitutive
  <1> DEFINE a == answers[r]
  <1>1. verdicts[r] = Verdict(r, a) /\ WellFormed(a) /\ a \in Answer
    BY DecidedVerdict
  <1> HIDE DEF a
  <1>2. ~Unresolved(r, a) /\ a.full # "REACHED" /\ Useful(a)
    BY <1>1, PositiveExcludes DEF Positive
  <1>3. a.full = "NOT_REACHED"
    BY <1>1, <1>2 DEF Answer, Unresolved
  <1>4. WeakerClaim(a) /\ a.transformation = "CONSTITUTIVE_REDUCTION" /\ a.usefulness = "YES"
    BY <1>1, <1>2 DEF WellFormed, TransformationOf, Statuses, WeakerClaim, Useful, Continuous
  <1>5. QED
    BY <1>3, <1>4 DEF a

\* The guards only abstain.
LEMMA GuardsInvariant ==
    ASSUME PolicyInv
    PROVE  GuardsOnlyAbstain
  BY DecidedVerdict, FailureOnlyAbstains DEF GuardsOnlyAbstain

\* Less knowledge only abstains.
LEMMA DoubtInvariant ==
    ASSUME PolicyInv
    PROVE  DoubtOnlyAbstains
  <1> SUFFICES ASSUME NEW r \in Requirements, Decided
               PROVE  /\ \A d \in Doubts(answers[r]) :
                           Verdict(r, d) \in {verdicts[r], "ABSTAIN"}
                      /\ \A u \in Units :
                           Verdict(r, Weaker(answers[r], u)) \in {verdicts[r], "ABSTAIN"}
    BY DEF DoubtOnlyAbstains
  <1> DEFINE a == answers[r]
  <1>1. verdicts[r] = Verdict(r, a) /\ a \in Answer
    BY DecidedVerdict
  <1> HIDE DEF a
  <1>2. ASSUME NEW d \in Doubts(a)
        PROVE  Verdict(r, d) \in {verdicts[r], "ABSTAIN"}
    <2>1. Unresolved(r, d) \/ HardFailure(r, d)
      BY <1>1, DoubtAbstains
    <2>2. QED
      BY <1>1, <2>1 DEF Verdict, FinalState
  <1>3. ASSUME NEW u \in Units
        PROVE  Verdict(r, Weaker(a, u)) \in {verdicts[r], "ABSTAIN"}
    <2> DEFINE w == Weaker(a, u)
    <2>1. /\ Unresolved(r, w) <=> Unresolved(r, a)
          /\ HardFailure(r, a) => HardFailure(r, w)
          /\ w.full = a.full /\ (Useful(w) <=> Useful(a))
      BY <1>1, LessFailsMore
    <2> HIDE DEF w
    <2>2. Verdict(r, w) \in {verdicts[r], "ABSTAIN"}
      BY <1>1, <2>1 DEF Verdict, FinalState, Useful
    <2>3. QED
      BY <2>2 DEF w
  <1>4. QED
    BY <1>2, <1>3 DEF a

\* Whatever the AI service answers, a conclusion in favour of a person rests on
\* units of the run's own catalogue with nothing left open, a partial one is a
\* reduction of the same requirement, and a guard never makes a conclusion
\* (deterministic-epistemic-policy.ts).
THEOREM VerdictsEarned == Spec => []VerdictsAreEarned
  <1>1. PolicyInv => VerdictsAreEarned
    BY EarnedInvariant, ConstitutiveInvariant, GuardsInvariant DEF VerdictsAreEarned
  <1>2. QED
    BY <1>1, PolicyInvariant, PTL

\* No answer gets a better verdict by knowing less, or by resting on less
\* (resolveFinalState and epistemicIntegrityGuards together).
THEOREM DoubtAbstainsAlways == Spec => []DoubtOnlyAbstains
  BY DoubtInvariant, PolicyInvariant, PTL

-----------------------------------------------------------------------------
(* Sequences of rows.                                                       *)

\* A sequence that is updated at one place.
LEMMA Updated ==
    ASSUME NEW S, NEW s \in Seq(S), NEW g \in DOMAIN s, NEW e \in S, NEW r,
           r = [s EXCEPT ![g] = e]
    PROVE  /\ r \in Seq(S) /\ Len(r) = Len(s) /\ DOMAIN r = DOMAIN s
           /\ \A h \in DOMAIN s : r[h] = IF h = g THEN e ELSE s[h]
<1>1. DOMAIN s = 1..Len(s)
  BY LenProperties
<1>2. r \in Seq(S) /\ Len(r) = Len(s) /\ \A h \in 1..Len(s) : r[h] = IF h = g THEN e ELSE s[h]
  BY <1>1, ExceptSeq
<1>3. DOMAIN r = 1..Len(r)
  BY <1>2, LenProperties
<1> QED
  BY <1>1, <1>2, <1>3

\* A sequence that is appended to.
LEMMA Appended ==
    ASSUME NEW S, NEW s \in Seq(S), NEW e \in S, NEW r, r = Append(s, e)
    PROVE  /\ r \in Seq(S) /\ Len(r) = Len(s) + 1 /\ DOMAIN r = 1..Len(s) + 1
           /\ r[Len(s) + 1] = e
           /\ \A h \in DOMAIN s : h \in DOMAIN r /\ r[h] = s[h]
<1>1. DOMAIN s = 1..Len(s) /\ Len(s) \in Nat
  BY LenProperties
<1>2. /\ r \in Seq(S) /\ Len(r) = Len(s) + 1 /\ r[Len(s) + 1] = e
      /\ \A h \in 1..Len(s) : r[h] = s[h]
  BY AppendProperties
<1>3. DOMAIN r = 1..Len(r)
  BY <1>2, LenProperties
<1> QED
  BY <1>1, <1>2, <1>3

\* A sequence that is made row by row.
LEMMA Mapped ==
    ASSUME NEW S, NEW n \in Nat, NEW r \in [1..n -> S]
    PROVE  r \in Seq(S) /\ Len(r) = n /\ DOMAIN r = 1..n
<1>1. r \in Seq(S)
  BY SeqDef
<1>2. DOMAIN r = 1..n /\ DOMAIN r = 1..Len(r) /\ Len(r) \in Nat
  BY <1>1, LenProperties
<1> QED
  BY <1>1, <1>2

\* A set of which any two members are the same.
LEMMA AtMostOne ==
    ASSUME NEW S, \A x, y \in S : x = y
    PROVE  Cardinality(S) <= 1 /\ Cardinality(S) \in Nat
<1>1. CASE S = {}
  BY <1>1, FS_EmptySet
<1>2. ASSUME NEW x \in S PROVE Cardinality(S) <= 1 /\ Cardinality(S) \in Nat
  <2>1. S = {x}
    OBVIOUS
  <2>2. Cardinality(S) = 1
    BY <2>1, FS_Singleton
  <2> QED
    BY <2>2
<1> QED
  BY <1>1, <1>2

-----------------------------------------------------------------------------
(* The analysis of the evidence: its inductive invariant.                   *)

RunPlaces == {"claim", "source", "extract", "fill", "ai", "complete", "failing", "embed"}
CallRecords ==
    [op : Ops \cup {"none"},
     at : RunPlaces \cup {"idle", "upload", "eligible", "text", "dedup", "create"}, ref : Nat]

AnalysisTypes ==
    /\ AnalysisTypeOK /\ caller \in [Callers -> CallRecords]
    /\ Len(objects) <= MaxDocuments /\ MaxDocuments \in Nat

\* No two rows are current at once.
Single(rows) == \A i, j \in CurrentOf(rows) : i = j

\* An object that is being uploaded is stored, no row names it yet, and no two
\* callers upload the same one.
UploadsInv ==
    /\ \A t \in Callers : CallerAt(t, "upload") =>
          /\ caller[t].ref \in DOMAIN objects /\ objects[caller[t].ref] = "stored"
          /\ \A i \in DOMAIN documents : documents[i].object # caller[t].ref
    /\ \A t, u \in Callers :
          CallerAt(t, "upload") /\ CallerAt(u, "upload") /\ caller[t].ref = caller[u].ref => t = u

\* A caller that executes a run names one that exists.
ClaimsInv == \A t \in Callers : caller[t].at \in RunPlaces => caller[t].ref \in DOMAIN runs

\* The completed runs are those that were analysed, each once.
AnalysedInv ==
    /\ \A k \in DOMAIN analysed : runs[analysed[k]].status = "completed"
    /\ \A k, l \in DOMAIN analysed : analysed[k] = analysed[l] => k = l
    /\ \A r \in DOMAIN runs : runs[r].status = "completed" => \E k \in DOMAIN analysed : analysed[k] = r

AnalysisInv ==
    /\ AnalysisTypes
    /\ Single(documents) /\ Single(texts)
    /\ UploadsInv /\ ClaimsInv /\ AnalysedInv /\ EmbeddingsFollowSlots
    /\ ~LostAnswers => EvidenceIsReadable

OthersCall(t) == \A u \in Callers : u # t => caller'[u] = caller[u]

\* What any step may do to a run.
RunFollows(r) ==
    /\ r \in DOMAIN runs'
    /\ runs'[r].mode = runs[r].mode /\ runs'[r].trigger = runs[r].trigger
    /\ runs'[r].source = runs[r].source
    /\ runs[r].extraction # "absent" => runs'[r].extraction = runs[r].extraction
    /\ \/ runs'[r].status = runs[r].status
       \/ runs[r].status = "pending" /\ runs'[r].status = "running" /\ Allowed(runs[r].trigger)
       \/ runs[r].status = "running" /\ runs'[r].status \in {"completed", "failed"}

-----------------------------------------------------------------------------
(* The rows and their sequences.                                            *)

\* The sequences of the model and what is in them.
LEMMA AnalysisRows ==
    ASSUME AnalysisTypes
    PROVE  /\ DOMAIN documents = 1..Len(documents) /\ Len(documents) \in Nat
           /\ DOMAIN texts = 1..Len(texts) /\ Len(texts) \in Nat
           /\ DOMAIN objects = 1..Len(objects) /\ Len(objects) \in Nat
           /\ DOMAIN runs = 1..Len(runs) /\ Len(runs) \in Nat
           /\ DOMAIN analysed = 1..Len(analysed) /\ Len(analysed) \in Nat
           /\ \A r \in DOMAIN runs : runs[r] \in RunRecords
           /\ \A i \in DOMAIN documents : documents[i] \in Documents
           /\ \A i \in DOMAIN texts : texts[i] \in Texts
           /\ \A k \in DOMAIN analysed : analysed[k] \in DOMAIN runs
           /\ \A t \in Callers : caller[t] \in CallRecords
<1>1. /\ documents \in Seq(Documents) /\ texts \in Seq(Texts) /\ runs \in Seq(RunRecords)
      /\ objects \in Seq({"stored", "deleted"}) /\ analysed \in Seq(1..Len(runs))
  BY DEF AnalysisTypes, AnalysisTypeOK
<1>2. /\ DOMAIN documents = 1..Len(documents) /\ Len(documents) \in Nat
      /\ \A i \in DOMAIN documents : documents[i] \in Documents
  BY <1>1, LenProperties, ElementOfSeq
<1>3. /\ DOMAIN texts = 1..Len(texts) /\ Len(texts) \in Nat
      /\ \A i \in DOMAIN texts : texts[i] \in Texts
  BY <1>1, LenProperties, ElementOfSeq
<1>4. /\ DOMAIN runs = 1..Len(runs) /\ Len(runs) \in Nat
      /\ \A r \in DOMAIN runs : runs[r] \in RunRecords
  BY <1>1, LenProperties, ElementOfSeq
<1>5. DOMAIN objects = 1..Len(objects) /\ Len(objects) \in Nat
  BY <1>1, LenProperties
<1>6. /\ DOMAIN analysed = 1..Len(analysed) /\ Len(analysed) \in Nat
      /\ \A k \in DOMAIN analysed : analysed[k] \in 1..Len(runs)
  BY <1>1, LenProperties, ElementOfSeq
<1>7. \A t \in Callers : caller[t] \in CallRecords
  BY DEF AnalysisTypes
<1> QED
  BY <1>2, <1>3, <1>4, <1>5, <1>6, <1>7

\* A row that comes after rows of which none is current is the current one.
LEMMA LastIsCurrent ==
    ASSUME NEW S, NEW old \in Seq(S), \A i \in DOMAIN old : old[i].status # "current",
           NEW e \in S, NEW new, new = Append(old, e)
    PROVE  /\ new \in Seq(S) /\ Len(new) = Len(old) + 1
           /\ DOMAIN new = 1..Len(old) + 1 /\ new[Len(old) + 1] = e
           /\ \A i \in DOMAIN old : i \in DOMAIN new /\ new[i] = old[i]
           /\ Single(new)
<1>1. /\ new \in Seq(S) /\ Len(new) = Len(old) + 1
      /\ DOMAIN new = 1..Len(old) + 1 /\ new[Len(old) + 1] = e
      /\ \A i \in DOMAIN old : i \in DOMAIN new /\ new[i] = old[i]
  BY Appended
<1>2. DOMAIN old = 1..Len(old) /\ Len(old) \in Nat
  BY LenProperties
<1>3. \A i \in DOMAIN new : i \in DOMAIN old \/ i = Len(old) + 1
  BY <1>1, <1>2
<1>4. \A i \in DOMAIN old : new[i].status # "current"
  BY <1>1
<1>5. \A i \in CurrentOf(new) : i = Len(old) + 1
  BY <1>3, <1>4 DEF CurrentOf
<1>6. Single(new)
  BY <1>5 DEF Single
<1> QED
  BY <1>1, <1>6

\* The rows that give way stay, none of them current.
LEMMA ReplacedDocuments ==
    ASSUME AnalysisTypes, NEW old, old = Replaced(documents)
    PROVE  /\ old \in Seq(Documents) /\ Len(old) = Len(documents) /\ DOMAIN old = DOMAIN documents
           /\ \A i \in DOMAIN old : old[i].status # "current"
           /\ \A i \in DOMAIN old : old[i].object = documents[i].object
<1>1. /\ DOMAIN documents = 1..Len(documents) /\ Len(documents) \in Nat
      /\ \A i \in DOMAIN documents : documents[i] \in Documents
  BY AnalysisRows
<1>2. old = [i \in DOMAIN documents |-> [documents[i] EXCEPT !.status = "replaced"]]
  BY DEF Replaced
<1>3. ASSUME NEW i \in DOMAIN documents
      PROVE  old[i] \in Documents /\ old[i].status = "replaced" /\ old[i].object = documents[i].object
  <2>1. documents[i] \in Documents
    BY <1>1
  <2>2. old[i] = [documents[i] EXCEPT !.status = "replaced"]
    BY <1>2
  <2> QED
    BY <2>1, <2>2 DEF Documents
<1>4. old \in [1..Len(documents) -> Documents]
  BY <1>1, <1>2, <1>3
<1>5. old \in Seq(Documents) /\ Len(old) = Len(documents) /\ DOMAIN old = DOMAIN documents
  BY <1>1, <1>4, Mapped
<1> QED
  BY <1>3, <1>5

\* The texts that a new current one replaces: none is current any more.
LEMMA ReplacedTexts ==
    ASSUME AnalysisTypes, NEW old, old = Replaced(texts)
    PROVE  /\ old \in Seq(Texts) /\ Len(old) = Len(texts) /\ DOMAIN old = DOMAIN texts
           /\ \A i \in DOMAIN old : old[i].status # "current"
<1>1. /\ DOMAIN texts = 1..Len(texts) /\ Len(texts) \in Nat
      /\ \A i \in DOMAIN texts : texts[i] \in Texts
  BY AnalysisRows
<1>2. old = [i \in DOMAIN texts |-> [texts[i] EXCEPT !.status = "replaced"]]
  BY DEF Replaced
<1>3. ASSUME NEW i \in DOMAIN texts
      PROVE  old[i] \in Texts /\ old[i].status = "replaced"
  <2>1. texts[i] \in Texts
    BY <1>1
  <2>2. old[i] = [texts[i] EXCEPT !.status = "replaced"]
    BY <1>2
  <2> QED
    BY <2>1, <2>2 DEF Texts
<1>4. old \in [1..Len(texts) -> Texts]
  BY <1>1, <1>2, <1>3
<1>5. old \in Seq(Texts) /\ Len(old) = Len(texts) /\ DOMAIN old = DOMAIN texts
  BY <1>1, <1>4, Mapped
<1> QED
  BY <1>3, <1>5

-----------------------------------------------------------------------------
(* What a step makes of the call it belongs to.                             *)

Calling(t) ==
    /\ caller' \in [Callers -> CallRecords] /\ OthersCall(t)
    /\ caller'[t] = NoCall \/ caller'[t].op \in Ops

\* A call that is set to a record.
LEMMA CallSet ==
    ASSUME AnalysisTypes, NEW t \in Callers, NEW r \in CallRecords, r = NoCall \/ r.op \in Ops,
           caller' = [caller EXCEPT ![t] = r]
    PROVE  Calling(t) /\ caller'[t] = r
<1>1. caller \in [Callers -> CallRecords]
  BY DEF AnalysisTypes
<1> QED
  BY <1>1 DEF Calling, OthersCall

\* A call that begins.
LEMMA CallBegins ==
    ASSUME AnalysisTypes, NEW t \in Callers, NEW op \in Ops, NEW n \in Nat,
           NEW p \in RunPlaces \cup {"upload", "eligible", "dedup", "create"},
           caller' = [caller EXCEPT ![t] = [op |-> op, at |-> p, ref |-> n]]
    PROVE  Calling(t) /\ caller'[t].op = op /\ caller'[t].at = p /\ caller'[t].ref = n
<1>1. PICK r : r = [op |-> op, at |-> p, ref |-> n]
  OBVIOUS
<1>2. r \in CallRecords /\ r.op \in Ops /\ r.at = p /\ r.ref = n /\ r.op = op
  BY <1>1 DEF CallRecords
<1> QED
  BY <1>1, <1>2, CallSet

\* A call that goes on somewhere, with what it refers to.
LEMMA CallMoves ==
    ASSUME AnalysisTypes, NEW t \in Callers, ~CallerAt(t, "idle"), NEW n \in Nat,
           NEW p \in RunPlaces \cup {"eligible", "text", "dedup", "create"},
           \/ caller' = [caller EXCEPT ![t].at = p, ![t].ref = n]
           \/ CallerGoes(t, p) /\ n = caller[t].ref
    PROVE  Calling(t) /\ caller'[t].op = caller[t].op /\ caller'[t].at = p /\ caller'[t].ref = n
<1>1. /\ caller \in [Callers -> CallRecords] /\ caller[t] \in CallRecords
      /\ caller[t] = NoCall \/ caller[t].op \in Ops
  BY DEF AnalysisTypes, AnalysisTypeOK
<1>2. caller[t].op \in Ops
  BY <1>1 DEF CallerAt, NoCall
<1>3. PICK r : r = [caller[t] EXCEPT !.at = p, !.ref = n]
  OBVIOUS
<1>4. r \in CallRecords /\ r.op = caller[t].op /\ r.at = p /\ r.ref = n
  BY <1>1, <1>3 DEF CallRecords
<1>5. CASE caller' = [caller EXCEPT ![t].at = p, ![t].ref = n]
  <2>1. caller' = [caller EXCEPT ![t] = r]
    BY <1>1, <1>3, <1>5
  <2> QED
    BY <1>2, <1>4, <2>1, CallSet
<1>6. CASE CallerGoes(t, p) /\ n = caller[t].ref
  <2>1. [caller[t] EXCEPT !.at = p] = [caller[t] EXCEPT !.at = p, !.ref = n]
    BY <1>1, <1>6 DEF CallRecords
  <2>2. caller' = [caller EXCEPT ![t] = [caller[t] EXCEPT !.at = p]]
    BY <1>1, <1>6 DEF CallerGoes
  <2>3. caller' = [caller EXCEPT ![t] = r]
    BY <1>3, <2>1, <2>2
  <2> QED
    BY <1>2, <1>4, <2>3, CallSet
<1> QED
  BY <1>5, <1>6

\* A call that ends, or goes on to the analysis of the text, or dies.
LEMMA CallStops ==
    ASSUME AnalysisTypes, NEW t \in Callers,
           CallerEnds(t) \/ caller' = [caller EXCEPT ![t] = NoCall]
    PROVE  Calling(t) /\ caller'[t].at \in {"idle", "eligible"}
<1>1. PICK r : /\ r = After(t) \/ r = NoCall
               /\ caller' = [caller EXCEPT ![t] = r]
  BY DEF CallerEnds
<1>2. r = [op |-> "issue_text", at |-> "eligible", ref |-> 0] \/ r = [op |-> "none", at |-> "idle", ref |-> 0]
  BY <1>1 DEF After, NoCall
<1>3. r \in CallRecords /\ r.at \in {"idle", "eligible"}
  BY <1>2 DEF CallRecords, Ops
<1>4. r = NoCall \/ r.op \in Ops
  BY <1>2 DEF NoCall, Ops
<1> QED
  BY <1>1, <1>3, <1>4, CallSet

-----------------------------------------------------------------------------
(* What a step makes of the runs.                                           *)

\* A run that is changed in place.
LEMMA RunEdited ==
    ASSUME AnalysisTypes, NEW r \in DOMAIN runs, NEW e \in RunRecords,
           runs' = [runs EXCEPT ![r] = e]
    PROVE  /\ runs' \in Seq(RunRecords) /\ Len(runs') = Len(runs) /\ DOMAIN runs' = DOMAIN runs
           /\ \A x \in DOMAIN runs : runs'[x] = IF x = r THEN e ELSE runs[x]
<1>1. runs \in Seq(RunRecords)
  BY DEF AnalysisTypes, AnalysisTypeOK
<1> QED
  BY <1>1, Updated

\* A run that changes its status.
LEMMA StatusSet ==
    ASSUME AnalysisTypes, NEW r \in DOMAIN runs, NEW s \in RunStatuses, SetStatus(r, s)
    PROVE  /\ runs' \in Seq(RunRecords) /\ Len(runs') = Len(runs) /\ DOMAIN runs' = DOMAIN runs
           /\ \A x \in DOMAIN runs : x # r => runs'[x] = runs[x]
           /\ runs'[r].status = s /\ runs'[r].mode = runs[r].mode
           /\ runs'[r].trigger = runs[r].trigger /\ runs'[r].source = runs[r].source
           /\ runs'[r].extraction = runs[r].extraction
<1>1. runs[r] \in RunRecords
  BY AnalysisRows
<1>2. PICK e : e = [runs[r] EXCEPT !.status = s]
  OBVIOUS
<1>3. /\ e \in RunRecords /\ e.status = s /\ e.mode = runs[r].mode /\ e.trigger = runs[r].trigger
      /\ e.source = runs[r].source /\ e.extraction = runs[r].extraction
  BY <1>1, <1>2 DEF RunRecords
<1>4. runs' = [runs EXCEPT ![r] = e]
  BY <1>2 DEF SetStatus
<1> QED
  BY <1>3, <1>4, RunEdited

\* A slot that is filled.
LEMMA SlotFilled ==
    ASSUME AnalysisTypes, NEW r \in DOMAIN runs, NEW a \in Artifacts,
           runs' = [runs EXCEPT ![r].extraction = a]
    PROVE  /\ runs' \in Seq(RunRecords) /\ Len(runs') = Len(runs) /\ DOMAIN runs' = DOMAIN runs
           /\ \A x \in DOMAIN runs : x # r => runs'[x] = runs[x]
           /\ runs'[r].status = runs[r].status /\ runs'[r].mode = runs[r].mode
           /\ runs'[r].trigger = runs[r].trigger /\ runs'[r].source = runs[r].source
<1>1. runs[r] \in RunRecords
  BY AnalysisRows
<1>2. PICK e : e = [runs[r] EXCEPT !.extraction = a]
  OBVIOUS
<1>3. /\ e \in RunRecords /\ e.status = runs[r].status /\ e.mode = runs[r].mode
      /\ e.trigger = runs[r].trigger /\ e.source = runs[r].source
  BY <1>1, <1>2 DEF RunRecords
<1>4. runs' = [runs EXCEPT ![r] = e]
  BY <1>2
<1> QED
  BY <1>3, <1>4, RunEdited

\* A run that is created is pending, over a source that exists.
LEMMA RunCreated ==
    ASSUME AnalysisTypes, NEW t \in Callers, CreatePendingRun(t), runs' # runs
    PROVE  /\ runs' \in Seq(RunRecords) /\ Len(runs') = Len(runs) + 1
           /\ DOMAIN runs' = 1..Len(runs) + 1
           /\ \A x \in DOMAIN runs : x \in DOMAIN runs' /\ runs'[x] = runs[x]
           /\ LET new == runs'[Len(runs) + 1]
              IN  /\ new.source \in DOMAIN RowsOf(new.mode) /\ new.status = "pending"
                  /\ new.extraction = "absent"
           /\ caller' = [caller EXCEPT ![t].at = "claim", ![t].ref = Len(runs) + 1]
<1>1. PICK i \in CurrentOf(RowsOf(ModeOf(caller[t].op))) :
             /\ runs' = Append(runs, [mode |-> ModeOf(caller[t].op),
                                      trigger |-> TriggerOf(caller[t].op), source |-> i,
                                      status |-> "pending", extraction |-> "absent"])
             /\ caller' = [caller EXCEPT ![t].at = "claim", ![t].ref = Len(runs) + 1]
  BY DEF CreatePendingRun
<1>2. PICK e : e = [mode |-> ModeOf(caller[t].op), trigger |-> TriggerOf(caller[t].op),
                    source |-> i, status |-> "pending", extraction |-> "absent"]
  OBVIOUS
<1>3. i \in DOMAIN RowsOf(ModeOf(caller[t].op))
  BY <1>1 DEF CurrentOf
<1>4. i \in Nat
  BY <1>3, AnalysisRows DEF RowsOf
<1>5. ModeOf(caller[t].op) \in AllModes /\ TriggerOf(caller[t].op) \in {"manual", "system"}
  BY DEF ModeOf, TriggerOf, AllModes
<1>6. /\ e.mode = ModeOf(caller[t].op) /\ e.source = i /\ e.status = "pending"
      /\ e.extraction = "absent"
  BY <1>2
<1>7. e \in RunRecords
  BY <1>2, <1>4, <1>5 DEF RunRecords, RunStatuses
<1>8. runs \in Seq(RunRecords) /\ runs' = Append(runs, e)
  BY <1>1, <1>2 DEF AnalysisTypes, AnalysisTypeOK
<1>9. /\ runs' \in Seq(RunRecords) /\ Len(runs') = Len(runs) + 1
      /\ DOMAIN runs' = 1..Len(runs) + 1 /\ runs'[Len(runs) + 1] = e
      /\ \A x \in DOMAIN runs : x \in DOMAIN runs' /\ runs'[x] = runs[x]
  BY <1>7, <1>8, Appended
<1> QED
  BY <1>1, <1>3, <1>6, <1>9

\* The steps that write runs.
RunStep(t) ==
    CreatePendingRun(t) \/ Claim(t) \/ FillExtractionSlot(t) \/ CompleteRun(t) \/ MarkFailed(t)

RunsSame == runs' = runs /\ analysed' = analysed

\* A step analyses no run, or one that was running.
NothingAnalysed ==
    /\ analysed' = analysed
    /\ \A r \in DOMAIN runs : runs'[r].status = "completed" <=> runs[r].status = "completed"
Analysing(r) ==
    /\ r \in DOMAIN runs /\ DOMAIN runs' = DOMAIN runs
    /\ runs[r].status = "running" /\ runs'[r].status = "completed"
    /\ analysed' = Append(analysed, r)
    /\ \A x \in DOMAIN runs : x # r => runs'[x] = runs[x]

RunsFollow ==
    /\ runs' \in Seq(RunRecords) /\ Len(runs) <= Len(runs')
    /\ \A r \in DOMAIN runs : RunFollows(r)
    /\ \A r \in DOMAIN runs' : r \notin DOMAIN runs =>
          runs'[r].status = "pending" /\ runs'[r].source \in DOMAIN RowsOf(runs'[r].mode)
    /\ NothingAnalysed \/ \E r \in DOMAIN runs : Analysing(r)

\* Runs that are left alone follow.
LEMMA RunsUnchanged ==
    ASSUME AnalysisTypes, RunsSame
    PROVE  RunsFollow
<1>1. runs \in Seq(RunRecords) /\ Len(runs) \in Nat
  BY AnalysisRows DEF AnalysisTypes, AnalysisTypeOK
<1>2. runs' \in Seq(RunRecords) /\ Len(runs) <= Len(runs')
  BY <1>1 DEF RunsSame
<1>3. \A r \in DOMAIN runs : RunFollows(r)
  BY DEF RunFollows, RunsSame
<1>4. NothingAnalysed
  BY DEF NothingAnalysed, RunsSame
<1>5. \A r \in DOMAIN runs' : r \in DOMAIN runs
  BY DEF RunsSame
<1> QED
  BY <1>2, <1>3, <1>4, <1>5 DEF RunsFollow

\* What a change of the status of one run makes of the runs.
LEMMA StatusFollows ==
    ASSUME AnalysisTypes, NEW r \in DOMAIN runs, NEW s \in RunStatuses, SetStatus(r, s),
           \/ runs[r].status = "pending" /\ s = "running" /\ Allowed(runs[r].trigger)
           \/ runs[r].status = "running" /\ s \in {"completed", "failed"},
           s # "completed" => analysed' = analysed,
           s = "completed" => analysed' = Append(analysed, r)
    PROVE  RunsFollow
<1>1. /\ runs' \in Seq(RunRecords) /\ Len(runs') = Len(runs) /\ DOMAIN runs' = DOMAIN runs
      /\ \A x \in DOMAIN runs : x # r => runs'[x] = runs[x]
      /\ runs'[r].status = s /\ runs'[r].mode = runs[r].mode
      /\ runs'[r].trigger = runs[r].trigger /\ runs'[r].source = runs[r].source
      /\ runs'[r].extraction = runs[r].extraction
  BY StatusSet
<1>2. Len(runs) \in Nat
  BY AnalysisRows
<1>3. Len(runs) <= Len(runs')
  BY <1>1, <1>2
<1>4. RunFollows(r)
  BY <1>1 DEF RunFollows
<1>5. ASSUME NEW x \in DOMAIN runs, x # r PROVE RunFollows(x)
  BY <1>1, <1>5 DEF RunFollows
<1>6. CASE s # "completed"
  <2>1. NothingAnalysed
    BY <1>1, <1>6 DEF NothingAnalysed
  <2> QED
    BY <1>1, <1>3, <1>4, <1>5, <2>1 DEF RunsFollow
<1>7. CASE s = "completed"
  <2>1. Analysing(r)
    BY <1>1, <1>7 DEF Analysing
  <2> QED
    BY <1>1, <1>3, <1>4, <1>5, <2>1 DEF RunsFollow
<1> QED
  BY <1>6, <1>7

\* The step of a call that claims, completes or fails a run.
LEMMA RunStepFollows ==
    ASSUME AnalysisTypes, ClaimsInv, NEW t \in Callers, RunStep(t)
    PROVE  RunsFollow
<1>1. Len(runs) \in Nat /\ DOMAIN runs = 1..Len(runs)
  BY AnalysisRows
<1>2. CASE RunsSame
  BY <1>2, RunsUnchanged
<1>3. CASE CreatePendingRun(t) /\ ~RunsSame
  <2>1. analysed' = analysed /\ runs' # runs
    BY <1>3 DEF CreatePendingRun, RunsSame
  <2>2. /\ runs' \in Seq(RunRecords) /\ Len(runs') = Len(runs) + 1
        /\ DOMAIN runs' = 1..Len(runs) + 1
        /\ \A x \in DOMAIN runs : x \in DOMAIN runs' /\ runs'[x] = runs[x]
        /\ LET new == runs'[Len(runs) + 1]
           IN  new.source \in DOMAIN RowsOf(new.mode) /\ new.status = "pending"
    BY <1>3, <2>1, RunCreated
  <2>3. Len(runs) <= Len(runs')
    BY <1>1, <2>2
  <2>4. \A r \in DOMAIN runs' : r \notin DOMAIN runs => r = Len(runs) + 1
    BY <1>1, <2>2
  <2>5. \A r \in DOMAIN runs : RunFollows(r)
    BY <2>2 DEF RunFollows
  <2>6. NothingAnalysed
    BY <2>1, <2>2 DEF NothingAnalysed
  <2> QED
    BY <2>2, <2>3, <2>4, <2>5, <2>6 DEF RunsFollow
<1>4. CASE FillExtractionSlot(t) /\ ~RunsSame
  <2>1. Claimed(t) \in DOMAIN runs
    BY <1>4 DEF ClaimsInv, FillExtractionSlot, CallerAt, RunPlaces, Claimed
  <2>2. PICK r \in DOMAIN runs : r = Claimed(t)
    BY <2>1
  <2>3. PICK a \in Artifacts : /\ runs[r].extraction = "absent"
                               /\ runs' = [runs EXCEPT ![r].extraction = a]
    BY <1>4, <2>2 DEF FillExtractionSlot, RunsSame
  <2>4. /\ runs' \in Seq(RunRecords) /\ Len(runs') = Len(runs) /\ DOMAIN runs' = DOMAIN runs
        /\ \A x \in DOMAIN runs : x # r => runs'[x] = runs[x]
        /\ runs'[r].status = runs[r].status /\ runs'[r].mode = runs[r].mode
        /\ runs'[r].trigger = runs[r].trigger /\ runs'[r].source = runs[r].source
    BY <2>3, SlotFilled
  <2>5. Len(runs) <= Len(runs')
    BY <1>1, <2>4
  <2>6. RunFollows(r)
    BY <2>3, <2>4 DEF RunFollows
  <2>7. ASSUME NEW x \in DOMAIN runs, x # r PROVE RunFollows(x)
    BY <2>4, <2>7 DEF RunFollows
  <2>8. analysed' = analysed
    BY <1>4 DEF FillExtractionSlot
  <2>9. NothingAnalysed
    BY <2>4, <2>8 DEF NothingAnalysed
  <2> QED
    BY <2>4, <2>5, <2>6, <2>7, <2>9 DEF RunsFollow
<1>5. CASE Claim(t) /\ ~RunsSame
  <2>1. PICK r \in DOMAIN runs : r = Claimed(t)
    BY <1>5 DEF ClaimsInv, Claim, CallerAt, RunPlaces, Claimed
  <2>2. /\ runs[r].status = "pending" /\ Allowed(runs[r].trigger)
        /\ SetStatus(r, "running") /\ analysed' = analysed
    BY <1>5, <2>1 DEF Claim, RunsSame
  <2> QED
    BY <2>2, StatusFollows DEF RunStatuses
<1>6. CASE CompleteRun(t) /\ ~RunsSame
  <2>1. PICK r \in DOMAIN runs : r = Claimed(t)
    BY <1>6 DEF ClaimsInv, CompleteRun, CallerAt, RunPlaces, Claimed
  <2>2. runs[r].status = "running" /\ SetStatus(r, "completed") /\ analysed' = Append(analysed, r)
    BY <1>6, <2>1 DEF CompleteRun, Completes, RunsSame
  <2> QED
    BY <2>2, StatusFollows DEF RunStatuses
<1>7. CASE MarkFailed(t) /\ ~RunsSame
  <2>1. PICK r \in DOMAIN runs : r = Claimed(t)
    BY <1>7 DEF ClaimsInv, MarkFailed, CallerAt, RunPlaces, Claimed
  <2>2. runs[r].status = "running" /\ SetStatus(r, "failed") /\ analysed' = analysed
    BY <1>7, <2>1 DEF MarkFailed, RunsSame
  <2> QED
    BY <2>2, StatusFollows DEF RunStatuses
<1> QED
  BY <1>2, <1>3, <1>4, <1>5, <1>6, <1>7 DEF RunStep

\* A step of the analysis writes runs, or leaves them.
LEMMA RunsNext ==
    ASSUME AnalysisTypes, ClaimsInv, [AnalysisNext]_analysisVars
    PROVE  RunsFollow
<1>1. CASE \E t \in Callers : RunStep(t)
  BY <1>1, RunStepFollows
<1>2. CASE SubmitText \/ RevokeIssued \/ UNCHANGED analysisVars
  BY <1>2, RunsUnchanged DEF SubmitText, RevokeIssued, RunsSame, analysisVars
<1>3. ASSUME NEW t \in Callers, CallerStarts(t) \/ Die(t) PROVE RunsFollow
  <2>1. RunsSame
    BY <1>3 DEF CallerStarts, Upload, TriggerDocument, TriggerText, IssueDraft, Backfill,
       BackfillExtraction, Die, RunsSame
  <2> QED
    BY <2>1, RunsUnchanged
<1>4. ASSUME NEW t \in Callers, Advance(t), ~RunStep(t) PROVE RunsFollow
  <2>1. RunsSame
    BY <1>4 DEF Advance, RunStep, ReplaceDocument, UploadFails, FindDocument, FindEligible,
       EnsureText, FindRun, ReadSource, EnsureExtraction, Analyze, Embed, RunsSame
  <2> QED
    BY <2>1, RunsUnchanged
<1> QED
  BY <1>1, <1>2, <1>3, <1>4 DEF AnalysisNext
-----------------------------------------------------------------------------
(* What a step makes of the calls.                                          *)

\* A call that uploads has just stored its object; one that executes a run
\* names one that exists.
CallFollows(t) ==
    /\ Calling(t)
    /\ caller'[t].at = "upload" => Upload(t) /\ caller'[t].ref = Len(objects) + 1
    /\ caller'[t].at \in RunPlaces => caller'[t].ref \in DOMAIN runs'

\* A call that starts has read nothing yet.
LEMMA CallStarts ==
    ASSUME AnalysisTypes, NEW t \in Callers, CallerStarts(t)
    PROVE  CallFollows(t)
<1>1. Len(objects) + 1 \in Nat /\ 0 \in Nat
  BY AnalysisRows
<1>2. \A i \in CurrentOf(documents) \cup CurrentOf(texts) \cup DOMAIN runs : i \in Nat
  BY AnalysisRows DEF CurrentOf
<1>3. CASE Upload(t)
  <2>1. Calling(t) /\ caller'[t].at = "upload" /\ caller'[t].ref = Len(objects) + 1
    BY <1>1, <1>3, CallBegins DEF Upload, Ops
  <2> QED
    BY <1>3, <2>1 DEF CallFollows, RunPlaces
<1>4. CASE BackfillExtraction(t)
  <2>1. PICK r \in DOMAIN runs :
           caller' = [caller EXCEPT ![t] = [op |-> "extraction_backfill", at |-> "extract", ref |-> r]]
    BY <1>4 DEF BackfillExtraction
  <2>2. Calling(t) /\ caller'[t].at = "extract" /\ caller'[t].ref = r
    BY <1>2, <2>1, CallBegins DEF Ops, RunPlaces
  <2>3. runs' = runs
    BY <1>4 DEF BackfillExtraction
  <2> QED
    BY <2>2, <2>3 DEF CallFollows
<1>5. CASE TriggerDocument(t) \/ TriggerText(t) \/ IssueDraft(t) \/ Backfill(t)
  <2>1. PICK op \in Ops, n \in Nat, p \in {"eligible", "dedup", "create"} :
           caller' = [caller EXCEPT ![t] = [op |-> op, at |-> p, ref |-> n]]
    BY <1>1, <1>2, <1>5 DEF TriggerDocument, TriggerText, IssueDraft, Backfill, CurrentPdf, Ops
  <2>2. Calling(t) /\ caller'[t].at \in {"eligible", "dedup", "create"}
    BY <2>1, CallBegins
  <2> QED
    BY <2>2 DEF CallFollows, RunPlaces
<1> QED
  BY <1>3, <1>4, <1>5 DEF CallerStarts

\* A call that goes on, ends or dies keeps what its place asks for.
LEMMA CallAdvances ==
    ASSUME AnalysisTypes, ClaimsInv, NEW t \in Callers, Advance(t) \/ Die(t)
    PROVE  CallFollows(t)
<1>1. Len(texts) + 1 \in Nat /\ Len(runs) + 1 \in Nat /\ caller[t].ref \in Nat
  BY AnalysisRows DEF CallRecords
<1>2. \A i \in CurrentOf(documents) \cup CurrentOf(texts) : i \in Nat
  BY AnalysisRows DEF CurrentOf
<1>3. CASE CallerEnds(t) \/ caller' = [caller EXCEPT ![t] = NoCall]
  <2>1. Calling(t) /\ caller'[t].at \in {"idle", "eligible"}
    BY <1>3, CallStops
  <2> QED
    BY <2>1 DEF CallFollows, RunPlaces
<1>4. CASE /\ FindDocument(t) \/ FindEligible(t) \/ EnsureText(t) \/ FindRun(t)
           /\ ~CallerEnds(t)
  <2>1. ~CallerAt(t, "idle")
    BY <1>4 DEF FindDocument, FindEligible, EnsureText, FindRun, CallerAt
  <2>2. PICK n \in Nat, p \in {"text", "dedup", "create"} :
           \/ caller' = [caller EXCEPT ![t].at = p, ![t].ref = n]
           \/ CallerGoes(t, p) /\ n = caller[t].ref
    BY <1>1, <1>2, <1>4 DEF FindDocument, FindEligible, EnsureText, FindRun, CurrentPdf
  <2>3. Calling(t) /\ caller'[t].at \in {"text", "dedup", "create"}
    BY <2>1, <2>2, CallMoves
  <2> QED
    BY <2>3 DEF CallFollows, RunPlaces
<1>5. CASE CreatePendingRun(t) /\ ~CallerEnds(t)
  <2>1. ~CallerAt(t, "idle")
    BY <1>5 DEF CreatePendingRun, CallerAt
  <2>2. runs' # runs /\ caller' = [caller EXCEPT ![t].at = "claim", ![t].ref = Len(runs) + 1]
    <3>1. PICK e : /\ runs' = Append(runs, e)
                   /\ caller' = [caller EXCEPT ![t].at = "claim", ![t].ref = Len(runs) + 1]
      BY <1>5 DEF CreatePendingRun
    <3>2. runs \in Seq(RunRecords) /\ Len(runs) \in Nat
      BY AnalysisRows DEF AnalysisTypes, AnalysisTypeOK
    <3>3. runs \in Seq(RunRecords \cup {e})
      BY <3>2, SeqMonotonic
    <3>4. Len(Append(runs, e)) = Len(runs) + 1
      BY <3>3, AppendProperties
    <3>5. Len(runs') # Len(runs)
      BY <3>1, <3>2, <3>4
    <3> QED
      BY <3>1, <3>5
  <2>3. DOMAIN runs' = 1..Len(runs) + 1
    BY <1>5, <2>2, RunCreated
  <2>6. "claim" \in RunPlaces
    BY DEF RunPlaces
  <2>7. PICK n \in Nat : n = Len(runs) + 1
    BY <1>1
  <2>8. PICK p \in RunPlaces : p = "claim"
    BY <2>6
  <2>10. caller' = [caller EXCEPT ![t].at = p, ![t].ref = n]
    BY <2>2, <2>7, <2>8
  <2>11. \/ caller' = [caller EXCEPT ![t].at = p, ![t].ref = n]
         \/ CallerGoes(t, p) /\ n = caller[t].ref
    BY <2>10
  <2>12. ~CallerAt(t, "idle") /\ p \in RunPlaces \cup {"eligible", "text", "dedup", "create"}
    BY <2>1
  <2>9. Calling(t) /\ caller'[t].at = p /\ caller'[t].ref = n
    BY <2>11, <2>12, CallMoves
  <2>4. Calling(t) /\ caller'[t].at = "claim" /\ caller'[t].ref = Len(runs) + 1
    BY <2>7, <2>8, <2>9
  <2>5. Len(runs) + 1 \in 1..Len(runs) + 1
    BY AnalysisRows
  <2> QED
    BY <2>3, <2>4, <2>5 DEF CallFollows
<1>6. CASE /\ \/ Claim(t) \/ ReadSource(t) \/ EnsureExtraction(t) \/ FillExtractionSlot(t)
              \/ Analyze(t) \/ CompleteRun(t) \/ MarkFailed(t) \/ Embed(t)
           /\ ~CallerEnds(t)
  <2>1. ~CallerAt(t, "idle") /\ caller[t].at \in RunPlaces
    BY <1>6 DEF Claim, ReadSource, EnsureExtraction, FillExtractionSlot, Analyze, CompleteRun,
       MarkFailed, Embed, CallerAt, RunPlaces
  <2>2. PICK p \in {"source", "extract", "fill", "ai", "complete", "failing", "embed"} :
           CallerGoes(t, p)
    BY <1>6 DEF Claim, ReadSource, EnsureExtraction, FillExtractionSlot, Analyze, CompleteRun,
       MarkFailed, Embed, ExtractionEnds
  <2>6. p \in RunPlaces
    BY DEF RunPlaces
  <2>3. Calling(t) /\ caller'[t].at = p /\ caller'[t].ref = caller[t].ref
    BY <1>1, <2>1, <2>2, <2>6, CallMoves
  <2>4. caller[t].ref \in DOMAIN runs
    BY <2>1 DEF ClaimsInv
  <2>5. caller[t].ref \in DOMAIN runs'
    <3>1. [AnalysisNext]_analysisVars
      BY DEF AnalysisNext
    <3> QED
      BY <2>4, <3>1, RunsNext DEF RunsFollow, RunFollows
  <2> QED
    BY <2>3, <2>5 DEF CallFollows
<1>7. CASE ReplaceDocument(t) \/ UploadFails(t) \/ Die(t)
  BY <1>3, <1>7 DEF ReplaceDocument, UploadFails, Die
<1> QED
  BY <1>3, <1>4, <1>5, <1>6, <1>7 DEF Advance

-----------------------------------------------------------------------------
(* What a step makes of the evidence.                                       *)

\* A document that is added takes the place of the current one.
LEMMA DocumentAdded ==
    ASSUME AnalysisTypes, NEW t \in Callers, caller[t].ref \in 1..MaxDocuments, AddDocument(t)
    PROVE  /\ documents' \in Seq(Documents) /\ Len(documents') = Len(documents) + 1
           /\ DOMAIN documents' = 1..Len(documents) + 1
           /\ documents'[Len(documents) + 1].object = caller[t].ref
           /\ \A i \in DOMAIN documents :
                 i \in DOMAIN documents' /\ documents'[i].object = documents[i].object
           /\ Single(documents')
<1>1. PICK kind \in {"pdf", "image"} :
         documents' = Append(Replaced(documents),
                             [status |-> "current", kind |-> kind, object |-> caller[t].ref])
  BY DEF AddDocument
<1>2. PICK e : e = [status |-> "current", kind |-> kind, object |-> caller[t].ref]
  OBVIOUS
<1>3. e \in Documents /\ e.status = "current" /\ e.object = caller[t].ref
  BY <1>2 DEF Documents
<1>4. PICK old : old = Replaced(documents)
  OBVIOUS
<1>5. documents' = Append(old, e)
  BY <1>1, <1>2, <1>4
<1>6. /\ old \in Seq(Documents) /\ Len(old) = Len(documents) /\ DOMAIN old = DOMAIN documents
      /\ \A i \in DOMAIN old : old[i].status # "current"
      /\ \A i \in DOMAIN old : old[i].object = documents[i].object
  BY <1>4, ReplacedDocuments
<1>7. /\ documents' \in Seq(Documents) /\ Len(documents') = Len(old) + 1
      /\ DOMAIN documents' = 1..Len(old) + 1 /\ documents'[Len(old) + 1] = e
      /\ \A i \in DOMAIN old : i \in DOMAIN documents' /\ documents'[i] = old[i]
      /\ Single(documents')
  <2>1. old \in Seq(Documents) /\ \A i \in DOMAIN old : old[i].status # "current"
    BY <1>6
  <2>2. e \in Documents
    BY <1>3
  <2>3. PICK new : new = documents'
    OBVIOUS
  <2>4. new = Append(old, e)
    BY <1>5, <2>3
  <2>5. new \in Seq(Documents) /\ Single(new)
    BY <2>1, <2>2, <2>4, LastIsCurrent
  <2>6. /\ Len(new) = Len(old) + 1
        /\ DOMAIN new = 1..Len(old) + 1 /\ new[Len(old) + 1] = e
        /\ \A i \in DOMAIN old : i \in DOMAIN new /\ new[i] = old[i]
    BY <2>1, <2>2, <2>4, Appended
  <2> QED
    BY <2>3, <2>5, <2>6
<1> QED
  BY <1>3, <1>6, <1>7

\* A text that is submitted takes the place of the current one.
LEMMA TextSubmitted ==
    ASSUME AnalysisTypes, SubmitText
    PROVE  /\ texts' \in Seq(Texts)
           /\ DOMAIN texts \subseteq DOMAIN texts' /\ Single(texts')
<1>1. PICK e : e = [status |-> "current", origin |-> "submitted"]
  OBVIOUS
<1>2. e \in Texts
  BY <1>1 DEF Texts
<1>3. PICK old : old = Replaced(texts)
  OBVIOUS
<1>4. texts' = Append(old, e)
  BY <1>1, <1>3 DEF SubmitText
<1>5. /\ old \in Seq(Texts) /\ DOMAIN old = DOMAIN texts
      /\ \A i \in DOMAIN old : old[i].status # "current"
  BY <1>3, ReplacedTexts
<1>6. /\ texts' \in Seq(Texts) /\ Single(texts')
      /\ \A i \in DOMAIN old : i \in DOMAIN texts'
  BY <1>2, <1>4, <1>5, LastIsCurrent
<1> QED
  BY <1>5, <1>6

\* A text the system adds is the only current one, and the others stay.
LEMMA TextEnsured ==
    ASSUME AnalysisTypes, NEW t \in Callers, EnsureText(t), texts' # texts
    PROVE  /\ texts' \in Seq(Texts)
           /\ DOMAIN texts \subseteq DOMAIN texts' /\ Single(texts')
           /\ CurrentOf(texts) = {} /\ SubSeq(texts', 1, Len(texts)) = texts
<1>1. PICK e : e = [status |-> "current", origin |-> "system"]
  OBVIOUS
<1>2. e \in Texts
  BY <1>1 DEF Texts
<1>3. texts \in Seq(Texts) /\ texts' = Append(texts, e) /\ CurrentOf(texts) = {}
  BY <1>1 DEF AnalysisTypes, AnalysisTypeOK, EnsureText
<1>4. \A i \in DOMAIN texts : texts[i].status # "current"
  BY <1>3 DEF CurrentOf
<1>5. /\ texts' \in Seq(Texts) /\ Len(texts') = Len(texts) + 1 /\ Single(texts')
      /\ \A i \in DOMAIN texts : i \in DOMAIN texts' /\ texts'[i] = texts[i]
  <2>1. texts \in Seq(Texts) /\ texts' = Append(texts, e)
    BY <1>3
  <2>2. PICK old, new : old = texts /\ new = texts'
    OBVIOUS
  <2>3. /\ old \in Seq(Texts) /\ new = Append(old, e)
        /\ \A i \in DOMAIN old : old[i].status # "current"
    BY <1>4, <2>1, <2>2
  <2>4. new \in Seq(Texts) /\ Single(new)
    BY <1>2, <2>3, LastIsCurrent
  <2>5. /\ Len(new) = Len(old) + 1
        /\ \A i \in DOMAIN old : i \in DOMAIN new /\ new[i] = old[i]
    BY <1>2, <2>3, Appended
  <2> QED
    BY <2>2, <2>4, <2>5
<1>6. DOMAIN texts = 1..Len(texts) /\ Len(texts) \in Nat /\ \A i \in DOMAIN texts : texts[i] \in Texts
  BY AnalysisRows
<1>7. SubSeq(texts', 1, Len(texts)) = texts
  <2>1. PICK n \in Nat : n = Len(texts)
    BY <1>6
  <2>2. \A i \in 1..n : texts'[i] = texts[i] /\ texts'[i] \in Texts
    BY <1>5, <1>6, <2>1
  <2>3. PICK ss : ss = SubSeq(texts', 1, n)
    OBVIOUS
  <2>4. /\ ss \in Seq(Texts) /\ Len(ss) = IF 1 <= n THEN n - 1 + 1 ELSE 0
        /\ \A i \in 1..n - 1 + 1 : ss[i] = texts'[1 + i - 1]
    BY <2>2, <2>3, SubSeqProperties
  <2>5. Len(ss) = n
    BY <2>4
  <2>6. \A i \in 1..n : i \in 1..n - 1 + 1 /\ 1 + i - 1 = i
    OBVIOUS
  <2>7. \A i \in 1..n : ss[i] = texts[i]
    BY <2>2, <2>4, <2>6
  <2>8. ss = texts
    BY <1>3, <2>1, <2>4, <2>5, <2>7, SeqEqual
  <2> QED
    BY <2>1, <2>3, <2>8
<1> QED
  BY <1>3, <1>5, <1>7
-----------------------------------------------------------------------------
(* Every step, in its parts.                                                *)

\* A caller moved, or none did.
LEMMA CallersNext ==
    ASSUME AnalysisTypes, ClaimsInv, [AnalysisNext]_analysisVars
    PROVE  caller' = caller \/ \E t \in Callers : CallFollows(t)
<1>1. CASE SubmitText \/ RevokeIssued \/ UNCHANGED analysisVars
  BY <1>1 DEF SubmitText, RevokeIssued, analysisVars
<1>2. CASE \E t \in Callers : CallerStarts(t) \/ Advance(t) \/ Die(t)
  BY <1>2, CallStarts, CallAdvances
<1> QED
  BY <1>1, <1>2 DEF AnalysisNext

\* An upload ends: its document is there unless the transaction failed, and its
\* object stays unless the transaction seemed to fail.
UploadEnds(t) ==
    /\ CallerAt(t, "upload") /\ CallFollows(t) /\ caller'[t].at # "upload"
    /\ documents' = documents \/ AddDocument(t)
    /\ objects' = objects \/ objects' = [objects EXCEPT ![caller[t].ref] = "deleted"]
    /\ documents' = documents \/ objects' = objects \/ LostAnswers
    /\ UNCHANGED <<texts, runs>>

\* Documents and their objects change only in the steps of an upload.
LEMMA EvidenceNext ==
    ASSUME AnalysisTypes, ClaimsInv, [AnalysisNext]_analysisVars
    PROVE  \/ UNCHANGED <<documents, objects>> /\ \A t \in Callers : ~Upload(t)
           \/ \E t \in Callers : Upload(t) /\ CallFollows(t)
           \/ \E t \in Callers : UploadEnds(t)
<1>1. CASE \E t \in Callers : Upload(t)
  BY <1>1, CallStarts DEF CallerStarts
<1>2. ASSUME NEW t \in Callers, ReplaceDocument(t) \/ UploadFails(t)
      PROVE  UploadEnds(t)
  <2>1. CallFollows(t)
    BY <1>2, CallAdvances DEF Advance
  <2>2. CallerEnds(t)
    BY <1>2 DEF ReplaceDocument, UploadFails
  <2>3. caller'[t].at \in {"idle", "eligible"}
    BY <2>2, CallStops
  <2>4. CallerAt(t, "upload")
    BY <1>2 DEF ReplaceDocument, UploadFails
  <2>5. /\ documents' = documents \/ AddDocument(t)
        /\ objects' = objects \/ objects' = [objects EXCEPT ![caller[t].ref] = "deleted"]
        /\ documents' = documents \/ objects' = objects \/ LostAnswers
        /\ UNCHANGED <<texts, runs>>
    BY <1>2 DEF ReplaceDocument, UploadFails
  <2> QED
    BY <2>1, <2>3, <2>4, <2>5 DEF UploadEnds
<1>3. ASSUME SubmitText \/ RevokeIssued \/ UNCHANGED analysisVars
      PROVE  UNCHANGED <<documents, objects>>
  BY <1>3 DEF SubmitText, RevokeIssued, analysisVars
<1>4. ASSUME NEW t \in Callers, CallerStarts(t) \/ Die(t), ~Upload(t)
      PROVE  UNCHANGED <<documents, objects>>
  BY <1>4 DEF CallerStarts, TriggerDocument, TriggerText, IssueDraft, Backfill,
     BackfillExtraction, Die
<1>5. ASSUME NEW t \in Callers, Advance(t), ~ReplaceDocument(t), ~UploadFails(t)
      PROVE  UNCHANGED <<documents, objects>>
  BY <1>5 DEF Advance, FindDocument, FindEligible, EnsureText, FindRun, CreatePendingRun, Claim,
     ReadSource, EnsureExtraction, FillExtractionSlot, Analyze, CompleteRun, MarkFailed, Embed
<1>6. CASE \A t \in Callers : ~Upload(t)
  <2>1. UNCHANGED <<documents, objects>> \/ \E t \in Callers : UploadEnds(t)
    BY <1>2, <1>3, <1>4, <1>5, <1>6 DEF AnalysisNext
  <2> QED
    BY <1>6, <2>1
<1> QED
  BY <1>1, <1>6

\* The texts: submitted on a draft, or added when there is none.
TextsFollow ==
    /\ texts' \in Seq(Texts) /\ DOMAIN texts \subseteq DOMAIN texts' /\ Single(texts')
    /\ credential # "draft" =>
          \/ texts' = texts
          \/ CurrentOf(texts) = {} /\ SubSeq(texts', 1, Len(texts)) = texts

\* Every step leaves one current text and the history before it.
LEMMA TextsNext ==
    ASSUME AnalysisTypes, Single(texts), [AnalysisNext]_analysisVars
    PROVE  TextsFollow
<1>1. texts \in Seq(Texts)
  BY DEF AnalysisTypes, AnalysisTypeOK
<1>2. CASE texts' = texts
  <2>1. Single(texts')
    BY <1>2
  <2> QED
    BY <1>1, <1>2, <2>1 DEF TextsFollow
<1>3. CASE SubmitText
  <2>1. credential = "draft"
    BY <1>3 DEF SubmitText
  <2> QED
    BY <1>3, <2>1, TextSubmitted DEF TextsFollow
<1>4. ASSUME NEW t \in Callers, EnsureText(t), texts' # texts
      PROVE  TextsFollow
  <2>1. /\ texts' \in Seq(Texts) /\ DOMAIN texts \subseteq DOMAIN texts' /\ Single(texts')
        /\ CurrentOf(texts) = {} /\ SubSeq(texts', 1, Len(texts)) = texts
    BY <1>4, TextEnsured
  <2> QED
    BY <2>1 DEF TextsFollow
<1>5. CASE RevokeIssued \/ UNCHANGED analysisVars
  BY <1>2, <1>5 DEF RevokeIssued, analysisVars
<1>6. ASSUME NEW t \in Callers, CallerStarts(t) \/ Die(t)
      PROVE  texts' = texts
  BY <1>6 DEF CallerStarts, Upload, TriggerDocument, TriggerText, IssueDraft, Backfill,
     BackfillExtraction, Die
<1>7. ASSUME NEW t \in Callers, Advance(t), ~EnsureText(t)
      PROVE  texts' = texts
  BY <1>7 DEF Advance, ReplaceDocument, UploadFails, FindDocument, FindEligible, FindRun,
     CreatePendingRun, Claim, ReadSource, EnsureExtraction, FillExtractionSlot, Analyze,
     CompleteRun, MarkFailed, Embed
<1> QED
  BY <1>2, <1>3, <1>4, <1>5, <1>6, <1>7 DEF AnalysisNext

\* The embeddings: one more, of a slot as it is, or none.
EmbeddingsFollow ==
    \/ embeddings' = embeddings
    \/ /\ runs' = runs
       /\ \E r \in DOMAIN runs : /\ EmbeddingSource(r) # "unavailable"
                                 /\ embeddings' = embeddings \cup {<<r, EmbeddingSource(r)>>}

\* Every step leaves each slot the newest unit it was computed from.
LEMMA EmbeddingsNext ==
    ASSUME AnalysisTypes, ClaimsInv, [AnalysisNext]_analysisVars
    PROVE  EmbeddingsFollow
<1>1. ASSUME NEW t \in Callers, Embed(t)
      PROVE  EmbeddingsFollow
  <2>1. PICK r \in DOMAIN runs : r = Claimed(t)
    BY <1>1 DEF ClaimsInv, Embed, CallerAt, RunPlaces, Claimed
  <2> QED
    BY <1>1, <2>1 DEF Embed, EmbeddingsFollow
<1>2. CASE SubmitText \/ RevokeIssued \/ UNCHANGED analysisVars
  BY <1>2 DEF SubmitText, RevokeIssued, analysisVars, EmbeddingsFollow
<1>3. ASSUME NEW t \in Callers, CallerStarts(t) \/ Die(t)
      PROVE  embeddings' = embeddings
  BY <1>3 DEF CallerStarts, Upload, TriggerDocument, TriggerText, IssueDraft, Backfill,
     BackfillExtraction, Die
<1>4. ASSUME NEW t \in Callers, Advance(t), ~Embed(t)
      PROVE  embeddings' = embeddings
  BY <1>4 DEF Advance, ReplaceDocument, UploadFails, FindDocument, FindEligible, EnsureText, FindRun,
     CreatePendingRun, Claim, ReadSource, EnsureExtraction, FillExtractionSlot, Analyze,
     CompleteRun, MarkFailed
<1> QED
  BY <1>1, <1>2, <1>3, <1>4 DEF AnalysisNext, EmbeddingsFollow
-----------------------------------------------------------------------------
(* The invariant is kept.                                                   *)

\* The documents and their objects, and what a caller uploads.
ObjectsExist == \A i \in DOMAIN documents : documents[i].object \in DOMAIN objects
EvidenceInv ==
    /\ Single(documents) /\ UploadsInv /\ ObjectsExist
    /\ ~LostAnswers => EvidenceIsReadable
EvidenceTypes == documents \in Seq(Documents) /\ objects \in Seq({"stored", "deleted"})

\* A step of an upload that goes on.
LEMMA UploadKeeps ==
    ASSUME AnalysisTypes, EvidenceInv, NEW t \in Callers, Upload(t), CallFollows(t)
    PROVE  EvidenceInv' /\ EvidenceTypes'
<1>1. documents' = documents /\ objects' = Append(objects, "stored")
  BY DEF Upload
<1>2. DOMAIN objects = 1..Len(objects) /\ Len(objects) \in Nat
      /\ objects \in Seq({"stored", "deleted"}) /\ documents \in Seq(Documents)
  BY AnalysisRows DEF AnalysisTypes, AnalysisTypeOK
<1>3. PICK n \in Nat : n = Len(objects) + 1
  BY <1>2
<1>4. /\ objects' \in Seq({"stored", "deleted"}) /\ DOMAIN objects' = 1..n /\ objects'[n] = "stored"
      /\ \A k \in DOMAIN objects : k \in DOMAIN objects' /\ objects'[k] = objects[k]
  BY <1>1, <1>2, <1>3, Appended
<1>5. n \notin DOMAIN objects /\ n \in DOMAIN objects'
  BY <1>2, <1>3, <1>4
<1>6. /\ CallerAt(t, "upload")' => caller'[t].ref = n
      /\ \A u \in Callers : u # t => caller'[u] = caller[u]
  BY <1>3 DEF CallFollows, Calling, OthersCall, CallerAt
<1>7. ASSUME NEW u \in Callers, CallerAt(u, "upload")'
      PROVE  /\ caller'[u].ref \in DOMAIN objects' /\ objects'[caller'[u].ref] = "stored"
             /\ \A i \in DOMAIN documents : documents[i].object # caller'[u].ref
  <2>1. CASE u = t
    BY <1>4, <1>5, <1>6, <1>7, <2>1 DEF EvidenceInv, ObjectsExist
  <2>2. CASE u # t
    <3>1. caller'[u] = caller[u] /\ CallerAt(u, "upload")
      BY <1>6, <1>7, <2>2 DEF CallerAt
    <3>2. /\ caller[u].ref \in DOMAIN objects /\ objects[caller[u].ref] = "stored"
          /\ \A i \in DOMAIN documents : documents[i].object # caller[u].ref
      BY <3>1 DEF EvidenceInv, UploadsInv
    <3> QED
      BY <1>4, <3>1, <3>2
  <2> QED
    BY <2>1, <2>2
<1>8. ASSUME NEW u \in Callers, NEW v \in Callers, CallerAt(u, "upload")', CallerAt(v, "upload")',
             caller'[u].ref = caller'[v].ref
      PROVE  u = v
  <2>1. \A w \in Callers : w # t /\ CallerAt(w, "upload")' =>
           /\ caller'[w] = caller[w] /\ CallerAt(w, "upload") /\ caller[w].ref \in DOMAIN objects
    BY <1>6 DEF EvidenceInv, UploadsInv, CallerAt
  <2>2. CASE u # t /\ v # t
    BY <1>8, <2>1, <2>2 DEF EvidenceInv, UploadsInv
  <2>3. CASE u = t /\ v # t
    BY <1>5, <1>6, <1>8, <2>1, <2>3
  <2>4. CASE u # t /\ v = t
    BY <1>5, <1>6, <1>8, <2>1, <2>4
  <2> QED
    BY <2>2, <2>3, <2>4
<1>9. UploadsInv'
  BY <1>1, <1>7, <1>8 DEF UploadsInv
<1>10. ObjectsExist' /\ (~LostAnswers => EvidenceIsReadable')
  BY <1>1, <1>4 DEF EvidenceInv, ObjectsExist, EvidenceIsReadable
<1>11. Single(documents)'
  BY <1>1 DEF EvidenceInv
<1> QED
  BY <1>1, <1>2, <1>4, <1>9, <1>10, <1>11 DEF EvidenceInv, EvidenceTypes

\* The step that ends an upload: what it stored is referenced, or deleted.
LEMMA UploadEndKeeps ==
    ASSUME AnalysisTypes, EvidenceInv, NEW t \in Callers, UploadEnds(t)
    PROVE  EvidenceInv' /\ EvidenceTypes'
<1>1. PICK g : g = caller[t].ref
  OBVIOUS
<1>2. /\ g \in DOMAIN objects /\ objects[g] = "stored"
      /\ \A i \in DOMAIN documents : documents[i].object # g
      /\ \A u \in Callers : CallerAt(u, "upload") /\ caller[u].ref = g => u = t
  BY <1>1 DEF UploadEnds, EvidenceInv, UploadsInv
<1>3. /\ objects \in Seq({"stored", "deleted"}) /\ Len(objects) \in Nat
      /\ DOMAIN objects = 1..Len(objects) /\ documents \in Seq(Documents)
  BY AnalysisRows DEF AnalysisTypes, AnalysisTypeOK
<1>4. /\ objects' \in Seq({"stored", "deleted"}) /\ DOMAIN objects' = DOMAIN objects
      /\ \A k \in DOMAIN objects : k # g => objects'[k] = objects[k]
  <2>1. CASE objects' = objects
    BY <1>3, <2>1
  <2>2. CASE objects' = [objects EXCEPT ![g] = "deleted"]
    <3>1. PICK s \in {"stored", "deleted"} : s = "deleted"
      OBVIOUS
    <3>2. objects' = [objects EXCEPT ![g] = s]
      BY <2>2, <3>1
    <3> QED
      BY <1>2, <1>3, <3>2, Updated
  <2> QED
    BY <1>1, <2>1, <2>2 DEF UploadEnds
<1>5. /\ documents' \in Seq(Documents) /\ Single(documents')
      /\ \A i \in DOMAIN documents' :
            \/ i \in DOMAIN documents /\ documents'[i].object = documents[i].object
            \/ documents'[i].object = g
  <2>1. CASE documents' = documents
    BY <1>3, <2>1 DEF EvidenceInv
  <2>2. CASE documents' # documents /\ AddDocument(t)
    <3>1. g \in 1..MaxDocuments
      <4>1. Len(objects) <= MaxDocuments /\ MaxDocuments \in Nat
        BY DEF AnalysisTypes
      <4> QED
        BY <1>2, <1>3, <4>1
    <3>2. /\ documents' \in Seq(Documents) /\ Len(documents') = Len(documents) + 1
          /\ DOMAIN documents' = 1..Len(documents) + 1
          /\ documents'[Len(documents) + 1].object = g
          /\ \A i \in DOMAIN documents :
                i \in DOMAIN documents' /\ documents'[i].object = documents[i].object
          /\ Single(documents')
      BY <1>1, <2>2, <3>1, DocumentAdded
    <3>3. \A i \in DOMAIN documents' : i \in DOMAIN documents \/ i = Len(documents) + 1
      BY <3>2, AnalysisRows
    <3>4. PICK n : n = Len(documents) + 1
      OBVIOUS
    <3>5. /\ documents'[n].object = g
          /\ \A i \in DOMAIN documents' : i \in DOMAIN documents \/ i = n
          /\ \A i \in DOMAIN documents : documents'[i].object = documents[i].object
      BY <3>2, <3>3, <3>4
    <3>6. \A i \in DOMAIN documents' :
             \/ i \in DOMAIN documents /\ documents'[i].object = documents[i].object
             \/ documents'[i].object = g
      BY <3>5
    <3>7. documents' \in Seq(Documents) /\ Single(documents')
      BY <3>2
    <3> QED
      BY <3>6, <3>7, Zenon
  <2> QED
    BY <2>1, <2>2 DEF UploadEnds
<1>6. \A u \in Callers : CallerAt(u, "upload")' =>
         u # t /\ CallerAt(u, "upload") /\ caller'[u] = caller[u]
  BY DEF UploadEnds, CallFollows, Calling, OthersCall, CallerAt
<1>7. UploadsInv'
  <2>1. ASSUME NEW u \in Callers, CallerAt(u, "upload")'
        PROVE  /\ caller'[u].ref \in DOMAIN objects' /\ objects'[caller'[u].ref] = "stored"
               /\ \A i \in DOMAIN documents' : documents'[i].object # caller'[u].ref
    <3>1. u # t /\ CallerAt(u, "upload") /\ caller'[u] = caller[u]
      BY <1>6, <2>1
    <3>2. /\ caller[u].ref \in DOMAIN objects /\ objects[caller[u].ref] = "stored"
          /\ \A i \in DOMAIN documents : documents[i].object # caller[u].ref
      BY <3>1 DEF EvidenceInv, UploadsInv
    <3>3. caller[u].ref # g
      BY <1>2, <3>1
    <3> QED
      BY <1>4, <1>5, <3>1, <3>2, <3>3
  <2>2. ASSUME NEW u \in Callers, NEW v \in Callers, CallerAt(u, "upload")', CallerAt(v, "upload")',
               caller'[u].ref = caller'[v].ref
        PROVE  u = v
    BY <1>6, <2>2 DEF EvidenceInv, UploadsInv
  <2> QED
    BY <2>1, <2>2 DEF UploadsInv
<1>8. ObjectsExist'
  BY <1>2, <1>4, <1>5 DEF EvidenceInv, ObjectsExist
<1>9. ASSUME ~LostAnswers, NEW i \in DOMAIN documents'
      PROVE  objects'[documents'[i].object] = "stored"
  <2>1. CASE i \in DOMAIN documents /\ documents'[i].object = documents[i].object
    <3>1. documents[i].object # g /\ documents[i].object \in DOMAIN objects
          /\ objects[documents[i].object] = "stored"
      BY <1>2, <1>9, <2>1 DEF EvidenceInv, ObjectsExist, EvidenceIsReadable
    <3> QED
      BY <1>4, <2>1, <3>1
  <2>2. CASE documents'[i].object = g
    <3>1. documents' # documents
      BY <1>2, <2>2
    <3>2. objects' = objects
      BY <1>9, <3>1 DEF UploadEnds
    <3> QED
      BY <1>2, <2>2, <3>2
  <2> QED
    BY <1>5, <1>9, <2>1, <2>2
<1>10. ~LostAnswers => EvidenceIsReadable'
  BY <1>9 DEF EvidenceIsReadable
<1> QED
  BY <1>4, <1>5, <1>7, <1>8, <1>10 DEF EvidenceInv, EvidenceTypes

\* Every step keeps one current document, and its object in the store.
LEMMA EvidenceKeeps ==
    ASSUME AnalysisTypes, ClaimsInv, EvidenceInv, [AnalysisNext]_analysisVars
    PROVE  EvidenceInv' /\ EvidenceTypes'
<1>1. CASE UNCHANGED <<documents, objects>> /\ \A t \in Callers : ~Upload(t)
  <2>1. \A u \in Callers : CallerAt(u, "upload")' =>
           CallerAt(u, "upload") /\ caller'[u] = caller[u]
    BY <1>1, CallersNext DEF CallFollows, Calling, OthersCall, CallerAt
  <2>2. UploadsInv'
    BY <1>1, <2>1 DEF EvidenceInv, UploadsInv
  <2>3. Single(documents)' /\ ObjectsExist' /\ (~LostAnswers => EvidenceIsReadable')
    BY <1>1 DEF EvidenceInv, ObjectsExist, EvidenceIsReadable
  <2> QED
    BY <1>1, <2>2, <2>3 DEF EvidenceInv, EvidenceTypes, AnalysisTypes, AnalysisTypeOK
<1>2. CASE \E t \in Callers : Upload(t) /\ CallFollows(t)
  BY <1>2, UploadKeeps
<1>3. CASE \E t \in Callers : UploadEnds(t)
  BY <1>3, UploadEndKeeps
<1> QED
  BY <1>1, <1>2, <1>3, EvidenceNext

\* The bound of the objects is the one of the guard of Upload.
LEMMA ObjectsBounded ==
    ASSUME AnalysisTypes, ClaimsInv, UploadsInv, [AnalysisNext]_analysisVars
    PROVE  Len(objects') <= MaxDocuments
<1>1. Len(objects) \in Nat /\ Len(objects) <= MaxDocuments /\ MaxDocuments \in Nat
      /\ objects \in Seq({"stored", "deleted"})
  BY AnalysisRows DEF AnalysisTypes, AnalysisTypeOK
<1>2. CASE objects' = objects
  BY <1>1, <1>2
<1>3. ASSUME NEW t \in Callers, Upload(t)
      PROVE  Len(objects') <= MaxDocuments
  <2>1. objects' = Append(objects, "stored") /\ Len(objects) < MaxDocuments
    BY <1>3 DEF Upload
  <2>2. Len(objects') = Len(objects) + 1
    BY <1>1, <2>1, Appended
  <2> QED
    BY <1>1, <2>1, <2>2
<1>4. ASSUME NEW t \in Callers, UploadEnds(t), objects' # objects
      PROVE  Len(objects') <= MaxDocuments
  <2>1. PICK s \in {"stored", "deleted"} : s = "deleted"
    OBVIOUS
  <2>2. PICK g : g = caller[t].ref
    OBVIOUS
  <2>3. objects' = [objects EXCEPT ![g] = s] /\ g \in DOMAIN objects
    BY <1>4, <2>1, <2>2 DEF UploadEnds, UploadsInv
  <2>4. Len(objects') = Len(objects)
    BY <1>1, <2>3, Updated
  <2> QED
    BY <1>1, <2>4
<1> QED
  BY <1>2, <1>3, <1>4, EvidenceNext

\* Documents only grow.
LEMMA DocumentsGrow ==
    ASSUME AnalysisTypes, ClaimsInv, UploadsInv, [AnalysisNext]_analysisVars
    PROVE  DOMAIN documents \subseteq DOMAIN documents'
<1>1. CASE documents' = documents
  BY <1>1
<1>2. ASSUME NEW t \in Callers, UploadEnds(t), documents' # documents
      PROVE  DOMAIN documents \subseteq DOMAIN documents'
  <2>1. caller[t].ref \in DOMAIN objects
    BY <1>2 DEF UploadEnds, UploadsInv
  <2>2. DOMAIN objects = 1..Len(objects) /\ Len(objects) \in Nat
    BY AnalysisRows
  <2>3. Len(objects) <= MaxDocuments /\ MaxDocuments \in Nat
    BY DEF AnalysisTypes
  <2>4. caller[t].ref \in 1..MaxDocuments
    BY <2>1, <2>2, <2>3
  <2>5. AddDocument(t)
    BY <1>2 DEF UploadEnds
  <2> QED
    BY <2>4, <2>5, DocumentAdded
<1>3. ASSUME NEW t \in Callers, Upload(t) PROVE documents' = documents
  BY <1>3 DEF Upload
<1> QED
  BY <1>1, <1>2, <1>3, EvidenceNext

\* The completed runs stay those that were analysed.
LEMMA AnalysedKeeps ==
    ASSUME AnalysisTypes, AnalysedInv, RunsFollow
    PROVE  AnalysedInv' /\ analysed' \in Seq(1..Len(runs'))
<1>1. /\ analysed \in Seq(1..Len(runs)) /\ Len(runs) \in Nat /\ DOMAIN runs = 1..Len(runs)
      /\ DOMAIN analysed = 1..Len(analysed) /\ Len(analysed) \in Nat
      /\ \A k \in DOMAIN analysed : analysed[k] \in DOMAIN runs
  BY AnalysisRows DEF AnalysisTypes, AnalysisTypeOK
<1>2. runs' \in Seq(RunRecords) /\ Len(runs) <= Len(runs')
  BY DEF RunsFollow
<1>3. DOMAIN runs' = 1..Len(runs') /\ Len(runs') \in Nat
  BY <1>2, LenProperties
<1>4. 1..Len(runs) \subseteq 1..Len(runs')
  BY <1>1, <1>2, <1>3
<1>5. analysed \in Seq(1..Len(runs'))
  BY <1>1, <1>4, SeqMonotonic
<1>6. \A r \in DOMAIN runs' : r \notin DOMAIN runs => runs'[r].status # "completed"
  BY DEF RunsFollow
<1>7. CASE NothingAnalysed
  <2>1. /\ analysed' = analysed
        /\ \A r \in DOMAIN runs : runs'[r].status = "completed" <=> runs[r].status = "completed"
    BY <1>7 DEF NothingAnalysed
  <2>2. AnalysedInv'
    BY <1>1, <1>6, <2>1 DEF AnalysedInv
  <2> QED
    BY <1>5, <2>1, <2>2
<1>8. ASSUME NEW g \in DOMAIN runs, Analysing(g)
      PROVE  AnalysedInv' /\ analysed' \in Seq(1..Len(runs'))
  <2>1. /\ DOMAIN runs' = DOMAIN runs
        /\ runs[g].status = "running" /\ runs'[g].status = "completed"
        /\ analysed' = Append(analysed, g)
        /\ \A x \in DOMAIN runs : x # g => runs'[x] = runs[x]
    BY <1>8 DEF Analysing
  <2>2. g \in 1..Len(runs')
    BY <1>3, <2>1
  <2>3. PICK n : n = Len(analysed) + 1
    OBVIOUS
  <2>4. /\ analysed' \in Seq(1..Len(runs')) /\ DOMAIN analysed' = 1..n /\ analysed'[n] = g
        /\ \A k \in DOMAIN analysed : k \in DOMAIN analysed' /\ analysed'[k] = analysed[k]
    BY <1>5, <2>1, <2>2, <2>3, Appended
  <2>5. n \in DOMAIN analysed' /\ \A k \in DOMAIN analysed' : k \in DOMAIN analysed \/ k = n
    BY <1>1, <2>3, <2>4
  <2>6. \A k \in DOMAIN analysed : analysed[k] # g
    BY <2>1 DEF AnalysedInv
  <2>7. \A k \in DOMAIN analysed' : runs'[analysed'[k]].status = "completed"
    BY <1>1, <2>1, <2>4, <2>5, <2>6 DEF AnalysedInv
  <2>8. \A k, l \in DOMAIN analysed' : analysed'[k] = analysed'[l] => k = l
    BY <2>4, <2>5, <2>6 DEF AnalysedInv
  <2>9. ASSUME NEW r \in DOMAIN runs', runs'[r].status = "completed"
        PROVE  \E k \in DOMAIN analysed' : analysed'[k] = r
    <3>1. CASE r = g
      BY <2>4, <2>5, <3>1
    <3>2. CASE r # g
      <4>1. runs[r].status = "completed" /\ r \in DOMAIN runs
        BY <2>1, <2>9, <3>2
      <4>2. PICK k \in DOMAIN analysed : analysed[k] = r
        BY <4>1 DEF AnalysedInv
      <4> QED
        BY <2>4, <4>2
    <3> QED
      BY <3>1, <3>2
  <2>10. AnalysedInv'
    BY <2>7, <2>8, <2>9 DEF AnalysedInv
  <2> QED
    BY <2>4, <2>10
<1> QED
  BY <1>7, <1>8 DEF RunsFollow

\* An embedding stays one of the slot as it is.
LEMMA EmbeddingsKeep ==
    ASSUME AnalysisTypes, EmbeddingsFollowSlots, RunsFollow, EmbeddingsFollow
    PROVE  EmbeddingsFollowSlots' /\ embeddings' \subseteq (DOMAIN runs') \X {"none", "full"}
<1>1. embeddings \subseteq (DOMAIN runs) \X {"none", "full"}
  BY DEF AnalysisTypes, AnalysisTypeOK
<1>2. \A r \in DOMAIN runs : /\ r \in DOMAIN runs' /\ runs'[r].mode = runs[r].mode
                             /\ runs[r].extraction # "absent" => runs'[r].extraction = runs[r].extraction
  BY DEF RunsFollow, RunFollows
<1>3. ASSUME NEW e \in embeddings
      PROVE  /\ e \in (DOMAIN runs') \X {"none", "full"}
             /\ runs'[e[1]].mode = "document" => e[2] = runs'[e[1]].extraction
  <2>1. e \in (DOMAIN runs) \X {"none", "full"}
    BY <1>1
  <2>2. e[1] \in DOMAIN runs /\ e[2] \in {"none", "full"}
    BY <2>1
  <2>3. runs[e[1]].mode = "document" => e[2] = runs[e[1]].extraction
    BY DEF EmbeddingsFollowSlots
  <2> QED
    BY <1>2, <2>1, <2>2, <2>3
<1>4. CASE embeddings' = embeddings
  BY <1>3, <1>4 DEF EmbeddingsFollowSlots
<1>5. ASSUME NEW r \in DOMAIN runs, runs' = runs, EmbeddingSource(r) # "unavailable",
             embeddings' = embeddings \cup {<<r, EmbeddingSource(r)>>}
      PROVE  EmbeddingsFollowSlots' /\ embeddings' \subseteq (DOMAIN runs') \X {"none", "full"}
  <2>1. PICK s : s = EmbeddingSource(r)
    OBVIOUS
  <2>2. s \in {"none", "full"} /\ (runs[r].mode = "document" => s = runs[r].extraction)
    BY <1>5, <2>1 DEF EmbeddingSource
  <2>3. PICK x : x = <<r, s>>
    OBVIOUS
  <2>4. /\ x \in (DOMAIN runs') \X {"none", "full"}
        /\ runs'[x[1]].mode = "document" => x[2] = runs'[x[1]].extraction
    BY <1>5, <2>2, <2>3
  <2>5. embeddings' = embeddings \cup {x}
    BY <1>5, <2>1, <2>3
  <2> QED
    BY <1>3, <2>4, <2>5 DEF EmbeddingsFollowSlots
<1> QED
  BY <1>4, <1>5 DEF EmbeddingsFollow

\* Every step keeps what the calls in progress know.
LEMMA ClaimsKeep ==
    ASSUME AnalysisTypes, ClaimsInv, [AnalysisNext]_analysisVars
    PROVE  /\ ClaimsInv' /\ caller' \in [Callers -> CallRecords]
           /\ \A t \in Callers : caller'[t] = NoCall \/ caller'[t].op \in Ops
<1>1. \A r \in DOMAIN runs : r \in DOMAIN runs'
  BY RunsNext DEF RunsFollow, RunFollows
<1>2. /\ caller \in [Callers -> CallRecords]
      /\ \A t \in Callers : caller[t] = NoCall \/ caller[t].op \in Ops
  BY DEF AnalysisTypes, AnalysisTypeOK
<1>3. CASE caller' = caller
  BY <1>1, <1>2, <1>3 DEF ClaimsInv
<1>4. ASSUME NEW t \in Callers, CallFollows(t)
      PROVE  /\ ClaimsInv' /\ caller' \in [Callers -> CallRecords]
             /\ \A u \in Callers : caller'[u] = NoCall \/ caller'[u].op \in Ops
  BY <1>1, <1>2, <1>4 DEF ClaimsInv, CallFollows, Calling, OthersCall
<1> QED
  BY <1>3, <1>4, CallersNext

\* The types.
LEMMA AnalysisTypesKept ==
    ASSUME AnalysisInv, [AnalysisNext]_analysisVars,
           RunsFollow, TextsFollow, EvidenceInv', EvidenceTypes',
           analysed' \in Seq(1..Len(runs')), embeddings' \subseteq (DOMAIN runs') \X {"none", "full"},
           caller' \in [Callers -> CallRecords],
           \A t \in Callers : caller'[t] = NoCall \/ caller'[t].op \in Ops
    PROVE  AnalysisTypes'
<1>0. AnalysisTypes /\ ClaimsInv /\ UploadsInv
  BY DEF AnalysisInv
<1>1. credential' \in {"draft", "issued", "revoked"}
  <2>1. credential \in {"draft", "issued", "revoked"}
    BY <1>0 DEF AnalysisTypes, AnalysisTypeOK
  <2>2. CASE SubmitText \/ RevokeIssued \/ UNCHANGED analysisVars
    BY <2>1, <2>2 DEF SubmitText, RevokeIssued, analysisVars
  <2>3. ASSUME NEW t \in Callers, CallerStarts(t) \/ Die(t)
        PROVE  credential' \in {credential, "issued"}
    BY <2>3 DEF CallerStarts, Upload, TriggerDocument, TriggerText, IssueDraft, Backfill,
       BackfillExtraction, Die
  <2>4. ASSUME NEW t \in Callers, Advance(t)
        PROVE  credential' = credential
    BY <2>4 DEF Advance, ReplaceDocument, UploadFails, FindDocument, FindEligible, EnsureText,
       FindRun, CreatePendingRun, Claim, ReadSource, EnsureExtraction, FillExtractionSlot, Analyze,
       CompleteRun, MarkFailed, Embed
  <2> QED
    BY <2>1, <2>2, <2>3, <2>4 DEF AnalysisNext
<1>2. /\ documents' \in Seq(Documents) /\ objects' \in Seq({"stored", "deleted"})
      /\ \A i \in DOMAIN documents' : documents'[i].object \in DOMAIN objects'
  BY DEF EvidenceTypes, EvidenceInv, ObjectsExist
<1>3. texts' \in Seq(Texts) /\ runs' \in Seq(RunRecords)
  BY DEF TextsFollow, RunsFollow
<1>4. \A m : DOMAIN RowsOf(m) \subseteq DOMAIN RowsOf(m)'
  BY <1>0, DocumentsGrow DEF RowsOf, TextsFollow
<1>5. ASSUME NEW r \in DOMAIN runs'
      PROVE  runs'[r].source \in DOMAIN RowsOf(runs[r].mode)'
  <2>1. CASE r \in DOMAIN runs
    <3>1. runs'[r].mode = runs[r].mode /\ runs'[r].source = runs[r].source
      BY <2>1 DEF RunsFollow, RunFollows
    <3>2. runs[r].source \in DOMAIN RowsOf(runs[r].mode)
      BY <1>0, <2>1 DEF AnalysisTypes, AnalysisTypeOK
    <3>3. PICK m : m = runs[r].mode
      OBVIOUS
    <3>4. runs[r].source \in DOMAIN RowsOf(m)'
      BY <1>4, <3>2, <3>3
    <3>5. runs'[r].mode = m
      BY <3>1, <3>3
    <3> QED
      BY <3>1, <3>4, <3>5 DEF RowsOf
  <2>2. CASE r \notin DOMAIN runs
    <3>1. PICK m : m = runs'[r].mode
      OBVIOUS
    <3>2. runs'[r].source \in DOMAIN RowsOf(m)
      BY <2>2, <3>1 DEF RunsFollow
    <3>3. runs'[r].source \in DOMAIN RowsOf(m)'
      BY <1>4, <3>2
    <3> QED
      BY <3>1, <3>3 DEF RowsOf
  <2> QED
    BY <2>1, <2>2
<1>6. Len(objects') <= MaxDocuments /\ MaxDocuments \in Nat
  BY <1>0, ObjectsBounded DEF AnalysisTypes
<1>7. AnalysisTypeOK'
  <2>1. \A r \in DOMAIN runs' : runs'[r].source \in DOMAIN RowsOf(runs[r].mode)'
    BY <1>5
  <2> QED
    BY <1>1, <1>2, <1>3, <2>1 DEF AnalysisTypeOK
<1> QED
  BY <1>6, <1>7 DEF AnalysisTypes

\* A step keeps the invariant.
LEMMA AnalysisNextInv ==
    ASSUME AnalysisInv, [AnalysisNext]_analysisVars
    PROVE  AnalysisInv'
<1>1. /\ AnalysisTypes /\ ClaimsInv /\ UploadsInv /\ AnalysedInv /\ EmbeddingsFollowSlots
      /\ Single(texts)
  BY DEF AnalysisInv
<1>2. EvidenceInv
  BY DEF AnalysisInv, EvidenceInv, ObjectsExist, AnalysisTypes, AnalysisTypeOK
<1>3. RunsFollow /\ TextsFollow /\ EmbeddingsFollow
  BY <1>1, RunsNext, TextsNext, EmbeddingsNext
<1>4. EvidenceInv' /\ EvidenceTypes'
  BY <1>1, <1>2, EvidenceKeeps
<1>5. AnalysedInv' /\ analysed' \in Seq(1..Len(runs'))
  BY <1>1, <1>3, AnalysedKeeps
<1>6. EmbeddingsFollowSlots' /\ embeddings' \subseteq (DOMAIN runs') \X {"none", "full"}
  BY <1>1, <1>3, EmbeddingsKeep
<1>7. /\ ClaimsInv' /\ caller' \in [Callers -> CallRecords]
      /\ \A t \in Callers : caller'[t] = NoCall \/ caller'[t].op \in Ops
  BY <1>1, ClaimsKeep
<1>8. AnalysisTypes'
  BY <1>3, <1>4, <1>5, <1>6, <1>7, AnalysisTypesKept
<1>9. Single(texts)'
  BY <1>3 DEF TextsFollow
<1> QED
  BY <1>4, <1>5, <1>6, <1>7, <1>8, <1>9 DEF AnalysisInv, EvidenceInv

\* The invariant holds at the start.
LEMMA AnalysisStarts ==
    ASSUME AnalysisInit
    PROVE  AnalysisInv
<1>1. /\ credential = "draft" /\ documents = << >> /\ texts = << >> /\ objects = << >>
      /\ runs = << >> /\ analysed = << >> /\ embeddings = {}
      /\ caller = [t \in Callers |-> NoCall]
  BY DEF AnalysisInit
<1>2. /\ << >> \in Seq(Documents) /\ << >> \in Seq(Texts) /\ << >> \in Seq({"stored", "deleted"})
      /\ << >> \in Seq(RunRecords) /\ << >> \in Seq(1..0) /\ Len(<< >>) = 0
  BY EmptySeq
<1>3. NoCall \in CallRecords /\ NoCall.at = "idle"
  BY DEF NoCall, CallRecords
<1>4. /\ caller \in [Callers -> CallRecords]
      /\ \A t \in Callers : caller[t] = NoCall /\ caller[t].at = "idle"
  BY <1>1, <1>3
<1>5. MaxDocuments \in Nat
  BY AnalysisAssumption DEF AnalysisAssumption, AnalysisBounds
<1>6. /\ \A i \in DOMAIN documents : FALSE
      /\ \A i \in DOMAIN texts : FALSE
      /\ \A i \in DOMAIN runs : FALSE
      /\ \A i \in DOMAIN analysed : FALSE
  BY <1>1
<1>7. AnalysisTypeOK
  BY <1>1, <1>2, <1>4, <1>6 DEF AnalysisTypeOK
<1>8. Len(objects) <= MaxDocuments
  BY <1>1, <1>2, <1>5
<1>9. AnalysisTypes
  BY <1>4, <1>5, <1>7, <1>8 DEF AnalysisTypes
<1>10. Single(documents) /\ Single(texts)
  BY <1>6 DEF Single, CurrentOf
<1>11. UploadsInv /\ ClaimsInv
  BY <1>4 DEF UploadsInv, ClaimsInv, CallerAt, RunPlaces
<1>12. AnalysedInv /\ EmbeddingsFollowSlots /\ EvidenceIsReadable
  BY <1>1, <1>6 DEF AnalysedInv, EmbeddingsFollowSlots, EvidenceIsReadable
<1> QED
  BY <1>9, <1>10, <1>11, <1>12 DEF AnalysisInv

-----------------------------------------------------------------------------
(* What the evidence says.                                                  *)

\* What the invariant says of a state.
LEMMA AnalysisSays ==
    ASSUME AnalysisInv
    PROVE  /\ OneCurrent
           /\ ~LostAnswers => EvidenceIsReadable
           /\ CompletedMeansAnalysed /\ EmbeddingsFollowSlots
<1>1. OneCurrent
  BY AtMostOne DEF AnalysisInv, Single, OneCurrent
<1>2. ASSUME NEW r \in DOMAIN runs
      PROVE  Cardinality({k \in DOMAIN analysed : analysed[k] = r})
                = (IF runs[r].status = "completed" THEN 1 ELSE 0)
  <2>1. PICK S : S = {k \in DOMAIN analysed : analysed[k] = r}
    OBVIOUS
  <2>2. CASE runs[r].status = "completed"
    <3>1. PICK k \in S : TRUE
      BY <2>1, <2>2 DEF AnalysisInv, AnalysedInv
    <3>2. S = {k}
      BY <2>1, <3>1 DEF AnalysisInv, AnalysedInv
    <3>3. Cardinality(S) = 1
      BY <3>2, FS_Singleton
    <3> QED
      BY <2>1, <2>2, <3>3
  <2>3. CASE runs[r].status # "completed"
    <3>1. S = {}
      BY <2>1, <2>3 DEF AnalysisInv, AnalysedInv
    <3>2. Cardinality(S) = 0
      BY <3>1, FS_EmptySet
    <3> QED
      BY <2>1, <2>3, <3>2
  <2> QED
    BY <2>2, <2>3
<1>3. CompletedMeansAnalysed
  BY <1>2 DEF CompletedMeansAnalysed
<1> QED
  BY <1>1, <1>3 DEF AnalysisInv

\* What no step does: it rewrites no run that ended, no text of an issued
\* credential, and starts no manual run for what is issued.
LEMMA AnalysisKeeps ==
    ASSUME AnalysisInv, [AnalysisNext]_analysisVars
    PROVE  /\ \A r \in DOMAIN runs :
                 /\ runs[r].status \in {"completed", "failed"} => runs'[r].status = runs[r].status
                 /\ runs[r].extraction # "absent" => runs'[r].extraction = runs[r].extraction
                 /\ runs'[r].source = runs[r].source
           /\ credential # "draft" =>
                 \/ texts' = texts
                 \/ CurrentOf(texts) = {} /\ SubSeq(texts', 1, Len(texts)) = texts
           /\ \A r \in DOMAIN runs :
                 runs[r].trigger = "manual" /\ runs[r].status = "pending"
                   /\ runs'[r].status = "running" => credential = "draft"
<1>1. RunsFollow /\ TextsFollow
  BY RunsNext, TextsNext DEF AnalysisInv
<1>2. \A r \in DOMAIN runs : RunFollows(r)
  BY <1>1 DEF RunsFollow
<1>3. ASSUME NEW r \in DOMAIN runs
      PROVE  /\ runs[r].status \in {"completed", "failed"} => runs'[r].status = runs[r].status
             /\ runs[r].extraction # "absent" => runs'[r].extraction = runs[r].extraction
             /\ runs'[r].source = runs[r].source
             /\ runs[r].trigger = "manual" /\ runs[r].status = "pending"
                  /\ runs'[r].status = "running" => credential = "draft"
  BY <1>2 DEF RunFollows, Allowed
<1> QED
  BY <1>1, <1>3 DEF TextsFollow

\* What was recorded is not rewritten.
LEMMA AnalysisActions ==
    AnalysisSpec => HistoryIsFinal /\ TextsFrozenAfterIssue /\ ManualRunsAreForDrafts
<1>1. AnalysisInit => AnalysisInv
  BY AnalysisStarts
<1>2. AnalysisInv /\ [AnalysisNext]_analysisVars => AnalysisInv'
  BY AnalysisNextInv
<1>3. AnalysisInv /\ [AnalysisNext]_analysisVars =>
         [\A r \in DOMAIN runs :
          /\ runs[r].status \in {"completed", "failed"} => runs'[r].status = runs[r].status
          /\ runs[r].extraction # "absent" => runs'[r].extraction = runs[r].extraction
          /\ runs'[r].source = runs[r].source]_analysisVars
  BY AnalysisKeeps
<1>4. AnalysisInv /\ [AnalysisNext]_analysisVars =>
         [credential # "draft" =>
          \/ texts' = texts
          \/ CurrentOf(texts) = {} /\ SubSeq(texts', 1, Len(texts)) = texts]_analysisVars
  BY AnalysisKeeps
<1>5. AnalysisInv /\ [AnalysisNext]_analysisVars =>
         [\A r \in DOMAIN runs :
          runs[r].trigger = "manual" /\ runs[r].status = "pending"
            /\ runs'[r].status = "running" => credential = "draft"]_analysisVars
  BY AnalysisKeeps
<1>6. AnalysisSpec => HistoryIsFinal
  BY <1>1, <1>2, <1>3, PTL DEF AnalysisSpec, HistoryIsFinal
<1>7. AnalysisSpec => TextsFrozenAfterIssue
  BY <1>1, <1>2, <1>4, PTL DEF AnalysisSpec, TextsFrozenAfterIssue
<1>8. AnalysisSpec => ManualRunsAreForDrafts
  BY <1>1, <1>2, <1>5, PTL DEF AnalysisSpec, ManualRunsAreForDrafts
<1> QED
  BY <1>6, <1>7, <1>8

\* What is true of every state.
LEMMA AnalysisStates ==
    AnalysisSpec => [](/\ OneCurrent
                       /\ ~LostAnswers => EvidenceIsReadable
                       /\ CompletedMeansAnalysed /\ EmbeddingsFollowSlots)
<1>1. AnalysisInit => AnalysisInv
  BY AnalysisStarts
<1>2. AnalysisInv /\ [AnalysisNext]_analysisVars => AnalysisInv'
  BY AnalysisNextInv
<1>3. AnalysisInv => /\ OneCurrent
                     /\ ~LostAnswers => EvidenceIsReadable
                     /\ CompletedMeansAnalysed /\ EmbeddingsFollowSlots
  BY AnalysisSays
<1> QED
  BY <1>1, <1>2, <1>3, PTL DEF AnalysisSpec

\* The evidence of a credential is whole, for any number of callers, of rows
\* and of runs.
THEOREM EvidenceHolds == AnalysisSpec => EvidenceIsWhole
  BY AnalysisActions, AnalysisStates, PTL DEF EvidenceIsWhole

-----------------------------------------------------------------------------
(* The reusable content: its inductive invariant.                           *)

RequestRecords ==
    [op : {"none", "save", "approve", "apply"},
     at : {"idle", "check", "find", "create", "approve", "begin", "commit", "reconcile", "answer"},
     cred : Reusable \cup {NoOrigin}, number : 0..MaxOwnAnalyses, template : Nat,
     reviewed : 0..MaxGiven, attempt : 0..MaxAttempts, seen : Approvals \cup {NoApproval},
     row : Nat]

ReuseTypes == ReuseTypeOK /\ request \in [Requests -> RequestRecords]

\* What a request holds at its places: a credential of the issuer; a template
\* that exists, of that credential when it is about to be approved; and the
\* approval that was looked at, once the transaction found it again.
RequestInv(r) ==
    /\ r.at # "idle" => r.cred \in Reusable
    /\ r.op = "approve" => r.number \in 1..MaxOwnAnalyses
    /\ r.at = "find" => r.op = "approve"
    /\ r.at = "approve" =>
          /\ r.op = "approve" /\ r.template \in DOMAIN templates
          /\ templates[r.template].from \in {NoOrigin, r.cred}
    /\ r.at \in {"begin", "commit", "reconcile"} =>
          r.template \in DOMAIN templates /\ r.reviewed \in 1..MaxGiven
    /\ r.at = "commit" => r.seen \in Approvals /\ r.seen.revision = r.reviewed

ApprovedHere(x) == x.from # NoOrigin /\ x.approval # NoApproval => x.approval.cred = x.from

ReuseInv ==
    /\ ReuseTypes
    /\ \A t \in Requests : RequestInv(request[t])
    /\ \A c \in Reusable : \A k, l \in ActiveRows(c) : k = l
    /\ ApprovedFromItsSource

OthersAsk(t) == \A u \in Requests : u # t => request'[u] = request[u]

\* The sequences of the model and what is in them.
LEMMA ReuseRows ==
    ASSUME ReuseTypes
    PROVE  /\ DOMAIN templates = 1..Len(templates) /\ Len(templates) \in Nat
           /\ DOMAIN applications = 1..Len(applications) /\ Len(applications) \in Nat
           /\ \A i \in DOMAIN templates : templates[i] \in Templates
           /\ \A k \in DOMAIN applications : applications[k] \in Applications
           /\ \A t \in Requests : request[t] \in RequestRecords
<1>1. templates \in Seq(Templates) /\ applications \in Seq(Applications)
  BY DEF ReuseTypes, ReuseTypeOK
<1>2. /\ DOMAIN templates = 1..Len(templates) /\ Len(templates) \in Nat
      /\ \A i \in DOMAIN templates : templates[i] \in Templates
  BY <1>1, LenProperties, ElementOfSeq
<1>3. /\ DOMAIN applications = 1..Len(applications) /\ Len(applications) \in Nat
      /\ \A k \in DOMAIN applications : applications[k] \in Applications
  BY <1>1, LenProperties, ElementOfSeq
<1> QED
  BY <1>2, <1>3 DEF ReuseTypes

\* The bounds are natural numbers.
LEMMA ReuseConstants ==
    /\ MaxOwnAnalyses \in Nat /\ MaxTemplates \in Nat /\ MaxGiven \in Nat /\ MaxApplications \in Nat
  BY ReuseAssumption DEF ReuseAssumption, ReuseBounds

\* The row of the active interpretation, when there is one.
LEMMA ActiveRowIs ==
    ASSUME NEW c
    PROVE  /\ ActiveRows(c) = {} => ActiveRow(c) = 0
           /\ ActiveRows(c) # {} => ActiveRow(c) \in ActiveRows(c)
  BY DEF ActiveRow

-----------------------------------------------------------------------------
(* What a step makes of the request it belongs to.                          *)

\* A request that is set to a record.
LEMMA RequestSet ==
    ASSUME ReuseTypes, NEW t \in Requests, NEW r \in RequestRecords,
           request' = [request EXCEPT ![t] = r]
    PROVE  request' \in [Requests -> RequestRecords] /\ OthersAsk(t) /\ request'[t] = r
<1>1. request \in [Requests -> RequestRecords]
  BY DEF ReuseTypes
<1> QED
  BY <1>1 DEF OthersAsk

\* A request that is over.
LEMMA NoRequestFits ==
    /\ NoRequest \in RequestRecords /\ NoRequest.at = "idle" /\ NoRequest.op = "none"
    /\ NoRequest.number = 0 /\ NoRequest.template = 0 /\ NoRequest.reviewed = 0
    /\ NoRequest.attempt = 0 /\ NoRequest.row = 0
<1>1. /\ NoRequest.at = "idle" /\ NoRequest.op = "none"
      /\ NoRequest.number = 0 /\ NoRequest.template = 0 /\ NoRequest.reviewed = 0
      /\ NoRequest.attempt = 0 /\ NoRequest.row = 0
  BY DEF NoRequest
<1>2. /\ 0 \in 0..MaxOwnAnalyses /\ 0 \in 0..MaxGiven /\ 0 \in 0..MaxAttempts /\ 0 \in Nat
  BY ReuseConstants DEF MaxAttempts
<1>3. NoRequest \in RequestRecords
  BY <1>2 DEF NoRequest, RequestRecords
<1> QED
  BY <1>1, <1>3

\* A request that begins.
Asked(op, place, c, n, i, reviewed, attempt) ==
    [NoRequest EXCEPT !.op = op, !.at = place, !.cred = c, !.number = n, !.template = i,
                      !.reviewed = reviewed, !.attempt = attempt]

Begun(t, op, place, c, n, i, reviewed, attempt) ==
    request' = [request EXCEPT ![t] = Asked(op, place, c, n, i, reviewed, attempt)]

\* A request that begins is all it was asked for, and nothing was read.
LEMMA RequestBegins ==
    ASSUME ReuseTypes, NEW t \in Requests, NEW op \in {"save", "approve", "apply"},
           NEW place \in {"check", "find", "approve", "begin"}, NEW c \in Reusable,
           NEW n \in 0..MaxOwnAnalyses, NEW i \in Nat, NEW reviewed \in 0..MaxGiven,
           NEW attempt \in 0..MaxAttempts,
           Begun(t, op, place, c, n, i, reviewed, attempt)
    PROVE  /\ request' \in [Requests -> RequestRecords] /\ OthersAsk(t)
           /\ request'[t].op = op /\ request'[t].at = place /\ request'[t].cred = c
           /\ request'[t].number = n /\ request'[t].template = i
           /\ request'[t].reviewed = reviewed /\ request'[t].attempt = attempt
           /\ request'[t].row = 0
<1>1. PICK r : r = Asked(op, place, c, n, i, reviewed, attempt)
  OBVIOUS
<1>2. /\ r.op = op /\ r.at = place /\ r.cred = c /\ r.number = n /\ r.template = i
      /\ r.reviewed = reviewed /\ r.attempt = attempt /\ r.row = 0
  BY <1>1, NoRequestFits DEF Asked, RequestRecords
<1>3. r \in RequestRecords
  BY <1>1, NoRequestFits DEF Asked, RequestRecords
<1>4. request' = [request EXCEPT ![t] = r]
  BY <1>1 DEF Begun
<1> QED
  BY <1>2, <1>3, <1>4, RequestSet

\* A request that goes on, with what it read.
GoesOn(t, i, attempt, seen, row, place) ==
    request' = [request EXCEPT ![t] =
        [request[t] EXCEPT !.template = i, !.attempt = attempt, !.seen = seen, !.row = row,
                           !.at = place]]

\* A request that goes on keeps what it was asked for.
LEMMA RequestMoves ==
    ASSUME ReuseTypes, NEW t \in Requests, NEW i \in Nat, NEW attempt \in 0..MaxAttempts,
           NEW seen \in Approvals \cup {NoApproval}, NEW row \in Nat,
           NEW place \in {"check", "create", "approve", "begin", "commit", "reconcile", "answer"},
           GoesOn(t, i, attempt, seen, row, place)
    PROVE  /\ request' \in [Requests -> RequestRecords] /\ OthersAsk(t)
           /\ request'[t].op = request[t].op /\ request'[t].cred = request[t].cred
           /\ request'[t].number = request[t].number /\ request'[t].reviewed = request[t].reviewed
           /\ request'[t].template = i /\ request'[t].attempt = attempt
           /\ request'[t].seen = seen /\ request'[t].row = row /\ request'[t].at = place
<1>1. request[t] \in RequestRecords
  BY ReuseRows
<1>2. PICK r : r = [request[t] EXCEPT !.template = i, !.attempt = attempt, !.seen = seen,
                                      !.row = row, !.at = place]
  OBVIOUS
<1>3. /\ r.op = request[t].op /\ r.cred = request[t].cred /\ r.number = request[t].number
      /\ r.reviewed = request[t].reviewed /\ r.template = i /\ r.attempt = attempt
      /\ r.seen = seen /\ r.row = row /\ r.at = place
  BY <1>1, <1>2 DEF RequestRecords
<1>4. r \in RequestRecords
  BY <1>1, <1>2 DEF RequestRecords
<1>5. request' = [request EXCEPT ![t] = r]
  BY <1>2 DEF GoesOn
<1> QED
  BY <1>3, <1>4, <1>5, RequestSet

\* What a request needs of the rows after its step.
RequestFits(t) ==
    /\ request' \in [Requests -> RequestRecords] /\ OthersAsk(t)
    /\ RequestInv(request[t])'
    /\ request'[t].template \in 0..Len(templates') /\ request'[t].row \in 0..Len(applications')

\* Steps only add templates, and change what is approved of them or how they
\* are shown; they only add applications, and supersede.
RowsGrow ==
    /\ templates' \in Seq(Templates) /\ Len(templates) <= Len(templates')
    /\ Len(templates') <= MaxTemplates
    /\ \A i \in DOMAIN templates : templates'[i].from = templates[i].from
    /\ \A i \in DOMAIN templates' : ApprovedHere(templates'[i])
    /\ applications' \in Seq(Applications) /\ Len(applications) <= Len(applications')
    /\ Len(applications') <= MaxApplications
    /\ \A k \in DOMAIN applications : k \in DOMAIN applications'
          /\ applications'[k] \in {applications[k], [applications[k] EXCEPT !.status = "superseded"]}

\* A request that is over needs nothing.
LEMMA RequestEnded ==
    ASSUME ReuseTypes, RowsGrow, NEW t \in Requests, RequestEnds(t)
    PROVE  RequestFits(t)
<1>1. request' \in [Requests -> RequestRecords] /\ OthersAsk(t) /\ request'[t] = NoRequest
  BY NoRequestFits, RequestSet DEF RequestEnds
<1>2. RequestInv(request[t])'
  BY <1>1, NoRequestFits DEF RequestInv
<1>3. Len(templates') \in Nat /\ Len(applications') \in Nat
  BY LenProperties DEF RowsGrow
<1>4. request'[t].template = 0 /\ request'[t].row = 0
  BY <1>1 DEF NoRequest
<1> QED
  BY <1>1, <1>2, <1>3, <1>4 DEF RequestFits

-----------------------------------------------------------------------------
(* What a step makes of the rows.                                           *)

\* Templates that are left alone.
LEMMA TemplatesSame ==
    ASSUME ReuseInv, UNCHANGED templates
    PROVE  /\ templates' \in Seq(Templates) /\ Len(templates) <= Len(templates')
           /\ Len(templates') <= MaxTemplates
           /\ \A i \in DOMAIN templates : templates'[i].from = templates[i].from
           /\ \A i \in DOMAIN templates' : ApprovedHere(templates'[i])
<1>1. /\ templates \in Seq(Templates) /\ Len(templates) <= MaxTemplates /\ Len(templates) \in Nat
      /\ \A i \in DOMAIN templates : ApprovedHere(templates[i])
  BY ReuseRows DEF ReuseInv, ReuseTypes, ReuseTypeOK, ApprovedFromItsSource, ApprovedHere
<1>2. Len(templates) <= Len(templates)
  BY <1>1
<1> QED
  BY <1>1, <1>2

\* Applications that are left alone.
LEMMA ApplicationsSame ==
    ASSUME ReuseInv, UNCHANGED applications
    PROVE  /\ applications' \in Seq(Applications) /\ Len(applications) <= Len(applications')
           /\ Len(applications') <= MaxApplications
           /\ \A k \in DOMAIN applications : k \in DOMAIN applications'
                 /\ applications'[k] \in {applications[k], [applications[k] EXCEPT !.status = "superseded"]}
<1>1. /\ applications \in Seq(Applications) /\ Len(applications) <= MaxApplications
      /\ Len(applications) \in Nat
  BY ReuseRows DEF ReuseInv, ReuseTypes, ReuseTypeOK
<1>2. Len(applications) <= Len(applications)
  BY <1>1
<1> QED
  BY <1>1, <1>2

\* A template that is added is approved for nothing yet.
LEMMA TemplateAdded ==
    ASSUME ReuseInv, NEW from \in Reusable \cup {NoOrigin}, AddTemplate(from)
    PROVE  /\ templates' \in Seq(Templates) /\ Len(templates) <= Len(templates')
           /\ Len(templates') <= MaxTemplates
           /\ \A i \in DOMAIN templates : templates'[i].from = templates[i].from
           /\ \A i \in DOMAIN templates' : ApprovedHere(templates'[i])
           /\ Len(templates') = Len(templates) + 1
           /\ Len(templates) + 1 \in DOMAIN templates'
           /\ templates'[Len(templates) + 1].from = from
<1>1. /\ templates \in Seq(Templates) /\ Len(templates) \in Nat /\ DOMAIN templates = 1..Len(templates)
      /\ \A i \in DOMAIN templates : ApprovedHere(templates[i])
  BY ReuseRows DEF ReuseInv, ReuseTypes, ReuseTypeOK, ApprovedFromItsSource, ApprovedHere
<1>2. PICK e : e = [from |-> from, title |-> "own", active |-> TRUE, approval |-> NoApproval]
  OBVIOUS
<1>3. e \in Templates /\ e.from = from /\ ApprovedHere(e)
  BY <1>2 DEF Templates, ApprovedHere
<1>4. templates' = Append(templates, e) /\ Len(templates) < MaxTemplates
  BY <1>2 DEF AddTemplate
<1>5. PICK n : n = Len(templates) + 1
  OBVIOUS
<1>6. /\ templates' \in Seq(Templates) /\ Len(templates') = n /\ DOMAIN templates' = 1..n
      /\ templates'[n] = e
      /\ \A i \in DOMAIN templates : i \in DOMAIN templates' /\ templates'[i] = templates[i]
  BY <1>1, <1>3, <1>4, <1>5, Appended
<1>7. n \in DOMAIN templates' /\ \A i \in DOMAIN templates' : i \in DOMAIN templates \/ i = n
  BY <1>1, <1>5, <1>6
<1>8. Len(templates') <= MaxTemplates /\ Len(templates) <= Len(templates')
  BY <1>1, <1>4, <1>5, <1>6, ReuseConstants
<1>9. \A i \in DOMAIN templates' : ApprovedHere(templates'[i])
  BY <1>1, <1>3, <1>6, <1>7
<1>10. \A i \in DOMAIN templates : templates'[i].from = templates[i].from
  BY <1>6
<1>11. templates'[n].from = from
  BY <1>3, <1>6
<1> QED
  BY <1>5, <1>6, <1>7, <1>8, <1>9, <1>10, <1>11

\* A template that is changed in place keeps where it was saved from.
LEMMA TemplateEdited ==
    ASSUME ReuseInv, NEW i \in DOMAIN templates, NEW e \in Templates,
           e.from = templates[i].from, ApprovedHere(e),
           templates' = [templates EXCEPT ![i] = e]
    PROVE  /\ templates' \in Seq(Templates) /\ Len(templates) <= Len(templates')
           /\ Len(templates') <= MaxTemplates
           /\ \A j \in DOMAIN templates : templates'[j].from = templates[j].from
           /\ \A j \in DOMAIN templates' : ApprovedHere(templates'[j])
<1>1. /\ templates \in Seq(Templates) /\ Len(templates) \in Nat /\ Len(templates) <= MaxTemplates
      /\ \A j \in DOMAIN templates : ApprovedHere(templates[j])
  BY ReuseRows DEF ReuseInv, ReuseTypes, ReuseTypeOK, ApprovedFromItsSource, ApprovedHere
<1>2. /\ templates' \in Seq(Templates) /\ Len(templates') = Len(templates)
      /\ DOMAIN templates' = DOMAIN templates
      /\ \A j \in DOMAIN templates : templates'[j] = IF j = i THEN e ELSE templates[j]
  BY <1>1, Updated
<1>3. \A j \in DOMAIN templates : templates'[j].from = templates[j].from
  BY <1>2
<1>4. \A j \in DOMAIN templates' : ApprovedHere(templates'[j])
  BY <1>1, <1>2
<1>5. Len(templates) <= Len(templates') /\ Len(templates') <= MaxTemplates
  <2>1. Len(templates) <= Len(templates) /\ Len(templates) <= MaxTemplates
    BY <1>1
  <2>2. Len(templates') = Len(templates)
    BY <1>2
  <2> QED
    BY <2>1, <2>2
<1> QED
  BY <1>2, <1>3, <1>4, <1>5

\* What is written on a template that is shown differently.
LEMMA TemplatePatched ==
    ASSUME ReuseInv, NEW i \in DOMAIN templates, PatchTemplate(i)
    PROVE  RowsGrow
<1>1. PICK title \in {"own", "renamed"}, active \in BOOLEAN :
         templates' = [templates EXCEPT ![i].title = title, ![i].active = active]
  BY DEF PatchTemplate
<1>2. templates[i] \in Templates /\ ApprovedHere(templates[i])
  BY ReuseRows DEF ReuseInv, ApprovedFromItsSource, ApprovedHere
<1>3. PICK e : e = [templates[i] EXCEPT !.title = title, !.active = active]
  OBVIOUS
<1>4. e \in Templates /\ e.from = templates[i].from /\ e.approval = templates[i].approval
  BY <1>2, <1>3 DEF Templates
<1>5. ApprovedHere(e)
  BY <1>2, <1>4 DEF ApprovedHere
<1>6. templates' = [templates EXCEPT ![i] = e]
  <2>1. templates \in Seq(Templates)
    BY DEF ReuseInv, ReuseTypes, ReuseTypeOK
  <2> QED
    BY <1>1, <1>3, <2>1
<1>7. UNCHANGED applications
  BY DEF PatchTemplate
<1> QED
  BY <1>4, <1>5, <1>6, <1>7, TemplateEdited, ApplicationsSame DEF RowsGrow

\* The approval that is given is of the credential the template was saved from.
LEMMA ApprovalGiven ==
    ASSUME ReuseInv, NEW t \in Requests, GiveApproval(t)
    PROVE  RowsGrow /\ approvals' \in 0..MaxGiven /\ RequestFits(t)
<1> DEFINE i == request[t].template
<1>1. /\ RequestInv(request[t]) /\ request[t] \in RequestRecords /\ request[t].at = "approve"
      /\ ReuseTypes
  BY ReuseRows DEF ReuseInv, GiveApproval, RequestAt
<1>2. /\ request[t].cred \in Reusable /\ request[t].number \in 1..MaxOwnAnalyses
      /\ i \in DOMAIN templates /\ templates[i].from \in {NoOrigin, request[t].cred}
  BY <1>1 DEF RequestInv
<1>3. approvals \in 0..MaxGiven /\ approvals < MaxGiven /\ approvals' = approvals + 1
  BY <1>1 DEF GiveApproval, ReuseTypes, ReuseTypeOK
<1>4. approvals' \in 1..MaxGiven
  BY <1>3, ReuseConstants
<1>5. PICK a : a = Approval(t)
  OBVIOUS
<1>6. a \in Approvals /\ a.cred = request[t].cred
  BY <1>2, <1>3, <1>4, <1>5 DEF Approval, Approvals
<1>7. templates[i] \in Templates
  BY <1>1, <1>2, ReuseRows
<1>8. PICK e : e = [templates[i] EXCEPT !.approval = a]
  OBVIOUS
<1>9. e \in Templates /\ e.from = templates[i].from /\ e.approval = a
  BY <1>6, <1>7, <1>8 DEF Templates
<1>10. ApprovedHere(e)
  BY <1>2, <1>6, <1>9 DEF ApprovedHere
<1>11. templates' = [templates EXCEPT ![i] = e]
  BY <1>5, <1>8 DEF GiveApproval
<1>12. UNCHANGED applications
  BY DEF GiveApproval
<1>13. RowsGrow
  BY <1>2, <1>9, <1>10, <1>11, <1>12, TemplateEdited, ApplicationsSame DEF RowsGrow
<1>14. approvals' \in 0..MaxGiven
  BY <1>4
<1>15. RequestFits(t)
  BY <1>1, <1>13, RequestEnded DEF GiveApproval
<1> QED
  BY <1>13, <1>14, <1>15

\* The row that was active is superseded, and the new one holds what the
\* transaction read.
LEMMA ApplicationsWritten ==
    ASSUME ReuseInv, NEW t \in Requests, CommitApply(t)
    PROVE  /\ applications' \in Seq(Applications)
           /\ Len(applications') = Len(applications) + 1
           /\ Len(applications') <= MaxApplications
           /\ DOMAIN applications' = 1..Len(applications) + 1
           /\ applications'[Len(applications) + 1] = [cred |-> request[t].cred,
                 approval |-> request[t].seen, status |-> "active"]
           /\ \A k \in DOMAIN applications : k \in DOMAIN applications' /\ applications'[k] =
                 IF k = request[t].row THEN [applications[k] EXCEPT !.status = "superseded"]
                 ELSE applications[k]
<1> DEFINE row == request[t].row
<1>1. /\ request[t].cred \in Reusable /\ request[t].seen \in Approvals
  BY DEF ReuseInv, CommitApply, RequestAt, RequestInv
<1>2. /\ DOMAIN applications = 1..Len(applications) /\ Len(applications) \in Nat
      /\ \A k \in DOMAIN applications : applications[k] \in Applications
  BY ReuseRows DEF ReuseInv
<1>3. PICK e : e = [cred |-> request[t].cred, approval |-> request[t].seen, status |-> "active"]
  OBVIOUS
<1>4. e \in Applications
  BY <1>1, <1>3 DEF Applications
<1>5. PICK m : m = Superseding(row)
  OBVIOUS
<1>6. \A k \in DOMAIN applications :
         [applications[k] EXCEPT !.status = "superseded"] \in Applications
  BY <1>2 DEF Applications
<1>7. m \in [1..Len(applications) -> Applications]
  BY <1>2, <1>5, <1>6 DEF Superseding
<1>8. m \in Seq(Applications) /\ Len(m) = Len(applications) /\ DOMAIN m = DOMAIN applications
  BY <1>2, <1>7, Mapped
<1>9. \A k \in DOMAIN applications : m[k] =
         IF k = row THEN [applications[k] EXCEPT !.status = "superseded"] ELSE applications[k]
  BY <1>5 DEF Superseding
<1>10. applications' = Append(m, e) /\ Len(applications) < MaxApplications
  BY <1>3, <1>5 DEF CommitApply
<1>11. /\ applications' \in Seq(Applications) /\ Len(applications') = Len(m) + 1
       /\ DOMAIN applications' = 1..Len(m) + 1 /\ applications'[Len(m) + 1] = e
       /\ \A k \in DOMAIN m : k \in DOMAIN applications' /\ applications'[k] = m[k]
  BY <1>4, <1>8, <1>10, Appended
<1>12. Len(applications) + 1 <= MaxApplications
  BY <1>2, <1>10, ReuseConstants
<1> QED
  BY <1>3, <1>8, <1>9, <1>11, <1>12

\* A step that leaves the rows alone.
LEMMA RowsSame ==
    ASSUME ReuseInv, UNCHANGED <<templates, applications>>
    PROVE  RowsGrow
  BY TemplatesSame, ApplicationsSame DEF RowsGrow

\* An application is one more row, and history behind it.
LEMMA RowsApplied ==
    ASSUME ReuseInv, NEW t \in Requests, CommitApply(t)
    PROVE  RowsGrow
<1>1. /\ applications' \in Seq(Applications) /\ Len(applications') = Len(applications) + 1
      /\ Len(applications') <= MaxApplications
  BY ApplicationsWritten
<1>2. \A k \in DOMAIN applications : k \in DOMAIN applications'
         /\ applications'[k] \in {applications[k], [applications[k] EXCEPT !.status = "superseded"]}
  BY ApplicationsWritten
<1>3. Len(applications) <= Len(applications')
  BY <1>1, ReuseRows DEF ReuseInv
<1>4. UNCHANGED templates
  BY DEF CommitApply
<1> QED
  BY <1>1, <1>2, <1>3, <1>4, TemplatesSame DEF RowsGrow

\* The rows that are active are the same when no row is written.
LEMMA ActiveSame ==
    ASSUME ReuseInv, UNCHANGED applications
    PROVE  \A c \in Reusable : \A k, l \in ActiveRows(c)' : k = l
<1>1. \A c \in Reusable : ActiveRows(c)' = ActiveRows(c)
  BY DEF ActiveRows
<1> QED
  BY <1>1 DEF ReuseInv

\* The row that is written is the only active one of its credential.
LEMMA ActiveApplied ==
    ASSUME ReuseInv, NEW t \in Requests, CommitApply(t)
    PROVE  \A c \in Reusable : \A k, l \in ActiveRows(c)' : k = l
<1> DEFINE cred == request[t].cred
           row == request[t].row
<1>1. /\ cred \in Reusable /\ row = ActiveRow(cred)
  BY DEF ReuseInv, CommitApply, RequestAt, RequestInv, NoConflict
<1>2. /\ DOMAIN applications = 1..Len(applications) /\ Len(applications) \in Nat
      /\ \A k \in DOMAIN applications : applications[k] \in Applications
  BY ReuseRows DEF ReuseInv
<1>3. PICK n : n = Len(applications) + 1
  OBVIOUS
<1>4. /\ DOMAIN applications' = 1..n
      /\ applications'[n] = [cred |-> cred, approval |-> request[t].seen, status |-> "active"]
      /\ \A k \in DOMAIN applications : k \in DOMAIN applications' /\ applications'[k] =
            IF k = row THEN [applications[k] EXCEPT !.status = "superseded"] ELSE applications[k]
  BY <1>3, ApplicationsWritten
<1>5. \A k \in DOMAIN applications' : k \in DOMAIN applications \/ k = n
  BY <1>2, <1>3, <1>4
<1>6. applications'[n].cred = cred
  BY <1>4
<1>7. ASSUME NEW c \in Reusable, NEW k \in ActiveRows(c)', k # n
      PROVE  k \in ActiveRows(c) /\ k # row
  <2>1. k \in DOMAIN applications' /\ applications'[k].cred = c /\ applications'[k].status = "active"
    BY <1>7 DEF ActiveRows
  <2>2. k \in DOMAIN applications /\ applications[k] \in Applications
    BY <1>2, <1>5, <1>7, <2>1
  <2>3. [applications[k] EXCEPT !.status = "superseded"].status = "superseded"
    BY <2>2 DEF Applications
  <2>4. k # row
    BY <1>4, <2>1, <2>2, <2>3
  <2>5. applications'[k] = applications[k]
    BY <1>4, <2>2, <2>4
  <2> QED
    BY <2>1, <2>2, <2>4, <2>5 DEF ActiveRows
<1>8. ASSUME NEW c \in Reusable, c = cred, NEW k \in ActiveRows(c)' PROVE k = n
  <2>1. SUFFICES ASSUME k # n PROVE FALSE
    OBVIOUS
  <2>2. k \in ActiveRows(c) /\ k # row
    BY <1>7, <2>1
  <2>3. row = ActiveRow(c)
    BY <1>1, <1>8
  <2>4. row \in ActiveRows(c)
    BY <2>2, <2>3, ActiveRowIs
  <2> QED
    BY <2>2, <2>4 DEF ReuseInv
<1>9. ASSUME NEW c \in Reusable, c # cred, NEW k \in ActiveRows(c)' PROVE k \in ActiveRows(c)
  <2>1. applications'[k].cred = c
    BY <1>9 DEF ActiveRows
  <2>2. k # n
    BY <1>6, <1>9, <2>1
  <2> QED
    BY <1>7, <1>9, <2>2
<1>10. ASSUME NEW c \in Reusable, NEW k \in ActiveRows(c)', NEW l \in ActiveRows(c)' PROVE k = l
  <2>1. CASE c = cred
    BY <1>8, <2>1
  <2>2. CASE c # cred
    <3>1. k \in ActiveRows(c) /\ l \in ActiveRows(c)
      BY <1>9, <2>2
    <3> QED
      BY <3>1 DEF ReuseInv
  <2> QED
    BY <2>1, <2>2
<1> QED
  BY <1>10

-----------------------------------------------------------------------------
(* The steps of a request.                                                  *)

\* A request that goes on fits when it holds what its place asks for.
LEMMA MoveFits ==
    ASSUME ReuseTypes, NEW t \in Requests, NEW i \in Nat, NEW attempt \in 0..MaxAttempts,
           NEW seen \in Approvals \cup {NoApproval}, NEW row \in Nat,
           NEW place \in {"check", "create", "approve", "begin", "commit", "reconcile", "answer"},
           GoesOn(t, i, attempt, seen, row, place),
           i \in 0..Len(templates'), row \in 0..Len(applications'),
           request[t].cred \in Reusable,
           request[t].op = "approve" => request[t].number \in 1..MaxOwnAnalyses,
           place = "approve" =>
               /\ request[t].op = "approve" /\ i \in DOMAIN templates'
               /\ templates'[i].from \in {NoOrigin, request[t].cred},
           place \in {"begin", "commit", "reconcile"} =>
               i \in DOMAIN templates' /\ request[t].reviewed \in 1..MaxGiven,
           place = "commit" => seen \in Approvals /\ seen.revision = request[t].reviewed
    PROVE  RequestFits(t)
<1>1. /\ request' \in [Requests -> RequestRecords] /\ OthersAsk(t)
      /\ request'[t].op = request[t].op /\ request'[t].cred = request[t].cred
      /\ request'[t].number = request[t].number /\ request'[t].reviewed = request[t].reviewed
      /\ request'[t].template = i /\ request'[t].attempt = attempt
      /\ request'[t].seen = seen /\ request'[t].row = row /\ request'[t].at = place
  BY RequestMoves
<1>2. RequestInv(request[t])'
  BY <1>1 DEF RequestInv
<1> QED
  BY <1>1, <1>2 DEF RequestFits

\* What a request holds while it goes on.
LEMMA RequestHolds ==
    ASSUME ReuseInv, NEW t \in Requests
    PROVE  /\ request[t] \in RequestRecords /\ RequestInv(request[t])
           /\ request[t].template \in 0..Len(templates) /\ request[t].row \in 0..Len(applications)
           /\ request[t].attempt \in 0..MaxAttempts
           /\ request[t].seen \in Approvals \cup {NoApproval}
           /\ request[t].template \in Nat /\ request[t].row \in Nat
<1>1. /\ request[t] \in RequestRecords /\ RequestInv(request[t])
      /\ request[t].template \in 0..Len(templates) /\ request[t].row \in 0..Len(applications)
  BY ReuseRows DEF ReuseInv, ReuseTypes, ReuseTypeOK
<1> QED
  BY <1>1 DEF RequestRecords

\* A change of some fields is a change of all that a step may change.
LEMMA AsMove ==
    ASSUME ReuseInv, NEW t \in Requests, NEW i, NEW attempt, NEW seen, NEW row, NEW place
    PROVE  /\ request' = [request EXCEPT ![t].template = i, ![t].at = place]
                => GoesOn(t, i, request[t].attempt, request[t].seen, request[t].row, place)
           /\ request' = [request EXCEPT ![t].at = place]
                => GoesOn(t, request[t].template, request[t].attempt, request[t].seen,
                         request[t].row, place)
           /\ request' = [request EXCEPT ![t].seen = seen, ![t].row = row, ![t].at = place]
                => GoesOn(t, request[t].template, request[t].attempt, seen, row, place)
           /\ request' = [request EXCEPT ![t].row = row, ![t].at = place]
                => GoesOn(t, request[t].template, request[t].attempt, request[t].seen, row, place)
           /\ request' = [request EXCEPT ![t].attempt = attempt, ![t].at = place]
                => GoesOn(t, request[t].template, attempt, request[t].seen, request[t].row, place)
<1>1. request \in [Requests -> RequestRecords] /\ request[t] \in RequestRecords
  BY ReuseRows DEF ReuseInv, ReuseTypes
<1>2. request' = [request EXCEPT ![t].template = i, ![t].at = place]
        => GoesOn(t, i, request[t].attempt, request[t].seen, request[t].row, place)
  BY <1>1 DEF GoesOn, RequestRecords
<1>3. request' = [request EXCEPT ![t].at = place]
        => GoesOn(t, request[t].template, request[t].attempt, request[t].seen,
                 request[t].row, place)
  BY <1>1 DEF GoesOn, RequestRecords
<1>4. request' = [request EXCEPT ![t].seen = seen, ![t].row = row, ![t].at = place]
        => GoesOn(t, request[t].template, request[t].attempt, seen, row, place)
  BY <1>1 DEF GoesOn, RequestRecords
<1>5. request' = [request EXCEPT ![t].row = row, ![t].at = place]
        => GoesOn(t, request[t].template, request[t].attempt, request[t].seen, row, place)
  BY <1>1 DEF GoesOn, RequestRecords
<1>6. request' = [request EXCEPT ![t].attempt = attempt, ![t].at = place]
        => GoesOn(t, request[t].template, attempt, request[t].seen, request[t].row, place)
  BY <1>1 DEF GoesOn, RequestRecords
<1> QED
  BY <1>2, <1>3, <1>4, <1>5, <1>6

\* A template that is saved or found for a credential.
LEMMA FindFits ==
    ASSUME ReuseInv, NEW t \in Requests, FindTemplate(t)
    PROVE  RequestFits(t)
<1>1. /\ request[t].at = "find" /\ request[t].cred \in Reusable
      /\ request[t].op = "approve" /\ request[t].number \in 1..MaxOwnAnalyses
      /\ UNCHANGED <<templates, applications>>
  BY RequestHolds DEF FindTemplate, RequestAt, RequestInv
<1>2. ReuseTypes
  BY DEF ReuseInv
<1>3. ASSUME NEW i \in SavedFrom(request[t].cred),
             request' = [request EXCEPT ![t].template = i, ![t].at = "approve"]
      PROVE  RequestFits(t)
  <2>1. i \in DOMAIN templates /\ templates[i].from = request[t].cred
    BY <1>3 DEF SavedFrom
  <2>2. i \in Nat /\ i \in 0..Len(templates)
    BY <1>2, <2>1, ReuseRows
  <2>3. PICK place : place = "approve"
    OBVIOUS
  <2>4. GoesOn(t, i, request[t].attempt, request[t].seen, request[t].row, place)
    BY <1>3, <2>3, AsMove
  <2> QED
    BY <1>1, <1>2, <2>1, <2>2, <2>3, <2>4, RequestHolds, MoveFits
<1>4. ASSUME request' = [request EXCEPT ![t].at = "check"]
      PROVE  RequestFits(t)
  <2>1. PICK place : place = "check"
    OBVIOUS
  <2>2. GoesOn(t, request[t].template, request[t].attempt, request[t].seen, request[t].row, place)
    BY <1>4, <2>1, AsMove
  <2> QED
    BY <1>1, <1>2, <2>1, <2>2, RequestHolds, MoveFits
<1> QED
  BY <1>3, <1>4 DEF FindTemplate

\* The check of duplicates ends the request or lets it create a template.
LEMMA CheckFits ==
    ASSUME ReuseInv, NEW t \in Requests, CheckDuplicate(t)
    PROVE  RequestFits(t)
<1>1. /\ request[t].at = "check" /\ request[t].cred \in Reusable
      /\ request[t].op = "approve" => request[t].number \in 1..MaxOwnAnalyses
      /\ UNCHANGED <<templates, applications>>
  BY RequestHolds DEF CheckDuplicate, RequestAt, RequestInv
<1>2. ReuseTypes /\ RowsGrow
  BY <1>1, RowsSame DEF ReuseInv
<1>3. ASSUME request' = [request EXCEPT ![t].at = "create"]
      PROVE  RequestFits(t)
  <2>1. PICK place : place = "create"
    OBVIOUS
  <2>2. GoesOn(t, request[t].template, request[t].attempt, request[t].seen, request[t].row, place)
    BY <1>3, <2>1, AsMove
  <2> QED
    BY <1>1, <1>2, <2>1, <2>2, RequestHolds, MoveFits
<1> QED
  BY <1>2, <1>3, RequestEnded DEF CheckDuplicate

\* A template that is created has the credential of the request.
LEMMA CreateFits ==
    ASSUME ReuseInv, NEW t \in Requests, CreateFromCredential(t)
    PROVE  RowsGrow /\ RequestFits(t)
<1>1. /\ request[t].at = "create" /\ request[t].cred \in Reusable
      /\ request[t].op = "approve" => request[t].number \in 1..MaxOwnAnalyses
      /\ UNCHANGED applications /\ AddTemplate(request[t].cred)
  BY RequestHolds DEF CreateFromCredential, RequestAt, RequestInv
<1>2. PICK n : n = Len(templates) + 1
  OBVIOUS
<1>3. /\ Len(templates') = n /\ n \in DOMAIN templates' /\ templates'[n].from = request[t].cred
  BY <1>1, <1>2, TemplateAdded
<1>4. RowsGrow
  BY <1>1, TemplateAdded, ApplicationsSame DEF RowsGrow
<1>5. ReuseTypes
  BY DEF ReuseInv
<1>6. n \in Nat /\ n \in 0..n
  BY <1>2, <1>5, ReuseRows
<1>7. ASSUME request[t].op = "approve",
             request' = [request EXCEPT ![t].template = n, ![t].at = "approve"]
      PROVE  RequestFits(t)
  <2>1. PICK place : place = "approve"
    OBVIOUS
  <2>2. GoesOn(t, n, request[t].attempt, request[t].seen, request[t].row, place)
    BY <1>7, <2>1, AsMove
  <2> QED
    BY <1>1, <1>3, <1>5, <1>6, <1>7, <2>1, <2>2, RequestHolds, MoveFits
<1> QED
  BY <1>2, <1>4, <1>5, <1>7, RequestEnded DEF CreateFromCredential

\* An application goes on with the approval that was looked at.
LEMMA BeginFits ==
    ASSUME ReuseInv, NEW t \in Requests, BeginApply(t)
    PROVE  RequestFits(t)
<1> DEFINE i == request[t].template
           approval == templates[i].approval
           row == ActiveRow(request[t].cred)
<1>1. /\ request[t].at = "begin" /\ request[t].cred \in Reusable
      /\ request[t].op = "approve" => request[t].number \in 1..MaxOwnAnalyses
      /\ i \in DOMAIN templates /\ request[t].reviewed \in 1..MaxGiven
      /\ UNCHANGED <<templates, applications>>
  BY RequestHolds DEF BeginApply, RequestAt, RequestInv
<1>2. ReuseTypes /\ RowsGrow
  BY <1>1, RowsSame DEF ReuseInv
<1>3. approval \in Approvals \cup {NoApproval}
  BY <1>1, <1>2, ReuseRows DEF Templates
<1>4. row \in 0..Len(applications)
  <2>1. CASE ActiveRows(request[t].cred) = {}
    BY <1>2, <2>1, ActiveRowIs, ReuseRows
  <2>2. ASSUME ActiveRows(request[t].cred) # {} PROVE row \in 0..Len(applications)
    <3>1. row \in DOMAIN applications
      BY <2>2, ActiveRowIs DEF ActiveRows
    <3> QED
      BY <1>2, <3>1, ReuseRows
  <2> QED
    BY <2>1, <2>2
<1>5. row \in Nat
  BY <1>4, <1>2, ReuseRows
<1>6. ASSUME RevisionMatches(t), NEW place \in {"answer", "commit"},
             request' = [request EXCEPT ![t].seen = approval, ![t].row = row, ![t].at = place]
      PROVE  RequestFits(t)
  <2>1. approval.revision = request[t].reviewed
    BY <1>6 DEF RevisionMatches
  <2>2. approval # NoApproval
    <3>1. NoApproval.revision = 0
      BY DEF NoApproval
    <3> QED
      BY <1>1, <2>1, <3>1
  <2>3. approval \in Approvals
    BY <1>3, <2>2
  <2>4. GoesOn(t, i, request[t].attempt, approval, row, place)
    BY <1>6, AsMove
  <2> QED
    BY <1>1, <1>2, <1>3, <1>4, <1>5, <2>1, <2>3, <2>4, RequestHolds, MoveFits
<1>7. \/ RequestEnds(t)
      \/ /\ RevisionMatches(t)
         /\ request' = [request EXCEPT ![t].seen = approval, ![t].row = row,
                        ![t].at = IF row # 0 /\ applications[row].approval = approval
                                  THEN "answer" ELSE "commit"]
  BY DEF BeginApply
<1>8. PICK place : place = IF row # 0 /\ applications[row].approval = approval
                           THEN "answer" ELSE "commit"
  OBVIOUS
<1>9. place \in {"answer", "commit"}
  BY <1>8
<1>10. \/ RequestEnds(t)
       \/ /\ RevisionMatches(t)
          /\ request' = [request EXCEPT ![t].seen = approval, ![t].row = row, ![t].at = place]
  BY <1>7, <1>8
<1> QED
  BY <1>2, <1>6, <1>9, <1>10, RequestEnded

\* What was committed is answered.
LEMMA CommitFits ==
    ASSUME ReuseInv, NEW t \in Requests, CommitApply(t)
    PROVE  RequestFits(t)
<1>1. /\ request[t].cred \in Reusable
      /\ request[t].op = "approve" => request[t].number \in 1..MaxOwnAnalyses
      /\ UNCHANGED templates
  BY RequestHolds DEF CommitApply, RequestAt, RequestInv
<1>2. PICK n : n = Len(applications) + 1
  OBVIOUS
<1>3. ReuseTypes
  BY DEF ReuseInv
<1>4. n \in Nat /\ n \in 0..Len(applications')
  <2>1. Len(applications') = n
    BY <1>2, ApplicationsWritten
  <2>2. n \in Nat
    BY <1>2, <1>3, ReuseRows
  <2> QED
    BY <2>1, <2>2
<1>5. PICK place : place = "answer"
  OBVIOUS
<1>6. request' = [request EXCEPT ![t].row = n, ![t].at = place]
  BY <1>2, <1>5 DEF CommitApply
<1>7. GoesOn(t, request[t].template, request[t].attempt, request[t].seen, n, place)
  BY <1>6, AsMove
<1> QED
  BY <1>1, <1>3, <1>4, <1>5, <1>7, RequestHolds, MoveFits

\* A conflict is tried again, reconciled or given up
\* (applyReusableSemanticInterpretation).
LEMMA RetryFits ==
    ASSUME ReuseInv, NEW t \in Requests, RetryApply(t) \/ UniqueConflict(t)
    PROVE  RequestFits(t)
<1>1. /\ request[t].cred \in Reusable
      /\ request[t].op = "approve" => request[t].number \in 1..MaxOwnAnalyses
      /\ request[t].template \in DOMAIN templates /\ request[t].reviewed \in 1..MaxGiven
      /\ UNCHANGED <<templates, applications>>
  BY RequestHolds DEF RetryApply, UniqueConflict, RequestAt, RequestInv
<1>2. ReuseTypes /\ RowsGrow
  BY <1>1, RowsSame DEF ReuseInv
<1>3. ASSUME request[t].attempt < MaxAttempts,
             request' = [request EXCEPT ![t].attempt = @ + 1, ![t].at = "begin"]
      PROVE  RequestFits(t)
  <2>1. PICK n, place : n = request[t].attempt + 1 /\ place = "begin"
    OBVIOUS
  <2>2. n \in 0..MaxAttempts
    BY <1>3, <2>1, RequestHolds DEF MaxAttempts
  <2>3. request' = [request EXCEPT ![t].attempt = n, ![t].at = place]
    BY <1>2, <1>3, <2>1 DEF ReuseTypes
  <2>4. GoesOn(t, request[t].template, n, request[t].seen, request[t].row, place)
    BY <2>3, AsMove
  <2> QED
    BY <1>1, <1>2, <2>1, <2>2, <2>4, RequestHolds, MoveFits
<1>4. ASSUME request' = [request EXCEPT ![t].at = "reconcile"]
      PROVE  RequestFits(t)
  <2>1. PICK place : place = "reconcile"
    OBVIOUS
  <2>2. GoesOn(t, request[t].template, request[t].attempt, request[t].seen, request[t].row, place)
    BY <1>4, <2>1, AsMove
  <2> QED
    BY <1>1, <1>2, <2>1, <2>2, RequestHolds, MoveFits
<1>5. \/ RequestEnds(t)
      \/ /\ request[t].attempt < MaxAttempts
         /\ request' = [request EXCEPT ![t].attempt = @ + 1, ![t].at = "begin"]
      \/ request' = [request EXCEPT ![t].at = "reconcile"]
  BY DEF RetryApply, UniqueConflict
<1>6. ASSUME RequestEnds(t) PROVE RequestFits(t)
  BY <1>2, <1>6, RequestEnded
<1> QED
  BY <1>3, <1>4, <1>5, <1>6

\* A request that is reconciled or answered.
LEMMA AnswerFits ==
    ASSUME ReuseInv, NEW t \in Requests, ReconcileConcurrentApply(t) \/ AnswerRequest(t)
    PROVE  RequestFits(t)
<1> DEFINE row == ActiveRow(request[t].cred)
<1>1. UNCHANGED <<templates, applications>>
  BY DEF ReconcileConcurrentApply, AnswerRequest
<1>2. ReuseTypes /\ RowsGrow
  BY <1>1, RowsSame DEF ReuseInv
<1>3. ASSUME request[t].at = "reconcile", row # 0,
             request' = [request EXCEPT ![t].row = row, ![t].at = "answer"]
      PROVE  RequestFits(t)
  <2>1. /\ request[t].cred \in Reusable
        /\ request[t].op = "approve" => request[t].number \in 1..MaxOwnAnalyses
    BY <1>3, RequestHolds DEF RequestInv
  <2>2. row \in DOMAIN applications
    BY <1>3, ActiveRowIs DEF ActiveRows
  <2>3. row \in Nat /\ row \in 0..Len(applications)
    BY <1>2, <2>2, ReuseRows
  <2>4. PICK place : place = "answer"
    OBVIOUS
  <2>5. GoesOn(t, request[t].template, request[t].attempt, request[t].seen, row, place)
    BY <1>3, <2>4, AsMove
  <2> QED
    BY <1>1, <1>2, <2>1, <2>3, <2>4, <2>5, RequestHolds, MoveFits
<1>4. \/ RequestEnds(t)
      \/ /\ request[t].at = "reconcile" /\ row # 0
         /\ request' = [request EXCEPT ![t].row = row, ![t].at = "answer"]
  BY DEF ReconcileConcurrentApply, AnswerRequest, RequestAt
<1> QED
  BY <1>2, <1>3, <1>4, RequestEnded

\* The requests that begin.
LEMMA SaveFits ==
    ASSUME ReuseInv, NEW t \in Requests, NEW c \in Reusable,
           \/ Save(t, c)
           \/ \E n \in 1..MaxOwnAnalyses : ApproveCredential(t, c, n)
    PROVE  RequestFits(t)
<1>1. /\ UNCHANGED <<templates, applications>> /\ ReuseTypes
  BY DEF Save, ApproveCredential, ReuseInv
<1>2. /\ 0 \in Nat /\ 0 \in 0..MaxOwnAnalyses /\ 0 \in 0..MaxGiven /\ 0 \in 0..MaxAttempts
      /\ 0 \in 0..Len(templates) /\ 0 \in 0..Len(applications)
  BY <1>1, ReuseConstants, ReuseRows DEF MaxAttempts
<1>3. PICK z : z = 0
  OBVIOUS
<1>4. ASSUME NEW n \in 0..MaxOwnAnalyses, NEW op \in {"save", "approve"},
             NEW place \in {"check", "find"},
             op = "approve" => n \in 1..MaxOwnAnalyses, place = "find" => op = "approve",
             Begun(t, op, place, c, n, z, z, z)
      PROVE  RequestFits(t)
  <2>3. /\ op \in {"save", "approve", "apply"} /\ place \in {"check", "find", "approve", "begin"}
        /\ z \in Nat /\ z \in 0..MaxGiven /\ z \in 0..MaxAttempts
    BY <1>2, <1>3, <1>4
  <2>1. /\ request' \in [Requests -> RequestRecords] /\ OthersAsk(t)
        /\ request'[t].op = op /\ request'[t].at = place /\ request'[t].cred = c
        /\ request'[t].number = n /\ request'[t].template = z /\ request'[t].row = 0
    BY <1>1, <1>4, <2>3, RequestBegins
  <2>2. RequestInv(request[t])'
    BY <1>4, <2>1 DEF RequestInv
  <2> QED
    BY <1>1, <1>2, <1>3, <2>1, <2>2 DEF RequestFits
<1>5. ASSUME Save(t, c) PROVE RequestFits(t)
  <2>1. PICK op, place : op = "save" /\ place = "check"
    OBVIOUS
  <2>2. [NoRequest EXCEPT !.op = "save", !.at = "check", !.cred = c] = Asked(op, place, c, z, z, z, z)
    BY <1>3, <2>1, NoRequestFits DEF Asked, RequestRecords
  <2>3. Begun(t, op, place, c, z, z, z, z)
    BY <1>5, <2>2 DEF Save, Begun
  <2> QED
    BY <1>2, <1>3, <1>4, <2>1, <2>3
<1>6. ASSUME NEW n \in 1..MaxOwnAnalyses, ApproveCredential(t, c, n) PROVE RequestFits(t)
  <2>1. PICK op, place : op = "approve" /\ place = "find"
    OBVIOUS
  <2>2. [NoRequest EXCEPT !.op = "approve", !.at = "find", !.cred = c, !.number = n]
           = Asked(op, place, c, n, z, z, z)
    BY <1>3, <2>1, NoRequestFits DEF Asked, RequestRecords
  <2>3. Begun(t, op, place, c, n, z, z, z)
    BY <1>6, <2>2 DEF ApproveCredential, Begun
  <2>4. n \in 0..MaxOwnAnalyses
    BY <1>6, ReuseConstants
  <2> QED
    BY <1>4, <1>6, <2>1, <2>3, <2>4
<1> QED
  BY <1>5, <1>6

\* A template is approved with an analysis of the credential it came from.
LEMMA ApproveFits ==
    ASSUME ReuseInv, NEW t \in Requests, NEW i \in DOMAIN templates, NEW c \in Reusable,
           NEW n \in 1..MaxOwnAnalyses, ApproveTemplate(t, i, c, n)
    PROVE  RequestFits(t)
<1>1. /\ UNCHANGED <<templates, applications>> /\ ReuseTypes
      /\ templates[i].from \in {NoOrigin, c}
  BY DEF ApproveTemplate, Approvable, ReuseInv
<1>2. /\ 0 \in Nat /\ 0 \in 0..MaxGiven /\ 0 \in 0..MaxAttempts /\ 0 \in 0..Len(applications)
      /\ i \in Nat /\ i \in 0..Len(templates) /\ n \in 0..MaxOwnAnalyses
  BY <1>1, ReuseConstants, ReuseRows DEF MaxAttempts
<1>3. PICK z, op, place : z = 0 /\ op = "approve" /\ place = "approve"
  OBVIOUS
<1>4. [NoRequest EXCEPT !.op = "approve", !.at = "approve", !.cred = c, !.number = n, !.template = i]
         = Asked(op, place, c, n, i, z, z)
  BY <1>3, NoRequestFits DEF Asked, RequestRecords
<1>5. Begun(t, op, place, c, n, i, z, z)
  BY <1>4 DEF ApproveTemplate, Begun
<1>8. /\ op \in {"save", "approve", "apply"} /\ place \in {"check", "find", "approve", "begin"}
      /\ z \in Nat /\ z \in 0..MaxGiven /\ z \in 0..MaxAttempts
      /\ i \in Nat /\ n \in 0..MaxOwnAnalyses
  BY <1>2, <1>3
<1>6. /\ request' \in [Requests -> RequestRecords] /\ OthersAsk(t)
      /\ request'[t].op = op /\ request'[t].at = place /\ request'[t].cred = c
      /\ request'[t].number = n /\ request'[t].template = i /\ request'[t].row = 0
  BY <1>1, <1>5, <1>8, RequestBegins
<1>7. RequestInv(request[t])'
  BY <1>1, <1>3, <1>6 DEF RequestInv
<1> QED
  BY <1>1, <1>2, <1>6, <1>7 DEF RequestFits

\* What is looked at is an approval that exists.
LEMMA ReviewFits ==
    ASSUME ReuseInv, NEW t \in Requests, NEW c \in Reusable, NEW i \in DOMAIN templates,
           Review(t, c, i)
    PROVE  RequestFits(t)
<1>1. /\ UNCHANGED <<templates, applications>> /\ ReuseTypes
      /\ templates[i].approval # NoApproval
  BY DEF Review, ReuseInv
<1>2. templates[i].approval \in Approvals
  BY <1>1, ReuseRows DEF Templates
<1>3. PICK revision : revision = templates[i].approval.revision
  OBVIOUS
<1>4. revision \in 1..MaxGiven
  BY <1>2, <1>3 DEF Approvals
<1>5. /\ 0 \in 0..MaxOwnAnalyses /\ revision \in 0..MaxGiven /\ 1 \in 0..MaxAttempts
      /\ i \in Nat /\ i \in 0..Len(templates) /\ 0 \in 0..Len(applications)
  BY <1>1, <1>4, ReuseConstants, ReuseRows DEF MaxAttempts
<1>6. PICK z, one, op, place : z = 0 /\ one = 1 /\ op = "apply" /\ place = "begin"
  OBVIOUS
<1>7. [NoRequest EXCEPT !.op = "apply", !.at = "begin", !.cred = c, !.template = i,
                        !.reviewed = revision, !.attempt = 1]
         = Asked(op, place, c, z, i, revision, one)
  BY <1>6, NoRequestFits DEF Asked, RequestRecords
<1>8. Begun(t, op, place, c, z, i, revision, one)
  BY <1>3, <1>7 DEF Review, Begun
<1>11. /\ op \in {"save", "approve", "apply"} /\ place \in {"check", "find", "approve", "begin"}
       /\ z \in 0..MaxOwnAnalyses /\ one \in 0..MaxAttempts
       /\ i \in Nat /\ revision \in 0..MaxGiven
  BY <1>5, <1>6
<1>9. /\ request' \in [Requests -> RequestRecords] /\ OthersAsk(t)
      /\ request'[t].op = op /\ request'[t].at = place /\ request'[t].cred = c
      /\ request'[t].template = i /\ request'[t].reviewed = revision /\ request'[t].row = 0
  BY <1>1, <1>8, <1>11, RequestBegins
<1>10. RequestInv(request[t])'
  BY <1>1, <1>4, <1>6, <1>9 DEF RequestInv
<1> QED
  BY <1>1, <1>5, <1>9, <1>10 DEF RequestFits

-----------------------------------------------------------------------------
(* Every step keeps the invariant.                                          *)

\* What a step leaves for the others and for the next one.
ReuseStep(t) ==
    /\ RowsGrow /\ RequestFits(t)
    /\ standing' \in [Reusable -> {"issued", "revoked"}] /\ approvals' \in 0..MaxGiven
    /\ \A c \in Reusable : \A k, l \in ActiveRows(c)' : k = l

\* A step of one request leaves the others what they need.
LEMMA OthersFit ==
    ASSUME ReuseInv, RowsGrow, NEW u \in Requests, request'[u] = request[u]
    PROVE  /\ RequestInv(request[u])'
           /\ request'[u].template \in 0..Len(templates') /\ request'[u].row \in 0..Len(applications')
<1>1. /\ request[u] \in RequestRecords /\ RequestInv(request[u])
      /\ request[u].template \in 0..Len(templates) /\ request[u].row \in 0..Len(applications)
  BY RequestHolds
<1>2. /\ DOMAIN templates = 1..Len(templates) /\ Len(templates) \in Nat /\ Len(applications) \in Nat
  BY ReuseRows DEF ReuseInv
<1>3. /\ DOMAIN templates' = 1..Len(templates') /\ Len(templates') \in Nat
      /\ Len(applications') \in Nat
      /\ Len(templates) <= Len(templates') /\ Len(applications) <= Len(applications')
  BY LenProperties DEF RowsGrow
<1>4. \A i \in DOMAIN templates : i \in DOMAIN templates' /\ templates'[i].from = templates[i].from
  BY <1>2, <1>3 DEF RowsGrow
<1>5. RequestInv(request[u])'
  BY <1>1, <1>4 DEF RequestInv
<1>6. /\ request[u].template \in 0..Len(templates') /\ request[u].row \in 0..Len(applications')
  BY <1>1, <1>2, <1>3
<1> QED
  BY <1>5, <1>6

\* A step of one request keeps the invariant.
LEMMA ReuseKept ==
    ASSUME ReuseInv, NEW t \in Requests, ReuseStep(t)
    PROVE  ReuseInv'
<1>1. \A u \in Requests : RequestInv(request[u])' /\ request'[u].template \in 0..Len(templates')
                          /\ request'[u].row \in 0..Len(applications')
  BY OthersFit DEF ReuseStep, RequestFits, OthersAsk
<1>2. \A u \in Requests : request'[u].attempt \in 0..MaxAttempts
  BY DEF ReuseStep, RequestFits, RequestRecords
<1>3. ReuseTypes'
  BY <1>1, <1>2 DEF ReuseStep, RequestFits, RowsGrow, ReuseTypes, ReuseTypeOK
<1>4. ApprovedFromItsSource'
  BY DEF ReuseStep, RowsGrow, ApprovedHere, ApprovedFromItsSource
<1> QED
  BY <1>1, <1>3, <1>4 DEF ReuseStep, ReuseInv

\* A step of no request: a template is created or changed, a credential revoked.
LEMMA TemplatesKept ==
    ASSUME ReuseInv, RowsGrow, UNCHANGED <<request, applications, approvals>>,
           standing' \in [Reusable -> {"issued", "revoked"}]
    PROVE  ReuseInv'
<1>1. \A u \in Requests : RequestInv(request[u])' /\ request'[u].template \in 0..Len(templates')
                          /\ request'[u].row \in 0..Len(applications')
  BY OthersFit
<1>2. /\ request' \in [Requests -> RequestRecords] /\ approvals' \in 0..MaxGiven
      /\ \A u \in Requests : request'[u].attempt \in 0..MaxAttempts
  BY DEF ReuseInv, ReuseTypes, ReuseTypeOK
<1>3. ReuseTypes'
  BY <1>1, <1>2 DEF RowsGrow, ReuseTypes, ReuseTypeOK
<1>4. ApprovedFromItsSource'
  BY DEF RowsGrow, ApprovedHere, ApprovedFromItsSource
<1>5. \A c \in Reusable : \A k, l \in ActiveRows(c)' : k = l
  BY ActiveSame
<1> QED
  BY <1>1, <1>3, <1>4, <1>5 DEF ReuseInv

\* A request that fits and writes no row, or gives an approval.
LEMMA StepOfOne ==
    ASSUME ReuseInv, NEW t \in Requests, RowsGrow, RequestFits(t), UNCHANGED <<standing, applications>>,
           approvals' \in 0..MaxGiven
    PROVE  ReuseStep(t)
<1>1. standing' \in [Reusable -> {"issued", "revoked"}]
  BY DEF ReuseInv, ReuseTypes, ReuseTypeOK
<1>2. \A c \in Reusable : \A k, l \in ActiveRows(c)' : k = l
  BY ActiveSame
<1> QED
  BY <1>1, <1>2 DEF ReuseStep

\* A step of a request that only reads.
LEMMA StepOfReader ==
    ASSUME ReuseInv, NEW t \in Requests, RequestFits(t),
           UNCHANGED <<standing, templates, applications, approvals>>
    PROVE  ReuseStep(t)
<1>1. approvals' \in 0..MaxGiven
  BY DEF ReuseInv, ReuseTypes, ReuseTypeOK
<1>2. RowsGrow
  BY RowsSame
<1> QED
  BY <1>1, <1>2, StepOfOne

\* Each step of a request that is in progress.
LEMMA RequestStepKeeps ==
    ASSUME ReuseInv, NEW t \in Requests, RequestStep(t)
    PROVE  ReuseStep(t)
<1>1. CASE FindTemplate(t)
  <2>1. UNCHANGED <<standing, templates, applications, approvals>>
    BY <1>1 DEF FindTemplate
  <2> QED
    BY <1>1, <2>1, FindFits, StepOfReader
<1>2. CASE CheckDuplicate(t)
  <2>1. UNCHANGED <<standing, templates, applications, approvals>>
    BY <1>2 DEF CheckDuplicate
  <2> QED
    BY <1>2, <2>1, CheckFits, StepOfReader
<1>3. CASE CreateFromCredential(t)
  <2>1. UNCHANGED <<standing, applications, approvals>>
    BY <1>3 DEF CreateFromCredential
  <2>2. approvals' \in 0..MaxGiven
    BY <2>1 DEF ReuseInv, ReuseTypes, ReuseTypeOK
  <2>3. RowsGrow /\ RequestFits(t)
    BY <1>3, CreateFits
  <2> QED
    BY <2>1, <2>2, <2>3, StepOfOne
<1>4. CASE GiveApproval(t)
  <2>1. UNCHANGED <<standing, applications>>
    BY <1>4 DEF GiveApproval
  <2>2. RowsGrow /\ RequestFits(t) /\ approvals' \in 0..MaxGiven
    BY <1>4, ApprovalGiven
  <2> QED
    BY <2>1, <2>2, StepOfOne
<1>5. CASE BeginApply(t)
  <2>1. UNCHANGED <<standing, templates, applications, approvals>>
    BY <1>5 DEF BeginApply
  <2> QED
    BY <1>5, <2>1, BeginFits, StepOfReader
<1>6. CASE CommitApply(t)
  <2>1. standing' \in [Reusable -> {"issued", "revoked"}] /\ approvals' \in 0..MaxGiven
    BY <1>6 DEF CommitApply, ReuseInv, ReuseTypes, ReuseTypeOK
  <2>2. RowsGrow /\ RequestFits(t)
    BY <1>6, CommitFits, RowsApplied
  <2>3. \A c \in Reusable : \A k, l \in ActiveRows(c)' : k = l
    BY <1>6, ActiveApplied
  <2> QED
    BY <2>1, <2>2, <2>3 DEF ReuseStep
<1>7. CASE RetryApply(t) \/ UniqueConflict(t)
  <2>1. UNCHANGED <<standing, templates, applications, approvals>>
    BY <1>7 DEF RetryApply, UniqueConflict
  <2> QED
    BY <1>7, <2>1, RetryFits, StepOfReader
<1>8. CASE ReconcileConcurrentApply(t) \/ AnswerRequest(t)
  <2>1. UNCHANGED <<standing, templates, applications, approvals>>
    BY <1>8 DEF ReconcileConcurrentApply, AnswerRequest
  <2> QED
    BY <1>8, <2>1, AnswerFits, StepOfReader
<1> QED
  BY <1>1, <1>2, <1>3, <1>4, <1>5, <1>6, <1>7, <1>8 DEF RequestStep

\* Each request that begins.
LEMMA RequestStartKeeps ==
    ASSUME ReuseInv, NEW t \in Requests, NEW c \in Reusable,
           \/ Save(t, c)
           \/ \E n \in 1..MaxOwnAnalyses : ApproveCredential(t, c, n)
           \/ \E i \in DOMAIN templates :
               \/ Review(t, c, i)
               \/ \E n \in 1..MaxOwnAnalyses : ApproveTemplate(t, i, c, n)
    PROVE  ReuseStep(t)
<1>1. UNCHANGED <<standing, templates, applications, approvals>>
  BY DEF Save, ApproveCredential, Review, ApproveTemplate
<1>2. RequestFits(t)
  BY SaveFits, ReviewFits, ApproveFits
<1> QED
  BY <1>1, <1>2, StepOfReader

\* Every step is one of a request, or of none and then only of a template or of
\* the standing of a credential.
LEMMA ReuseSteps ==
    ASSUME ReuseInv, [ReuseNext]_reuseVars
    PROVE  RowsGrow /\ ReuseInv'
<1>1. ASSUME UNCHANGED reuseVars PROVE RowsGrow /\ ReuseInv'
  <2>1. /\ UNCHANGED <<templates, applications, request, approvals>>
        /\ standing' \in [Reusable -> {"issued", "revoked"}]
    BY <1>1 DEF reuseVars, ReuseInv, ReuseTypes, ReuseTypeOK
  <2>2. RowsGrow
    BY <2>1, RowsSame
  <2> QED
    BY <2>1, <2>2, TemplatesKept
<1>2. ASSUME CreateTemplate PROVE RowsGrow /\ ReuseInv'
  <2>1. /\ UNCHANGED <<applications, request, approvals>>
        /\ standing' \in [Reusable -> {"issued", "revoked"}]
        /\ AddTemplate(NoOrigin)
    BY <1>2 DEF CreateTemplate, ReuseInv, ReuseTypes, ReuseTypeOK
  <2>2. RowsGrow
    BY <2>1, TemplateAdded, ApplicationsSame DEF RowsGrow
  <2> QED
    BY <2>1, <2>2, TemplatesKept
<1>3. ASSUME NEW c \in Reusable, RevokeReusable(c) PROVE RowsGrow /\ ReuseInv'
  <2>1. /\ UNCHANGED <<templates, applications, request, approvals>>
        /\ standing' \in [Reusable -> {"issued", "revoked"}]
    BY <1>3 DEF RevokeReusable, ReuseInv, ReuseTypes, ReuseTypeOK
  <2>2. RowsGrow
    BY <2>1, RowsSame
  <2> QED
    BY <2>1, <2>2, TemplatesKept
<1>4. ASSUME NEW i \in DOMAIN templates, PatchTemplate(i) PROVE RowsGrow /\ ReuseInv'
  <2>1. /\ UNCHANGED <<applications, request, approvals>>
        /\ standing' \in [Reusable -> {"issued", "revoked"}]
    BY <1>4 DEF PatchTemplate, ReuseInv, ReuseTypes, ReuseTypeOK
  <2>2. RowsGrow
    BY <1>4, TemplatePatched
  <2> QED
    BY <2>1, <2>2, TemplatesKept
<1>5. ASSUME NEW t \in Requests, RequestStep(t) PROVE RowsGrow /\ ReuseInv'
  <2>1. ReuseStep(t)
    BY <1>5, RequestStepKeeps
  <2> QED
    BY <2>1, ReuseKept DEF ReuseStep
<1>6. ASSUME NEW t \in Requests, NEW c \in Reusable,
             \/ Save(t, c)
             \/ \E n \in 1..MaxOwnAnalyses : ApproveCredential(t, c, n)
             \/ \E i \in DOMAIN templates :
                 \/ Review(t, c, i)
                 \/ \E n \in 1..MaxOwnAnalyses : ApproveTemplate(t, i, c, n)
      PROVE  RowsGrow /\ ReuseInv'
  <2>1. ReuseStep(t)
    BY <1>6, RequestStartKeeps
  <2> QED
    BY <2>1, ReuseKept DEF ReuseStep
<1> QED
  BY <1>1, <1>2, <1>3, <1>4, <1>5, <1>6 DEF ReuseNext

\* The invariant holds at the start.
LEMMA ReuseStarts ==
    ReuseInit => ReuseInv
<1> SUFFICES ASSUME ReuseInit PROVE ReuseInv
  OBVIOUS
<1>1. /\ templates = << >> /\ applications = << >> /\ approvals = 0
      /\ standing = [c \in Reusable |-> "issued"] /\ request = [t \in Requests |-> NoRequest]
  BY DEF ReuseInit
<1>2. /\ templates \in Seq(Templates) /\ Len(templates) = 0 /\ DOMAIN templates = {}
      /\ applications \in Seq(Applications) /\ Len(applications) = 0 /\ DOMAIN applications = {}
  BY <1>1, EmptySeq
<1>3. /\ request \in [Requests -> RequestRecords] /\ \A t \in Requests : request[t] = NoRequest
  BY <1>1, NoRequestFits
<1>4. /\ 0 <= MaxTemplates /\ 0 <= MaxApplications /\ 0 \in 0..MaxGiven /\ 0 \in 0..MaxAttempts
      /\ 0 \in 0..0
  BY ReuseConstants DEF MaxAttempts
<1>5. standing \in [Reusable -> {"issued", "revoked"}]
  BY <1>1
<1>6. ReuseTypes
  BY <1>1, <1>2, <1>3, <1>4, <1>5, NoRequestFits DEF ReuseTypes, ReuseTypeOK
<1>7. \A t \in Requests : RequestInv(request[t])
  BY <1>3, NoRequestFits DEF RequestInv
<1>8. ApprovedFromItsSource
  BY <1>2 DEF ApprovedFromItsSource
<1>9. \A c \in Reusable : ActiveRows(c) = {}
  BY <1>2 DEF ActiveRows
<1> QED
  BY <1>6, <1>7, <1>8, <1>9 DEF ReuseInv

-----------------------------------------------------------------------------
(* What the invariant says, and what a step never does.                     *)

\* What the invariant says of a state.
LEMMA ReuseSays ==
    ReuseInv => OneActiveInterpretation /\ ApprovedFromItsSource
<1> SUFFICES ASSUME ReuseInv PROVE OneActiveInterpretation /\ ApprovedFromItsSource
  OBVIOUS
<1>1. \A c \in Reusable : Cardinality(ActiveRows(c)) <= 1
  BY AtMostOne DEF ReuseInv
<1> QED
  BY <1>1 DEF OneActiveInterpretation, ReuseInv

\* Only the request that commits writes rows.
LEMMA OneWrites ==
    ASSUME ReuseInv, [ReuseNext]_reuseVars, applications' # applications
    PROVE  \E t \in Requests : CommitApply(t)
<1>1. ReuseNext
  BY DEF reuseVars
<1>2. PICK t \in Requests :
         \/ RequestStep(t)
         \/ \E c \in Reusable :
             \/ Save(t, c)
             \/ \E n \in 1..MaxOwnAnalyses : ApproveCredential(t, c, n)
             \/ \E i \in DOMAIN templates :
                 \/ Review(t, c, i)
                 \/ \E n \in 1..MaxOwnAnalyses : ApproveTemplate(t, i, c, n)
  BY <1>1 DEF ReuseNext, CreateTemplate, RevokeReusable, PatchTemplate
<1>3. RequestStep(t)
  BY <1>2 DEF Save, ApproveCredential, Review, ApproveTemplate
<1> QED
  BY <1>3 DEF RequestStep, FindTemplate, CheckDuplicate, CreateFromCredential, GiveApproval,
       BeginApply, RetryApply, UniqueConflict, ReconcileConcurrentApply, AnswerRequest

\* The row a request writes holds the approval that was looked at.
LEMMA ReviewedIsWritten ==
    ASSUME ReuseInv, [ReuseNext]_reuseVars, NEW t \in Requests,
           RequestAt(t, "commit"), applications' # applications, request'[t].at = "answer"
    PROVE  applications'[request'[t].row].approval.revision = request[t].reviewed
<1>1. PICK u \in Requests : CommitApply(u)
  BY OneWrites
<1>2. request \in [Requests -> RequestRecords] /\ request[t] \in RequestRecords
  BY ReuseRows DEF ReuseInv, ReuseTypes
<1>3. t = u
  <2>1. SUFFICES ASSUME t # u PROVE FALSE
    OBVIOUS
  <2>2. OthersAsk(u)
    BY <1>1, CommitFits DEF RequestFits
  <2>3. request'[t].at = "commit"
    BY <2>1, <2>2 DEF OthersAsk, RequestAt
  <2> QED
    BY <2>3
<1>4. CommitApply(t)
  BY <1>1, <1>3
<1>5. PICK n : n = Len(applications) + 1
  OBVIOUS
<1>6. request' = [request EXCEPT ![t].row = n, ![t].at = "answer"]
  BY <1>4, <1>5 DEF CommitApply
<1>7. request'[t].row = n
  BY <1>2, <1>6 DEF RequestRecords
<1>8. applications'[n] = [cred |-> request[t].cred, approval |-> request[t].seen,
                          status |-> "active"]
  BY <1>4, <1>5, ApplicationsWritten
<1>9. applications'[n].approval = request[t].seen
  BY <1>8
<1>10. request[t].seen.revision = request[t].reviewed
  BY RequestHolds DEF RequestInv, RequestAt
<1> QED
  BY <1>7, <1>9, <1>10

\* What no step does: it writes nothing that was not reviewed, and rewrites no row.
LEMMA ReuseStepsKeep ==
    ASSUME ReuseInv, [ReuseNext]_reuseVars
    PROVE  /\ \A t \in Requests :
                (RequestAt(t, "commit") /\ applications' # applications /\ request'[t].at = "answer")
                    => applications'[request'[t].row].approval.revision = request[t].reviewed
           /\ \A k \in DOMAIN applications :
                /\ k \in DOMAIN applications'
                /\ applications'[k] \in {applications[k],
                                         [applications[k] EXCEPT !.status = "superseded"]}
<1>1. RowsGrow
  BY ReuseSteps
<1>2. \A k \in DOMAIN applications :
                /\ k \in DOMAIN applications'
                /\ applications'[k] \in {applications[k],
                                         [applications[k] EXCEPT !.status = "superseded"]}
  BY <1>1 DEF RowsGrow
<1> QED
  BY <1>2, ReviewedIsWritten

\* What was reviewed is what is written, and it stays.
LEMMA ReuseActions ==
    ReuseSpec => WritesWhatWasReviewed /\ HistoryIsFrozen
<1>1. ReuseInit => ReuseInv
  BY ReuseStarts
<1>2. ReuseInv /\ [ReuseNext]_reuseVars => ReuseInv'
  BY ReuseSteps
<1>3. ReuseInv /\ [ReuseNext]_reuseVars =>
        [\A t \in Requests :
          (RequestAt(t, "commit") /\ applications' # applications /\ request'[t].at = "answer")
              => applications'[request'[t].row].approval.revision = request[t].reviewed]_reuseVars
  BY ReuseStepsKeep
<1>4. ReuseInv /\ [ReuseNext]_reuseVars =>
        [\A k \in DOMAIN applications :
          /\ k \in DOMAIN applications'
          /\ applications'[k] \in {applications[k],
                                   [applications[k] EXCEPT !.status = "superseded"]}]_reuseVars
  BY ReuseStepsKeep
<1>5. ReuseSpec => WritesWhatWasReviewed
  BY <1>1, <1>2, <1>3, PTL DEF ReuseSpec, WritesWhatWasReviewed
<1>6. ReuseSpec => HistoryIsFrozen
  BY <1>1, <1>2, <1>4, PTL DEF ReuseSpec, HistoryIsFrozen
<1> QED
  BY <1>5, <1>6

\* What is true of every state.
LEMMA ReuseStates ==
    ReuseSpec => [](OneActiveInterpretation /\ ApprovedFromItsSource)
<1>1. ReuseInit => ReuseInv
  BY ReuseStarts
<1>2. ReuseInv /\ [ReuseNext]_reuseVars => ReuseInv'
  BY ReuseSteps
<1>3. ReuseInv => OneActiveInterpretation /\ ApprovedFromItsSource
  BY ReuseSays
<1> QED
  BY <1>1, <1>2, <1>3, PTL DEF ReuseSpec

\* An interpretation that is applied is the one its issuer reviewed, for any
\* number of requests, templates and credentials.
THEOREM InterpretationsHold == ReuseSpec => InterpretationsAreReviewed
  BY ReuseActions, ReuseStates, PTL DEF InterpretationsAreReviewed

-----------------------------------------------------------------------------
(* The profile: its inductive invariant.                                    *)

OperationRecords ==
    [op : {"none", "issue", "revoke", "apply", "analysis", "rebuild", "import"},
     at : {"idle", "analyse", "credentials", "analyses", "interpretations", "begin",
           "commit", "compose", "answer"},
     cred : Credentials \cup {NoCredential}, seen : Snapshots, base : 0..MaxProfiles]

ProfileTypes == ProfileTypeOK /\ operation \in [Operations -> OperationRecords]

\* What the reason of an operation says of sources read for it, of which the
\* last two are known once the rows they come from were read.
ShowsStatus(op, c, s) ==
    /\ op = "revoke" => c \notin DOMAIN s
    /\ op = "issue" => c \in DOMAIN s \/ status[c] = "revoked"
ShowsAnalysis(op, c, s) == op = "analysis" /\ c \in DOMAIN s => s[c].kind # "none"
ShowsReviewed(op, c, s) == op = "apply" /\ c \in DOMAIN s => s[c].kind = "reviewed"
Shows(op, c, s) ==
    ShowsStatus(op, c, s) /\ ShowsAnalysis(op, c, s) /\ ShowsReviewed(op, c, s)

\* What an operation changed before its rebuild stays changed.
CausedInv(o) ==
    /\ o.op \in {"issue", "revoke", "apply", "analysis"} => o.cred \in Credentials
    /\ o.op = "revoke" => status[o.cred] = "revoked"
    /\ o.op = "apply" => applied[o.cred] > 0
    /\ o.op \in {"issue", "analysis"} => status[o.cred] # "draft"
    /\ o.op = "analysis" => o.at = "analyse" \/ analyses[o.cred] > 0
    /\ o.at = "analyse" => o.op = "analysis"

SeenInv(o) ==
    /\ o.at \in {"analyses", "interpretations", "begin", "commit"} =>
          ShowsStatus(o.op, o.cred, o.seen)
    /\ o.at \in {"interpretations", "begin", "commit"} => ShowsAnalysis(o.op, o.cred, o.seen)
    /\ o.at \in {"begin", "commit"} => ShowsReviewed(o.op, o.cred, o.seen)

ComposingInv(o) ==
    o.at = "compose" =>
        /\ o.base \in DOMAIN profiles
        /\ profiles[o.base].coverage = "absent"
        /\ Shows(o.op, o.cred, profiles[o.base].sources)

OperationInv(o) == CausedInv(o) /\ SeenInv(o) /\ ComposingInv(o)

\* No two operations compose the embedding of one profile.
ComposersApart ==
    \A t, u \in Operations :
        OperationAt(t, "compose") /\ OperationAt(u, "compose")
          /\ operation[t].base = operation[u].base => t = u

ProfileInv ==
    /\ ProfileTypes
    /\ OneCurrentProfile
    /\ \A t \in Operations : OperationInv(operation[t])
    /\ ComposersApart
    /\ CoverageIsOfTheSnapshot

\* What no step takes back.
ProfileGrows ==
    /\ \A c \in Credentials :
          /\ status[c] # "draft" => status'[c] # "draft"
          /\ status[c] = "revoked" => status'[c] = "revoked"
          /\ applied[c] > 0 => applied'[c] > 0
          /\ analyses[c] > 0 => analyses'[c] > 0
    /\ embedded \subseteq embedded'
    /\ \A i \in DOMAIN profiles :
          i \in DOMAIN profiles' /\ profiles'[i].sources = profiles[i].sources

OthersKeep(t) == \A u \in Operations : u # t => operation'[u] = operation[u]

\* The place an operation goes to and what it then read: every step of an
\* operation but its begin and its end.
Moves(t, seen, base, place) ==
    operation' = [operation EXCEPT ![t] =
        [operation[t] EXCEPT !.seen = seen, !.base = base, !.at = place]]

-----------------------------------------------------------------------------
(* The rows of the profiles and of what operations hold.                    *)

\* The snapshots are the functions from some credentials to their sources.
LEMMA SnapshotIs ==
    ASSUME NEW s
    PROVE  s \in Snapshots <=> DOMAIN s \subseteq Credentials /\ s \in [DOMAIN s -> Origins]
  BY DEF Snapshots

\* The rows and operations of the model and what is in them.
LEMMA ProfileRows ==
    ASSUME ProfileTypes
    PROVE  /\ DOMAIN profiles = 1..Len(profiles) /\ Len(profiles) \in Nat
           /\ \A i \in DOMAIN profiles : profiles[i] \in Profiles
           /\ \A t \in Operations : operation[t] \in OperationRecords
<1>1. profiles \in Seq(Profiles)
  BY DEF ProfileTypes, ProfileTypeOK
<1> QED
  BY <1>1, LenProperties, ElementOfSeq DEF ProfileTypes

-----------------------------------------------------------------------------
(* The types.                                                               *)

\* The bounds and switches are what the assumption says.
LEMMA ProfileConstants ==
    ProfileAssumption => /\ MaxProfiles \in Nat /\ MaxAnalyses \in Nat /\ MaxApprovals \in Nat
                         /\ Imports \in BOOLEAN /\ Failures \in BOOLEAN
  BY DEF ProfileAssumption, ProfileBounds

\* The snapshot of an operation that has read nothing.
LEMMA NothingRead ==
    NoSources \in Snapshots /\ DOMAIN NoSources = {}
  BY DEF NoSources, Snapshots

\* An operation that begins is well formed.
LEMMA OperationBegins ==
    ASSUME ProfileTypes, NEW t \in Operations, NEW c \in Credentials \cup {NoCredential},
           NEW op \in {"issue", "revoke", "apply", "rebuild", "import"},
           NEW place \in {"credentials", "begin"}, BeginOperation(t, op, c, place)
    PROVE  /\ operation' \in [Operations -> OperationRecords]
           /\ OthersKeep(t)
           /\ operation'[t].op = op /\ operation'[t].at = place /\ operation'[t].cred = c
           /\ operation'[t].seen = NoSources
<1>1. MaxProfiles \in Nat
  BY ProfileAssumption, ProfileConstants
<1>2. PICK r : r = [NoOperation EXCEPT !.op = op, !.at = place, !.cred = c]
  OBVIOUS
<1>6. r = [op |-> op, at |-> place, cred |-> c, seen |-> NoSources, base |-> 0]
  BY <1>2 DEF NoOperation
<1>7. 0 \in 0..MaxProfiles
  BY <1>1
<1>3. r \in OperationRecords
  BY <1>6, <1>7, NothingRead DEF OperationRecords
<1>4. operation' = [operation EXCEPT ![t] = r] /\ operation \in [Operations -> OperationRecords]
  BY <1>2 DEF BeginOperation, ProfileTypes
<1>5. r.op = op /\ r.at = place /\ r.cred = c /\ r.seen = NoSources
  BY <1>2 DEF NoOperation
<1> QED
  BY <1>3, <1>4, <1>5 DEF OthersKeep

\* An operation that is over; the issue of a credential goes on to its analysis.
LEMMA OperationIsOver ==
    ASSUME ProfileTypes, NEW t \in Operations, OperationEnds(t)
    PROVE  /\ operation' \in [Operations -> OperationRecords]
           /\ OthersKeep(t)
           /\ operation[t].op = "issue" =>
                 /\ operation'[t].op = "analysis" /\ operation'[t].at = "analyse"
                 /\ operation'[t].cred = operation[t].cred
           /\ operation[t].op # "issue" =>
                 operation'[t].op = "none" /\ operation'[t].at = "idle"
<1>1. MaxProfiles \in Nat
  BY ProfileAssumption, ProfileConstants
<1>2. operation[t] \in OperationRecords
  BY DEF ProfileTypes
<1>3. PICK r : r = IF operation[t].op = "issue"
                   THEN [NoOperation EXCEPT !.op = "analysis", !.at = "analyse",
                                            !.cred = operation[t].cred]
                   ELSE NoOperation
  OBVIOUS
<1>7. 0 \in 0..MaxProfiles
  BY <1>1
<1>8. operation[t].cred \in Credentials \cup {NoCredential}
  BY <1>2 DEF OperationRecords
<1>9. /\ operation[t].op = "issue" =>
            r = [op |-> "analysis", at |-> "analyse", cred |-> operation[t].cred,
                 seen |-> NoSources, base |-> 0]
      /\ operation[t].op # "issue" =>
            r = [op |-> "none", at |-> "idle", cred |-> NoCredential,
                 seen |-> NoSources, base |-> 0]
  BY <1>3 DEF NoOperation
<1>4. r \in OperationRecords
  BY <1>7, <1>8, <1>9, NothingRead DEF OperationRecords
<1>5. operation' = [operation EXCEPT ![t] = r] /\ operation \in [Operations -> OperationRecords]
  BY <1>3 DEF OperationEnds, ProfileTypes
<1>6. /\ operation[t].op = "issue" =>
            r.op = "analysis" /\ r.at = "analyse" /\ r.cred = operation[t].cred
      /\ operation[t].op # "issue" => r.op = "none" /\ r.at = "idle"
  BY <1>3 DEF NoOperation
<1> QED
  BY <1>4, <1>5, <1>6 DEF OthersKeep

\* The other steps of an operation change its place, what it read or its base.
LEMMA OperationMoves ==
    ASSUME ProfileTypes, NEW t \in Operations, NEW seen \in Snapshots, NEW base \in 0..MaxProfiles,
           NEW place \in {"credentials", "analyses", "interpretations", "begin", "commit",
                          "compose", "answer"},
           Moves(t, seen, base, place)
    PROVE  /\ operation' \in [Operations -> OperationRecords]
           /\ OthersKeep(t)
           /\ operation'[t].op = operation[t].op /\ operation'[t].cred = operation[t].cred
           /\ operation'[t].seen = seen /\ operation'[t].base = base /\ operation'[t].at = place
<1>1. operation[t] \in OperationRecords /\ operation \in [Operations -> OperationRecords]
  BY DEF ProfileTypes
<1>2. PICK r : r = [operation[t] EXCEPT !.seen = seen, !.base = base, !.at = place]
  OBVIOUS
<1>3. r \in OperationRecords
  BY <1>1, <1>2 DEF OperationRecords
<1>4. /\ r.op = operation[t].op /\ r.cred = operation[t].cred
      /\ r.seen = seen /\ r.base = base /\ r.at = place
  BY <1>1, <1>2 DEF OperationRecords
<1>5. operation' = [operation EXCEPT ![t] = r]
  BY <1>2 DEF Moves
<1> QED
  BY <1>1, <1>3, <1>4, <1>5 DEF OthersKeep

\* What the two readings make is a snapshot.
LEMMA SnapshotsRead ==
    ASSUME ProfileTypes, NEW t \in Operations
    PROVE  /\ [c \in {d \in Credentials : Selected(d)} |-> NoSource] \in Snapshots
           /\ [c \in DOMAIN operation[t].seen |-> LatestAnalysis(c)] \in Snapshots
           /\ [c \in DOMAIN operation[t].seen |-> Resolved(c, operation[t].seen[c])] \in Snapshots
<1>1. MaxAnalyses \in Nat /\ MaxApprovals \in Nat
  BY ProfileAssumption, ProfileConstants
<1>2. operation[t].seen \in Snapshots
  BY DEF ProfileTypes, OperationRecords
<1>3. /\ DOMAIN operation[t].seen \subseteq Credentials
      /\ \A c \in DOMAIN operation[t].seen : operation[t].seen[c] \in Origins
  BY <1>2, SnapshotIs
<1>4. NoSource \in Origins
  BY DEF Origins
<1>5. ASSUME NEW c \in Credentials PROVE LatestAnalysis(c) \in Origins
  BY <1>1 DEF LatestAnalysis, Origins, Source, ProfileTypes, ProfileTypeOK
<1>6. ASSUME NEW c \in Credentials, NEW s \in Origins PROVE Resolved(c, s) \in Origins
  BY <1>1 DEF Resolved, Origins, Source, ProfileTypes, ProfileTypeOK
<1>7. [c \in {d \in Credentials : Selected(d)} |-> NoSource] \in Snapshots
  <2> DEFINE S == {d \in Credentials : Selected(d)}
  <2>1. S \in SUBSET Credentials
    OBVIOUS
  <2>2. [c \in S |-> NoSource] \in [S -> Origins]
    BY <1>4
  <2> HIDE DEF S
  <2>3. [c \in S |-> NoSource] \in Snapshots
    BY <2>1, <2>2 DEF Snapshots
  <2> QED
    BY <2>3 DEF S
<1>8. [c \in DOMAIN operation[t].seen |-> LatestAnalysis(c)] \in Snapshots
  BY <1>3, <1>5 DEF Snapshots
<1>9. [c \in DOMAIN operation[t].seen |-> Resolved(c, operation[t].seen[c])] \in Snapshots
  BY <1>3, <1>6 DEF Snapshots
<1> QED
  BY <1>7, <1>8, <1>9
-----------------------------------------------------------------------------
(* What each step does.                                                     *)

RowsKept == UNCHANGED <<status, analyses, embedded, applied, approved>> /\ unread' \subseteq unread

\* A profile that is persisted is the only one that is current.
LEMMA PersistEffect ==
    ASSUME ProfileTypes, NEW t \in Operations, Persist(t)
    PROVE  /\ profiles' \in Seq(Profiles) /\ Len(profiles') = Len(profiles) + 1
           /\ Len(profiles') <= MaxProfiles
           /\ DOMAIN profiles' = 1..Len(profiles) + 1
           /\ profiles'[Len(profiles) + 1] =
                 [sources |-> operation[t].seen, current |-> TRUE, coverage |-> "absent"]
           /\ \A i \in DOMAIN profiles :
                 /\ i \in DOMAIN profiles'
                 /\ profiles'[i] = [profiles[i] EXCEPT !.current = FALSE]
           /\ Moves(t, operation[t].seen, Len(profiles) + 1,
                    IF operation[t].op = "import" THEN "answer" ELSE "compose")
           /\ RowsKept
<1>1. /\ DOMAIN profiles = 1..Len(profiles) /\ Len(profiles) \in Nat /\ MaxProfiles \in Nat
      /\ \A i \in DOMAIN profiles : profiles[i] \in Profiles
      /\ operation[t] \in OperationRecords
  BY ProfileRows, ProfileAssumption, ProfileConstants
<1>2. PICK old : old = Retired(operation[t].base)
  OBVIOUS
<1>3. operation[t].base = Len(profiles) /\ Len(profiles) < MaxProfiles
  BY DEF Persist, Serializable
<1>4. \A i \in DOMAIN profiles : i <= operation[t].base
  BY <1>1, <1>3
<1>5. old = [i \in DOMAIN profiles |-> [profiles[i] EXCEPT !.current = FALSE]]
  BY <1>2, <1>4 DEF Retired
<1>6. \A i \in DOMAIN profiles : [profiles[i] EXCEPT !.current = FALSE] \in Profiles
  BY <1>1 DEF Profiles
<1>7. old \in [1..Len(profiles) -> Profiles]
  BY <1>1, <1>5, <1>6
<1>8. old \in Seq(Profiles) /\ Len(old) = Len(profiles) /\ DOMAIN old = DOMAIN profiles
  BY <1>1, <1>7, Mapped
<1>9. PICK new : new = [sources |-> operation[t].seen, current |-> TRUE, coverage |-> "absent"]
  OBVIOUS
<1>10. new \in Profiles
  BY <1>1, <1>9 DEF Profiles, OperationRecords, Coverages
<1>11. profiles' = Append(old, new)
  BY <1>2, <1>9 DEF Persist
<1>12. /\ profiles' \in Seq(Profiles) /\ Len(profiles') = Len(old) + 1
       /\ DOMAIN profiles' = 1..Len(old) + 1 /\ profiles'[Len(old) + 1] = new
       /\ \A i \in DOMAIN old : i \in DOMAIN profiles' /\ profiles'[i] = old[i]
  BY <1>8, <1>10, <1>11, Appended
<1>13. Len(profiles') <= MaxProfiles
  BY <1>1, <1>3, <1>8, <1>12
<1>14. \A i \in DOMAIN profiles : /\ i \in DOMAIN profiles'
                                  /\ profiles'[i] = [profiles[i] EXCEPT !.current = FALSE]
  BY <1>5, <1>8, <1>12
<1>15. operation' = [operation EXCEPT ![t] = [operation[t] EXCEPT
                 !.seen = operation[t].seen, !.base = Len(profiles) + 1,
                 !.at = IF operation[t].op = "import" THEN "answer" ELSE "compose"]]
  <2>1. operation \in [Operations -> OperationRecords]
    BY DEF ProfileTypes
  <2>2. operation' = [operation EXCEPT ![t] = [operation[t] EXCEPT !.base = Len(profiles) + 1,
                 !.at = IF operation[t].op = "import" THEN "answer" ELSE "compose"]]
    BY <2>1 DEF Persist
  <2>3. [operation[t] EXCEPT !.base = Len(profiles) + 1,
                 !.at = IF operation[t].op = "import" THEN "answer" ELSE "compose"]
        = [operation[t] EXCEPT
                 !.seen = operation[t].seen, !.base = Len(profiles) + 1,
                 !.at = IF operation[t].op = "import" THEN "answer" ELSE "compose"]
    BY <1>1 DEF OperationRecords
  <2> QED
    BY <2>2, <2>3
<1>16. RowsKept
  BY DEF Persist, RowsKept
<1> QED
  BY <1>8, <1>9, <1>12, <1>13, <1>14, <1>15, <1>16 DEF Moves

\* A profile gets its coverage, or nothing.
LEMMA ComposeEffect ==
    ASSUME ProfileTypes, NEW t \in Operations, Compose(t),
           operation[t].base \in DOMAIN profiles
    PROVE  /\ profiles' \in Seq(Profiles) /\ Len(profiles') = Len(profiles)
           /\ DOMAIN profiles' = DOMAIN profiles
           /\ \A i \in DOMAIN profiles :
                 \/ profiles'[i] = profiles[i]
                 \/ /\ i = operation[t].base
                    /\ profiles'[i] = [profiles[i] EXCEPT !.coverage = Coverage(profiles[i].sources)]
           /\ Moves(t, operation[t].seen, operation[t].base, "answer")
           /\ RowsKept
<1>1. /\ \A i \in DOMAIN profiles : profiles[i] \in Profiles
      /\ operation[t] \in OperationRecords /\ profiles \in Seq(Profiles)
      /\ operation \in [Operations -> OperationRecords]
  BY ProfileRows DEF ProfileTypes, ProfileTypeOK
<1>2. PICK b : b = operation[t].base
  OBVIOUS
<1>3. PICK e : e = [profiles[b] EXCEPT !.coverage = Coverage(profiles[b].sources)]
  OBVIOUS
<1>4. Coverage(profiles[b].sources) \in Coverages
  BY DEF Coverage, Coverages
<1>5. e \in Profiles
  BY <1>1, <1>2, <1>3, <1>4 DEF Profiles
<1>6. \/ profiles' = profiles
      \/ profiles' = [profiles EXCEPT ![b] = e]
  BY <1>2, <1>3 DEF Compose
<1>7. ASSUME profiles' = [profiles EXCEPT ![b] = e]
      PROVE  /\ profiles' \in Seq(Profiles) /\ Len(profiles') = Len(profiles)
             /\ DOMAIN profiles' = DOMAIN profiles
             /\ \A i \in DOMAIN profiles :
                   \/ profiles'[i] = profiles[i]
                   \/ /\ i = operation[t].base
                      /\ profiles'[i] = [profiles[i] EXCEPT !.coverage = Coverage(profiles[i].sources)]
  <2>1. /\ profiles' \in Seq(Profiles) /\ Len(profiles') = Len(profiles)
        /\ DOMAIN profiles' = DOMAIN profiles
        /\ \A i \in DOMAIN profiles : profiles'[i] = IF i = b THEN e ELSE profiles[i]
    BY <1>1, <1>2, <1>5, <1>7, Updated
  <2>2. ASSUME NEW i \in DOMAIN profiles
        PROVE  \/ profiles'[i] = profiles[i]
               \/ i = b /\ profiles'[i] = [profiles[i] EXCEPT !.coverage = Coverage(profiles[i].sources)]
    <3>1. CASE i = b
      <4>1. profiles'[i] = e
        BY <2>1, <3>1
      <4>2. e = [profiles[i] EXCEPT !.coverage = Coverage(profiles[i].sources)]
        BY <1>3, <3>1
      <4> QED
        BY <3>1, <4>1, <4>2
    <3>2. CASE i # b
      BY <2>1, <3>2
    <3> QED
      BY <3>1, <3>2
  <2>3. \A i \in DOMAIN profiles :
           \/ profiles'[i] = profiles[i]
           \/ /\ i = operation[t].base
              /\ profiles'[i] = [profiles[i] EXCEPT !.coverage = Coverage(profiles[i].sources)]
    BY <1>2, <2>2
  <2> QED
    BY <2>1, <2>3
<1>8. operation' = [operation EXCEPT ![t] = [operation[t] EXCEPT
                 !.seen = operation[t].seen, !.base = operation[t].base, !.at = "answer"]]
  <2>1. operation' = [operation EXCEPT ![t] = [operation[t] EXCEPT !.at = "answer"]]
    BY <1>1 DEF Compose, OperationGoes
  <2>2. [operation[t] EXCEPT !.at = "answer"]
         = [operation[t] EXCEPT
                 !.seen = operation[t].seen, !.base = operation[t].base, !.at = "answer"]
    BY <1>1 DEF OperationRecords
  <2> QED
    BY <2>1, <2>2
<1>9. RowsKept
  BY DEF Compose, RowsKept
<1>10. /\ profiles' \in Seq(Profiles) /\ Len(profiles') = Len(profiles)
       /\ DOMAIN profiles' = DOMAIN profiles
       /\ \A i \in DOMAIN profiles :
                 \/ profiles'[i] = profiles[i]
                 \/ /\ i = operation[t].base
                    /\ profiles'[i] = [profiles[i] EXCEPT !.coverage = Coverage(profiles[i].sources)]
  BY <1>1, <1>6, <1>7
<1> QED
  BY <1>8, <1>9, <1>10 DEF Moves
\* What the analysis after an issue writes (CredentialsService.issueCredential).
LEMMA AnalyseEffect ==
    ASSUME ProfileTypes, NEW t \in Operations, Analyse(t)
    PROVE  /\ UNCHANGED <<status, applied, approved, profiles, unread>>
           /\ \/ OperationEnds(t) /\ UNCHANGED <<analyses, embedded>>
              \/ /\ analyses[operation[t].cred] < MaxAnalyses
                 /\ analyses' = [analyses EXCEPT ![operation[t].cred] = @ + 1]
                 /\ embedded' \in {embedded,
                        embedded \cup {<<operation[t].cred, analyses[operation[t].cred] + 1>>}}
                 /\ Moves(t, operation[t].seen, operation[t].base, "credentials")
<1>1. operation[t] \in OperationRecords /\ operation \in [Operations -> OperationRecords]
  BY DEF ProfileTypes
<1>2. [operation[t] EXCEPT !.at = "credentials"] = [operation[t] EXCEPT
                 !.seen = operation[t].seen, !.base = operation[t].base, !.at = "credentials"]
  BY <1>1 DEF OperationRecords
<1>3. OperationGoes(t, "credentials") => Moves(t, operation[t].seen, operation[t].base, "credentials")
  BY <1>1, <1>2 DEF OperationGoes, Moves
<1> QED
  BY <1>3 DEF Analyse

\* What the first statement of a rebuild reads: the issued credentials.
LEMMA ReadCredentialsEffect ==
    ASSUME ProfileTypes, NEW t \in Operations, ReadCredentials(t)
    PROVE  /\ RowsKept /\ UNCHANGED profiles
           /\ Moves(t, [c \in {d \in Credentials : Selected(d)} |-> NoSource],
                    operation[t].base, "analyses")
<1>1. operation[t] \in OperationRecords /\ operation \in [Operations -> OperationRecords]
  BY DEF ProfileTypes
<1>2. PICK s : s = [c \in {d \in Credentials : Selected(d)} |-> NoSource]
  OBVIOUS
<1>3. operation' = [operation EXCEPT ![t] = [operation[t] EXCEPT !.seen = s, !.at = "analyses"]]
  BY <1>1, <1>2 DEF ReadCredentials
<1>4. [operation[t] EXCEPT !.seen = s, !.at = "analyses"]
        = [operation[t] EXCEPT !.seen = s, !.base = operation[t].base, !.at = "analyses"]
  BY <1>1 DEF OperationRecords
<1> QED
  BY <1>2, <1>3, <1>4 DEF Moves, RowsKept, ReadCredentials

\* What the second statement reads: the latest analysis of each of them.
LEMMA ReadAnalysesEffect ==
    ASSUME ProfileTypes, NEW t \in Operations, ReadAnalyses(t)
    PROVE  /\ RowsKept /\ UNCHANGED profiles
           /\ Moves(t, [c \in DOMAIN operation[t].seen |-> LatestAnalysis(c)],
                    operation[t].base, "interpretations")
<1>1. operation[t] \in OperationRecords /\ operation \in [Operations -> OperationRecords]
  BY DEF ProfileTypes
<1>2. PICK s : s = [c \in DOMAIN operation[t].seen |-> LatestAnalysis(c)]
  OBVIOUS
<1>3. operation' = [operation EXCEPT ![t] = [operation[t] EXCEPT !.seen = s, !.at = "interpretations"]]
  BY <1>1, <1>2 DEF ReadAnalyses
<1>4. [operation[t] EXCEPT !.seen = s, !.at = "interpretations"]
        = [operation[t] EXCEPT !.seen = s, !.base = operation[t].base, !.at = "interpretations"]
  BY <1>1 DEF OperationRecords
<1> QED
  BY <1>2, <1>3, <1>4 DEF Moves, RowsKept, ReadAnalyses

\* What the third statement reads: the interpretations applied to them.
LEMMA ReadInterpretationsEffect ==
    ASSUME ProfileTypes, NEW t \in Operations, ReadInterpretations(t)
    PROVE  /\ RowsKept /\ UNCHANGED profiles
           /\ Moves(t, [c \in DOMAIN operation[t].seen |-> Resolved(c, operation[t].seen[c])],
                    operation[t].base, "begin")
<1>1. operation[t] \in OperationRecords /\ operation \in [Operations -> OperationRecords]
  BY DEF ProfileTypes
<1>2. PICK s : s = [c \in DOMAIN operation[t].seen |-> Resolved(c, operation[t].seen[c])]
  OBVIOUS
<1>3. operation' = [operation EXCEPT ![t] = [operation[t] EXCEPT !.seen = s, !.at = "begin"]]
  BY <1>1, <1>2 DEF ReadInterpretations
<1>4. [operation[t] EXCEPT !.seen = s, !.at = "begin"]
        = [operation[t] EXCEPT !.seen = s, !.base = operation[t].base, !.at = "begin"]
  BY <1>1 DEF OperationRecords
<1> QED
  BY <1>2, <1>3, <1>4 DEF Moves, RowsKept, ReadInterpretations

\* What the transaction of a rebuild sees when it begins.
LEMMA BeginPersistEffect ==
    ASSUME ProfileTypes, NEW t \in Operations, BeginPersist(t)
    PROVE  /\ RowsKept /\ UNCHANGED profiles
           /\ Len(profiles) \in 0..MaxProfiles
           /\ Moves(t, operation[t].seen, Len(profiles), "commit")
<1>1. operation[t] \in OperationRecords /\ operation \in [Operations -> OperationRecords]
  BY DEF ProfileTypes
<1>2. PICK n : n = Len(profiles)
  OBVIOUS
<1>3. operation' = [operation EXCEPT ![t] = [operation[t] EXCEPT !.base = n, !.at = "commit"]]
  BY <1>1, <1>2 DEF BeginPersist
<1>4. [operation[t] EXCEPT !.base = n, !.at = "commit"]
        = [operation[t] EXCEPT !.seen = operation[t].seen, !.base = n, !.at = "commit"]
  BY <1>1 DEF OperationRecords
<1>5. Len(profiles) \in 0..MaxProfiles
  BY ProfileRows, ProfileAssumption, ProfileConstants DEF ProfileTypes, ProfileTypeOK
<1> QED
  BY <1>2, <1>3, <1>4, <1>5 DEF Moves, RowsKept, BeginPersist
-----------------------------------------------------------------------------
(* Types, and what no step takes back.                                      *)

\* A step that keeps the rows keeps their types and takes nothing back.
LEMMA RowsKeptGrow ==
    ASSUME ProfileTypes, RowsKept, profiles' \in Seq(Profiles), Len(profiles') <= MaxProfiles,
           operation' \in [Operations -> OperationRecords],
           \A i \in DOMAIN profiles :
              i \in DOMAIN profiles' /\ profiles'[i].sources = profiles[i].sources
    PROVE  ProfileTypes' /\ ProfileGrows
<1>1. \A t \in Operations : operation'[t].base \in 0..MaxProfiles
  BY DEF OperationRecords
<1>2. ProfileTypes'
  BY <1>1 DEF ProfileTypes, ProfileTypeOK, RowsKept
<1>3. ProfileGrows
  BY DEF ProfileGrows, RowsKept
<1> QED
  BY <1>2, <1>3

\* An analysis is added to one credential, and its embeddings may be.
LEMMA NewAnalysis ==
    ASSUME ProfileTypes, NEW c \in Credentials, analyses[c] < MaxAnalyses,
           analyses' = [analyses EXCEPT ![c] = @ + 1],
           embedded' \in {embedded, embedded \cup {<<c, analyses[c] + 1>>}}
    PROVE  /\ analyses' \in [Credentials -> 0..MaxAnalyses]
           /\ embedded' \subseteq Credentials \X (1..MaxAnalyses)
           /\ embedded \subseteq embedded'
           /\ analyses'[c] > 0 /\ \A d \in Credentials : d # c => analyses'[d] = analyses[d]
<1>1. MaxAnalyses \in Nat /\ analyses \in [Credentials -> 0..MaxAnalyses]
      /\ embedded \subseteq Credentials \X (1..MaxAnalyses)
  BY ProfileAssumption, ProfileConstants DEF ProfileTypes, ProfileTypeOK
<1>2. analyses[c] + 1 \in 1..MaxAnalyses
  BY <1>1
<1>3. <<c, analyses[c] + 1>> \in Credentials \X (1..MaxAnalyses)
  BY <1>2
<1>4. embedded' \subseteq Credentials \X (1..MaxAnalyses) /\ embedded \subseteq embedded'
  BY <1>1, <1>3
<1>5. /\ analyses' \in [Credentials -> 0..MaxAnalyses] /\ analyses'[c] > 0
      /\ \A d \in Credentials : d # c => analyses'[d] = analyses[d]
  BY <1>1, <1>2
<1> QED
  BY <1>4, <1>5

\* An operation that begins keeps the types and leaves the rows.
LEMMA BeginTypes ==
    ASSUME ProfileInv, NEW t \in Operations,
           \/ Rebuild(t) \/ Import(t)
           \/ \E c \in Credentials : IssueCredential(t, c) \/ RevokeCredential(t, c) \/ Apply(t, c)
    PROVE  ProfileTypes' /\ ProfileGrows /\ OthersKeep(t)
<1>1. ProfileTypes /\ MaxApprovals \in Nat
  BY ProfileAssumption, ProfileConstants DEF ProfileInv
<1>2. PICK c \in Credentials \cup {NoCredential},
           op \in {"issue", "revoke", "apply", "rebuild", "import"},
           place \in {"credentials", "begin"} : BeginOperation(t, op, c, place)
  BY DEF Rebuild, Import, IssueCredential, RevokeCredential, Apply
<1>3. operation' \in [Operations -> OperationRecords] /\ OthersKeep(t)
  BY <1>1, <1>2, OperationBegins
<1>4. UNCHANGED <<analyses, embedded, approved, profiles, unread>>
  BY DEF Rebuild, Import, IssueCredential, RevokeCredential, Apply
<1>5. status' \in [Credentials -> {"draft", "issued", "revoked"}]
  BY <1>1 DEF Rebuild, Import, IssueCredential, RevokeCredential, Apply, ProfileTypes, ProfileTypeOK
<1>10. \A d \in Credentials : /\ status[d] # "draft" => status'[d] # "draft"
                              /\ status[d] = "revoked" => status'[d] = "revoked"
  BY <1>1 DEF Rebuild, Import, IssueCredential, RevokeCredential, Apply, ProfileTypes, ProfileTypeOK
<1>6. /\ applied' \in [Credentials -> 0..MaxApprovals]
      /\ \A d \in Credentials : applied[d] > 0 => applied'[d] > 0
  BY <1>1 DEF Rebuild, Import, IssueCredential, RevokeCredential, Apply, ProfileTypes, ProfileTypeOK
<1>7. \A u \in Operations : operation'[u].base \in 0..MaxProfiles
  BY <1>3 DEF OperationRecords
<1>8. ProfileTypes'
  <2>1. /\ analyses' \in [Credentials -> 0..MaxAnalyses]
        /\ embedded' \subseteq Credentials \X (1..MaxAnalyses)
        /\ approved' \in 0..MaxApprovals /\ unread' \subseteq Credentials
        /\ profiles' \in Seq(Profiles) /\ Len(profiles') <= MaxProfiles
    BY <1>1, <1>4 DEF ProfileTypes, ProfileTypeOK
  <2> QED
    BY <1>3, <1>5, <1>6, <1>7, <2>1 DEF ProfileTypes, ProfileTypeOK
<1>9. ProfileGrows
  <2>1. \A d \in Credentials : analyses[d] > 0 => analyses'[d] > 0
    BY <1>4
  <2>2. embedded \subseteq embedded'
    BY <1>4
  <2>3. \A i \in DOMAIN profiles :
           i \in DOMAIN profiles' /\ profiles'[i].sources = profiles[i].sources
    BY <1>4
  <2>4. \A d \in Credentials :
          /\ status[d] # "draft" => status'[d] # "draft"
          /\ status[d] = "revoked" => status'[d] = "revoked"
          /\ applied[d] > 0 => applied'[d] > 0
          /\ analyses[d] > 0 => analyses'[d] > 0
    <3> TAKE d \in Credentials
    <3>1. status[d] # "draft" => status'[d] # "draft"
      BY <1>10
    <3>2. status[d] = "revoked" => status'[d] = "revoked"
      BY <1>10
    <3>3. applied[d] > 0 => applied'[d] > 0
      BY <1>6
    <3>4. analyses[d] > 0 => analyses'[d] > 0
      BY <2>1
    <3> QED
      BY <3>1, <3>2, <3>3, <3>4
  <2> QED
    BY <2>2, <2>3, <2>4 DEF ProfileGrows
<1> QED
  BY <1>3, <1>8, <1>9

\* A step that ends an operation, or that moves one, keeps the types.
LEMMA StepTypes ==
    ASSUME ProfileInv, NEW t \in Operations, OperationStep(t)
    PROVE  ProfileTypes' /\ ProfileGrows /\ OthersKeep(t)
<1>0. ProfileTypes
  BY DEF ProfileInv
<1>9. profiles \in Seq(Profiles) /\ Len(profiles) <= MaxProfiles
  BY <1>0 DEF ProfileTypes, ProfileTypeOK
<1>1. ProfileTypes /\ operation[t] \in OperationRecords /\ OperationInv(operation[t])
      /\ DOMAIN profiles = 1..Len(profiles) /\ Len(profiles) \in Nat
      /\ \A i \in DOMAIN profiles : profiles[i] \in Profiles
      /\ profiles \in Seq(Profiles) /\ Len(profiles) <= MaxProfiles
  BY ProfileRows DEF ProfileInv, ProfileTypes, ProfileTypeOK
<1>2. MaxProfiles \in Nat
  BY ProfileAssumption, ProfileConstants
<1>3. operation[t].seen \in Snapshots /\ operation[t].base \in 0..MaxProfiles
  BY <1>1 DEF OperationRecords
<1>4. CASE PersistFails(t) \/ RebuildFails(t) \/ AnswerOperation(t)
  <2>1. OperationEnds(t) /\ RowsKept /\ UNCHANGED profiles
    BY <1>4 DEF PersistFails, RebuildFails, AnswerOperation, RowsKept
  <2>2. operation' \in [Operations -> OperationRecords] /\ OthersKeep(t)
    BY <1>1, <2>1, OperationIsOver
  <2>3. profiles' \in Seq(Profiles) /\ Len(profiles') <= MaxProfiles
    BY <1>9, <2>1
  <2>4. \A i \in DOMAIN profiles :
           i \in DOMAIN profiles' /\ profiles'[i].sources = profiles[i].sources
    BY <2>1
  <2> QED
    BY <1>0, <2>1, <2>2, <2>3, <2>4, RowsKeptGrow
<1>5. CASE ReadCredentials(t) \/ ReadAnalyses(t) \/ ReadInterpretations(t) \/ BeginPersist(t)
  <2>1. /\ RowsKept /\ UNCHANGED profiles
        /\ \E s \in Snapshots, b \in 0..MaxProfiles,
              p \in {"analyses", "interpretations", "begin", "commit"} : Moves(t, s, b, p)
    BY <1>1, <1>3, <1>5, ReadCredentialsEffect, ReadAnalysesEffect, ReadInterpretationsEffect,
       BeginPersistEffect, SnapshotsRead
  <2>2. operation' \in [Operations -> OperationRecords] /\ OthersKeep(t)
    BY <1>1, <2>1, OperationMoves
  <2>3. profiles' \in Seq(Profiles) /\ Len(profiles') <= MaxProfiles
    BY <1>9, <2>1
  <2>4. \A i \in DOMAIN profiles :
           i \in DOMAIN profiles' /\ profiles'[i].sources = profiles[i].sources
    BY <2>1
  <2> QED
    BY <1>0, <2>1, <2>2, <2>3, <2>4, RowsKeptGrow
<1>6. CASE Persist(t)
  <2>1. PICK p \in {"answer", "compose"} : Moves(t, operation[t].seen, Len(profiles) + 1, p)
    BY <1>1, <1>6, PersistEffect
  <2>2. /\ Len(profiles') = Len(profiles) + 1 /\ Len(profiles') <= MaxProfiles
        /\ profiles' \in Seq(Profiles) /\ RowsKept
        /\ \A i \in DOMAIN profiles : /\ i \in DOMAIN profiles'
                                      /\ profiles'[i] = [profiles[i] EXCEPT !.current = FALSE]
    BY <1>1, <1>6, PersistEffect
  <2>3. Len(profiles) + 1 \in 0..MaxProfiles
    BY <1>1, <1>2, <2>2
  <2>4. operation' \in [Operations -> OperationRecords] /\ OthersKeep(t)
    BY <1>1, <1>3, <2>1, <2>3, OperationMoves
  <2>5. \A i \in DOMAIN profiles :
              i \in DOMAIN profiles' /\ profiles'[i].sources = profiles[i].sources
    BY <1>1, <2>2 DEF Profiles
  <2> QED
    BY <1>0, <2>2, <2>4, <2>5, RowsKeptGrow
<1>7. CASE Compose(t)
  <2>1. operation[t].base \in DOMAIN profiles
    BY <1>1, <1>7 DEF Compose, OperationAt, OperationInv, ComposingInv
  <2>2. /\ Moves(t, operation[t].seen, operation[t].base, "answer")
        /\ profiles' \in Seq(Profiles) /\ Len(profiles') = Len(profiles)
        /\ RowsKept /\ DOMAIN profiles' = DOMAIN profiles
        /\ \A i \in DOMAIN profiles :
                 \/ profiles'[i] = profiles[i]
                 \/ profiles'[i] = [profiles[i] EXCEPT !.coverage = Coverage(profiles[i].sources)]
    BY <1>1, <1>7, <2>1, ComposeEffect
  <2>3. operation' \in [Operations -> OperationRecords] /\ OthersKeep(t)
    BY <1>1, <1>3, <2>2, OperationMoves
  <2>4. \A i \in DOMAIN profiles :
              i \in DOMAIN profiles' /\ profiles'[i].sources = profiles[i].sources
    BY <1>1, <2>2 DEF Profiles
  <2>5. Len(profiles') <= MaxProfiles
    <3>1. Len(profiles) <= MaxProfiles
      BY <1>9
    <3>2. Len(profiles') = Len(profiles)
      BY <2>2
    <3> QED
      BY <3>1, <3>2
  <2> QED
    BY <1>0, <2>2, <2>3, <2>4, <2>5, RowsKeptGrow
<1>8. CASE Analyse(t)
  <2>1. \/ OperationEnds(t)
        \/ Moves(t, operation[t].seen, operation[t].base, "credentials")
    BY <1>1, <1>8, AnalyseEffect
  <2>2. operation' \in [Operations -> OperationRecords] /\ OthersKeep(t)
    BY <1>1, <1>3, <2>1, OperationMoves, OperationIsOver
  <2>3. UNCHANGED <<status, applied, approved, profiles, unread>>
    BY <1>8 DEF Analyse
  <2>4. \A u \in Operations : operation'[u].base \in 0..MaxProfiles
    BY <2>2 DEF OperationRecords
  <2>5. CASE UNCHANGED <<analyses, embedded>>
    <3>1. RowsKept
      BY <2>3, <2>5 DEF RowsKept
    <3>2. profiles' \in Seq(Profiles) /\ Len(profiles') <= MaxProfiles
      BY <1>9, <2>3
    <3>3. \A i \in DOMAIN profiles :
             i \in DOMAIN profiles' /\ profiles'[i].sources = profiles[i].sources
      BY <2>3
    <3> QED
      BY <1>0, <2>2, <3>1, <3>2, <3>3, RowsKeptGrow
  <2>6. CASE /\ analyses[operation[t].cred] < MaxAnalyses
             /\ analyses' = [analyses EXCEPT ![operation[t].cred] = @ + 1]
             /\ embedded' \in {embedded,
                    embedded \cup {<<operation[t].cred, analyses[operation[t].cred] + 1>>}}
    <3>1. operation[t].cred \in Credentials
      BY <1>1, <1>8 DEF Analyse, OperationAt, OperationInv, CausedInv
    <3>2. /\ analyses' \in [Credentials -> 0..MaxAnalyses]
          /\ embedded' \subseteq Credentials \X (1..MaxAnalyses) /\ embedded \subseteq embedded'
          /\ analyses'[operation[t].cred] > 0
          /\ \A d \in Credentials : d # operation[t].cred => analyses'[d] = analyses[d]
      BY <1>1, <2>6, <3>1, NewAnalysis
    <3>3. ProfileTypes'
      BY <1>1, <2>2, <2>3, <2>4, <3>2 DEF ProfileTypes, ProfileTypeOK
    <3>4. ProfileGrows
      BY <2>3, <3>2 DEF ProfileGrows
    <3> QED
      BY <2>2, <3>3, <3>4
  <2> QED
    BY <1>1, <1>8, <2>2, <2>5, <2>6, AnalyseEffect
<1> QED
  BY <1>4, <1>5, <1>6, <1>7, <1>8 DEF OperationStep

\* A step of no operation keeps the types and leaves operations and profiles.
LEMMA OtherTypes ==
    ASSUME ProfileInv, ApproveContent \/ \E c \in Credentials : AnalyseDraft(c) \/ AnalyseFromPdf(c)
    PROVE  ProfileTypes' /\ ProfileGrows /\ UNCHANGED <<operation, profiles, status, applied>>
<1>1. ProfileTypes /\ MaxApprovals \in Nat
  BY ProfileAssumption, ProfileConstants DEF ProfileInv
<1>2. CASE ApproveContent
  <2>1. approved' \in 0..MaxApprovals
    BY <1>1, <1>2 DEF ApproveContent, ProfileTypes, ProfileTypeOK
  <2>2. UNCHANGED <<status, analyses, embedded, applied, profiles, operation, unread>>
    BY <1>2 DEF ApproveContent
  <2> QED
    BY <1>1, <2>1, <2>2 DEF ProfileTypes, ProfileTypeOK, ProfileGrows
<1>3. ASSUME NEW c \in Credentials, AnalyseDraft(c) \/ AnalyseFromPdf(c)
      PROVE  ProfileTypes' /\ ProfileGrows /\ UNCHANGED <<operation, profiles, status, applied>>
  <2>1. UNCHANGED <<status, applied, approved, profiles, operation>> /\ unread' = unread \cup {c}
    BY <1>3 DEF AnalyseDraft, AnalyseFromPdf
  <2>2. /\ analyses' \in [Credentials -> 0..MaxAnalyses]
        /\ embedded' \subseteq Credentials \X (1..MaxAnalyses) /\ embedded \subseteq embedded'
        /\ analyses'[c] > 0 /\ \A d \in Credentials : d # c => analyses'[d] = analyses[d]
    BY <1>1, <1>3, NewAnalysis DEF AnalyseDraft, AnalyseFromPdf
  <2> QED
    BY <1>1, <2>1, <2>2 DEF ProfileTypes, ProfileTypeOK, ProfileGrows
<1> QED
  BY <1>2, <1>3
-----------------------------------------------------------------------------
(* What an operation knows.                                                 *)

\* What an operation knows stays true when another one steps.
LEMMA KnowledgeLasts ==
    ASSUME ProfileTypes, ProfileGrows, NEW o \in OperationRecords, OperationInv(o),
           o.at = "compose" => profiles'[o.base].coverage = "absent"
    PROVE  OperationInv(o)'
<1>1. CausedInv(o)'
  BY DEF OperationInv, CausedInv, ProfileGrows
<1>2. ASSUME NEW s, ShowsStatus(o.op, o.cred, s) PROVE ShowsStatus(o.op, o.cred, s)'
  BY <1>2 DEF ShowsStatus, ProfileGrows, OperationInv, CausedInv
<1>3. SeenInv(o)'
  <2>1. SeenInv(o)
    BY DEF OperationInv
  <2>2. ShowsStatus(o.op, o.cred, o.seen) => ShowsStatus(o.op, o.cred, o.seen)'
    BY <1>2
  <2> QED
    BY <2>1, <2>2 DEF SeenInv, ShowsAnalysis, ShowsReviewed
<1>4. ComposingInv(o)'
  <2>1. SUFFICES ASSUME o.at = "compose"
                 PROVE  /\ o.base \in DOMAIN profiles'
                        /\ profiles'[o.base].coverage = "absent"
                        /\ Shows(o.op, o.cred, profiles[o.base].sources)'
    BY DEF ComposingInv
  <2>2. o.base \in DOMAIN profiles /\ Shows(o.op, o.cred, profiles[o.base].sources)
    BY <2>1 DEF OperationInv, ComposingInv
  <2>3. o.base \in DOMAIN profiles' /\ profiles'[o.base].sources = profiles[o.base].sources
    BY <2>2 DEF ProfileGrows
  <2>4. ShowsStatus(o.op, o.cred, profiles[o.base].sources)
           => (ShowsStatus(o.op, o.cred, profiles[o.base].sources))'
    BY <2>3, <1>2 DEF ShowsStatus, ProfileGrows, OperationInv, CausedInv
  <2> QED
    BY <2>1, <2>2, <2>3, <2>4 DEF Shows, ShowsAnalysis, ShowsReviewed
<1> QED
  BY <1>1, <1>3, <1>4 DEF OperationInv

\* An operation that begins holds what its place asks for.
LEMMA BeginKnows ==
    ASSUME ProfileInv, NEW t \in Operations,
           \/ Rebuild(t) \/ Import(t)
           \/ \E c \in Credentials : IssueCredential(t, c) \/ RevokeCredential(t, c) \/ Apply(t, c)
    PROVE  OperationInv(operation[t])' /\ operation'[t].at # "compose"
<1>1. ProfileTypes
  BY DEF ProfileInv
<1>2. ASSUME NEW op \in {"rebuild", "import"}, NEW place \in {"credentials", "begin"},
             BeginOperation(t, op, NoCredential, place)
      PROVE  OperationInv(operation[t])' /\ operation'[t].at # "compose"
  <2>1. operation'[t].op = op /\ operation'[t].at = place
    BY <1>1, <1>2, OperationBegins
  <2> QED
    BY <2>1 DEF OperationInv, CausedInv, SeenInv, ComposingInv, ShowsStatus, ShowsAnalysis,
                ShowsReviewed
<1>3. ASSUME NEW c \in Credentials, NEW op \in {"issue", "revoke", "apply"},
             BeginOperation(t, op, c, "credentials"),
             op = "issue" => status'[c] = "issued", op = "revoke" => status'[c] = "revoked",
             op = "apply" => applied'[c] > 0
      PROVE  OperationInv(operation[t])' /\ operation'[t].at # "compose"
  <2>1. operation'[t].op = op /\ operation'[t].at = "credentials" /\ operation'[t].cred = c
    BY <1>1, <1>3, OperationBegins
  <2> QED
    BY <1>3, <2>1 DEF OperationInv, CausedInv, SeenInv, ComposingInv
<1>4. CASE Rebuild(t) \/ Import(t)
  BY <1>2, <1>4 DEF Rebuild, Import
<1>5. ASSUME NEW c \in Credentials, IssueCredential(t, c) \/ RevokeCredential(t, c) \/ Apply(t, c)
      PROVE  OperationInv(operation[t])' /\ operation'[t].at # "compose"
  <2>1. CASE IssueCredential(t, c)
    <3>1. BeginOperation(t, "issue", c, "credentials") /\ status'[c] = "issued"
      BY <1>1, <2>1 DEF IssueCredential, ProfileTypes, ProfileTypeOK
    <3> QED
      BY <3>1, <1>3
  <2>2. CASE RevokeCredential(t, c)
    <3>1. BeginOperation(t, "revoke", c, "credentials") /\ status'[c] = "revoked"
      BY <1>1, <2>2 DEF RevokeCredential, ProfileTypes, ProfileTypeOK
    <3> QED
      BY <3>1, <1>3
  <2>3. CASE Apply(t, c)
    <3>1. BeginOperation(t, "apply", c, "credentials") /\ applied'[c] > 0
      BY <1>1, <2>3 DEF Apply, ProfileTypes, ProfileTypeOK
    <3> QED
      BY <3>1, <1>3
  <2> QED
    BY <1>5, <2>1, <2>2, <2>3
<1> QED
  BY <1>4, <1>5

\* An operation that ends holds what its place asks for.
LEMMA EndKnows ==
    ASSUME ProfileInv, ProfileGrows, NEW t \in Operations, OperationEnds(t)
    PROVE  OperationInv(operation[t])' /\ operation'[t].at # "compose"
<1>1. ProfileTypes /\ CausedInv(operation[t])
  BY DEF ProfileInv, OperationInv
<1>2. CASE operation[t].op = "issue"
  <2>1. /\ operation'[t].op = "analysis" /\ operation'[t].at = "analyse"
        /\ operation'[t].cred = operation[t].cred
    BY <1>1, <1>2, OperationIsOver
  <2>2. operation[t].cred \in Credentials /\ status'[operation[t].cred] # "draft"
    BY <1>1, <1>2 DEF CausedInv, ProfileGrows
  <2> QED
    BY <2>1, <2>2 DEF OperationInv, CausedInv, SeenInv, ComposingInv
<1>3. CASE operation[t].op # "issue"
  <2>1. operation'[t].op = "none" /\ operation'[t].at = "idle"
    BY <1>1, <1>3, OperationIsOver
  <2> QED
    BY <2>1 DEF OperationInv, CausedInv, SeenInv, ComposingInv
<1> QED
  BY <1>2, <1>3

\* An operation that moves keeps its reason.
LEMMA MoveKnows ==
    ASSUME ProfileInv, ProfileGrows, NEW t \in Operations, NEW s \in Snapshots,
           NEW b \in 0..MaxProfiles,
           NEW place \in {"credentials", "analyses", "interpretations", "begin", "commit",
                          "compose", "answer"},
           Moves(t, s, b, place),
           operation[t].at = "analyse" => analyses'[operation[t].cred] > 0
    PROVE  /\ CausedInv(operation[t])'
           /\ operation'[t].op = operation[t].op /\ operation'[t].cred = operation[t].cred
           /\ operation'[t].seen = s /\ operation'[t].base = b /\ operation'[t].at = place
<1>1. ProfileTypes /\ CausedInv(operation[t])
  BY DEF ProfileInv, OperationInv
<1>2. /\ operation'[t].op = operation[t].op /\ operation'[t].cred = operation[t].cred
      /\ operation'[t].seen = s /\ operation'[t].base = b /\ operation'[t].at = place
  BY <1>1, OperationMoves
<1>3. CausedInv(operation[t])'
  BY <1>1, <1>2 DEF CausedInv, ProfileGrows
<1> QED
  BY <1>2, <1>3
\* Reading the rows in this order, the later reading decides, shows the reason.
LEMMA StepKnows ==
    ASSUME ProfileInv, ProfileGrows, NEW t \in Operations, OperationStep(t)
    PROVE  /\ OperationInv(operation[t])'
           /\ operation'[t].at = "compose" =>
                 /\ Persist(t) /\ operation'[t].base = Len(profiles) + 1
<1> DEFINE o == operation[t]
<1>1. ProfileTypes /\ o \in OperationRecords /\ OperationInv(o)
      /\ DOMAIN profiles = 1..Len(profiles) /\ Len(profiles) \in Nat
  BY ProfileRows DEF ProfileInv
<1>2. MaxProfiles \in Nat
  BY ProfileAssumption, ProfileConstants
<1>3. o.seen \in Snapshots /\ o.base \in 0..MaxProfiles
  BY <1>1 DEF OperationRecords
<1>4. CASE PersistFails(t) \/ RebuildFails(t) \/ AnswerOperation(t)
  <2>1. OperationEnds(t)
    BY <1>4 DEF PersistFails, RebuildFails, AnswerOperation
  <2> QED
    BY <2>1, EndKnows
<1>5. CASE Analyse(t)
  <2>1. CASE OperationEnds(t)
    BY <2>1, EndKnows
  <2>2. CASE /\ Moves(t, o.seen, o.base, "credentials")
             /\ analyses[o.cred] < MaxAnalyses
             /\ analyses' = [analyses EXCEPT ![o.cred] = @ + 1]
             /\ embedded' \in {embedded, embedded \cup {<<o.cred, analyses[o.cred] + 1>>}}
    <3>1. o.cred \in Credentials
      BY <1>1, <1>5 DEF Analyse, OperationAt, OperationInv, CausedInv
    <3>2. analyses'[o.cred] > 0
      BY <1>1, <2>2, <3>1, NewAnalysis
    <3>3. CausedInv(operation[t])' /\ operation'[t].at = "credentials"
      BY <1>3, <2>2, <3>2, MoveKnows
    <3> QED
      BY <3>3 DEF OperationInv, SeenInv, ComposingInv
  <2> QED
    BY <1>1, <1>5, <2>1, <2>2, AnalyseEffect
<1>6. CASE ReadCredentials(t)
  <2>1. PICK s \in Snapshots : s = [c \in {d \in Credentials : Selected(d)} |-> NoSource]
    BY <1>1, SnapshotsRead
  <2>2. Moves(t, s, o.base, "analyses") /\ RowsKept /\ o.at = "credentials"
    BY <1>1, <1>6, <2>1, ReadCredentialsEffect DEF ReadCredentials, OperationAt
  <2>3. /\ CausedInv(operation[t])' /\ operation'[t].op = o.op /\ operation'[t].cred = o.cred
        /\ operation'[t].seen = s /\ operation'[t].at = "analyses"
    BY <1>3, <2>1, <2>2, MoveKnows
  <2>4. \A c \in Credentials : c \in DOMAIN s <=> status[c] = "issued"
    BY <2>1 DEF Selected
  <2>5. \A c \in DOMAIN s : status[c] = "issued"
    BY <2>1 DEF Selected
  <2>6. ShowsStatus(o.op, o.cred, s)
    BY <1>1, <2>4, <2>5 DEF ShowsStatus, OperationInv, CausedInv, ProfileTypes, ProfileTypeOK
  <2>7. ShowsStatus(operation[t].op, operation[t].cred, operation[t].seen)'
    BY <2>2, <2>3, <2>6 DEF ShowsStatus, RowsKept
  <2>8. SeenInv(operation[t])' /\ ComposingInv(operation[t])'
    BY <2>3, <2>7 DEF SeenInv, ComposingInv
  <2> QED
    BY <2>3, <2>8 DEF OperationInv
<1>7. CASE ReadAnalyses(t)
  <2>1. PICK s \in Snapshots : s = [c \in DOMAIN o.seen |-> LatestAnalysis(c)]
    BY <1>1, SnapshotsRead
  <2>2. Moves(t, s, o.base, "interpretations") /\ RowsKept /\ o.at = "analyses"
    BY <1>1, <1>7, <2>1, ReadAnalysesEffect DEF ReadAnalyses, OperationAt
  <2>3. /\ CausedInv(operation[t])' /\ operation'[t].op = o.op /\ operation'[t].cred = o.cred
        /\ operation'[t].seen = s /\ operation'[t].at = "interpretations"
    BY <1>3, <2>1, <2>2, MoveKnows
  <2>4. DOMAIN s = DOMAIN o.seen /\ ShowsStatus(o.op, o.cred, o.seen)
    BY <1>1, <2>1, <2>2 DEF OperationInv, SeenInv
  <2>5. ShowsStatus(operation[t].op, operation[t].cred, operation[t].seen)'
    BY <2>2, <2>3, <2>4 DEF ShowsStatus, RowsKept
  <2>6. ShowsAnalysis(o.op, o.cred, s)
    <3>1. SUFFICES ASSUME o.op = "analysis", o.cred \in DOMAIN s
                   PROVE  s[o.cred].kind # "none"
      BY DEF ShowsAnalysis
    <3>2. analyses[o.cred] > 0
      BY <1>1, <2>2, <3>1 DEF OperationInv, CausedInv
    <3>3. s[o.cred] = LatestAnalysis(o.cred)
      BY <2>1, <3>1
    <3>4. LatestAnalysis(o.cred) = Source("ai", analyses[o.cred])
      BY <3>2 DEF LatestAnalysis
    <3> QED
      BY <3>3, <3>4 DEF Source
  <2>7. ShowsAnalysis(operation[t].op, operation[t].cred, operation[t].seen)'
    BY <2>3, <2>6 DEF ShowsAnalysis
  <2>8. SeenInv(operation[t])' /\ ComposingInv(operation[t])'
    BY <2>3, <2>5, <2>7 DEF SeenInv, ComposingInv
  <2> QED
    BY <2>3, <2>8 DEF OperationInv
<1>8. CASE ReadInterpretations(t)
  <2>1. PICK s \in Snapshots : s = [c \in DOMAIN o.seen |-> Resolved(c, o.seen[c])]
    BY <1>1, SnapshotsRead
  <2>2. Moves(t, s, o.base, "begin") /\ RowsKept /\ o.at = "interpretations"
    BY <1>1, <1>8, <2>1, ReadInterpretationsEffect DEF ReadInterpretations, OperationAt
  <2>3. /\ CausedInv(operation[t])' /\ operation'[t].op = o.op /\ operation'[t].cred = o.cred
        /\ operation'[t].seen = s /\ operation'[t].at = "begin"
    BY <1>3, <2>1, <2>2, MoveKnows
  <2>4. /\ DOMAIN s = DOMAIN o.seen /\ ShowsStatus(o.op, o.cred, o.seen)
        /\ ShowsAnalysis(o.op, o.cred, o.seen)
    BY <1>1, <2>1, <2>2 DEF OperationInv, SeenInv
  <2>5. ShowsStatus(operation[t].op, operation[t].cred, operation[t].seen)'
    BY <2>2, <2>3, <2>4 DEF ShowsStatus, RowsKept
  <2>6. \A c \in DOMAIN s : s[c] = Resolved(c, o.seen[c])
    BY <2>1
  <2>7. ShowsAnalysis(o.op, o.cred, s)
    <3>1. SUFFICES ASSUME o.op = "analysis", o.cred \in DOMAIN s
                   PROVE  s[o.cred].kind # "none"
      BY DEF ShowsAnalysis
    <3>2. o.seen[o.cred].kind # "none"
      BY <2>4, <3>1 DEF ShowsAnalysis
    <3>3. Resolved(o.cred, o.seen[o.cred]) \in {Source("reviewed", applied[o.cred]), o.seen[o.cred]}
      BY DEF Resolved
    <3> QED
      BY <2>6, <3>1, <3>2, <3>3 DEF Source
  <2>8. ShowsReviewed(o.op, o.cred, s)
    <3>1. SUFFICES ASSUME o.op = "apply", o.cred \in DOMAIN s
                   PROVE  s[o.cred].kind = "reviewed"
      BY DEF ShowsReviewed
    <3>2. applied[o.cred] > 0
      BY <1>1, <3>1 DEF OperationInv, CausedInv
    <3>3. s[o.cred] = Source("reviewed", applied[o.cred])
      BY <2>6, <3>1, <3>2 DEF Resolved
    <3> QED
      BY <3>3 DEF Source
  <2>9. /\ ShowsAnalysis(operation[t].op, operation[t].cred, operation[t].seen)'
        /\ ShowsReviewed(operation[t].op, operation[t].cred, operation[t].seen)'
    BY <2>3, <2>7, <2>8 DEF ShowsAnalysis, ShowsReviewed
  <2>10. SeenInv(operation[t])' /\ ComposingInv(operation[t])'
    BY <2>3, <2>5, <2>9 DEF SeenInv, ComposingInv
  <2> QED
    BY <2>3, <2>10 DEF OperationInv
<1>9. CASE BeginPersist(t)
  <2>1. /\ Moves(t, o.seen, Len(profiles), "commit") /\ RowsKept /\ o.at = "begin"
        /\ Len(profiles) \in 0..MaxProfiles
    BY <1>1, <1>9, BeginPersistEffect DEF BeginPersist, OperationAt
  <2>2. /\ CausedInv(operation[t])' /\ operation'[t].op = o.op /\ operation'[t].cred = o.cred
        /\ operation'[t].seen = o.seen /\ operation'[t].at = "commit"
    BY <1>3, <2>1, MoveKnows
  <2>3. Shows(o.op, o.cred, o.seen)
    BY <1>1, <2>1 DEF OperationInv, SeenInv, Shows
  <2>4. Shows(operation[t].op, operation[t].cred, operation[t].seen)'
    BY <2>1, <2>2, <2>3 DEF Shows, ShowsStatus, ShowsAnalysis, ShowsReviewed, RowsKept
  <2>5. SeenInv(operation[t])' /\ ComposingInv(operation[t])'
    BY <2>2, <2>4 DEF SeenInv, ComposingInv, Shows
  <2> QED
    BY <2>2, <2>5 DEF OperationInv
<1>10. CASE Persist(t)
  <2>1. PICK place \in {"answer", "compose"} : Moves(t, o.seen, Len(profiles) + 1, place)
    BY <1>1, <1>10, PersistEffect
  <2>2. /\ RowsKept /\ Len(profiles') = Len(profiles) + 1 /\ Len(profiles') <= MaxProfiles
        /\ DOMAIN profiles' = 1..Len(profiles) + 1
        /\ profiles'[Len(profiles) + 1] =
              [sources |-> o.seen, current |-> TRUE, coverage |-> "absent"]
    BY <1>1, <1>10, PersistEffect
  <2>3. Len(profiles) + 1 \in 0..MaxProfiles /\ Len(profiles) + 1 \in DOMAIN profiles'
    BY <1>1, <1>2, <2>2
  <2>4. o.at = "commit"
    BY <1>10 DEF Persist, OperationAt
  <2>5. /\ CausedInv(operation[t])' /\ operation'[t].op = o.op /\ operation'[t].cred = o.cred
        /\ operation'[t].seen = o.seen /\ operation'[t].at = place
        /\ operation'[t].base = Len(profiles) + 1
    BY <1>3, <2>1, <2>3, <2>4, MoveKnows
  <2>6. Shows(o.op, o.cred, o.seen)
    BY <1>1, <2>4 DEF OperationInv, SeenInv, Shows
  <2>7. profiles'[operation'[t].base].sources = o.seen
        /\ profiles'[operation'[t].base].coverage = "absent"
    BY <2>2, <2>5
  <2>8. Shows(operation[t].op, operation[t].cred, profiles[operation[t].base].sources)'
    BY <2>2, <2>5, <2>6, <2>7 DEF Shows, ShowsStatus, ShowsAnalysis, ShowsReviewed, RowsKept
  <2>9. SeenInv(operation[t])' /\ ComposingInv(operation[t])'
    BY <2>3, <2>5, <2>7, <2>8 DEF SeenInv, ComposingInv
  <2> QED
    BY <1>10, <2>5, <2>9 DEF OperationInv
<1>11. CASE Compose(t)
  <2>1. o.base \in DOMAIN profiles /\ o.at = "compose"
    BY <1>1, <1>11 DEF Compose, OperationAt, OperationInv, ComposingInv
  <2>2. Moves(t, o.seen, o.base, "answer")
    BY <1>1, <1>11, <2>1, ComposeEffect
  <2>3. CausedInv(operation[t])' /\ operation'[t].at = "answer"
    BY <1>3, <2>1, <2>2, MoveKnows
  <2> QED
    BY <2>3 DEF OperationInv, SeenInv, ComposingInv
<1> QED
  BY <1>4, <1>5, <1>6, <1>7, <1>8, <1>9, <1>10, <1>11 DEF OperationStep
-----------------------------------------------------------------------------
(* The rows of the profiles.                                                *)

\* What the composition calls complete has every credential in it.
LEMMA CompleteCoverage ==
    ASSUME NEW s, Coverage(s) = "complete"
    PROVE  /\ s # NoSources
           /\ \A c \in DOMAIN s : s[c].kind = "ai" /\ <<c, s[c].number>> \in embedded
<1>1. PICK whole : whole = {c \in DOMAIN s : Included(c, s[c])}
  OBVIOUS
<1>2. whole # {} /\ whole = DOMAIN s
  BY <1>1 DEF Coverage
<1>3. \A c \in DOMAIN s : Included(c, s[c])
  BY <1>1, <1>2
<1>4. s # NoSources
  BY <1>2, NothingRead
<1> QED
  BY <1>3, <1>4 DEF Included

\* Profiles that are left alone stay whole.
LEMMA RowsStill ==
    ASSUME ProfileInv, ProfileGrows, profiles' = profiles
    PROVE  OneCurrentProfile' /\ CoverageIsOfTheSnapshot'
<1>1. OneCurrentProfile'
  BY DEF ProfileInv, OneCurrentProfile, CurrentProfiles
<1>2. CoverageIsOfTheSnapshot'
  BY DEF ProfileInv, CoverageIsOfTheSnapshot, ProfileGrows
<1> QED
  BY <1>1, <1>2

\* The row that is created is the only current one.
LEMMA PersistRows ==
    ASSUME ProfileInv, ProfileGrows, NEW t \in Operations, Persist(t)
    PROVE  /\ OneCurrentProfile' /\ CoverageIsOfTheSnapshot'
           /\ \A i \in DOMAIN profiles :
                 ~profiles'[i].current /\ profiles'[i].coverage = profiles[i].coverage
<1>1. ProfileTypes /\ DOMAIN profiles = 1..Len(profiles) /\ Len(profiles) \in Nat
      /\ \A i \in DOMAIN profiles : profiles[i] \in Profiles
  BY ProfileRows DEF ProfileInv
<1>2. PICK n : n = Len(profiles) + 1
  OBVIOUS
<1>3. /\ profiles' \in Seq(Profiles) /\ Len(profiles') = n /\ DOMAIN profiles' = 1..n
      /\ profiles'[n] = [sources |-> operation[t].seen, current |-> TRUE, coverage |-> "absent"]
      /\ \A i \in DOMAIN profiles : /\ i \in DOMAIN profiles'
                                    /\ profiles'[i] = [profiles[i] EXCEPT !.current = FALSE]
      /\ RowsKept
  BY <1>1, <1>2, PersistEffect
<1>4. \A i \in DOMAIN profiles' : i = n \/ i \in DOMAIN profiles
  BY <1>1, <1>2, <1>3
<1>5. n \in DOMAIN profiles' /\ profiles'[n].current /\ profiles'[n].coverage = "absent"
  BY <1>1, <1>2, <1>3
<1>6. \A i \in DOMAIN profiles :
         /\ ~profiles'[i].current /\ profiles'[i].coverage = profiles[i].coverage
         /\ profiles'[i].sources = profiles[i].sources
  BY <1>1, <1>3 DEF Profiles
<1>7. CurrentProfiles' = {n}
  BY <1>4, <1>5, <1>6 DEF CurrentProfiles
<1>8. OneCurrentProfile'
  BY <1>3, <1>7 DEF OneCurrentProfile
<1>9. CoverageIsOfTheSnapshot'
  <2>1. CoverageIsOfTheSnapshot
    BY DEF ProfileInv
  <2>2. SUFFICES ASSUME NEW i \in DOMAIN profiles', profiles'[i].coverage = "complete"
                 PROVE  /\ profiles'[i].sources # NoSources
                        /\ \A c \in DOMAIN profiles'[i].sources :
                              /\ profiles'[i].sources[c].kind = "ai"
                              /\ <<c, profiles'[i].sources[c].number>> \in embedded'
    BY DEF CoverageIsOfTheSnapshot
  <2>3. i \in DOMAIN profiles /\ profiles[i].coverage = "complete"
        /\ profiles'[i].sources = profiles[i].sources
    BY <1>4, <1>5, <1>6, <2>2
  <2> QED
    BY <1>3, <2>1, <2>3 DEF CoverageIsOfTheSnapshot, RowsKept
<1> QED
  BY <1>6, <1>8, <1>9

\* The composition writes the coverage of its own row, once.
LEMMA ComposeRows ==
    ASSUME ProfileInv, ProfileGrows, NEW t \in Operations, Compose(t)
    PROVE  /\ OneCurrentProfile' /\ CoverageIsOfTheSnapshot'
           /\ operation[t].base \in DOMAIN profiles
           /\ profiles[operation[t].base].coverage = "absent"
           /\ \A i \in DOMAIN profiles :
                 /\ profiles'[i].current = profiles[i].current
                 /\ i # operation[t].base => profiles'[i].coverage = profiles[i].coverage
<1>1. ProfileTypes /\ DOMAIN profiles = 1..Len(profiles) /\ Len(profiles) \in Nat
      /\ \A i \in DOMAIN profiles : profiles[i] \in Profiles
  BY ProfileRows DEF ProfileInv
<1>2. operation[t].base \in DOMAIN profiles /\ profiles[operation[t].base].coverage = "absent"
  BY DEF ProfileInv, Compose, OperationAt, OperationInv, ComposingInv
<1>3. /\ profiles' \in Seq(Profiles) /\ Len(profiles') = Len(profiles)
      /\ DOMAIN profiles' = DOMAIN profiles
      /\ \A i \in DOMAIN profiles :
                 \/ profiles'[i] = profiles[i]
                 \/ /\ i = operation[t].base
                    /\ profiles'[i] = [profiles[i] EXCEPT !.coverage = Coverage(profiles[i].sources)]
      /\ RowsKept
  BY <1>1, <1>2, ComposeEffect
<1>4. \A i \in DOMAIN profiles :
         /\ profiles'[i].current = profiles[i].current
         /\ profiles'[i].sources = profiles[i].sources
         /\ i # operation[t].base => profiles'[i].coverage = profiles[i].coverage
         /\ \/ profiles'[i].coverage = profiles[i].coverage
            \/ profiles'[i].coverage = Coverage(profiles[i].sources)
  BY <1>1, <1>3 DEF Profiles
<1>5. CurrentProfiles' = CurrentProfiles
  BY <1>3, <1>4 DEF CurrentProfiles
<1>6. OneCurrentProfile'
  <2>1. profiles' # << >> => profiles # << >>
    BY <1>2
  <2> QED
    BY <1>3, <1>5, <2>1 DEF ProfileInv, OneCurrentProfile
<1>7. CoverageIsOfTheSnapshot'
  <2>1. CoverageIsOfTheSnapshot
    BY DEF ProfileInv
  <2>2. SUFFICES ASSUME NEW i \in DOMAIN profiles', profiles'[i].coverage = "complete"
                 PROVE  /\ profiles'[i].sources # NoSources
                        /\ \A c \in DOMAIN profiles'[i].sources :
                              /\ profiles'[i].sources[c].kind = "ai"
                              /\ <<c, profiles'[i].sources[c].number>> \in embedded'
    BY DEF CoverageIsOfTheSnapshot
  <2>3. i \in DOMAIN profiles /\ profiles'[i].sources = profiles[i].sources
    BY <1>3, <1>4
  <2>4. CASE profiles[i].coverage = "complete"
    BY <1>3, <2>1, <2>3, <2>4 DEF CoverageIsOfTheSnapshot, RowsKept
  <2>5. CASE Coverage(profiles[i].sources) = "complete"
    BY <1>3, <2>3, <2>5, CompleteCoverage DEF RowsKept
  <2> QED
    BY <1>4, <2>2, <2>3, <2>4, <2>5
<1> QED
  BY <1>2, <1>4, <1>6, <1>7

-----------------------------------------------------------------------------
(* The inductive invariant.                                                 *)

\* The invariant holds at the start.
LEMMA ProfileStarts ==
    ASSUME ProfileInit
    PROVE  ProfileInv
<1>1. MaxProfiles \in Nat /\ MaxAnalyses \in Nat /\ MaxApprovals \in Nat
  BY ProfileAssumption, ProfileConstants
<1>2. NoOperation \in OperationRecords
  <2>1. 0 \in 0..MaxProfiles
    BY <1>1
  <2> QED
    BY <2>1, NothingRead DEF NoOperation, OperationRecords
<1>3. profiles = << >> /\ DOMAIN profiles = {} /\ profiles \in Seq(Profiles) /\ Len(profiles) = 0
  BY EmptySeq DEF ProfileInit
<1>4. \A t \in Operations : operation[t] = NoOperation
  BY DEF ProfileInit
<1>5. \A t \in Operations : operation[t].base \in 0..MaxProfiles
  BY <1>2, <1>4 DEF OperationRecords
<1>6. ProfileTypes
  BY <1>1, <1>2, <1>3, <1>5 DEF ProfileInit, ProfileTypes, ProfileTypeOK
<1>7. OneCurrentProfile /\ CoverageIsOfTheSnapshot
  BY <1>3 DEF OneCurrentProfile, CoverageIsOfTheSnapshot
<1>8. \A t \in Operations : OperationInv(operation[t])
  BY <1>4 DEF NoOperation, OperationInv, CausedInv, SeenInv, ComposingInv
<1>9. ComposersApart
  BY <1>4 DEF NoOperation, ComposersApart, OperationAt
<1> QED
  BY <1>6, <1>7, <1>8, <1>9 DEF ProfileInv

\* The operations after a step of one of them.
LEMMA OneSteps ==
    ASSUME ProfileInv, ProfileTypes', ProfileGrows, NEW t \in Operations, OthersKeep(t),
           OperationInv(operation[t])',
           operation'[t].at = "compose" => operation'[t].base = Len(profiles) + 1,
           \A u \in Operations : u # t /\ OperationAt(u, "compose") =>
              profiles'[operation[u].base].coverage = "absent"
    PROVE  (\A u \in Operations : OperationInv(operation[u]))' /\ ComposersApart'
<1>1. ProfileTypes /\ DOMAIN profiles = 1..Len(profiles) /\ Len(profiles) \in Nat
      /\ \A u \in Operations : operation[u] \in OperationRecords
  BY ProfileRows DEF ProfileInv
<1>2. ASSUME NEW u \in Operations PROVE OperationInv(operation[u])'
  <2>1. CASE u # t
    <3>1. PICK o \in OperationRecords : o = operation[u]
      BY <1>1
    <3>2. OperationInv(o) /\ (o.at = "compose" => profiles'[o.base].coverage = "absent")
      BY <2>1, <3>1 DEF ProfileInv, OperationAt
    <3>3. OperationInv(o)'
      BY <1>1, <3>2, KnowledgeLasts
    <3>4. operation'[u] = o
      BY <2>1, <3>1 DEF OthersKeep
    <3> QED
      BY <3>3, <3>4
  <2> QED
    BY <2>1
<1>3. ASSUME NEW u \in Operations, OperationAt(u, "compose")
      PROVE  operation[u].base # Len(profiles) + 1
  BY <1>1, <1>3 DEF ProfileInv, OperationInv, ComposingInv, OperationAt
<1>4. ComposersApart'
  BY <1>3 DEF ProfileInv, ComposersApart, OperationAt, OthersKeep
<1> QED
  BY <1>2, <1>4

\* Every step keeps the invariant.
LEMMA ProfileNextInv ==
    ASSUME ProfileInv, [ProfileNext]_profileVars
    PROVE  ProfileInv' /\ (ProfileNext => ProfileGrows)
<1>1. CASE UNCHANGED profileVars
  <2>1. ProfileGrows
    BY <1>1 DEF profileVars, ProfileGrows
  <2>2. ProfileInv'
    BY <1>1 DEF profileVars, ProfileInv, ProfileTypes, ProfileTypeOK, OneCurrentProfile, CurrentProfiles,
         OperationInv, CausedInv, SeenInv, ComposingInv, ComposersApart, OperationAt,
         CoverageIsOfTheSnapshot, Shows, ShowsStatus, ShowsAnalysis, ShowsReviewed
  <2> QED
    BY <2>1, <2>2
<1>2. CASE ApproveContent \/ \E c \in Credentials : AnalyseDraft(c) \/ AnalyseFromPdf(c)
  <2>1. ProfileTypes' /\ ProfileGrows /\ UNCHANGED <<operation, profiles, status, applied>>
    BY <1>2, OtherTypes
  <2>2. OneCurrentProfile' /\ CoverageIsOfTheSnapshot'
    BY <2>1, RowsStill
  <2>3. ComposersApart'
    BY <2>1 DEF ProfileInv, ComposersApart, OperationAt
  <2>4. ASSUME NEW u \in Operations PROVE OperationInv(operation[u])'
    <3>1. PICK o \in OperationRecords : o = operation[u]
      BY ProfileRows DEF ProfileInv
    <3>2. OperationInv(o) /\ (o.at = "compose" => profiles'[o.base].coverage = "absent")
      BY <2>1, <3>1 DEF ProfileInv, OperationInv, ComposingInv
    <3>3. OperationInv(o)'
      BY <2>1, <3>2, KnowledgeLasts DEF ProfileInv
    <3> QED
      BY <2>1, <3>1, <3>3
  <2> QED
    BY <2>1, <2>2, <2>3, <2>4 DEF ProfileInv
<1>3. ASSUME NEW t \in Operations,
             \/ Rebuild(t) \/ Import(t)
             \/ \E c \in Credentials : IssueCredential(t, c) \/ RevokeCredential(t, c) \/ Apply(t, c)
      PROVE  ProfileInv' /\ ProfileGrows
  <2>1. ProfileTypes' /\ ProfileGrows /\ OthersKeep(t)
    BY <1>3, BeginTypes
  <2>2. OperationInv(operation[t])' /\ operation'[t].at # "compose"
    BY <1>3, BeginKnows
  <2>3. profiles' = profiles
    BY <1>3 DEF Rebuild, Import, IssueCredential, RevokeCredential, Apply
  <2>4. \A u \in Operations : OperationAt(u, "compose") =>
           profiles'[operation[u].base].coverage = "absent"
    BY <2>3 DEF ProfileInv, OperationInv, ComposingInv, OperationAt
  <2>5. (\A u \in Operations : OperationInv(operation[u]))' /\ ComposersApart'
    BY <2>1, <2>2, <2>4, OneSteps
  <2>6. OneCurrentProfile' /\ CoverageIsOfTheSnapshot'
    BY <2>1, <2>3, RowsStill
  <2> QED
    BY <2>1, <2>5, <2>6 DEF ProfileInv
<1>4. ASSUME NEW t \in Operations, OperationStep(t)
      PROVE  ProfileInv' /\ ProfileGrows
  <2>1. ProfileTypes' /\ ProfileGrows /\ OthersKeep(t)
    BY <1>4, StepTypes
  <2>2. /\ OperationInv(operation[t])'
        /\ operation'[t].at = "compose" => operation'[t].base = Len(profiles) + 1
    BY <1>4, <2>1, StepKnows
  <2>3. \A u \in Operations : OperationAt(u, "compose") =>
           operation[u].base \in DOMAIN profiles /\ profiles[operation[u].base].coverage = "absent"
    BY DEF ProfileInv, OperationInv, ComposingInv, OperationAt
  <2>4. /\ OneCurrentProfile' /\ CoverageIsOfTheSnapshot'
        /\ \A u \in Operations : u # t /\ OperationAt(u, "compose") =>
              profiles'[operation[u].base].coverage = "absent"
    <3>1. CASE Persist(t)
      BY <2>1, <2>3, <3>1, PersistRows
    <3>2. CASE Compose(t)
      <4>1. \A u \in Operations : u # t /\ OperationAt(u, "compose") =>
               operation[u].base # operation[t].base
        BY <3>2 DEF ProfileInv, ComposersApart, Compose
      <4> QED
        BY <2>1, <2>3, <3>2, <4>1, ComposeRows
    <3>3. CASE ~Persist(t) /\ ~Compose(t)
      <4>1. profiles' = profiles
        BY <1>4, <3>3 DEF OperationStep, Analyse, ReadCredentials, ReadAnalyses, ReadInterpretations,
             BeginPersist, PersistFails, RebuildFails, AnswerOperation
      <4> QED
        BY <2>1, <2>3, <4>1, RowsStill
    <3> QED
      BY <3>1, <3>2, <3>3
  <2>5. (\A u \in Operations : OperationInv(operation[u]))' /\ ComposersApart'
    BY <2>1, <2>2, <2>4, OneSteps
  <2> QED
    BY <2>1, <2>4, <2>5 DEF ProfileInv
<1> QED
  BY <1>1, <1>2, <1>3, <1>4 DEF ProfileNext
\* No step rewrites a profile.
LEMMA ProfileNextKeeps ==
    ASSUME ProfileInv, [ProfileNext]_profileVars
    PROVE  \A i \in DOMAIN profiles :
              /\ i \in DOMAIN profiles'
              /\ profiles'[i].sources = profiles[i].sources
              /\ profiles[i].coverage # "absent" => profiles'[i].coverage = profiles[i].coverage
              /\ profiles'[i].current => profiles[i].current
<1>1. CASE profiles' = profiles
  BY <1>1
<1>2. CASE profiles' # profiles
  <2>1. ProfileNext
    BY <1>2 DEF profileVars
  <2>2. ProfileGrows
    BY <2>1, ProfileNextInv
  <2>3. PICK t \in Operations : Persist(t) \/ Compose(t)
    BY <1>2, <2>1 DEF ProfileNext, OperationStep, ApproveContent, AnalyseDraft, AnalyseFromPdf, Rebuild, Import,
         IssueCredential, RevokeCredential, Apply, Analyse, ReadCredentials, ReadAnalyses,
         ReadInterpretations, BeginPersist, PersistFails, RebuildFails, AnswerOperation
  <2>4. CASE Persist(t)
    BY <2>2, <2>4, PersistRows DEF ProfileGrows
  <2>5. CASE Compose(t)
    BY <2>2, <2>5, ComposeRows DEF ProfileGrows
  <2> QED
    BY <2>3, <2>4, <2>5
<1> QED
  BY <1>1, <1>2

-----------------------------------------------------------------------------
(* One operation after the other.                                           *)

Issued == {d \in Credentials : status[d] = "issued"}

\* Sources that are the truth but for what no rebuild has read.
Tells(s) ==
    /\ DOMAIN s = Issued
    /\ \A c \in Issued : c \notin unread \/ applied[c] > 0 => s[c] = Truth[c]

Told == profiles # << >> /\ Tells(profiles[Len(profiles)].sources)
ToldAtRest == IF profiles = << >> THEN Issued = {} ELSE Tells(profiles[Len(profiles)].sources)

\* How far the one operation is on its way to the truth.
SerialInv(o) ==
    /\ o.at \in {"idle", "analyse"} => ToldAtRest
    /\ o.at \in {"analyses", "interpretations"} => DOMAIN o.seen = Issued
    /\ o.at = "interpretations" => 
          \A c \in Issued : c \notin unread => o.seen[c] = LatestAnalysis(c)
    /\ o.at \in {"begin", "commit"} => Tells(o.seen)
    /\ o.at = "commit" => o.base = Len(profiles)
    /\ o.at \in {"compose", "answer"} => Told

SerialProfileInv == OneAfterTheOther => \A t \in Operations : SerialInv(operation[t])

\* The truth, one credential at a time.
LEMMA TruthIs ==
    /\ DOMAIN Truth = Issued
    /\ \A c \in Issued : Truth[c] = IF applied[c] > 0 THEN Source("reviewed", applied[c])
                                                       ELSE LatestAnalysis(c)
<1>1. Truth = [c \in Issued |-> IF applied[c] > 0 THEN Source("reviewed", applied[c])
                                                  ELSE LatestAnalysis(c)]
  BY DEF Truth, Issued
<1> QED
  BY <1>1

\* The same in the next state, whose definitions the provers do not relate.
LEMMA TruthIsNext ==
    /\ DOMAIN Truth' = Issued'
    /\ \A c \in Issued' : Truth'[c] = IF applied'[c] > 0 THEN Source("reviewed", applied'[c])
                                                          ELSE LatestAnalysis(c)'
<1>1. Truth' = [c \in Issued' |-> IF applied'[c] > 0 THEN Source("reviewed", applied'[c])
                                                     ELSE LatestAnalysis(c)']
  BY DEF Truth, Issued
<1> QED
  BY <1>1

\* What is true of the sources changes only with them: an analysis that no
\* rebuild follows changes the truth of what it leaves unread.
LEMMA TruthSame ==
    ASSUME status' = status, applied' = applied, unread \subseteq unread',
           \A c \in Issued : c \notin unread' => analyses'[c] = analyses[c]
    PROVE  /\ Issued' = Issued
           /\ \A c \in Issued : c \notin unread' => LatestAnalysis(c)' = LatestAnalysis(c)
           /\ \A s : Tells(s) => Tells(s)'
<1>1. Issued' = Issued
  BY DEF Issued
<1>2. \A c \in Issued : c \notin unread' => LatestAnalysis(c)' = LatestAnalysis(c)
  BY DEF LatestAnalysis
<1>3. \A c \in Issued : c \notin unread' \/ applied[c] > 0 => Truth'[c] = Truth[c]
  BY <1>1, <1>2, TruthIs, TruthIsNext
<1>4. ASSUME NEW s, Tells(s) PROVE Tells(s)'
  BY <1>1, <1>3, <1>4 DEF Tells
<1> QED
  BY <1>1, <1>2, <1>4

\* The rows a rebuild reads one after the other make the truth.
LEMMA TruthRead ==
    ASSUME NEW s, DOMAIN s = Issued,
           \A c \in Issued : c \notin unread => s[c] = LatestAnalysis(c)
    PROVE  Tells([c \in DOMAIN s |-> Resolved(c, s[c])])
<1>1. \A c \in Issued : c \notin unread \/ applied[c] > 0 => Resolved(c, s[c]) = Truth[c]
  BY TruthIs DEF Resolved
<1> QED
  BY <1>1 DEF Tells

\* Without overlap or failure, each step of the operation keeps its snapshot true.
LEMMA SerialStep ==
    ASSUME ProfileInv, SerialProfileInv, OneAfterTheOther, NEW t \in Operations, OperationStep(t)
    PROVE  SerialInv(operation[t])'
<1> DEFINE o == operation[t]
<1>1. ProfileTypes /\ o \in OperationRecords /\ OperationInv(o) /\ SerialInv(o)
      /\ DOMAIN profiles = 1..Len(profiles) /\ Len(profiles) \in Nat
      /\ \A i \in DOMAIN profiles : profiles[i] \in Profiles
  BY ProfileRows DEF ProfileInv, SerialProfileInv
<1>2. MaxProfiles \in Nat /\ o.seen \in Snapshots /\ o.base \in 0..MaxProfiles
  BY <1>1, ProfileAssumption, ProfileConstants DEF OperationRecords
<1>3. RowsKept /\ unread' = unread =>
         /\ Issued' = Issued
         /\ \A c \in Issued : c \notin unread => LatestAnalysis(c)' = LatestAnalysis(c)
         /\ \A s : Tells(s) => Tells(s)'
  BY TruthSame DEF RowsKept
<1>4. CASE AnswerOperation(t)
  <2>1. /\ OperationEnds(t) /\ RowsKept /\ unread' = unread
        /\ profiles' = profiles /\ o.at = "answer"
    BY <1>4 DEF AnswerOperation, RowsKept, OperationAt
  <2>2. operation'[t].at \in {"idle", "analyse"}
    BY <1>1, <2>1, OperationIsOver
  <2>3. PICK s : s = profiles[Len(profiles)].sources
    OBVIOUS
  <2>4. profiles # << >> /\ Tells(s)
    BY <1>1, <2>1, <2>3 DEF SerialInv, Told
  <2>5. Tells(s)'
    BY <1>3, <2>1, <2>4
  <2>6. ToldAtRest'
    BY <2>1, <2>3, <2>4, <2>5 DEF ToldAtRest, Tells
  <2> QED
    BY <2>2, <2>6 DEF SerialInv
<1>5. CASE PersistFails(t) \/ RebuildFails(t)
  BY <1>1, <1>5 DEF PersistFails, RebuildFails, Serializable, OperationAt, SerialInv, OneAfterTheOther
<1>6. CASE Analyse(t)
  <2>1. o.at = "analyse" /\ UNCHANGED <<status, applied, profiles, unread>>
    BY <1>6 DEF Analyse, OperationAt
  <2>2. CASE OperationEnds(t) /\ UNCHANGED <<analyses, embedded>>
    <3>1. o.op = "analysis"
      BY <1>1, <2>1 DEF OperationInv, CausedInv
    <3>2. operation'[t].at = "idle"
      BY <1>1, <2>2, <3>1, OperationIsOver
    <3>3. Issued' = Issued /\ \A s : Tells(s) => Tells(s)'
      BY <2>1, <2>2, TruthSame
    <3>4. PICK s : s = profiles[Len(profiles)].sources
      OBVIOUS
    <3>5. IF profiles = << >> THEN Issued = {} ELSE Tells(s)
      BY <1>1, <2>1, <3>4 DEF SerialInv, ToldAtRest
    <3>6. IF profiles = << >> THEN Issued' = {} ELSE Tells(s)'
      BY <3>3, <3>5
    <3>7. ToldAtRest'
      BY <2>1, <3>4, <3>6 DEF ToldAtRest, Tells
    <3> QED
      BY <3>2, <3>7 DEF SerialInv
  <2>3. CASE Moves(t, o.seen, o.base, "credentials")
    <3>1. operation'[t].at = "credentials"
      BY <1>1, <1>2, <2>3, OperationMoves
    <3> QED
      BY <3>1 DEF SerialInv
  <2> QED
    BY <1>1, <1>6, <2>2, <2>3, AnalyseEffect
<1>7. CASE ReadCredentials(t)
  <2>1. PICK s \in Snapshots : s = [c \in {d \in Credentials : Selected(d)} |-> NoSource]
    BY <1>1, SnapshotsRead
  <2>2. Moves(t, s, o.base, "analyses") /\ RowsKept /\ unread' = unread
    BY <1>1, <1>7, <2>1, ReadCredentialsEffect DEF ReadCredentials
  <2>3. operation'[t].seen = s /\ operation'[t].at = "analyses"
    BY <1>1, <1>2, <2>2, OperationMoves
  <2>4. DOMAIN s = Issued
    BY <2>1 DEF Selected, Issued
  <2> QED
    BY <1>3, <2>2, <2>3, <2>4 DEF SerialInv
<1>8. CASE ReadAnalyses(t)
  <2>1. PICK s \in Snapshots : s = [c \in DOMAIN o.seen |-> LatestAnalysis(c)]
    BY <1>1, SnapshotsRead
  <2>2. Moves(t, s, o.base, "interpretations") /\ RowsKept /\ o.at = "analyses"
    BY <1>1, <1>8, <2>1, ReadAnalysesEffect DEF ReadAnalyses, OperationAt
  <2>3. operation'[t].seen = s /\ operation'[t].at = "interpretations"
    BY <1>1, <1>2, <2>2, OperationMoves
  <2>4. DOMAIN s = Issued /\ \A c \in Issued : s[c] = LatestAnalysis(c)
    BY <1>1, <2>1, <2>2 DEF SerialInv
  <2>5. Issued' = Issued /\ \A c \in Issued : LatestAnalysis(c)' = LatestAnalysis(c)
    BY <2>2 DEF RowsKept, Issued, LatestAnalysis
  <2> QED
    BY <2>3, <2>4, <2>5 DEF SerialInv
<1>9. CASE ReadInterpretations(t)
  <2>1. PICK s \in Snapshots : s = [c \in DOMAIN o.seen |-> Resolved(c, o.seen[c])]
    BY <1>1, SnapshotsRead
  <2>2. /\ Moves(t, s, o.base, "begin") /\ RowsKept /\ unread' = unread
        /\ o.at = "interpretations"
    BY <1>1, <1>9, <2>1, ReadInterpretationsEffect DEF ReadInterpretations, OperationAt
  <2>3. operation'[t].seen = s /\ operation'[t].at = "begin"
    BY <1>1, <1>2, <2>2, OperationMoves
  <2>4. Tells(s)
    BY <1>1, <2>1, <2>2, TruthRead DEF SerialInv
  <2>5. Tells(s)'
    BY <1>3, <2>2, <2>4
  <2> QED
    BY <2>3, <2>5 DEF SerialInv, Tells
<1>10. CASE BeginPersist(t)
  <2>1. /\ Moves(t, o.seen, Len(profiles), "commit") /\ RowsKept /\ o.at = "begin"
        /\ Len(profiles) \in 0..MaxProfiles /\ UNCHANGED <<profiles, unread>>
    BY <1>1, <1>10, BeginPersistEffect DEF BeginPersist, OperationAt
  <2>2. operation'[t].seen = o.seen /\ operation'[t].at = "commit"
        /\ operation'[t].base = Len(profiles)
    BY <1>1, <1>2, <2>1, OperationMoves
  <2>3. PICK s : s = o.seen
    OBVIOUS
  <2>4. Tells(s)'
    BY <1>1, <1>3, <2>1, <2>3 DEF SerialInv
  <2> QED
    BY <2>1, <2>2, <2>3, <2>4 DEF SerialInv, Tells
<1>11. CASE Persist(t)
  <2>1. PICK place \in {"answer", "compose"} : Moves(t, o.seen, Len(profiles) + 1, place)
    BY <1>1, <1>11, PersistEffect
  <2>2. /\ RowsKept /\ Len(profiles') = Len(profiles) + 1 /\ Len(profiles') <= MaxProfiles
        /\ profiles'[Len(profiles) + 1] =
              [sources |-> o.seen, current |-> TRUE, coverage |-> "absent"]
        /\ profiles' \in Seq(Profiles)
    BY <1>1, <1>11, PersistEffect
  <2>3. Len(profiles) + 1 \in 0..MaxProfiles /\ Len(profiles') # 0
    BY <1>1, <1>2, <2>2
  <2>4. operation'[t].at = place
    BY <1>1, <1>2, <2>1, <2>3, OperationMoves
  <2>5. PICK s : s = o.seen
    OBVIOUS
  <2>6. profiles' # << >>
    BY <2>2, <2>3, EmptySeq
  <2>8. Tells(s) /\ unread' = unread
    BY <1>1, <1>11, <2>5 DEF Persist, OperationAt, SerialInv
  <2>9. Tells(s)'
    BY <1>3, <2>2, <2>8
  <2>10. profiles'[Len(profiles')].sources = s
    BY <2>2, <2>5
  <2>7. Told'
    BY <2>6, <2>9, <2>10 DEF Told, Tells
  <2> QED
    BY <2>1, <2>4, <2>7 DEF SerialInv
<1>12. CASE Compose(t)
  <2>1. o.base \in DOMAIN profiles /\ o.at = "compose"
    BY <1>1, <1>12 DEF Compose, OperationAt, OperationInv, ComposingInv
  <2>2. /\ Moves(t, o.seen, o.base, "answer") /\ RowsKept
        /\ profiles' \in Seq(Profiles) /\ Len(profiles') = Len(profiles)
        /\ \A i \in DOMAIN profiles :
                 \/ profiles'[i] = profiles[i]
                 \/ profiles'[i] = [profiles[i] EXCEPT !.coverage = Coverage(profiles[i].sources)]
    BY <1>1, <1>12, <2>1, ComposeEffect
  <2>3. operation'[t].at = "answer"
    BY <1>1, <1>2, <2>2, OperationMoves
  <2>4. Len(profiles) \in DOMAIN profiles
    BY <1>1, <2>1
  <2>5. profiles'[Len(profiles)].sources = profiles[Len(profiles)].sources
    BY <1>1, <2>2, <2>4 DEF Profiles
  <2>6. Len(profiles') # 0
    BY <1>1, <2>2, <2>4
  <2>7. profiles' # << >>
    BY <2>2, <2>6, EmptySeq
  <2>9. PICK s : s = profiles[Len(profiles)].sources
    OBVIOUS
  <2>10. Tells(s) /\ unread' = unread
    BY <1>1, <1>12, <2>1, <2>9 DEF SerialInv, Told, Compose
  <2>11. Tells(s)'
    BY <1>3, <2>2, <2>10
  <2>12. profiles'[Len(profiles')].sources = s
    BY <2>2, <2>5, <2>9
  <2>8. Told'
    BY <2>7, <2>11, <2>12 DEF Told, Tells
  <2> QED
    BY <2>3, <2>8 DEF SerialInv
<1> QED
  BY <1>4, <1>5, <1>6, <1>7, <1>8, <1>9, <1>10, <1>11, <1>12 DEF OperationStep

\* An operation that begins alone knows the newest profile is of its sources.
LEMMA SerialBegins ==
    ASSUME ProfileInv, OneAfterTheOther, NEW t \in Operations,
           \/ Rebuild(t) \/ Import(t)
           \/ \E c \in Credentials : IssueCredential(t, c) \/ RevokeCredential(t, c) \/ Apply(t, c)
    PROVE  SerialInv(operation[t])'
<1>1. PICK c \in Credentials \cup {NoCredential},
           op \in {"issue", "revoke", "apply", "rebuild", "import"} :
              BeginOperation(t, op, c, "credentials")
  BY DEF Rebuild, Import, IssueCredential, RevokeCredential, Apply, OneAfterTheOther
<1>2. operation'[t].at = "credentials"
  BY <1>1, OperationBegins DEF ProfileInv
<1> QED
  BY <1>2 DEF SerialInv

\* What a step of no operation leaves of the one that is on its way.
LEMMA SerialStill ==
    ASSUME NEW u \in Operations, SerialInv(operation[u]),
           UNCHANGED <<operation, profiles, status, applied>>, unread \subseteq unread',
           \A c \in Issued : c \notin unread' => analyses'[c] = analyses[c]
    PROVE  SerialInv(operation[u])'
<1>1. PICK o : o = operation[u]
  OBVIOUS
<1>2. PICK s : s = profiles[Len(profiles)].sources
  OBVIOUS
<1>3. /\ Issued' = Issued
      /\ \A c \in Issued : c \notin unread' => LatestAnalysis(c)' = LatestAnalysis(c)
      /\ (Tells(s) => Tells(s)') /\ (Tells(o.seen) => Tells(o.seen)')
  BY TruthSame
<1>4. ToldAtRest => ToldAtRest'
  BY <1>2, <1>3 DEF ToldAtRest, Tells
<1>5. Told => Told'
  BY <1>2, <1>3 DEF Told, Tells
<1>6. operation'[u] = o
  BY <1>1
<1>7. SerialInv(o)'
  BY <1>1, <1>3, <1>4, <1>5 DEF SerialInv
<1> QED
  BY <1>6, <1>7 DEF SerialInv, Tells

\* Every step keeps the profile true of the sources when operations do not overlap.
LEMMA SerialNext ==
    ASSUME ProfileInv, SerialProfileInv, [ProfileNext]_profileVars
    PROVE  SerialProfileInv'
<1>1. SUFFICES ASSUME OneAfterTheOther, NEW u \in Operations
               PROVE  SerialInv(operation[u])'
  BY DEF SerialProfileInv, OneAfterTheOther
<1>2. SerialInv(operation[u])
  BY <1>1 DEF SerialProfileInv
<1>3. \A t \in Operations : t = u
  BY <1>1 DEF OneAfterTheOther
<1>4. CASE UNCHANGED profileVars
  BY <1>2, <1>4, SerialStill DEF profileVars
<1>5. CASE ApproveContent \/ \E c \in Credentials : AnalyseDraft(c) \/ AnalyseFromPdf(c)
  <2>1. UNCHANGED <<operation, profiles, status, applied>> /\ unread \subseteq unread'
    BY <1>5 DEF ApproveContent, AnalyseDraft, AnalyseFromPdf
  <2>2. \A c \in Issued : c \notin unread' => analyses'[c] = analyses[c]
    BY <1>5 DEF ApproveContent, AnalyseDraft, AnalyseFromPdf, Issued, ProfileInv, ProfileTypes,
         ProfileTypeOK
  <2> QED
    BY <1>2, <2>1, <2>2, SerialStill
<1>6. ASSUME NEW t \in Operations,
             \/ Rebuild(t) \/ Import(t)
             \/ \E c \in Credentials : IssueCredential(t, c) \/ RevokeCredential(t, c) \/ Apply(t, c)
      PROVE  SerialInv(operation[u])'
  BY <1>1, <1>3, <1>6, SerialBegins
<1>7. ASSUME NEW t \in Operations, OperationStep(t)
      PROVE  SerialInv(operation[u])'
  BY <1>1, <1>3, <1>7, SerialStep
<1> QED
  BY <1>4, <1>5, <1>6, <1>7 DEF ProfileNext

\* Before the first rebuild there is nothing a profile could miss.
LEMMA SerialStarts ==
    ASSUME ProfileInit
    PROVE  SerialProfileInv
<1>1. profiles = << >> /\ Issued = {} /\ \A t \in Operations : operation[t].at = "idle"
  BY DEF ProfileInit, Issued, NoOperation
<1> QED
  BY <1>1 DEF SerialProfileInv, SerialInv, ToldAtRest

-----------------------------------------------------------------------------
(* What the profiles say.                                                   *)

\* The inductive invariant of the profiles.
THEOREM ProfilesSafe == ProfileSpec => []ProfileInv
<1>1. ProfileInit => ProfileInv
  BY ProfileStarts
<1>2. ProfileInv /\ [ProfileNext]_profileVars => ProfileInv'
  BY ProfileNextInv
<1> QED
  BY <1>1, <1>2, PTL DEF ProfileSpec

\* A profile is never rewritten.
LEMMA ProfilesKept == ProfileSpec => ProfilesAreImmutable
<1>1. ProfileInit => ProfileInv
  BY ProfileStarts
<1>2. ProfileInv /\ [ProfileNext]_profileVars => ProfileInv'
  BY ProfileNextInv
<1>3. ProfileInv /\ [ProfileNext]_profileVars
        => [\A i \in DOMAIN profiles :
              /\ i \in DOMAIN profiles'
              /\ profiles'[i].sources = profiles[i].sources
              /\ profiles[i].coverage # "absent" => profiles'[i].coverage = profiles[i].coverage
              /\ profiles'[i].current => profiles[i].current]_profileVars
  BY ProfileNextKeeps
<1> QED
  BY <1>1, <1>2, <1>3, PTL DEF ProfileSpec, ProfilesAreImmutable

\* What the profiles say in every state.
LEMMA ProfilesSay ==
    ProfileSpec => [](/\ OneCurrentProfile /\ ReflectsItsCause /\ CoverageIsOfTheSnapshot
                      /\ OneAfterTheOther => AtRestTruthful)
<1>1. ProfileInit => ProfileInv /\ SerialProfileInv
  BY ProfileStarts, SerialStarts
<1>2. ProfileInv /\ SerialProfileInv /\ [ProfileNext]_profileVars
        => ProfileInv' /\ SerialProfileInv'
  BY ProfileNextInv, SerialNext
<1>3. ProfileInv => ReflectsItsCause
  BY DEF ProfileInv, ReflectsItsCause, OperationAt, OperationInv, ComposingInv, Shows, ShowsStatus,
         ShowsAnalysis, ShowsReviewed, NoSource, Source
<1>4. ProfileAssumption /\ SerialProfileInv => (OneAfterTheOther => AtRestTruthful)
  BY TruthIs DEF Tells, ProfileAssumption, ProfileSets, SerialProfileInv, SerialInv, AtRestTruthful, ToldAtRest, OperationAt
<1>5. ProfileInv => OneCurrentProfile /\ CoverageIsOfTheSnapshot
  BY DEF ProfileInv
<1>6. ProfileInv /\ SerialProfileInv =>
         /\ OneCurrentProfile /\ ReflectsItsCause /\ CoverageIsOfTheSnapshot
         /\ OneAfterTheOther => AtRestTruthful
  BY <1>3, <1>4, <1>5, ProfileAssumption
<1> QED
  BY <1>1, <1>2, <1>6, PTL DEF ProfileSpec

\* What the holder reads comes from the evidence, for any number of
\* credentials and of operations that overlap.
THEOREM ProfileHolds == ProfileSpec => ProfileFollowsEvidence
  BY ProfilesKept, ProfilesSay, PTL DEF ProfileFollowsEvidence
=============================================================================
