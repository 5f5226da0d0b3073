------------------------- MODULE CredentialAnalysis -------------------------
(***************************************************************************)
(* One credential, the evidence attached to it and the analysis runs over  *)
(* that evidence: src/services/api/src/{document-evidence,text-evidence,   *)
(* analysis-run,source-extraction} and the parts of credentials/, semantic/*)
(* and profile-embedding/ they call.                                       *)
(*                                                                         *)
(* A caller has a call in progress: an upload, a trigger of the issuer, an *)
(* issuance with the analyses that follow it, or one of the two backfill   *)
(* scripts.  Each step of a call is one statement or one transaction of    *)
(* the database, or one call to the storage or to the AI service; callers  *)
(* interleave freely between steps.                                        *)
(***************************************************************************)
EXTENDS Naturals, Sequences, FiniteSets

CONSTANTS
    Callers,      \* calls that may be in progress at once
    MaxDocuments, \* bound: documents uploaded
    MaxTexts,     \* bound: texts submitted or generated
    MaxRuns,      \* bound: analysis runs created
    Modes,        \* the kinds of evidence in use, a subset of AllModes
    LostAnswers,  \* a commit may succeed and its answer be lost
    Crashes       \* a call may die between two steps

AllModes == {"document", "text"}

CallersAssumption == Callers # {} /\ IsFiniteSet(Callers)
AnalysisBounds ==
    /\ {MaxDocuments, MaxTexts, MaxRuns} \subseteq Nat
    /\ Modes \subseteq AllModes
    /\ {LostAnswers, Crashes} \subseteq BOOLEAN

ASSUME AnalysisAssumption == CallersAssumption /\ AnalysisBounds

VARIABLES
    credential,   \* Credential.status
    documents,    \* DocumentEvidence rows, in order of creation
    texts,        \* TextEvidence rows, in order of creation
    objects,      \* the stored objects; a key is a position
    runs,         \* AnalysisRun rows with their only source row
    analysed,     \* SemanticAnalysis rows: the run of each
    embeddings,   \* SourceEmbedding rows: run and extraction it depends on
    caller        \* the calls in progress

analysisVars == <<credential, documents, texts, objects, runs, analysed, embeddings, caller>>

Documents == [status : {"current", "replaced"}, kind : {"pdf", "image"}, object : 1..MaxDocuments]
Texts == [status : {"current", "replaced"}, origin : {"submitted", "system"}]

\* What the AI service observed in a source: an artifact that says the source
\* could not be observed is an artifact too.
Artifacts == {"full", "failed"}

RunStatuses == {"pending", "running", "completed", "failed"}
RunRecords == [mode : AllModes, trigger : {"manual", "system"},
               source : Nat, status : RunStatuses,
               extraction : Artifacts \cup {"absent"}]

Ops == {"upload", "manual_document", "manual_text", "issue_document", "issue_text",
        "backfill", "forced_backfill", "extraction_backfill"}
NoCall == [op |-> "none", at |-> "idle", ref |-> 0]

AnalysisInit ==
    /\ credential = "draft"
    /\ documents = << >> /\ texts = << >> /\ objects = << >>
    /\ runs = << >> /\ analysed = << >> /\ embeddings = {}
    /\ caller = [t \in Callers |-> NoCall]

-----------------------------------------------------------------------------
(* Reading the rows.                                                        *)

CurrentOf(rows) == {i \in DOMAIN rows : rows[i].status = "current"}
CurrentPdf == {i \in CurrentOf(documents) : documents[i].kind = "pdf"}
RowsOf(mode) == IF mode = "document" THEN documents ELSE texts

ModeOf(op) == IF op \in {"manual_text", "issue_text"} THEN "text" ELSE "document"
TriggerOf(op) == IF op \in {"manual_document", "manual_text"} THEN "manual" ELSE "system"

\* The current row of the credential gives way to the one about to be created.
Replaced(rows) == [i \in DOMAIN rows |-> [rows[i] EXCEPT !.status = "replaced"]]

\* The statuses of a run over the same evidence that keep a caller from
\* creating another: only the automatic text analysis counts the failed ones,
\* and a forced backfill does not count the completed ones.
BlockingStatuses(op) ==
    CASE op = "issue_text" -> RunStatuses
      [] op = "forced_backfill" -> {"pending", "running"}
      [] OTHER -> {"pending", "running", "completed"}

AlreadyRun(op, ref) ==
    \E r \in DOMAIN runs : /\ runs[r].mode = ModeOf(op)
                           /\ runs[r].source = ref
                           /\ runs[r].status \in BlockingStatuses(op)

\* Manual runs are for drafts; a run of the system also for issued credentials.
Allowed(trigger) == credential = "draft" \/ (trigger = "system" /\ credential = "issued")

\* What follows a call that ended: the automatic analysis of the document of
\* an issued credential is followed by that of its text, whatever it did.
After(t) ==
    IF caller[t].op = "issue_document"
    THEN [op |-> "issue_text", at |-> "eligible", ref |-> 0]
    ELSE NoCall

CallerGoes(t, place) == caller' = [caller EXCEPT ![t].at = place]
CallerEnds(t) == caller' = [caller EXCEPT ![t] = After(t)]
CallerAt(t, place) == caller[t].at = place

-----------------------------------------------------------------------------
(* Evidence.                                                                *)

\* The status of the credential is read and the bytes are stored under a new
\* key; the row comes later, in a transaction that reads no status.
Upload(t) ==
    /\ CallerAt(t, "idle") /\ "document" \in Modes
    /\ credential = "draft"
    /\ Len(objects) < MaxDocuments
    /\ objects' = Append(objects, "stored")
    /\ caller' = [caller EXCEPT ![t] = [op |-> "upload", at |-> "upload", ref |-> Len(objects) + 1]]
    /\ UNCHANGED <<credential, documents, texts, runs, analysed, embeddings>>

AddDocument(t) ==
    \E kind \in {"pdf", "image"} :
        documents' = Append(Replaced(documents),
                            [status |-> "current", kind |-> kind, object |-> caller[t].ref])

\* Mutant of ReplaceDocument: the object of the row it replaces is deleted.
ReplaceDocumentAndDelete(t) ==
    /\ CallerAt(t, "upload")
    /\ AddDocument(t)
    /\ objects' = [k \in DOMAIN objects |->
                      IF \E i \in CurrentOf(documents) : documents[i].object = k
                      THEN "deleted" ELSE objects[k]]
    /\ CallerEnds(t)
    /\ UNCHANGED <<credential, texts, runs, analysed, embeddings>>

ReplaceDocument(t) ==
    /\ CallerAt(t, "upload")
    /\ AddDocument(t)
    /\ CallerEnds(t)
    /\ UNCHANGED <<credential, texts, objects, runs, analysed, embeddings>>

\* The transaction reported an error: the object just stored is deleted, or
\* stays as an orphan when that fails too.  The error may be the loss of the
\* answer of a transaction that committed.
UploadFails(t) ==
    /\ CallerAt(t, "upload")
    /\ \/ UNCHANGED documents
       \/ LostAnswers /\ AddDocument(t)
    /\ \/ objects' = [objects EXCEPT ![caller[t].ref] = "deleted"]
       \/ UNCHANGED objects
    /\ CallerEnds(t)
    /\ UNCHANGED <<credential, texts, runs, analysed, embeddings>>

\* The transaction reads the status again, so the reading before it adds nothing.
SubmitText ==
    /\ "text" \in Modes /\ Len(texts) < MaxTexts
    /\ credential = "draft"
    /\ texts' = Append(Replaced(texts), [status |-> "current", origin |-> "submitted"])
    /\ UNCHANGED <<credential, documents, objects, runs, analysed, embeddings, caller>>

-----------------------------------------------------------------------------
(* Starting a run.                                                          *)

\* The issuer asks for the analysis of the current document of a draft: there
\* is no search for an earlier run.
TriggerDocument(t) ==
    /\ CallerAt(t, "idle") /\ "document" \in Modes
    /\ credential = "draft"
    /\ caller' = [caller EXCEPT ![t] = [op |-> "manual_document", at |-> "create", ref |-> 0]]
    /\ UNCHANGED <<credential, documents, texts, objects, runs, analysed, embeddings>>

TriggerText(t) ==
    /\ CallerAt(t, "idle") /\ "text" \in Modes
    /\ credential = "draft"
    /\ \E i \in CurrentOf(texts) :
           caller' = [caller EXCEPT ![t] = [op |-> "manual_text", at |-> "dedup", ref |-> i]]
    /\ UNCHANGED <<credential, documents, texts, objects, runs, analysed, embeddings>>

\* Issuance, its evidence and its profile belong to other modules; what follows
\* it is the automatic analysis.
IssueDraft(t) ==
    /\ CallerAt(t, "idle")
    /\ credential = "draft"
    /\ credential' = "issued"
    /\ caller' = [caller EXCEPT ![t] = [op |-> "issue_document", at |-> "eligible", ref |-> 0]]
    /\ UNCHANGED <<documents, texts, objects, runs, analysed, embeddings>>

RevokeIssued ==
    /\ credential = "issued"
    /\ credential' = "revoked"
    /\ UNCHANGED <<documents, texts, objects, runs, analysed, embeddings, caller>>

\* The script reads an issued credential with its current document.
Backfill(t) ==
    /\ CallerAt(t, "idle")
    /\ credential = "issued"
    /\ \E i \in CurrentPdf, op \in {"backfill", "forced_backfill"} :
           caller' = [caller EXCEPT ![t] = [op |-> op, at |-> "dedup", ref |-> i]]
    /\ UNCHANGED <<credential, documents, texts, objects, runs, analysed, embeddings>>

\* The automatic analysis of the document looks for a current PDF.
FindDocument(t) ==
    /\ CallerAt(t, "eligible") /\ caller[t].op = "issue_document"
    /\ \/ \E i \in CurrentPdf : caller' = [caller EXCEPT ![t].at = "dedup", ![t].ref = i]
       \/ CurrentPdf = {} /\ CallerEnds(t)
    /\ UNCHANGED <<credential, documents, texts, objects, runs, analysed, embeddings>>

\* That of the text acts on issued courses and certifications without a current
\* PDF; a credential of another kind ends here.
FindEligible(t) ==
    /\ CallerAt(t, "eligible") /\ caller[t].op = "issue_text"
    /\ \/ credential = "issued" /\ CurrentPdf = {} /\ "text" \in Modes /\ CallerGoes(t, "text")
       \/ CallerEnds(t)
    /\ UNCHANGED <<credential, documents, texts, objects, runs, analysed, embeddings>>

\* A current text is used as it is; the text declared by the credential is
\* stored only when there is none.  Without enough of it there is no source.
EnsureText(t) ==
    /\ CallerAt(t, "text")
    /\ \/ \E i \in CurrentOf(texts) :
              /\ caller' = [caller EXCEPT ![t].at = "dedup", ![t].ref = i]
              /\ UNCHANGED texts
       \/ /\ CurrentOf(texts) = {} /\ Len(texts) < MaxTexts
          /\ texts' = Append(texts, [status |-> "current", origin |-> "system"])
          /\ caller' = [caller EXCEPT ![t].at = "dedup", ![t].ref = Len(texts) + 1]
       \/ CurrentOf(texts) = {} /\ CallerEnds(t) /\ UNCHANGED texts
    /\ UNCHANGED <<credential, documents, objects, runs, analysed, embeddings>>

\* The search for a run over the same evidence, a statement of its own.
FindRun(t) ==
    /\ CallerAt(t, "dedup")
    /\ IF AlreadyRun(caller[t].op, caller[t].ref) THEN CallerEnds(t) ELSE CallerGoes(t, "create")
    /\ UNCHANGED <<credential, documents, texts, objects, runs, analysed, embeddings>>

\* The transaction reads the status of the credential and the evidence that is
\* current now, which the new run freezes; the caller is refused otherwise.
CreatePendingRun(t) ==
    LET op == caller[t].op
        current == CurrentOf(RowsOf(ModeOf(op)))
    IN  /\ CallerAt(t, "create")
        /\ \/ /\ Allowed(TriggerOf(op)) /\ Len(runs) < MaxRuns
              /\ \E i \in current :
                    runs' = Append(runs, [mode |-> ModeOf(op), trigger |-> TriggerOf(op),
                                          source |-> i, status |-> "pending",
                                          extraction |-> "absent"])
              /\ caller' = [caller EXCEPT ![t].at = "claim", ![t].ref = Len(runs) + 1]
           \/ /\ ~Allowed(TriggerOf(op)) \/ current = {} \/ Len(runs) = MaxRuns
              /\ CallerEnds(t) /\ UNCHANGED runs
        /\ UNCHANGED <<credential, documents, texts, objects, analysed, embeddings>>

-----------------------------------------------------------------------------
(* Executing a run.                                                         *)

Claimed(t) == caller[t].ref
SetStatus(r, status) == runs' = [runs EXCEPT ![r].status = status]

\* A run that may not be executed any more is left as it is.
Claim(t) ==
    LET r == Claimed(t)
    IN  /\ CallerAt(t, "claim")
        /\ IF runs[r].status = "pending" /\ Allowed(runs[r].trigger)
           THEN SetStatus(r, "running") /\ CallerGoes(t, "source")
           ELSE CallerEnds(t) /\ UNCHANGED runs
        /\ UNCHANGED <<credential, documents, texts, objects, analysed, embeddings>>

\* A document is read in the row the run froze, current or not; a text must
\* still be current.
SourceIsConsistent(r) ==
    IF runs[r].mode = "document"
    THEN documents[runs[r].source].kind = "pdf"
    ELSE texts[runs[r].source].status = "current"

ReadSource(t) ==
    /\ CallerAt(t, "source")
    /\ CallerGoes(t, IF SourceIsConsistent(Claimed(t)) THEN "extract" ELSE "failing")
    /\ UNCHANGED <<credential, documents, texts, objects, runs, analysed, embeddings>>

\* The script inspects the slots first and keeps those it found empty.
BackfillExtraction(t) ==
    /\ CallerAt(t, "idle")
    /\ \E r \in DOMAIN runs :
           /\ runs[r].extraction = "absent"
           /\ caller' = [caller EXCEPT ![t] = [op |-> "extraction_backfill", at |-> "extract", ref |-> r]]
    /\ UNCHANGED <<credential, documents, texts, objects, runs, analysed, embeddings>>

Readable(r) ==
    runs[r].mode = "document" => objects[documents[runs[r].source].object] = "stored"

Extractable(r) ==
    /\ Readable(r)
    /\ runs[r].mode = "document" => documents[runs[r].source].kind = "pdf"

\* The backfill ends with the slot; the execution goes on whatever happened.
ExtractionEnds(t) == IF caller[t].op = "extraction_backfill" THEN CallerEnds(t) ELSE CallerGoes(t, "ai")

\* A slot that is filled is the answer; an empty one is extracted from the
\* frozen source, and any failure of that is swallowed.
EnsureExtraction(t) ==
    /\ CallerAt(t, "extract")
    /\ \/ runs[Claimed(t)].extraction = "absent" /\ Extractable(Claimed(t)) /\ CallerGoes(t, "fill")
       \/ ExtractionEnds(t)
    /\ UNCHANGED <<credential, documents, texts, objects, runs, analysed, embeddings>>

\* The verified artifact fills the slot if it is still empty; otherwise the
\* caller converges with the stored one or fails, without writing.
FillExtractionSlot(t) ==
    /\ CallerAt(t, "fill")
    /\ IF runs[Claimed(t)].extraction = "absent"
       THEN \E artifact \in Artifacts : runs' = [runs EXCEPT ![Claimed(t)].extraction = artifact]
       ELSE UNCHANGED runs
    /\ ExtractionEnds(t)
    /\ UNCHANGED <<credential, documents, texts, objects, analysed, embeddings>>

\* Mutant of Analyze: what the AI service refuses is thrown past the handler.
AnalyzeThrows(t) ==
    /\ CallerAt(t, "ai")
    /\ IF Readable(Claimed(t)) THEN CallerGoes(t, "complete") \/ CallerEnds(t) ELSE CallerEnds(t)
    /\ UNCHANGED <<credential, documents, texts, objects, runs, analysed, embeddings>>

\* The bytes are read from the storage and sent to the AI service.
Analyze(t) ==
    /\ CallerAt(t, "ai")
    /\ \/ Readable(Claimed(t)) /\ CallerGoes(t, "complete")
       \/ CallerGoes(t, "failing")
    /\ UNCHANGED <<credential, documents, texts, objects, runs, analysed, embeddings>>

Completes(t) ==
    /\ runs[Claimed(t)].status = "running"
    /\ SetStatus(Claimed(t), "completed")
    /\ analysed' = Append(analysed, Claimed(t))

\* The artifact and the status are one transaction: either fails with the other.
\* A commit whose answer is lost is taken for a failure.
CompleteRun(t) ==
    /\ CallerAt(t, "complete")
    /\ \/ Completes(t) /\ CallerGoes(t, "embed")
       \/ CallerGoes(t, "failing") /\ UNCHANGED <<runs, analysed>>
       \/ LostAnswers /\ Completes(t) /\ CallerGoes(t, "failing")
    /\ UNCHANGED <<credential, documents, texts, objects, embeddings>>

\* Only a run that is still running is marked.
MarkFailed(t) ==
    /\ CallerAt(t, "failing")
    /\ IF runs[Claimed(t)].status = "running"
       THEN SetStatus(Claimed(t), "failed")
       ELSE UNCHANGED runs
    /\ CallerEnds(t)
    /\ UNCHANGED <<credential, documents, texts, objects, analysed, embeddings>>

\* A text is embedded from its own content, a document from what its
\* extraction observed: without text in the artifact there is nothing to embed.
EmbeddingSource(r) ==
    CASE runs[r].mode = "text" -> "none"
      [] runs[r].extraction = "full" -> "full"
      [] OTHER -> "unavailable"

\* Best effort, after the commit; a row is identified by what it depends on.
Embed(t) ==
    LET source == EmbeddingSource(Claimed(t))
    IN  /\ CallerAt(t, "embed")
        /\ \/ /\ source # "unavailable"
              /\ embeddings' = embeddings \cup {<<Claimed(t), source>>}
           \/ UNCHANGED embeddings
        /\ CallerEnds(t)
        /\ UNCHANGED <<credential, documents, texts, objects, runs, analysed>>

Die(t) ==
    /\ Crashes /\ ~CallerAt(t, "idle")
    /\ caller' = [caller EXCEPT ![t] = NoCall]
    /\ UNCHANGED <<credential, documents, texts, objects, runs, analysed, embeddings>>

-----------------------------------------------------------------------------
Advance(t) ==
    \/ ReplaceDocument(t) \/ UploadFails(t)
    \/ FindDocument(t) \/ FindEligible(t) \/ EnsureText(t)
    \/ FindRun(t) \/ CreatePendingRun(t) \/ Claim(t) \/ ReadSource(t)
    \/ EnsureExtraction(t) \/ FillExtractionSlot(t) \/ Analyze(t)
    \/ CompleteRun(t) \/ MarkFailed(t) \/ Embed(t)

CallerStarts(t) ==
    \/ Upload(t) \/ TriggerDocument(t) \/ TriggerText(t)
    \/ IssueDraft(t) \/ Backfill(t) \/ BackfillExtraction(t)

AnalysisNext == SubmitText \/ RevokeIssued \/ \E t \in Callers : CallerStarts(t) \/ Advance(t) \/ Die(t)

AnalysisSpec == AnalysisInit /\ [][AnalysisNext]_analysisVars

\* A call in progress goes on: a promise of the process that is awaited.
FairAnalysisSpec == AnalysisSpec /\ \A t \in Callers : WF_analysisVars(Advance(t))

-----------------------------------------------------------------------------
(* Properties.                                                              *)

\* Every variable stays within its type, and rows refer to rows that exist.
AnalysisTypeOK ==
    /\ credential \in {"draft", "issued", "revoked"}
    /\ documents \in Seq(Documents) /\ texts \in Seq(Texts)
    /\ objects \in Seq({"stored", "deleted"})
    /\ runs \in Seq(RunRecords) /\ analysed \in Seq(1..Len(runs))
    /\ embeddings \subseteq (DOMAIN runs) \X {"none", "full"}
    /\ \A t \in Callers : caller[t] = NoCall \/ caller[t].op \in Ops
    /\ \A r \in DOMAIN runs : runs[r].source \in DOMAIN RowsOf(runs[r].mode)
    /\ \A i \in DOMAIN documents : documents[i].object \in DOMAIN objects

\* At most one document and one text of the credential are current, however
\* many uploads, submissions and automatic analyses meet.
OneCurrent == Cardinality(CurrentOf(documents)) <= 1 /\ Cardinality(CurrentOf(texts)) <= 1

\* Every document row, replaced or not, can still be read: a run goes back to
\* the evidence it froze after that evidence was replaced.  (It takes that a
\* commit is answered: see the README.)
EvidenceIsReadable == \A i \in DOMAIN documents : objects[documents[i].object] = "stored"

\* A completed run has exactly one analysis and any other run none, also when
\* the answer of the commit is lost and the call fails.
CompletedMeansAnalysed ==
    \A r \in DOMAIN runs :
        Cardinality({k \in DOMAIN analysed : analysed[k] = r})
          = (IF runs[r].status = "completed" THEN 1 ELSE 0)

\* An embedding of a document depends on the artifact its slot holds now.
EmbeddingsFollowSlots ==
    \A e \in embeddings : runs[e[1]].mode = "document" => e[2] = runs[e[1]].extraction

\* A run that completed or failed keeps its status and its source, and a slot
\* that was filled its artifact.
HistoryIsFinal ==
    [][\A r \in DOMAIN runs :
          /\ runs[r].status \in {"completed", "failed"} => runs'[r].status = runs[r].status
          /\ runs[r].extraction # "absent" => runs'[r].extraction = runs[r].extraction
          /\ runs'[r].source = runs[r].source]_analysisVars

\* Once the credential left the draft its texts stay: the system adds one only
\* when none was current.
TextsFrozenAfterIssue ==
    [][credential # "draft" =>
          \/ texts' = texts
          \/ CurrentOf(texts) = {} /\ SubSeq(texts', 1, Len(texts)) = texts]_analysisVars

\* A manual run starts to run only while the credential is a draft.
ManualRunsAreForDrafts ==
    [][\A r \in DOMAIN runs :
          runs[r].trigger = "manual" /\ runs[r].status = "pending"
            /\ runs'[r].status = "running" => credential = "draft"]_analysisVars

\* The evidence of a credential is whole: one row of a kind is current, its
\* object can be read while commits are answered, a completed run left its one
\* analysis and the embeddings are of the slot they name; and what was recorded
\* of it is not rewritten by a retry or a late answer.
EvidenceIsWhole ==
    /\ [](/\ OneCurrent
          /\ ~LostAnswers => EvidenceIsReadable
          /\ CompletedMeansAnalysed /\ EmbeddingsFollowSlots)
    /\ HistoryIsFinal /\ TextsFrozenAfterIssue /\ ManualRunsAreForDrafts

\* Every run that was claimed ends, completed or failed: there is no retry that
\* would pick it up, so it depends on the call that claimed it.
ClaimedRunsEnd ==
    \A r \in 1..MaxRuns :
        (r \in DOMAIN runs /\ runs[r].status = "running")
          ~> (r \in DOMAIN runs /\ runs[r].status \in {"completed", "failed"})
=============================================================================
