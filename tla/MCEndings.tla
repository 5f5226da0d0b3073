------------------------------ MODULE MCEndings ------------------------------
(***************************************************************************)
(* What is started ends, for TLC.  The module that is extended is the      *)
(* reasoning run with processes that die, for what it leaves (part         *)
(* "versions"); the other parts run under the fairness their code          *)
(* justifies, for that they end: a reasoning run without deaths, a         *)
(* verification whose caller insists, an analysis whose commit may answer  *)
(* nothing, the recovery of an account, the start of the session on a      *)
(* telephone and the page of a verifier.  A behaviour picks one part and   *)
(* the others stay in their initial state.                                 *)
(***************************************************************************)
EXTENDS ReasoningRun, Naturals, Sequences, FiniteSets, TLC

CONSTANTS r1, e1, e2, e3, p1, p2, m1, m2, v1, v2, c1, c2, q1, t1, t2, Gone

VARIABLES
  part,
  clock, revoked, enabled, version, lease, attempts, createdAt, frozenUnder,
  x_pc, now, seen, snapshot, x_status, x_failed, x_plan, x_slot, x_result, epc,
  x_stage, x_held, x_err, claims,
  credential, documents, texts, objects, runs, analysed, embeddings, caller,
  a_status, password, a_version, did, tokens, lock, rowLock, mailbox, sessions,
  host, a_clock, closing, a_task,
  state, route, token, epoch, storage, queue, cache, m_task, inFlight, signed,
  expired, closed, undeleted,
  step, w_session, w_result, busy, executing, items, w_enabled, polling, calls,
  stored, blocked, w_request, link

\* e2 runs in a process of another policy version, e3 of another model.
OnlyRun == [e \in {e1, e2, e3} |-> r1]
Policy  == [e \in {e1, e2, e3} |-> IF e = e2 THEN p2 ELSE p1]
Model   == [e \in {e1, e2, e3} |-> IF e = e3 THEN m2 ELSE m1]

Undying == INSTANCE ReasoningRun WITH Values <- {v1}, Faults <- FALSE

Execution == INSTANCE VerificationExecution WITH
  Callers <- {c1, c2}, Requests <- {q1}, RequestOf <- [c \in {c1, c2} |-> q1],
  MaxAttempts <- 2, RunQuota <- 1, QuotaWindow <- 2, LeaseTtl <- 2,
  ShareExpiresAt <- 9, RequestExpiresAt <- 2, MaxTime <- 0, MaxVersion <- 1,
  Slow <- FALSE, Faults <- FALSE,
  pc <- x_pc, status <- x_status, failed <- x_failed, plan <- x_plan,
  slot <- x_slot, result <- x_result, stage <- x_stage, held <- x_held,
  err <- x_err

Analysis == INSTANCE CredentialAnalysis WITH
  Callers <- {t1, t2}, MaxDocuments <- 0, MaxTexts <- 1, MaxRuns <- 1,
  Modes <- {"text"}, LostAnswers <- TRUE, Crashes <- FALSE

Accounts == INSTANCE AccountAccess WITH
  Users <- {c1}, Passwords <- {p1}, Hosts <- {p2}, Tasks <- {t1, t2},
  Ops <- {"request", "confirm", "suspend", "shutdown"}, Cooldown <- 0,
  AccountQuota <- 3, AccountWindow <- 3, GlobalQuota <- 3, GlobalWindow <- 3,
  Ttl <- 2, Retention <- 3, MaxInFlight <- 2, MaxTokens <- 2, MaxTime <- 1,
  status <- a_status, version <- a_version, clock <- a_clock, task <- a_task

Holder == INSTANCE MobileSession WITH
  Tasks <- {t1, t2}, Ops <- {"login", "logout", "retry", "request"},
  MaxSessions <- 2, MaxEpoch <- 3, task <- m_task

Page == INSTANCE VerifierPage WITH
  MaxRequests <- 1, session <- w_session, result <- w_result, enabled <- w_enabled,
  request <- w_request

ASSUME InstancesAssumed ==
  /\ Holder!SessionAssumption
  /\ Analysis!CallersAssumption /\ Analysis!AnalysisBounds

reasoning == <<status, failed, plan, slot, result, pc, stage, held, err>>
execution == <<clock, revoked, enabled, version, lease, attempts, createdAt,
               frozenUnder, x_pc, now, seen, snapshot, x_status, x_failed,
               x_plan, x_slot, x_result, epc, x_stage, x_held, x_err, claims>>
analysis  == <<credential, documents, texts, objects, runs, analysed, embeddings, caller>>
account   == <<a_status, password, a_version, did, tokens, lock, rowLock, mailbox,
               sessions, host, a_clock, closing, a_task>>
holder    == <<state, route, token, epoch, storage, queue, cache, m_task, inFlight,
               signed, expired, closed, undeleted>>
screen    == <<step, w_session, w_result, busy, executing, items, w_enabled, polling,
               calls, stored, blocked, w_request, link>>
clients   == <<holder, screen>>

InitAll ==
  /\ part \in {"versions", "claims", "pending", "texts", "accounts", "holder", "page"}
  /\ Init /\ Execution!Init /\ Analysis!AnalysisInit /\ Accounts!Init
  /\ a_status[c1] = "active" /\ password[c1] # Accounts!NoPassword
  /\ host = Accounts!NoHost
  /\ Holder!Init /\ (part = "holder" \/ (route = "index" /\ signed = 0 /\ queue = <<t1>>))
  /\ Page!Init /\ (part = "page" \/ (~blocked /\ link = "open"))

NextVersions == part = "versions" /\ Next /\ UNCHANGED <<part, execution, analysis, account, clients>>
NextClaims == part = "claims" /\ Undying!Next /\ UNCHANGED <<part, execution, analysis, account, clients>>
NextPending == part = "pending" /\ Execution!Next /\ UNCHANGED <<part, reasoning, analysis, account, clients>>
NextTexts == part = "texts" /\ Analysis!AnalysisNext /\ UNCHANGED <<part, reasoning, execution, account, clients>>
NextAccounts == part = "accounts" /\ Accounts!Next /\ UNCHANGED <<part, reasoning, execution, analysis, clients>>
NextHolder ==
  part = "holder" /\ Holder!Next /\ UNCHANGED <<part, reasoning, execution, analysis, account, screen>>
NextPage ==
  part = "page" /\ Page!Next /\ UNCHANGED <<part, reasoning, execution, analysis, account, holder>>

NextAll == NextVersions \/ NextClaims \/ NextPending \/ NextTexts \/ NextAccounts
  \/ NextHolder \/ NextPage

\* The fairness of each module, for the part it is about.
FairnessAll ==
  /\ \A e \in {e1, e2, e3} : WF_reasoning(part = "claims" /\ Undying!Progress(e))
  /\ \A c \in {c1, c2} : /\ WF_execution(part = "pending" /\ Execution!Step(c))
                         /\ SF_execution(part = "pending" /\ Execution!Begin(c))
  /\ \A t \in {t1, t2} : /\ WF_analysis(part = "texts" /\ Analysis!Advance(t))
                         /\ SF_account(part = "accounts" /\ Accounts!Advance(t))
                         /\ WF_holder(part = "holder" /\ Holder!Answers(t))
  /\ WF_screen(part = "page" /\ Page!Continues) /\ WF_screen(part = "page" /\ Page!Tick)
  /\ SF_screen(part = "page" /\ Page!Reached)
  /\ \A m \in Page!Makers : WF_screen(part = "page" /\ Page!Serve(m))
  /\ WF_screen(part = "page" /\ Page!RunEnds(1))

FairSpecAll == InitAll /\ [][NextAll]_<<part, reasoning, execution, analysis, account, clients>> /\ FairnessAll

-----------------------------------------------------------------------------
\* Without deaths a claim of a reasoning run is always given up.
ClaimsAreGivenUp == part = "claims" => Undying!ClaimsEnd

\* A pending verification whose caller insists ends, or its link does.
PendingRunsEnd == part = "pending" => Execution!PendingRunsEnd

\* Every analysis that was claimed completes or fails, also when the answer of
\* its commit is lost.
ClaimedRunsEnd == part = "texts" => Analysis!ClaimedRunsEnd

\* No run stays held: the claim of a reasoning run is given up, a pending
\* verification ends and a claimed analysis completes or fails.
RunsEnd == ClaimsAreGivenUp /\ PendingRunsEnd /\ ClaimedRunsEnd

\* Every request about an account that was accepted ends, and the lock of the
\* issue of links always comes free.
RequestsEnd == part = "accounts" => (Accounts!TasksEnd /\ Accounts!LockComesFree)

\* A telephone that restores a session or signs in comes to an end of it, and
\* on the first screen and that of the login its holder has something to go on with.
BootEnds == part = "holder" => Holder!BootEnds /\ Holder!RestoreEnds

\* A verifier who waits for an analysis is shown its end, or an error.
ProcessingEnds == part = "page" => Page!ProcessingEnds

\* What a person waits for ends: a request about an account, the validation of
\* a session, an analysis.
WaitingEnds == RequestsEnd /\ BootEnds /\ ProcessingEnds
=============================================================================
