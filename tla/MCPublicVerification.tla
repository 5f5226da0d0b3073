------------------------ MODULE MCPublicVerification ------------------------
(***************************************************************************)
(* What a verifier meets, for TLC: the answer about a credential           *)
(* (CredentialVerification), the link of a holder (ProfileSharing), the    *)
(* proposals asked for under it (VerificationSession), the runs it pays    *)
(* for (VerificationExecution) and the page it all is shown on             *)
(* (VerifierPage).                                                         *)
(* The modules share no variable: a behaviour picks one part and the       *)
(* others stay in their initial state, so one run explores them all, some  *)
(* under two choices of the constants.                                     *)
(***************************************************************************)
EXTENDS VerificationExecution, CredentialVerification, VerificationSession, ProfileSharing,
        TLC

CONSTANTS c1, c2, q1, q2, r1, s1, s2, d1, d2

VARIABLES
  part,
  step, w_session, w_result, busy, executing, items, w_enabled, polling, calls,
  stored, blocked, w_request, link

\* Both callers insist on one request, or each request has its own caller,
\* who bears its name.
SameRequest == [c \in {c1, c2} |-> q1]
OwnRequest  == [q \in {q1, q2} |-> q]

\* The policy is replaced while two live callers execute a request.
Consents == INSTANCE VerificationExecution WITH
  MaxAttempts <- 1, MaxVersion <- 2, Faults <- FALSE

OwnRuns == INSTANCE VerificationExecution WITH
  Callers <- {q1, q2}, Requests <- {q1, q2}, RequestOf <- OwnRequest,
  MaxAttempts <- 1, LeaseTtl <- 2, ShareExpiresAt <- 3, MaxTime <- 2, Slow <- FALSE

\* Two requests of the holder overlap, over one credential, or one comes after
\* the other, over two.
Overlapping == INSTANCE ProfileSharing WITH
  Credentials <- {d1}, Tasks <- {c1, c2}, MaxVersions <- 2
OneByOne == INSTANCE ProfileSharing WITH Tasks <- {r1}

Page == INSTANCE VerifierPage WITH
  MaxRequests <- 2, session <- w_session, result <- w_result, enabled <- w_enabled,
  request <- w_request

ASSUME SharingAssumed == SetsAssumption /\ BoundsAssumption

execution == vars
sharing   == sharingVars
answers   == answerVars
session   == sessionVars
screen    == <<step, w_session, w_result, busy, executing, items, w_enabled, polling,
               calls, stored, blocked, w_request, link>>

InitAll ==
  /\ part \in {"takeover", "consent", "quota", "session", "sharing", "one by one", "answers", "page"}
  /\ IF part = "quota" THEN OwnRuns!Init ELSE Init
  /\ SessionInit
  /\ Page!Init /\ (part = "page" \/ (~blocked /\ link = "open"))
  /\ AnswerInit /\ (part = "answers" \/ schema = "v1")
  /\ SharingInit
  /\ CASE part = "one by one" -> TRUE
       [] part = "sharing" -> states[d2] = "draft"
       [] OTHER -> key = 0 /\ \A d \in Credentials : states[d] = "draft"

NextTakeover == part = "takeover" /\ Next /\ UNCHANGED <<part, session, sharing, answers, screen>>
NextConsent == part = "consent" /\ Consents!Next /\ UNCHANGED <<part, session, sharing, answers, screen>>
NextQuota == part = "quota" /\ OwnRuns!Next /\ UNCHANGED <<part, session, sharing, answers, screen>>
NextSession == part = "session" /\ SessionNext /\ UNCHANGED <<part, execution, sharing, answers, screen>>
NextSharing == part = "sharing" /\ Overlapping!SharingNext /\ UNCHANGED <<part, execution, session, answers, screen>>
NextOneByOne == part = "one by one" /\ OneByOne!SharingNext /\ UNCHANGED <<part, execution, session, answers, screen>>

NextAnswers == part = "answers" /\ AnswerNext /\ UNCHANGED <<part, execution, session, sharing, screen>>
NextPage == part = "page" /\ Page!Next /\ UNCHANGED <<part, execution, session, sharing, answers>>

NextAll ==
  NextTakeover \/ NextConsent \/ NextQuota \/ NextSession \/ NextSharing \/ NextOneByOne \/ NextAnswers
  \/ NextPage
SpecAll == InitAll /\ [][NextAll]_<<part, execution, session, sharing, answers, screen>>

Symmetry == Permutations({c1, c2}) \cup Permutations({s1, s2}) \cup Permutations({d1, d2})

-----------------------------------------------------------------------------
(* The properties of the four modules that are extended keep their names.  *)

\* Every variable stays in its type, whichever part moves.
PartsTypeOK ==
  /\ part = "takeover" => TypeOK
  /\ part = "consent" => Consents!TypeOK
  /\ part = "quota" => OwnRuns!TypeOK
  /\ part = "session" => SessionTypeOK
  /\ part \in {"sharing", "one by one"} => SharingTypeOK
  /\ part = "answers" => AnswerTypeOK
  /\ part = "page" => Page!TypeOK

\* As long as no live holder outlives its lease, one execution works on the
\* runs of a link (VerificationExecution).
OneExecutionAtATime == part = "quota" => OwnRuns!OneExecutionPerLink

\* Under the same assumption the runs created in a window keep the quota of
\* the link, although they are counted in another transaction.
RunsWithinQuota == part = "quota" => OwnRuns!QuotaBoundsRuns

\* One request after the other, the version of a policy moves only with the
\* intent of the holder, and its marks are of its last change (ProfileSharing).
SerialPolicyIsExact ==
  part = "one by one" => VersionMovesWithIntent /\ MarksAreOfTheLastChange

\* The page of a verifier shows what the server did for the token it keeps,
\* whatever answer comes late, is lost or finds the page opened again: session
\* and result are of that token, one action is under way at a time, no step is
\* reached without what it shows (VerifierPage).
PageFollowsServer == part = "page" => Page!ShownIsStored /\ Page!OneAtATime /\ Page!NeverBlank

\* What the parts promise under their own assumptions, and their types.
VerificationPartsHold ==
  /\ PartsTypeOK
  /\ OneExecutionAtATime /\ RunsWithinQuota
  /\ SerialPolicyIsExact
  /\ PageFollowsServer
=============================================================================
