----------------------------- MODULE VerifierPage -----------------------------
(***************************************************************************)
(* The page on which a verifier analyses a shared profile: src/apps/web/   *)
(* src/features/verifier/public-analysis-route.tsx, analysis-flow.ts and   *)
(* request-token-storage.ts.  The API it calls is what VerificationSession *)
(* and VerificationExecution detail; here a request is only its status.    *)
(*                                                                         *)
(* A call goes out, is served, and its answer is a later event.  The page  *)
(* is rendered after every event, so a button is the one of its state.     *)
(***************************************************************************)
EXTENDS Naturals

CONSTANT MaxRequests  \* bound: drafts the API creates

VARIABLES
  step, session, result,  \* RouteState: the step, and whose session and result
  busy, executing,
  items,       \* the requirements on the screen
  enabled,     \* profile.contextualVerificationEnabled
  polling,     \* the request the interval reads, or none
  calls,       \* the calls in progress, by what made them
  stored,      \* the token in sessionStorage
  blocked,     \* sessionStorage is not available
  request,     \* status of every request on the server
  link         \* the shared link

page   == <<step, session, result, busy, executing, items, enabled, polling>>
server == <<request, link>>
vars   == <<page, calls, stored, blocked, server>>

NoToken == 0
Drafts == 1..MaxRequests
NoResult == [of |-> NoToken, is |-> "none"]
NoCall == [call |-> "none", at |-> "idle", token |-> NoToken, answer |-> "none", had |-> FALSE]

Open == {"draft", "proposed", "confirmed"}          \* not consumed
Ended == {"completed", "retryable", "failed"}
Statuses == {"absent", "gone", "processing"} \cup Open \cup Ended
Errors == {"fatal", "lost", "other"}                \* publicErrorCopy

\* stepForSession and stepForResult
StepOf(status) ==
  CASE status \in {"draft", "proposed"} -> "requirements"
    [] status = "confirmed" -> "ready"
    [] status \in {"consumed", "processing"} -> "processing"
    [] status = "completed" -> "completed"
    [] status \in {"retryable", "failed"} -> "failed"

Makers == {"load", "start", "confirm", "run", "poll"}

TypeOK ==
  /\ step \in {"loading", "unavailable", "objective", "requirements", "ready",
               "processing", "completed", "failed"}
  /\ session \in 0..MaxRequests
  /\ result \in [of : 0..MaxRequests, is : {"none"} \cup Statuses]
  /\ {busy, executing, enabled, blocked} \subseteq BOOLEAN
  /\ items \in {"none", "blank", "filled"}
  /\ polling \in 0..MaxRequests /\ stored \in 0..MaxRequests
  /\ calls \in [Makers ->
       [call : {"none", "profile", "session", "result", "create", "propose", "confirm", "execute"},
        at : {"idle", "sent", "working", "answered"}, token : 0..MaxRequests,
        answer : {"none", "enabled", "disabled", "created", "consumed"} \cup Statuses \cup Errors,
        had : BOOLEAN]]
  /\ request \in [Drafts -> Statuses]
  /\ link \in {"open", "disabled", "revoked"}

-----------------------------------------------------------------------------
(* What a handler does to the page.  *)

Call(m, call, k) ==
  calls' = [calls EXCEPT ![m].call = call, ![m].at = "sent", ![m].token = k, ![m].answer = "none"]
Done(m) == [calls EXCEPT ![m] = NoCall]

\* The step changes; the effect of the polling begins or is cleaned up with it,
\* and an answer that it still waits for is dropped.
Goes(s, after) ==
  /\ step' = s
  /\ polling' = IF s # "processing" THEN NoToken
                ELSE IF step = "processing" THEN polling ELSE stored'
  /\ calls' = IF s = "processing" THEN after ELSE [after EXCEPT !["poll"] = NoCall]

\* A result that was read.
ShowResult(k, status, after) ==
  /\ result' = [of |-> k, is |-> status]
  /\ Goes(StepOf(status), after)

\* applyError
ApplyError(answer, after) ==
  CASE answer = "lost" -> /\ stored' = NoToken /\ session' = NoToken /\ result' = NoResult
                          /\ Goes("objective", after)
    [] answer = "fatal" -> /\ stored' = stored /\ Goes("unavailable", after)
                           /\ UNCHANGED <<session, result>>
    [] answer = "other" -> /\ calls' = after
                           /\ UNCHANGED <<stored, session, result, step, polling>>

\* storeRequestToken: nothing is kept where nothing can be.
Store(k) == stored' = IF blocked THEN NoToken ELSE k

Answered(m, call) == calls[m].at = "answered" /\ calls[m].call = call
Answer(m) == calls[m].answer

\* The page is opened, or opened again: only the storage outlives it.
Opening ==
  [m \in Makers |-> IF m = "load" THEN [NoCall EXCEPT !.call = "profile", !.at = "sent"] ELSE NoCall]

Reload ==
  /\ step' = "loading" /\ session' = NoToken /\ result' = NoResult
  /\ busy' = FALSE /\ executing' = FALSE /\ items' = "none" /\ enabled' = FALSE
  /\ polling' = NoToken /\ calls' = Opening
  /\ UNCHANGED <<stored, blocked, server>>

-----------------------------------------------------------------------------
(* The first effect and syncFromServer.  *)

LoadedProfile ==
  /\ Answered("load", "profile")
  /\ IF Answer("load") \in Errors
     THEN ApplyError(Answer("load"), Done("load")) /\ UNCHANGED enabled
     ELSE /\ enabled' = (Answer("load") = "enabled")
          /\ CASE stored # NoToken -> /\ Call("load", "session", stored)
                                      /\ UNCHANGED <<step, session, result, polling>>
               [] stored = NoToken /\ enabled' -> /\ Goes("objective", Done("load"))
                                                  /\ session' = NoToken /\ result' = NoResult
               [] OTHER -> /\ Goes("unavailable", Done("load"))
                           /\ UNCHANGED <<session, result>>
          /\ UNCHANGED stored
  /\ UNCHANGED <<busy, executing, items, blocked, server>>

LoadedSession ==
  /\ Answered("load", "session")
  /\ LET k == calls["load"].token  a == Answer("load") IN
     CASE a \in Errors -> ApplyError(a, Done("load")) /\ UNCHANGED items
       [] a = "consumed" -> /\ Call("load", "result", k)
                            /\ UNCHANGED <<step, session, result, polling, items, stored>>
       [] OTHER -> /\ session' = k /\ result' = NoResult /\ stored' = stored
                   /\ Goes(StepOf(a), Done("load"))
                   /\ items' = IF a = "proposed" THEN "filled" ELSE items
  /\ UNCHANGED <<busy, executing, enabled, blocked, server>>

LoadedResult ==
  /\ Answered("load", "result")
  /\ IF Answer("load") \in Errors THEN ApplyError(Answer("load"), Done("load"))
     ELSE /\ session' = calls["load"].token /\ stored' = stored
          /\ ShowResult(calls["load"].token, Answer("load"), Done("load"))
  /\ UNCHANGED <<busy, executing, items, enabled, blocked, server>>

-----------------------------------------------------------------------------
(* startSession, and requestProposal inside it.  *)

\* The handler sees the items of the screen it was made for.
StartSession ==
  /\ step = "objective" /\ ~busy
  /\ busy' = TRUE
  /\ calls' = [calls EXCEPT !["start"] =
                 [NoCall EXCEPT !.call = "create", !.at = "sent", !.had = (items # "none")]]
  /\ UNCHANGED <<step, session, result, executing, items, enabled, polling, stored, blocked, server>>

Created ==
  /\ Answered("start", "create")
  /\ IF Answer("start") = "created"
     THEN LET k == calls["start"].token IN
          /\ Store(k) /\ session' = k /\ items' = "none"
          /\ Goes("requirements", [calls EXCEPT !["start"] =
               [@ EXCEPT !.call = "propose", !.at = "sent", !.answer = "none"]])
          /\ UNCHANGED <<result, busy>>
     ELSE /\ ApplyError(Answer("start"), Done("start"))
          /\ busy' = FALSE /\ UNCHANGED items
  /\ UNCHANGED <<executing, enabled, blocked, server>>

Proposed ==
  /\ Answered("start", "propose")
  /\ LET a == Answer("start") IN
     IF a \in Errors
     THEN /\ ApplyError(a, Done("start"))
          /\ items' = IF a # "fatal" /\ ~calls["start"].had THEN "blank" ELSE items
     ELSE /\ UNCHANGED <<result, stored>> /\ session' = calls["start"].token
          /\ Goes(StepOf(a), Done("start"))
          /\ items' = IF a = "proposed" THEN "filled" ELSE "none"
  /\ busy' = FALSE
  /\ UNCHANGED <<executing, enabled, blocked, server>>

\* A requirement is added, written or removed, also while a proposal is awaited.
EditItems ==
  /\ step = "requirements"
  /\ items' \in {"none", "blank", "filled"}
  /\ UNCHANGED <<step, session, result, busy, executing, enabled, polling, calls, stored,
                 blocked, server>>

-----------------------------------------------------------------------------
(* confirmRequirements, runAnalysis and startNewAnalysis.  Without a token  *)
(* in the storage the first two return at once.                             *)

ConfirmRequirements ==
  /\ step = "requirements" /\ ~busy /\ items = "filled" /\ stored # NoToken
  /\ busy' = TRUE
  /\ Call("confirm", "confirm", stored)
  /\ UNCHANGED <<step, session, result, executing, items, enabled, polling, stored, blocked, server>>

Confirmed ==
  /\ Answered("confirm", "confirm")
  /\ IF Answer("confirm") \in Errors THEN ApplyError(Answer("confirm"), Done("confirm"))
     ELSE /\ UNCHANGED <<result, stored>> /\ session' = calls["confirm"].token
          /\ Goes(StepOf(Answer("confirm")), Done("confirm"))
  /\ busy' = FALSE
  /\ UNCHANGED <<executing, items, enabled, blocked, server>>

RunAnalysis ==
  /\ \/ step = "ready"
     \/ step = "failed" /\ result.is = "retryable"
  /\ ~busy /\ stored # NoToken /\ ~executing
  /\ executing' = TRUE /\ busy' = TRUE /\ stored' = stored
  /\ Goes("processing", [calls EXCEPT !["run"] =
       [NoCall EXCEPT !.call = "execute", !.at = "sent", !.token = stored]])
  /\ UNCHANGED <<session, result, items, enabled, blocked, server>>

\* An answer that was lost or refused is read from the server instead.
Executed ==
  /\ Answered("run", "execute")
  /\ LET a == Answer("run")  k == calls["run"].token IN
     CASE a = "other" -> /\ Call("run", "result", k)
                         /\ UNCHANGED <<step, session, result, busy, executing, polling, stored>>
       [] a \in {"fatal", "lost"} -> /\ ApplyError(a, Done("run"))
                                     /\ executing' = FALSE /\ busy' = FALSE
       [] OTHER -> /\ UNCHANGED <<session, stored>>
                   /\ ShowResult(k, a, Done("run")) /\ executing' = FALSE /\ busy' = FALSE
  /\ UNCHANGED <<items, enabled, blocked, server>>

ReadInstead ==
  /\ Answered("run", "result")
  /\ IF Answer("run") \in Errors THEN ApplyError(Answer("run"), Done("run"))
     ELSE /\ UNCHANGED <<session, stored>>
          /\ ShowResult(calls["run"].token, Answer("run"), Done("run"))
  /\ executing' = FALSE /\ busy' = FALSE
  /\ UNCHANGED <<items, enabled, blocked, server>>

\* Offered where failureCopy does not offer the same analysis again.
StartNewAnalysis ==
  /\ enabled
  /\ \/ step = "completed"
     \/ step = "failed" /\ result.is = "failed"
  /\ items' = "none" /\ session' = NoToken /\ result' = NoResult /\ stored' = stored
  /\ Goes("objective", calls)
  /\ UNCHANGED <<busy, executing, enabled, blocked, server>>

-----------------------------------------------------------------------------
(* The polling.  *)

Tick ==
  /\ polling # NoToken /\ calls["poll"] = NoCall
  /\ Call("poll", "result", polling)
  /\ UNCHANGED <<page, stored, blocked, server>>

PolledIn(answers) ==
  /\ Answered("poll", "result") /\ Answer("poll") \in answers
  /\ IF Answer("poll") \in Errors THEN ApplyError(Answer("poll"), Done("poll"))
     ELSE /\ UNCHANGED <<session, stored>>
          /\ ShowResult(calls["poll"].token, Answer("poll"), Done("poll"))
  /\ UNCHANGED <<busy, executing, items, enabled, blocked, server>>

Polled == PolledIn(Statuses \cup Errors)

-----------------------------------------------------------------------------
(* The API.  A call may be lost on its way, or its answer on the way back.  *)

Replies(m, a) ==
  \E b \in {a, "other"} :
    calls' = [calls EXCEPT ![m].at = "answered", ![m].answer = b]

Lose(m) ==
  /\ calls[m].at \in {"sent", "working"}
  /\ calls' = [calls EXCEPT ![m].at = "answered", ![m].answer = "other"]
  /\ UNCHANGED <<page, stored, blocked, server>>

Arrives(m, call) == calls[m].at = "sent" /\ calls[m].call = call

\* assertShareValid, the request of the token, then what it is asked for.
Refused(m) ==
  /\ calls[m].at = "sent"
  /\ LET k == calls[m].token IN
     \/ link = "revoked" /\ Replies(m, "fatal")
     \/ /\ link # "revoked" /\ k # NoToken /\ request[k] = "gone" /\ Replies(m, "lost")
     \/ /\ link = "disabled"      \* assertComputeAllowed, before new work
        /\ \/ calls[m].call = "create"
           \/ calls[m].call = "propose" /\ request[k] = "draft"
           \/ calls[m].call \in {"confirm", "execute"} /\ request[k] \in Open
        /\ Replies(m, "fatal")
  /\ UNCHANGED <<page, stored, blocked, server>>

\* GET: the profile, a session, a result.
Read(m) ==
  /\ link # "revoked"
  /\ LET k == calls[m].token IN
     \/ Arrives(m, "profile") /\ Replies(m, IF link = "open" THEN "enabled" ELSE "disabled")
     \/ /\ Arrives(m, "session") /\ request[k] # "gone"
        /\ Replies(m, IF request[k] \in Open THEN request[k] ELSE "consumed")
     \/ /\ Arrives(m, "result") /\ request[k] # "gone" /\ Replies(m, request[k])
  /\ UNCHANGED <<page, stored, blocked, server>>

Create(m) ==
  /\ Arrives(m, "create") /\ link = "open"
  /\ \E k \in Drafts :
       /\ request[k] = "absent" /\ \A j \in 1..(k - 1) : request[j] # "absent"
       /\ request' = [request EXCEPT ![k] = "draft"]
       /\ \E b \in {"created", "other"} :
            calls' = [calls EXCEPT ![m].at = "answered", ![m].token = k, ![m].answer = b]
  /\ UNCHANGED <<page, stored, blocked, link>>

\* A proposal that failed leaves the request as it was.
Propose(m) ==
  /\ Arrives(m, "propose")
  /\ LET k == calls[m].token IN
     \/ /\ request[k] = "draft" /\ link = "open"
        /\ request' = [request EXCEPT ![k] = "proposed"] /\ Replies(m, "proposed")
     \/ /\ request[k] \in {"proposed", "confirmed"} /\ link # "revoked"
        /\ Replies(m, request[k]) /\ UNCHANGED request
  /\ UNCHANGED <<page, stored, blocked, link>>

\* Confirming anything else than what is confirmed is refused.
Confirm(m) ==
  /\ Arrives(m, "confirm") /\ link # "revoked"
  /\ LET k == calls[m].token IN
     \/ /\ request[k] \in Open /\ link = "open"
        /\ request' = [request EXCEPT ![k] = "confirmed"] /\ Replies(m, "confirmed")
     \/ request[k] \notin (Open \cup {"gone"}) /\ Replies(m, "other") /\ UNCHANGED request
  /\ UNCHANGED <<page, stored, blocked, link>>

\* The run of a request is created, or one between two attempts goes on.
Execute(m) ==
  /\ Arrives(m, "execute") /\ link # "revoked"
  /\ LET k == calls[m].token IN
     \/ /\ \/ request[k] = "retryable"
           \/ request[k] = "confirmed" /\ link = "open"
        /\ request' = [request EXCEPT ![k] = "processing"]
        /\ calls' = [calls EXCEPT ![m].at = "working"]
     \/ /\ request[k] \in {"processing", "completed", "failed"}
        /\ Replies(m, request[k]) /\ UNCHANGED request
  /\ UNCHANGED <<page, stored, blocked, link>>

Finish(m) ==
  /\ calls[m].at = "working" /\ request[calls[m].token] \in Ended
  /\ Replies(m, IF link = "revoked" THEN "fatal" ELSE request[calls[m].token])
  /\ UNCHANGED <<page, stored, blocked, server>>

RunEnds(k) ==
  /\ request[k] = "processing"
  /\ \E status \in Ended : request' = [request EXCEPT ![k] = status]
  /\ UNCHANGED <<page, calls, stored, blocked, link>>

\* A request that produced no run expires; the holder changes the link.
Expire(k) ==
  /\ request[k] \in Open
  /\ request' = [request EXCEPT ![k] = "gone"]
  /\ UNCHANGED <<page, calls, stored, blocked, link>>

ChangeLink ==
  /\ link # "revoked" /\ link' \in {"open", "disabled", "revoked"} \ {link}
  /\ UNCHANGED <<page, calls, stored, blocked, request>>

-----------------------------------------------------------------------------
Init ==
  /\ step = "loading" /\ session = NoToken /\ result = NoResult
  /\ busy = FALSE /\ executing = FALSE /\ items = "none" /\ enabled = FALSE
  /\ polling = NoToken /\ calls = Opening
  /\ stored = NoToken /\ blocked \in BOOLEAN
  /\ request = [k \in Drafts |-> "absent"] /\ link \in {"open", "disabled"}

Person ==
  \/ Reload \/ StartSession \/ EditItems \/ ConfirmRequirements \/ RunAnalysis
  \/ StartNewAnalysis

Continues ==
  \/ LoadedProfile \/ LoadedSession \/ LoadedResult \/ Created \/ Proposed \/ Confirmed
  \/ Executed \/ ReadInstead \/ Polled

Serve(m) ==
  \/ Refused(m) \/ Read(m) \/ Create(m) \/ Propose(m) \/ Confirm(m) \/ Execute(m) \/ Finish(m)

Next ==
  \/ Person \/ Continues \/ Tick
  \/ \E m \in Makers : Serve(m) \/ Lose(m)
  \/ \E k \in Drafts : RunEnds(k) \/ Expire(k)
  \/ ChangeLink

Spec == Init /\ [][Next]_vars

\* The server does what it is asked and the page handles every answer; of the
\* polls that are sent again and again, one is answered in the end.
Reached == (Read("poll") \/ Refused("poll")) /\ calls'["poll"].answer # "other"

Fairness ==
  /\ WF_vars(Continues) /\ WF_vars(Tick) /\ SF_vars(Reached)
  /\ \A m \in Makers : WF_vars(Serve(m))
  /\ \A k \in Drafts : WF_vars(RunEnds(k))

FairSpec == Spec /\ Fairness

-----------------------------------------------------------------------------
(* What must hold.  *)

\* Whatever answer comes late, after a reload or another analysis was begun, the
\* session and the result on the screen are of the request whose token is kept,
\* the one that every button acts on.
ShownIsStored ==
  stored # NoToken /\ step # "unavailable" => {session, result.of} \subseteq {NoToken, stored}

\* `busy' admits one action at a time and is given back by every one of them,
\* also by those that failed: no button stays disabled, none acts twice.
Acts == {"start", "confirm", "run"}
InProgress == {m \in Acts : calls[m] # NoCall}
OneAtATime ==
  /\ \A m, n \in InProgress : m = n
  /\ busy <=> InProgress # {}
  /\ executing <=> "run" \in InProgress

\* No step is reached without what its screen shows: a completed analysis is one
\* the server completed, a failure has its copy, an analysis that may be run has
\* a session, and whoever waits is polled for.
NeverBlank ==
  /\ step = "completed" => result.is = "completed" /\ request[result.of] = "completed"
  /\ step = "failed" => result.is \in {"retryable", "failed"}
  /\ step = "ready" /\ stored # NoToken => session # NoToken
  /\ step = "processing" => polling # NoToken

\* Who waits for an analysis is shown its end, or an error.
ProcessingEnds == step = "processing" ~> step # "processing"
=============================================================================
