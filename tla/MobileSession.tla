---------------------------- MODULE MobileSession ----------------------------
(***************************************************************************)
(* The session of a holder on a telephone: src/apps/mobile/src/lib/auth/   *)
(* session-provider.tsx, and the screens that offer its operations         *)
(* (apps/mobile/app/index.tsx, login.tsx and (holder)/_layout.tsx).        *)
(*                                                                         *)
(* JavaScript runs one handler at a time, and a handler stops at every     *)
(* await.  A task is a handler in progress and a step of it is what runs   *)
(* between two awaits: until the secure store has done what it was asked,  *)
(* or until the answer of the API.  The secure store does what it is asked *)
(* in that order, and may fail at it: a write that fails is told, a read   *)
(* that fails finds nothing and a deletion that fails looks like one that  *)
(* was done (session-storage.ts).  An application that is killed leaves    *)
(* the rest undone.  Sessions are named by the number of the access token. *)
(***************************************************************************)
EXTENDS Naturals, Sequences, FiniteSets

CONSTANTS
  Tasks,       \* handlers that may be in progress at once
  Ops,         \* the operations an instance exercises
  MaxSessions, \* bound: access tokens the API signs
  MaxEpoch     \* bound: sessionEpochRef when an operation begins

NoTask == "no task"

SessionAssumption ==
  /\ IsFiniteSet(Tasks) /\ NoTask \notin Tasks
  /\ MaxSessions \in Nat \ {0} /\ MaxEpoch \in Nat
  /\ Ops \subseteq {"restart", "login", "logout", "retry", "request"}

VARIABLES
  state,    \* AuthSessionState: its status, and the session it shows
  route,    \* the screen
  token,    \* accessTokenRef
  epoch,    \* sessionEpochRef
  storage,  \* the access token in the secure store
  queue,    \* tasks that wait for the secure store
  cache,    \* sessions whose data is in the query cache
  task,     \* the handlers in progress
  inFlight, \* authenticationInFlightRef
  signed,   \* access tokens the API signed
  expired,  \* access tokens the API refuses
  closed,   \* sessions their holder closed and no start opened again (history)
  undeleted \* access tokens the secure store refused to delete (history)

vars == <<state, route, token, epoch, storage, queue, cache, task, inFlight,
          signed, expired, closed, undeleted>>
server == <<signed, expired>>
history == <<closed, undeleted>>

NoToken == 0
Idle == [op |-> "none", at |-> "idle", token |-> NoToken, epoch |-> 0]

Statuses == {"booting", "authenticating", "authenticated", "recoverable-error",
             "unauthenticated"}
Is(status) == [is |-> status, of |-> NoToken]
Authenticated(k) == [is |-> "authenticated", of |-> k]

TypeOK ==
  /\ state \in [is : Statuses, of : 0..MaxSessions]
  /\ route \in {"index", "login", "holder"}
  /\ token \in 0..MaxSessions /\ storage \in 0..MaxSessions
  /\ epoch \in 0..(MaxEpoch + 1 + Cardinality(Tasks))
  /\ queue \in Seq(Tasks)
  /\ cache \subseteq 1..MaxSessions
  /\ task \in [Tasks -> [op : {"none", "restore"} \cup Ops,
                         at : {"idle", "reading", "setting", "clearing", "posting", "me", "sent"},
                         token : 0..MaxSessions,
                         epoch : 0..(MaxEpoch + 1 + Cardinality(Tasks))]]
  /\ inFlight \in Tasks \cup {NoTask}
  /\ signed \in 0..MaxSessions /\ expired \subseteq 1..MaxSessions
  /\ closed \subseteq 1..MaxSessions /\ undeleted \subseteq 1..MaxSessions

\* Redirect: where the screens send a person once the state is s.
Screen(s) ==
  CASE s.is = "unauthenticated" -> "login"
    [] s.is = "authenticated" -> "holder"
    [] OTHER -> route

Show(s) == state' = s /\ route' = Screen(s)

Waits(t) == \E i \in 1..Len(queue) : queue[i] = t
Turn(t, at) == queue # <<>> /\ Head(queue) = t /\ task[t].at = at
Goes(t, step) == task' = [task EXCEPT ![t] = step]
Ends(t) ==
  /\ Goes(t, Idle)
  /\ inFlight' = IF inFlight = t THEN NoTask ELSE inFlight

\* clearSession until its await.
Clear(t, step) ==
  /\ epoch' = epoch + 1 /\ token' = NoToken
  /\ Goes(t, [step EXCEPT !.at = "clearing"])
  /\ queue' = Append(IF Waits(t) THEN Tail(queue) ELSE queue, t)

\* resolveSession until its await.
Resolve(t, k, expected) ==
  Goes(t, [task[t] EXCEPT !.at = "me", !.token = k, !.epoch = expected])

-----------------------------------------------------------------------------
(* What the holder does.  *)

Start(t, op) == [Idle EXCEPT !.op = op, !.epoch = epoch]
May(t, op) == op \in Ops /\ task[t] = Idle /\ epoch <= MaxEpoch

\* The application is opened, on its first screen or by a link to another:
\* nothing of its memory is left, and the first task restores the session.
Opening(t) ==
  [u \in Tasks |-> IF u = t THEN [Idle EXCEPT !.op = "restore", !.at = "reading"] ELSE Idle]

Restart(t) ==
  /\ "restart" \in Ops
  /\ state' = Is("booting") /\ route' \in {"index", "holder"}
  /\ token' = NoToken /\ epoch' = 0 /\ cache' = {}
  /\ task' = Opening(t) /\ queue' = <<t>> /\ inFlight' = NoTask
  /\ UNCHANGED <<storage, server, history>>

\* login and register: the second of two at once gets the promise of the first.
Login(t) ==
  /\ May(t, "login") /\ route = "login" /\ state.is # "authenticating" /\ inFlight = NoTask
  /\ signed < MaxSessions
  /\ epoch' = epoch + 1 /\ token' = NoToken /\ cache' = {}
  /\ Show(Is("authenticating"))
  /\ inFlight' = t
  /\ Goes(t, [Start(t, "login") EXCEPT !.at = "posting", !.epoch = epoch + 1])
  /\ UNCHANGED <<storage, queue, server, history>>

\* The first screen offers it after an error, the account menu otherwise.
Logout(t) ==
  /\ May(t, "logout")
  /\ \/ route = "index" /\ state.is = "recoverable-error"
     \/ route = "holder" /\ state.is = "authenticated"
  /\ Clear(t, [Start(t, "logout") EXCEPT !.token = state.of])
  /\ UNCHANGED <<state, route, storage, cache, inFlight, server, history>>

Retry(t) ==
  /\ May(t, "retry") /\ route = "index" /\ state.is = "recoverable-error"
  /\ IF token # NoToken
     THEN /\ Goes(t, [Start(t, "retry") EXCEPT !.at = "me", !.token = token])
          /\ Show(Is("booting")) /\ UNCHANGED queue
     ELSE /\ Goes(t, [Start(t, "retry") EXCEPT !.at = "reading"])
          /\ queue' = Append(queue, t) /\ UNCHANGED <<state, route>>
  /\ UNCHANGED <<token, epoch, storage, cache, inFlight, server, history>>

\* requestAuthenticated, of a screen of the holder.
Request(t) ==
  /\ May(t, "request") /\ route = "holder" /\ state.is = "authenticated"
  /\ IF token # NoToken
     THEN Goes(t, [Start(t, "request") EXCEPT !.at = "sent", !.token = token]) /\ UNCHANGED queue
     ELSE /\ Goes(t, [Start(t, "request") EXCEPT !.at = "reading"])
          /\ queue' = Append(queue, t)
  /\ UNCHANGED <<state, route, token, epoch, storage, cache, inFlight, server, history>>

-----------------------------------------------------------------------------
(* The secure store answers the task that asked first.  *)

\* What getAccessToken finds: a read that fails finds nothing.
Found == {storage, NoToken}

\* restore: an answer for another epoch is left alone.
RestoreRead(t) ==
  /\ Turn(t, "reading") /\ task[t].op = "restore"
  /\ \E k \in Found :
       IF task[t].epoch = epoch /\ k # NoToken
       THEN Resolve(t, k, epoch) /\ UNCHANGED <<state, route, inFlight>>
       ELSE /\ Ends(t)
            /\ IF task[t].epoch = epoch THEN Show(Is("unauthenticated"))
               ELSE UNCHANGED <<state, route>>
  /\ queue' = Tail(queue)
  /\ UNCHANGED <<token, epoch, storage, cache, server, history>>

\* retry: the epoch is the one of now, not the one it was asked in.
RetryRead(t) ==
  /\ Turn(t, "reading") /\ task[t].op = "retry"
  /\ \E k \in Found :
       IF k = NoToken
       THEN Show(Is("unauthenticated")) /\ Ends(t)
       ELSE Show(Is("booting")) /\ Resolve(t, k, epoch) /\ UNCHANGED inFlight
  /\ queue' = Tail(queue)
  /\ UNCHANGED <<token, epoch, storage, cache, server, history>>

RequestRead(t) ==
  /\ Turn(t, "reading") /\ task[t].op = "request"
  /\ \E k \in Found :
       IF k = NoToken
       THEN Clear(t, task[t])
       ELSE /\ Goes(t, [task[t] EXCEPT !.at = "sent", !.token = k, !.epoch = epoch])
            /\ queue' = Tail(queue) /\ UNCHANGED <<token, epoch>>
  /\ UNCHANGED <<state, route, storage, cache, inFlight, server, history>>

\* setAccessToken of a login, which may fail.
TokenStored(t) ==
  /\ Turn(t, "setting")
  /\ \/ /\ storage' = task[t].token
        /\ queue' = Tail(queue) /\ Ends(t)
        /\ IF task[t].epoch = epoch
           THEN token' = task[t].token /\ Show(Authenticated(task[t].token))
           ELSE UNCHANGED <<token, state, route>>
        /\ UNCHANGED epoch
     \/ /\ task[t].epoch = epoch
        /\ Clear(t, task[t]) /\ UNCHANGED <<state, route, storage, inFlight>>
     \/ /\ task[t].epoch # epoch
        /\ queue' = Tail(queue) /\ Ends(t)
        /\ UNCHANGED <<state, route, token, epoch, storage>>
  /\ UNCHANGED <<cache, server, history>>

\* A deletion that fails is not told: the rest goes on as if it were done.
Delete ==
  \/ storage' = NoToken /\ UNCHANGED undeleted
  \/ /\ storage # NoToken
     /\ undeleted' = undeleted \cup {storage} /\ UNCHANGED storage

\* clearSession from its await to the end of its caller.
Cleared(t) ==
  /\ Turn(t, "clearing")
  /\ Delete /\ cache' = {}
  /\ Show(Is("unauthenticated"))
  /\ closed' = IF task[t].op = "logout" THEN closed \cup ({storage, task[t].token} \ {NoToken})
               ELSE closed
  /\ queue' = Tail(queue) /\ Ends(t)
  /\ UNCHANGED <<token, epoch, server>>

-----------------------------------------------------------------------------
(* The API answers.  It may be out of reach at any time.  *)

\* POST /auth/login or /auth/register: an access token.
LoginAccepted(t) ==
  /\ task[t].at = "posting"
  /\ signed' = signed + 1
  /\ IF task[t].epoch = epoch
     THEN /\ Goes(t, [task[t] EXCEPT !.at = "setting", !.token = signed'])
          /\ queue' = Append(queue, t) /\ UNCHANGED inFlight
     ELSE Ends(t) /\ UNCHANGED queue
  /\ UNCHANGED <<state, route, token, epoch, storage, cache, expired, history>>

LoginFailed(t) ==
  /\ task[t].at = "posting"
  /\ IF task[t].epoch = epoch
     THEN Clear(t, task[t]) /\ UNCHANGED inFlight
     ELSE Ends(t) /\ UNCHANGED <<token, epoch, queue>>
  /\ UNCHANGED <<state, route, storage, cache, server, history>>

\* GET /auth/me: the person, a refusal, or an error that may pass.
MeAnswered(t) ==
  /\ task[t].at = "me"
  /\ IF task[t].epoch = epoch
     THEN /\ token' = task[t].token /\ Show(Authenticated(task[t].token))
          /\ closed' = IF task[t].op = "restore" THEN closed \ {task[t].token} ELSE closed
     ELSE UNCHANGED <<token, state, route, closed>>
  /\ Ends(t)
  /\ UNCHANGED <<epoch, storage, queue, cache, server, undeleted>>

MeRefused(t) ==
  /\ task[t].at = "me" /\ task[t].token \in expired
  /\ IF task[t].epoch = epoch
     THEN Clear(t, task[t]) /\ UNCHANGED inFlight
     ELSE Ends(t) /\ UNCHANGED <<token, epoch, queue>>
  /\ UNCHANGED <<state, route, storage, cache, server, history>>

MeFailed(t) ==
  /\ task[t].at = "me"
  /\ IF task[t].epoch = epoch THEN Show(Is("recoverable-error"))
     ELSE UNCHANGED <<state, route>>
  /\ Ends(t)
  /\ UNCHANGED <<token, epoch, storage, queue, cache, server, history>>

\* A variant without the epoch.
StaleByToken(t) == token # NoToken /\ token # task[t].token

\* The answer is of a session that is no longer the one of the application.
Stale(t) == task[t].epoch # epoch \/ (token # NoToken /\ token # task[t].token)

\* The data enters the cache; an error other than 401 changes nothing.
RequestAnswered(t) ==
  /\ task[t].at = "sent"
  /\ \/ cache' = IF Stale(t) THEN cache ELSE cache \cup {task[t].token}
     \/ cache' = cache
  /\ Ends(t)
  /\ UNCHANGED <<state, route, token, epoch, storage, queue, server, history>>

RequestRefused(t) ==
  /\ task[t].at = "sent" /\ task[t].token \in expired
  /\ IF task[t].epoch = epoch /\ token = task[t].token
     THEN Clear(t, task[t]) /\ UNCHANGED inFlight
     ELSE Ends(t) /\ UNCHANGED <<token, epoch, queue>>
  /\ UNCHANGED <<state, route, storage, cache, server, history>>

\* A token runs out, or its account is suspended.
Expire(k) ==
  /\ k <= signed /\ k \notin expired
  /\ expired' = expired \cup {k}
  /\ UNCHANGED <<state, route, token, epoch, storage, queue, cache, task, inFlight,
                 signed, history>>

-----------------------------------------------------------------------------
Init ==
  /\ state = Is("booting") /\ route \in {"index", "holder"}
  /\ token = NoToken /\ epoch = 0 /\ cache = {} /\ inFlight = NoTask
  /\ \E t \in Tasks : task = Opening(t) /\ queue = <<t>>
  /\ signed \in {0, 1} /\ storage = signed /\ expired = {}
  /\ closed = {} /\ undeleted = {}

Answers(t) ==
  \/ RestoreRead(t) \/ RetryRead(t) \/ RequestRead(t) \/ TokenStored(t) \/ Cleared(t)
  \/ LoginAccepted(t) \/ LoginFailed(t) \/ MeAnswered(t) \/ MeRefused(t) \/ MeFailed(t)
  \/ RequestAnswered(t) \/ RequestRefused(t)

Next ==
  \/ \E t \in Tasks :
       Restart(t) \/ Login(t) \/ Logout(t) \/ Retry(t) \/ Request(t) \/ Answers(t)
  \/ \E k \in 1..MaxSessions : Expire(k)

Spec == Init /\ [][Next]_vars

Fairness == \A t \in Tasks : WF_vars(Answers(t))
FairSpec == Spec /\ Fairness

-----------------------------------------------------------------------------
(* What must hold.  The first four do as long as nobody retries (README,    *)
(* Findings).                                                              *)

\* "Un logout debe ganar incluso si /auth/me o una peticion de datos termina
\* despues" (session-provider.tsx:94): a session its holder closed is neither
\* shown nor held in memory again while the application stays open, whatever
\* answers late and whatever the secure store failed to do.  Only a start opens
\* it again, where the store kept it (ClosedStaysOut).
LogoutWins == closed \cap {state.of, token} = {}

\* Data of a holder is in the cache only while that session is shown, however
\* late the answers come (queryClient.clear, the epoch and the two tokens).  The
\* exception is a session the store refused to delete: a request that asks for
\* the token while the session is being cleared then still finds it.
CacheIsOfTheHolder == cache \subseteq {state.of} \cup undeleted

\* Between two uses of the secure store the session that is shown is the one
\* that opens the application the next time: none is shown that was lost, or
\* that another login replaced.
StoredIsShown == state.is = "authenticated" /\ queue = << >> => storage = state.of

\* The token in memory, that requests are sent with, is of the session that is
\* shown, whichever of two operations answers last.
HeldIsShown == token # NoToken => state = Authenticated(token)

\* A closed session is not in the secure store, so that it does not come back
\* when the application is opened again, unless the store itself refused to
\* delete it: no order of the operations keeps one or writes one back.
ClosedStaysOut == storage \in closed => storage \in undeleted

\* A restoration or a login ends, whatever screen it began on.
RestoreEnds ==
  LET restoring == state.is \in {"booting", "authenticating"} IN restoring ~> ~restoring

\* Who sees "Validando tu acceso" on the first screen, or waits for a login,
\* comes in, is sent to sign in, or is offered to retry or to sign in.  A link
\* to a screen of the holder is left out: after an error that may pass that
\* screen goes on saying it and offers nothing ((holder)/_layout.tsx:32).
BootEnds ==
  state.is \in {"booting", "authenticating"} /\ route # "holder"
    ~> \/ state.is \in {"authenticated", "unauthenticated"}
       \/ state.is = "recoverable-error" /\ route # "holder"
=============================================================================
