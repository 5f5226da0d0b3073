---------------------------- MODULE AccountAccess ----------------------------
(***************************************************************************)
(* Accounts, sessions and the recovery of a password by a link:            *)
(* src/services/api/src/auth/auth.service.ts, auth/password-reset/         *)
(* password-reset.service.ts, background-task-runner.ts,                   *)
(* mail/resend-mail-transport.ts and identity/ensure-did-for-user.ts.      *)
(*                                                                         *)
(* A task is a request or a detached job in progress in the process.  The  *)
(* issue of a link and the consumption of one are transactions in READ     *)
(* COMMITTED: their statements are steps, an advisory lock serialises the  *)
(* issues, and a row written by an open transaction is locked until it     *)
(* ends.  A row deleted by the retention stays in `tokens' as a memory.    *)
(***************************************************************************)
EXTENDS Naturals, Sequences, FiniteSets

CONSTANTS
    Users,          \* addresses, with or without an account
    Passwords,      \* what a person may type
    Hosts,          \* values of PUBLIC_DID_BASE_URL
    Tasks,          \* requests and jobs that may be in progress at once
    Ops,            \* the operations an instance exercises
    Cooldown, AccountQuota, AccountWindow, GlobalQuota, GlobalWindow,
    Ttl, Retention, \* password-reset.limits.ts, in units of the clock
    MaxInFlight,    \* jobs a process keeps detached
    MaxTokens,      \* bound: links issued
    MaxTime         \* bound: the clock

NoPassword == "no password"
NoHost == "no host"
NoDid == "no did"
NoTask == "no task"
NoOne == "no one"

ASSUME SetsAssumption ==
    /\ IsFiniteSet(Users) /\ IsFiniteSet(Tasks) /\ Tasks # {} /\ Passwords # {}
    /\ NoTask \notin Tasks /\ NoPassword \notin Passwords /\ NoDid \notin Hosts
    /\ Ops \subseteq {"request", "confirm", "login", "register", "ensure", "suspend", "shutdown"}
ASSUME LimitsAssumption ==
    /\ {Cooldown, AccountQuota, AccountWindow, GlobalQuota, GlobalWindow, Ttl,
        MaxInFlight, MaxTokens, MaxTime} \subseteq Nat
    /\ Retention \in Nat /\ Retention >= AccountWindow /\ Retention >= GlobalWindow
    /\ Retention >= Ttl /\ Retention >= Cooldown

VARIABLES
    status,    \* User.status, or absent
    password,  \* what AuthCredential.passwordHash accepts
    version,   \* AuthCredential.sessionVersion
    did,       \* User.did
    tokens,    \* PasswordResetToken rows, in order of creation
    lock,      \* the advisory lock of the issue
    rowLock,   \* the open transaction that wrote a row
    mailbox,   \* links that reached their person
    sessions,  \* access tokens that were signed
    host,      \* PUBLIC_DID_BASE_URL, or none
    clock,     \* the time
    closing,   \* BackgroundTaskRunner.closing
    task       \* the work in progress

accounts == <<status, password, version, did>>
links == <<tokens, lock, rowLock, mailbox>>
vars == <<accounts, links, sessions, host, clock, closing, task>>

Rows == [user : Users, createdAt : 0..MaxTime, consumed : BOOLEAN, invalidated : BOOLEAN,
         deleted : BOOLEAN, consumedAt : 0..MaxTime]
Sessions == [user : Users, claim : BOOLEAN, sv : 0..MaxTokens, password : Passwords]

Idle == [op |-> "none", at |-> "idle", user |-> NoOne, password |-> NoPassword, sv |-> 0,
         token |-> 0, rows |-> {}, now |-> 0, host |-> NoHost, did |-> NoDid]

Index == 1..Len(tokens)
TokensOf(u) == {k \in Index : tokens[k].user = u /\ ~tokens[k].deleted}

\* consumedAt: null and invalidatedAt: null
LiveRow(k) == ~tokens[k].consumed /\ ~tokens[k].invalidated /\ ~tokens[k].deleted
LiveOf(u) == {k \in TokensOf(u) : LiveRow(k)}
Expires(k) == tokens[k].createdAt + Ttl
HasCredential(u) == password[u] # NoPassword
Eligible(u) == status[u] = "active" /\ HasCredential(u)

\* requireUsableToken
Usable(k) == LiveRow(k) /\ Expires(k) > clock /\ Eligible(tokens[k].user)

At(t, op, place) == task[t].op = op /\ task[t].at = place
Go(t, place) == task' = [task EXCEPT ![t].at = place]
End(t) == task' = [task EXCEPT ![t] = Idle]
Start(t, op, fields) ==
    /\ op \in Ops /\ task[t] = Idle
    /\ task' = [task EXCEPT ![t] = fields]

InFlight == {t \in Tasks : task[t].op = "request"}
Unlocked(rows) == \A k \in rows : rowLock[k] = NoTask
ReleaseRows(t) == rowLock' = [k \in 1..MaxTokens |-> IF rowLock[k] = t THEN NoTask ELSE rowLock[k]]
ReleaseLock(t) == lock' = IF lock = t THEN NoTask ELSE lock

\* Tokens signed before the claim existed carry none.
LegacySessions ==
    {[user |-> u, claim |-> FALSE, sv |-> 0, password |-> password[u]] :
        u \in {x \in Users : HasCredential(x)}}

Init ==
    /\ status \in [Users -> {"absent", "active"}]
    /\ password \in [Users -> Passwords \cup {NoPassword}]
    /\ \A u \in Users : status[u] = "absent" => ~HasCredential(u)
    /\ version = [u \in Users |-> 0]
    /\ did = [u \in Users |-> NoDid]
    /\ tokens = << >> /\ lock = NoTask /\ mailbox = {}
    /\ rowLock = [k \in 1..MaxTokens |-> NoTask]
    /\ sessions = LegacySessions
    /\ host \in Hosts \cup {NoHost}
    /\ clock = 0 /\ closing = FALSE
    /\ task = [t \in Tasks |-> Idle]

-----------------------------------------------------------------------------
(* Around the services: time, the operator and the life of the process.     *)

Tick ==
    /\ clock < MaxTime /\ clock' = clock + 1
    /\ UNCHANGED <<accounts, links, sessions, host, closing, task>>

StatusChanges(u) ==
    /\ "suspend" \in Ops /\ status[u] # "absent"
    /\ status' = [status EXCEPT ![u] = IF @ = "active" THEN "suspended" ELSE "active"]
    /\ UNCHANGED <<password, version, did, links, sessions, host, clock, closing, task>>

HostChanges(h) ==
    /\ "ensure" \in Ops /\ h # host /\ host' = h
    /\ UNCHANGED <<accounts, links, sessions, clock, closing, task>>

\* onModuleDestroy
BeginShutdown ==
    /\ "shutdown" \in Ops /\ ~closing /\ closing' = TRUE
    /\ UNCHANGED <<accounts, links, sessions, host, clock, task>>

\* The process ends, drained or not: open transactions roll back, the next one starts empty.
ProcessDies ==
    /\ \E t \in Tasks : task[t] # Idle \/ closing
    /\ task' = [t \in Tasks |-> Idle] /\ closing' = FALSE
    /\ lock' = NoTask /\ rowLock' = [k \in 1..MaxTokens |-> NoTask]
    /\ UNCHANGED <<accounts, tokens, mailbox, sessions, host, clock>>

-----------------------------------------------------------------------------
(* POST /auth/password-reset/request.                                       *)

\* requestReset: the answer is 202 whatever becomes of the job.
RequestReset(t, u) ==
    /\ ~closing /\ Cardinality(InFlight) < MaxInFlight
    /\ Len(tokens) + Cardinality(InFlight) < MaxTokens
    /\ Start(t, "request", [Idle EXCEPT !.op = "request", !.at = "started", !.user = u])
    /\ UNCHANGED <<accounts, links, sessions, host, clock, closing>>

ProcessRequest(t) ==
    /\ At(t, "request", "started")
    /\ IF Eligible(task[t].user) THEN Go(t, "waiting") ELSE End(t)
    /\ UNCHANGED <<accounts, links, sessions, host, clock, closing>>

InCooldown(u) == \E k \in TokensOf(u) : clock < tokens[k].createdAt + Cooldown
\* createdAt > now - window
Counted(rows, window) == {k \in rows : tokens[k].createdAt + window > clock}
Refused(u) ==
    \/ InCooldown(u)
    \/ Cardinality(Counted(TokensOf(u), AccountWindow)) >= AccountQuota
    \/ Cardinality(Counted(UNION {TokensOf(v) : v \in Users}, GlobalWindow)) >= GlobalQuota

\* Takes the lock, the time and the decision.
Reserve(t) ==
    /\ At(t, "request", "waiting") /\ lock = NoTask
    /\ IF Refused(task[t].user) THEN End(t) /\ UNCHANGED lock
       ELSE /\ task' = [task EXCEPT ![t].at = "invalidating", ![t].now = clock]
            /\ lock' = t
    /\ UNCHANGED <<accounts, tokens, rowLock, mailbox, sessions, host, clock, closing>>

\* The update waits for the rows of another transaction and reads them again.
InvalidateOlder(t) ==
    LET rows == LiveOf(task[t].user) IN
    /\ At(t, "request", "invalidating") /\ Unlocked(rows)
    /\ task' = [task EXCEPT ![t].at = "inserting", ![t].rows = rows]
    /\ rowLock' = [k \in 1..MaxTokens |-> IF k \in rows THEN t ELSE rowLock[k]]
    /\ UNCHANGED <<accounts, tokens, lock, mailbox, sessions, host, clock, closing>>

Outdated(t) == {k \in TokensOf(task[t].user) : tokens[k].createdAt + Retention < task[t].now}
NewRow(t) == [user |-> task[t].user, createdAt |-> task[t].now, consumed |-> FALSE,
              invalidated |-> FALSE, deleted |-> FALSE, consumedAt |-> 0]

\* Retention, insertion and commit; the answer of the commit may be lost.
CommitIssue(t) ==
    /\ At(t, "request", "inserting")
    /\ \A k \in Outdated(t) : rowLock[k] \in {NoTask, t}
    /\ tokens' = Append([k \in Index |->
                     [tokens[k] EXCEPT !.invalidated = @ \/ k \in task[t].rows,
                                       !.deleted = @ \/ k \in Outdated(t)]], NewRow(t))
    /\ ReleaseRows(t) /\ ReleaseLock(t)
    /\ \/ task' = [task EXCEPT ![t].at = "sending", ![t].token = Len(tokens) + 1]
       \/ End(t)
    /\ UNCHANGED <<accounts, mailbox, sessions, host, clock, closing>>

\* Mutant of IssueFails: a lock of the connection, which the rollback does not release.
SessionLevelLock(t) ==
    /\ \E place \in {"waiting", "invalidating", "inserting"} : At(t, "request", place)
    /\ End(t) /\ ReleaseRows(t)
    /\ UNCHANGED <<accounts, tokens, lock, mailbox, sessions, host, clock, closing>>
\* The open transaction of an issue fails: everything it did is undone.
IssueFails(t) ==
    /\ \E place \in {"waiting", "invalidating", "inserting"} : At(t, "request", place)
    /\ End(t) /\ ReleaseRows(t) /\ ReleaseLock(t)
    /\ UNCHANGED <<accounts, tokens, mailbox, sessions, host, clock, closing>>

\* How a call to the provider ends, and whether the message may have left.
Outcomes == {"accepted", "unreadable answer", "refused status", "other status",
             "no connection", "timeout", "network error"}
MayHaveLeft(outcome) == outcome \notin {"refused status", "no connection"}

\* settle and classifyTransportFailure
DeliveryKind(outcome) ==
    CASE outcome = "accepted" -> "sent"
      [] outcome = "refused status" -> "rejected"
      [] outcome = "no connection" -> "not_sent"
      [] OTHER -> "ambiguous"

Deliver(t, outcome) ==
    /\ At(t, "request", "sending")
    /\ \/ UNCHANGED mailbox
       \/ MayHaveLeft(outcome) /\ mailbox' = mailbox \cup {task[t].token}
    /\ outcome = "accepted" => mailbox' # mailbox
    /\ IF DeliveryKind(outcome) \in {"sent", "ambiguous"} THEN End(t) ELSE Go(t, "discarding")
    /\ UNCHANGED <<accounts, tokens, lock, rowLock, sessions, host, clock, closing>>

\* invalidateUndelivered: a failure is logged and forgotten.
InvalidateUndelivered(t) ==
    LET k == task[t].token IN
    /\ At(t, "request", "discarding") /\ Unlocked({k})
    /\ \/ tokens' = [tokens EXCEPT ![k].invalidated = @ \/ LiveRow(k)]
       \/ UNCHANGED tokens
    /\ End(t)
    /\ UNCHANGED <<accounts, lock, rowLock, mailbox, sessions, host, clock, closing>>

-----------------------------------------------------------------------------
(* POST /auth/password-reset/confirm.                                       *)

ConfirmReset(t, k, p) ==
    /\ k \in mailbox /\ Usable(k)
    /\ Start(t, "confirm", [Idle EXCEPT !.op = "confirm", !.at = "hashing", !.token = k,
                                        !.user = tokens[k].user, !.password = p, !.now = clock])
    /\ UNCHANGED <<accounts, links, sessions, host, clock, closing>>

\* Mutant of Consumable: the time is the one of the check before the hash.
CheckedBeforeHash(t) ==
    LET k == task[t].token IN
    LiveRow(k) /\ Expires(k) > task[t].now /\ status[task[t].user] = "active"
\* The where of the conditional update.
Consumable(t) ==
    LET k == task[t].token IN
    LiveRow(k) /\ Expires(k) > clock /\ status[task[t].user] = "active"

Consume(t) ==
    /\ At(t, "confirm", "hashing") /\ Unlocked({task[t].token})
    /\ IF Consumable(t)
       THEN /\ task' = [task EXCEPT ![t].at = "changing", ![t].now = clock]
            /\ rowLock' = [rowLock EXCEPT ![task[t].token] = t]
       ELSE End(t) /\ UNCHANGED rowLock
    /\ UNCHANGED <<accounts, tokens, lock, mailbox, sessions, host, clock, closing>>

NextVersion(u) == version[u] + 1

\* The credential, the other links of the account and the commit.
CommitReset(t) ==
    LET u == task[t].user
        others == LiveOf(u) \ {task[t].token} IN
    /\ At(t, "confirm", "changing") /\ Unlocked(others)
    /\ IF HasCredential(u)
       THEN /\ password' = [password EXCEPT ![u] = task[t].password]
            /\ version' = [version EXCEPT ![u] = NextVersion(u)]
            /\ tokens' = [k \in Index |->
                   [tokens[k] EXCEPT !.invalidated = @ \/ k \in others,
                                     !.consumedAt = IF k = task[t].token THEN task[t].now ELSE @,
                                     !.consumed = @ \/ k = task[t].token]]
       ELSE UNCHANGED <<password, version, tokens>>
    /\ ReleaseRows(t) /\ End(t)
    /\ UNCHANGED <<status, did, lock, mailbox, sessions, host, clock, closing>>

ResetFails(t) ==
    /\ At(t, "confirm", "hashing") \/ At(t, "confirm", "changing")
    /\ End(t) /\ ReleaseRows(t)
    /\ UNCHANGED <<accounts, tokens, lock, mailbox, sessions, host, clock, closing>>

-----------------------------------------------------------------------------
(* Sessions.                                                                *)

\* The row is read before the password is verified, which takes time.
Login(t, u, p) ==
    /\ Eligible(u) /\ password[u] = p
    /\ Start(t, "login", [Idle EXCEPT !.op = "login", !.at = "signing", !.user = u,
                                      !.password = p, !.sv = version[u]])
    /\ UNCHANGED <<accounts, links, sessions, host, clock, closing>>

SignedVersion(t) == task[t].sv

\* signAccessToken, of a login or of a registration
SignAccessToken(t) ==
    /\ At(t, "login", "signing") \/ At(t, "register", "signing")
    /\ sessions' = sessions \cup {[user |-> task[t].user, claim |-> TRUE,
                                   sv |-> SignedVersion(t), password |-> task[t].password]}
    /\ End(t)
    /\ UNCHANGED <<accounts, links, host, clock, closing>>

\* Mutant of PresentedVersion: a token without the claim is of any version.
AnyLegacyVersion(s) == IF s.claim THEN s.sv ELSE version[s.user]
\* readSessionVersionClaim, and 0 for a token that has none
PresentedVersion(s) == IF s.claim THEN s.sv ELSE 0

\* resolveAuthenticatedUser
Accepted(s) == status[s.user] = "active" /\ PresentedVersion(s) = version[s.user]

-----------------------------------------------------------------------------
(* Registration and the DID of the person.                                  *)

Register(t, u, p) ==
    /\ status[u] = "absent"
    /\ Start(t, "register", [Idle EXCEPT !.op = "register", !.at = "creating", !.user = u,
                                         !.password = p])
    /\ UNCHANGED <<accounts, links, sessions, host, clock, closing>>

\* The DID of a person is made of the host alone: the rest of it is the person.
DidAt(h) == IF h = NoHost THEN NoDid ELSE h

\* One transaction; a second user of the address is a conflict of the database.
CreateUser(t) ==
    LET u == task[t].user IN
    /\ At(t, "register", "creating")
    /\ IF status[u] = "absent"
       THEN /\ status' = [status EXCEPT ![u] = "active"]
            /\ password' = [password EXCEPT ![u] = task[t].password]
            /\ version' = [version EXCEPT ![u] = 0]
            /\ did' = [did EXCEPT ![u] = DidAt(host)]
            /\ task' = [task EXCEPT ![t].at = "signing", ![t].sv = 0]
       ELSE End(t) /\ UNCHANGED accounts
    /\ UNCHANGED <<links, sessions, host, clock, closing>>

\* ensureDidForUser, outside a transaction when a credential is issued
EnsureDid(t, u) ==
    /\ status[u] # "absent"
    /\ Start(t, "ensure",
             [Idle EXCEPT !.op = "ensure", !.user = u, !.host = host, !.did = did[u],
                          !.at = IF did[u] # NoDid \/ host = NoHost THEN "answered" ELSE "writing"])
    /\ UNCHANGED <<accounts, links, sessions, host, clock, closing>>

WriteDid(t) ==
    LET u == task[t].user
        candidate == DidAt(task[t].host) IN
    /\ At(t, "ensure", "writing")
    /\ IF did[u] = NoDid
       THEN /\ did' = [did EXCEPT ![u] = candidate]
            /\ task' = [task EXCEPT ![t].at = "answered", ![t].did = candidate]
       ELSE Go(t, "reloading") /\ UNCHANGED did
    /\ UNCHANGED <<status, password, version, links, sessions, host, clock, closing>>

ReloadDid(t) ==
    /\ At(t, "ensure", "reloading")
    /\ task' = [task EXCEPT ![t].at = "answered", ![t].did = did[task[t].user]]
    /\ UNCHANGED <<accounts, links, sessions, host, clock, closing>>

AnswerDid(t) ==
    /\ At(t, "ensure", "answered") /\ End(t)
    /\ UNCHANGED <<accounts, links, sessions, host, clock, closing>>

-----------------------------------------------------------------------------

Advance(t) ==
    \/ ProcessRequest(t) \/ Reserve(t) \/ InvalidateOlder(t) \/ CommitIssue(t)
    \/ InvalidateUndelivered(t) \/ \E o \in Outcomes : Deliver(t, o)
    \/ Consume(t) \/ CommitReset(t) \/ SignAccessToken(t)
    \/ CreateUser(t) \/ WriteDid(t) \/ ReloadDid(t) \/ AnswerDid(t)

Next ==
    \/ Tick \/ BeginShutdown \/ ProcessDies
    \/ \E u \in Users : StatusChanges(u)
    \/ \E h \in Hosts \cup {NoHost} : HostChanges(h)
    \/ \E t \in Tasks :
          \/ Advance(t) \/ IssueFails(t) \/ ResetFails(t)
          \/ \E u \in Users :
                \/ RequestReset(t, u) \/ EnsureDid(t, u)
                \/ \E p \in Passwords : Login(t, u, p) \/ Register(t, u, p)
          \/ \E k \in mailbox, p \in Passwords : ConfirmReset(t, k, p)

Spec == Init /\ [][Next]_vars

\* A started step of the process runs; a statement that waits for a lock gets it in the end.
Fairness == \A t \in Tasks : SF_vars(Advance(t))
FairSpec == Spec /\ Fairness

-----------------------------------------------------------------------------
(* What must hold.                                                          *)

\* The values each variable takes.
TypeOK ==
    /\ status \in [Users -> {"absent", "active", "suspended"}]
    /\ password \in [Users -> Passwords \cup {NoPassword}]
    /\ version \in [Users -> 0..MaxTokens]
    /\ did \in [Users -> Hosts \cup {NoDid}]
    /\ tokens \in Seq(Rows) /\ Len(tokens) <= MaxTokens
    /\ lock \in Tasks \cup {NoTask}
    /\ rowLock \in [1..MaxTokens -> Tasks \cup {NoTask}]
    /\ mailbox \subseteq Index
    /\ sessions \subseteq Sessions

\* Concurrent requests leave at most one link of an account that still opens it, whatever
\* the transactions of issue and of consumption interleave.
OneLiveLink == \A u \in Users : Cardinality(LiveOf(u)) <= 1

\* In no window, sliding over everything ever issued, were more links issued than the
\* quotas say: neither spending a link, nor failing to send it, nor the retention of old
\* rows gives a place back.
QuotasHold ==
    \A k \in Index :
        LET since(window) == {j \in 1..k : tokens[j].createdAt + window > tokens[k].createdAt}
            own(rows) == {j \in rows : tokens[j].user = tokens[k].user} IN
        /\ Cardinality(own(since(Cooldown))) <= 1
        /\ Cardinality(own(since(AccountWindow))) <= AccountQuota
        /\ Cardinality(since(GlobalWindow)) <= GlobalQuota

\* A password is changed by the last link that was issued to the account, never by one
\* that a later link had replaced, even when both transactions were open at once.
NewestLinkResets ==
    [][\A k \in Index : tokens'[k].consumed /\ ~tokens[k].consumed =>
          \A j \in Index : tokens[j].user = tokens[k].user => j <= k]_vars

\* No link is spent once it expired, however long the hash of the password took.
SpentInTime == \A k \in Index : tokens[k].consumed => tokens[k].consumedAt < Expires(k)

\* A link that reached its person only stops working because a later one was issued or the
\* password was reset: a delivery that failed in an uncertain way does not kill it.
DeliveredLinksLast ==
    \A k \in mailbox : tokens[k].invalidated =>
        \E j \in Index : tokens[j].user = tokens[k].user /\ (j > k \/ tokens[j].consumed)

\* Password, version and consumption change together: an account went through exactly as
\* many resets as links were spent on it.
VersionsCountResets ==
    \A u \in DOMAIN version :
        version[u] = Cardinality({k \in Index : tokens[k].user = u /\ tokens[k].consumed})

\* A session that is accepted was opened with the password the account has now: a login
\* that verified the old one while it was being reset opens nothing.
SessionsKnowThePassword ==
    \A s \in sessions : Accepted(s) => s.password = password[s.user]

\* A reset ends every session the account had, those signed before versions existed too.
ResetEndsSessions ==
    [][\A s \in sessions :
          (\E k \in Index : tokens[k].user = s.user /\ tokens'[k].consumed /\ ~tokens[k].consumed)
             => ~Accepted(s)']_vars

\* The password of an account that exists changes only when a link is spent: a second
\* registration of the same address changes nothing.
OnlyLinksChangePasswords ==
    [][\A u \in DOMAIN status : status[u] # "absent" /\ password'[u] # password[u] =>
          \E k \in Index : tokens[k].user = u /\ tokens'[k].consumed /\ ~tokens[k].consumed]_vars

\* A DID that was given to a person is never another one.
DidsAreForever == [][\A u \in DOMAIN did : did[u] # NoDid => did'[u] = did[u]]_vars

\* Whoever asked for the DID of a person while it was being provisioned for another host
\* is answered the one that was stored.
AnsweredDidsAreStored ==
    \A t \in DOMAIN task : At(t, "ensure", "answered") /\ task[t].did # NoDid =>
        task[t].did = did[task[t].user]

\* Links, sessions and DIDs agree with the accounts they are for, whatever requests
\* overlap and however late a mail is answered.
LinksAndSessionsAreTrue ==
    /\ OneLiveLink /\ SpentInTime /\ DeliveredLinksLast
    /\ VersionsCountResets /\ SessionsKnowThePassword /\ AnsweredDidsAreStored

\* A password changes only by the newest link, which ends every session that began
\* before; a DID does not change.
OnlyLinksReset ==
    NewestLinkResets /\ ResetEndsSessions /\ OnlyLinksChangePasswords /\ DidsAreForever

\* The lock of the issue always comes free and every request that was accepted ends:
\* issue and consumption do not wait for each other for ever.
LockComesFree == lock # NoTask ~> lock = NoTask
TasksEnd == \A t \in Tasks : task[t] # Idle ~> task[t] = Idle
=============================================================================
