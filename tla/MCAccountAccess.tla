-------------------------- MODULE MCAccountAccess --------------------------
(***************************************************************************)
(* Instances of AccountAccess and of MobileSession for TLC.  A behaviour   *)
(* picks one part and the others keep an initial state.  The accounts have *)
(* three choices of the constants: links that two people ask for and spend *)
(* along two windows of time (the module as it is extended here), one      *)
(* account whose password is reset while it is used, one address that      *)
(* registers and is given a DID while it is used.  The session on a        *)
(* telephone has two: with and without the button that retries.            *)
(***************************************************************************)
EXTENDS AccountAccess, TLC

CONSTANTS u1, u2, p1, p2, h1, h2, l1, l2, t1, t2, t3

VARIABLES
    part,
    state, route, token, epoch, storage, queue, cache, m_task, inFlight, signed,
    expired, closed, undeleted

holder == <<state, route, token, epoch, storage, queue, cache, m_task, inFlight,
            signed, expired, closed, undeleted>>

Resets == INSTANCE AccountAccess WITH
    Users <- {u1}, Passwords <- {p1, p2}, Hosts <- {h1}, Tasks <- {t1, t2, t3},
    Ops <- {"request", "confirm", "login", "suspend"}, Cooldown <- 0,
    AccountQuota <- 3, GlobalQuota <- 3, MaxInFlight <- 1, MaxTokens <- 2, MaxTime <- 1

Registrations == INSTANCE AccountAccess WITH
    Users <- {u1}, Passwords <- {p1, p2}, Hosts <- {h1, h2}, Tasks <- {t1, t2, t3},
    Ops <- {"register", "ensure", "login", "confirm", "request"}, Cooldown <- 0,
    AccountQuota <- 1, AccountWindow <- 1, GlobalQuota <- 1, GlobalWindow <- 1,
    Ttl <- 1, Retention <- 1, MaxInFlight <- 1, MaxTokens <- 1, MaxTime <- 0

Holder == INSTANCE MobileSession WITH
    Tasks <- {t1, t2, t3}, Ops <- {"restart", "login", "logout", "request"},
    MaxSessions <- 3, MaxEpoch <- 3, task <- m_task

Retries == INSTANCE MobileSession WITH
    Tasks <- {t1, t2}, Ops <- {"restart", "login", "logout", "retry", "request"},
    MaxSessions <- 2, MaxEpoch <- 3, task <- m_task

ASSUME InstancesAssumed ==
    /\ Resets!SetsAssumption /\ Resets!LimitsAssumption
    /\ Registrations!SetsAssumption /\ Registrations!LimitsAssumption
    /\ Holder!SessionAssumption /\ Retries!SessionAssumption

\* The accounts exist and nothing asks for a DID.
Registered ==
    /\ \A u \in DOMAIN status : status[u] = "active" /\ password[u] # NoPassword
    /\ host = NoHost

\* The application is closed: nothing is under way in it.
Closed ==
    /\ state = Holder!Is("unauthenticated") /\ route = "login" /\ queue = << >>
    /\ token = 0 /\ epoch = 0 /\ storage = 0 /\ signed = 0
    /\ cache = {} /\ expired = {} /\ closed = {} /\ undeleted = {}
    /\ m_task = [t \in {t1, t2, t3} |-> Holder!Idle] /\ inFlight = Holder!NoTask

InitAll ==
    \/ part = "links" /\ Init /\ Registered /\ Closed
    \/ part = "resets" /\ Resets!Init /\ Registered /\ Closed
    \/ part = "registrations" /\ Registrations!Init /\ Closed
    \/ part = "holder" /\ Init /\ Registered /\ Holder!Init
    \/ part = "retries" /\ Init /\ Registered /\ Retries!Init

NextLinks == part = "links" /\ Next /\ UNCHANGED <<part, holder>>
NextResets == part = "resets" /\ Resets!Next /\ UNCHANGED <<part, holder>>
NextRegistrations == part = "registrations" /\ Registrations!Next /\ UNCHANGED <<part, holder>>
NextHolder == part = "holder" /\ Holder!Next /\ UNCHANGED <<part, vars>>
NextRetries == part = "retries" /\ Retries!Next /\ UNCHANGED <<part, vars>>

NextAll == NextLinks \/ NextResets \/ NextRegistrations \/ NextHolder \/ NextRetries
SpecAll == InitAll /\ [][NextAll]_<<part, vars, holder>>

Symmetry == Permutations({u1, u2}) \cup Permutations({l1, l2}) \cup Permutations({t1, t2, t3})

-----------------------------------------------------------------------------
(* The properties that depend on who takes part; those of the accounts that  *)
(* do not (LinksAndSessionsAreTrue, OnlyLinksReset) are of the module.       *)

\* Every variable stays in its type.
PartsTypeOK ==
    CASE part = "resets" -> Resets!TypeOK
      [] part = "registrations" -> Registrations!TypeOK
      [] part = "retries" -> Retries!TypeOK
      [] OTHER -> TypeOK /\ (part = "holder" => Holder!TypeOK)

\* No window of the quotas ever holds more links than it may (AccountAccess).
QuotasAreKept == part = "links" => QuotasHold

\* A closed session is kept on the telephone only where its store refused to
\* delete it (MobileSession).
ClosedStaysOut == Holder!ClosedStaysOut

\* Where nobody retries a closed session is neither shown nor held until a
\* start opens it again.
LogoutWins == part = "holder" => Holder!LogoutWins

\* Where nobody retries the data of a holder goes with the session, unless the
\* store refused to delete the session.
CacheIsOfTheHolder == part = "holder" => Holder!CacheIsOfTheHolder

\* Where nobody retries the session shown, in memory and kept is one.
OneSession == part = "holder" => Holder!StoredIsShown /\ Holder!HeldIsShown

\* The telephone shows, uses and keeps one session, and after it was closed
\* none, however late the secure store and the API answer and whatever the
\* store fails to do, but for what it refuses to delete.
HolderSessionHolds ==
    ClosedStaysOut /\ LogoutWins /\ CacheIsOfTheHolder /\ OneSession

\* What each part of the access to an account must hold of its own: the types,
\* the quotas of the links, the session of the telephone.
AccessPartsHold == PartsTypeOK /\ QuotasAreKept /\ HolderSessionHolds
=============================================================================
