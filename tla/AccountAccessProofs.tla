------------------------- MODULE AccountAccessProofs -------------------------
(***************************************************************************)
(* The links, the sessions and the DIDs of AccountAccess agree with the    *)
(* accounts they are for, and no window of the quotas holds more links     *)
(* than it may, for any people, passwords, hosts, requests in progress,    *)
(* operations, limits and bounds.                                          *)
(*                                                                         *)
(* What a transaction may rely on is what it locked: the lock of the issue *)
(* keeps the set of links as it was counted, and a row that an open        *)
(* transaction wrote is live, or dead, until that transaction ends.        *)
(*                                                                         *)
(* The second part is about the session of a holder on a telephone         *)
(* (MobileSession): a closed session is not kept, for any handlers and     *)
(* operations; and where nobody retries it is neither shown nor used, and  *)
(* what is shown, held and kept is one session.                            *)
(***************************************************************************)
EXTENDS AccountAccess, SequenceTheorems, FiniteSetTheorems, TLAPS

Places == {"idle", "started", "waiting", "invalidating", "inserting", "sending",
           "discarding", "hashing", "changing", "signing", "creating", "answered",
           "writing", "reloading"}

TaskRecords ==
    [op : {"none", "request", "confirm", "login", "register", "ensure"}, at : Places,
     user : Users \cup {NoOne}, password : Passwords \cup {NoPassword}, sv : Nat,
     token : Nat, rows : SUBSET Nat, now : 0..MaxTime, host : Hosts \cup {NoHost},
     did : Hosts \cup {NoDid}]

\* A token without the claim carries no version.
SessionRecords ==
    {s \in [user : Users, claim : BOOLEAN, sv : Nat, password : Passwords] : s.claim \/ s.sv = 0}

\* A request that may still insert a row.
Pending == {t \in Tasks : task[t].op = "request"
              /\ task[t].at \in {"started", "waiting", "invalidating", "inserting"}}

\* The types, without the bounds that follow from counting.
TypeInv ==
    /\ status \in [Users -> {"absent", "active", "suspended"}]
    /\ password \in [Users -> Passwords \cup {NoPassword}]
    /\ version \in [Users -> Nat]
    /\ did \in [Users -> Hosts \cup {NoDid}]
    /\ tokens \in Seq(Rows)
    /\ lock \in Tasks \cup {NoTask}
    /\ rowLock \in [1..MaxTokens -> Tasks \cup {NoTask}]
    /\ mailbox \subseteq Index
    /\ sessions \subseteq SessionRecords
    /\ host \in Hosts \cup {NoHost}
    /\ clock \in 0..MaxTime
    /\ task \in [Tasks -> TaskRecords]

\* Every request that may insert has a row left.
CapInv == Len(tokens) + Cardinality(Pending) <= MaxTokens

-----------------------------------------------------------------------------
(* What the rows say of each other.                                         *)

\* An address without an account has nothing.
AbsentInv ==
    \A u \in Users : status[u] = "absent" =>
        /\ ~HasCredential(u) /\ did[u] = NoDid
        /\ \A k \in Index : tokens[k].user # u
        /\ \A s \in sessions : s.user # u

\* A link that opens an account is the newest of the account.
NewestInv ==
    \A k, j \in Index : LiveRow(k) /\ tokens[j].user = tokens[k].user => j <= k

\* What spent a link was in time.
SpentInv == \A k \in Index : tokens[k].consumed => tokens[k].consumedAt < Expires(k)

Spent(u) == {k \in Index : tokens[k].user = u /\ tokens[k].consumed}

CountInv == \A u \in Users : version[u] = Cardinality(Spent(u))

\* A session is of a version the account had; of the version it has only if it
\* was opened with the password it has.
SessionInv ==
    \A s \in sessions :
        /\ PresentedVersion(s) <= version[s.user]
        /\ PresentedVersion(s) = version[s.user] => s.password = password[s.user]

\* Rows are in the order of their times, and a deleted one is older than the
\* retention.
OrderInv ==
    /\ \A k \in Index : tokens[k].createdAt <= clock
    /\ \A j, k \in Index : j <= k => tokens[j].createdAt <= tokens[k].createdAt
    /\ \A k \in Index : tokens[k].deleted => tokens[k].createdAt + Retention < clock

RowInv ==
    AbsentInv /\ NewestInv /\ SpentInv /\ CountInv /\ SessionInv /\ OrderInv /\ QuotasHold

-----------------------------------------------------------------------------
(* What the locks say of the tasks.                                         *)

Issuing(t) == task[t].op = "request" /\ task[t].at \in {"invalidating", "inserting"}
Holds(t, k) ==
    \/ At(t, "request", "inserting") /\ k \in task[t].rows
    \/ At(t, "confirm", "changing") /\ k = task[t].token
Mailing(t) == task[t].op = "request" /\ task[t].at \in {"sending", "discarding"}

\* What a link that was invalidated gave way to.
Replaced(k) ==
    \E j \in Index : tokens[j].user = tokens[k].user /\ (j > k \/ tokens[j].consumed)

LockInv ==
    /\ \A t \in Tasks : lock = t => Issuing(t)
    /\ \A k \in 1..MaxTokens : \A t \in Tasks : rowLock[k] = t => Holds(t, k)
    /\ \A t, u \in Tasks : Mailing(t) /\ Mailing(u) /\ t # u => task[t].token # task[u].token
    /\ \A k \in Index : tokens[k].invalidated =>
          \/ Replaced(k)
          \/ k \notin mailbox /\ \A t \in Tasks : At(t, "request", "sending") => task[t].token # k

-----------------------------------------------------------------------------
(* What a task may rely on.                                                 *)

\* The quotas had room when the lock was taken.
OwnSince(u, window, now) ==
    {k \in Index : tokens[k].user = u /\ tokens[k].createdAt + window > now}
AllSince(window, now) == {k \in Index : tokens[k].createdAt + window > now}

Room(t) ==
    LET u == task[t].user
        now == task[t].now IN
    /\ now <= clock
    /\ \A k \in Index : tokens[k].createdAt <= now
    /\ \A k \in Index : tokens[k].deleted => tokens[k].createdAt + Retention < now
    /\ \A k \in Index : tokens[k].user = u => tokens[k].createdAt + Cooldown <= now
    /\ Cardinality(OwnSince(u, AccountWindow, now)) < AccountQuota
    /\ Cardinality(AllSince(GlobalWindow, now)) < GlobalQuota

RequestInv(t) ==
    /\ task[t].user \in Users
    /\ task[t].at # "started" => status[task[t].user] # "absent"
    /\ Issuing(t) => lock = t /\ Room(t)
    /\ task[t].at = "inserting" =>
          /\ task[t].rows \subseteq Index
          /\ \A k \in task[t].rows : tokens[k].user = task[t].user /\ rowLock[k] = t
          /\ LiveOf(task[t].user) \subseteq task[t].rows
    /\ Mailing(t) =>
          /\ task[t].token \in Index /\ task[t].token \notin mailbox
          /\ tokens[task[t].token].user = task[t].user

ConfirmInv(t) ==
    /\ task[t].password \in Passwords
    /\ task[t].token \in Index /\ task[t].user = tokens[task[t].token].user
    /\ task[t].at = "changing" =>
          /\ rowLock[task[t].token] = t /\ LiveRow(task[t].token)
          /\ task[t].now < Expires(task[t].token)

\* What was read with a password is of an older version, or current.
SigningInv(t) ==
    LET u == task[t].user IN
    /\ u \in Users /\ status[u] # "absent" /\ task[t].password \in Passwords
    /\ task[t].sv <= version[u]
    /\ task[t].sv = version[u] => task[t].password = password[u]

EnsureInv(t) ==
    LET u == task[t].user IN
    /\ u \in Users /\ status[u] # "absent"
    /\ task[t].at = "writing" => task[t].host # NoHost
    /\ task[t].at = "answered" /\ task[t].did # NoDid => task[t].did = did[u]

PlacesOf(op) ==
    CASE op = "none" -> {"idle"}
      [] op = "request" -> {"started", "waiting", "invalidating", "inserting", "sending",
                            "discarding"}
      [] op = "confirm" -> {"hashing", "changing"}
      [] op = "login" -> {"signing"}
      [] op = "register" -> {"creating", "signing"}
      [] op = "ensure" -> {"answered", "writing", "reloading"}

TaskInv(t) ==
    /\ task[t].at \in PlacesOf(task[t].op)
    /\ task[t].op = "request" => RequestInv(t)
    /\ task[t].op = "confirm" => ConfirmInv(t)
    /\ task[t].at = "signing" => SigningInv(t)
    /\ task[t].at = "creating" => task[t].user \in Users /\ task[t].password \in Passwords
    /\ task[t].op = "ensure" => EnsureInv(t)

Inv == TypeInv /\ CapInv /\ RowInv /\ LockInv /\ \A t \in Tasks : TaskInv(t)

-----------------------------------------------------------------------------
(* What a step never takes back, what changes a password, and what a step   *)
(* leaves to the tasks it is not of.                                        *)

Spends(k) == tokens'[k].consumed /\ ~tokens[k].consumed

Steady ==
    /\ \A u \in Users :
        /\ status[u] # "absent" => status'[u] # "absent"
        /\ did[u] # NoDid => did'[u] = did[u]
        /\ status[u] # "absent" =>
              /\ version[u] <= version'[u]
              /\ version'[u] = version[u] => password'[u] = password[u]
              /\ password'[u] # password[u] =>
                    \E k \in Index : tokens[k].user = u /\ Spends(k)
    /\ clock <= clock'
    /\ \A k \in Index :
        /\ k \in Index'
        /\ tokens'[k].user = tokens[k].user /\ tokens'[k].createdAt = tokens[k].createdAt
        /\ LiveRow(k)' => LiveRow(k)
        /\ Spends(k) => LiveRow(k) /\ version[tokens[k].user] < version'[tokens[k].user]

Spares(t) ==
    /\ lock = t => /\ lock' = t /\ Len(tokens') = Len(tokens)
                   /\ \A k \in Index : tokens'[k].deleted = tokens[k].deleted
    /\ \A k \in 1..MaxTokens : rowLock[k] = t =>
          rowLock'[k] = t /\ (k \in Index /\ LiveRow(k) => LiveRow(k)')
    /\ Mailing(t) /\ task[t].token \in mailbox' => task[t].token \in mailbox

-----------------------------------------------------------------------------
(* Facts about the constants and the rows.                                  *)

LEMMA Constants ==
    /\ Cooldown \in Nat /\ AccountQuota \in Nat /\ AccountWindow \in Nat
    /\ GlobalQuota \in Nat /\ GlobalWindow \in Nat /\ Ttl \in Nat
    /\ MaxInFlight \in Nat /\ MaxTokens \in Nat /\ MaxTime \in Nat /\ Retention \in Nat
    /\ Retention >= AccountWindow /\ Retention >= GlobalWindow /\ Retention >= Cooldown
    /\ NoTask \notin Tasks /\ NoPassword \notin Passwords /\ NoDid \notin Hosts
    /\ IsFiniteSet(Users) /\ IsFiniteSet(Tasks)
    /\ Idle \in TaskRecords
<1>1. /\ Cooldown \in Nat /\ AccountQuota \in Nat /\ AccountWindow \in Nat
      /\ GlobalQuota \in Nat /\ GlobalWindow \in Nat /\ Ttl \in Nat
      /\ MaxInFlight \in Nat /\ MaxTokens \in Nat /\ MaxTime \in Nat /\ Retention \in Nat
      /\ Retention >= AccountWindow /\ Retention >= GlobalWindow /\ Retention >= Cooldown
  BY LimitsAssumption
<1>2. /\ NoTask \notin Tasks /\ NoPassword \notin Passwords /\ NoDid \notin Hosts
      /\ IsFiniteSet(Users) /\ IsFiniteSet(Tasks)
  BY SetsAssumption
<1>3. 0 \in 0..MaxTime
  BY <1>1
<1>4. Idle \in TaskRecords
  BY <1>3 DEF Idle, TaskRecords, Places
<1> QED
  BY <1>1, <1>2, <1>4

LEMMA Rows0 ==
    ASSUME TypeInv
    PROVE  /\ Len(tokens) \in Nat /\ DOMAIN tokens = Index /\ Index \subseteq Nat
           /\ IsFiniteSet(Index) /\ Cardinality(Index) = Len(tokens)
           /\ \A k \in Index : /\ tokens[k] \in Rows /\ tokens[k].user \in Users
                               /\ tokens[k].createdAt \in Nat /\ tokens[k].consumedAt \in Nat
                               /\ tokens[k].consumed \in BOOLEAN
                               /\ tokens[k].invalidated \in BOOLEAN
                               /\ tokens[k].deleted \in BOOLEAN
<1>1. tokens \in Seq(Rows)
  BY DEF TypeInv
<1>2. Len(tokens) \in Nat /\ DOMAIN tokens = Index
  BY <1>1, LenProperties DEF Index
<1>3. \A k \in Index : tokens[k] \in Rows
  BY <1>1, ElementOfSeq DEF Index
<1>4. IsFiniteSet(Index) /\ Cardinality(Index) = Len(tokens)
  <2>1. PICK n \in Nat : n = Len(tokens)
    BY <1>2
  <2>2. 1 \in Int /\ n \in Int
    OBVIOUS
  <2>3. IsFiniteSet(1..n) /\ Cardinality(1..n) = IF 1 > n THEN 0 ELSE n - 1 + 1
    BY <2>2, FS_Interval
  <2> QED
    BY <2>1, <2>3 DEF Index
<1>5. Index \subseteq Nat
  BY <1>2 DEF Index
<1>6. \A k \in 0..MaxTime : k \in Nat
  OBVIOUS
<1>7. \A k \in Index : /\ tokens[k].user \in Users
                       /\ tokens[k].createdAt \in 0..MaxTime /\ tokens[k].consumedAt \in 0..MaxTime
                       /\ tokens[k].consumed \in BOOLEAN
                       /\ tokens[k].invalidated \in BOOLEAN /\ tokens[k].deleted \in BOOLEAN
  BY <1>3 DEF Rows
<1> QED
  BY <1>2, <1>3, <1>4, <1>5, <1>6, <1>7

LEMMA InBounds ==
    ASSUME TypeInv, CapInv
    PROVE  Len(tokens) <= MaxTokens /\ Index \subseteq 1..MaxTokens
<1>1. IsFiniteSet(Pending)
  BY Constants, FS_Subset DEF Pending
<1>2. Cardinality(Pending) \in Nat
  BY <1>1, FS_CardinalityType
<1> QED
  BY <1>2, Rows0, Constants DEF CapInv, Index

\* A function over the first numbers is a sequence.
LEMMA FunctionIsSeq ==
    ASSUME NEW S, NEW n \in Nat, NEW f \in [1..n -> S]
    PROVE  f \in Seq(S) /\ Len(f) = n
<1>1. f \in Seq(S)
  BY SeqDef
<1>2. DOMAIN f = 1..Len(f) /\ Len(f) \in Nat
  BY <1>1, LenProperties
<1> QED
  BY <1>1, <1>2

-----------------------------------------------------------------------------
(* A task that a step spares keeps what it relies on.                       *)

LEMMA LiveKept ==
    ASSUME TypeInv, TypeInv', Steady, NEW u, Len(tokens') = Len(tokens)
    PROVE  LiveOf(u)' \subseteq LiveOf(u)
  BY Rows0 DEF Steady, LiveOf, TokensOf, Index, LiveRow

LEMMA RoomKept ==
    ASSUME TypeInv, TypeInv', Steady, NEW t \in Tasks, Room(t), task'[t] = task[t],
           Len(tokens') = Len(tokens), \A k \in Index : tokens'[k].deleted = tokens[k].deleted
    PROVE  Room(t)'
<1>1. PICK u, now : u = task[t].user /\ now = task[t].now
  OBVIOUS
<1>2. Index' = Index /\ \A k \in Index : /\ tokens'[k].user = tokens[k].user
                                         /\ tokens'[k].createdAt = tokens[k].createdAt
  BY DEF Index, Steady
<1>3. OwnSince(u, AccountWindow, now)' = OwnSince(u, AccountWindow, now)
      /\ AllSince(GlobalWindow, now)' = AllSince(GlobalWindow, now)
  BY <1>2 DEF OwnSince, AllSince
<1>4. now <= clock'
  <2>1. now \in 0..MaxTime /\ clock \in 0..MaxTime /\ clock' \in 0..MaxTime
    BY <1>1 DEF TypeInv, TaskRecords
  <2> QED
    BY <1>1, <2>1, Constants DEF Room, Steady
<1>5. /\ now <= clock'
      /\ \A k \in Index' : tokens'[k].createdAt <= now
      /\ \A k \in Index' : tokens'[k].deleted => tokens'[k].createdAt + Retention < now
      /\ \A k \in Index' : tokens'[k].user = u => tokens'[k].createdAt + Cooldown <= now
      /\ Cardinality(OwnSince(u, AccountWindow, now)') < AccountQuota
      /\ Cardinality(AllSince(GlobalWindow, now)') < GlobalQuota
  <2>1. /\ \A k \in Index : tokens[k].createdAt <= now
        /\ \A k \in Index : tokens[k].deleted => tokens[k].createdAt + Retention < now
        /\ \A k \in Index : tokens[k].user = u => tokens[k].createdAt + Cooldown <= now
        /\ Cardinality(OwnSince(u, AccountWindow, now)) < AccountQuota
        /\ Cardinality(AllSince(GlobalWindow, now)) < GlobalQuota
    BY <1>1 DEF Room
  <2> QED
    BY <1>2, <1>3, <1>4, <2>1
<1>6. task'[t].user = u /\ task'[t].now = now
  BY <1>1
<1> QED
  BY <1>5, <1>6 DEF Room, OwnSince, AllSince

LEMMA RequestKept ==
    ASSUME TypeInv, TypeInv', Steady, NEW t \in Tasks, Spares(t), task'[t] = task[t],
           CapInv, task[t].op = "request", RequestInv(t)
    PROVE  RequestInv(t)'
<1>1. PICK u : u = task[t].user
  OBVIOUS
<1>2. u \in Users /\ (task[t].at # "started" => status'[u] # "absent")
  BY <1>1 DEF RequestInv, Steady
<1>3. Issuing(t) => /\ lock' = t /\ Room(t)' /\ Len(tokens') = Len(tokens)
                    /\ \A k \in Index : tokens'[k].deleted = tokens[k].deleted
  BY RoomKept DEF RequestInv, Spares
<1>4. task[t].at = "inserting" =>
        /\ task[t].rows \subseteq Index'
        /\ \A k \in task[t].rows : tokens'[k].user = task[t].user /\ rowLock'[k] = t
        /\ LiveOf(u)' \subseteq task[t].rows
  <2> HAVE task[t].at = "inserting"
  <2>1. Issuing(t)
    BY DEF Issuing
  <2>2. /\ task[t].rows \subseteq Index
        /\ \A k \in task[t].rows : tokens[k].user = task[t].user /\ rowLock[k] = t
        /\ LiveOf(u) \subseteq task[t].rows
    BY <1>1 DEF RequestInv
  <2>3. LiveOf(u)' \subseteq LiveOf(u)
    BY <1>3, <2>1, LiveKept
  <2>4. \A k \in task[t].rows : rowLock'[k] = t
    BY <2>2, InBounds DEF Spares
  <2> QED
    BY <2>2, <2>3, <2>4 DEF Steady
<1>5. Mailing(t) => /\ task[t].token \in Index' /\ task[t].token \notin mailbox'
                    /\ tokens'[task[t].token].user = task[t].user
  BY DEF RequestInv, Spares, Steady
<1>6. /\ task'[t].user = u /\ task'[t].at = task[t].at /\ task'[t].rows = task[t].rows
      /\ task'[t].token = task[t].token /\ (Issuing(t)' <=> Issuing(t))
      /\ (Mailing(t)' <=> Mailing(t))
  BY <1>1 DEF Issuing, Mailing
<1>7. task'[t].at = "inserting" => LiveOf(task[t].user)' \subseteq task'[t].rows
  <2>1. \A v : v = u => LiveOf(v)' = LiveOf(u)'
    OBVIOUS
  <2>2. task'[t].user = u
    BY <1>6
  <2> QED
    BY <1>4, <1>6, <2>1, <2>2 DEF LiveOf, TokensOf
<1> QED
  BY <1>1, <1>2, <1>3, <1>4, <1>5, <1>6, <1>7 DEF RequestInv

LEMMA ConfirmKept ==
    ASSUME TypeInv, TypeInv', CapInv, Steady, NEW t \in Tasks, Spares(t), task'[t] = task[t],
           ConfirmInv(t)
    PROVE  ConfirmInv(t)'
<1>1. PICK k : k = task[t].token
  OBVIOUS
<1>2. /\ k \in Index' /\ task[t].user = tokens'[k].user
      /\ tokens'[k].createdAt = tokens[k].createdAt /\ k \in Index /\ k \in 1..MaxTokens
  BY <1>1, InBounds DEF ConfirmInv, Steady
<1>3. task[t].at = "changing" =>
        rowLock'[k] = t /\ LiveRow(k)' /\ task[t].now < tokens'[k].createdAt + Ttl
  BY <1>1, <1>2 DEF ConfirmInv, Spares, Expires
<1>4. task'[t].token = k /\ task'[t].at = task[t].at
  BY <1>1
<1>5. task'[t].at = "changing" => LiveRow(k)' /\ rowLock'[k] = t /\ task'[t].now < Expires(k)'
  BY <1>3, <1>4 DEF Expires
<1> QED
  BY <1>1, <1>2, <1>4, <1>5 DEF ConfirmInv, LiveRow, Expires

LEMMA SigningKept ==
    ASSUME TypeInv, TypeInv', Steady, NEW t \in Tasks, task'[t] = task[t], SigningInv(t)
    PROVE  SigningInv(t)'
<1>1. PICK u, sv : u = task[t].user /\ sv = task[t].sv
  OBVIOUS
<1>2. /\ u \in Users /\ status[u] # "absent" /\ sv <= version[u]
      /\ sv = version[u] => task[t].password = password[u]
  BY <1>1 DEF SigningInv
<1>3. /\ version[u] <= version'[u] /\ status'[u] # "absent"
      /\ version'[u] = version[u] => password'[u] = password[u]
  BY <1>2 DEF Steady
<1>4. sv \in Nat /\ version[u] \in Nat /\ version'[u] \in Nat
  BY <1>1, <1>2 DEF TypeInv, TaskRecords
<1>5. /\ sv <= version'[u]
      /\ sv = version'[u] => task[t].password = password'[u]
  BY <1>2, <1>3, <1>4
<1>6. task'[t].user = u /\ task'[t].sv = sv
  BY <1>1
<1> QED
  BY <1>2, <1>3, <1>5, <1>6 DEF SigningInv

LEMMA EnsureKept ==
    ASSUME TypeInv, Steady, NEW t \in Tasks, task'[t] = task[t], EnsureInv(t)
    PROVE  EnsureInv(t)'
  BY DEF EnsureInv, Steady

LEMMA TaskKept ==
    ASSUME Inv, TypeInv', Steady, NEW t \in Tasks, Spares(t), task'[t] = task[t]
    PROVE  TaskInv(t)'
<1>1. TaskInv(t) /\ TypeInv /\ CapInv
  BY DEF Inv
<1> QED
  BY <1>1, RequestKept, ConfirmKept, SigningKept, EnsureKept DEF TaskInv

-----------------------------------------------------------------------------
(* Steps that change no row.                                                *)

LEMMA CapKept ==
    ASSUME Inv, Pending' \subseteq Pending, Len(tokens') = Len(tokens)
    PROVE  CapInv'
<1>1. IsFiniteSet(Pending)
  BY Constants, FS_Subset DEF Pending
<1>2. Cardinality(Pending') <= Cardinality(Pending) /\ IsFiniteSet(Pending')
  BY <1>1, FS_Subset
<1>3. Cardinality(Pending) \in Nat /\ Cardinality(Pending') \in Nat
  BY <1>1, <1>2, FS_CardinalityType
<1>4. Len(tokens) \in Nat
  BY Rows0 DEF Inv
<1> QED
  BY <1>2, <1>3, <1>4, Constants DEF Inv, CapInv

LEMMA Quiet ==
    ASSUME Inv, TypeInv', UNCHANGED <<password, version, did, tokens, sessions>>,
           clock <= clock',
           \A u \in Users : status'[u] = "absent" <=> status[u] = "absent"
    PROVE  RowInv' /\ Steady
<1>1. Index' = Index /\ \A k \in Index : LiveRow(k)' <=> LiveRow(k)
  BY DEF Index, LiveRow
<1>2. Steady
  <2>1. \A u \in Users : version[u] \in Nat
    BY DEF Inv, TypeInv
  <2> QED
    BY <1>1, <2>1 DEF Steady, Spends
<1>3. AbsentInv'
  BY <1>1 DEF Inv, RowInv, AbsentInv, HasCredential
<1>4. NewestInv'
  BY <1>1 DEF Inv, RowInv, NewestInv
<1>5. SpentInv'
  BY <1>1 DEF Inv, RowInv, SpentInv, Expires
<1>6. CountInv'
  BY <1>1 DEF Inv, RowInv, CountInv, Spent
<1>7. SessionInv'
  BY DEF Inv, RowInv, SessionInv, PresentedVersion
<1>8. OrderInv'
  <2>1. clock \in Nat /\ clock' \in Nat
    BY Constants DEF Inv, TypeInv
  <2>2. \A k \in Index : tokens[k].createdAt \in Nat
    BY Rows0 DEF Inv
  <2> QED
    BY <1>1, <2>1, <2>2, Constants DEF Inv, RowInv, OrderInv
<1>9. QuotasHold'
  BY <1>1 DEF Inv, RowInv, QuotasHold, Index
<1> QED
  BY <1>2, <1>3, <1>4, <1>5, <1>6, <1>7, <1>8, <1>9 DEF RowInv

LEMMA IdleInv ==
    ASSUME NEW t \in Tasks, task'[t] = Idle
    PROVE  TaskInv(t)'
  BY DEF TaskInv, Idle, PlacesOf

LEMMA Combine ==
    ASSUME Inv, TypeInv', CapInv', RowInv', LockInv', Steady, NEW t \in Tasks,
           \A u \in Tasks \ {t} : task'[u] = task[u] /\ Spares(u),
           TaskInv(t)'
    PROVE  Inv'
<1>1. \A u \in Tasks \ {t} : TaskInv(u)'
  BY TaskKept
<1> QED
  BY <1>1 DEF Inv

\* Locks and rows stay, and the task that moves neither holds them nor mails.
LEMMA LocksSame ==
    ASSUME Inv, UNCHANGED links, NEW t \in Tasks,
           \A u \in Tasks \ {t} : task'[u] = task[u],
           ~Issuing(t), ~At(t, "confirm", "changing"), ~Mailing(t)'
    PROVE  /\ LockInv'
           /\ \A u \in Tasks : Spares(u)
<1>1. /\ tokens' = tokens /\ lock' = lock /\ rowLock' = rowLock /\ mailbox' = mailbox
      /\ Index' = Index /\ \A k : LiveRow(k)' <=> LiveRow(k)
  BY DEF links, Index, LiveRow
<1>2. LockInv
  BY DEF Inv
<1>3. \A u \in Tasks : lock = u => Issuing(u)'
  BY <1>2 DEF LockInv, Issuing
<1>4. \A k \in 1..MaxTokens : \A u \in Tasks : rowLock[k] = u => Holds(u, k)'
  BY <1>2 DEF LockInv, Holds, At, Issuing
<1>5. \A u, v \in Tasks : Mailing(u)' /\ Mailing(v)' /\ u # v => task'[u].token # task'[v].token
  BY <1>2 DEF LockInv, Mailing
<1>6. \A k \in Index : tokens[k].invalidated =>
          \/ Replaced(k)'
          \/ k \notin mailbox /\ \A u \in Tasks : At(u, "request", "sending")' => task'[u].token # k
  <2>1. \A k \in Index : Replaced(k)' <=> Replaced(k)
    BY <1>1 DEF Replaced
  <2>2. ~At(t, "request", "sending")'
    BY DEF Mailing, At
  <2>3. \A u \in Tasks \ {t} : At(u, "request", "sending")' => At(u, "request", "sending")
    BY DEF At
  <2> QED
    BY <1>2, <2>1, <2>2, <2>3 DEF LockInv
<1>7. LockInv'
  BY <1>1, <1>3, <1>4, <1>5, <1>6 DEF LockInv
<1>8. \A u \in Tasks : Spares(u)
  BY <1>1 DEF Spares
<1> QED
  BY <1>7, <1>8

\* Only the task changes.
LEMMA TaskOnly ==
    ASSUME Inv, NEW t \in Tasks, NEW r \in TaskRecords, task' = [task EXCEPT ![t] = r],
           UNCHANGED <<accounts, links, sessions, host, clock>>,
           ~Issuing(t), ~At(t, "confirm", "changing"),
           r.at \notin {"sending", "discarding"},
           Pending' \subseteq Pending \/ CapInv',
           task'[t] = r => TaskInv(t)'
    PROVE  Inv' /\ Steady
<1>1. task' \in [Tasks -> TaskRecords] /\ task'[t] = r
      /\ \A u \in Tasks \ {t} : task'[u] = task[u]
  BY DEF Inv, TypeInv
<1>2. TypeInv'
  BY <1>1 DEF Inv, TypeInv, accounts, links, Index
<1>3. RowInv' /\ Steady
  <2>1. clock <= clock'
    BY DEF Inv, TypeInv
  <2> QED
    BY <1>2, <2>1, Quiet DEF accounts, links
<1>4. LockInv' /\ \A u \in Tasks : Spares(u)
  <2>1. ~Mailing(t)'
    BY <1>1 DEF Mailing
  <2> QED
    BY <1>1, <2>1, LocksSame
<1>5. CapInv'
  BY CapKept DEF links
<1> QED
  BY <1>1, <1>2, <1>3, <1>4, <1>5, Combine

-----------------------------------------------------------------------------
(* The actions of a task that change nothing else.                          *)

LEMMA Records ==
    ASSUME Inv, NEW t \in Tasks
    PROVE  /\ task[t] \in TaskRecords /\ TaskInv(t)
           /\ TypeInv /\ CapInv /\ RowInv /\ LockInv
  BY DEF Inv, TypeInv

LEMMA EndOnly ==
    ASSUME Inv, NEW t \in Tasks, End(t), UNCHANGED <<accounts, links, sessions, host, clock>>,
           ~Issuing(t), ~At(t, "confirm", "changing")
    PROVE  Inv' /\ Steady
<1>1. Idle \in TaskRecords /\ task' = [task EXCEPT ![t] = Idle]
  BY Constants DEF End
<1>2. task'[t] = Idle => TaskInv(t)'
  BY IdleInv
<1>3. Pending' \subseteq Pending
  BY <1>1 DEF Pending, Idle, Inv, TypeInv
<1>4. Idle.at \notin {"sending", "discarding"}
  BY DEF Idle
<1> QED
  BY <1>1, <1>2, <1>3, <1>4, TaskOnly

LEMMA StepRequestReset ==
    ASSUME Inv, NEW t \in Tasks, NEW u \in Users, RequestReset(t, u)
    PROVE  Inv' /\ Steady
<1> DEFINE r == [Idle EXCEPT !.op = "request", !.at = "started", !.user = u]
<1>1. r \in TaskRecords
  BY Constants DEF TaskRecords, Places
<1>2. /\ r.op = "request" /\ r.at = "started" /\ r.user = u
  BY DEF Idle
<1>3. /\ task' = [task EXCEPT ![t] = r] /\ task[t] = Idle
      /\ UNCHANGED <<accounts, links, sessions, host, clock>>
  BY DEF RequestReset, Start
<1>4. ~Issuing(t) /\ ~At(t, "confirm", "changing")
  BY <1>3 DEF Issuing, At, Idle
<1> HIDE DEF r
<1>5. CapInv'
  <2>1. Pending' = Pending \cup {t} /\ Pending \subseteq InFlight
    BY <1>2, <1>3 DEF Pending, InFlight, Inv, TypeInv
  <2>2. IsFiniteSet(InFlight) /\ IsFiniteSet(Pending)
    BY Constants, FS_Subset DEF InFlight, Pending
  <2>3. Cardinality(Pending) <= Cardinality(InFlight)
    BY <2>1, <2>2, FS_Subset
  <2>4. /\ Cardinality(Pending') = Cardinality(Pending) \/ Cardinality(Pending') = Cardinality(Pending) + 1
        /\ IsFiniteSet(Pending')
    BY <2>1, <2>2, FS_AddElement
  <2>5. Cardinality(Pending) \in Nat /\ Cardinality(InFlight) \in Nat
    BY <2>2, FS_CardinalityType
  <2>6. Len(tokens') = Len(tokens) /\ Len(tokens) \in Nat
    BY <1>3, Rows0 DEF links, Inv
  <2>7. Len(tokens) + Cardinality(InFlight) < MaxTokens
    BY DEF RequestReset
  <2> QED
    BY <2>3, <2>4, <2>5, <2>6, <2>7, Constants DEF CapInv
<1>6. task'[t] = r => TaskInv(t)'
  BY <1>2 DEF TaskInv, PlacesOf, RequestInv, Issuing, Mailing
<1> QED
  BY <1>1, <1>2, <1>3, <1>4, <1>5, <1>6, TaskOnly

LEMMA StepProcessRequest ==
    ASSUME Inv, NEW t \in Tasks, ProcessRequest(t)
    PROVE  Inv' /\ Steady
<1>1. /\ task[t].op = "request" /\ task[t].at = "started"
      /\ UNCHANGED <<accounts, links, sessions, host, clock>>
  BY DEF ProcessRequest, At
<1>2. ~Issuing(t) /\ ~At(t, "confirm", "changing")
  BY <1>1 DEF Issuing, At
<1>3. CASE Eligible(task[t].user)
  <2> DEFINE r == [task[t] EXCEPT !.at = "waiting"]
  <2>1. r \in TaskRecords
    BY Records DEF TaskRecords, Places
  <2>2. r.op = "request" /\ r.at = "waiting" /\ r.user = task[t].user
    BY <1>1, Records DEF TaskRecords
  <2>3. task' = [task EXCEPT ![t] = r]
    BY <1>3 DEF ProcessRequest, Go
  <2>4. PICK u : u = task[t].user
    OBVIOUS
  <2>5. u \in Users /\ status'[u] # "absent"
    BY <1>1, <1>3, <2>4, Records DEF TaskInv, RequestInv, Eligible, accounts
  <2> HIDE DEF r
  <2>6. task'[t] = r => TaskInv(t)'
    BY <2>2, <2>4, <2>5 DEF TaskInv, PlacesOf, RequestInv, Issuing, Mailing
  <2>7. Pending' \subseteq Pending
    BY <1>1, <2>3 DEF Pending, Inv, TypeInv
  <2> QED
    BY <1>1, <1>2, <2>1, <2>2, <2>3, <2>6, <2>7, TaskOnly
<1>4. CASE ~Eligible(task[t].user)
  BY <1>1, <1>2, <1>4, EndOnly DEF ProcessRequest
<1> QED
  BY <1>3, <1>4

LEMMA StepConfirmReset ==
    ASSUME Inv, NEW t \in Tasks, NEW k \in mailbox, NEW p \in Passwords, ConfirmReset(t, k, p)
    PROVE  Inv' /\ Steady
<1> DEFINE r == [Idle EXCEPT !.op = "confirm", !.at = "hashing", !.token = k,
                             !.user = tokens[k].user, !.password = p, !.now = clock]
<1>1. k \in Index /\ k \in Nat /\ tokens[k].user \in Users /\ clock \in 0..MaxTime
  BY Rows0 DEF Inv, TypeInv
<1>2. r \in TaskRecords
  BY <1>1, Constants DEF TaskRecords, Places
<1>3. /\ r.op = "confirm" /\ r.at = "hashing" /\ r.token = k /\ r.user = tokens[k].user
      /\ r.password = p
  BY DEF Idle
<1>4. /\ task' = [task EXCEPT ![t] = r] /\ task[t] = Idle
      /\ UNCHANGED <<accounts, links, sessions, host, clock>>
  BY DEF ConfirmReset, Start
<1>5. ~Issuing(t) /\ ~At(t, "confirm", "changing")
  BY <1>4 DEF Issuing, At, Idle
<1> HIDE DEF r
<1>6. Pending' \subseteq Pending
  BY <1>3, <1>4 DEF Pending, Inv, TypeInv
<1>7. task'[t] = r => TaskInv(t)'
  <2>1. k \in Index' /\ r.user = tokens'[k].user
    BY <1>1, <1>3, <1>4 DEF links, Index
  <2> QED
    BY <1>3, <2>1 DEF TaskInv, PlacesOf, ConfirmInv
<1> QED
  BY <1>2, <1>3, <1>4, <1>5, <1>6, <1>7, TaskOnly

LEMMA StepLogin ==
    ASSUME Inv, NEW t \in Tasks, NEW u \in Users, NEW p \in Passwords, Login(t, u, p)
    PROVE  Inv' /\ Steady
<1> DEFINE r == [Idle EXCEPT !.op = "login", !.at = "signing", !.user = u,
                             !.password = p, !.sv = version[u]]
<1>1. version[u] \in Nat
  BY DEF Inv, TypeInv
<1>2. r \in TaskRecords
  BY <1>1, Constants DEF TaskRecords, Places
<1>3. /\ r.op = "login" /\ r.at = "signing" /\ r.user = u /\ r.password = p /\ r.sv = version[u]
  BY DEF Idle
<1>4. /\ task' = [task EXCEPT ![t] = r] /\ task[t] = Idle
      /\ UNCHANGED <<accounts, links, sessions, host, clock>>
  BY DEF Login, Start
<1>5. ~Issuing(t) /\ ~At(t, "confirm", "changing")
  BY <1>4 DEF Issuing, At, Idle
<1> HIDE DEF r
<1>6. Pending' \subseteq Pending
  BY <1>3, <1>4 DEF Pending, Inv, TypeInv
<1>7. task'[t] = r => TaskInv(t)'
  <2>1. /\ status'[u] # "absent" /\ password'[u] = p /\ version'[u] = version[u]
    BY <1>4 DEF Login, Eligible, accounts
  <2> QED
    BY <1>1, <1>3, <2>1 DEF TaskInv, PlacesOf, SigningInv
<1> QED
  BY <1>2, <1>3, <1>4, <1>5, <1>6, <1>7, TaskOnly

LEMMA StepRegister ==
    ASSUME Inv, NEW t \in Tasks, NEW u \in Users, NEW p \in Passwords, Register(t, u, p)
    PROVE  Inv' /\ Steady
<1> DEFINE r == [Idle EXCEPT !.op = "register", !.at = "creating", !.user = u, !.password = p]
<1>1. r \in TaskRecords
  BY Constants DEF TaskRecords, Places
<1>2. /\ r.op = "register" /\ r.at = "creating" /\ r.user = u /\ r.password = p
  BY DEF Idle
<1>3. /\ task' = [task EXCEPT ![t] = r] /\ task[t] = Idle
      /\ UNCHANGED <<accounts, links, sessions, host, clock>>
  BY DEF Register, Start
<1>4. ~Issuing(t) /\ ~At(t, "confirm", "changing")
  BY <1>3 DEF Issuing, At, Idle
<1> HIDE DEF r
<1>5. Pending' \subseteq Pending
  BY <1>2, <1>3 DEF Pending, Inv, TypeInv
<1>6. task'[t] = r => TaskInv(t)'
  BY <1>2 DEF TaskInv, PlacesOf
<1> QED
  BY <1>1, <1>2, <1>3, <1>4, <1>5, <1>6, TaskOnly

LEMMA StepEnsureDid ==
    ASSUME Inv, NEW t \in Tasks, NEW u \in Users, EnsureDid(t, u)
    PROVE  Inv' /\ Steady
<1> DEFINE place == IF did[u] # NoDid \/ host = NoHost THEN "answered" ELSE "writing"
           r == [Idle EXCEPT !.op = "ensure", !.user = u, !.host = host, !.did = did[u],
                             !.at = place]
<1>1. did[u] \in Hosts \cup {NoDid} /\ host \in Hosts \cup {NoHost}
  BY DEF Inv, TypeInv
<1>2. r \in TaskRecords
  <2>1. place \in Places /\ Idle \in TaskRecords
    BY Constants DEF Places, TaskRecords
  <2>2. \A q \in Places, d \in Hosts \cup {NoDid}, h \in Hosts \cup {NoHost} :
          [Idle EXCEPT !.op = "ensure", !.user = u, !.host = h, !.did = d, !.at = q] \in TaskRecords
    BY <2>1 DEF TaskRecords
  <2> QED
    BY <1>1, <2>1, <2>2
<1>3. /\ r.op = "ensure" /\ r.user = u /\ r.host = host /\ r.did = did[u]
      /\ r.at \in {"answered", "writing"} /\ (r.at = "writing" => host # NoHost)
  BY DEF Idle
<1>4. /\ task' = [task EXCEPT ![t] = r] /\ task[t] = Idle
      /\ UNCHANGED <<accounts, links, sessions, host, clock>>
  BY DEF EnsureDid, Start
<1>5. ~Issuing(t) /\ ~At(t, "confirm", "changing")
  BY <1>4 DEF Issuing, At, Idle
<1> HIDE DEF r, place
<1>6. Pending' \subseteq Pending
  BY <1>3, <1>4 DEF Pending, Inv, TypeInv
<1>7. task'[t] = r => TaskInv(t)'
  <2>1. status'[u] # "absent" /\ did'[u] = did[u]
    BY <1>4 DEF EnsureDid, accounts
  <2> QED
    BY <1>3, <2>1 DEF TaskInv, PlacesOf, EnsureInv
<1>8. r.at \notin {"sending", "discarding"}
  BY <1>3
<1> QED
  BY <1>2, <1>4, <1>5, <1>6, <1>7, <1>8, TaskOnly

LEMMA StepReloadDid ==
    ASSUME Inv, NEW t \in Tasks, ReloadDid(t)
    PROVE  Inv' /\ Steady
<1> DEFINE r == [task[t] EXCEPT !.at = "answered", !.did = did[task[t].user]]
<1>1. /\ task[t].op = "ensure" /\ task[t].at = "reloading" /\ task' = [task EXCEPT ![t] = r]
      /\ UNCHANGED <<accounts, links, sessions, host, clock>>
  BY DEF ReloadDid, At
<1>2. PICK u : u = task[t].user
  OBVIOUS
<1>3. u \in Users /\ status[u] # "absent" /\ did[u] \in Hosts \cup {NoDid}
  BY <1>1, <1>2, Records DEF TaskInv, EnsureInv, TypeInv
<1>4. r \in TaskRecords
  BY <1>2, <1>3, Records DEF TaskRecords, Places
<1>5. /\ r.op = "ensure" /\ r.at = "answered" /\ r.user = u /\ r.did = did[u]
  BY <1>1, <1>2, Records DEF TaskRecords
<1>6. ~Issuing(t) /\ ~At(t, "confirm", "changing")
  BY <1>1 DEF Issuing, At
<1> HIDE DEF r
<1>7. Pending' \subseteq Pending
  BY <1>1, <1>5 DEF Pending, Inv, TypeInv
<1>8. task'[t] = r => TaskInv(t)'
  <2>1. status'[u] # "absent" /\ did'[u] = did[u]
    BY <1>1, <1>3 DEF accounts
  <2> QED
    BY <1>3, <1>5, <2>1 DEF TaskInv, PlacesOf, EnsureInv
<1> QED
  BY <1>1, <1>4, <1>5, <1>6, <1>7, <1>8, TaskOnly

LEMMA StepAnswerDid ==
    ASSUME Inv, NEW t \in Tasks, AnswerDid(t)
    PROVE  Inv' /\ Steady
  BY EndOnly DEF AnswerDid, At, Issuing

-----------------------------------------------------------------------------
(* Time, the operator and the life of the process.                          *)

LEMMA Around ==
    ASSUME Inv, TypeInv', UNCHANGED <<password, version, did, links, sessions, task>>,
           clock <= clock',
           \A u \in Users : status'[u] = "absent" <=> status[u] = "absent"
    PROVE  Inv' /\ Steady
<1>1. /\ tokens' = tokens /\ lock' = lock /\ rowLock' = rowLock /\ mailbox' = mailbox
      /\ Index' = Index /\ \A k : LiveRow(k)' <=> LiveRow(k)
  BY DEF links, Index, LiveRow
<1>2. RowInv' /\ Steady
  BY <1>1, Quiet
<1>3. \A u \in Tasks : Spares(u)
  BY <1>1 DEF Spares
<1>4. \A u \in Tasks : TaskInv(u)'
  BY <1>2, <1>3, TaskKept
<1>5. CapInv'
  <2>1. Pending' = Pending
    BY DEF Pending
  <2> QED
    BY <1>1, <2>1, CapKept
<1>6. LockInv'
  BY <1>1 DEF Inv, LockInv, Issuing, Holds, At, Mailing, Replaced
<1> QED
  BY <1>2, <1>4, <1>5, <1>6 DEF Inv

LEMMA StepTick ==
    ASSUME Inv, Tick
    PROVE  Inv' /\ Steady
<1>1. clock \in 0..MaxTime /\ clock' = clock + 1 /\ clock < MaxTime
  BY DEF Tick, Inv, TypeInv
<1>2. clock' \in 0..MaxTime /\ clock <= clock'
  BY <1>1, Constants
<1>3. TypeInv'
  BY <1>2 DEF Tick, Inv, TypeInv, accounts, links, Index
<1> QED
  BY <1>2, <1>3, Around DEF Tick, accounts

LEMMA StepStatusChanges ==
    ASSUME Inv, NEW u \in Users, StatusChanges(u)
    PROVE  Inv' /\ Steady
<1>1. TypeInv'
  BY DEF StatusChanges, Inv, TypeInv, links, Index
<1>2. \A v \in Users : status'[v] = "absent" <=> status[v] = "absent"
  BY DEF StatusChanges, Inv, TypeInv
<1>3. clock <= clock'
  BY DEF StatusChanges, Inv, TypeInv
<1> QED
  BY <1>1, <1>2, <1>3, Around DEF StatusChanges

LEMMA StepHostChanges ==
    ASSUME Inv, NEW h \in Hosts \cup {NoHost}, HostChanges(h)
    PROVE  Inv' /\ Steady
<1>1. TypeInv' /\ clock <= clock'
  BY DEF HostChanges, Inv, TypeInv, accounts, links, Index
<1> QED
  BY <1>1, Around DEF HostChanges, accounts

LEMMA StepBeginShutdown ==
    ASSUME Inv, BeginShutdown
    PROVE  Inv' /\ Steady
<1>1. TypeInv' /\ clock <= clock'
  BY DEF BeginShutdown, Inv, TypeInv, accounts, links, Index
<1> QED
  BY <1>1, Around DEF BeginShutdown, accounts

LEMMA StepProcessDies ==
    ASSUME Inv, ProcessDies
    PROVE  Inv' /\ Steady
<1>1. /\ task' = [t \in Tasks |-> Idle] /\ lock' = NoTask
      /\ rowLock' = [k \in 1..MaxTokens |-> NoTask]
      /\ UNCHANGED <<accounts, tokens, mailbox, sessions, host, clock>>
  BY DEF ProcessDies
<1>2. TypeInv'
  BY <1>1, Constants DEF Inv, TypeInv, accounts, Index
<1>3. RowInv' /\ Steady
  <2>1. clock <= clock'
    BY <1>1 DEF Inv, TypeInv
  <2> QED
    BY <1>1, <1>2, <2>1, Quiet DEF accounts
<1>4. \A t \in Tasks : TaskInv(t)'
  BY <1>1, IdleInv
<1>5. CapInv'
  <2>1. Pending' \subseteq Pending
    BY <1>1 DEF Pending, Idle
  <2> QED
    BY <1>1, <2>1, CapKept
<1>6. LockInv'
  <2>1. \A t \in Tasks : task'[t] = Idle /\ ~Mailing(t)' /\ ~At(t, "request", "sending")'
    BY <1>1 DEF Mailing, At, Idle
  <2>2. \A k \in Index' : Index' = Index /\ (tokens'[k].invalidated <=> tokens[k].invalidated)
          /\ (Replaced(k)' <=> Replaced(k))
    BY <1>1 DEF Index, Replaced
  <2> QED
    BY <1>1, <2>1, <2>2, Constants DEF Inv, LockInv
<1> QED
  BY <1>2, <1>3, <1>4, <1>5, <1>6 DEF Inv

-----------------------------------------------------------------------------
(* The actions that take or release a lock and write no row.                *)

LEMMA Moves ==
    ASSUME Inv, NEW t \in Tasks, NEW r \in TaskRecords, task' = [task EXCEPT ![t] = r],
           UNCHANGED <<accounts, tokens, mailbox, sessions, host, clock>>,
           lock' \in Tasks \cup {NoTask}, rowLock' \in [1..MaxTokens -> Tasks \cup {NoTask}],
           \A u \in Tasks \ {t} : /\ lock = u <=> lock' = u
                                  /\ \A k \in 1..MaxTokens : rowLock[k] = u <=> rowLock'[k] = u,
           lock' = t => Issuing(t)',
           \A k \in 1..MaxTokens : rowLock'[k] = t => Holds(t, k)',
           r.at \notin {"sending", "discarding"},
           Pending' \subseteq Pending,
           TaskInv(t)'
    PROVE  Inv' /\ Steady
<1>1. task' \in [Tasks -> TaskRecords] /\ task'[t] = r
      /\ \A u \in Tasks \ {t} : task'[u] = task[u]
  BY DEF Inv, TypeInv
<1>2. TypeInv'
  BY <1>1 DEF Inv, TypeInv, accounts, Index
<1>3. RowInv' /\ Steady
  <2>1. clock <= clock'
    BY DEF Inv, TypeInv
  <2> QED
    BY <1>2, <2>1, Quiet DEF accounts
<1>4. /\ Index' = Index /\ (\A k : LiveRow(k)' <=> LiveRow(k)) /\ LockInv
      /\ \A k \in Index : Replaced(k)' <=> Replaced(k)
  BY DEF Index, LiveRow, Inv, Replaced
<1>5. \A u \in Tasks \ {t} : Spares(u)
  BY <1>1, <1>4 DEF Spares
<1>6. ~Mailing(t)' /\ ~At(t, "request", "sending")'
  BY <1>1 DEF Mailing, At
<1>7. LockInv'
  <2>1. \A u \in Tasks : lock' = u => Issuing(u)'
    BY <1>1, <1>4 DEF LockInv, Issuing
  <2>2. \A k \in 1..MaxTokens : \A u \in Tasks : rowLock'[k] = u => Holds(u, k)'
    BY <1>1, <1>4 DEF LockInv, Holds, At
  <2>3. \A u, v \in Tasks : Mailing(u)' /\ Mailing(v)' /\ u # v => task'[u].token # task'[v].token
    BY <1>1, <1>4, <1>6 DEF LockInv, Mailing
  <2>4. \A u \in Tasks \ {t} : At(u, "request", "sending")' => At(u, "request", "sending")
    BY <1>1 DEF At
  <2>5. \A k \in Index : tokens[k].invalidated =>
          \/ Replaced(k)'
          \/ k \notin mailbox /\ \A u \in Tasks : At(u, "request", "sending")' => task'[u].token # k
    BY <1>1, <1>4, <1>6, <2>4 DEF LockInv
  <2> QED
    BY <1>4, <2>1, <2>2, <2>3, <2>5 DEF LockInv
<1>8. CapInv'
  BY CapKept
<1> QED
  BY <1>1, <1>2, <1>3, <1>5, <1>7, <1>8, Combine

LEMMA RoomFound ==
    ASSUME Inv, NEW t \in Tasks, task[t].user \in Users, ~Refused(task[t].user),
           UNCHANGED <<tokens, clock>>, task'[t].user = task[t].user, task'[t].now = clock
    PROVE  Room(t)'
<1>1. PICK u : u = task[t].user
  OBVIOUS
<1>2. TypeInv /\ OrderInv
  BY DEF Inv, RowInv
<1>3. clock \in Nat
  BY <1>2, Constants DEF TypeInv
<1>4. \A k \in Index : tokens[k].createdAt \in Nat /\ tokens[k].user \in Users
        /\ tokens[k].deleted \in BOOLEAN
  BY <1>2, Rows0
<1>5. /\ \A k \in Index : tokens[k].createdAt <= clock
      /\ \A k \in Index : tokens[k].deleted => tokens[k].createdAt + Retention < clock
  BY <1>2 DEF OrderInv
<1>6. \A k \in Index : tokens[k].user = u => tokens[k].createdAt + Cooldown <= clock
  <2> SUFFICES ASSUME NEW k \in Index, tokens[k].user = u
               PROVE  tokens[k].createdAt + Cooldown <= clock
    OBVIOUS
  <2>1. CASE tokens[k].deleted
    BY <2>1, <1>3, <1>4, <1>5, Constants
  <2>2. CASE ~tokens[k].deleted
    <3>1. k \in TokensOf(u)
      BY <2>2 DEF TokensOf
    <3>2. ~(clock < tokens[k].createdAt + Cooldown)
      BY <1>1, <3>1 DEF Refused, InCooldown
    <3> QED
      BY <3>2, <1>3, <1>4, Constants
  <2> QED
    BY <2>1, <2>2
<1>7. \A k \in Index : /\ tokens[k].createdAt + AccountWindow > clock => ~tokens[k].deleted
                       /\ tokens[k].createdAt + GlobalWindow > clock => ~tokens[k].deleted
  BY <1>3, <1>4, <1>5, Constants
<1>8. OwnSince(u, AccountWindow, clock) = Counted(TokensOf(u), AccountWindow)
  BY <1>7 DEF OwnSince, Counted, TokensOf
<1>9. AllSince(GlobalWindow, clock) = Counted(UNION {TokensOf(v) : v \in Users}, GlobalWindow)
  BY <1>4, <1>7 DEF AllSince, Counted, TokensOf
<1>10. /\ Cardinality(OwnSince(u, AccountWindow, clock)) < AccountQuota
       /\ Cardinality(AllSince(GlobalWindow, clock)) < GlobalQuota
  <2>1. IsFiniteSet(OwnSince(u, AccountWindow, clock)) /\ IsFiniteSet(AllSince(GlobalWindow, clock))
    BY <1>2, Rows0, FS_Subset DEF OwnSince, AllSince
  <2>2. /\ Cardinality(OwnSince(u, AccountWindow, clock)) \in Nat
        /\ Cardinality(AllSince(GlobalWindow, clock)) \in Nat
    BY <2>1, FS_CardinalityType
  <2>3. /\ ~(Cardinality(OwnSince(u, AccountWindow, clock)) >= AccountQuota)
        /\ ~(Cardinality(AllSince(GlobalWindow, clock)) >= GlobalQuota)
    BY <1>1, <1>8, <1>9 DEF Refused
  <2> QED
    BY <2>2, <2>3, Constants
<1>11. task'[t].user = u /\ task'[t].now = clock /\ Index' = Index /\ clock' = clock
       /\ tokens' = tokens
  BY <1>1 DEF Index
<1>12. /\ OwnSince(u, AccountWindow, clock)' = OwnSince(u, AccountWindow, clock)
       /\ AllSince(GlobalWindow, clock)' = AllSince(GlobalWindow, clock)
  BY <1>11 DEF OwnSince, AllSince
<1>13. clock <= clock
  BY <1>3
<1> QED
  BY <1>5, <1>6, <1>10, <1>11, <1>12, <1>13 DEF Room, OwnSince, AllSince

LEMMA StepReserve ==
    ASSUME Inv, NEW t \in Tasks, Reserve(t)
    PROVE  Inv' /\ Steady
<1>1. /\ task[t].op = "request" /\ task[t].at = "waiting" /\ lock = NoTask
      /\ UNCHANGED <<accounts, tokens, rowLock, mailbox, sessions, host, clock>>
  BY DEF Reserve, At
<1>2. ~Issuing(t) /\ ~At(t, "confirm", "changing") /\ \A k : ~Holds(t, k)
  BY <1>1 DEF Issuing, At, Holds
<1>3. CASE Refused(task[t].user)
  BY <1>1, <1>2, <1>3, EndOnly DEF Reserve, links
<1>4. CASE ~Refused(task[t].user)
  <2> DEFINE r == [task[t] EXCEPT !.at = "invalidating", !.now = clock]
  <2>1. PICK u : u = task[t].user
    OBVIOUS
  <2>2. u \in Users /\ status[u] # "absent" /\ clock \in 0..MaxTime
    BY <1>1, <2>1, Records DEF TaskInv, RequestInv, TypeInv
  <2>3. r \in TaskRecords
    BY <2>2, Records DEF TaskRecords, Places
  <2>4. r.op = "request" /\ r.at = "invalidating" /\ r.user = u /\ r.now = clock
    BY <1>1, <2>1, Records DEF TaskRecords
  <2>5. task' = [task EXCEPT ![t] = r] /\ lock' = t
    BY <1>4 DEF Reserve
  <2> HIDE DEF r
  <2>6. task'[t] = r
    BY <2>5 DEF Inv, TypeInv
  <2>7. Room(t)'
    BY <1>1, <1>4, <2>1, <2>2, <2>4, <2>6, RoomFound
  <2>8. TaskInv(t)'
    <3>1. status'[u] # "absent"
      BY <1>1, <2>2 DEF accounts
    <3> QED
      BY <2>2, <2>4, <2>5, <2>6, <2>7, <3>1 DEF TaskInv, PlacesOf, RequestInv, Issuing, Mailing
  <2>9. Pending' \subseteq Pending
    BY <1>1, <2>5 DEF Pending, Inv, TypeInv
  <2>10. Issuing(t)'
    BY <2>4, <2>6 DEF Issuing
  <2>11. rowLock' \in [1..MaxTokens -> Tasks \cup {NoTask}]
    BY <1>1 DEF Inv, TypeInv
  <2>12. \A k \in 1..MaxTokens : rowLock'[k] # t
    BY <1>1, <1>2 DEF Inv, LockInv
  <2>13. \A v \in Tasks \ {t} : lock # v /\ lock' # v
    BY <1>1, <2>5, Constants
  <2> QED
    BY <1>1, <2>3, <2>4, <2>5, <2>8, <2>9, <2>10, <2>11, <2>12, <2>13, Moves
<1> QED
  BY <1>3, <1>4

LEMMA StepInvalidateOlder ==
    ASSUME Inv, NEW t \in Tasks, InvalidateOlder(t)
    PROVE  Inv' /\ Steady
<1> DEFINE rows == LiveOf(task[t].user)
           r == [task[t] EXCEPT !.at = "inserting", !.rows = rows]
<1>1. /\ task[t].op = "request" /\ task[t].at = "invalidating" /\ Unlocked(rows)
      /\ task' = [task EXCEPT ![t] = r]
      /\ rowLock' = [k \in 1..MaxTokens |-> IF k \in rows THEN t ELSE rowLock[k]]
      /\ UNCHANGED <<accounts, tokens, lock, mailbox, sessions, host, clock>>
  BY DEF InvalidateOlder, At
<1>2. PICK u, R : u = task[t].user /\ R = rows
  OBVIOUS
<1>3. /\ R = LiveOf(u) /\ R \subseteq Index /\ R \subseteq 1..MaxTokens
      /\ \A k \in R : tokens[k].user = u
      /\ R \subseteq Nat
  BY <1>2, Records, InBounds, Rows0 DEF LiveOf, TokensOf
<1>4. r \in TaskRecords
  BY <1>2, <1>3, Records DEF TaskRecords, Places
<1>5. r.op = "request" /\ r.at = "inserting" /\ r.user = u /\ r.rows = R /\ r.now = task[t].now
  BY <1>1, <1>2, Records DEF TaskRecords
<1>6. /\ u \in Users /\ status[u] # "absent" /\ lock = t /\ Room(t)
  BY <1>1, <1>2, Records DEF TaskInv, RequestInv, Issuing
<1>7. \A k \in R : rowLock[k] = NoTask
  BY <1>1, <1>2 DEF Unlocked
<1>8. rowLock' = [k \in 1..MaxTokens |-> IF k \in R THEN t ELSE rowLock[k]]
  BY <1>1, <1>2
<1>9. task' = [task EXCEPT ![t] = r]
  BY <1>1
<1> HIDE DEF r, rows
<1>10. task'[t] = r
  BY <1>9 DEF Inv, TypeInv
<1>11. Room(t)'
  <2>1. Index' = Index /\ task'[t].user = u /\ task'[t].now = task[t].now
    BY <1>1, <1>5, <1>10 DEF Index
  <2> QED
    BY <1>1, <1>2, <1>6, <2>1 DEF Room, OwnSince, AllSince
<1>12. TaskInv(t)'
  <2>1. status'[u] # "absent" /\ LiveOf(u)' = R /\ Index' = Index /\ lock' = t
    BY <1>1, <1>3, <1>6 DEF accounts, LiveOf, TokensOf, LiveRow, Index
  <2>2. \A k \in R : tokens'[k].user = u /\ rowLock'[k] = t
    BY <1>1, <1>3, <1>8
  <2>3. \A v : v = u => LiveOf(v)' = LiveOf(u)'
    OBVIOUS
  <2> QED
    BY <1>3, <1>5, <1>6, <1>10, <1>11, <2>1, <2>2, <2>3
       DEF TaskInv, PlacesOf, RequestInv, Issuing, Mailing, LiveOf, TokensOf
<1>13. Pending' \subseteq Pending
  BY <1>1, <1>9 DEF Pending, Inv, TypeInv
<1>14. rowLock' \in [1..MaxTokens -> Tasks \cup {NoTask}] /\ lock' \in Tasks \cup {NoTask}
  BY <1>1, <1>8 DEF Inv, TypeInv
<1>15. \A k \in 1..MaxTokens : rowLock'[k] = t => Holds(t, k)'
  <2>1. \A k \in 1..MaxTokens : rowLock[k] # t
    BY <1>1 DEF Inv, LockInv, Holds, At
  <2> QED
    BY <1>5, <1>8, <1>10, <2>1 DEF Holds, At
<1>16. \A v \in Tasks \ {t} : /\ lock = v <=> lock' = v
                              /\ \A k \in 1..MaxTokens : rowLock[k] = v <=> rowLock'[k] = v
  BY <1>1, <1>7, <1>8, Constants
<1>17. Issuing(t)'
  BY <1>5, <1>10 DEF Issuing
<1>18. r.at \notin {"sending", "discarding"}
  BY <1>5
<1> QED
  BY <1>1, <1>4, <1>9, <1>12, <1>13, <1>14, <1>15, <1>16, <1>17, <1>18, Moves

LEMMA StepConsume ==
    ASSUME Inv, NEW t \in Tasks, Consume(t)
    PROVE  Inv' /\ Steady
<1>1. /\ task[t].op = "confirm" /\ task[t].at = "hashing" /\ Unlocked({task[t].token})
      /\ UNCHANGED <<accounts, tokens, lock, mailbox, sessions, host, clock>>
  BY DEF Consume, At
<1>2. ~Issuing(t) /\ ~At(t, "confirm", "changing") /\ \A k : ~Holds(t, k)
  BY <1>1 DEF Issuing, At, Holds
<1>3. CASE ~Consumable(t)
  BY <1>1, <1>2, <1>3, EndOnly DEF Consume, links
<1>4. CASE Consumable(t)
  <2> DEFINE r == [task[t] EXCEPT !.at = "changing", !.now = clock]
  <2>1. PICK k : k = task[t].token
    OBVIOUS
  <2>2. /\ k \in Index /\ k \in 1..MaxTokens /\ task[t].user = tokens[k].user
        /\ task[t].password \in Passwords /\ rowLock[k] = NoTask
        /\ LiveRow(k) /\ Expires(k) > clock
    BY <1>1, <1>4, <2>1, Records, InBounds DEF TaskInv, ConfirmInv, Unlocked, Consumable
  <2>3. clock \in 0..MaxTime /\ clock \in Nat /\ Expires(k) \in Nat
    BY <2>2, Records, Rows0, Constants DEF TypeInv, Expires
  <2>4. r \in TaskRecords
    BY <2>3, Records DEF TaskRecords, Places
  <2>5. /\ r.op = "confirm" /\ r.at = "changing" /\ r.now = clock /\ r.token = k
        /\ r.user = tokens[k].user /\ r.password = task[t].password
    BY <1>1, <2>1, <2>2, Records DEF TaskRecords
  <2>6. task' = [task EXCEPT ![t] = r] /\ rowLock' = [rowLock EXCEPT ![k] = t]
    BY <1>4, <2>1 DEF Consume
  <2> HIDE DEF r
  <2>7. task'[t] = r
    BY <2>6 DEF Inv, TypeInv
  <2>8. TaskInv(t)'
    <3>1. k \in Index' /\ LiveRow(k)' /\ Expires(k)' = Expires(k) /\ tokens' = tokens
      BY <1>1, <2>2 DEF Index, LiveRow, Expires
    <3>2. rowLock'[k] = t
      BY <2>2, <2>6 DEF Inv, TypeInv
    <3>3. clock < Expires(k)
      BY <2>2, <2>3
    <3> QED
      BY <2>2, <2>5, <2>7, <3>1, <3>2, <3>3
         DEF TaskInv, PlacesOf, ConfirmInv, LiveRow, Expires
  <2>9. Pending' \subseteq Pending
    BY <1>1, <2>5, <2>6 DEF Pending, Inv, TypeInv
  <2>10. rowLock' \in [1..MaxTokens -> Tasks \cup {NoTask}] /\ lock' \in Tasks \cup {NoTask}
    BY <1>1, <2>6 DEF Inv, TypeInv
  <2>11. \A j \in 1..MaxTokens : rowLock'[j] = t => Holds(t, j)'
    <3>1. \A j \in 1..MaxTokens : rowLock[j] # t
      BY <1>2 DEF Inv, LockInv
    <3> QED
      BY <2>5, <2>6, <2>7, <3>1 DEF Holds, At, Inv, TypeInv
  <2>12. \A v \in Tasks \ {t} : \A j \in 1..MaxTokens : rowLock[j] = v <=> rowLock'[j] = v
    BY <2>2, <2>6, Constants DEF Inv, TypeInv
  <2>13. lock' # t
    BY <1>1, <1>2 DEF Inv, LockInv
  <2> QED
    BY <1>1, <2>4, <2>5, <2>6, <2>8, <2>9, <2>10, <2>11, <2>12, <2>13, Moves
<1> QED
  BY <1>3, <1>4

LEMMA Released ==
    ASSUME Inv, NEW t \in Tasks, End(t), ReleaseRows(t), ReleaseLock(t) \/ UNCHANGED lock,
           lock # t \/ ReleaseLock(t),
           UNCHANGED <<accounts, tokens, mailbox, sessions, host, clock>>
    PROVE  Inv' /\ Steady
<1>1. Idle \in TaskRecords /\ task' = [task EXCEPT ![t] = Idle] /\ task'[t] = Idle
  BY Constants DEF End, Inv, TypeInv
<1>2. TaskInv(t)' /\ Idle.at \notin {"sending", "discarding"}
  BY <1>1, IdleInv DEF Idle
<1>3. Pending' \subseteq Pending
  BY <1>1 DEF Pending, Idle, Inv, TypeInv
<1>4. /\ rowLock' \in [1..MaxTokens -> Tasks \cup {NoTask}]
      /\ \A k \in 1..MaxTokens : /\ rowLock'[k] # t
                                 /\ \A v \in Tasks \ {t} : rowLock[k] = v <=> rowLock'[k] = v
  BY Constants DEF ReleaseRows, Inv, TypeInv
<1>5. /\ lock' \in Tasks \cup {NoTask} /\ lock' # t
      /\ \A v \in Tasks \ {t} : lock = v <=> lock' = v
  BY Constants DEF ReleaseLock, Inv, TypeInv
<1> QED
  BY <1>1, <1>2, <1>3, <1>4, <1>5, Moves

LEMMA StepIssueFails ==
    ASSUME Inv, NEW t \in Tasks, IssueFails(t)
    PROVE  Inv' /\ Steady
  BY Released DEF IssueFails

LEMMA StepResetFails ==
    ASSUME Inv, NEW t \in Tasks, ResetFails(t)
    PROVE  Inv' /\ Steady
<1>1. lock # t
  BY DEF ResetFails, At, Inv, LockInv, Issuing
<1> QED
  BY <1>1, Released DEF ResetFails

-----------------------------------------------------------------------------
(* The actions that write an account, a session or the mailbox.             *)

LEMMA RowsSame ==
    ASSUME Inv, UNCHANGED <<tokens, clock>>
    PROVE  /\ NewestInv' /\ SpentInv' /\ OrderInv' /\ QuotasHold'
           /\ Index' = Index /\ \A u : Spent(u)' = Spent(u)
<1>1. Index' = Index /\ (\A k : LiveRow(k)' <=> LiveRow(k)) /\ \A u : Spent(u)' = Spent(u)
  BY DEF Index, LiveRow, Spent
<1>2. NewestInv' /\ SpentInv'
  BY <1>1 DEF Inv, RowInv, NewestInv, SpentInv, Expires
<1>3. OrderInv'
  BY <1>1 DEF Inv, RowInv, OrderInv
<1>4. QuotasHold'
  BY <1>1 DEF Inv, RowInv, QuotasHold, Index
<1> QED
  BY <1>1, <1>2, <1>3, <1>4

LEMMA StepDeliver ==
    ASSUME Inv, NEW t \in Tasks, NEW o \in Outcomes, Deliver(t, o)
    PROVE  Inv' /\ Steady
<1>1. /\ task[t].op = "request" /\ task[t].at = "sending"
      /\ UNCHANGED <<accounts, tokens, lock, rowLock, sessions, host, clock>>
      /\ mailbox' = mailbox \/ mailbox' = mailbox \cup {task[t].token}
  BY DEF Deliver, At
<1>2. PICK k, u : k = task[t].token /\ u = task[t].user
  OBVIOUS
<1>3. Mailing(t) /\ ~Issuing(t) /\ \A j : ~Holds(t, j)
  BY <1>1 DEF Mailing, Issuing, Holds, At
<1>4. k \in Index /\ k \notin mailbox /\ tokens[k].user = u /\ u \in Users /\ status[u] # "absent"
  BY <1>1, <1>2, <1>3, Records DEF TaskInv, RequestInv
<1>5. PICK r : /\ task' = [task EXCEPT ![t] = r] /\ r \in TaskRecords
               /\ \/ r = Idle
                  \/ /\ mailbox' = mailbox /\ r.op = "request" /\ r.at = "discarding"
                     /\ r.token = k /\ r.user = u
  <2>1. CASE DeliveryKind(o) \in {"sent", "ambiguous"}
    BY <2>1, Constants DEF Deliver, End
  <2>2. CASE DeliveryKind(o) \notin {"sent", "ambiguous"}
    <3>1. mailbox' = mailbox
      BY <2>2 DEF Deliver, DeliveryKind, MayHaveLeft, Outcomes
    <3> DEFINE q == [task[t] EXCEPT !.at = "discarding"]
    <3>2. q \in TaskRecords
      BY Records DEF TaskRecords, Places
    <3>3. q.op = "request" /\ q.at = "discarding" /\ q.token = k /\ q.user = u
      BY <1>1, <1>2, Records DEF TaskRecords
    <3>4. task' = [task EXCEPT ![t] = q]
      BY <2>2 DEF Deliver, Go
    <3> HIDE DEF q
    <3> QED
      BY <3>1, <3>2, <3>3, <3>4
  <2> QED
    BY <2>1, <2>2
<1>6. task' \in [Tasks -> TaskRecords] /\ task'[t] = r
      /\ \A v \in Tasks \ {t} : task'[v] = task[v]
  BY <1>5 DEF Inv, TypeInv
<1>7. TypeInv'
  BY <1>1, <1>2, <1>4, <1>6 DEF Inv, TypeInv, accounts, Index
<1>8. RowInv' /\ Steady
  <2>1. clock <= clock'
    BY <1>1 DEF Inv, TypeInv
  <2> QED
    BY <1>1, <1>7, <2>1, Quiet DEF accounts
<1>9. CapInv'
  <2>1. Pending' \subseteq Pending
    BY <1>5, <1>6 DEF Pending, Idle
  <2> QED
    BY <1>1, <2>1, CapKept
<1>10. /\ Mailing(t)' => task'[t].token = k
       /\ ~At(t, "request", "sending")' /\ ~Issuing(t)' /\ \A j : ~Holds(t, j)'
  BY <1>5, <1>6 DEF Idle, Mailing, At, Issuing, Holds
<1>11. \A v \in Tasks \ {t} : /\ Mailing(v)' <=> Mailing(v)
                              /\ At(v, "request", "sending")' => At(v, "request", "sending")
                              /\ Issuing(v)' <=> Issuing(v)
                              /\ \A j : Holds(v, j)' <=> Holds(v, j)
  BY <1>6 DEF Mailing, At, Issuing, Holds
<1>12. LockInv'
  <2>1. LockInv /\ Index' = Index /\ \A j \in Index : Replaced(j)' <=> Replaced(j)
    BY <1>1 DEF Inv, Index, Replaced
  <2>2. \A v \in Tasks : lock' = v => Issuing(v)'
    BY <1>1, <1>3, <1>11, <2>1 DEF LockInv
  <2>3. \A j \in 1..MaxTokens : \A v \in Tasks : rowLock'[j] = v => Holds(v, j)'
    BY <1>1, <1>3, <1>11, <2>1 DEF LockInv
  <2>4. \A v, w \in Tasks : Mailing(v)' /\ Mailing(w)' /\ v # w => task'[v].token # task'[w].token
    BY <1>2, <1>3, <1>6, <1>10, <1>11, <2>1 DEF LockInv
  <2>5. At(t, "request", "sending")
    BY <1>1 DEF At
  <2>6. \A j \in Index : tokens[j].invalidated =>
          \/ Replaced(j)'
          \/ j \notin mailbox' /\ \A v \in Tasks : At(v, "request", "sending")' => task'[v].token # j
    BY <1>1, <1>2, <1>6, <1>10, <1>11, <2>1, <2>5 DEF LockInv
  <2> QED
    BY <1>1, <2>1, <2>2, <2>3, <2>4, <2>6 DEF LockInv
<1>13. \A v \in Tasks \ {t} : Spares(v)
  <2>1. \A v \in Tasks \ {t} : Mailing(v) => task[v].token # k
    BY <1>2, <1>3 DEF Inv, LockInv
  <2> QED
    BY <1>1, <1>2, <2>1 DEF Spares, LiveRow
<1>14. TaskInv(t)'
  <2>1. CASE r = Idle
    BY <1>6, <2>1, IdleInv
  <2>2. CASE r # Idle
    <3>1. /\ mailbox' = mailbox /\ r.op = "request" /\ r.at = "discarding"
          /\ r.token = k /\ r.user = u
      BY <1>5, <2>2
    <3>2. k \in Index' /\ tokens'[k].user = u /\ status'[u] # "absent"
      BY <1>1, <1>4 DEF Index, accounts
    <3> QED
      BY <1>4, <1>6, <3>1, <3>2 DEF TaskInv, PlacesOf, RequestInv, Issuing, Mailing
  <2> QED
    BY <2>1, <2>2
<1> QED
  BY <1>6, <1>7, <1>8, <1>9, <1>12, <1>13, <1>14, Combine

LEMMA StepSignAccessToken ==
    ASSUME Inv, NEW t \in Tasks, SignAccessToken(t)
    PROVE  Inv' /\ Steady
<1>1. PICK u, sv, p : u = task[t].user /\ sv = task[t].sv /\ p = task[t].password
  OBVIOUS
<1> DEFINE s == [user |-> u, claim |-> TRUE, sv |-> sv, password |-> p]
<1>2. /\ task[t].at = "signing" /\ task[t].op \in {"login", "register"}
      /\ sessions' = sessions \cup {s} /\ End(t)
      /\ UNCHANGED <<accounts, links, host, clock>>
  BY <1>1 DEF SignAccessToken, At, SignedVersion
<1>3. /\ u \in Users /\ status[u] # "absent" /\ p \in Passwords /\ sv \in Nat
      /\ sv <= version[u] /\ (sv = version[u] => p = password[u])
  BY <1>1, <1>2, Records DEF TaskInv, SigningInv, TaskRecords
<1>4. /\ s.user = u /\ PresentedVersion(s) = sv /\ s.password = p
      /\ s \in SessionRecords
  BY <1>3 DEF PresentedVersion, SessionRecords
<1> HIDE DEF s
<1>5. task' = [task EXCEPT ![t] = Idle] /\ task'[t] = Idle /\ Idle \in TaskRecords
      /\ \A v \in Tasks \ {t} : task'[v] = task[v]
  BY <1>2, Constants DEF End, Inv, TypeInv
<1>6. TypeInv'
  BY <1>2, <1>4, <1>5 DEF Inv, TypeInv, accounts, links, Index
<1>7. RowInv'
  <2>1. NewestInv' /\ SpentInv' /\ OrderInv' /\ QuotasHold' /\ Index' = Index
        /\ \A v : Spent(v)' = Spent(v)
    BY <1>2, RowsSame DEF links
  <2>2. AbsentInv'
    BY <1>2, <1>3, <1>4, <2>1 DEF Inv, RowInv, AbsentInv, HasCredential, accounts, links
  <2>3. CountInv'
    BY <1>2, <2>1 DEF Inv, RowInv, CountInv, accounts
  <2>4. SessionInv'
    <3>1. \A q \in sessions : /\ PresentedVersion(q) <= version[q.user]
                              /\ PresentedVersion(q) = version[q.user] => q.password = password[q.user]
      BY DEF Inv, RowInv, SessionInv
    <3>2. /\ PresentedVersion(s) <= version[s.user]
          /\ PresentedVersion(s) = version[s.user] => s.password = password[s.user]
      BY <1>3, <1>4
    <3>3. version' = version /\ password' = password
      BY <1>2 DEF accounts
    <3>4. \A q \in sessions' : /\ PresentedVersion(q) <= version[q.user]
                               /\ PresentedVersion(q) = version[q.user] => q.password = password[q.user]
      BY <1>2, <3>1, <3>2
    <3> QED
      BY <3>3, <3>4 DEF SessionInv, PresentedVersion
  <2> QED
    BY <2>1, <2>2, <2>3, <2>4 DEF RowInv
<1>8. Steady
  <2>1. \A v \in Users : version[v] \in Nat
    BY DEF Inv, TypeInv
  <2>2. clock \in Nat
    BY Constants DEF Inv, TypeInv
  <2> QED
    BY <1>2, <2>1, <2>2 DEF Steady, Spends, accounts, links, Index, LiveRow
<1>9. LockInv' /\ \A v \in Tasks : Spares(v)
  <2>1. ~Issuing(t) /\ ~At(t, "confirm", "changing") /\ ~Mailing(t)'
    BY <1>2, <1>5 DEF Issuing, At, Mailing, Idle
  <2> QED
    BY <1>2, <1>5, <2>1, LocksSame
<1>10. CapInv'
  <2>1. Pending' \subseteq Pending
    BY <1>5 DEF Pending, Idle
  <2> QED
    BY <1>2, <2>1, CapKept DEF links
<1> QED
  BY <1>5, <1>6, <1>7, <1>8, <1>9, <1>10, IdleInv, Combine

LEMMA StepCreateUser ==
    ASSUME Inv, NEW t \in Tasks, CreateUser(t)
    PROVE  Inv' /\ Steady
<1>1. PICK u, p : u = task[t].user /\ p = task[t].password
  OBVIOUS
<1>2. /\ task[t].op = "register" /\ task[t].at = "creating"
      /\ UNCHANGED <<links, sessions, host, clock>>
  BY DEF CreateUser, At
<1>3. u \in Users /\ p \in Passwords
  BY <1>1, <1>2, Records DEF TaskInv
<1>4. ~Issuing(t) /\ ~At(t, "confirm", "changing")
  BY <1>2 DEF Issuing, At
<1>5. CASE status[u] # "absent"
  BY <1>1, <1>2, <1>4, <1>5, EndOnly DEF CreateUser
<1>6. CASE status[u] = "absent"
  <2> DEFINE r == [task[t] EXCEPT !.at = "signing", !.sv = 0]
             d == DidAt(host)
  <2>1. /\ status' = [status EXCEPT ![u] = "active"]
        /\ password' = [password EXCEPT ![u] = p]
        /\ version' = [version EXCEPT ![u] = 0]
        /\ did' = [did EXCEPT ![u] = d]
        /\ task' = [task EXCEPT ![t] = r]
    BY <1>1, <1>6 DEF CreateUser
  <2>2. r \in TaskRecords
    BY Records DEF TaskRecords, Places
  <2>3. r.op = "register" /\ r.at = "signing" /\ r.sv = 0 /\ r.user = u /\ r.password = p
    BY <1>1, <1>2, Records DEF TaskRecords
  <2>4. d \in Hosts \cup {NoDid}
    BY DEF Inv, TypeInv, DidAt
  <2> HIDE DEF r, d
  <2>5. task' \in [Tasks -> TaskRecords] /\ task'[t] = r
        /\ \A v \in Tasks \ {t} : task'[v] = task[v]
    BY <2>1, <2>2 DEF Inv, TypeInv
  <2>6. TypeInv'
    BY <1>2, <1>3, <2>1, <2>4, <2>5 DEF Inv, TypeInv, links, Index
  <2>7. /\ ~HasCredential(u) /\ did[u] = NoDid
        /\ \A k \in Index : tokens[k].user # u
        /\ \A s \in sessions : s.user # u
    BY <1>3, <1>6 DEF Inv, RowInv, AbsentInv
  <2>8. /\ status'[u] = "active" /\ password'[u] = p /\ version'[u] = 0
        /\ \A v \in Users \ {u} : /\ status'[v] = status[v] /\ password'[v] = password[v]
                                  /\ version'[v] = version[v] /\ did'[v] = did[v]
    BY <1>3, <2>1 DEF Inv, TypeInv
  <2>9. NewestInv' /\ SpentInv' /\ OrderInv' /\ QuotasHold' /\ Index' = Index
        /\ \A v : Spent(v)' = Spent(v)
    BY <1>2, RowsSame DEF links
  <2>10. AbsentInv'
    BY <1>2, <2>8, <2>9 DEF Inv, RowInv, AbsentInv, HasCredential, links
  <2>11. CountInv'
    <3>1. Spent(u) = {}
      BY <2>7 DEF Spent
    <3>2. Cardinality(Spent(u)) = 0
      BY <3>1, FS_EmptySet
    <3> QED
      BY <2>8, <2>9, <3>2 DEF Inv, RowInv, CountInv
  <2>12. SessionInv'
    <3>1. \A s \in sessions : s.user \in Users \ {u}
      BY <2>7 DEF Inv, TypeInv, SessionRecords
    <3> QED
      BY <1>2, <2>8, <3>1 DEF Inv, RowInv, SessionInv, PresentedVersion
  <2>13. RowInv'
    BY <2>9, <2>10, <2>11, <2>12 DEF RowInv
  <2>14. Steady
    <3>1. (\A v \in Users : version[v] \in Nat) /\ clock \in Nat
      BY Constants DEF Inv, TypeInv
    <3> QED
      BY <1>2, <1>6, <2>7, <2>8, <3>1 DEF Steady, Spends, links, Index, LiveRow
  <2>15. LockInv' /\ \A v \in Tasks : Spares(v)
    <3>1. ~Mailing(t)'
      BY <2>3, <2>5 DEF Mailing
    <3> QED
      BY <1>2, <1>4, <2>5, <3>1, LocksSame
  <2>16. CapInv'
    <3>1. Pending' \subseteq Pending
      BY <2>3, <2>5 DEF Pending
    <3> QED
      BY <1>2, <3>1, CapKept DEF links
  <2>17. TaskInv(t)'
    BY <1>3, <2>3, <2>5, <2>8 DEF TaskInv, PlacesOf, SigningInv
  <2> QED
    BY <2>5, <2>6, <2>13, <2>14, <2>15, <2>16, <2>17, Combine
<1> QED
  BY <1>5, <1>6

LEMMA StepWriteDid ==
    ASSUME Inv, NEW t \in Tasks, WriteDid(t)
    PROVE  Inv' /\ Steady
<1>1. PICK u : u = task[t].user
  OBVIOUS
<1>2. /\ task[t].op = "ensure" /\ task[t].at = "writing"
      /\ UNCHANGED <<status, password, version, links, sessions, host, clock>>
  BY DEF WriteDid, At
<1>3. u \in Users /\ status[u] # "absent" /\ task[t].host # NoHost
  BY <1>1, <1>2, Records DEF TaskInv, EnsureInv
<1>4. ~Issuing(t) /\ ~At(t, "confirm", "changing")
  BY <1>2 DEF Issuing, At
<1>5. CASE did[u] # NoDid
  <2> DEFINE r == [task[t] EXCEPT !.at = "reloading"]
  <2>1. r \in TaskRecords
    BY Records DEF TaskRecords, Places
  <2>2. r.op = "ensure" /\ r.at = "reloading" /\ r.user = u
    BY <1>1, <1>2, Records DEF TaskRecords
  <2>3. task' = [task EXCEPT ![t] = r] /\ UNCHANGED <<accounts, links, sessions, host, clock>>
    BY <1>1, <1>5 DEF WriteDid, Go, accounts
  <2> HIDE DEF r
  <2>4. Pending' \subseteq Pending
    BY <2>2, <2>3 DEF Pending, Inv, TypeInv
  <2>5. task'[t] = r => TaskInv(t)'
    BY <1>2, <1>3, <2>2 DEF TaskInv, PlacesOf, EnsureInv
  <2> QED
    BY <1>4, <2>1, <2>2, <2>3, <2>4, <2>5, TaskOnly
<1>6. CASE did[u] = NoDid
  <2> DEFINE d == DidAt(task[t].host)
             r == [task[t] EXCEPT !.at = "answered", !.did = d]
  <2>1. did' = [did EXCEPT ![u] = d] /\ task' = [task EXCEPT ![t] = r]
    BY <1>1, <1>6 DEF WriteDid
  <2>2. d \in Hosts \cup {NoDid}
    BY <1>3, Records DEF DidAt, TaskRecords
  <2> HIDE DEF d
  <2>3. r \in TaskRecords
    BY <2>2, Records DEF TaskRecords, Places
  <2>4. r.op = "ensure" /\ r.at = "answered" /\ r.user = u /\ r.did = d
    BY <1>1, <1>2, Records DEF TaskRecords
  <2> HIDE DEF r
  <2>5. task' \in [Tasks -> TaskRecords] /\ task'[t] = r
        /\ \A v \in Tasks \ {t} : task'[v] = task[v]
    BY <2>1, <2>3 DEF Inv, TypeInv
  <2>6. TypeInv'
    BY <1>2, <2>1, <2>2, <2>5 DEF Inv, TypeInv, links, Index
  <2>7. did'[u] = d /\ \A v \in Users \ {u} : did'[v] = did[v]
    BY <1>3, <2>1 DEF Inv, TypeInv
  <2>8. NewestInv' /\ SpentInv' /\ OrderInv' /\ QuotasHold' /\ Index' = Index
        /\ \A v : Spent(v)' = Spent(v)
    BY <1>2, RowsSame DEF links
  <2>9. AbsentInv'
    BY <1>2, <1>3, <2>7, <2>8 DEF Inv, RowInv, AbsentInv, HasCredential, links
  <2>10. CountInv' /\ SessionInv'
    BY <1>2, <2>8 DEF Inv, RowInv, CountInv, SessionInv, PresentedVersion
  <2>11. RowInv'
    BY <2>8, <2>9, <2>10 DEF RowInv
  <2>12. Steady
    <3>1. (\A v \in Users : version[v] \in Nat) /\ clock \in Nat
      BY Constants DEF Inv, TypeInv
    <3> QED
      BY <1>2, <1>6, <2>7, <3>1 DEF Steady, Spends, links, Index, LiveRow
  <2>13. LockInv' /\ \A v \in Tasks : Spares(v)
    <3>1. ~Mailing(t)'
      BY <2>4, <2>5 DEF Mailing
    <3> QED
      BY <1>2, <1>4, <2>5, <3>1, LocksSame
  <2>14. CapInv'
    <3>1. Pending' \subseteq Pending
      BY <2>4, <2>5 DEF Pending
    <3> QED
      BY <1>2, <3>1, CapKept DEF links
  <2>15. TaskInv(t)'
    BY <1>2, <1>3, <2>4, <2>5, <2>7 DEF TaskInv, PlacesOf, EnsureInv
  <2> QED
    BY <2>5, <2>6, <2>11, <2>12, <2>13, <2>14, <2>15, Combine
<1> QED
  BY <1>5, <1>6

-----------------------------------------------------------------------------
(* The actions that write a row.                                            *)

Within(k, window) == {j \in 1..k : tokens[j].createdAt + window > tokens[k].createdAt}
OwnWithin(k, window) == {j \in Within(k, window) : tokens[j].user = tokens[k].user}
QuotasAt(k) ==
    /\ Cardinality(OwnWithin(k, Cooldown)) <= 1
    /\ Cardinality(OwnWithin(k, AccountWindow)) <= AccountQuota
    /\ Cardinality(Within(k, GlobalWindow)) <= GlobalQuota

\* Rows keep their person and their time.
Rooted ==
    \A k \in Index : /\ k \in Index' /\ tokens'[k].user = tokens[k].user
                     /\ tokens'[k].createdAt = tokens[k].createdAt

LEMMA QuotasAre == QuotasHold <=> \A k \in Index : QuotasAt(k)
  BY DEF QuotasHold, QuotasAt, Within, OwnWithin

LEMMA QuotasKept ==
    ASSUME TypeInv, Rooted, NEW k \in Index, QuotasAt(k)
    PROVE  QuotasAt(k)'
<1>1. Len(tokens) \in Nat /\ k \in Nat /\ k <= Len(tokens)
  BY Rows0 DEF Index
<1>2. 1..k \subseteq Index
  BY <1>1 DEF Index
<1>3. \A w : Within(k, w)' = Within(k, w)
  BY <1>2 DEF Rooted, Within
<1>4. \A w : OwnWithin(k, w)' = OwnWithin(k, w)
  BY <1>2, <1>3 DEF Rooted, Within, OwnWithin
<1> QED
  BY <1>3, <1>4 DEF QuotasAt

LEMMA StepInvalidateUndelivered ==
    ASSUME Inv, NEW t \in Tasks, InvalidateUndelivered(t)
    PROVE  Inv' /\ Steady
<1>1. PICK k : k = task[t].token
  OBVIOUS
<1>2. /\ task[t].op = "request" /\ task[t].at = "discarding" /\ Unlocked({k}) /\ End(t)
      /\ UNCHANGED <<accounts, lock, rowLock, mailbox, sessions, host, clock>>
      /\ tokens' = [tokens EXCEPT ![k].invalidated = @ \/ LiveRow(k)] \/ tokens' = tokens
  BY <1>1 DEF InvalidateUndelivered, At
<1>3. Mailing(t) /\ ~Issuing(t) /\ \A j : ~Holds(t, j)
  BY <1>2 DEF Mailing, Issuing, Holds, At
<1>4. k \in Index /\ k \notin mailbox /\ k \in 1..MaxTokens /\ rowLock[k] = NoTask
  BY <1>1, <1>2, <1>3, Records, InBounds DEF TaskInv, RequestInv, Unlocked
<1>5. PICK n \in Nat : n = Len(tokens) /\ Index = 1..n
  BY Records, Rows0 DEF Index
<1>6. /\ tokens' \in Seq(Rows) /\ Len(tokens') = n
      /\ \A j \in Index : /\ tokens'[j].user = tokens[j].user
                          /\ tokens'[j].createdAt = tokens[j].createdAt
                          /\ tokens'[j].consumed = tokens[j].consumed
                          /\ tokens'[j].consumedAt = tokens[j].consumedAt
                          /\ tokens'[j].deleted = tokens[j].deleted
                          /\ tokens[j].invalidated => tokens'[j].invalidated
                          /\ j # k => tokens'[j] = tokens[j]
  <2>1. DOMAIN tokens = 1..n /\ \A j \in 1..n : tokens[j] \in Rows
    BY <1>5, Records, Rows0
  <2>2. CASE tokens' = tokens
    BY <1>5, <2>2 DEF Inv, TypeInv
  <2>3. CASE tokens' = [tokens EXCEPT ![k].invalidated = @ \/ LiveRow(k)]
    <3>1. PICK b \in BOOLEAN : b <=> tokens[k].invalidated \/ LiveRow(k)
      OBVIOUS
    <3>2. tokens[k].invalidated \in BOOLEAN
      BY <1>4, Records, Rows0
    <3>3. tokens' = [tokens EXCEPT ![k] = [tokens[k] EXCEPT !.invalidated = b]]
      BY <2>3, <3>1, <3>2
    <3>4. [tokens[k] EXCEPT !.invalidated = b] \in Rows
      BY <1>4, <1>5, <2>1 DEF Rows
    <3>5. tokens' \in [1..n -> Rows]
      <4>1. tokens \in [1..n -> Rows]
        BY <1>5, ElementOfSeq, SeqDef, Records, LenProperties, <2>1 DEF TypeInv
      <4> QED
        BY <3>3, <3>4, <4>1, <1>4, <1>5
    <3>6. tokens' \in Seq(Rows) /\ Len(tokens') = n
      BY <3>5, FunctionIsSeq
    <3>7. \A j \in 1..n : tokens'[j] = IF j = k THEN [tokens[k] EXCEPT !.invalidated = b] ELSE tokens[j]
      BY <2>1, <3>3
    <3>8. \A j \in 1..n : j # k => tokens'[j] = tokens[j]
      BY <3>7
    <3>9. /\ tokens'[k].user = tokens[k].user
          /\ tokens'[k].createdAt = tokens[k].createdAt
          /\ tokens'[k].consumed = tokens[k].consumed
          /\ tokens'[k].consumedAt = tokens[k].consumedAt
          /\ tokens'[k].deleted = tokens[k].deleted
          /\ tokens'[k].invalidated = b
      BY <1>4, <1>5, <2>1, <3>7 DEF Rows
    <3> QED
      BY <1>5, <3>1, <3>6, <3>8, <3>9
  <2> QED
    BY <1>2, <2>2, <2>3
<1>7. Index' = Index
  BY <1>5, <1>6 DEF Index
<1>8. task' = [task EXCEPT ![t] = Idle] /\ task'[t] = Idle /\ task' \in [Tasks -> TaskRecords]
      /\ \A v \in Tasks \ {t} : task'[v] = task[v]
  BY <1>2, Constants DEF End, Inv, TypeInv
<1>9. TypeInv'
  BY <1>2, <1>6, <1>7, <1>8 DEF Inv, TypeInv, accounts
<1>10. \A j \in Index : LiveRow(j)' => LiveRow(j)
  BY <1>6 DEF LiveRow
<1>11. RowInv'
  <2>1. AbsentInv'
    BY <1>2, <1>6, <1>7 DEF Inv, RowInv, AbsentInv, HasCredential, accounts
  <2>2. NewestInv'
    BY <1>6, <1>7, <1>10 DEF Inv, RowInv, NewestInv
  <2>3. SpentInv'
    BY <1>6, <1>7 DEF Inv, RowInv, SpentInv, Expires
  <2>4. CountInv'
    <3>1. \A v : Spent(v)' = Spent(v)
      BY <1>6, <1>7 DEF Spent
    <3> QED
      BY <1>2, <3>1 DEF Inv, RowInv, CountInv, accounts
  <2>5. SessionInv'
    BY <1>2 DEF Inv, RowInv, SessionInv, PresentedVersion, accounts
  <2>6. OrderInv'
    BY <1>2, <1>6, <1>7 DEF Inv, RowInv, OrderInv
  <2>7. QuotasHold'
    <3>1. Rooted
      BY <1>6, <1>7 DEF Rooted
    <3>2. \A j \in Index : QuotasAt(j)'
      BY <3>1, QuotasAre, QuotasKept, Records DEF RowInv
    <3>3. QuotasHold' <=> \A j \in Index' : QuotasAt(j)'
      BY DEF QuotasHold, QuotasAt, Within, OwnWithin
    <3> QED
      BY <1>7, <3>2, <3>3
  <2> QED
    BY <2>1, <2>2, <2>3, <2>4, <2>5, <2>6, <2>7 DEF RowInv
<1>12. Steady
  <2>1. (\A v \in Users : version[v] \in Nat) /\ clock \in Nat
    BY Constants DEF Inv, TypeInv
  <2> QED
    BY <1>2, <1>6, <1>7, <1>10, <2>1 DEF Steady, Spends, accounts
<1>13. CapInv'
  <2>1. Pending' \subseteq Pending
    BY <1>8 DEF Pending, Idle
  <2> QED
    BY <1>5, <1>6, <2>1, CapKept
<1>14. \A v \in Tasks \ {t} : Mailing(v) => task[v].token # k
  BY <1>1, <1>3 DEF Inv, LockInv
<1>15. LockInv'
  <2>1. LockInv /\ \A j \in Index : Replaced(j)' <=> Replaced(j)
    BY <1>6, <1>7 DEF Inv, Replaced
  <2>2. ~Mailing(t)' /\ ~At(t, "request", "sending")'
    BY <1>8 DEF Mailing, At, Idle
  <2>3. \A v \in Tasks \ {t} : /\ Mailing(v)' <=> Mailing(v)
                               /\ At(v, "request", "sending")' => At(v, "request", "sending") /\ Mailing(v)
                               /\ Issuing(v)' <=> Issuing(v)
                               /\ \A j : Holds(v, j)' <=> Holds(v, j)
    BY <1>8 DEF Mailing, At, Issuing, Holds
  <2>4. \A v \in Tasks : lock' = v => Issuing(v)'
    BY <1>2, <1>3, <2>1, <2>3 DEF LockInv
  <2>5. \A j \in 1..MaxTokens : \A v \in Tasks : rowLock'[j] = v => Holds(v, j)'
    BY <1>2, <1>3, <2>1, <2>3 DEF LockInv
  <2>6. \A v, w \in Tasks : Mailing(v)' /\ Mailing(w)' /\ v # w => task'[v].token # task'[w].token
    BY <1>8, <2>1, <2>2, <2>3 DEF LockInv
  <2>7. \A j \in Index : tokens'[j].invalidated =>
          \/ Replaced(j)'
          \/ j \notin mailbox' /\ \A v \in Tasks : At(v, "request", "sending")' => task'[v].token # j
    <3> SUFFICES ASSUME NEW j \in Index, tokens'[j].invalidated, ~Replaced(j)'
                 PROVE  /\ j \notin mailbox'
                        /\ \A v \in Tasks : At(v, "request", "sending")' => task'[v].token # j
      OBVIOUS
    <3>1. CASE j = k
      BY <1>2, <1>4, <1>8, <1>14, <2>2, <2>3, <3>1
    <3>2. CASE j # k
      <4>1. tokens[j].invalidated
        BY <1>6, <3>2
      <4> QED
        BY <1>2, <1>8, <2>1, <2>2, <2>3, <4>1 DEF LockInv
    <3> QED
      BY <3>1, <3>2
  <2> QED
    BY <1>7, <2>4, <2>5, <2>6, <2>7 DEF LockInv
<1>16. \A v \in Tasks \ {t} : Spares(v)
  <2>1. \A j \in Index : j # k => (LiveRow(j) => LiveRow(j)')
    BY <1>6 DEF LiveRow
  <2> QED
    BY <1>2, <1>4, <1>5, <1>6, <2>1, Constants DEF Spares
<1> QED
  BY <1>8, <1>9, <1>11, <1>12, <1>13, <1>15, <1>16, IdleInv, Combine

LEMMA QuotasOfTheNew ==
    ASSUME TypeInv, Rooted, NEW t \in Tasks, Room(t), NEW m, m = Len(tokens) + 1,
           tokens'[m].user = task[t].user, tokens'[m].createdAt = task[t].now
    PROVE  QuotasAt(m)'
<1>1. PICK u, now : u = task[t].user /\ now = task[t].now
  OBVIOUS
<1>2. PICK n \in Nat : n = Len(tokens) /\ Index = 1..n /\ m = n + 1
  BY Rows0 DEF Index
<1>3. 1..m = Index \cup {m}
  BY <1>2
<1>4. now \in Nat
  BY <1>1, Constants DEF TypeInv, TaskRecords
<1>5. /\ \A k \in Index : tokens[k].user = u => tokens[k].createdAt + Cooldown <= now
      /\ Cardinality(OwnSince(u, AccountWindow, now)) < AccountQuota
      /\ Cardinality(AllSince(GlobalWindow, now)) < GlobalQuota
  BY <1>1 DEF Room
<1>6. \A w : Within(m, w)' \subseteq AllSince(w, now) \cup {m}
  BY <1>1, <1>3 DEF Within, AllSince, Rooted
<1>7. \A w : OwnWithin(m, w)' \subseteq OwnSince(u, w, now) \cup {m}
  BY <1>1, <1>3 DEF Within, OwnWithin, OwnSince, Rooted
<1>8. OwnSince(u, Cooldown, now) = {}
  <2>1. \A k \in Index : tokens[k].createdAt \in Nat
    BY Rows0
  <2> QED
    BY <1>4, <1>5, <2>1, Constants DEF OwnSince
<1>9. ASSUME NEW A, NEW B, IsFiniteSet(B), A \subseteq B \cup {m}
      PROVE  Cardinality(A) \in Nat /\ Cardinality(B) \in Nat /\ Cardinality(A) <= Cardinality(B) + 1
  <2>1. IsFiniteSet(B \cup {m}) /\ Cardinality(B \cup {m}) <= Cardinality(B) + 1
        /\ Cardinality(B) \in Nat
    <3>1. Cardinality(B) \in Nat
      BY <1>9, FS_CardinalityType
    <3>2. /\ IsFiniteSet(B \cup {m})
          /\ Cardinality(B \cup {m}) = IF m \in B THEN Cardinality(B) ELSE Cardinality(B) + 1
      BY <1>9, FS_AddElement
    <3> QED
      BY <3>1, <3>2
  <2>2. IsFiniteSet(A) /\ Cardinality(A) <= Cardinality(B \cup {m})
    BY <1>9, <2>1, FS_Subset
  <2>3. Cardinality(A) \in Nat /\ Cardinality(B \cup {m}) \in Nat
    BY <2>1, <2>2, FS_CardinalityType
  <2> QED
    BY <2>1, <2>2, <2>3
<1>10. /\ IsFiniteSet(AllSince(GlobalWindow, now)) /\ IsFiniteSet(OwnSince(u, AccountWindow, now))
  BY Rows0, FS_Subset DEF AllSince, OwnSince
<1>11. Cardinality(OwnWithin(m, Cooldown)') <= 1
  <2>1. IsFiniteSet({}) /\ Cardinality({}) = 0
    BY FS_EmptySet
  <2>2. Cardinality(OwnWithin(m, Cooldown)') <= 0 + 1
    BY <1>7, <1>8, <1>9, <2>1
  <2> QED
    BY <2>2
<1>12. Cardinality(OwnWithin(m, AccountWindow)') <= AccountQuota
  <2>1. /\ Cardinality(OwnWithin(m, AccountWindow)') \in Nat
        /\ Cardinality(OwnSince(u, AccountWindow, now)) \in Nat
        /\ Cardinality(OwnWithin(m, AccountWindow)') <= Cardinality(OwnSince(u, AccountWindow, now)) + 1
    BY <1>7, <1>9, <1>10
  <2> QED
    BY <1>5, <2>1, Constants
<1>13. Cardinality(Within(m, GlobalWindow)') <= GlobalQuota
  <2>1. /\ Cardinality(Within(m, GlobalWindow)') \in Nat
        /\ Cardinality(AllSince(GlobalWindow, now)) \in Nat
        /\ Cardinality(Within(m, GlobalWindow)') <= Cardinality(AllSince(GlobalWindow, now)) + 1
    BY <1>6, <1>9, <1>10
  <2> QED
    BY <1>5, <2>1, Constants
<1> QED
  BY <1>11, <1>12, <1>13 DEF QuotasAt

LEMMA StepCommitIssue ==
    ASSUME Inv, NEW t \in Tasks, CommitIssue(t)
    PROVE  Inv' /\ Steady
<1>1. PICK u, now, R, D : /\ u = task[t].user /\ now = task[t].now /\ R = task[t].rows
                          /\ D = Outdated(t)
  OBVIOUS
<1>2. PICK n \in Nat : n = Len(tokens) /\ Index = 1..n
  BY Records, Rows0 DEF Index
<1> DEFINE m == n + 1
           row == NewRow(t)
           f == [k \in Index |-> [tokens[k] EXCEPT !.invalidated = @ \/ k \in R,
                                                   !.deleted = @ \/ k \in D]]
<1>3. /\ task[t].op = "request" /\ task[t].at = "inserting"
      /\ \A k \in D : rowLock[k] \in {NoTask, t}
      /\ tokens' = Append(f, row)
      /\ ReleaseRows(t) /\ ReleaseLock(t)
      /\ UNCHANGED <<accounts, mailbox, sessions, host, clock>>
  BY <1>1 DEF CommitIssue, At
<1>same. UNCHANGED <<status, password, version, did, mailbox, sessions, host, clock>>
  BY <1>3 DEF accounts
<1>4. /\ u \in Users /\ status[u] # "absent" /\ lock = t /\ Room(t) /\ now \in 0..MaxTime
      /\ R \subseteq Index /\ LiveOf(u) \subseteq R
      /\ \A k \in R : tokens[k].user = u /\ rowLock[k] = t
  <2>1. RequestInv(t) /\ Issuing(t) /\ task[t] \in TaskRecords
    BY <1>3, Records DEF TaskInv, Issuing
  <2> QED
    BY <1>1, <1>3, <2>1 DEF RequestInv, TaskRecords
<1>5. /\ tokens' \in Seq(Rows) /\ Len(tokens') = m
      /\ tokens'[m] = row
      /\ \A k \in Index : /\ tokens'[k].user = tokens[k].user
                          /\ tokens'[k].createdAt = tokens[k].createdAt
                          /\ tokens'[k].consumed = tokens[k].consumed
                          /\ tokens'[k].consumedAt = tokens[k].consumedAt
                          /\ tokens'[k].invalidated <=> tokens[k].invalidated \/ k \in R
                          /\ tokens'[k].deleted <=> tokens[k].deleted \/ k \in D
  <2>1. \A k \in Index : tokens[k] \in Rows /\ tokens[k].deleted \in BOOLEAN /\ tokens[k].invalidated \in BOOLEAN
    BY Records, Rows0
  <2>2. \A k \in Index : f[k] \in Rows
    BY <2>1 DEF Rows
  <2>3. f \in [1..n -> Rows]
    BY <1>2, <2>2
  <2>4. f \in Seq(Rows) /\ Len(f) = n
    BY <2>3, FunctionIsSeq
  <2>5. row \in Rows
    BY <1>1, <1>4, Constants DEF NewRow, Rows
  <2>6. \A k \in Index : /\ f[k].user = tokens[k].user
                         /\ f[k].createdAt = tokens[k].createdAt
                         /\ f[k].consumed = tokens[k].consumed
                         /\ f[k].consumedAt = tokens[k].consumedAt
                         /\ f[k].invalidated <=> tokens[k].invalidated \/ k \in R
                         /\ f[k].deleted <=> tokens[k].deleted \/ k \in D
    BY <2>1 DEF Rows
  <2> HIDE DEF f, row
  <2>7. /\ Append(f, row) \in Seq(Rows) /\ Len(Append(f, row)) = n + 1
        /\ Append(f, row)[n + 1] = row /\ \A k \in 1..n : Append(f, row)[k] = f[k]
    BY <2>4, <2>5, AppendProperties
  <2> QED
    BY <1>2, <1>3, <2>6, <2>7
<1>6. /\ tokens'[m].user = u /\ tokens'[m].createdAt = now /\ tokens'[m].consumed = FALSE
      /\ tokens'[m].invalidated = FALSE /\ tokens'[m].deleted = FALSE
  BY <1>1, <1>5 DEF NewRow
<1>7. Index' = Index \cup {m} /\ m \notin Index /\ m \in Nat /\ \A k \in Index : k \in Nat /\ k < m
  BY <1>2, <1>5 DEF Index
<1>8. PICK r : /\ task' = [task EXCEPT ![t] = r] /\ r \in TaskRecords
               /\ \/ r = Idle
                  \/ r.op = "request" /\ r.at = "sending" /\ r.token = m /\ r.user = u
  <2>1. CASE End(t)
    BY <2>1, Constants DEF End
  <2>2. CASE ~End(t)
    <3> DEFINE q == [task[t] EXCEPT !.at = "sending", !.token = m]
    <3>1. task' = [task EXCEPT ![t] = q]
      BY <1>2, <2>2 DEF CommitIssue
    <3>2. q \in TaskRecords
      BY <1>7, Records DEF TaskRecords, Places
    <3>3. q.op = "request" /\ q.at = "sending" /\ q.token = m /\ q.user = u
      BY <1>1, <1>3, Records DEF TaskRecords
    <3> HIDE DEF q
    <3> QED
      BY <3>1, <3>2, <3>3
  <2> QED
    BY <2>1, <2>2
<1> HIDE DEF m, row, f
<1>9. task' \in [Tasks -> TaskRecords] /\ task'[t] = r
      /\ \A v \in Tasks \ {t} : task'[v] = task[v]
  BY <1>8 DEF Inv, TypeInv
<1>10. /\ rowLock' \in [1..MaxTokens -> Tasks \cup {NoTask}]
       /\ \A k \in 1..MaxTokens : /\ rowLock'[k] # t
                                  /\ \A v \in Tasks \ {t} : rowLock[k] = v <=> rowLock'[k] = v
       /\ lock' = NoTask
  BY <1>3, <1>4, Constants DEF ReleaseRows, ReleaseLock, Inv, TypeInv
<1>11. TypeInv'
  BY <1>3, <1>5, <1>7, <1>9, <1>10 DEF Inv, TypeInv, accounts
<1>12. \A k \in Index : LiveRow(k)' => LiveRow(k) /\ k \notin R
  BY <1>5 DEF LiveRow
<1>13. clock \in Nat /\ now \in Nat /\ now <= clock
       /\ \A k \in Index : tokens[k].createdAt \in Nat /\ tokens[k].createdAt <= now
                           /\ tokens[k].deleted \in BOOLEAN
  BY <1>1, <1>4, Records, Rows0, Constants DEF Room, TypeInv
<1>14. Steady
  <2>1. \A v \in Users : version[v] \in Nat
    BY DEF Inv, TypeInv
  <2> QED
    BY <1>same, <1>5, <1>7, <1>12, <1>13, <2>1 DEF Steady, Spends
<1>15. RowInv'
  <2>1. AbsentInv'
    BY <1>same, <1>4, <1>5, <1>6, <1>7 DEF Inv, RowInv, AbsentInv, HasCredential
  <2>2. NewestInv'
    <3> SUFFICES ASSUME NEW k \in Index', NEW j \in Index', LiveRow(k)',
                        tokens'[j].user = tokens'[k].user
                 PROVE  j <= k
      BY DEF NewestInv
    <3>1. CASE k = m
      BY <1>7, <3>1
    <3>2. CASE k \in Index /\ j \in Index
      BY <1>5, <1>12, <3>2 DEF Inv, RowInv, NewestInv
    <3>3. CASE k \in Index /\ j = m
      <4>1. LiveRow(k) /\ k \notin R /\ tokens[k].user = u
        BY <1>5, <1>6, <1>12, <3>3
      <4>2. k \in LiveOf(u)
        BY <3>3, <4>1 DEF LiveOf, TokensOf, LiveRow
      <4> QED
        BY <1>4, <4>1, <4>2
    <3> QED
      BY <1>7, <3>1, <3>2, <3>3
  <2>3. SpentInv'
    BY <1>5, <1>6, <1>7 DEF Inv, RowInv, SpentInv, Expires
  <2>4. CountInv'
    <3>1. \A v : Spent(v)' = Spent(v)
      BY <1>5, <1>6, <1>7 DEF Spent
    <3> QED
      BY <1>3, <3>1 DEF Inv, RowInv, CountInv, accounts
  <2>5. SessionInv'
    BY <1>3 DEF Inv, RowInv, SessionInv, PresentedVersion, accounts
  <2>6. OrderInv'
    <3>1. \A k \in Index' : tokens'[k].createdAt <= now
      BY <1>5, <1>6, <1>7, <1>13
    <3>2. \A k \in Index' : tokens'[k].createdAt <= clock'
      BY <1>same, <1>5, <1>6, <1>7, <1>13
    <3>3. \A j, k \in Index' : j <= k => tokens'[j].createdAt <= tokens'[k].createdAt
      <4> SUFFICES ASSUME NEW j \in Index', NEW k \in Index', j <= k
                   PROVE  tokens'[j].createdAt <= tokens'[k].createdAt
        OBVIOUS
      <4>1. CASE k = m
        BY <1>6, <3>1, <4>1
      <4>2. CASE k \in Index
        <5>1. j \in Index
          BY <1>7, <4>2
        <5> QED
          BY <1>5, <4>2, <5>1 DEF Inv, RowInv, OrderInv
      <4> QED
        BY <1>7, <4>1, <4>2
    <3>4. \A k \in Index' : tokens'[k].deleted => tokens'[k].createdAt + Retention < clock'
      <4>1. \A k \in Index : k \in D => tokens[k].createdAt + Retention < now
        BY <1>1 DEF Outdated
      <4>2. \A k \in Index : tokens[k].deleted => tokens[k].createdAt + Retention < clock
        BY DEF Inv, RowInv, OrderInv
      <4>3. \A k \in Index : k \in D => tokens[k].createdAt + Retention < clock
        BY <1>13, <4>1, Constants
      <4> QED
        BY <1>3, <1>5, <1>6, <1>7, <4>2, <4>3
    <3> QED
      BY <3>2, <3>3, <3>4 DEF OrderInv
  <2>7. QuotasHold'
    <3>1. Rooted
      BY <1>5, <1>7 DEF Rooted
    <3>2. \A j \in Index : QuotasAt(j)'
      BY <3>1, QuotasAre, QuotasKept, Records DEF RowInv
    <3>3. QuotasAt(m)'
      BY <1>1, <1>2, <1>4, <1>6, <3>1, QuotasOfTheNew, Records DEF m
    <3>4. QuotasHold' <=> \A j \in Index' : QuotasAt(j)'
      BY DEF QuotasHold, QuotasAt, Within, OwnWithin
    <3> QED
      BY <1>7, <3>2, <3>3, <3>4
  <2> QED
    BY <2>1, <2>2, <2>3, <2>4, <2>5, <2>6, <2>7 DEF RowInv
<1>16. CapInv'
  <2>1. t \in Pending /\ Pending' = Pending \ {t}
    BY <1>3, <1>8, <1>9 DEF Pending, Idle
  <2>2. IsFiniteSet(Pending)
    BY Constants, FS_Subset DEF Pending
  <2>3. Cardinality(Pending') = Cardinality(Pending) - 1 /\ Cardinality(Pending) \in Nat
    BY <2>1, <2>2, FS_RemoveElement, FS_CardinalityType
  <2> QED
    BY <1>2, <1>5, <2>3, Constants DEF Inv, CapInv, m
<1>17. \A v \in Tasks \ {t} : Mailing(v) => task[v].token \in Index
  BY Records DEF TaskInv, RequestInv, Mailing
<1>18. /\ ~Issuing(t)' /\ (\A j : ~Holds(t, j)') /\ (Mailing(t)' => task'[t].token = m)
       /\ At(t, "request", "sending")' => task'[t].token = m
  BY <1>8, <1>9 DEF Idle, Issuing, Holds, Mailing, At
<1>19. \A v \in Tasks \ {t} : /\ Mailing(v)' <=> Mailing(v)
                              /\ At(v, "request", "sending")' => At(v, "request", "sending")
                              /\ \A j : Holds(v, j)' <=> Holds(v, j)
  BY <1>9 DEF Mailing, At, Holds
<1>20. LockInv'
  <2>1. LockInv
    BY DEF Inv
  <2>2. \A v \in Tasks : lock' = v => Issuing(v)'
    BY <1>10, Constants
  <2>3. \A j \in 1..MaxTokens : \A v \in Tasks : rowLock'[j] = v => Holds(v, j)'
    BY <1>10, <1>19, <2>1 DEF LockInv
  <2>4. \A v, w \in Tasks : Mailing(v)' /\ Mailing(w)' /\ v # w => task'[v].token # task'[w].token
    BY <1>7, <1>9, <1>17, <1>18, <1>19, <2>1 DEF LockInv
  <2>5. \A j \in Index' : tokens'[j].invalidated =>
          \/ Replaced(j)'
          \/ j \notin mailbox' /\ \A v \in Tasks : At(v, "request", "sending")' => task'[v].token # j
    <3> SUFFICES ASSUME NEW j \in Index', tokens'[j].invalidated, ~Replaced(j)'
                 PROVE  /\ j \notin mailbox'
                        /\ \A v \in Tasks : At(v, "request", "sending")' => task'[v].token # j
      OBVIOUS
    <3>1. j \in Index
      BY <1>6, <1>7
    <3>2. j \notin R
      <4>1. \A k \in R : m \in Index' /\ tokens'[m].user = tokens'[k].user /\ m > k
        BY <1>4, <1>5, <1>6, <1>7
      <4> QED
        BY <4>1 DEF Replaced
    <3>3. tokens[j].invalidated
      BY <1>5, <3>1, <3>2
    <3>4. ~Replaced(j)
      BY <1>5, <1>7, <3>1 DEF Replaced
    <3>5. j \notin mailbox /\ \A v \in Tasks : At(v, "request", "sending") => task[v].token # j
      BY <2>1, <3>1, <3>3, <3>4 DEF LockInv
    <3> QED
      BY <1>3, <1>7, <1>9, <1>18, <1>19, <3>1, <3>5
  <2> QED
    BY <2>2, <2>3, <2>4, <2>5 DEF LockInv
<1>21. \A v \in Tasks \ {t} : Spares(v)
  <2> SUFFICES ASSUME NEW v \in Tasks \ {t}
               PROVE  Spares(v)
    OBVIOUS
  <2>1. lock # v
    BY <1>4
  <2>2. ASSUME NEW k \in 1..MaxTokens, rowLock[k] = v
        PROVE  rowLock'[k] = v /\ (k \in Index /\ LiveRow(k) => LiveRow(k)')
    <3>1. k \notin R /\ k \notin D
      BY <1>3, <1>4, <2>2, Constants
    <3> QED
      BY <1>5, <1>10, <2>2, <3>1 DEF LiveRow
  <2> QED
    BY <1>3, <2>1, <2>2 DEF Spares
<1>22. TaskInv(t)'
  <2>1. CASE r = Idle
    BY <1>9, <2>1, IdleInv
  <2>2. CASE r # Idle
    <3>1. r.op = "request" /\ r.at = "sending" /\ r.token = m /\ r.user = u
      BY <1>8, <2>2
    <3>2. m \in Index' /\ m \notin mailbox' /\ status'[u] # "absent"
      BY <1>3, <1>4, <1>7, Records DEF accounts, TypeInv
    <3> QED
      BY <1>4, <1>6, <1>9, <3>1, <3>2 DEF TaskInv, PlacesOf, RequestInv, Issuing, Mailing
  <2> QED
    BY <2>1, <2>2
<1> QED
  BY <1>9, <1>11, <1>14, <1>15, <1>16, <1>20, <1>21, <1>22, Combine

\* What a reset does, when the account still has a credential.
LEMMA ResetFacts ==
    ASSUME Inv, NEW t \in Tasks, CommitReset(t), NEW u, u = task[t].user,
           NEW k, k = task[t].token
    PROVE  /\ UNCHANGED <<status, did, lock, mailbox, sessions, host, clock>>
           /\ ReleaseRows(t) /\ End(t) /\ lock # t /\ ~Mailing(t)
           /\ u \in Users /\ k \in Index /\ k \in 1..MaxTokens /\ tokens[k].user = u
           /\ task[t].password \in Passwords /\ rowLock[k] = t /\ LiveRow(k)
           /\ Len(tokens') = Len(tokens) /\ Index' = Index /\ tokens' \in Seq(Rows)
           /\ \/ UNCHANGED <<password, version, tokens>>
              \/ /\ HasCredential(u)
                 /\ password' = [password EXCEPT ![u] = task[t].password]
                 /\ version' = [version EXCEPT ![u] = @ + 1]
                 /\ tokens'[k].consumed /\ tokens'[k].consumedAt < Expires(k)
                 /\ \A j \in Index :
                      /\ tokens'[j].user = tokens[j].user
                      /\ tokens'[j].createdAt = tokens[j].createdAt
                      /\ tokens'[j].deleted = tokens[j].deleted
                      /\ tokens'[j].invalidated <=>
                            tokens[j].invalidated \/ j \in LiveOf(u) \ {k}
                      /\ rowLock[j] \notin Tasks \/ j \notin LiveOf(u) \ {k}
                      /\ j # k => /\ tokens'[j].consumed = tokens[j].consumed
                                  /\ tokens'[j].consumedAt = tokens[j].consumedAt
<1>1. PICK now, others : now = task[t].now /\ others = LiveOf(u) \ {k}
  OBVIOUS
<1>2. PICK n \in Nat : n = Len(tokens) /\ Index = 1..n
  BY Records, Rows0 DEF Index
<1> DEFINE f == [j \in Index |-> [tokens[j] EXCEPT !.invalidated = @ \/ j \in others,
                                                   !.consumedAt = IF j = k THEN now ELSE @,
                                                   !.consumed = @ \/ j = k]]
<1>3. /\ task[t].op = "confirm" /\ task[t].at = "changing" /\ Unlocked(others)
      /\ IF HasCredential(u)
         THEN /\ password' = [password EXCEPT ![u] = task[t].password]
              /\ version' = [version EXCEPT ![u] = version[u] + 1]
              /\ tokens' = f
         ELSE UNCHANGED <<password, version, tokens>>
      /\ ReleaseRows(t) /\ End(t)
      /\ UNCHANGED <<status, did, lock, mailbox, sessions, host, clock>>
  BY <1>1 DEF CommitReset, At, NextVersion
<1>4. /\ u \in Users /\ k \in Index /\ k \in 1..MaxTokens /\ tokens[k].user = u
      /\ task[t].password \in Passwords /\ rowLock[k] = t /\ LiveRow(k) /\ now < Expires(k)
      /\ now \in 0..MaxTime
  <2>1. ConfirmInv(t) /\ task[t] \in TaskRecords
    BY <1>3, Records DEF TaskInv
  <2> QED
    BY <1>1, <1>2, <1>3, <2>1, Records, Rows0, InBounds DEF ConfirmInv, TaskRecords
<1>5. lock # t /\ ~Mailing(t)
  BY <1>3 DEF Inv, LockInv, Issuing, Mailing
<1>6. \A j \in Index : tokens[j] \in Rows /\ tokens[j].invalidated \in BOOLEAN
                       /\ tokens[j].consumed \in BOOLEAN
  BY Records, Rows0
<1>7. \A j \in Index : f[j] \in Rows
  BY <1>4, <1>6 DEF Rows
<1>8. f \in [1..n -> Rows]
  BY <1>2, <1>7
<1>9. f \in Seq(Rows) /\ Len(f) = n
  BY <1>8, FunctionIsSeq
<1>10. \A j \in Index : /\ f[j].user = tokens[j].user
                        /\ f[j].createdAt = tokens[j].createdAt
                        /\ f[j].deleted = tokens[j].deleted
                        /\ f[j].invalidated <=> tokens[j].invalidated \/ j \in others
                        /\ j # k => /\ f[j].consumed = tokens[j].consumed
                                    /\ f[j].consumedAt = tokens[j].consumedAt
                        /\ j = k => f[j].consumed /\ f[j].consumedAt = now
  BY <1>6 DEF Rows
<1> HIDE DEF f
<1>11. \A j \in Index : rowLock[j] \notin Tasks \/ j \notin others
  BY <1>3, Constants DEF Unlocked
<1>12. CASE HasCredential(u)
  <2>1. tokens' = f /\ Index' = Index
    BY <1>2, <1>3, <1>9, <1>12 DEF Index
  <2> QED
    BY <1>1, <1>2, <1>3, <1>4, <1>5, <1>9, <1>10, <1>11, <1>12, <2>1
<1>13. CASE ~HasCredential(u)
  <2>1. Index' = Index /\ tokens \in Seq(Rows)
    BY <1>3, <1>13, Records DEF Index, TypeInv
  <2> QED
    BY <1>1, <1>3, <1>4, <1>5, <1>13, <2>1
<1> QED
  BY <1>12, <1>13

LEMMA StepCommitReset ==
    ASSUME Inv, NEW t \in Tasks, CommitReset(t)
    PROVE  Inv' /\ Steady
<1>1. PICK u, k : u = task[t].user /\ k = task[t].token
  OBVIOUS
<1>2. /\ UNCHANGED <<status, did, lock, mailbox, sessions, host, clock>>
      /\ ReleaseRows(t) /\ End(t) /\ lock # t /\ ~Mailing(t)
      /\ u \in Users /\ k \in Index /\ k \in 1..MaxTokens /\ tokens[k].user = u
      /\ task[t].password \in Passwords /\ rowLock[k] = t /\ LiveRow(k)
      /\ Len(tokens') = Len(tokens) /\ Index' = Index /\ tokens' \in Seq(Rows)
  BY <1>1, ResetFacts
<1>3. CASE UNCHANGED <<password, version, tokens>>
  BY <1>2, <1>3, Released DEF accounts
<1>4. CASE ~UNCHANGED <<password, version, tokens>>
  <2>1. /\ HasCredential(u)
        /\ password' = [password EXCEPT ![u] = task[t].password]
        /\ version' = [version EXCEPT ![u] = @ + 1]
        /\ tokens'[k].consumed /\ tokens'[k].consumedAt < Expires(k)
        /\ \A j \in Index :
             /\ tokens'[j].user = tokens[j].user
             /\ tokens'[j].createdAt = tokens[j].createdAt
             /\ tokens'[j].deleted = tokens[j].deleted
             /\ tokens'[j].invalidated <=> tokens[j].invalidated \/ j \in LiveOf(u) \ {k}
             /\ rowLock[j] \notin Tasks \/ j \notin LiveOf(u) \ {k}
             /\ j # k => /\ tokens'[j].consumed = tokens[j].consumed
                         /\ tokens'[j].consumedAt = tokens[j].consumedAt
    BY <1>1, <1>4, ResetFacts
  <2>2. task' = [task EXCEPT ![t] = Idle] /\ task'[t] = Idle /\ task' \in [Tasks -> TaskRecords]
        /\ \A v \in Tasks \ {t} : task'[v] = task[v]
    BY <1>2, Constants DEF End, Inv, TypeInv
  <2>3. /\ rowLock' \in [1..MaxTokens -> Tasks \cup {NoTask}]
        /\ \A j \in 1..MaxTokens : /\ rowLock'[j] # t
                                   /\ \A v \in Tasks \ {t} : rowLock[j] = v <=> rowLock'[j] = v
    BY <1>2, Constants DEF ReleaseRows, Inv, TypeInv
  <2>4. /\ version[u] \in Nat /\ version'[u] = version[u] + 1
        /\ password'[u] = task[t].password
        /\ \A v \in Users \ {u} : version'[v] = version[v] /\ password'[v] = password[v]
        /\ version' \in [Users -> Nat] /\ password' \in [Users -> Passwords \cup {NoPassword}]
    BY <1>2, <2>1 DEF Inv, TypeInv
  <2>5. TypeInv'
    BY <1>2, <2>2, <2>3, <2>4 DEF Inv, TypeInv
  <2>6. \A j \in Index : LiveRow(j)' => LiveRow(j)
    BY <2>1 DEF LiveRow
  <2>7. Steady
    <3>1. (\A v \in Users : version[v] \in Nat) /\ clock \in Nat
      BY Constants DEF Inv, TypeInv
    <3>2. Spends(k) /\ \A j \in Index : Spends(j) => j = k
      BY <1>2, <2>1 DEF Spends, LiveRow
    <3>3. \A v \in Users : password'[v] # password[v] => v = u
      BY <2>4
    <3>4. version[u] < version'[u] /\ version'[u] # version[u]
      BY <2>4
    <3>5. \A v \in Users : version[v] <= version'[v]
                          /\ (version'[v] = version[v] => password'[v] = password[v])
      BY <2>4, <3>1
    <3> QED
      BY <1>2, <2>1, <2>6, <3>1, <3>2, <3>3, <3>4, <3>5 DEF Steady
  <2>8. RowInv'
    <3>1. AbsentInv'
      BY <1>2, <2>1, <2>4 DEF Inv, RowInv, AbsentInv, HasCredential
    <3>2. NewestInv'
      BY <1>2, <2>1, <2>6 DEF Inv, RowInv, NewestInv
    <3>3. SpentInv'
      BY <1>2, <2>1 DEF Inv, RowInv, SpentInv, Expires
    <3>4. CountInv'
      <4>1. k \notin Spent(u) /\ Spent(u)' = Spent(u) \cup {k}
        BY <1>2, <2>1 DEF Spent, LiveRow
      <4>2. \A v \in Users \ {u} : Spent(v)' = Spent(v)
        BY <1>2, <2>1 DEF Spent
      <4>3. IsFiniteSet(Spent(u))
        BY Records, Rows0, FS_Subset DEF Spent
      <4>4. Cardinality(Spent(u) \cup {k}) = Cardinality(Spent(u)) + 1
        BY <4>1, <4>3, FS_AddElement
      <4>5. \A v \in Users : version[v] = Cardinality(Spent(v))
        BY DEF Inv, RowInv, CountInv
      <4>6. version'[u] = Cardinality(Spent(u)')
        BY <1>2, <2>4, <4>1, <4>4, <4>5
      <4>7. \A v \in Users \ {u} : version'[v] = Cardinality(Spent(v)')
        BY <2>4, <4>2, <4>5
      <4> QED
        BY <4>6, <4>7 DEF CountInv, Spent
    <3>5. SessionInv'
      <4>1. \A s \in sessions : /\ s.user \in Users /\ PresentedVersion(s) \in Nat
                                /\ PresentedVersion(s) <= version[s.user]
                                /\ PresentedVersion(s) = version[s.user] => s.password = password[s.user]
        BY DEF Inv, TypeInv, RowInv, SessionInv, SessionRecords, PresentedVersion
      <4>2. \A s \in sessions : /\ PresentedVersion(s) <= version'[s.user]
                                /\ PresentedVersion(s) = version'[s.user] => s.password = password'[s.user]
        BY <2>4, <4>1
      <4> QED
        BY <1>2, <4>2 DEF SessionInv, PresentedVersion
    <3>6. OrderInv'
      BY <1>2, <2>1 DEF Inv, RowInv, OrderInv
    <3>7. QuotasHold'
      <4>1. Rooted
        BY <1>2, <2>1 DEF Rooted
      <4>2. \A j \in Index : QuotasAt(j)'
        BY <4>1, QuotasAre, QuotasKept, Records DEF RowInv
      <4>3. QuotasHold' <=> \A j \in Index' : QuotasAt(j)'
        BY DEF QuotasHold, QuotasAt, Within, OwnWithin
      <4> QED
        BY <1>2, <4>2, <4>3
    <3> QED
      BY <3>1, <3>2, <3>3, <3>4, <3>5, <3>6, <3>7 DEF RowInv
  <2>9. CapInv'
    <3>1. Pending' \subseteq Pending
      BY <2>2 DEF Pending, Idle
    <3> QED
      BY <1>2, <3>1, CapKept
  <2>10. LockInv'
    <3>1. LockInv /\ \A j \in Index : Replaced(j) => Replaced(j)'
      <4>1. \A j \in Index : tokens[j].consumed => tokens'[j].consumed
        BY <2>1
      <4> QED
        BY <1>2, <2>1, <4>1 DEF Inv, Replaced
    <3>2. ~Mailing(t)' /\ ~At(t, "request", "sending")'
      BY <2>2 DEF Mailing, At, Idle
    <3>3. \A v \in Tasks \ {t} : /\ Mailing(v)' <=> Mailing(v)
                                 /\ At(v, "request", "sending")' => At(v, "request", "sending")
                                 /\ Issuing(v)' <=> Issuing(v)
                                 /\ \A j : Holds(v, j)' <=> Holds(v, j)
      BY <2>2 DEF Mailing, At, Issuing, Holds
    <3>4. \A v \in Tasks : lock' = v => Issuing(v)'
      BY <1>2, <3>1, <3>3 DEF LockInv
    <3>5. \A j \in 1..MaxTokens : \A v \in Tasks : rowLock'[j] = v => Holds(v, j)'
      BY <2>3, <3>1, <3>3 DEF LockInv
    <3>6. \A v, w \in Tasks : Mailing(v)' /\ Mailing(w)' /\ v # w => task'[v].token # task'[w].token
      BY <2>2, <3>1, <3>2, <3>3 DEF LockInv
    <3>7. \A j \in Index : tokens'[j].invalidated =>
            \/ Replaced(j)'
            \/ j \notin mailbox' /\ \A v \in Tasks : At(v, "request", "sending")' => task'[v].token # j
      <4> SUFFICES ASSUME NEW j \in Index, tokens'[j].invalidated, ~Replaced(j)'
                   PROVE  /\ j \notin mailbox'
                          /\ \A v \in Tasks : At(v, "request", "sending")' => task'[v].token # j
        OBVIOUS
      <4>1. tokens[j].user # u
        BY <1>2, <2>1 DEF Replaced
      <4>2. tokens[j].invalidated
        BY <2>1, <4>1 DEF LiveOf, TokensOf
      <4> QED
        BY <1>2, <2>2, <3>1, <3>2, <3>3, <4>2 DEF LockInv
    <3> QED
      BY <1>2, <3>4, <3>5, <3>6, <3>7 DEF LockInv
  <2>11. \A v \in Tasks \ {t} : Spares(v)
    <3> SUFFICES ASSUME NEW v \in Tasks \ {t}
                 PROVE  Spares(v)
      OBVIOUS
    <3>1. ASSUME NEW j \in 1..MaxTokens, rowLock[j] = v
          PROVE  rowLock'[j] = v /\ (j \in Index /\ LiveRow(j) => LiveRow(j)')
      <4>1. j # k
        BY <1>2, <3>1
      <4>2. j \in Index => j \notin LiveOf(u) \ {k}
        BY <2>1, <3>1
      <4>3. j \in Index => /\ tokens'[j].consumed = tokens[j].consumed
                           /\ tokens'[j].deleted = tokens[j].deleted
                           /\ tokens'[j].invalidated <=> tokens[j].invalidated
        BY <2>1, <4>1, <4>2
      <4> QED
        BY <2>3, <3>1, <4>3 DEF LiveRow
    <3> QED
      BY <1>2, <2>1, <3>1 DEF Spares
  <2> QED
    BY <2>2, <2>5, <2>7, <2>8, <2>9, <2>10, <2>11, IdleInv, Combine
<1> QED
  BY <1>3, <1>4

-----------------------------------------------------------------------------
(* The invariant of every reachable state.                                  *)

LEMMA InitInv == Init => Inv
<1> SUFFICES ASSUME Init
             PROVE  Inv
  OBVIOUS
<1>1. /\ tokens = << >> /\ Len(tokens) = 0 /\ Index = {} /\ mailbox = {} /\ lock = NoTask
      /\ rowLock = [k \in 1..MaxTokens |-> NoTask] /\ task = [t \in Tasks |-> Idle]
      /\ version = [u \in Users |-> 0] /\ did = [u \in Users |-> NoDid] /\ clock = 0
      /\ sessions = LegacySessions
  BY DEF Init, Index
<1>2. \A s \in sessions : /\ s \in SessionRecords /\ s.claim = FALSE /\ HasCredential(s.user)
                          /\ s.user \in Users /\ s.password = password[s.user]
  <2> SUFFICES ASSUME NEW s \in sessions
               PROVE  /\ s \in SessionRecords /\ s.claim = FALSE /\ HasCredential(s.user)
                      /\ s.user \in Users /\ s.password = password[s.user]
    OBVIOUS
  <2>1. PICK u \in Users : /\ HasCredential(u)
                           /\ s = [user |-> u, claim |-> FALSE, sv |-> 0, password |-> password[u]]
    BY <1>1 DEF LegacySessions
  <2>2. password[u] \in Passwords
    BY <2>1 DEF Init, HasCredential
  <2> QED
    BY <2>1, <2>2 DEF SessionRecords
<1>3. TypeInv
  <2>1. tokens \in Seq(Rows)
    BY <1>1
  <2> QED
    BY <1>1, <1>2, <2>1, Constants DEF Init, TypeInv
<1>4. CapInv
  <2>1. Pending = {}
    BY <1>1 DEF Pending, Idle
  <2>2. Cardinality(Pending) = 0
    BY <2>1, FS_EmptySet
  <2> QED
    BY <1>1, <2>2, Constants DEF CapInv
<1>5. RowInv
  <2>1. AbsentInv
    BY <1>1, <1>2 DEF Init, AbsentInv
  <2>2. NewestInv /\ SpentInv /\ OrderInv /\ QuotasHold
    BY <1>1 DEF NewestInv, SpentInv, OrderInv, QuotasHold
  <2>3. CountInv
    <3>1. \A u : Spent(u) = {}
      BY <1>1 DEF Spent
    <3>2. \A u : Cardinality(Spent(u)) = 0
      BY <3>1, FS_EmptySet
    <3> QED
      BY <1>1, <3>2 DEF CountInv
  <2>4. SessionInv
    BY <1>1, <1>2 DEF SessionInv, PresentedVersion
  <2> QED
    BY <2>1, <2>2, <2>3, <2>4 DEF RowInv
<1>6. LockInv
  BY <1>1, Constants DEF LockInv, Mailing, Idle
<1>7. \A t \in Tasks : TaskInv(t)
  BY <1>1 DEF TaskInv, PlacesOf, Idle
<1> QED
  BY <1>3, <1>4, <1>5, <1>6, <1>7 DEF Inv

LEMMA StepInv == Inv /\ [Next]_vars => Inv' /\ Steady
<1> SUFFICES ASSUME Inv, [Next]_vars
             PROVE  Inv' /\ Steady
  OBVIOUS
<1>1. CASE UNCHANGED vars
  <2>1. TypeInv' /\ clock <= clock'
    BY <1>1 DEF Inv, TypeInv, vars, accounts, links, Index
  <2> QED
    BY <1>1, <2>1, Around DEF vars, accounts
<1>2. CASE Tick \/ BeginShutdown \/ ProcessDies
  BY <1>2, StepTick, StepBeginShutdown, StepProcessDies
<1>3. CASE \E u \in Users : StatusChanges(u)
  BY <1>3, StepStatusChanges
<1>4. CASE \E h \in Hosts \cup {NoHost} : HostChanges(h)
  BY <1>4, StepHostChanges
<1>5. ASSUME NEW t \in Tasks, Advance(t)
      PROVE  Inv' /\ Steady
  BY <1>5, StepProcessRequest, StepReserve, StepInvalidateOlder, StepCommitIssue,
     StepInvalidateUndelivered, StepDeliver, StepConsume, StepCommitReset,
     StepSignAccessToken, StepCreateUser, StepWriteDid, StepReloadDid, StepAnswerDid
     DEF Advance
<1>6. ASSUME NEW t \in Tasks, IssueFails(t) \/ ResetFails(t)
      PROVE  Inv' /\ Steady
  BY <1>6, StepIssueFails, StepResetFails
<1>7. ASSUME NEW t \in Tasks, NEW u \in Users,
             \/ RequestReset(t, u) \/ EnsureDid(t, u)
             \/ \E p \in Passwords : Login(t, u, p) \/ Register(t, u, p)
      PROVE  Inv' /\ Steady
  BY <1>7, StepRequestReset, StepEnsureDid, StepLogin, StepRegister
<1>8. ASSUME NEW t \in Tasks, NEW k \in mailbox, NEW p \in Passwords, ConfirmReset(t, k, p)
      PROVE  Inv' /\ Steady
  BY <1>8, StepConfirmReset
<1> QED
  BY <1>1, <1>2, <1>3, <1>4, <1>5, <1>6, <1>7, <1>8 DEF Next

-----------------------------------------------------------------------------
(* What follows.                                                            *)

\* Rows, locks and tasks agree in every state: whoever holds the lock of the issue still
\* has the room it counted, and a row an open transaction wrote is as it was found.
THEOREM AccountsSafe == Spec => []Inv
<1>1. Init => Inv
  BY InitInv
<1>2. Inv /\ [Next]_vars => Inv'
  BY StepInv
<1> QED
  BY <1>1, <1>2, PTL DEF Spec

\* A version counts the links spent on the account, so it is within the bound of the rows.
LEMMA VersionsInBounds ==
    ASSUME Inv, NEW u \in Users
    PROVE  version[u] \in 0..MaxTokens
<1>1. IsFiniteSet(Index) /\ Cardinality(Index) = Len(tokens) /\ Len(tokens) \in Nat
  BY Rows0 DEF Inv
<1>2. Cardinality(Spent(u)) <= Cardinality(Index)
  BY <1>1, FS_Subset DEF Spent
<1>3. version[u] = Cardinality(Spent(u)) /\ version[u] \in Nat
  BY DEF Inv, TypeInv, RowInv, CountInv
<1>4. Len(tokens) <= MaxTokens
  BY InBounds DEF Inv
<1> QED
  BY <1>1, <1>2, <1>3, <1>4, Constants

\* The values each variable takes, the bounds of the rows and of the versions included.
THEOREM TypesHold == Spec => []TypeOK
<1>1. Inv => TypeOK
  <2> SUFFICES ASSUME Inv
               PROVE  TypeOK
    OBVIOUS
  <2>1. version \in [Users -> 0..MaxTokens]
    BY VersionsInBounds DEF Inv, TypeInv
  <2>2. sessions \subseteq Sessions
    <3> SUFFICES ASSUME NEW s \in sessions
                 PROVE  s \in Sessions
      OBVIOUS
    <3>1. /\ s \in [user : Users, claim : BOOLEAN, sv : Nat, password : Passwords]
          /\ s.claim \/ s.sv = 0
      BY DEF Inv, TypeInv, SessionRecords
    <3>2. version[s.user] \in 0..MaxTokens /\ PresentedVersion(s) <= version[s.user]
      BY <3>1, VersionsInBounds DEF Inv, RowInv, SessionInv
    <3>3. s.sv \in 0..MaxTokens
      BY <3>1, <3>2, Constants DEF PresentedVersion
    <3> QED
      BY <3>1, <3>3 DEF Sessions
  <2>3. Len(tokens) <= MaxTokens
    BY InBounds DEF Inv
  <2> QED
    BY <2>1, <2>2, <2>3 DEF Inv, TypeInv, TypeOK
<1> QED
  BY <1>1, AccountsSafe, PTL

\* In no window, sliding over everything ever issued, were more links issued than the
\* quotas say, whatever requests overlap.
THEOREM QuotasAlwaysHold == Spec => []QuotasHold
<1>1. Inv => QuotasHold
  BY DEF Inv, RowInv
<1> QED
  BY <1>1, AccountsSafe, PTL

\* Links, sessions and DIDs agree with the accounts they are for: one live link, spent in
\* time; versions that count the resets; accepted sessions that know the password; DIDs
\* answered as stored.
THEOREM LinksAndSessionsHold == Spec => []LinksAndSessionsAreTrue
<1>1. Inv => LinksAndSessionsAreTrue
  <2> SUFFICES ASSUME Inv
               PROVE  LinksAndSessionsAreTrue
    OBVIOUS
  <2>1. OneLiveLink
    <3> SUFFICES ASSUME NEW u \in Users
                 PROVE  Cardinality(LiveOf(u)) <= 1
      BY DEF OneLiveLink
    <3>1. CASE LiveOf(u) = {}
      <4>1. Cardinality(LiveOf(u)) = 0
        BY <3>1, FS_EmptySet
      <4> QED
        BY <4>1
    <3>2. CASE LiveOf(u) # {}
      <4>1. PICK k : k \in LiveOf(u)
        BY <3>2
      <4>2. \A j \in LiveOf(u) : j \in Nat /\ j <= k /\ k <= j
        BY <4>1, Rows0 DEF Inv, LiveOf, TokensOf, RowInv, NewestInv
      <4>3. LiveOf(u) = {k}
        BY <4>1, <4>2
      <4>4. Cardinality(LiveOf(u)) = 1
        BY <4>3, FS_Singleton
      <4> QED
        BY <4>4
    <3> QED
      BY <3>1, <3>2
  <2>2. SpentInTime
    BY DEF SpentInTime, Inv, RowInv, SpentInv
  <2>3. DeliveredLinksLast
    BY DEF DeliveredLinksLast, Inv, TypeInv, LockInv, Replaced
  <2>4. VersionsCountResets
    BY DEF VersionsCountResets, Inv, TypeInv, RowInv, CountInv, Spent
  <2>5. SessionsKnowThePassword
    BY DEF SessionsKnowThePassword, Inv, RowInv, SessionInv, Accepted
  <2>6. AnsweredDidsAreStored
    BY DEF AnsweredDidsAreStored, Inv, TypeInv, TaskInv, EnsureInv, At
  <2> QED
    BY <2>1, <2>2, <2>3, <2>4, <2>5, <2>6 DEF LinksAndSessionsAreTrue
<1> QED
  BY <1>1, AccountsSafe, PTL

\* A password changes only by the newest link of the account, which ends every session that
\* began before; a DID does not change.
THEOREM OnlyLinksResetHolds == Spec => OnlyLinksReset
<1>1. Inv /\ [Next]_vars => Steady
  BY StepInv
<1>2. Inv /\ [Next]_vars =>
        [\A k \in Index : tokens'[k].consumed /\ ~tokens[k].consumed =>
            \A j \in Index : tokens[j].user = tokens[k].user => j <= k]_vars
  <2> SUFFICES ASSUME Inv, Steady, NEW k \in Index, Spends(k), NEW j \in Index,
                      tokens[j].user = tokens[k].user
               PROVE  j <= k
    BY <1>1 DEF Spends
  <2> QED
    BY DEF Steady, Inv, RowInv, NewestInv
<1>3. Inv /\ [Next]_vars =>
        [\A s \in sessions :
            (\E k \in Index : tokens[k].user = s.user /\ tokens'[k].consumed /\ ~tokens[k].consumed)
               => ~Accepted(s)']_vars
  <2> SUFFICES ASSUME Inv, Inv', Steady, NEW s \in sessions, NEW k \in Index,
                      tokens[k].user = s.user, Spends(k)
               PROVE  ~Accepted(s)'
    BY StepInv DEF Spends
  <2>1. s.user \in Users /\ PresentedVersion(s) \in Nat /\ PresentedVersion(s) <= version[s.user]
    BY DEF Inv, TypeInv, SessionRecords, PresentedVersion, RowInv, SessionInv
  <2>2. version[s.user] \in Nat /\ version'[s.user] \in Nat /\ version[s.user] < version'[s.user]
    BY <2>1 DEF Inv, TypeInv, Steady
  <2>3. PresentedVersion(s) # version'[s.user]
    BY <2>1, <2>2
  <2> QED
    BY <2>3 DEF Accepted, PresentedVersion
<1>4. Inv /\ [Next]_vars =>
        [\A u \in DOMAIN status : status[u] # "absent" /\ password'[u] # password[u] =>
            \E k \in Index : tokens[k].user = u /\ tokens'[k].consumed /\ ~tokens[k].consumed]_vars
  <2> SUFFICES ASSUME Inv, Steady, NEW u \in DOMAIN status, status[u] # "absent",
                      password'[u] # password[u]
               PROVE  \E k \in Index : tokens[k].user = u /\ Spends(k)
    BY <1>1 DEF Spends
  <2> QED
    BY DEF Steady, Inv, TypeInv
<1>5. Inv /\ [Next]_vars => [\A u \in DOMAIN did : did[u] # NoDid => did'[u] = did[u]]_vars
  BY <1>1 DEF Steady, Inv, TypeInv
<1>6. Spec => NewestLinkResets
  BY <1>2, AccountsSafe, PTL DEF Spec, NewestLinkResets
<1>7. Spec => ResetEndsSessions
  BY <1>3, AccountsSafe, PTL DEF Spec, ResetEndsSessions
<1>8. Spec => OnlyLinksChangePasswords
  BY <1>4, AccountsSafe, PTL DEF Spec, OnlyLinksChangePasswords
<1>9. Spec => DidsAreForever
  BY <1>5, AccountsSafe, PTL DEF Spec, DidsAreForever
<1> QED
  BY <1>6, <1>7, <1>8, <1>9 DEF OnlyLinksReset

-----------------------------------------------------------------------------
(* The session of a holder on a telephone (MobileSession), for any handlers *)
(* in progress, any bounds and, but for retry, any operations.  Its         *)
(* variables are those of an instance; m_task is its task.                  *)

CONSTANTS HolderTasks, HolderOps, MaxSessions, MaxEpoch

VARIABLES state, route, token, epoch, storage, queue, cache, m_task, inFlight, signed, expired,
          closed, undeleted

Holder == INSTANCE MobileSession WITH Tasks <- HolderTasks, Ops <- HolderOps, task <- m_task

\* What a handler in progress may be at.
HandlerRecords ==
  [op : {"none", "restore", "login", "logout", "retry", "request"},
   at : {"idle", "reading", "setting", "clearing", "posting", "me", "sent"},
   token : Nat, epoch : Nat]

HolderTypes ==
  /\ state \in [is : Holder!Statuses, of : Nat]
  /\ route \in {"index", "login", "holder"}
  /\ token \in Nat /\ storage \in Nat /\ epoch \in Nat /\ signed \in Nat
  /\ queue \in Seq(HolderTasks)
  /\ m_task \in [HolderTasks -> HandlerRecords]
  /\ inFlight \in HolderTasks \cup {Holder!NoTask}

\* Every token that is anywhere was signed.
WasSigned ==
  /\ state.of <= signed /\ token <= signed /\ storage <= signed
  /\ closed \subseteq 1..signed
  /\ \A t \in HolderTasks : m_task[t].token <= signed

\* A token that is being stored for the first time is nowhere else.
StoredNew ==
  \A t \in HolderTasks : m_task[t].at = "setting" =>
    LET k == m_task[t].token IN
    /\ k # Holder!NoToken /\ k \notin closed \cup {state.of, token, storage}
    /\ \A u \in HolderTasks \ {t} : m_task[u].token # k

\* The part that holds of every session, of people who retry too.
KeptInv == HolderTypes /\ WasSigned /\ StoredNew /\ Holder!ClosedStaysOut

\* Where a handler of each operation may be.
WhereTheyAre ==
  \A t \in HolderTasks :
    LET x == m_task[t] IN
    /\ x.epoch <= epoch
    /\ x.op = "none" => x = Holder!Idle
    /\ x.at = "idle" => x = Holder!Idle
    /\ x.op = "restore" => x.at \in {"reading", "me", "clearing"}
    /\ x.op = "login" => x.at \in {"posting", "setting", "clearing"}
    /\ x.op = "logout" => x.at = "clearing"
    /\ x.op = "request" => x.at \in {"reading", "sent", "clearing"}
    /\ x.op # "retry"

\* While the session is restored no screen offers another operation.
RestoreAlone ==
  \A t \in HolderTasks : m_task[t].op = "restore" =>
    /\ \A u \in HolderTasks \ {t} : m_task[u] = Holder!Idle
    /\ state = Holder!Is("booting") /\ route # "login" /\ token = Holder!NoToken
    /\ cache = {} /\ inFlight = Holder!NoTask
    /\ m_task[t].at = "me" => m_task[t].token = storage /\ storage # Holder!NoToken

\* One login at a time; until it ends nothing is held, nor cached but of a
\* session the store refused to delete.
LoginAlone ==
  /\ \A t \in HolderTasks : m_task[t].op = "login" <=> inFlight = t
  /\ inFlight # Holder!NoTask =>
      /\ state.is \in {"authenticating", "unauthenticated"} /\ token = Holder!NoToken
      /\ cache \subseteq undeleted

Clearing == {t \in HolderTasks : m_task[t].at = "clearing"}

\* The token in memory is of the session that is shown and kept; without it a
\* session is shown only while it is being cleared.
HeldIsKept ==
  /\ token # Holder!NoToken => state = Holder!Authenticated(token) /\ storage = token /\ Clearing = {}
  /\ state.is = "authenticated" /\ token = Holder!NoToken => Clearing # {}

\* Each handler that waits for the secure store is in its queue, once.
QueueIsOfWaiting ==
  /\ \A t \in HolderTasks : Holder!Waits(t) <=> m_task[t].at \in {"reading", "setting", "clearing"}
  /\ \A i, j \in 1..Len(queue) : queue[i] = queue[j] => i = j

\* The secure store answers in order: behind a login that is still of the epoch
\* nobody clears the session, and a request that reads finds nothing there, or a
\* session the store refused to delete.
InOrder ==
  /\ \A i, j \in 1..Len(queue) :
       i < j /\ m_task[queue[i]].at = "setting" /\ m_task[queue[i]].epoch = epoch
         => m_task[queue[j]].at # "clearing"
  /\ \A i \in 1..Len(queue) : m_task[queue[i]].at = "reading" /\ m_task[queue[i]].op = "request" =>
       /\ \A j \in 1..(i - 1) : m_task[queue[j]].at # "setting"
       /\ storage \in undeleted \cup {Holder!NoToken} \/ \E j \in 1..(i - 1) : m_task[queue[j]].at = "clearing"

\* A request of this epoch was sent with the token in memory, or with one the
\* store refused to delete.
SentIsHeld ==
  \A t \in HolderTasks : m_task[t].at = "sent" /\ m_task[t].epoch = epoch =>
    \/ token = m_task[t].token /\ token # Holder!NoToken
    \/ m_task[t].token \in undeleted

\* The part that needs that nobody retries: retry joins the epoch of the moment.
ShownInv ==
  /\ WhereTheyAre /\ RestoreAlone /\ LoginAlone /\ HeldIsKept /\ QueueIsOfWaiting /\ InOrder
  /\ SentIsHeld /\ Holder!CacheIsOfTheHolder /\ Holder!LogoutWins

(* The invariant that holds of every session.  *)

\* What a task may take with it, and what may be shown, held and kept after a
\* step of it: nothing that is being stored for another.
Carries(t) == {Holder!NoToken, storage, token, state.of, m_task[t].token}

LEMMA NewStays ==
  ASSUME KeptInv, HolderTypes', NEW t \in HolderTasks, NEW x \in HandlerRecords, Holder!Goes(t, x),
         x.at # "setting", x.token \in Carries(t),
         state'.of \in {Holder!NoToken, state.of, m_task[t].token},
         token' \in {Holder!NoToken, token, m_task[t].token},
         storage' \in {Holder!NoToken, storage, m_task[t].token},
         closed' \subseteq closed \cup ({storage, m_task[t].token} \ {Holder!NoToken}),
         UNCHANGED signed, Holder!ClosedStaysOut'
  PROVE  KeptInv'
<1>1. /\ \A u \in HolderTasks : m_task'[u] = IF u = t THEN x ELSE m_task[u]
      /\ Carries(t) \subseteq 0..signed /\ signed \in Nat
      /\ \A u \in HolderTasks : m_task[u].token \in Nat
  BY DEF KeptInv, HolderTypes, HandlerRecords, Holder!Goes, Carries, WasSigned, Holder!NoToken
<1>2. WasSigned'
  <2>1. closed' \subseteq 1..signed /\ closed \subseteq 1..signed
    BY <1>1 DEF KeptInv, WasSigned, HolderTypes, Holder!NoToken
  <2>2. state'.of <= signed /\ token' <= signed /\ storage' <= signed
    BY <1>1 DEF KeptInv, WasSigned, HolderTypes, Holder!NoToken
  <2>3. \A u \in HolderTasks : m_task'[u].token <= signed
    BY <1>1 DEF KeptInv, WasSigned
  <2> QED
    BY <2>1, <2>2, <2>3 DEF WasSigned
<1>3. StoredNew'
  <2> SUFFICES ASSUME NEW u \in HolderTasks, m_task'[u].at = "setting"
               PROVE  /\ m_task'[u].token # Holder!NoToken
                      /\ m_task'[u].token \notin closed' \cup {state'.of, token', storage'}
                      /\ \A v \in HolderTasks \ {u} : m_task'[v].token # m_task'[u].token
    BY DEF StoredNew
  <2>1. u # t /\ m_task'[u] = m_task[u]
    BY <1>1
  <2>2. /\ m_task[u].token # Holder!NoToken
        /\ m_task[u].token \notin closed \cup {state.of, token, storage}
        /\ \A v \in HolderTasks \ {u} : m_task[v].token # m_task[u].token
    BY <2>1 DEF KeptInv, StoredNew
  <2>3. m_task[u].token \notin Carries(t)
    BY <2>1, <2>2 DEF Carries
  <2> QED
    BY <1>1, <2>1, <2>2, <2>3 DEF Carries
<1> QED
  BY <1>2, <1>3 DEF KeptInv

LEMMA TailTypes ==
  ASSUME NEW q \in Seq(HolderTasks), q # << >>
  PROVE  Tail(q) \in Seq(HolderTasks) /\ Head(q) \in HolderTasks
  OBVIOUS

LEMMA ClearTypes ==
  ASSUME HolderTypes, NEW t \in HolderTasks, NEW x \in HandlerRecords, Holder!Clear(t, x)
  PROVE  /\ Holder!Goes(t, [x EXCEPT !.at = "clearing"])
         /\ [x EXCEPT !.at = "clearing"] \in HandlerRecords
         /\ [x EXCEPT !.at = "clearing"].token = x.token
         /\ [x EXCEPT !.at = "clearing"].at = "clearing"
         /\ epoch' \in Nat /\ token' = Holder!NoToken /\ queue' \in Seq(HolderTasks)
         /\ m_task' \in [HolderTasks -> HandlerRecords]
<1>1. queue \in Seq(HolderTasks) /\ (Holder!Waits(t) => queue # << >>)
  BY DEF HolderTypes, Holder!Waits
<1>2. queue' \in Seq(HolderTasks)
  <2>1. CASE Holder!Waits(t)
    <3>1. Tail(queue) \in Seq(HolderTasks)
      BY <1>1, <2>1, TailTypes
    <3> QED
      BY <2>1, <3>1 DEF Holder!Clear
  <2>2. CASE ~Holder!Waits(t)
    BY <1>1, <2>2 DEF Holder!Clear
  <2> QED
    BY <2>1, <2>2
<1>3. [x EXCEPT !.at = "clearing"] \in HandlerRecords
  <2>1. [x EXCEPT !.at = "clearing"] =
          [op |-> x.op, at |-> "clearing", token |-> x.token, epoch |-> x.epoch]
    BY DEF HandlerRecords
  <2> QED
    BY <2>1 DEF HandlerRecords
<1>4. Holder!Goes(t, [x EXCEPT !.at = "clearing"])
  BY DEF Holder!Clear
<1>5. m_task' \in [HolderTasks -> HandlerRecords]
  BY <1>3, <1>4 DEF Holder!Goes, HolderTypes
<1>6. /\ [x EXCEPT !.at = "clearing"].token = x.token
      /\ [x EXCEPT !.at = "clearing"].at = "clearing"
  BY DEF HandlerRecords
<1>7. epoch' \in Nat /\ token' = Holder!NoToken
  BY DEF Holder!Clear, HolderTypes
<1> QED
  BY <1>2, <1>3, <1>4, <1>5, <1>6, <1>7

\* clearSession, of whoever carries a token of the session.
LEMMA ClearNew ==
  ASSUME KeptInv, NEW t \in HolderTasks, NEW x \in HandlerRecords, x.token \in Carries(t), Holder!Clear(t, x),
         UNCHANGED <<state, route, storage, inFlight, signed, closed, undeleted>>
  PROVE  KeptInv'
<1> DEFINE y == [x EXCEPT !.at = "clearing"]
<1>1. /\ Holder!Goes(t, y) /\ y \in HandlerRecords /\ y.token = x.token /\ y.at = "clearing"
      /\ epoch' \in Nat /\ token' = Holder!NoToken /\ queue' \in Seq(HolderTasks)
      /\ m_task' \in [HolderTasks -> HandlerRecords]
  BY ClearTypes DEF KeptInv
<1>2. HolderTypes'
  BY <1>1 DEF KeptInv, HolderTypes, Holder!NoToken
<1>3. Holder!ClosedStaysOut'
  BY DEF KeptInv, Holder!ClosedStaysOut
<1> HIDE DEF y
<1> QED
  BY <1>1, <1>2, <1>3, NewStays

LEMMA ScreenTypes ==
  ASSUME HolderTypes, NEW s \in [is : Holder!Statuses, of : Nat], Holder!Show(s)
  PROVE  /\ state' = s /\ state' \in [is : Holder!Statuses, of : Nat]
         /\ route' \in {"index", "login", "holder"}
  BY DEF HolderTypes, Holder!Show, Holder!Screen

LEMMA IdleTypes == Holder!Idle \in HandlerRecords /\ Holder!Idle.token = Holder!NoToken /\ Holder!Idle.at = "idle"
  BY DEF Holder!Idle, HandlerRecords, Holder!NoToken

LEMMA EndTypes ==
  ASSUME HolderTypes, NEW t \in HolderTasks, Holder!Ends(t)
  PROVE  /\ Holder!Goes(t, Holder!Idle) /\ m_task' \in [HolderTasks -> HandlerRecords]
         /\ inFlight' \in HolderTasks \cup {Holder!NoTask}
  BY IdleTypes DEF HolderTypes, Holder!Ends, Holder!Goes

LEMMA StartTypes ==
  ASSUME HolderTypes, NEW op \in {"login", "logout", "retry", "request"}, NEW t
  PROVE  Holder!Start(t, op) \in HandlerRecords /\ Holder!Start(t, op).token = Holder!NoToken /\ Holder!Start(t, op).op = op
         /\ Holder!Start(t, op).epoch = epoch
  BY DEF HolderTypes, Holder!Start, Holder!Idle, HandlerRecords, Holder!NoToken

\* Of the steps of a task only LoginAccepted stores a token for the first time.
LEMMA TaskNew ==
  ASSUME KeptInv, NEW t \in HolderTasks,
         Holder!Login(t) \/ Holder!Logout(t) \/ Holder!Retry(t) \/ Holder!Request(t) \/ Holder!RestoreRead(t) \/ Holder!RetryRead(t)
           \/ Holder!RequestRead(t) \/ Holder!TokenStored(t) \/ Holder!Cleared(t) \/ Holder!LoginFailed(t)
           \/ Holder!MeAnswered(t) \/ Holder!MeRefused(t) \/ Holder!MeFailed(t) \/ Holder!RequestAnswered(t)
           \/ Holder!RequestRefused(t)
  PROVE  KeptInv'
<1>0. /\ HolderTypes /\ m_task[t] \in HandlerRecords /\ m_task[t].token \in Nat /\ m_task[t].token \in Carries(t)
      /\ Holder!NoToken \in Carries(t) /\ token \in Carries(t) /\ storage \in Carries(t)
      /\ state.of \in Carries(t) /\ Holder!NoToken \in Nat /\ state.of \in Nat
  BY DEF KeptInv, HolderTypes, Carries, HandlerRecords, Holder!NoToken
<1>1. CASE Holder!Login(t)
  <2> DEFINE x == [Holder!Start(t, "login") EXCEPT !.at = "posting", !.epoch = epoch + 1]
  <2>1. x \in HandlerRecords /\ x.token = Holder!NoToken /\ x.at = "posting"
    <3>1. PICK s \in HandlerRecords : s = Holder!Start(t, "login") /\ s.token = Holder!NoToken
      BY <1>0, StartTypes
    <3>2. PICK n \in Nat : n = epoch + 1
      BY <1>0 DEF HolderTypes
    <3>3. /\ [s EXCEPT !.at = "posting", !.epoch = n] \in HandlerRecords
          /\ [s EXCEPT !.at = "posting", !.epoch = n].at = "posting"
          /\ [s EXCEPT !.at = "posting", !.epoch = n].token = s.token
      BY DEF HandlerRecords
    <3>4. x = [s EXCEPT !.at = "posting", !.epoch = n]
      BY <3>1, <3>2
    <3> QED
      BY <3>1, <3>3, <3>4
  <2>2. Holder!Goes(t, x) /\ m_task' \in [HolderTasks -> HandlerRecords]
    BY <1>0, <1>1, <2>1 DEF Holder!Login, Holder!Goes, HolderTypes
  <2>3. Holder!Is("authenticating") \in [is : Holder!Statuses, of : Nat] /\ Holder!Is("authenticating").of = Holder!NoToken
    BY DEF Holder!Is, Holder!Statuses, Holder!NoToken
  <2>4. HolderTypes'
    BY <1>0, <1>1, <2>2, <2>3, ScreenTypes DEF Holder!Login, HolderTypes, Holder!server, Holder!history
  <2>5. Holder!ClosedStaysOut'
    BY <1>1 DEF Holder!Login, KeptInv, Holder!ClosedStaysOut, Holder!history
  <2> HIDE DEF x
  <2> QED
    BY <1>0, <1>1, <2>1, <2>2, <2>3, <2>4, <2>5, ScreenTypes, NewStays
       DEF Holder!Login, Holder!server, Holder!history
<1>2. CASE Holder!Logout(t)
  <2> DEFINE x == [Holder!Start(t, "logout") EXCEPT !.token = state.of]
  <2>1. x \in HandlerRecords /\ x.token \in Carries(t)
    BY <1>0, StartTypes DEF HandlerRecords
  <2> HIDE DEF x
  <2>2. Holder!Clear(t, x)
    BY <1>2 DEF Holder!Logout, x
  <2> QED
    BY <1>2, <2>1, <2>2, ClearNew DEF Holder!Logout, Holder!server, Holder!history
<1>3. CASE Holder!Retry(t) \/ Holder!Request(t)
  <2>1. PICK x \in HandlerRecords : Holder!Goes(t, x) /\ x.at # "setting" /\ x.token \in {Holder!NoToken, token}
    <3>1. CASE Holder!Retry(t)
      <4>1. /\ [Holder!Start(t, "retry") EXCEPT !.at = "me", !.token = token] \in HandlerRecords
            /\ [Holder!Start(t, "retry") EXCEPT !.at = "me", !.token = token].at = "me"
            /\ [Holder!Start(t, "retry") EXCEPT !.at = "me", !.token = token].token = token
            /\ [Holder!Start(t, "retry") EXCEPT !.at = "reading"] \in HandlerRecords
            /\ [Holder!Start(t, "retry") EXCEPT !.at = "reading"].at = "reading"
            /\ [Holder!Start(t, "retry") EXCEPT !.at = "reading"].token = Holder!NoToken
        BY <1>0, StartTypes DEF HandlerRecords, HolderTypes
      <4>2. \/ Holder!Goes(t, [Holder!Start(t, "retry") EXCEPT !.at = "me", !.token = token])
            \/ Holder!Goes(t, [Holder!Start(t, "retry") EXCEPT !.at = "reading"])
        BY <3>1 DEF Holder!Retry
      <4> QED
        BY <4>1, <4>2
    <3>2. CASE Holder!Request(t)
      <4>1. /\ [Holder!Start(t, "request") EXCEPT !.at = "sent", !.token = token] \in HandlerRecords
            /\ [Holder!Start(t, "request") EXCEPT !.at = "sent", !.token = token].at = "sent"
            /\ [Holder!Start(t, "request") EXCEPT !.at = "sent", !.token = token].token = token
            /\ [Holder!Start(t, "request") EXCEPT !.at = "reading"] \in HandlerRecords
            /\ [Holder!Start(t, "request") EXCEPT !.at = "reading"].at = "reading"
            /\ [Holder!Start(t, "request") EXCEPT !.at = "reading"].token = Holder!NoToken
        BY <1>0, StartTypes DEF HandlerRecords, HolderTypes
      <4>2. \/ Holder!Goes(t, [Holder!Start(t, "request") EXCEPT !.at = "sent", !.token = token])
            \/ Holder!Goes(t, [Holder!Start(t, "request") EXCEPT !.at = "reading"])
        BY <3>2 DEF Holder!Request
      <4> QED
        BY <4>1, <4>2
    <3> QED
      BY <1>3, <3>1, <3>2
  <2>2. /\ state' \in [is : Holder!Statuses, of : Nat] /\ route' \in {"index", "login", "holder"}
        /\ state'.of \in {Holder!NoToken, state.of}
    <3>1. Holder!Is("booting") \in [is : Holder!Statuses, of : Nat] /\ Holder!Is("booting").of = Holder!NoToken
      BY DEF Holder!Is, Holder!Statuses, Holder!NoToken
    <3> QED
      BY <1>0, <1>3, <3>1, ScreenTypes DEF Holder!Retry, Holder!Request, HolderTypes
  <2>3. queue' \in Seq(HolderTasks) /\ m_task' \in [HolderTasks -> HandlerRecords]
    <3>1. queue' = queue \/ queue' = Append(queue, t)
      BY <1>3 DEF Holder!Retry, Holder!Request
    <3>2. queue' \in Seq(HolderTasks)
      BY <1>0, <3>1 DEF HolderTypes
    <3> QED
      BY <1>0, <2>1, <3>2 DEF HolderTypes, Holder!Goes
  <2>4. UNCHANGED <<token, epoch, storage, cache, inFlight, signed, closed, undeleted>>
    BY <1>3 DEF Holder!Retry, Holder!Request, Holder!server, Holder!history
  <2>5. HolderTypes' /\ Holder!ClosedStaysOut'
    BY <1>0, <2>2, <2>3, <2>4 DEF HolderTypes, KeptInv, Holder!ClosedStaysOut
  <2> QED
    BY <1>0, <2>1, <2>2, <2>4, <2>5, NewStays
<1>4. CASE Holder!RestoreRead(t) \/ Holder!RetryRead(t)
  <2>1. queue # << >> /\ queue' = Tail(queue)
        /\ UNCHANGED <<token, epoch, storage, signed, closed, undeleted>>
    BY <1>4 DEF Holder!RestoreRead, Holder!RetryRead, Holder!Turn, Holder!server, Holder!history
  <2>2. queue' \in Seq(HolderTasks)
    BY <1>0, <2>1, TailTypes DEF HolderTypes
  <2>3. PICK x \in HandlerRecords : Holder!Goes(t, x) /\ x.at # "setting" /\ x.token \in {Holder!NoToken, storage}
    <3>1. CASE Holder!Ends(t)
      BY <1>0, <3>1, EndTypes, IdleTypes
    <3>2. ASSUME NEW k \in Holder!Found, Holder!Resolve(t, k, epoch)
          PROVE  \E x \in HandlerRecords :
                   Holder!Goes(t, x) /\ x.at # "setting" /\ x.token \in {Holder!NoToken, storage}
      <4>1. /\ [m_task[t] EXCEPT !.at = "me", !.token = k, !.epoch = epoch] \in HandlerRecords
            /\ [m_task[t] EXCEPT !.at = "me", !.token = k, !.epoch = epoch].at = "me"
            /\ [m_task[t] EXCEPT !.at = "me", !.token = k, !.epoch = epoch].token = k
        BY <1>0 DEF HandlerRecords, HolderTypes, Holder!Found
      <4> QED
        BY <3>2, <4>1 DEF Holder!Resolve, Holder!Found
    <3>3. Holder!Ends(t) \/ \E k \in Holder!Found : Holder!Resolve(t, k, epoch)
      BY <1>4 DEF Holder!RestoreRead, Holder!RetryRead
    <3> QED
      BY <3>1, <3>2, <3>3
  <2>4. inFlight' \in HolderTasks \cup {Holder!NoTask}
    BY <1>0, <1>4, EndTypes DEF Holder!RestoreRead, Holder!RetryRead, HolderTypes
  <2>5. /\ state' \in [is : Holder!Statuses, of : Nat] /\ route' \in {"index", "login", "holder"}
        /\ state'.of \in {Holder!NoToken, state.of}
    <3>1. /\ Holder!Is("booting") \in [is : Holder!Statuses, of : Nat] /\ Holder!Is("booting").of = Holder!NoToken
          /\ Holder!Is("unauthenticated") \in [is : Holder!Statuses, of : Nat] /\ Holder!Is("unauthenticated").of = Holder!NoToken
      BY DEF Holder!Is, Holder!Statuses, Holder!NoToken
    <3> QED
      BY <1>0, <1>4, <3>1, ScreenTypes DEF Holder!RestoreRead, Holder!RetryRead, HolderTypes
  <2>6. HolderTypes' /\ Holder!ClosedStaysOut'
    BY <1>0, <2>1, <2>2, <2>3, <2>4, <2>5 DEF HolderTypes, KeptInv, Holder!ClosedStaysOut,
       Holder!Goes
  <2> QED
    BY <1>0, <2>1, <2>3, <2>5, <2>6, NewStays
<1>5. CASE Holder!RequestRead(t)
  <2>0. PICK k \in Holder!Found :
          IF k = Holder!NoToken
          THEN Holder!Clear(t, m_task[t])
          ELSE /\ Holder!Goes(t, [m_task[t] EXCEPT !.at = "sent", !.token = k, !.epoch = epoch])
               /\ queue' = Tail(queue) /\ UNCHANGED <<token, epoch>>
    BY <1>5 DEF Holder!RequestRead
  <2>1. CASE k = Holder!NoToken
    <3>1. Holder!Clear(t, m_task[t])
      BY <2>0, <2>1
    <3> QED
      BY <1>0, <1>5, <3>1, ClearNew DEF Holder!RequestRead, Holder!server, Holder!history
  <2>2. CASE k # Holder!NoToken
    <3> DEFINE x == [m_task[t] EXCEPT !.at = "sent", !.token = k, !.epoch = epoch]
    <3>1. x \in HandlerRecords /\ x.at = "sent" /\ x.token = storage
      BY <1>0, <2>2 DEF HandlerRecords, HolderTypes, Holder!Found
    <3>2. Holder!Goes(t, x) /\ queue' = Tail(queue) /\ UNCHANGED <<token, epoch>>
      BY <2>0, <2>2
    <3> HIDE DEF x
    <3>3. queue' \in Seq(HolderTasks) /\ m_task' \in [HolderTasks -> HandlerRecords]
      BY <1>0, <1>5, <3>1, <3>2, TailTypes
         DEF Holder!RequestRead, Holder!Turn, Holder!Goes, HolderTypes
    <3>4. UNCHANGED <<state, route, token, epoch, storage, inFlight, signed, closed, undeleted>>
      BY <1>5, <3>2 DEF Holder!RequestRead, Holder!server, Holder!history
    <3>5. HolderTypes' /\ Holder!ClosedStaysOut'
      BY <1>0, <3>3, <3>4 DEF HolderTypes, KeptInv, Holder!ClosedStaysOut
    <3> QED
      BY <1>0, <3>1, <3>2, <3>4, <3>5, NewStays
  <2> QED
    BY <2>1, <2>2
<1>6. CASE Holder!TokenStored(t)
  <2>1. Holder!Turn(t, "setting") /\ UNCHANGED <<signed, closed, undeleted>>
    BY <1>6 DEF Holder!TokenStored, Holder!server, Holder!history
  <2>2. CASE Holder!Clear(t, m_task[t]) /\ UNCHANGED <<state, route, storage, inFlight>>
    BY <1>0, <2>1, <2>2, ClearNew
  <2>3. CASE /\ queue' = Tail(queue) /\ Holder!Ends(t) /\ UNCHANGED epoch
             /\ storage' \in {storage, m_task[t].token}
             /\ \/ UNCHANGED <<token, state, route>>
                \/ token' = m_task[t].token /\ Holder!Show(Holder!Authenticated(m_task[t].token))
    <3>1. Holder!Authenticated(m_task[t].token) \in [is : Holder!Statuses, of : Nat]
          /\ Holder!Authenticated(m_task[t].token).of = m_task[t].token
      BY <1>0 DEF Holder!Authenticated, Holder!Statuses
    <3>2. state' \in [is : Holder!Statuses, of : Nat] /\ route' \in {"index", "login", "holder"}
          /\ state'.of \in {state.of, m_task[t].token}
      BY <1>0, <2>3, <3>1, ScreenTypes DEF HolderTypes
    <3>3. HolderTypes'
      BY <1>0, <2>1, <2>3, <3>2, EndTypes, TailTypes DEF HolderTypes, Holder!Turn
    <3>4. Holder!ClosedStaysOut'
      BY <2>1, <2>3 DEF KeptInv, Holder!ClosedStaysOut, StoredNew, Holder!Turn
    <3> QED
      BY <1>0, <2>1, <2>3, <3>2, <3>3, <3>4, EndTypes, IdleTypes, NewStays
  <2> QED
    BY <1>6, <2>2, <2>3 DEF Holder!TokenStored
<1>7. CASE Holder!Cleared(t)
  <2>1. Holder!Is("unauthenticated") \in [is : Holder!Statuses, of : Nat] /\ Holder!Is("unauthenticated").of = Holder!NoToken
    BY DEF Holder!Is, Holder!Statuses, Holder!NoToken
  <2>2. HolderTypes'
    BY <1>0, <1>7, <2>1, ScreenTypes, EndTypes, TailTypes
       DEF Holder!Cleared, Holder!Delete, Holder!Turn, HolderTypes, Holder!server, Holder!history
  <2>3. Holder!ClosedStaysOut'
    <3>1. 0 \notin closed
      BY DEF KeptInv, WasSigned, HolderTypes
    <3> QED
      BY <1>7, <3>1 DEF Holder!Cleared, Holder!Delete, Holder!ClosedStaysOut, Holder!NoToken
  <2>4. closed' \subseteq closed \cup ({storage, m_task[t].token} \ {Holder!NoToken})
    BY <1>7 DEF Holder!Cleared
  <2> QED
    BY <1>0, <1>7, <2>1, <2>2, <2>3, <2>4, ScreenTypes, EndTypes, IdleTypes, NewStays
       DEF Holder!Cleared, Holder!Delete, Holder!server, Holder!history
<1>8. CASE Holder!LoginFailed(t) \/ Holder!MeRefused(t) \/ Holder!RequestRefused(t)
  <2>1. UNCHANGED <<state, route, storage, signed, closed, undeleted>>
    BY <1>8 DEF Holder!LoginFailed, Holder!MeRefused, Holder!RequestRefused, Holder!server, Holder!history
  <2>2. CASE Holder!Clear(t, m_task[t]) /\ UNCHANGED inFlight
    BY <1>0, <2>1, <2>2, ClearNew
  <2>3. CASE Holder!Ends(t) /\ UNCHANGED <<token, epoch, queue>>
    <3>1. HolderTypes' /\ Holder!ClosedStaysOut'
      BY <1>0, <2>1, <2>3, EndTypes DEF HolderTypes, KeptInv, Holder!ClosedStaysOut
    <3> QED
      BY <1>0, <2>1, <2>3, <3>1, EndTypes, IdleTypes, NewStays
  <2> QED
    BY <1>8, <2>2, <2>3 DEF Holder!LoginFailed, Holder!MeRefused, Holder!RequestRefused
<1>9. CASE Holder!MeAnswered(t) \/ Holder!MeFailed(t) \/ Holder!RequestAnswered(t)
  <2>1. Holder!Ends(t) /\ closed' \subseteq closed /\ UNCHANGED <<epoch, storage, queue, signed, undeleted>>
    BY <1>9 DEF Holder!MeAnswered, Holder!MeFailed, Holder!RequestAnswered, Holder!server, Holder!history
  <2>2. /\ Holder!Authenticated(m_task[t].token) \in [is : Holder!Statuses, of : Nat]
        /\ Holder!Authenticated(m_task[t].token).of = m_task[t].token
        /\ Holder!Is("recoverable-error") \in [is : Holder!Statuses, of : Nat]
        /\ Holder!Is("recoverable-error").of = Holder!NoToken
    BY <1>0 DEF Holder!Authenticated, Holder!Is, Holder!Statuses, Holder!NoToken
  <2>3. /\ state' \in [is : Holder!Statuses, of : Nat] /\ route' \in {"index", "login", "holder"}
        /\ state'.of \in {Holder!NoToken, state.of, m_task[t].token} /\ token' \in {token, m_task[t].token}
    BY <1>0, <1>9, <2>2, ScreenTypes DEF Holder!MeAnswered, Holder!MeFailed,
       Holder!RequestAnswered, HolderTypes
  <2>4. HolderTypes' /\ Holder!ClosedStaysOut'
    BY <1>0, <2>1, <2>3, EndTypes DEF HolderTypes, KeptInv, Holder!ClosedStaysOut
  <2> QED
    BY <1>0, <2>1, <2>3, <2>4, EndTypes, IdleTypes, NewStays
<1> QED
  BY <1>1, <1>2, <1>3, <1>4, <1>5, <1>6, <1>7, <1>8, <1>9

LEMMA AcceptedNew ==
  ASSUME KeptInv, NEW t \in HolderTasks, Holder!LoginAccepted(t)
  PROVE  KeptInv'
<1> DEFINE k == signed + 1
<1>1. /\ HolderTypes /\ m_task[t] \in HandlerRecords /\ signed \in Nat /\ k \in Nat /\ signed' = k
      /\ UNCHANGED <<state, route, token, epoch, storage, cache, expired, closed, undeleted>>
  BY DEF KeptInv, HolderTypes, Holder!LoginAccepted, Holder!history
<1>2. /\ state.of < k /\ token < k /\ storage < k /\ k \notin closed
      /\ \A u \in HolderTasks : m_task[u].token < k /\ m_task[u].token \in Nat
  BY <1>1 DEF KeptInv, WasSigned, HolderTypes, HandlerRecords
<1>3. CASE m_task[t].epoch = epoch
  <2> DEFINE x == [m_task[t] EXCEPT !.at = "setting", !.token = k]
  <2>1. x \in HandlerRecords /\ x.at = "setting" /\ x.token = k
    BY <1>1 DEF HandlerRecords
  <2>2. Holder!Goes(t, x) /\ queue' = Append(queue, t) /\ UNCHANGED inFlight
    BY <1>1, <1>3 DEF Holder!LoginAccepted
  <2> HIDE DEF x, k
  <2>3. \A u \in HolderTasks : m_task'[u] = IF u = t THEN x ELSE m_task[u]
    BY <1>1, <2>2 DEF Holder!Goes, HolderTypes
  <2>4. HolderTypes'
    BY <1>1, <2>1, <2>2, <2>3 DEF HolderTypes, Holder!Goes
  <2>5. WasSigned'
    <3>1. \A u \in HolderTasks : m_task'[u].token <= k
      BY <1>1, <1>2, <2>1, <2>3
    <3>2. closed' \subseteq 1..k /\ state'.of <= k /\ token' <= k /\ storage' <= k
      BY <1>1, <1>2 DEF KeptInv, WasSigned, HolderTypes, k
    <3> QED
      BY <1>1, <3>1, <3>2 DEF WasSigned
  <2>6. StoredNew'
    <3>1. k # Holder!NoToken
      BY <1>1 DEF k, Holder!NoToken
    <3> QED
      BY <1>1, <1>2, <2>1, <2>3, <3>1 DEF KeptInv, StoredNew, HolderTypes
  <2> QED
    BY <1>1, <2>4, <2>5, <2>6 DEF KeptInv, Holder!ClosedStaysOut
<1>4. CASE m_task[t].epoch # epoch
  <2>1. Holder!Ends(t) /\ UNCHANGED queue
    BY <1>4 DEF Holder!LoginAccepted
  <2>2. HolderTypes'
    BY <1>1, <2>1, EndTypes DEF HolderTypes
  <2>3. \A u \in HolderTasks : m_task'[u] = IF u = t THEN Holder!Idle ELSE m_task[u]
    BY <1>1, <2>1, EndTypes DEF Holder!Goes, HolderTypes
  <2> HIDE DEF k
  <2>4. WasSigned'
    <3>1. \A u \in HolderTasks : m_task'[u].token <= k
      BY <1>1, <1>2, <2>3, IdleTypes DEF Holder!NoToken
    <3>2. closed' \subseteq 1..k /\ state'.of <= k /\ token' <= k /\ storage' <= k
      BY <1>1, <1>2 DEF KeptInv, WasSigned, HolderTypes, k
    <3> QED
      BY <1>1, <3>1, <3>2 DEF WasSigned
  <2>5. StoredNew'
    BY <1>1, <2>3, IdleTypes DEF KeptInv, StoredNew
  <2> QED
    BY <1>1, <2>2, <2>4, <2>5 DEF KeptInv, Holder!ClosedStaysOut
<1> QED
  BY <1>3, <1>4

LEMMA OpeningTypes ==
  ASSUME NEW t \in HolderTasks
  PROVE  /\ Holder!Opening(t) \in [HolderTasks -> HandlerRecords]
         /\ \A u \in HolderTasks : /\ Holder!Opening(t)[u].token = Holder!NoToken /\ Holder!Opening(t)[u].epoch = 0
                                   /\ u # t => Holder!Opening(t)[u] = Holder!Idle
         /\ Holder!Opening(t)[t].op = "restore" /\ Holder!Opening(t)[t].at = "reading"
  BY DEF Holder!Opening, Holder!Idle, HandlerRecords, Holder!NoToken

LEMMA OpenedNew ==
  ASSUME KeptInv, NEW t \in HolderTasks, Holder!Restart(t)
  PROVE  KeptInv'
<1>1. /\ m_task' = Holder!Opening(t) /\ token' = Holder!NoToken /\ epoch' = 0 /\ queue' = <<t>>
      /\ state' = Holder!Is("booting") /\ route' \in {"index", "holder"} /\ inFlight' = Holder!NoTask
      /\ UNCHANGED <<storage, signed, closed, undeleted>>
  BY DEF Holder!Restart, Holder!server, Holder!history
<1>2. HolderTypes'
  BY <1>1, OpeningTypes DEF KeptInv, HolderTypes, Holder!Is, Holder!Statuses, Holder!NoToken
<1>3. WasSigned'
  BY <1>1, OpeningTypes DEF KeptInv, HolderTypes, WasSigned, Holder!Is, Holder!NoToken
<1>4. \A u \in HolderTasks : m_task'[u].at # "setting"
  BY <1>1, OpeningTypes, IdleTypes
<1> QED
  BY <1>1, <1>2, <1>3, <1>4 DEF KeptInv, StoredNew, Holder!ClosedStaysOut

LEMMA InitNew == Holder!Init => KeptInv
<1> SUFFICES ASSUME Holder!Init PROVE KeptInv
  OBVIOUS
<1> PICK t \in HolderTasks : m_task = Holder!Opening(t) /\ queue = <<t>>
  BY DEF Holder!Init
<1>1. /\ token = Holder!NoToken /\ epoch = 0 /\ inFlight = Holder!NoTask /\ signed \in {0, 1} /\ storage = signed
      /\ closed = {} /\ state = Holder!Is("booting") /\ route \in {"index", "holder"}
  BY DEF Holder!Init
<1>2. HolderTypes
  BY <1>1, OpeningTypes DEF HolderTypes, Holder!Is, Holder!Statuses, Holder!NoToken
<1>3. WasSigned
  BY <1>1, OpeningTypes DEF WasSigned, Holder!Is, Holder!NoToken
<1>4. \A u \in HolderTasks : m_task[u].at # "setting"
  BY OpeningTypes, IdleTypes
<1> QED
  BY <1>1, <1>2, <1>3, <1>4 DEF KeptInv, StoredNew, Holder!ClosedStaysOut

LEMMA ExpireStutters ==
  ASSUME NEW k, Holder!Expire(k) \/ UNCHANGED Holder!vars
  PROVE  UNCHANGED <<state, route, token, epoch, storage, queue, cache, m_task, inFlight, signed, closed, undeleted>>
  BY DEF Holder!Expire, Holder!vars, Holder!history

LEMMA NextNew == KeptInv /\ [Holder!Next]_(Holder!vars) => KeptInv'
<1> SUFFICES ASSUME KeptInv, [Holder!Next]_(Holder!vars) PROVE KeptInv'
  OBVIOUS
<1>1. ASSUME NEW k, Holder!Expire(k) \/ UNCHANGED Holder!vars PROVE KeptInv'
  <2>1. UNCHANGED <<state, route, token, epoch, storage, queue, cache, m_task, inFlight, signed, closed, undeleted>>
    BY <1>1, ExpireStutters
  <2> QED
    BY <2>1 DEF KeptInv, HolderTypes, WasSigned, StoredNew, Holder!ClosedStaysOut
<1>2. ASSUME NEW t \in HolderTasks,
             Holder!Restart(t) \/ Holder!Login(t) \/ Holder!Logout(t) \/ Holder!Retry(t) \/ Holder!Request(t) \/ Holder!Answers(t)
      PROVE  KeptInv'
  BY <1>2, OpenedNew, AcceptedNew, TaskNew DEF Holder!Answers
<1> QED
  BY <1>1, <1>2 DEF Holder!Next

\* A closed session is in the secure store only if the store itself refused to
\* delete it, also where people retry: no order of the handlers, of the answers
\* and of the starts keeps or writes one back.
THEOREM ClosedStaysOutAlways == Holder!Spec => []Holder!ClosedStaysOut
<1>1. Holder!Spec => []KeptInv
  BY InitNew, NextNew, PTL DEF Holder!Spec
<1>2. KeptInv => Holder!ClosedStaysOut
  BY DEF KeptInv
<1> QED
  BY <1>1, <1>2, PTL

(* The queue of the secure store.  *)

WaitsAt == {"reading", "setting", "clearing"}

LEMMA TailFacts ==
  ASSUME NEW q \in Seq(HolderTasks), q # << >>
  PROVE  /\ Tail(q) \in Seq(HolderTasks) /\ Len(q) \in Nat \ {0} /\ Len(Tail(q)) = Len(q) - 1
         /\ \A i \in 1..(Len(q) - 1) : Tail(q)[i] = q[i + 1]
         /\ Head(q) = q[1] /\ \A i \in 1..Len(q) : q[i] \in HolderTasks
  OBVIOUS

LEMMA AppendFacts ==
  ASSUME NEW q \in Seq(HolderTasks), NEW t \in HolderTasks
  PROVE  /\ Append(q, t) \in Seq(HolderTasks) /\ Len(q) \in Nat /\ Len(Append(q, t)) = Len(q) + 1
         /\ \A i \in 1..Len(q) : Append(q, t)[i] = q[i] /\ q[i] \in HolderTasks
         /\ Append(q, t)[Len(q) + 1] = t
  OBVIOUS

\* What the order of the queue rests on.
InLine == HolderTypes /\ WhereTheyAre /\ QueueIsOfWaiting /\ InOrder

LEMMA GoesFacts ==
  ASSUME HolderTypes, NEW t \in HolderTasks, NEW x, Holder!Goes(t, x)
  PROVE  \A u \in HolderTasks : m_task'[u] = IF u = t THEN x ELSE m_task[u]
  BY DEF HolderTypes, Holder!Goes

LEMMA QueuedWait ==
  ASSUME InLine
  PROVE  \A i \in 1..Len(queue) : queue[i] \in HolderTasks /\ m_task[queue[i]].at \in WaitsAt
  BY DEF InLine, HolderTypes, QueueIsOfWaiting, Holder!Waits, WaitsAt

\* A task that neither waited nor waits.
LEMMA StayQueue ==
  ASSUME InLine, NEW t \in HolderTasks, NEW x \in HandlerRecords, Holder!Goes(t, x),
         m_task[t].at \notin WaitsAt, x.at \notin WaitsAt,
         UNCHANGED <<queue, storage, undeleted>>, epoch' \in {epoch, epoch + 1}
  PROVE  QueueIsOfWaiting' /\ InOrder'
<1>1. \A u \in HolderTasks : m_task'[u] = IF u = t THEN x ELSE m_task[u]
  BY GoesFacts DEF InLine
<1>2. \A i \in 1..Len(queue) : queue[i] \in HolderTasks /\ m_task'[queue[i]] = m_task[queue[i]]
  BY <1>1, QueuedWait
<1>3. \A u \in HolderTasks : Holder!Waits(u)' <=> Holder!Waits(u)
  BY DEF Holder!Waits
<1>4. QueueIsOfWaiting'
  BY <1>1, <1>3 DEF InLine, QueueIsOfWaiting, WaitsAt
<1>5. epoch \in Nat /\ \A u \in HolderTasks : m_task[u].epoch \in Nat /\ m_task[u].epoch <= epoch
  BY DEF InLine, HolderTypes, HandlerRecords, WhereTheyAre
<1>6. InOrder'
  BY <1>2, <1>5 DEF InLine, InOrder
<1> QED
  BY <1>4, <1>6

\* What a task that joins the queue must find.
JoinsInOrder(x) ==
  \/ x.at = "clearing" /\ epoch' = epoch + 1
  \/ x.at = "setting" /\ epoch' = epoch
  \/ /\ x.at = "reading" /\ x.op = "request" /\ epoch' = epoch
     /\ \A u \in HolderTasks : m_task[u].at # "setting"
     /\ \E u \in HolderTasks : m_task[u].at = "clearing"

LEMMA JoinQueue ==
  ASSUME InLine, NEW t \in HolderTasks, NEW x \in HandlerRecords, Holder!Goes(t, x),
         m_task[t].at \notin WaitsAt, JoinsInOrder(x),
         queue' = Append(queue, t), UNCHANGED <<storage, undeleted>>
  PROVE  QueueIsOfWaiting' /\ InOrder'
<1>1. \A u \in HolderTasks : m_task'[u] = IF u = t THEN x ELSE m_task[u]
  BY GoesFacts DEF InLine
<1>2. \A i \in 1..Len(queue) : queue[i] \in HolderTasks /\ queue[i] # t /\ m_task'[queue[i]] = m_task[queue[i]]
  BY <1>1, QueuedWait
<1> DEFINE n == Len(queue)
<1>3. /\ n \in Nat /\ Len(queue') = n + 1 /\ queue'[n + 1] = t
      /\ \A i \in 1..n : queue'[i] = queue[i]
  BY AppendFacts DEF InLine, HolderTypes
<1>4. x.at \in WaitsAt
  BY DEF JoinsInOrder, WaitsAt
<1> HIDE DEF n
<1>5. \A u \in HolderTasks : Holder!Waits(u)' <=> (u = t \/ Holder!Waits(u))
  <2>1. \A u \in HolderTasks : Holder!Waits(u)' <=> \E i \in 1..(n + 1) : queue'[i] = u
    BY <1>3 DEF Holder!Waits
  <2>2. \A u \in HolderTasks : Holder!Waits(u) <=> \E i \in 1..n : queue[i] = u
    BY DEF Holder!Waits, n
  <2> QED
    BY <1>3, <2>1, <2>2
<1>6. QueueIsOfWaiting'
  <2>1. \A u \in HolderTasks : Holder!Waits(u)' <=> m_task'[u].at \in WaitsAt
    BY <1>1, <1>4, <1>5 DEF InLine, QueueIsOfWaiting, WaitsAt
  <2>2. \A i, j \in 1..(n + 1) : queue'[i] = queue'[j] => i = j
    <3>1. \A i, j \in 1..n : queue[i] = queue[j] => i = j
      BY DEF InLine, QueueIsOfWaiting, n
    <3>2. \A i \in 1..n : queue[i] # t
      BY <1>2 DEF n
    <3> QED
      BY <1>3, <3>1, <3>2
  <2> QED
    BY <1>3, <2>1, <2>2 DEF QueueIsOfWaiting, WaitsAt
<1>7. epoch \in Nat /\ \A u \in HolderTasks : m_task[u].epoch \in Nat /\ m_task[u].epoch <= epoch
  BY DEF InLine, HolderTypes, HandlerRecords, WhereTheyAre
<1>8. InOrder'
  <2>1. \A i \in 1..n : queue[i] \in HolderTasks /\ queue'[i] = queue[i] /\ m_task'[queue'[i]] = m_task[queue[i]]
    BY <1>2, <1>3 DEF n
  <2>2. m_task'[queue'[n + 1]] = x
    BY <1>1, <1>3
  <2>3. ASSUME NEW i \in 1..(n + 1), NEW j \in 1..(n + 1), i < j,
               m_task'[queue'[i]].at = "setting", m_task'[queue'[i]].epoch = epoch'
        PROVE  m_task'[queue'[j]].at # "clearing"
    <3>1. i \in 1..n
      BY <1>3, <2>3
    <3>2. epoch' = epoch
      <4>1. queue[i] \in HolderTasks /\ m_task[queue[i]].epoch = epoch'
        BY <2>1, <2>3, <3>1
      <4>2. epoch' <= epoch
        BY <1>7, <4>1
      <4> QED
        BY <1>7, <4>2 DEF JoinsInOrder
    <3>3. CASE j = n + 1
      <4>1. x.at # "clearing"
        BY <1>7, <3>2 DEF JoinsInOrder
      <4> QED
        BY <2>2, <3>3, <4>1
    <3>4. CASE j \in 1..n
      <4>1. m_task[queue[i]].at = "setting" /\ m_task[queue[i]].epoch = epoch
        BY <2>1, <2>3, <3>1, <3>2
      <4>2. m_task[queue[j]].at # "clearing"
        BY <2>3, <3>1, <3>4, <4>1 DEF InLine, InOrder, n
      <4> QED
        BY <2>1, <3>4, <4>2
    <3> QED
      BY <1>3, <2>3, <3>3, <3>4
  <2>4. ASSUME NEW i \in 1..(n + 1), m_task'[queue'[i]].at = "reading", m_task'[queue'[i]].op = "request"
        PROVE  /\ \A j \in 1..(i - 1) : m_task'[queue'[j]].at # "setting"
               /\ storage' \in undeleted' \cup {Holder!NoToken} \/ \E j \in 1..(i - 1) : m_task'[queue'[j]].at = "clearing"
    <3>1. CASE i \in 1..n
      <4>1. /\ \A j \in 1..(i - 1) : m_task[queue[j]].at # "setting"
            /\ storage \in undeleted \cup {Holder!NoToken} \/ \E j \in 1..(i - 1) : m_task[queue[j]].at = "clearing"
        BY <2>1, <2>4, <3>1 DEF InLine, InOrder, n
      <4>2. \A j \in 1..(i - 1) : j \in 1..n
        BY <1>3, <3>1
      <4> QED
        BY <2>1, <4>1, <4>2
    <3>2. CASE i = n + 1
      <4>1. /\ \A u \in HolderTasks : m_task[u].at # "setting"
            /\ \E u \in HolderTasks : m_task[u].at = "clearing"
        BY <2>2, <2>4, <3>2 DEF JoinsInOrder
      <4>2. PICK u \in HolderTasks : m_task[u].at = "clearing"
        BY <4>1
      <4>3. PICK j \in 1..n : queue[j] = u
        BY <4>2 DEF InLine, QueueIsOfWaiting, Holder!Waits, n
      <4>4. \A m \in 1..(i - 1) : m \in 1..n
        BY <1>3, <3>2
      <4>5. j \in 1..(i - 1)
        BY <1>3, <3>2, <4>3
      <4> QED
        BY <2>1, <4>1, <4>2, <4>3, <4>4, <4>5
    <3> QED
      BY <1>3, <2>4, <3>1, <3>2
  <2> QED
    BY <1>3, <2>3, <2>4 DEF InOrder
<1> QED
  BY <1>6, <1>8

\* The task that asked first has its answer and leaves.
LEMMA LeaveQueue ==
  ASSUME InLine, NEW t \in HolderTasks, NEW x \in HandlerRecords, Holder!Goes(t, x), x.at \notin WaitsAt,
         queue # << >>, Head(queue) = t, queue' = Tail(queue), UNCHANGED epoch,
         undeleted \subseteq undeleted',
         \/ storage' \in undeleted' \cup {Holder!NoToken}
         \/ storage' = storage /\ m_task[t].at # "clearing"
         \/ m_task[t].at = "setting"
  PROVE  QueueIsOfWaiting' /\ InOrder'
<1>1. \A u \in HolderTasks : m_task'[u] = IF u = t THEN x ELSE m_task[u]
  BY GoesFacts DEF InLine
<1> DEFINE n == Len(queue) - 1
<1>2. /\ n \in Nat /\ Len(queue) = n + 1 /\ Len(queue') = n /\ queue[1] = t
      /\ \A i \in 1..n : queue'[i] = queue[i + 1]
      /\ \A i \in 1..(n + 1) : queue[i] \in HolderTasks
  BY TailFacts DEF InLine, HolderTypes
<1> HIDE DEF n
<1>3. \A i, j \in 1..(n + 1) : queue[i] = queue[j] => i = j
  BY <1>2 DEF InLine, QueueIsOfWaiting
<1>4. \A i \in 1..n : queue'[i] # t /\ queue'[i] \in HolderTasks /\ m_task'[queue'[i]] = m_task[queue[i + 1]]
  BY <1>1, <1>2, <1>3
<1>5. \A u \in HolderTasks : Holder!Waits(u)' <=> (u # t /\ Holder!Waits(u))
  <2>1. \A u \in HolderTasks : Holder!Waits(u)' <=> \E i \in 1..n : queue'[i] = u
    BY <1>2 DEF Holder!Waits
  <2>2. \A u \in HolderTasks : Holder!Waits(u) <=> \E i \in 1..(n + 1) : queue[i] = u
    BY <1>2 DEF Holder!Waits
  <2>3. ASSUME NEW u \in HolderTasks, u # t, NEW i \in 1..(n + 1), queue[i] = u
        PROVE  \E j \in 1..n : queue'[j] = u
    <3>1. i - 1 \in 1..n /\ queue'[i - 1] = queue[(i - 1) + 1]
      BY <1>2, <2>3
    <3>2. (i - 1) + 1 = i
      BY <1>2
    <3> QED
      BY <2>3, <3>1, <3>2
  <2>4. ASSUME NEW u \in HolderTasks, NEW i \in 1..n, queue'[i] = u
        PROVE  u # t /\ \E j \in 1..(n + 1) : queue[j] = u
    <3>1. i + 1 \in 1..(n + 1) /\ queue[i + 1] = u
      BY <1>2, <2>4
    <3> QED
      BY <1>4, <2>4, <3>1
  <2> QED
    BY <2>1, <2>2, <2>3, <2>4
<1>6. QueueIsOfWaiting'
  <2>1. \A u \in HolderTasks : Holder!Waits(u)' <=> m_task'[u].at \in WaitsAt
    BY <1>1, <1>5 DEF InLine, QueueIsOfWaiting, WaitsAt
  <2>2. ASSUME NEW i \in 1..n, NEW j \in 1..n, queue'[i] = queue'[j] PROVE i = j
    <3>1. i + 1 \in 1..(n + 1) /\ j + 1 \in 1..(n + 1) /\ queue[i + 1] = queue[j + 1]
      BY <1>2, <2>2
    <3>2. i + 1 = j + 1
      BY <1>3, <3>1
    <3> QED
      BY <1>2, <3>2
  <2> QED
    BY <1>2, <2>1, <2>2 DEF QueueIsOfWaiting, WaitsAt
<1>7. InOrder'
  <2>1. ASSUME NEW i \in 1..n, NEW j \in 1..n, i < j,
               m_task'[queue'[i]].at = "setting", m_task'[queue'[i]].epoch = epoch'
        PROVE  m_task'[queue'[j]].at # "clearing"
    <3>1. i + 1 \in 1..Len(queue) /\ j + 1 \in 1..Len(queue) /\ i + 1 < j + 1
      BY <1>2, <2>1
    <3> QED
      BY <1>4, <2>1, <3>1 DEF InLine, InOrder
  <2>2. ASSUME NEW i \in 1..n, m_task'[queue'[i]].at = "reading", m_task'[queue'[i]].op = "request"
        PROVE  /\ \A j \in 1..(i - 1) : m_task'[queue'[j]].at # "setting"
               /\ storage' \in undeleted' \cup {Holder!NoToken} \/ \E j \in 1..(i - 1) : m_task'[queue'[j]].at = "clearing"
    <3>1. i + 1 \in 1..Len(queue) /\ m_task[queue[i + 1]].at = "reading" /\ m_task[queue[i + 1]].op = "request"
      BY <1>2, <1>4, <2>2
    <3>2. /\ \A j \in 1..((i + 1) - 1) : m_task[queue[j]].at # "setting"
          /\ storage \in undeleted \cup {Holder!NoToken} \/ \E j \in 1..((i + 1) - 1) : m_task[queue[j]].at = "clearing"
      BY <3>1 DEF InLine, InOrder
    <3>3. ASSUME NEW j \in 1..(i - 1) PROVE m_task'[queue'[j]].at # "setting"
      <4>1. j \in 1..n /\ j + 1 \in 1..((i + 1) - 1)
        BY <1>2
      <4> QED
        BY <1>4, <3>2, <4>1
    <3>4. m_task[t].at # "setting"
      <4>1. 1 \in 1..((i + 1) - 1)
        BY <1>2
      <4> QED
        BY <1>2, <3>2, <4>1
    <3>5. ASSUME storage' \notin undeleted' \cup {Holder!NoToken} PROVE \E j \in 1..(i - 1) : m_task'[queue'[j]].at = "clearing"
      <4>1. storage' = storage /\ m_task[t].at # "clearing"
        BY <3>4, <3>5
      <4>2. PICK j \in 1..((i + 1) - 1) : m_task[queue[j]].at = "clearing"
        BY <3>2, <3>5, <4>1
      <4>3. j # 1
        BY <1>2, <4>1, <4>2
      <4>4. j - 1 \in 1..(i - 1) /\ j - 1 \in 1..n /\ (j - 1) + 1 = j
        BY <1>2, <4>3
      <4>5. m_task'[queue'[j - 1]].at = "clearing"
        BY <1>4, <4>2, <4>4
      <4> QED
        BY <4>4, <4>5
    <3> QED
      BY <3>3, <3>5
  <2> QED
    BY <1>2, <2>1, <2>2 DEF InOrder
<1> QED
  BY <1>6, <1>7

AsksAgain(t) == queue' = Append(Tail(queue), t)

\* The task that asked first asks again, to have the session cleared.
LEMMA AgainQueue ==
  ASSUME InLine, NEW t \in HolderTasks, NEW x \in HandlerRecords, Holder!Goes(t, x), x.at = "clearing",
         queue # << >>, Head(queue) = t, m_task[t].at \in {"reading", "setting"},
         AsksAgain(t), epoch' = epoch + 1, UNCHANGED <<storage, undeleted>>
  PROVE  QueueIsOfWaiting' /\ InOrder'
<1>1. \A u \in HolderTasks : m_task'[u] = IF u = t THEN x ELSE m_task[u]
  BY GoesFacts DEF InLine
<1> DEFINE n == Len(queue) - 1
<1>2. /\ n \in Nat /\ Len(queue) = n + 1 /\ queue[1] = t
      /\ \A i \in 1..(n + 1) : queue[i] \in HolderTasks
  BY TailFacts DEF InLine, HolderTypes
<1>3. /\ Len(queue') = n + 1 /\ queue'[n + 1] = t
      /\ \A i \in 1..n : queue'[i] = queue[i + 1]
  <2>1. /\ Tail(queue) \in Seq(HolderTasks) /\ Len(Tail(queue)) = n
        /\ \A i \in 1..n : Tail(queue)[i] = queue[i + 1]
    BY TailFacts DEF InLine, HolderTypes
  <2> QED
    BY <2>1, AppendFacts DEF AsksAgain
<1> HIDE DEF n
<1>4. \A i, j \in 1..(n + 1) : queue[i] = queue[j] => i = j
  BY <1>2 DEF InLine, QueueIsOfWaiting
<1>5. \A i \in 1..n : queue'[i] # t /\ queue'[i] \in HolderTasks /\ m_task'[queue'[i]] = m_task[queue[i + 1]]
  BY <1>1, <1>2, <1>3, <1>4
<1>6. \A u \in HolderTasks : Holder!Waits(u)' <=> Holder!Waits(u)
  <2>1. \A u \in HolderTasks : Holder!Waits(u)' <=> \E i \in 1..(n + 1) : queue'[i] = u
    BY <1>3 DEF Holder!Waits
  <2>2. \A u \in HolderTasks : Holder!Waits(u) <=> \E i \in 1..(n + 1) : queue[i] = u
    BY <1>2 DEF Holder!Waits
  <2>3. ASSUME NEW u \in HolderTasks, NEW i \in 1..(n + 1), queue[i] = u
        PROVE  \E j \in 1..(n + 1) : queue'[j] = u
    <3>1. CASE u = t
      BY <1>2, <1>3, <3>1
    <3>2. CASE u # t
      <4>1. i - 1 \in 1..n /\ queue'[i - 1] = queue[(i - 1) + 1] /\ (i - 1) + 1 = i
        BY <1>2, <1>3, <2>3, <3>2
      <4>2. i - 1 \in 1..(n + 1) /\ queue'[i - 1] = u
        BY <1>2, <2>3, <4>1
      <4> QED
        BY <4>2
    <3> QED
      BY <3>1, <3>2
  <2>4. ASSUME NEW u \in HolderTasks, NEW i \in 1..(n + 1), queue'[i] = u
        PROVE  \E j \in 1..(n + 1) : queue[j] = u
    <3>1. CASE i = n + 1
      BY <1>2, <1>3, <2>4, <3>1
    <3>2. CASE i \in 1..n
      <4>1. i + 1 \in 1..(n + 1) /\ queue[i + 1] = u
        BY <1>2, <1>3, <2>4, <3>2
      <4> QED
        BY <4>1
    <3> QED
      BY <1>2, <3>1, <3>2
  <2> QED
    BY <2>1, <2>2, <2>3, <2>4
<1>7. QueueIsOfWaiting'
  <2>1. \A u \in HolderTasks : Holder!Waits(u)' <=> m_task'[u].at \in WaitsAt
    BY <1>1, <1>6 DEF InLine, QueueIsOfWaiting, WaitsAt
  <2>2. ASSUME NEW i \in 1..n, NEW j \in 1..n, queue'[i] = queue'[j] PROVE i = j
    <3>1. i + 1 \in 1..(n + 1) /\ j + 1 \in 1..(n + 1) /\ queue[i + 1] = queue[j + 1]
      BY <1>2, <1>3, <2>2
    <3>2. i + 1 = j + 1
      BY <1>4, <3>1
    <3> QED
      BY <1>2, <3>2
  <2>3. \A i, j \in 1..(n + 1) : queue'[i] = queue'[j] => i = j
    BY <1>2, <1>3, <1>5, <2>2
  <2> QED
    BY <1>3, <2>1, <2>3 DEF QueueIsOfWaiting, WaitsAt
<1>8. InOrder'
  <2>1. epoch \in Nat /\ \A u \in HolderTasks : m_task[u].epoch \in Nat /\ m_task[u].epoch <= epoch
    BY DEF InLine, HolderTypes, HandlerRecords, WhereTheyAre
  <2>2. m_task'[queue'[n + 1]] = x
    BY <1>1, <1>3
  <2>3. ASSUME NEW i \in 1..(n + 1), m_task'[queue'[i]].at = "setting" PROVE m_task'[queue'[i]].epoch # epoch'
    <3>1. i \in 1..n
      BY <1>2, <2>2, <2>3
    <3>2. i + 1 \in 1..(n + 1)
      BY <1>2, <3>1
    <3>3. PICK u \in HolderTasks : u = queue[i + 1]
      BY <1>2, <3>2
    <3>4. m_task'[queue'[i]] = m_task[u] /\ m_task[u].epoch \in Nat /\ m_task[u].epoch <= epoch
      BY <1>5, <2>1, <3>1, <3>3
    <3> QED
      BY <2>1, <3>4
  <2>4. ASSUME NEW i \in 1..(n + 1), m_task'[queue'[i]].at = "reading", m_task'[queue'[i]].op = "request"
        PROVE  /\ \A j \in 1..(i - 1) : m_task'[queue'[j]].at # "setting"
               /\ storage' \in undeleted' \cup {Holder!NoToken} \/ \E j \in 1..(i - 1) : m_task'[queue'[j]].at = "clearing"
    <3>0. i \in 1..n
      BY <1>2, <2>2, <2>4
    <3>1. i + 1 \in 1..Len(queue) /\ m_task[queue[i + 1]].at = "reading" /\ m_task[queue[i + 1]].op = "request"
      BY <1>2, <1>5, <2>4, <3>0
    <3>2. /\ \A j \in 1..((i + 1) - 1) : m_task[queue[j]].at # "setting"
          /\ storage \in undeleted \cup {Holder!NoToken} \/ \E j \in 1..((i + 1) - 1) : m_task[queue[j]].at = "clearing"
      BY <3>1 DEF InLine, InOrder
    <3>3. ASSUME NEW j \in 1..(i - 1) PROVE m_task'[queue'[j]].at # "setting"
      <4>1. j \in 1..n /\ j + 1 \in 1..((i + 1) - 1)
        BY <1>2, <3>0
      <4> QED
        BY <1>5, <3>2, <4>1
    <3>5. ASSUME storage' \notin undeleted' \cup {Holder!NoToken} PROVE \E j \in 1..(i - 1) : m_task'[queue'[j]].at = "clearing"
      <4>2. PICK j \in 1..((i + 1) - 1) : m_task[queue[j]].at = "clearing"
        BY <3>2, <3>5
      <4>3. j # 1
        BY <1>2, <4>2
      <4>4. j - 1 \in 1..(i - 1) /\ j - 1 \in 1..n /\ (j - 1) + 1 = j
        BY <1>2, <3>0, <4>3
      <4>5. m_task'[queue'[j - 1]].at = "clearing"
        BY <1>5, <4>2, <4>4
      <4> QED
        BY <4>4, <4>5
    <3> QED
      BY <3>3, <3>5
  <2>5. \A i, j \in 1..(n + 1) :
          i < j /\ m_task'[queue'[i]].at = "setting" /\ m_task'[queue'[i]].epoch = epoch'
            => m_task'[queue'[j]].at # "clearing"
    BY <2>3
  <2>6. \A i \in 1..(n + 1) : m_task'[queue'[i]].at = "reading" /\ m_task'[queue'[i]].op = "request" =>
          /\ \A j \in 1..(i - 1) : m_task'[queue'[j]].at # "setting"
          /\ storage' \in undeleted' \cup {Holder!NoToken} \/ \E j \in 1..(i - 1) : m_task'[queue'[j]].at = "clearing"
    BY <2>4
  <2>7. Len(queue') = n + 1
    BY <1>3
  <2> QED
    BY <2>5, <2>6, <2>7 DEF InOrder
<1> QED
  BY <1>7, <1>8

-----------------------------------------------------------------------------
(* The invariant where nobody retries.  *)

ShownRest ==
  /\ WhereTheyAre /\ RestoreAlone /\ LoginAlone /\ HeldIsKept
  /\ SentIsHeld /\ Holder!CacheIsOfTheHolder /\ Holder!LogoutWins

\* ShownInv, with what the order of the queue adds apart from the rest.
LEMMA ShownParts == ShownInv <=> ShownRest /\ QueueIsOfWaiting /\ InOrder
  BY DEF ShownInv, ShownRest

\* A task clears the session; it is none that begins while the session is restored.
LEMMA ClearRest ==
  ASSUME KeptInv, ShownInv, Holder!NoTask \notin HolderTasks, NEW t \in HolderTasks, NEW x \in HandlerRecords, Holder!Clear(t, x),
         x.epoch <= epoch,
         \/ x.op = m_task[t].op /\ x.op # "none"
         \/ x.op = "logout" /\ m_task[t] = Holder!Idle /\ state.is # "booting",
         UNCHANGED <<state, route, storage, cache, inFlight, closed, undeleted>>
  PROVE  ShownRest'
<1> DEFINE y == [x EXCEPT !.at = "clearing"]
<1>1. Holder!Goes(t, y) /\ y \in HandlerRecords /\ y.op = x.op /\ y.at = "clearing" /\ y.epoch = x.epoch
      /\ token' = Holder!NoToken /\ epoch' = epoch + 1 /\ epoch \in Nat
  BY ClearTypes DEF KeptInv, HolderTypes, Holder!Clear, HandlerRecords
<1> HIDE DEF y
<1>2. \A u \in HolderTasks : m_task'[u] = IF u = t THEN y ELSE m_task[u]
  BY <1>1, GoesFacts DEF KeptInv
<1>3. \A u \in HolderTasks : m_task[u].epoch \in Nat /\ m_task[u].epoch <= epoch /\ m_task[u].op # "retry"
  BY DEF KeptInv, HolderTypes, HandlerRecords, ShownInv, WhereTheyAre
<1>4. m_task[t].op \in {"none", "restore", "login", "logout", "request"}
  BY <1>3 DEF KeptInv, HolderTypes, HandlerRecords
<1>5. y.op \in {"restore", "login", "logout", "request"} /\ y.epoch \in Nat
  BY <1>1, <1>4 DEF HandlerRecords
<1>6. WhereTheyAre'
  BY <1>1, <1>2, <1>3, <1>5 DEF ShownInv, WhereTheyAre
<1>7. RestoreAlone'
  <2> SUFFICES ASSUME NEW u \in HolderTasks, m_task'[u].op = "restore"
               PROVE  /\ \A v \in HolderTasks \ {u} : m_task'[v] = Holder!Idle
                      /\ state' = Holder!Is("booting") /\ route' # "login" /\ token' = Holder!NoToken
                      /\ cache' = {} /\ inFlight' = Holder!NoTask
                      /\ m_task'[u].at = "me" => m_task'[u].token = storage' /\ storage' # Holder!NoToken
    BY DEF RestoreAlone
  <2>1. u = t
    <3>1. SUFFICES ASSUME u # t PROVE FALSE
      OBVIOUS
    <3>2. m_task[u].op = "restore" /\ m_task[t] = Holder!Idle /\ state = Holder!Is("booting")
      BY <1>2, <3>1 DEF ShownInv, RestoreAlone
    <3> QED
      BY <3>2 DEF Holder!Idle, Holder!Is
  <2>2. m_task[t].op = "restore"
    BY <1>1, <1>2, <2>1 DEF Holder!Idle
  <2> QED
    BY <1>1, <1>2, <2>1, <2>2 DEF ShownInv, RestoreAlone
<1>8. LoginAlone'
  <2>1. \A u \in HolderTasks : m_task'[u].op = "login" <=> m_task[u].op = "login"
    BY <1>1, <1>2 DEF Holder!Idle
  <2> QED
    BY <1>1, <2>1 DEF ShownInv, LoginAlone
<1>9. HeldIsKept'
  BY <1>1, <1>2 DEF HeldIsKept, Clearing
<1>10. SentIsHeld'
  <2>1. \A u \in HolderTasks : m_task'[u].at = "sent" => m_task'[u].epoch # epoch'
    BY <1>1, <1>2, <1>3
  <2> QED
    BY <2>1 DEF SentIsHeld
<1>11. Holder!CacheIsOfTheHolder' /\ Holder!LogoutWins'
  <2>1. Holder!NoToken \notin closed
    BY DEF KeptInv, WasSigned, HolderTypes, Holder!NoToken
  <2> QED
    BY <1>1, <2>1 DEF ShownInv, Holder!CacheIsOfTheHolder, Holder!LogoutWins
<1> QED
  BY <1>6, <1>7, <1>8, <1>9, <1>10, <1>11 DEF ShownRest

LEMMA ClearQueue ==
  ASSUME InLine, NEW t \in HolderTasks, NEW x \in HandlerRecords, Holder!Clear(t, x), UNCHANGED <<storage, undeleted>>,
         m_task[t].at \notin WaitsAt \/ Holder!Turn(t, "reading") \/ Holder!Turn(t, "setting")
  PROVE  QueueIsOfWaiting' /\ InOrder'
<1> DEFINE y == [x EXCEPT !.at = "clearing"]
<1>1. Holder!Goes(t, y) /\ y \in HandlerRecords /\ y.at = "clearing" /\ epoch' = epoch + 1
  BY ClearTypes DEF InLine, Holder!Clear
<1> HIDE DEF y
<1>2. CASE m_task[t].at \notin WaitsAt
  <2>1. queue' = Append(queue, t)
    BY <1>2 DEF Holder!Clear, InLine, QueueIsOfWaiting, WaitsAt
  <2> QED
    BY <1>1, <1>2, <2>1, JoinQueue DEF JoinsInOrder
<1>3. CASE Holder!Turn(t, "reading") \/ Holder!Turn(t, "setting")
  <2>1. queue' = Append(Tail(queue), t)
    BY <1>3 DEF Holder!Clear, InLine, QueueIsOfWaiting, Holder!Turn
  <2> QED
    BY <1>1, <1>3, <2>1, AgainQueue DEF Holder!Turn, AsksAgain
<1> QED
  BY <1>2, <1>3

LEMMA LineHolds ==
  ASSUME KeptInv, ShownInv
  PROVE  InLine
  BY DEF KeptInv, ShownInv, InLine

LEMMA ShownFrom ==
  ASSUME ShownRest', QueueIsOfWaiting' /\ InOrder'
  PROVE  ShownInv'
  BY DEF ShownRest, ShownInv

\* Where a task stands tells whose it is.
LEMMA Stands ==
  ASSUME KeptInv, ShownInv, NEW t \in HolderTasks
  PROVE  /\ m_task[t] \in HandlerRecords /\ m_task[t].epoch <= epoch /\ m_task[t].epoch \in Nat /\ epoch \in Nat
         /\ m_task[t].at \in {"setting", "posting"} => m_task[t].op = "login"
         /\ m_task[t].at = "me" => m_task[t].op = "restore"
         /\ m_task[t].at = "sent" => m_task[t].op = "request"
         /\ m_task[t].op \in {"none", "restore", "login", "logout", "request"}
         /\ m_task[t].op = "none" => m_task[t] = Holder!Idle
         /\ m_task[t].at = "idle" => m_task[t] = Holder!Idle
<1>1. m_task[t] \in HandlerRecords /\ epoch \in Nat
  BY DEF KeptInv, HolderTypes
<1>2. /\ m_task[t].at \in {"setting", "posting"} => m_task[t].op = "login"
      /\ m_task[t].at = "me" => m_task[t].op = "restore"
      /\ m_task[t].at = "sent" => m_task[t].op = "request"
  BY <1>1 DEF ShownInv, WhereTheyAre, HandlerRecords, Holder!Idle
<1> QED
  BY <1>1, <1>2 DEF ShownInv, WhereTheyAre, HandlerRecords

\* Nobody restores the session while another handler is in progress.
LEMMA NobodyRestores ==
  ASSUME ShownInv, NEW t \in HolderTasks, m_task[t] # Holder!Idle, m_task[t].op # "restore"
  PROVE  \A u \in HolderTasks : m_task[u].op # "restore"
  BY DEF ShownInv, RestoreAlone

LEMMA LoginRest ==
  ASSUME KeptInv, ShownInv, Holder!NoTask \notin HolderTasks, NEW t \in HolderTasks, Holder!Login(t)
  PROVE  ShownInv'
<1> DEFINE x == [Holder!Start(t, "login") EXCEPT !.at = "posting", !.epoch = epoch + 1]
<1>1. x \in HandlerRecords /\ x.at = "posting" /\ x.op = "login" /\ x.epoch = epoch + 1 /\ epoch \in Nat
  <2>1. PICK s \in HandlerRecords : s = Holder!Start(t, "login") /\ s.op = "login"
    BY StartTypes DEF KeptInv
  <2>2. PICK n \in Nat : n = epoch + 1
    BY DEF KeptInv, HolderTypes
  <2>3. /\ [s EXCEPT !.at = "posting", !.epoch = n] \in HandlerRecords
        /\ [s EXCEPT !.at = "posting", !.epoch = n].at = "posting"
        /\ [s EXCEPT !.at = "posting", !.epoch = n].op = s.op
        /\ [s EXCEPT !.at = "posting", !.epoch = n].epoch = n
    BY DEF HandlerRecords
  <2>4. x = [s EXCEPT !.at = "posting", !.epoch = n]
    BY <2>1, <2>2
  <2> QED
    BY <2>1, <2>2, <2>3, <2>4 DEF KeptInv, HolderTypes
<1>2. Holder!Goes(t, x) /\ m_task[t] = Holder!Idle /\ route = "login" /\ inFlight = Holder!NoTask /\ inFlight' = t
      /\ epoch' = epoch + 1 /\ token' = Holder!NoToken /\ cache' = {} /\ state' = Holder!Is("authenticating")
      /\ UNCHANGED <<storage, queue, closed, undeleted>>
  BY DEF Holder!Login, Holder!May, Holder!Show, Holder!history
<1> HIDE DEF x
<1>3. \A u \in HolderTasks : m_task'[u] = IF u = t THEN x ELSE m_task[u]
  BY <1>2, GoesFacts DEF KeptInv
<1>4. \A u \in HolderTasks : m_task[u].op # "restore" /\ m_task[u].op # "login"
  BY <1>2 DEF ShownInv, RestoreAlone, LoginAlone
<1>5. \A u \in HolderTasks : m_task[u].epoch \in Nat /\ m_task[u].epoch <= epoch
  BY Stands
<1>6. WhereTheyAre'
  BY <1>1, <1>2, <1>3, <1>5 DEF ShownInv, WhereTheyAre
<1>7. RestoreAlone'
  BY <1>1, <1>3, <1>4 DEF RestoreAlone
<1>8. LoginAlone'
  BY <1>1, <1>2, <1>3, <1>4 DEF LoginAlone, Holder!Is
<1>9. HeldIsKept'
  BY <1>2 DEF HeldIsKept, Holder!Is
<1>10. SentIsHeld'
  BY <1>1, <1>2, <1>3, <1>5 DEF SentIsHeld
<1>11. Holder!CacheIsOfTheHolder' /\ Holder!LogoutWins'
  <2>1. Holder!NoToken \notin closed
    BY DEF KeptInv, WasSigned, HolderTypes, Holder!NoToken
  <2> QED
    BY <1>2, <2>1 DEF Holder!CacheIsOfTheHolder, Holder!LogoutWins, ShownInv, Holder!Is
<1>12. QueueIsOfWaiting' /\ InOrder'
  BY <1>1, <1>2, LineHolds, StayQueue DEF WaitsAt, Holder!Idle
<1> QED
  BY <1>6, <1>7, <1>8, <1>9, <1>10, <1>11, <1>12, ShownFrom DEF ShownRest

\* A handler of which the session is cleared.
LEMMA ClearHolds ==
  ASSUME KeptInv, ShownInv, Holder!NoTask \notin HolderTasks, NEW t \in HolderTasks, Holder!Clear(t, m_task[t]),
         m_task[t].at \in {"posting", "me", "sent"} \/ Holder!Turn(t, "reading") \/ Holder!Turn(t, "setting"),
         UNCHANGED <<state, route, storage, cache, inFlight, closed, undeleted>>
  PROVE  ShownInv'
<1>1. m_task[t] \in HandlerRecords /\ m_task[t].epoch <= epoch /\ m_task[t].op # "none"
  BY Stands DEF Holder!Turn, Holder!Idle
<1>2. ShownRest'
  BY <1>1, ClearRest
<1>3. QueueIsOfWaiting' /\ InOrder'
  BY <1>1, LineHolds, ClearQueue DEF WaitsAt
<1> QED
  BY <1>2, <1>3, ShownFrom

LEMMA LogoutRest ==
  ASSUME KeptInv, ShownInv, Holder!NoTask \notin HolderTasks, NEW t \in HolderTasks, Holder!Logout(t)
  PROVE  ShownInv'
<1> DEFINE x == [Holder!Start(t, "logout") EXCEPT !.token = state.of]
<1>1. x \in HandlerRecords /\ x.op = "logout" /\ x.epoch = epoch /\ epoch \in Nat
  <2>1. Holder!Start(t, "logout") \in HandlerRecords /\ Holder!Start(t, "logout").op = "logout"
        /\ Holder!Start(t, "logout").epoch = epoch /\ state.of \in Nat
    BY StartTypes DEF KeptInv, HolderTypes
  <2> QED
    BY <2>1 DEF KeptInv, HolderTypes, HandlerRecords
<1>2. Holder!Clear(t, x) /\ m_task[t] = Holder!Idle /\ state.is # "booting"
      /\ UNCHANGED <<state, route, storage, cache, inFlight, closed, undeleted>>
  BY DEF Holder!Logout, Holder!May, Holder!history
<1> HIDE DEF x
<1>3. ShownRest'
  BY <1>1, <1>2, ClearRest
<1>4. QueueIsOfWaiting' /\ InOrder'
  BY <1>1, <1>2, LineHolds, ClearQueue DEF WaitsAt, Holder!Idle
<1> QED
  BY <1>3, <1>4, ShownFrom

LEMMA RequestRest ==
  ASSUME KeptInv, ShownInv, Holder!NoTask \notin HolderTasks, NEW t \in HolderTasks, Holder!Request(t)
  PROVE  ShownInv'
<1>1. /\ m_task[t] = Holder!Idle /\ state.is = "authenticated" /\ epoch \in Nat
      /\ UNCHANGED <<state, route, token, epoch, storage, cache, inFlight, closed, undeleted>>
  BY DEF Holder!Request, Holder!May, KeptInv, HolderTypes, Holder!history
<1>2. \A u \in HolderTasks : /\ m_task[u].op # "restore" /\ m_task[u].op # "login"
                             /\ m_task[u].epoch \in Nat /\ m_task[u].epoch <= epoch
  <2>1. \A u \in HolderTasks : m_task[u].op # "restore"
    BY <1>1 DEF ShownInv, RestoreAlone, Holder!Is
  <2>2. \A u \in HolderTasks : m_task[u].op # "login"
    BY <1>1 DEF ShownInv, LoginAlone
  <2> QED
    BY <2>1, <2>2, Stands
<1>3. PICK s \in HandlerRecords : s = Holder!Start(t, "request") /\ s.op = "request" /\ s.epoch = epoch
  BY StartTypes DEF KeptInv
<1>4. PICK k \in Nat : k = token
  BY DEF KeptInv, HolderTypes
<1>5. PICK x \in HandlerRecords :
        /\ Holder!Goes(t, x) /\ x.op = "request" /\ x.epoch = epoch
        /\ \/ token # Holder!NoToken /\ x.at = "sent" /\ x.token = token /\ UNCHANGED queue
           \/ token = Holder!NoToken /\ x.at = "reading" /\ queue' = Append(queue, t)
  <2>1. CASE token # Holder!NoToken
    <3>1. /\ [s EXCEPT !.at = "sent", !.token = k] \in HandlerRecords
          /\ [s EXCEPT !.at = "sent", !.token = k].at = "sent"
          /\ [s EXCEPT !.at = "sent", !.token = k].token = k
          /\ [s EXCEPT !.at = "sent", !.token = k].op = s.op
          /\ [s EXCEPT !.at = "sent", !.token = k].epoch = s.epoch
      BY DEF HandlerRecords
    <3>2. Holder!Goes(t, [s EXCEPT !.at = "sent", !.token = k]) /\ UNCHANGED queue
      BY <1>3, <1>4, <2>1 DEF Holder!Request
    <3> QED
      BY <1>3, <1>4, <2>1, <3>1, <3>2
  <2>2. CASE token = Holder!NoToken
    <3>1. /\ [s EXCEPT !.at = "reading"] \in HandlerRecords
          /\ [s EXCEPT !.at = "reading"].at = "reading"
          /\ [s EXCEPT !.at = "reading"].op = s.op
          /\ [s EXCEPT !.at = "reading"].epoch = s.epoch
      BY DEF HandlerRecords
    <3>2. Holder!Goes(t, [s EXCEPT !.at = "reading"]) /\ queue' = Append(queue, t)
      BY <1>3, <2>2 DEF Holder!Request
    <3> QED
      BY <1>3, <2>2, <3>1, <3>2
  <2> QED
    BY <2>1, <2>2
<1>6. \A u \in HolderTasks : m_task'[u] = IF u = t THEN x ELSE m_task[u]
  BY <1>5, GoesFacts DEF KeptInv
<1>7. WhereTheyAre'
  BY <1>1, <1>5, <1>6 DEF ShownInv, WhereTheyAre, Holder!Idle
<1>8. RestoreAlone'
  BY <1>2, <1>5, <1>6 DEF RestoreAlone
<1>9. LoginAlone'
  BY <1>1, <1>2, <1>5, <1>6 DEF ShownInv, LoginAlone
<1>10. HeldIsKept'
  <2>1. Clearing' = Clearing
    BY <1>1, <1>5, <1>6 DEF Clearing, Holder!Idle
  <2> QED
    BY <1>1, <2>1 DEF ShownInv, HeldIsKept
<1>11. SentIsHeld'
  BY <1>1, <1>5, <1>6 DEF ShownInv, SentIsHeld
<1>12. Holder!CacheIsOfTheHolder' /\ Holder!LogoutWins'
  BY <1>1 DEF ShownInv, Holder!CacheIsOfTheHolder, Holder!LogoutWins
<1>13. QueueIsOfWaiting' /\ InOrder'
  <2>1. m_task[t].at \notin WaitsAt /\ InLine
    BY <1>1, LineHolds DEF Holder!Idle, WaitsAt
  <2>2. CASE x.at = "sent" /\ UNCHANGED queue
    BY <1>1, <1>5, <2>1, <2>2, StayQueue DEF WaitsAt
  <2>3. CASE token = Holder!NoToken /\ x.at = "reading" /\ queue' = Append(queue, t)
    <3>1. \A u \in HolderTasks : m_task[u].at # "setting"
      BY <1>2, Stands
    <3>2. \E u \in HolderTasks : m_task[u].at = "clearing"
      BY <1>1, <2>3 DEF ShownInv, HeldIsKept, Clearing
    <3> QED
      BY <1>1, <1>5, <2>1, <2>3, <3>1, <3>2, JoinQueue DEF JoinsInOrder
  <2> QED
    BY <1>5, <2>2, <2>3
<1> QED
  BY <1>7, <1>8, <1>9, <1>10, <1>11, <1>12, <1>13, ShownFrom DEF ShownRest

\* A handler that is over.
LEMMA EndFacts ==
  ASSUME KeptInv, ShownInv, Holder!NoTask \notin HolderTasks, NEW t \in HolderTasks, Holder!Ends(t), UNCHANGED epoch
  PROVE  /\ \A u \in HolderTasks : m_task'[u] = IF u = t THEN Holder!Idle ELSE m_task[u]
         /\ WhereTheyAre'
         /\ \A u \in HolderTasks : m_task'[u].op = "login" <=> inFlight' = u
         /\ inFlight' # Holder!NoTask => inFlight' = inFlight /\ inFlight # t
         /\ m_task[t].op = "login" => inFlight = t /\ inFlight' = Holder!NoTask
<1>1. Holder!Goes(t, Holder!Idle) /\ inFlight' = IF inFlight = t THEN Holder!NoTask ELSE inFlight
  BY DEF Holder!Ends
<1>2. \A u \in HolderTasks : m_task'[u] = IF u = t THEN Holder!Idle ELSE m_task[u]
  BY <1>1, GoesFacts DEF KeptInv
<1>3. epoch \in Nat
  BY DEF KeptInv, HolderTypes
<1>4. WhereTheyAre'
  BY <1>2, <1>3 DEF ShownInv, WhereTheyAre, Holder!Idle
<1>5. \A u \in HolderTasks : m_task'[u].op = "login" <=> inFlight' = u
  BY <1>1, <1>2 DEF ShownInv, LoginAlone, Holder!Idle
<1> QED
  BY <1>1, <1>2, <1>4, <1>5 DEF ShownInv, LoginAlone

\* ... and had nothing to change.
LEMMA EndRest ==
  ASSUME KeptInv, ShownInv, Holder!NoTask \notin HolderTasks, NEW t \in HolderTasks, Holder!Ends(t), m_task[t].at # "clearing",
         UNCHANGED <<state, route, token, epoch, storage, cache, closed, undeleted>>
  PROVE  ShownRest'
<1>1. \A u \in HolderTasks : m_task'[u] = IF u = t THEN Holder!Idle ELSE m_task[u]
  BY EndFacts
<1>2. Holder!Idle.op = "none" /\ Holder!Idle.at = "idle"
  BY DEF Holder!Idle
<1>3. RestoreAlone'
  <2> SUFFICES ASSUME NEW u \in HolderTasks, m_task'[u].op = "restore"
               PROVE  /\ \A v \in HolderTasks \ {u} : m_task'[v] = Holder!Idle
                      /\ state' = Holder!Is("booting") /\ route' # "login" /\ token' = Holder!NoToken
                      /\ cache' = {} /\ inFlight' = Holder!NoTask
                      /\ m_task'[u].at = "me" => m_task'[u].token = storage' /\ storage' # Holder!NoToken
    BY DEF RestoreAlone
  <2>1. u # t /\ m_task'[u] = m_task[u]
    BY <1>1, <1>2
  <2>2. inFlight = Holder!NoTask
    BY <2>1 DEF ShownInv, RestoreAlone
  <2>3. inFlight' = Holder!NoTask
    BY <2>2, EndFacts
  <2> QED
    BY <1>1, <2>1, <2>3 DEF ShownInv, RestoreAlone
<1>4. LoginAlone'
  BY EndFacts DEF ShownInv, LoginAlone
<1>5. HeldIsKept'
  <2>1. Clearing' = Clearing
    BY <1>1, <1>2 DEF Clearing
  <2> QED
    BY <2>1 DEF ShownInv, HeldIsKept
<1>6. SentIsHeld' /\ Holder!CacheIsOfTheHolder' /\ Holder!LogoutWins'
  BY <1>1, <1>2 DEF ShownInv, SentIsHeld, Holder!CacheIsOfTheHolder, Holder!LogoutWins
<1> QED
  BY <1>3, <1>4, <1>5, <1>6, EndFacts DEF ShownRest

LEMMA EndStays ==
  ASSUME KeptInv, ShownInv, Holder!NoTask \notin HolderTasks, NEW t \in HolderTasks, Holder!Ends(t),
         m_task[t].at \notin WaitsAt, UNCHANGED <<epoch, storage, queue, undeleted>>
  PROVE  QueueIsOfWaiting' /\ InOrder'
<1>1. Holder!Goes(t, Holder!Idle) /\ Holder!Idle \in HandlerRecords /\ Holder!Idle.at \notin WaitsAt
  BY IdleTypes DEF Holder!Ends, WaitsAt, Holder!Idle
<1>2. epoch' \in {epoch, epoch + 1}
  OBVIOUS
<1> QED
  BY <1>1, <1>2, LineHolds, StayQueue

LEMMA EndLeaves ==
  ASSUME KeptInv, ShownInv, Holder!NoTask \notin HolderTasks, NEW t \in HolderTasks, Holder!Ends(t),
         queue # << >>, Head(queue) = t, queue' = Tail(queue), UNCHANGED epoch,
         undeleted \subseteq undeleted',
         \/ storage' \in undeleted' \cup {Holder!NoToken}
         \/ storage' = storage /\ m_task[t].at # "clearing"
         \/ m_task[t].at = "setting"
  PROVE  QueueIsOfWaiting' /\ InOrder'
<1>1. Holder!Goes(t, Holder!Idle) /\ Holder!Idle \in HandlerRecords /\ Holder!Idle.at \notin WaitsAt
  BY IdleTypes DEF Holder!Ends, WaitsAt, Holder!Idle
<1> QED
  BY <1>1, LineHolds, LeaveQueue

LEMMA EndHolds ==
  ASSUME KeptInv, ShownInv, Holder!NoTask \notin HolderTasks, NEW t \in HolderTasks, Holder!Ends(t),
         m_task[t].at \in {"posting", "me", "sent"},
         UNCHANGED <<state, route, token, epoch, storage, queue, cache, closed, undeleted>>
  PROVE  ShownInv'
<1>1. ShownRest'
  BY EndRest
<1>2. QueueIsOfWaiting' /\ InOrder'
  BY EndStays DEF WaitsAt
<1> QED
  BY <1>1, <1>2, ShownFrom

\* Nothing but the restoration is in progress, and it ends.
LEMMA RestoredRest ==
  ASSUME KeptInv, ShownInv, Holder!NoTask \notin HolderTasks, NEW t \in HolderTasks, m_task[t].op = "restore", Holder!Ends(t),
         UNCHANGED <<epoch, storage, cache, undeleted>>, closed' \subseteq closed,
         \/ token' = Holder!NoToken /\ state' \in {Holder!Is("unauthenticated"), Holder!Is("recoverable-error")}
         \/ /\ storage # Holder!NoToken /\ token' = storage /\ state' = Holder!Authenticated(storage)
            /\ storage \notin closed'
  PROVE  ShownRest'
<1>1. \A u \in HolderTasks : m_task'[u] = Holder!Idle
  BY EndFacts DEF ShownInv, RestoreAlone
<1>2. cache = {} /\ inFlight = Holder!NoTask
  BY DEF ShownInv, RestoreAlone
<1>3. inFlight' = Holder!NoTask
  BY <1>2, EndFacts
<1>4. Holder!Idle.op = "none" /\ Holder!Idle.at = "idle"
  BY DEF Holder!Idle
<1>5. RestoreAlone' /\ SentIsHeld' /\ Clearing' = {}
  BY <1>1, <1>4 DEF RestoreAlone, SentIsHeld, Clearing
<1>6. LoginAlone'
  BY <1>1, <1>3, <1>4 DEF LoginAlone
<1>7. HeldIsKept'
  BY <1>5 DEF HeldIsKept, Holder!Is, Holder!Authenticated, Holder!NoToken
<1>8. Holder!CacheIsOfTheHolder'
  BY <1>2 DEF Holder!CacheIsOfTheHolder
<1>9. Holder!LogoutWins'
  <2>1. Holder!NoToken \notin closed
    BY DEF KeptInv, WasSigned, HolderTypes, Holder!NoToken
  <2> QED
    BY <2>1 DEF Holder!LogoutWins, Holder!Is, Holder!Authenticated
<1> QED
  BY <1>5, <1>6, <1>7, <1>8, <1>9, EndFacts DEF ShownRest

LEMMA RestoreReadRest ==
  ASSUME KeptInv, ShownInv, Holder!NoTask \notin HolderTasks, NEW t \in HolderTasks, Holder!RestoreRead(t)
  PROVE  ShownInv'
<1>1. /\ queue # << >> /\ Head(queue) = t /\ m_task[t].at = "reading" /\ m_task[t].op = "restore"
      /\ queue' = Tail(queue) /\ UNCHANGED <<token, epoch, storage, cache, closed, undeleted>>
  BY DEF Holder!RestoreRead, Holder!Turn, Holder!history
<1>0. PICK found \in Holder!Found :
        IF m_task[t].epoch = epoch /\ found # Holder!NoToken
        THEN Holder!Resolve(t, found, epoch) /\ UNCHANGED <<state, route, inFlight>>
        ELSE /\ Holder!Ends(t)
             /\ IF m_task[t].epoch = epoch THEN Holder!Show(Holder!Is("unauthenticated"))
                ELSE UNCHANGED <<state, route>>
  BY DEF Holder!RestoreRead
<1>2. CASE m_task[t].epoch = epoch /\ found # Holder!NoToken
  <2>0. found = storage /\ storage # Holder!NoToken
    BY <1>2 DEF Holder!Found
  <2>1. PICK x \in HandlerRecords : /\ Holder!Goes(t, x) /\ x.op = "restore" /\ x.at = "me"
                                    /\ x.token = storage /\ x.epoch = epoch
    <3>1. PICK y \in HandlerRecords : y = m_task[t]
      BY Stands
    <3>2. PICK k \in Nat : k = storage
      BY DEF KeptInv, HolderTypes
    <3>3. PICK n \in Nat : n = epoch
      BY DEF KeptInv, HolderTypes
    <3>4. /\ [y EXCEPT !.at = "me", !.token = k, !.epoch = n] \in HandlerRecords
          /\ [y EXCEPT !.at = "me", !.token = k, !.epoch = n].op = y.op
          /\ [y EXCEPT !.at = "me", !.token = k, !.epoch = n].at = "me"
          /\ [y EXCEPT !.at = "me", !.token = k, !.epoch = n].token = k
          /\ [y EXCEPT !.at = "me", !.token = k, !.epoch = n].epoch = n
      BY DEF HandlerRecords
    <3>5. Holder!Goes(t, [y EXCEPT !.at = "me", !.token = k, !.epoch = n])
      BY <1>0, <1>2, <2>0, <3>1, <3>2, <3>3 DEF Holder!Resolve
    <3> QED
      BY <1>1, <3>1, <3>2, <3>3, <3>4, <3>5
  <2>2. UNCHANGED <<state, route, inFlight>>
    BY <1>0, <1>2
  <2>3. \A u \in HolderTasks : m_task'[u] = IF u = t THEN x ELSE m_task[u]
    BY <2>1, GoesFacts DEF KeptInv
  <2>4. epoch \in Nat
    BY DEF KeptInv, HolderTypes
  <2>5. WhereTheyAre'
    BY <1>1, <2>1, <2>3, <2>4 DEF ShownInv, WhereTheyAre
  <2>6. RestoreAlone'
    BY <1>1, <2>0, <2>1, <2>2, <2>3 DEF ShownInv, RestoreAlone, Holder!Idle
  <2>7. LoginAlone'
    BY <1>1, <2>1, <2>2, <2>3 DEF ShownInv, LoginAlone
  <2>8. HeldIsKept'
    <3>1. Clearing' = Clearing
      BY <1>1, <2>1, <2>3 DEF Clearing
    <3> QED
      BY <1>1, <2>2, <3>1 DEF ShownInv, HeldIsKept
  <2>9. SentIsHeld' /\ Holder!CacheIsOfTheHolder' /\ Holder!LogoutWins'
    BY <1>1, <2>1, <2>2, <2>3 DEF ShownInv, SentIsHeld, Holder!CacheIsOfTheHolder, Holder!LogoutWins
  <2>10. QueueIsOfWaiting' /\ InOrder'
    BY <1>1, <2>1, LineHolds, LeaveQueue DEF WaitsAt
  <2> QED
    BY <2>5, <2>6, <2>7, <2>8, <2>9, <2>10, ShownFrom DEF ShownRest
<1>3. CASE ~(m_task[t].epoch = epoch /\ found # Holder!NoToken)
  <2>1. Holder!Ends(t)
    BY <1>0, <1>3
  <2>2. QueueIsOfWaiting' /\ InOrder'
    BY <1>1, <2>1, EndLeaves
  <2>3. ShownRest'
    <3>1. CASE m_task[t].epoch = epoch
      <4>1. state' = Holder!Is("unauthenticated")
        BY <1>0, <1>3, <3>1 DEF Holder!Show
      <4>2. token' = Holder!NoToken
        BY <1>1 DEF ShownInv, RestoreAlone
      <4> QED
        BY <1>1, <2>1, <4>1, <4>2, RestoredRest
    <3>2. CASE m_task[t].epoch # epoch
      BY <1>0, <1>1, <1>3, <2>1, <3>2, EndRest
    <3> QED
      BY <3>1, <3>2
  <2> QED
    BY <2>2, <2>3, ShownFrom
<1> QED
  BY <1>2, <1>3

LEMMA RequestReadRest ==
  ASSUME KeptInv, ShownInv, Holder!NoTask \notin HolderTasks, NEW t \in HolderTasks, Holder!RequestRead(t)
  PROVE  ShownInv'
<1>1. /\ Holder!Turn(t, "reading") /\ m_task[t].op = "request"
      /\ UNCHANGED <<state, route, storage, cache, inFlight, closed, undeleted>>
  BY DEF Holder!RequestRead, Holder!history
<1>2. queue # << >> /\ Head(queue) = t /\ m_task[t].at = "reading"
  BY <1>1 DEF Holder!Turn
<1>3. storage \in undeleted \cup {Holder!NoToken}
  <2>1. 1 \in 1..Len(queue) /\ queue[1] = t
    BY <1>2, TailFacts DEF KeptInv, HolderTypes
  <2>2. storage \in undeleted \cup {Holder!NoToken} \/ \E j \in 1..(1 - 1) : m_task[queue[j]].at = "clearing"
    BY <1>1, <1>2, <2>1 DEF ShownInv, InOrder
  <2> QED
    BY <2>2
<1>4. CASE Holder!Clear(t, m_task[t])
  BY <1>1, <1>4, ClearHolds
<1>5. ASSUME NEW k \in Holder!Found, k # Holder!NoToken,
             Holder!Goes(t, [m_task[t] EXCEPT !.at = "sent", !.token = k, !.epoch = epoch]),
             queue' = Tail(queue), UNCHANGED <<token, epoch>>
      PROVE  ShownInv'
  <2>1. PICK x \in HandlerRecords : /\ Holder!Goes(t, x) /\ x.op = "request" /\ x.at = "sent"
                                    /\ x.token \in undeleted /\ x.epoch = epoch
    <3>1. PICK y \in HandlerRecords : y = m_task[t]
      BY Stands
    <3>2. k \in Nat /\ k \in undeleted
      BY <1>3, <1>5 DEF KeptInv, HolderTypes, Holder!Found
    <3>3. PICK n \in Nat : n = epoch
      BY DEF KeptInv, HolderTypes
    <3>4. /\ [y EXCEPT !.at = "sent", !.token = k, !.epoch = n] \in HandlerRecords
          /\ [y EXCEPT !.at = "sent", !.token = k, !.epoch = n].op = y.op
          /\ [y EXCEPT !.at = "sent", !.token = k, !.epoch = n].at = "sent"
          /\ [y EXCEPT !.at = "sent", !.token = k, !.epoch = n].token = k
          /\ [y EXCEPT !.at = "sent", !.token = k, !.epoch = n].epoch = n
      BY <3>2 DEF HandlerRecords
    <3> QED
      BY <1>1, <1>5, <3>1, <3>2, <3>3, <3>4
  <2>2. \A u \in HolderTasks : m_task'[u] = IF u = t THEN x ELSE m_task[u]
    BY <2>1, GoesFacts DEF KeptInv
  <2>3. epoch \in Nat
    BY DEF KeptInv, HolderTypes
  <2>4. WhereTheyAre'
    BY <1>1, <1>5, <2>1, <2>2, <2>3 DEF ShownInv, WhereTheyAre
  <2>5. RestoreAlone'
    <3>1. \A u \in HolderTasks : m_task[u].op # "restore"
      BY <1>1, NobodyRestores DEF Holder!Idle
    <3> QED
      BY <2>1, <2>2, <3>1 DEF RestoreAlone
  <2>6. LoginAlone'
    BY <1>1, <1>5, <2>1, <2>2 DEF ShownInv, LoginAlone
  <2>7. HeldIsKept'
    <3>1. Clearing' = Clearing
      BY <1>2, <2>1, <2>2 DEF Clearing
    <3> QED
      BY <1>1, <1>5, <3>1 DEF ShownInv, HeldIsKept
  <2>8. SentIsHeld' /\ Holder!CacheIsOfTheHolder' /\ Holder!LogoutWins'
    BY <1>1, <1>5, <2>1, <2>2 DEF ShownInv, SentIsHeld, Holder!CacheIsOfTheHolder, Holder!LogoutWins
  <2>9. QueueIsOfWaiting' /\ InOrder'
    BY <1>1, <1>2, <1>5, <2>1, LineHolds, LeaveQueue DEF WaitsAt
  <2> QED
    BY <2>4, <2>5, <2>6, <2>7, <2>8, <2>9, ShownFrom DEF ShownRest
<1> QED
  BY <1>4, <1>5 DEF Holder!RequestRead

LEMMA TokenStoredRest ==
  ASSUME KeptInv, ShownInv, Holder!NoTask \notin HolderTasks, NEW t \in HolderTasks, Holder!TokenStored(t)
  PROVE  ShownInv'
<1>1. /\ Holder!Turn(t, "setting") /\ queue # << >> /\ Head(queue) = t /\ m_task[t].at = "setting"
      /\ UNCHANGED <<cache, closed, undeleted>>
  BY DEF Holder!TokenStored, Holder!Turn, Holder!history
<1>2. m_task[t].op = "login" /\ m_task[t] # Holder!Idle
  BY <1>1, Stands DEF Holder!Idle
<1>3. inFlight = t /\ state.is \in {"authenticating", "unauthenticated"} /\ token = Holder!NoToken /\ cache \subseteq undeleted
  BY <1>2 DEF ShownInv, LoginAlone
<1>4. \A u \in HolderTasks : m_task[u].op # "restore"
  BY <1>2, NobodyRestores
<1>5. CASE Holder!Clear(t, m_task[t]) /\ UNCHANGED <<state, route, storage, inFlight>>
  BY <1>1, <1>5, ClearHolds
<1>6. CASE queue' = Tail(queue) /\ Holder!Ends(t) /\ UNCHANGED <<state, route, token, epoch, storage>>
  <2>1. ShownRest'
    BY <1>1, <1>6, EndRest
  <2>2. QueueIsOfWaiting' /\ InOrder'
    BY <1>1, <1>6, EndLeaves
  <2> QED
    BY <2>1, <2>2, ShownFrom
<1>7. CASE /\ storage' = m_task[t].token /\ queue' = Tail(queue) /\ Holder!Ends(t) /\ UNCHANGED epoch
           /\ IF m_task[t].epoch = epoch
              THEN token' = m_task[t].token /\ Holder!Show(Holder!Authenticated(m_task[t].token))
              ELSE UNCHANGED <<token, state, route>>
  <2>1. \A u \in HolderTasks : m_task'[u] = IF u = t THEN Holder!Idle ELSE m_task[u]
    BY <1>7, EndFacts
  <2>2. Holder!Idle.op = "none" /\ Holder!Idle.at = "idle"
    BY DEF Holder!Idle
  <2>3. inFlight' = Holder!NoTask
    BY <1>2, <1>7, EndFacts
  <2>4. \A u \in HolderTasks : m_task'[u].op # "restore" /\ m_task'[u].op # "login"
    BY <1>2, <1>3, <1>4, <2>1, <2>2 DEF ShownInv, LoginAlone
  <2>5. RestoreAlone' /\ LoginAlone'
    BY <2>3, <2>4 DEF RestoreAlone, LoginAlone
  <2>6. \A u \in HolderTasks : m_task'[u].at = "sent" /\ m_task'[u].epoch = epoch' => m_task'[u].token \in undeleted'
    BY <1>1, <1>3, <1>7, <2>1, <2>2 DEF ShownInv, SentIsHeld
  <2>7. m_task[t].epoch = epoch => Clearing' = {}
    <3> SUFFICES ASSUME m_task[t].epoch = epoch, NEW u \in HolderTasks, m_task'[u].at = "clearing"
                 PROVE  FALSE
      BY DEF Clearing
    <3>1. u # t /\ m_task[u].at = "clearing"
      BY <2>1, <2>2
    <3>2. PICK j \in 1..Len(queue) : queue[j] = u
      BY <3>1 DEF ShownInv, QueueIsOfWaiting, Holder!Waits
    <3>3. Len(queue) \in Nat \ {0} /\ queue[1] = t
      BY <1>1, TailFacts DEF KeptInv, HolderTypes
    <3>4. 1 < j /\ 1 \in 1..Len(queue)
      BY <3>1, <3>2, <3>3
    <3> QED
      BY <1>1, <3>1, <3>2, <3>3, <3>4 DEF ShownInv, InOrder
  <2>8. HeldIsKept'
    <3>1. CASE m_task[t].epoch = epoch
      <4>1. m_task[t].token # Holder!NoToken
        BY <1>1 DEF KeptInv, StoredNew
      <4> QED
        BY <1>7, <2>7, <3>1, <4>1 DEF HeldIsKept, Holder!Show, Holder!Authenticated
    <3>2. CASE m_task[t].epoch # epoch
      BY <1>3, <1>7, <3>2 DEF HeldIsKept
    <3> QED
      BY <3>1, <3>2
  <2>9. Holder!CacheIsOfTheHolder'
    BY <1>1, <1>3 DEF Holder!CacheIsOfTheHolder
  <2>10. Holder!LogoutWins'
    <3>1. m_task[t].token \notin closed
      BY <1>1 DEF KeptInv, StoredNew
    <3> QED
      BY <1>1, <1>7, <3>1 DEF ShownInv, Holder!LogoutWins, Holder!Show, Holder!Authenticated
  <2>11. QueueIsOfWaiting' /\ InOrder'
    BY <1>1, <1>7, EndLeaves
  <2>12. WhereTheyAre'
    BY <1>7, EndFacts
  <2>13. SentIsHeld'
    BY <2>6 DEF SentIsHeld
  <2> QED
    BY <2>5, <2>8, <2>9, <2>10, <2>11, <2>12, <2>13, ShownFrom DEF ShownRest
<1> QED
  BY <1>5, <1>6, <1>7 DEF Holder!TokenStored

LEMMA ClearedRest ==
  ASSUME KeptInv, ShownInv, Holder!NoTask \notin HolderTasks, NEW t \in HolderTasks, Holder!Cleared(t)
  PROVE  ShownInv'
<1>1. /\ queue # << >> /\ Head(queue) = t /\ m_task[t].at = "clearing"
      /\ storage' \in undeleted' \cup {Holder!NoToken} /\ undeleted \subseteq undeleted'
      /\ cache' = {} /\ state' = Holder!Is("unauthenticated")
      /\ queue' = Tail(queue) /\ Holder!Ends(t) /\ UNCHANGED <<token, epoch>>
      /\ closed' \subseteq closed \cup ({storage, m_task[t].token} \ {Holder!NoToken})
  BY DEF Holder!Cleared, Holder!Delete, Holder!Turn, Holder!Show
<1>2. token = Holder!NoToken
  BY <1>1 DEF ShownInv, HeldIsKept, Clearing
<1>3. \A u \in HolderTasks : m_task'[u] = IF u = t THEN Holder!Idle ELSE m_task[u]
  BY <1>1, EndFacts
<1>4. Holder!Idle.op = "none" /\ Holder!Idle.at = "idle"
  BY DEF Holder!Idle
<1>5. RestoreAlone'
  <2>1. \A u \in HolderTasks \ {t} : m_task[u].op # "restore"
    BY <1>1 DEF ShownInv, RestoreAlone, Holder!Idle
  <2> QED
    BY <1>3, <1>4, <2>1 DEF RestoreAlone
<1>6. LoginAlone'
  BY <1>1, <1>2, EndFacts DEF LoginAlone, Holder!Is
<1>7. HeldIsKept' /\ Holder!CacheIsOfTheHolder'
  BY <1>1, <1>2 DEF HeldIsKept, Holder!CacheIsOfTheHolder, Holder!Is
<1>8. SentIsHeld'
  BY <1>1, <1>2, <1>3, <1>4 DEF ShownInv, SentIsHeld
<1>9. Holder!LogoutWins'
  <2>1. Holder!NoToken \notin closed
    BY DEF KeptInv, WasSigned, HolderTypes, Holder!NoToken
  <2> QED
    BY <1>1, <1>2, <2>1 DEF Holder!LogoutWins, Holder!Is
<1>10. QueueIsOfWaiting' /\ InOrder'
  BY <1>1, EndLeaves
<1>11. WhereTheyAre'
  BY <1>1, EndFacts
<1> QED
  BY <1>5, <1>6, <1>7, <1>8, <1>9, <1>10, <1>11, ShownFrom DEF ShownRest

LEMMA LoginAcceptedRest ==
  ASSUME KeptInv, ShownInv, Holder!NoTask \notin HolderTasks, NEW t \in HolderTasks, Holder!LoginAccepted(t)
  PROVE  ShownInv'
<1>1. m_task[t].at = "posting" /\ UNCHANGED <<state, route, token, epoch, storage, cache, closed, undeleted>>
  BY DEF Holder!LoginAccepted, Holder!history
<1>2. CASE m_task[t].epoch # epoch
  <2>1. Holder!Ends(t) /\ UNCHANGED queue
    BY <1>2 DEF Holder!LoginAccepted
  <2> QED
    BY <1>1, <2>1, EndHolds
<1>3. CASE m_task[t].epoch = epoch
  <2>1. PICK x \in HandlerRecords : /\ Holder!Goes(t, x) /\ x.op = "login" /\ x.at = "setting" /\ x.epoch = epoch
    <3>1. PICK y \in HandlerRecords : y = m_task[t] /\ y.op = "login"
      BY <1>1, Stands
    <3>2. PICK k \in Nat : k = signed'
      BY DEF KeptInv, HolderTypes, Holder!LoginAccepted
    <3>3. /\ [y EXCEPT !.at = "setting", !.token = k] \in HandlerRecords
          /\ [y EXCEPT !.at = "setting", !.token = k].op = y.op
          /\ [y EXCEPT !.at = "setting", !.token = k].at = "setting"
          /\ [y EXCEPT !.at = "setting", !.token = k].epoch = y.epoch
      BY DEF HandlerRecords
    <3>4. Holder!Goes(t, [y EXCEPT !.at = "setting", !.token = k])
      BY <1>3, <3>1, <3>2 DEF Holder!LoginAccepted
    <3> QED
      BY <1>3, <3>1, <3>3, <3>4
  <2>2. queue' = Append(queue, t) /\ UNCHANGED inFlight
    BY <1>3 DEF Holder!LoginAccepted
  <2>3. \A u \in HolderTasks : m_task'[u] = IF u = t THEN x ELSE m_task[u]
    BY <2>1, GoesFacts DEF KeptInv
  <2>4. m_task[t].op = "login" /\ epoch \in Nat
    BY <1>1, Stands
  <2>5. WhereTheyAre'
    BY <1>1, <2>1, <2>3, <2>4 DEF ShownInv, WhereTheyAre
  <2>6. RestoreAlone'
    <3>1. \A u \in HolderTasks : m_task[u].op # "restore"
      BY <1>1, <2>4, NobodyRestores DEF Holder!Idle
    <3> QED
      BY <2>1, <2>3, <3>1 DEF RestoreAlone
  <2>7. LoginAlone'
    BY <1>1, <2>1, <2>2, <2>3, <2>4 DEF ShownInv, LoginAlone
  <2>8. HeldIsKept'
    <3>1. Clearing' = Clearing
      BY <1>1, <2>1, <2>3 DEF Clearing
    <3> QED
      BY <1>1, <3>1 DEF ShownInv, HeldIsKept
  <2>9. SentIsHeld' /\ Holder!CacheIsOfTheHolder' /\ Holder!LogoutWins'
    BY <1>1, <2>1, <2>3 DEF ShownInv, SentIsHeld, Holder!CacheIsOfTheHolder, Holder!LogoutWins
  <2>10. QueueIsOfWaiting' /\ InOrder'
    BY <1>1, <2>1, <2>2, LineHolds, JoinQueue DEF WaitsAt, JoinsInOrder
  <2> QED
    BY <2>5, <2>6, <2>7, <2>8, <2>9, <2>10, ShownFrom DEF ShownRest
<1> QED
  BY <1>2, <1>3

LEMMA RefusedRest ==
  ASSUME KeptInv, ShownInv, Holder!NoTask \notin HolderTasks, NEW t \in HolderTasks,
         Holder!LoginFailed(t) \/ Holder!MeRefused(t) \/ Holder!RequestRefused(t)
  PROVE  ShownInv'
<1>1. /\ m_task[t].at \in {"posting", "me", "sent"}
      /\ UNCHANGED <<state, route, storage, cache, closed, undeleted>>
      /\ \/ Holder!Clear(t, m_task[t]) /\ UNCHANGED inFlight
         \/ Holder!Ends(t) /\ UNCHANGED <<token, epoch, queue>>
  BY DEF Holder!LoginFailed, Holder!MeRefused, Holder!RequestRefused, Holder!history
<1>2. CASE Holder!Clear(t, m_task[t]) /\ UNCHANGED inFlight
  BY <1>1, <1>2, ClearHolds
<1>3. CASE Holder!Ends(t) /\ UNCHANGED <<token, epoch, queue>>
  BY <1>1, <1>3, EndHolds
<1> QED
  BY <1>1, <1>2, <1>3

LEMMA MeRest ==
  ASSUME KeptInv, ShownInv, Holder!NoTask \notin HolderTasks, NEW t \in HolderTasks, Holder!MeAnswered(t) \/ Holder!MeFailed(t)
  PROVE  ShownInv'
<1>1. /\ m_task[t].at = "me" /\ Holder!Ends(t) /\ UNCHANGED <<epoch, storage, queue, cache, undeleted>>
  BY DEF Holder!MeAnswered, Holder!MeFailed, Holder!history
<1>2. CASE m_task[t].epoch # epoch
  <2>1. UNCHANGED <<state, route, token, closed>>
    BY <1>2 DEF Holder!MeAnswered, Holder!MeFailed, Holder!history
  <2> QED
    BY <1>1, <2>1, EndHolds
<1>3. CASE m_task[t].epoch = epoch
  <2>1. m_task[t].op = "restore"
    BY <1>1, Stands
  <2>2. token = Holder!NoToken /\ storage = m_task[t].token /\ storage # Holder!NoToken
    BY <1>1, <2>1 DEF ShownInv, RestoreAlone
  <2>3. /\ closed' \subseteq closed
        /\ \/ token' = Holder!NoToken /\ state' = Holder!Is("recoverable-error")
           \/ token' = storage /\ state' = Holder!Authenticated(storage) /\ storage \notin closed'
    BY <1>3, <2>1, <2>2 DEF Holder!MeAnswered, Holder!MeFailed, Holder!Show, Holder!history
  <2>4. ShownRest'
    BY <1>1, <2>1, <2>2, <2>3, RestoredRest
  <2>5. QueueIsOfWaiting' /\ InOrder'
    BY <1>1, EndStays DEF WaitsAt
  <2> QED
    BY <2>4, <2>5, ShownFrom
<1> QED
  BY <1>2, <1>3

LEMMA AnsweredRest ==
  ASSUME KeptInv, ShownInv, Holder!NoTask \notin HolderTasks, NEW t \in HolderTasks, Holder!RequestAnswered(t)
  PROVE  ShownInv'
<1>1. /\ m_task[t].at = "sent" /\ Holder!Ends(t)
      /\ UNCHANGED <<state, route, token, epoch, storage, queue, closed, undeleted>>
  BY DEF Holder!RequestAnswered, Holder!history
<1>2. CASE cache' = cache
  BY <1>1, <1>2, EndHolds
<1>3. CASE cache' = cache \cup {m_task[t].token} /\ ~Holder!Stale(t)
  <2>1. \/ token = m_task[t].token /\ token # Holder!NoToken
        \/ m_task[t].token \in undeleted
    BY <1>1, <1>3 DEF ShownInv, SentIsHeld, Holder!Stale
  <2>2. token = m_task[t].token /\ token # Holder!NoToken =>
          state = Holder!Authenticated(m_task[t].token) /\ inFlight = Holder!NoTask
    BY DEF ShownInv, HeldIsKept, LoginAlone
  <2>3. \A u \in HolderTasks : m_task'[u] = IF u = t THEN Holder!Idle ELSE m_task[u]
    BY <1>1, EndFacts
  <2>4. Holder!Idle.op = "none" /\ Holder!Idle.at = "idle"
    BY DEF Holder!Idle
  <2>5. RestoreAlone'
    <3>1. m_task[t].op = "request"
      BY <1>1, Stands
    <3>2. \A u \in HolderTasks : m_task[u].op # "restore"
      BY <3>1, NobodyRestores DEF Holder!Idle
    <3> QED
      BY <2>3, <2>4, <3>2 DEF RestoreAlone
  <2>6. LoginAlone'
    <3>1. inFlight' # Holder!NoTask => /\ state.is \in {"authenticating", "unauthenticated"}
                                       /\ token = Holder!NoToken /\ cache \subseteq undeleted
      BY <1>1, EndFacts DEF ShownInv, LoginAlone
    <3>2. inFlight' # Holder!NoTask => cache' \subseteq undeleted
      BY <1>3, <2>1, <3>1
    <3> QED
      BY <1>1, <3>1, <3>2, EndFacts DEF LoginAlone
  <2>7. HeldIsKept'
    <3>1. Clearing' = Clearing
      BY <1>1, <2>3, <2>4 DEF Clearing
    <3> QED
      BY <1>1, <3>1 DEF ShownInv, HeldIsKept
  <2>8. SentIsHeld' /\ Holder!LogoutWins'
    BY <1>1, <2>3, <2>4 DEF ShownInv, SentIsHeld, Holder!LogoutWins
  <2>9. Holder!CacheIsOfTheHolder'
    BY <1>1, <1>3, <2>1, <2>2 DEF ShownInv, Holder!CacheIsOfTheHolder, Holder!Authenticated
  <2>10. QueueIsOfWaiting' /\ InOrder'
    BY <1>1, EndStays DEF WaitsAt
  <2>11. WhereTheyAre'
    BY <1>1, EndFacts
  <2> QED
    BY <2>5, <2>6, <2>7, <2>8, <2>9, <2>10, <2>11, ShownFrom DEF ShownRest
<1> QED
  BY <1>2, <1>3 DEF Holder!RequestAnswered

\* The application begins.
LEMMA OpenedRest ==
  ASSUME KeptInv', Holder!NoTask \notin HolderTasks, NEW t \in HolderTasks,
         m_task' = Holder!Opening(t), queue' = <<t>>, state' = Holder!Is("booting"), route' \in {"index", "holder"},
         token' = Holder!NoToken, epoch' = 0, cache' = {}, inFlight' = Holder!NoTask
  PROVE  ShownInv'
<1>1. /\ \A u \in HolderTasks : m_task'[u].epoch = 0 /\ (u # t => m_task'[u] = Holder!Idle)
      /\ m_task'[t].op = "restore" /\ m_task'[t].at = "reading"
  BY OpeningTypes
<1>2. Holder!Idle.op = "none" /\ Holder!Idle.at = "idle"
  BY DEF Holder!Idle
<1>3. WhereTheyAre'
  BY <1>1, <1>2 DEF WhereTheyAre
<1>4. RestoreAlone'
  BY <1>1, <1>2 DEF RestoreAlone
<1>5. LoginAlone'
  BY <1>1, <1>2 DEF LoginAlone
<1>6. HeldIsKept' /\ SentIsHeld' /\ Holder!CacheIsOfTheHolder'
  BY <1>1, <1>2 DEF HeldIsKept, SentIsHeld, Holder!CacheIsOfTheHolder, Holder!Is
<1>7. Holder!LogoutWins'
  <2>1. Holder!NoToken \notin closed'
    BY DEF KeptInv, WasSigned, HolderTypes, Holder!NoToken
  <2> QED
    BY <2>1 DEF Holder!LogoutWins, Holder!Is
<1>8. Len(queue') = 1 /\ queue'[1] = t
  OBVIOUS
<1>9. QueueIsOfWaiting'
  BY <1>1, <1>2, <1>8 DEF QueueIsOfWaiting, Holder!Waits
<1>10. InOrder'
  BY <1>1, <1>8 DEF InOrder
<1> QED
  BY <1>3, <1>4, <1>5, <1>6, <1>7, <1>9, <1>10, ShownFrom DEF ShownRest

\* The invariant of a holder who does not retry.
HolderInv == KeptInv /\ ShownInv

LEMMA InitHolder ==
  ASSUME Holder!NoTask \notin HolderTasks, Holder!Init
  PROVE  HolderInv
<1>1. KeptInv
  BY InitNew
<1> PICK t \in HolderTasks : m_task = Holder!Opening(t) /\ queue = <<t>>
  BY DEF Holder!Init
<1>2. /\ token = Holder!NoToken /\ epoch = 0 /\ inFlight = Holder!NoTask /\ cache = {}
      /\ closed = {} /\ state = Holder!Is("booting") /\ route \in {"index", "holder"}
  BY DEF Holder!Init
<1>3. /\ \A u \in HolderTasks : m_task[u].epoch = 0 /\ (u # t => m_task[u] = Holder!Idle)
      /\ m_task[t].op = "restore" /\ m_task[t].at = "reading"
  BY OpeningTypes
<1>4. Holder!Idle.op = "none" /\ Holder!Idle.at = "idle"
  BY DEF Holder!Idle
<1>5. WhereTheyAre /\ RestoreAlone
  BY <1>2, <1>3, <1>4 DEF WhereTheyAre, RestoreAlone
<1>6. LoginAlone
  BY <1>2, <1>3, <1>4 DEF LoginAlone
<1>7. HeldIsKept /\ SentIsHeld /\ Holder!CacheIsOfTheHolder /\ Holder!LogoutWins
  BY <1>2, <1>3, <1>4 DEF HeldIsKept, SentIsHeld, Holder!CacheIsOfTheHolder, Holder!LogoutWins,
     Holder!Is
<1>8. Len(queue) = 1 /\ queue[1] = t
  OBVIOUS
<1>9. QueueIsOfWaiting
  BY <1>3, <1>4, <1>8 DEF QueueIsOfWaiting, Holder!Waits
<1>10. InOrder
  BY <1>3, <1>8 DEF InOrder
<1> QED
  BY <1>1, <1>5, <1>6, <1>7, <1>9, <1>10 DEF ShownInv, HolderInv

LEMMA NextHolder ==
  ASSUME Holder!NoTask \notin HolderTasks, "retry" \notin HolderOps
  PROVE  HolderInv /\ [Holder!Next]_(Holder!vars) => HolderInv'
<1> SUFFICES ASSUME HolderInv, [Holder!Next]_(Holder!vars) PROVE HolderInv'
  OBVIOUS
<1>1. KeptInv /\ ShownInv /\ KeptInv'
  BY NextNew DEF HolderInv
<1>2. ASSUME NEW k, Holder!Expire(k) \/ UNCHANGED Holder!vars PROVE ShownInv'
  <2>1. UNCHANGED <<state, route, token, epoch, storage, queue, cache, m_task, inFlight, signed, closed, undeleted>>
    BY <1>2, ExpireStutters
  <2> QED
    BY <1>1, <2>1 DEF ShownInv, WhereTheyAre, RestoreAlone, LoginAlone, HeldIsKept, Clearing,
       QueueIsOfWaiting,
                      Holder!Waits, InOrder, SentIsHeld, Holder!CacheIsOfTheHolder, Holder!LogoutWins
<1>3. ASSUME NEW t \in HolderTasks, Holder!Restart(t) PROVE ShownInv'
  BY <1>1, <1>3, OpenedRest DEF Holder!Restart
<1>4. ASSUME NEW t \in HolderTasks, Holder!Login(t) \/ Holder!Logout(t) \/ Holder!Request(t) \/ Holder!Answers(t) PROVE ShownInv'
  <2>1. m_task[t].op # "retry"
    BY <1>1, Stands
  <2>2. ~Holder!RetryRead(t)
    BY <2>1 DEF Holder!RetryRead
  <2> QED
    BY <1>1, <1>4, <2>2, LoginRest, LogoutRest, RequestRest, RestoreReadRest, RequestReadRest,
       TokenStoredRest, ClearedRest, LoginAcceptedRest, RefusedRest, MeRest, AnsweredRest
       DEF Holder!Answers
<1>5. \A t \in HolderTasks : ~Holder!Retry(t)
  BY DEF Holder!Retry, Holder!May
<1> QED
  BY <1>1, <1>2, <1>3, <1>4, <1>5 DEF Holder!Next, HolderInv

\* What the invariant says of the session that is shown.
LEMMA HolderShows ==
  ASSUME HolderInv
  PROVE  Holder!LogoutWins /\ Holder!CacheIsOfTheHolder /\ Holder!StoredIsShown /\ Holder!HeldIsShown
<1>1. KeptInv /\ ShownInv
  BY DEF HolderInv
<1>2. Holder!LogoutWins /\ Holder!CacheIsOfTheHolder /\ Holder!HeldIsShown
  BY <1>1 DEF ShownInv, HeldIsKept, Holder!HeldIsShown
<1>3. Holder!StoredIsShown
  <2> SUFFICES ASSUME state.is = "authenticated", queue = << >> PROVE storage = state.of
    BY DEF Holder!StoredIsShown
  <2>1. \A u \in HolderTasks : ~Holder!Waits(u)
    BY DEF Holder!Waits
  <2>2. Clearing = {}
    BY <1>1, <2>1 DEF ShownInv, QueueIsOfWaiting, Clearing
  <2> QED
    BY <1>1, <2>2 DEF ShownInv, HeldIsKept, Holder!Authenticated
<1> QED
  BY <1>2, <1>3

\* Where nobody retries, what is shown, held, kept and cached is of one session,
\* but for what the secure store refused to delete, and what is under way when a
\* session begins or ends changes none of it.
THEOREM HolderInvariant ==
  ASSUME Holder!SessionAssumption, "retry" \notin HolderOps
  PROVE  Holder!Spec => []HolderInv
<1>1. Holder!Init => HolderInv
  BY InitHolder DEF Holder!SessionAssumption
<1>2. HolderInv /\ [Holder!Next]_(Holder!vars) => HolderInv'
  BY NextHolder DEF Holder!SessionAssumption
<1> QED
  BY <1>1, <1>2, PTL DEF Holder!Spec

\* The four properties of the session that is shown, where nobody retries and
\* whatever the secure store fails to do: a closed session is neither shown nor
\* held before a start opens it again, the cache is of the holder who is shown or
\* of a session the store refused to delete, the token in memory is of the
\* session shown, and that session is the one the store opens the next time.
THEOREM ShownSessionIsTheHolders ==
  ASSUME Holder!SessionAssumption, "retry" \notin HolderOps
  PROVE  Holder!Spec => /\ []Holder!LogoutWins /\ []Holder!CacheIsOfTheHolder
                        /\ []Holder!StoredIsShown /\ []Holder!HeldIsShown
<1>1. Holder!Spec => []HolderInv
  BY HolderInvariant
<1>2. HolderInv => Holder!LogoutWins /\ Holder!CacheIsOfTheHolder /\ Holder!StoredIsShown /\ Holder!HeldIsShown
  BY HolderShows
<1> QED
  BY <1>1, <1>2, PTL

=============================================================================
