---------------------- MODULE CredentialAnchoringProofs ----------------------
(***************************************************************************)
(* Proofs about CredentialAnchoring, for any credentials, issuers,         *)
(* profiles, tasks and requests: types and lanes (part 1), the database,   *)
(* the chain and the history (2), the gate on the key (3), the nonces (4), *)
(* the life cycle (5).                                                     *)
(***************************************************************************)
EXTENDS CredentialAnchoring, SequenceTheorems, TLAPS

-----------------------------------------------------------------------------
(* Part 1: types, and who holds a lane.                                      *)

\* Which kind of request is at which step.
StepFor(q, s) ==
  /\ s = "prepared" => q \in Issuances
  /\ s \in {"classifying", "reclassifying", "persisting"} => q \in Revocations
  /\ s = "scanning" => q \in Reconciliations
  /\ s \in {"entering", "queued"} \cup InLane => q \in Writers
  /\ s = "finalizing" => q \notin Revocations

\* Past "idle" a request has a signer.
StepOK ==
  \A q \in Requests :
    /\ pc[q] # "idle" => signer[q] \in Profiles
    /\ StepFor(q, pc[q])

\* A writer past the gate is the head of its lane: no two of them share one.
HolderOK == \A q \in Requests : pc[q] \in InLane => AtHead(q)

\* A record that exists names the anchor of its intent.
AnchorOK == \A c \in Credentials : record[c].status # "none" => record[c].anchor \in Profiles

LaneInv == TypeOK /\ StepOK /\ HolderOK /\ AnchorOK

\* What TypeOK says of the requests, and what it says of everything else.
RequestsOK ==
  /\ pc \in [Requests -> Steps]
  /\ signer \in [Requests -> Profiles \cup {NoProfile}]
  /\ txOf \in [Requests -> Tx \cup {NoTx}]

DatabaseOK ==
  /\ profileStatus \in [Profiles -> {"active", "retired", "compromised"}]
  /\ anchorOf \in [Issuers -> Profiles]
  /\ credential \in [Credentials -> {"draft", "issued", "revoked"}]
  /\ record \in [Credentials -> Record]

ChainOK ==
  /\ registered \in [Credentials -> Tx \cup {NoTx}]
  /\ revoked \in [Credentials -> Tx \cup {NoTx}]
  /\ mined \in [Profiles -> Nat]
  /\ pool \subseteq Tx /\ inflight \subseteq Tx

QueuesOK == queue \in [Tasks -> [Profiles -> Seq(Writers)]]

MemoryOK ==
  /\ uncertain \in [Tasks -> SUBSET Profiles]
  /\ nextNonce \in [Tasks -> [Profiles -> Nat \cup {Unset}]]

HistoryOK ==
  /\ attempts \subseteq Tx
  /\ lateSends \in [Tasks -> [Profiles -> Nat]]

LEMMA TypeParts ==
  TypeOK <=> RequestsOK /\ DatabaseOK /\ ChainOK /\ QueuesOK /\ MemoryOK /\ HistoryOK
  BY DEF TypeOK, RequestsOK, DatabaseOK, ChainOK, QueuesOK, MemoryOK, HistoryOK

USE RequestAssumption, ValueAssumption

LEMMA LaneInit == Init => LaneInv
  BY DEF Init, LaneInv, TypeOK, StepOK, StepFor, HolderOK, AnchorOK, NoRecord, Record,
         InLane, Steps, Writers, Requests, Unset

\* Every request is about a credential and runs in a task.
LEMMA RequestParts ==
  ASSUME NEW q \in Requests
  PROVE  Cred(q) \in Credentials /\ TaskOf[q] \in Tasks
  BY DEF Cred

\* What Goto does: it moves q alone, and a request keeps its signer and its
\* transaction unless it ends.
LEMMA GotoMoves ==
  ASSUME RequestsOK, NEW q \in Requests, NEW s \in Steps, Goto(q, s)
  PROVE  /\ RequestsOK'
         /\ pc'[q] = s
         /\ s # "idle" => signer'[q] = signer[q] /\ txOf'[q] = txOf[q]
         /\ \A r \in Requests \ {q} :
              pc'[r] = pc[r] /\ signer'[r] = signer[r] /\ txOf'[r] = txOf[r]
  BY DEF Goto, RequestsOK

\* A request that goes on from a step where it has a signer.
LEMMA GotoSteps ==
  ASSUME RequestsOK, StepOK, NEW q \in Requests, NEW s \in Steps, Goto(q, s),
         signer[q] \in Profiles, StepFor(q, s)
  PROVE  RequestsOK' /\ StepOK'
  <1>1. RequestsOK'
    BY GotoMoves
  <1>2. ASSUME NEW r \in Requests
        PROVE  (pc'[r] # "idle" => signer'[r] \in Profiles) /\ StepFor(r, pc'[r])
    <2>1. CASE r = q
      BY <2>1, GotoMoves
    <2>2. CASE r # q
      <3>1. pc'[r] = pc[r] /\ signer'[r] = signer[r]
        BY <2>2, GotoMoves
      <3>2. QED BY <3>1 DEF StepOK
    <2>3. QED BY <2>1, <2>2
  <1>3. StepOK'
    BY <1>2 DEF StepOK, StepFor
  <1>4. QED BY <1>1, <1>3

\* A request that leaves the lanes alone, and stays out of them or is at the
\* head of its own.
LEMMA GotoHolders ==
  ASSUME RequestsOK, HolderOK, NEW q \in Requests, NEW s \in Steps, Goto(q, s),
         queue' = queue, s \in InLane => AtHead(q)
  PROVE  HolderOK'
  <1> SUFFICES ASSUME NEW r \in Requests, pc'[r] \in InLane
               PROVE  AtHead(r)'
    BY DEF HolderOK, InLane
  <1>1. CASE r = q
    <2>1. s \in InLane /\ signer'[q] = signer[q]
      BY <1>1, GotoMoves DEF InLane
    <2>2. QED BY <1>1, <2>1 DEF AtHead, Lane
  <1>2. CASE r # q
    <2>1. pc[r] \in InLane /\ signer'[r] = signer[r]
      BY <1>2, GotoMoves
    <2>2. AtHead(r)
      BY <2>1 DEF HolderOK
    <2>3. QED BY <2>1, <2>2 DEF AtHead, Lane
  <1>3. QED BY <1>1, <1>2

\* The whole of LaneInv after a step of a request that moves with Goto and
\* does not touch the queues.
LEMMA LaneGoto ==
  ASSUME LaneInv, NEW q \in Requests, NEW s \in Steps, Goto(q, s), queue' = queue,
         signer[q] \in Profiles, StepFor(q, s), s \in InLane => AtHead(q),
         DatabaseOK', ChainOK', MemoryOK', HistoryOK', AnchorOK'
  PROVE  LaneInv'
  <1>1. RequestsOK /\ StepOK /\ HolderOK /\ QueuesOK
    BY TypeParts DEF LaneInv
  <1>2. RequestsOK' /\ StepOK'
    BY <1>1, GotoSteps
  <1>3. HolderOK'
    BY <1>1, GotoHolders
  <1>4. QueuesOK'
    BY <1>1 DEF QueuesOK
  <1>5. TypeOK'
    BY <1>2, <1>4 DEF TypeOK, RequestsOK, DatabaseOK, ChainOK, QueuesOK, MemoryOK, HistoryOK
  <1>6. QED BY <1>2, <1>3, <1>5 DEF LaneInv

\* The parts of LaneInv about variables that a step leaves alone.
LEMMA PartsKept ==
  ASSUME LaneInv
  PROVE  /\ UNCHANGED db => DatabaseOK' /\ AnchorOK'
         /\ UNCHANGED chain => ChainOK'
         /\ UNCHANGED <<uncertain, nextNonce>> => MemoryOK'
         /\ UNCHANGED history => HistoryOK'
         /\ UNCHANGED queue => QueuesOK'
         /\ UNCHANGED reqs => RequestsOK' /\ StepOK'
         /\ UNCHANGED reqs /\ UNCHANGED queue => HolderOK'
  <1>1. DatabaseOK /\ ChainOK /\ MemoryOK /\ HistoryOK /\ QueuesOK /\ RequestsOK
    BY TypeParts DEF LaneInv
  <1>2. UNCHANGED db => DatabaseOK' /\ AnchorOK'
    BY <1>1 DEF LaneInv, db, DatabaseOK, AnchorOK
  <1>3. UNCHANGED chain => ChainOK'
    BY <1>1 DEF chain, ChainOK
  <1>4. UNCHANGED <<uncertain, nextNonce>> => MemoryOK'
    BY <1>1 DEF MemoryOK
  <1>5. UNCHANGED history => HistoryOK'
    BY <1>1 DEF history, HistoryOK
  <1>6. UNCHANGED queue => QueuesOK'
    BY <1>1 DEF QueuesOK
  <1>7. UNCHANGED reqs => RequestsOK' /\ StepOK'
    BY <1>1 DEF LaneInv, reqs, RequestsOK, StepOK, StepFor
  <1>8. UNCHANGED reqs /\ UNCHANGED queue => HolderOK'
    BY DEF LaneInv, reqs, HolderOK, AtHead, Lane
  <1>9. QED BY <1>2, <1>3, <1>4, <1>5, <1>6, <1>7, <1>8

\* The beginnings of a request: it resolves a signer and takes its first step.
LEMMA LaneBegins ==
  ASSUME LaneInv, NEW q \in Requests, NEW p \in Profiles, NEW s \in Steps \ InLane,
         pc[q] = "idle", StepFor(q, s),
         pc' = [pc EXCEPT ![q] = s], signer' = [signer EXCEPT ![q] = p],
         UNCHANGED <<db, chain, lanes, txOf, history>>
  PROVE  LaneInv'
  <1>1. RequestsOK /\ StepOK /\ HolderOK
    BY TypeParts DEF LaneInv
  <1>2. RequestsOK'
    BY <1>1 DEF RequestsOK
  <1>3. StepOK'
    BY <1>1 DEF RequestsOK, StepOK, StepFor
  <1>4. HolderOK'
    <2> SUFFICES ASSUME NEW r \in Requests, pc'[r] \in InLane
                 PROVE  AtHead(r)'
      BY DEF HolderOK
    <2>1. r # q
      BY <1>1 DEF RequestsOK
    <2>2. pc[r] \in InLane /\ signer'[r] = signer[r] /\ queue' = queue
      BY <1>1, <2>1 DEF RequestsOK, lanes
    <2>3. QED BY <1>1, <2>2 DEF HolderOK, AtHead, Lane
  <1>5. DatabaseOK' /\ ChainOK' /\ QueuesOK' /\ MemoryOK' /\ HistoryOK' /\ AnchorOK'
    BY PartsKept DEF lanes
  <1>6. TypeOK'
    BY <1>2, <1>5 DEF TypeOK, RequestsOK, DatabaseOK, ChainOK, QueuesOK, MemoryOK, HistoryOK
  <1>7. QED BY <1>3, <1>4, <1>5, <1>6 DEF LaneInv

LEMMA LaneStarts ==
  ASSUME LaneInv, NEW q \in Requests, PrepareIssue(q) \/ StartRevoke(q) \/ StartReconcile(q)
  PROVE  LaneInv'
  <1>1. CASE PrepareIssue(q)
    <2> DEFINE p == anchorOf[IssuerOf[Cred(q)]]
    <2>1. p \in Profiles
      BY RequestParts DEF LaneInv, TypeOK
    <2>2. "prepared" \in Steps \ InLane /\ StepFor(q, "prepared")
      BY <1>1 DEF PrepareIssue, Steps, InLane, StepFor
    <2>3. QED BY <1>1, <2>1, <2>2, LaneBegins DEF PrepareIssue
  <1>2. CASE StartRevoke(q)
    <2> DEFINE p == record[Cred(q)].anchor
    <2>1. p \in Profiles
      BY <1>2, RequestParts DEF StartRevoke, Revocable, LaneInv, AnchorOK
    <2>2. "classifying" \in Steps \ InLane /\ StepFor(q, "classifying")
      BY <1>2 DEF StartRevoke, Steps, InLane, StepFor
    <2>3. QED BY <1>2, <2>1, <2>2, LaneBegins DEF StartRevoke, SignerOfRevocation
  <1>3. CASE StartReconcile(q)
    <2> DEFINE p == record[Cred(q)].anchor
    <2>1. p \in Profiles
      BY <1>3, RequestParts DEF StartReconcile, LaneInv, AnchorOK
    <2>2. "scanning" \in Steps \ InLane /\ StepFor(q, "scanning")
      BY <1>3 DEF StartReconcile, Steps, InLane, StepFor
    <2>3. QED BY <1>3, <2>1, <2>2, LaneBegins DEF StartReconcile
  <1>4. QED BY <1>1, <1>2, <1>3

\* A request past "idle" has a signer and fits its step.
LEMMA StepFacts ==
  ASSUME LaneInv, NEW q \in Requests, pc[q] # "idle"
  PROVE  signer[q] \in Profiles /\ StepFor(q, pc[q])
  BY DEF LaneInv, StepOK

\* The steps that only move the request.
LEMMA LaneMoves ==
  ASSUME LaneInv, NEW q \in Requests,
         \/ ClassifyActive(q) \/ ClassifyRevoked(q) \/ Reclassify(q)
         \/ RequestError(q) \/ Gate(q) \/ Preflight(q)
  PROVE  LaneInv'
  <1>1. PICK s \in Steps : /\ Goto(q, s) /\ pc[q] # "idle"
                           /\ StepFor(q, pc[q]) => StepFor(q, s)
                           /\ s \in InLane => pc[q] \in InLane \/ AtHead(q)
    <2>1. CASE ClassifyActive(q)
      BY <2>1 DEF ClassifyActive, Steps, StepFor, InLane, Writers
    <2>2. CASE ClassifyRevoked(q)
      BY <2>2 DEF ClassifyRevoked, Steps, StepFor, InLane
    <2>3. CASE Reclassify(q)
      BY <2>3 DEF Reclassify, Steps, StepFor, InLane
    <2>4. CASE RequestError(q)
      BY <2>4 DEF RequestError, Steps, StepFor, InLane
    <2>5. CASE Gate(q)
      BY <2>5 DEF Gate, GatePasses, Steps, StepFor, InLane
    <2>6. CASE Preflight(q)
      BY <2>6 DEF Preflight, Steps, StepFor, InLane
    <2>7. QED BY <2>1, <2>2, <2>3, <2>4, <2>5, <2>6
  <1>2. UNCHANGED <<db, chain, lanes, history>>
    BY DEF ClassifyActive, ClassifyRevoked, Reclassify, RequestError, Gate, Preflight
  <1>3. signer[q] \in Profiles /\ StepFor(q, s)
    BY <1>1, StepFacts
  <1>4. s \in InLane => AtHead(q)
    BY <1>1 DEF LaneInv, HolderOK
  <1>5. QED BY <1>1, <1>2, <1>3, <1>4, PartsKept, LaneGoto DEF lanes

\* The steps that write to the database.
LEMMA LaneDatabase ==
  ASSUME LaneInv, NEW q \in Requests, CommitIssue(q) \/ Finalize(q) \/ PersistRevocation(q)
  PROVE  LaneInv'
  <1> DEFINE s == IF CommitIssue(q) THEN "entering" ELSE "idle"
  <1>1. /\ Goto(q, s) /\ s \in Steps \ InLane /\ pc[q] # "idle"
        /\ StepFor(q, pc[q]) => StepFor(q, s)
    <2>1. CASE CommitIssue(q)
      BY <2>1 DEF CommitIssue, Steps, StepFor, InLane, Writers
    <2>2. CASE ~CommitIssue(q)
      BY <2>2 DEF Finalize, PersistRevocation, Steps, StepFor, InLane
    <2>3. QED BY <2>1, <2>2
  <1>2. signer[q] \in Profiles /\ StepFor(q, s)
    BY <1>1, StepFacts
  <1>3. UNCHANGED <<profileStatus, anchorOf, chain, lanes, history>>
    BY DEF CommitIssue, Finalize, PersistRevocation
  <1>4. /\ credential' \in [Credentials -> {"draft", "issued", "revoked"}]
        /\ record' \in [Credentials -> Record]
        /\ AnchorOK'
    <2> USE DEF LaneInv, TypeOK, AnchorOK, Record
    <2>1. CASE CommitIssue(q)
      BY <2>1, <1>2, RequestParts DEF CommitIssue
    <2>2. CASE Finalize(q)
      BY <2>2, RequestParts DEF Finalize, Finalizable
    <2>3. CASE PersistRevocation(q)
      <3>1. CASE credential[Cred(q)] = "issued"
        <4>1. credential' = [credential EXCEPT ![Cred(q)] = "revoked"]
          BY <2>3, <3>1 DEF PersistRevocation
        <4>2. \/ record' = record
              \/ record' = [record EXCEPT ![Cred(q)] =
                            [status |-> "revoked", anchor |-> @.anchor, tx |-> @.tx]]
                 /\ record[Cred(q)].status = "registered"
          BY <2>3, <3>1 DEF PersistRevocation
        <4>3. CASE record' = record
          BY <4>1, <4>3, RequestParts
        <4>4. CASE record' # record
          <5> DEFINE r == [status |-> "revoked", anchor |-> record[Cred(q)].anchor,
                           tx |-> record[Cred(q)].tx]
          <5>1. record[Cred(q)] \in Record /\ record[Cred(q)].anchor \in Profiles
            BY <4>2, <4>4, RequestParts
          <5>2. r \in Record
            BY <5>1
          <5>3. record' = [record EXCEPT ![Cred(q)] = r]
            BY <4>2, <4>4
          <5>4. r.anchor \in Profiles
            BY <5>1
          <5> HIDE DEF r
          <5>5. QED BY <4>1, <5>2, <5>3, <5>4, RequestParts
        <4>5. QED BY <4>3, <4>4
      <3>2. CASE credential[Cred(q)] # "issued"
        BY <2>3, <3>2 DEF PersistRevocation
      <3>3. QED BY <3>1, <3>2
    <2>4. QED BY <2>1, <2>2, <2>3
  <1>5. DatabaseOK'
    BY <1>3, <1>4 DEF LaneInv, TypeOK, DatabaseOK
  <1>6. QED BY <1>1, <1>2, <1>3, <1>4, <1>5, PartsKept, LaneGoto DEF lanes

LEMMA LaneScan ==
  ASSUME LaneInv, NEW q \in Requests, Scan(q)
  PROVE  LaneInv'
  <1>1. DatabaseOK' /\ ChainOK' /\ QueuesOK' /\ MemoryOK' /\ HistoryOK' /\ AnchorOK'
    BY PartsKept DEF Scan, lanes
  <1>2. RequestsOK'
    BY RequestParts DEF Scan, LaneInv, TypeOK, RequestsOK, Steps
  <1>3. StepOK'
    BY DEF Scan, LaneInv, TypeOK, StepOK, StepFor, Requests, Writers, InLane
  <1>4. HolderOK'
    BY DEF Scan, LaneInv, TypeOK, HolderOK, AtHead, Lane, InLane, lanes
  <1>5. TypeOK'
    BY <1>1, <1>2 DEF TypeOK, RequestsOK, DatabaseOK, ChainOK, QueuesOK, MemoryOK, HistoryOK
  <1>6. QED BY <1>1, <1>3, <1>4, <1>5 DEF LaneInv

\* Entering appends to the lane, so the head stays where it was.
LEMMA LaneEnter ==
  ASSUME LaneInv, NEW q \in Requests, EnterLane(q)
  PROVE  LaneInv'
  <1> DEFINE t == TaskOf[q]
             p == signer[q]
  <1>1. /\ pc[q] = "entering" /\ Goto(q, "queued")
        /\ queue' = [queue EXCEPT ![t][p] = Append(@, q)]
        /\ UNCHANGED <<db, chain, uncertain, nextNonce, history>>
    BY DEF EnterLane
  <1>2. t \in Tasks /\ p \in Profiles /\ q \in Writers
    BY <1>1, StepFacts, RequestParts DEF StepFor
  <1>3. queue[t][p] \in Seq(Writers)
    BY <1>2 DEF LaneInv, TypeOK
  <1>4. Append(queue[t][p], q) \in Seq(Writers)
    BY <1>2, <1>3
  <1>5. QueuesOK'
    BY <1>1, <1>2, <1>4 DEF LaneInv, TypeOK, QueuesOK
  <1>6. DatabaseOK' /\ ChainOK' /\ MemoryOK' /\ HistoryOK' /\ AnchorOK'
    BY <1>1, PartsKept
  <1>7. "queued" \in Steps \ InLane /\ StepFor(q, "queued")
    BY <1>2 DEF Steps, InLane, StepFor
  <1>8. RequestsOK /\ StepOK
    BY TypeParts DEF LaneInv
  <1>9. RequestsOK' /\ StepOK'
    BY <1>1, <1>2, <1>7, <1>8, GotoSteps
  <1>10. HolderOK'
    <2> SUFFICES ASSUME NEW r \in Requests, pc'[r] \in InLane
                 PROVE  AtHead(r)'
      BY DEF HolderOK
    <2>1. r # q /\ pc[r] \in InLane /\ signer'[r] = signer[r]
      BY <1>1, <1>7, <1>8, GotoMoves
    <2>2. AtHead(r) /\ TaskOf[r] \in Tasks /\ signer[r] \in Profiles
      BY <2>1, StepFacts, RequestParts DEF LaneInv, HolderOK, InLane
    <2>3. CASE TaskOf[r] = t /\ signer[r] = p
      <3>1. queue'[t][p] = Append(queue[t][p], q)
        BY <1>1, <1>2 DEF LaneInv, TypeOK
      <3>2. queue[t][p] # <<>> /\ Head(queue[t][p]) = r
        BY <2>2, <2>3 DEF AtHead, Lane
      <3>3. queue'[t][p] # <<>> /\ Head(queue'[t][p]) = r
        BY <1>2, <1>3, <3>1, <3>2, AppendProperties
      <3>4. QED BY <2>1, <2>3, <3>3 DEF AtHead, Lane
    <2>4. CASE ~(TaskOf[r] = t /\ signer[r] = p)
      <3>1. queue'[TaskOf[r]][signer[r]] = queue[TaskOf[r]][signer[r]]
        BY <1>1, <1>2, <2>2, <2>4 DEF LaneInv, TypeOK
      <3>2. QED BY <2>1, <2>2, <3>1 DEF AtHead, Lane
    <2>5. QED BY <2>3, <2>4
  <1>11. TypeOK'
    BY <1>5, <1>6, <1>9
       DEF TypeOK, RequestsOK, DatabaseOK, ChainOK, QueuesOK, MemoryOK, HistoryOK
  <1>12. QED BY <1>6, <1>9, <1>10, <1>11 DEF LaneInv

\* Whoever leaves a lane was its head, and nobody else of that lane had passed
\* the gate: what ReleaseLane and the end of a write do to the parts.
LEMMA LaneReleased ==
  ASSUME LaneInv, NEW q \in Requests, NEW s \in Steps \ InLane, Goto(q, s),
         ReleaseLane(q), AtHead(q), q \in Writers, signer[q] \in Profiles, StepFor(q, s)
  PROVE  QueuesOK' /\ RequestsOK' /\ StepOK' /\ HolderOK'
  <1> DEFINE t == TaskOf[q]
             p == signer[q]
  <1>1. t \in Tasks /\ p \in Profiles
    BY RequestParts
  <1>2. queue[t][p] \in Seq(Writers) /\ queue[t][p] # <<>>
    BY <1>1 DEF LaneInv, TypeOK, AtHead, Lane
  <1>3. Tail(queue[t][p]) \in Seq(Writers)
    BY <1>2
  <1>4. queue' = [queue EXCEPT ![t][p] = Tail(@)]
    BY DEF ReleaseLane
  <1>5. QueuesOK'
    BY <1>1, <1>3, <1>4 DEF LaneInv, TypeOK, QueuesOK
  <1>6. RequestsOK /\ StepOK
    BY TypeParts DEF LaneInv
  <1>7. RequestsOK' /\ StepOK'
    BY <1>6, GotoSteps
  <1>8. HolderOK'
    <2> SUFFICES ASSUME NEW r \in Requests, pc'[r] \in InLane
                 PROVE  AtHead(r)'
      BY DEF HolderOK
    <2>1. r # q /\ pc[r] \in InLane /\ signer'[r] = signer[r]
      BY <1>6, GotoMoves
    <2>2. AtHead(r) /\ TaskOf[r] \in Tasks /\ signer[r] \in Profiles
      BY <2>1, StepFacts, RequestParts DEF LaneInv, HolderOK, InLane
    <2>3. ~(TaskOf[r] = t /\ signer[r] = p)
      BY <2>1, <2>2 DEF AtHead, Lane
    <2>4. queue'[TaskOf[r]][signer[r]] = queue[TaskOf[r]][signer[r]]
      BY <1>1, <1>4, <2>2, <2>3 DEF LaneInv, TypeOK
    <2>5. QED BY <2>1, <2>2, <2>4 DEF AtHead, Lane
  <1>9. QED BY <1>5, <1>7, <1>8

\* The steps that end a write without sending.
LEMMA LaneLeft ==
  ASSUME LaneInv, NEW q \in Requests,
         SkipRevoked(q) \/ ReceiptConfirmed(q) \/ WriteFailed(q) \/ GateRefused(q)
  PROVE  LaneInv'
  <1>1. /\ pc[q] # "idle" /\ AtHead(q) /\ ReleaseLane(q)
        /\ UNCHANGED <<db, chain, uncertain, nextNonce, history>>
    BY DEF SkipRevoked, ReceiptConfirmed, WriteFailed, GateRefused, LaneInv, HolderOK, InLane
  <1>2. q \in Writers /\ signer[q] \in Profiles
    BY StepFacts DEF SkipRevoked, ReceiptConfirmed, WriteFailed, GateRefused, StepFor, InLane
  <1>3. PICK s \in Steps \ InLane : Goto(q, s) /\ StepFor(q, s)
    <2>1. CASE SkipRevoked(q)
      BY <2>1 DEF SkipRevoked, Steps, InLane, StepFor
    <2>2. CASE ReceiptConfirmed(q)
      BY <1>2, <2>2 DEF ReceiptConfirmed, Steps, InLane, StepFor, Writers
    <2>3. CASE WriteFailed(q)
      BY <1>2, <2>3 DEF WriteFailed, AfterFailure, Steps, InLane, StepFor, Writers
    <2>4. CASE GateRefused(q)
      BY <2>4 DEF GateRefused, Steps, InLane, StepFor
    <2>5. QED BY <2>1, <2>2, <2>3, <2>4
  <1>4. QueuesOK' /\ RequestsOK' /\ StepOK' /\ HolderOK'
    BY <1>1, <1>2, <1>3, LaneReleased
  <1>5. DatabaseOK' /\ ChainOK' /\ MemoryOK' /\ HistoryOK' /\ AnchorOK'
    BY <1>1, PartsKept
  <1>6. TypeOK'
    BY <1>4, <1>5 DEF TypeOK, RequestsOK, DatabaseOK, ChainOK, QueuesOK, MemoryOK, HistoryOK
  <1>7. QED BY <1>4, <1>5, <1>6 DEF LaneInv

\* An attempt to send keeps the types of the nonces and of the histories.
LEMMA AttemptTypes ==
  ASSUME LaneInv, NEW q \in Requests, NEW n \in Nat, Attempt(q, n)
  PROVE  /\ [acct |-> signer[q], nonce |-> n, op |-> Op(q), cred |-> Cred(q)] \in Tx
         /\ signer[q] \in Profiles /\ q \in Writers /\ AtHead(q) /\ pc[q] = "sending"
         /\ nextNonce' \in [Tasks -> [Profiles -> Nat \cup {Unset}]]
         /\ HistoryOK'
  <1>1. pc[q] = "sending"
    BY DEF Attempt
  <1>2. signer[q] \in Profiles /\ q \in Writers /\ AtHead(q)
    BY <1>1, StepFacts DEF StepFor, InLane, LaneInv, HolderOK
  <1>3. [acct |-> signer[q], nonce |-> n, op |-> Op(q), cred |-> Cred(q)] \in Tx
    BY <1>2, RequestParts DEF Tx, Op
  <1>4. nextNonce' \in [Tasks -> [Profiles -> Nat \cup {Unset}]]
    BY <1>2, RequestParts DEF Attempt, LaneInv, TypeOK
  <1>5. attempts' \subseteq Tx
    BY <1>3 DEF Attempt, LaneInv, TypeOK
  <1>6. lateSends' \in [Tasks -> [Profiles -> Nat]]
    <2> DEFINE t == TaskOf[q]
               p == signer[q]
    <2>1. t \in Tasks /\ lateSends[t][p] + 1 \in Nat
      BY <1>2, RequestParts DEF LaneInv, TypeOK
    <2>2. lateSends' \in {lateSends, [lateSends EXCEPT ![t][p] = lateSends[t][p] + 1]}
      BY DEF Attempt
    <2> HIDE DEF t, p
    <2>3. [lateSends EXCEPT ![t][p] = lateSends[t][p] + 1] \in [Tasks -> [Profiles -> Nat]]
      BY <2>1 DEF LaneInv, TypeOK
    <2>4. QED BY <2>2, <2>3 DEF LaneInv, TypeOK
  <1>7. QED BY <1>1, <1>2, <1>3, <1>4, <1>5, <1>6 DEF HistoryOK

LEMMA LaneSendAccepted ==
  ASSUME LaneInv, NEW q \in Requests, NEW n \in Nat, SendAccepted(q, n)
  PROVE  LaneInv'
  <1> DEFINE tx == [acct |-> signer[q], nonce |-> n, op |-> Op(q), cred |-> Cred(q)]
  <1>1. /\ Attempt(q, n) /\ pool' = PoolWith(tx) /\ txOf' = [txOf EXCEPT ![q] = tx]
        /\ pc' = [pc EXCEPT ![q] = "waiting"]
        /\ UNCHANGED <<db, registered, revoked, mined, inflight, queue, uncertain, signer>>
    BY DEF SendAccepted
  <1>2. /\ tx \in Tx /\ signer[q] \in Profiles /\ q \in Writers /\ AtHead(q)
        /\ pc[q] = "sending" /\ HistoryOK'
        /\ nextNonce' \in [Tasks -> [Profiles -> Nat \cup {Unset}]]
    BY <1>1, AttemptTypes
  <1> HIDE DEF tx
  <1>3. ChainOK'
    BY <1>1, <1>2 DEF LaneInv, TypeOK, ChainOK, PoolWith
  <1>4. RequestsOK'
    BY <1>1, <1>2 DEF LaneInv, TypeOK, RequestsOK, Steps, InLane
  <1>5. StepOK'
    BY <1>1, <1>2 DEF LaneInv, TypeOK, StepOK, StepFor, InLane
  <1>6. HolderOK'
    BY <1>1, <1>2 DEF LaneInv, TypeOK, HolderOK, AtHead, Lane
  <1>7. DatabaseOK' /\ QueuesOK' /\ AnchorOK'
    BY <1>1, PartsKept
  <1>8. MemoryOK'
    BY <1>1, <1>2 DEF LaneInv, TypeOK, MemoryOK
  <1>9. TypeOK'
    BY <1>2, <1>3, <1>4, <1>7, <1>8
       DEF TypeOK, RequestsOK, DatabaseOK, ChainOK, QueuesOK, MemoryOK, HistoryOK
  <1>10. QED BY <1>5, <1>6, <1>7, <1>9 DEF LaneInv

LEMMA LaneSendThrew ==
  ASSUME LaneInv, NEW q \in Requests, NEW n \in Nat, SendThrew(q, n)
  PROVE  LaneInv'
  <1> DEFINE tx == [acct |-> signer[q], nonce |-> n, op |-> Op(q), cred |-> Cred(q)]
  <1>1. /\ Attempt(q, n) /\ inflight' \in {inflight, inflight \cup {tx}}
        /\ uncertain' = [uncertain EXCEPT ![TaskOf[q]] = @ \cup {signer[q]}]
        /\ ReleaseLane(q) /\ Goto(q, AfterFailure(q))
        /\ UNCHANGED <<db, registered, revoked, mined, pool>>
    BY DEF SendThrew, Latch
  <1>2. /\ tx \in Tx /\ signer[q] \in Profiles /\ q \in Writers /\ AtHead(q)
        /\ HistoryOK' /\ nextNonce' \in [Tasks -> [Profiles -> Nat \cup {Unset}]]
    BY <1>1, AttemptTypes
  <1> HIDE DEF tx
  <1>3. AfterFailure(q) \in Steps \ InLane /\ StepFor(q, AfterFailure(q))
    BY <1>2 DEF AfterFailure, Steps, InLane, StepFor, Writers
  <1>4. QueuesOK' /\ RequestsOK' /\ StepOK' /\ HolderOK'
    BY <1>1, <1>2, <1>3, LaneReleased
  <1>5. ChainOK'
    BY <1>1, <1>2 DEF LaneInv, TypeOK, ChainOK
  <1>6. MemoryOK'
    BY <1>1, <1>2, RequestParts DEF LaneInv, TypeOK, MemoryOK
  <1>7. DatabaseOK' /\ AnchorOK'
    BY <1>1, PartsKept
  <1>8. TypeOK'
    BY <1>2, <1>4, <1>5, <1>6, <1>7
       DEF TypeOK, RequestsOK, DatabaseOK, ChainOK, QueuesOK, MemoryOK, HistoryOK
  <1>9. QED BY <1>4, <1>7, <1>8 DEF LaneInv

LEMMA LaneEnvironment ==
  ASSUME LaneInv, Environment
  PROVE  LaneInv'
  <1> USE DEF TypeOK, RequestsOK, DatabaseOK, ChainOK, QueuesOK, MemoryOK, HistoryOK
  <1>1. ASSUME NEW i \in Issuers, NEW p \in Profiles, RotateAnchor(i, p)
        PROVE  LaneInv'
    <2>1. DatabaseOK' /\ AnchorOK'
      BY <1>1 DEF RotateAnchor, LaneInv, AnchorOK
    <2>2. UNCHANGED <<chain, lanes, reqs, history>>
      BY <1>1 DEF RotateAnchor
    <2>3. QED BY <2>1, <2>2, PartsKept DEF LaneInv, lanes
  <1>2. ASSUME NEW p \in Profiles, MarkCompromised(p)
        PROVE  LaneInv'
    <2>1. DatabaseOK' /\ AnchorOK'
      BY <1>2 DEF MarkCompromised, LaneInv, AnchorOK
    <2>2. UNCHANGED <<chain, lanes, reqs, history>>
      BY <1>2 DEF MarkCompromised
    <2>3. QED BY <2>1, <2>2, PartsKept DEF LaneInv, lanes
  <1>3. ASSUME NEW t \in Tasks, Crash(t)
        PROVE  LaneInv'
    <2>1. UNCHANGED <<db, chain, history>>
      BY <1>3 DEF Crash
    <2>2. RequestsOK'
      BY <1>3 DEF Crash, LaneInv, Steps
    <2>3. MemoryOK'
      BY <1>3 DEF Crash, LaneInv
    <2>4. QueuesOK'
      <3>1. [p \in Profiles |-> <<>>] \in [Profiles -> Seq(Writers)]
        OBVIOUS
      <3>2. queue' = [queue EXCEPT ![t] = [p \in Profiles |-> <<>>]]
        BY <1>3 DEF Crash
      <3>3. QED BY <3>1, <3>2 DEF LaneInv
    <2>5. StepOK'
      BY <1>3 DEF Crash, LaneInv, StepOK, StepFor, InLane
    <2>6. HolderOK'
      BY <1>3 DEF Crash, LaneInv, HolderOK, AtHead, Lane, InLane
    <2>7. DatabaseOK' /\ AnchorOK' /\ ChainOK' /\ HistoryOK'
      BY <2>1, PartsKept
    <2>8. QED BY <2>2, <2>3, <2>4, <2>5, <2>6, <2>7 DEF LaneInv
  <1>4. ASSUME NEW tx \in pool, Mine(tx) \/ Evict(tx)
        PROVE  LaneInv'
    <2>1. ChainOK'
      <3>1. CASE Mine(tx)
        <4>1. mined' = [mined EXCEPT ![tx.acct] = mined[tx.acct] + 1]
          BY <3>1 DEF Mine
        <4>2. mined' \in [Profiles -> Nat]
          <5> DEFINE a == tx.acct
                     n == mined[a] + 1
          <5>1. mined' = [mined EXCEPT ![a] = n] /\ mined \in [Profiles -> Nat]
            BY <4>1 DEF LaneInv
          <5>2. a \in Profiles => n \in Nat
            BY <5>1
          <5> HIDE DEF a, n
          <5>3. QED BY <5>1, <5>2
        <4>3. tx \in Tx
          BY <1>4 DEF LaneInv
        <4>4. registered' \in [Credentials -> Tx \cup {NoTx}]
          BY <3>1, <4>3 DEF Mine, LaneInv
        <4>5. revoked' \in [Credentials -> Tx \cup {NoTx}]
          BY <3>1, <4>3 DEF Mine, LaneInv
        <4>6. pool' \subseteq Tx /\ inflight' \subseteq Tx
          BY <3>1 DEF Mine, LaneInv
        <4>7. QED BY <4>2, <4>4, <4>5, <4>6
      <3>2. CASE Evict(tx)
        BY <3>2 DEF Evict, LaneInv
      <3>3. QED BY <1>4, <3>1, <3>2
    <2>2. UNCHANGED <<db, lanes, reqs, history>>
      BY <1>4 DEF Mine, Evict
    <2>3. QED BY <2>1, <2>2, PartsKept DEF LaneInv, lanes
  <1>5. ASSUME NEW tx \in inflight, Deliver(tx)
        PROVE  LaneInv'
    <2>1. ChainOK'
      BY <1>5 DEF Deliver, PoolWith, LaneInv
    <2>2. UNCHANGED <<db, lanes, reqs, history>>
      BY <1>5 DEF Deliver
    <2>3. QED BY <2>1, <2>2, PartsKept DEF LaneInv, lanes
  <1>6. ASSUME NEW c \in Credentials, RegisterByStranger(c)
        PROVE  LaneInv'
    <2>1. ChainOK'
      BY <1>6 DEF RegisterByStranger, LaneInv, Tx
    <2>2. UNCHANGED <<db, lanes, reqs, history>>
      BY <1>6 DEF RegisterByStranger
    <2>3. QED BY <2>1, <2>2, PartsKept DEF LaneInv, lanes
  <1>7. QED BY <1>1, <1>2, <1>3, <1>4, <1>5, <1>6 DEF Environment

LEMMA LaneStep ==
  ASSUME LaneInv, [Next]_vars
  PROVE  LaneInv'
  <1>1. ASSUME NEW q \in Requests, Write(q)
        PROVE  LaneInv'
    <2>1. \A n \in 0 .. MaxNonce : n \in Nat
      OBVIOUS
    <2>2. QED
      BY <1>1, <2>1, LaneEnter, LaneMoves, LaneLeft, LaneSendAccepted, LaneSendThrew
         DEF Write
  <1>2. ASSUME NEW q \in Requests, RequestStep(q)
        PROVE  LaneInv'
    BY <1>2, LaneStarts, LaneMoves, LaneDatabase, LaneScan DEF RequestStep
  <1>3. CASE UNCHANGED vars
    BY <1>3, PartsKept
       DEF vars, db, chain, lanes, reqs, history, LaneInv, TypeOK, RequestsOK, DatabaseOK,
           ChainOK, QueuesOK, MemoryOK, HistoryOK
  <1>4. QED BY <1>1, <1>2, <1>3, LaneEnvironment DEF Next

\* In every reachable state a lane has at most one writer past the gate, and
\* it is the head of the queue.
THEOREM LaneExclusive == Spec => []LaneInv
  <1>1. QED BY LaneInit, LaneStep, PTL DEF Spec

\* Type correctness of the model for any parameters.
THEOREM TypeCorrect == Spec => []TypeOK
  <1>1. LaneInv => TypeOK
    BY DEF LaneInv
  <1>2. QED BY <1>1, LaneExclusive, PTL

-----------------------------------------------------------------------------
(* Part 2: the database follows the chain, a credential is registered by one *)
(* transaction at most, every write is signed by the anchor of the record.   *)
(*                                                                           *)
(* The three properties speak of the database, the chain and the history.    *)
(* What ties them together is what every request in flight still knows to be *)
(* true (RequestSafe), although other requests, other tasks and the node     *)
(* moved since it learned it.                                                *)

\* The two columns of the database agree on the stage of a credential.
StagesAgree ==
  \A c \in Credentials :
    /\ credential[c] = "draft" <=> record[c].status = "none"
    /\ credential[c] = "revoked" <=> record[c].status = "revoked"

\* The registry holds what the contract writes, and revokes what it registered.
RegistrySound ==
  \A c \in Credentials :
    /\ registered[c] # NoTx => registered[c].op = "register" /\ registered[c].cred = c
    /\ revoked[c] # NoTx =>
         /\ revoked[c].op = "revoke" /\ revoked[c].cred = c
         /\ registered[c] # NoTx /\ revoked[c].acct = registered[c].acct

Finalized(c) == record[c].status \in {"registered", "revoked"}

\* What a request that has committed or read its intent may rely on.
RequestSafe(q) ==
  /\ pc[q] \notin {"idle", "prepared"} =>
       record[Cred(q)].status # "none" /\ signer[q] = record[Cred(q)].anchor
  /\ q \in Revocations /\ pc[q] # "idle" => Finalized(Cred(q))
  /\ pc[q] = "waiting" =>
       txOf[q] # NoTx /\ txOf[q].acct = signer[q] /\ txOf[q].op = Op(q)
  /\ pc[q] = "finalizing" =>
       txOf[q] # NoTx /\ txOf[q] = registered[Cred(q)] /\ txOf[q].acct = signer[q]
  /\ pc[q] = "persisting" => CanSeeRevoked(Cred(q), signer[q])

RequestsSafe == \A q \in Requests : RequestSafe(q)

\* An issuance that has not handed its transaction to a signer yet.
BeforeSend(q) == q \in Issuances /\ pc[q] \in {"entering", "queued", "gated", "sending"}

\* At most one issuance of a credential is before its send, and then no
\* registration of that credential was ever attempted.
OneIssuance ==
  /\ \A q, r \in Requests : BeforeSend(q) /\ BeforeSend(r) /\ Cred(q) = Cred(r) => q = r
  /\ \A q \in Requests : BeforeSend(q) =>
       \A x \in attempts : x.cred = Cred(q) => x.op # "register"

\* Nothing is attempted for a draft.
AttemptsRecorded == \A x \in attempts : record[x.cred].status # "none"

DatabaseInv == StagesAgree /\ RegistrySound /\ DatabaseFollowsChain
AttemptsInv == AttemptsRecorded /\ WritesFollowTheRecord /\ OneIssuance /\ AtMostOneRegistration

SafetyInv == LaneInv /\ DatabaseInv /\ RequestsSafe /\ AttemptsInv

LEMMA SafetyInit == Init => SafetyInv
  <1> SUFFICES ASSUME Init PROVE SafetyInv
    OBVIOUS
  <1>1. LaneInv
    BY LaneInit
  <1>2. DatabaseInv
    BY DEF Init, NoRecord, DatabaseInv, StagesAgree, RegistrySound, DatabaseFollowsChain
  <1>3. RequestsSafe
    BY DEF Init, RequestsSafe, RequestSafe
  <1>4. AttemptsInv
    BY DEF Init, AttemptsInv, AttemptsRecorded, WritesFollowTheRecord, OneIssuance,
           BeforeSend, AtMostOneRegistration
  <1>5. QED BY <1>1, <1>2, <1>3, <1>4 DEF SafetyInv

-----------------------------------------------------------------------------
(* What no step takes back.                                                  *)

\* An intent stays, with its anchor; a finalized record stays finalized.
RecordGrows ==
  \A c \in Credentials :
    /\ record[c].status # "none" =>
         record'[c].status # "none" /\ record'[c].anchor = record[c].anchor
    /\ Finalized(c) => Finalized(c)'

\* The registry only grows.
RegistryGrows ==
  \A c \in Credentials :
    /\ registered[c] # NoTx => registered'[c] = registered[c]
    /\ revoked[c] # NoTx => revoked'[c] = revoked[c]

\* Whoever does not move keeps what it relies on.
LEMMA RequestKept ==
  ASSUME NEW r \in Requests, RequestSafe(r), RecordGrows, RegistryGrows,
         pc'[r] = pc[r], signer'[r] = signer[r], txOf'[r] = txOf[r]
  PROVE  RequestSafe(r)'
  <1>1. Cred(r) \in Credentials /\ Cred(r)' = Cred(r) /\ Op(r)' = Op(r)
    BY RequestParts DEF Cred, Op
  <1>2. pc[r] = "persisting" => CanSeeRevoked(Cred(r), signer[r])'
    BY <1>1 DEF RequestSafe, RegistryGrows, CanSeeRevoked, CanSeeActive
  <1>3. pc[r] = "finalizing" => registered'[Cred(r)] = registered[Cred(r)]
    BY <1>1 DEF RequestSafe, RegistryGrows
  <1>4. /\ record[Cred(r)].status # "none" =>
             /\ record'[Cred(r)].status # "none"
             /\ record'[Cred(r)].anchor = record[Cred(r)].anchor
        /\ Finalized(Cred(r)) => Finalized(Cred(r))'
    BY <1>1 DEF RecordGrows
  <1>5. QED BY <1>1, <1>2, <1>3, <1>4 DEF RequestSafe

\* Only q moves.
Others(q) ==
  \A r \in Requests \ {q} :
    pc'[r] = pc[r] /\ signer'[r] = signer[r] /\ txOf'[r] = txOf[r]

LEMMA OneMoves ==
  ASSUME RequestsSafe, RecordGrows, RegistryGrows, NEW q \in Requests, Others(q),
         RequestSafe(q)'
  PROVE  RequestsSafe'
  <1>1. ASSUME NEW r \in Requests PROVE RequestSafe(r)'
    <2>1. CASE r = q
      BY <2>1
    <2>2. CASE r # q
      BY <2>2, RequestKept DEF RequestsSafe, Others
    <2>3. QED BY <2>1, <2>2
  <1>2. QED BY <1>1 DEF RequestsSafe

LEMMA UnchangedGrows ==
  /\ UNCHANGED db => RecordGrows
  /\ UNCHANGED chain => RegistryGrows
  BY DEF db, chain, RecordGrows, RegistryGrows, Finalized

LEMMA UnchangedDatabaseInv ==
  ASSUME DatabaseInv, UNCHANGED db, UNCHANGED chain
  PROVE  DatabaseInv'
  BY DEF DatabaseInv, StagesAgree, RegistrySound, DatabaseFollowsChain, db, chain

\* The attempts stay what they were, and nobody goes back before its send.
LEMMA AttemptsKept ==
  ASSUME LaneInv, AttemptsInv, RecordGrows, attempts' = attempts,
         \A q \in Requests : BeforeSend(q)' => BeforeSend(q)
  PROVE  AttemptsInv'
  <1>1. \A x \in attempts : x \in Tx /\ x.cred \in Credentials
    BY DEF LaneInv, TypeOK, Tx
  <1>2. AttemptsRecorded'
    BY <1>1 DEF AttemptsInv, AttemptsRecorded, RecordGrows
  <1>3. WritesFollowTheRecord'
    BY <1>1 DEF AttemptsInv, AttemptsRecorded, WritesFollowTheRecord, RecordGrows, Finalized
  <1>4. \A q \in Requests : Cred(q)' = Cred(q)
    BY DEF Cred
  <1>5. OneIssuance'
    BY <1>4 DEF AttemptsInv, OneIssuance
  <1>6. AtMostOneRegistration'
    BY DEF AttemptsInv, AtMostOneRegistration
  <1>7. QED BY <1>2, <1>3, <1>5, <1>6 DEF AttemptsInv

-----------------------------------------------------------------------------
(* One step of a request.                                                    *)

\* A request that moves with Goto, and writes neither database nor chain.
LEMMA SafeGoto ==
  ASSUME SafetyInv, LaneInv', NEW q \in Requests, NEW s \in Steps, Goto(q, s),
         UNCHANGED <<db, chain, history>>, RequestSafe(q)',
         s \in {"entering", "queued", "gated", "sending"} /\ q \in Issuances => BeforeSend(q)
  PROVE  SafetyInv'
  <1>1. /\ pc'[q] = s
        /\ \A r \in Requests \ {q} :
             pc'[r] = pc[r] /\ signer'[r] = signer[r] /\ txOf'[r] = txOf[r]
    BY GotoMoves, TypeParts DEF SafetyInv, LaneInv
  <1>2. DatabaseInv'
    BY UnchangedDatabaseInv DEF SafetyInv
  <1>3. RequestsSafe'
    BY <1>1, OneMoves, UnchangedGrows DEF SafetyInv, Others
  <1>4. AttemptsInv'
    <2>1. ASSUME NEW r \in Requests, BeforeSend(r)' PROVE BeforeSend(r)
      BY <1>1, <2>1 DEF BeforeSend
    <2>2. QED BY <2>1, AttemptsKept, UnchangedGrows DEF SafetyInv, history
  <1>5. QED BY <1>2, <1>3, <1>4 DEF SafetyInv

\* What the request that moves relied on, and what stays as it is.
LEMMA MoverFacts ==
  ASSUME SafetyInv, NEW q \in Requests
  PROVE  /\ RequestSafe(q) /\ Cred(q) \in Credentials
         /\ Cred(q)' = Cred(q) /\ Op(q)' = Op(q)
         /\ pc[q] # "idle" => signer[q] \in Profiles /\ StepFor(q, pc[q])
         /\ q \notin Reconciliations <=> q \in Writers
         /\ q \notin Revocations \/ q \notin Issuances
  BY RequestAssumption, RequestParts, StepFacts
     DEF SafetyInv, RequestsSafe, Cred, Op, Requests, Writers

LEMMA SafeMoves ==
  ASSUME SafetyInv, LaneInv', NEW q \in Requests,
         \/ ClassifyActive(q) \/ ClassifyRevoked(q) \/ Reclassify(q)
         \/ RequestError(q) \/ EnterLane(q) \/ Gate(q) \/ Preflight(q)
  PROVE  SafetyInv'
  <1>1. PICK s \in Steps :
          /\ Goto(q, s)
          /\ pc[q] \notin {"idle", "prepared"} \/ s = "idle"
          /\ s \notin {"waiting", "finalizing"}
          /\ s = "persisting" => CanSeeRevoked(Cred(q), signer[q])
          /\ s \in {"entering", "queued", "gated", "sending"} /\ q \in Issuances =>
               BeforeSend(q)
    <2>1. CASE ClassifyActive(q)
      BY <2>1, MoverFacts DEF ClassifyActive, Steps, StepFor
    <2>2. CASE ClassifyRevoked(q)
      BY <2>2 DEF ClassifyRevoked, Steps
    <2>3. CASE Reclassify(q)
      BY <2>3 DEF Reclassify, RevocationObserved, Steps
    <2>4. CASE RequestError(q)
      BY <2>4 DEF RequestError, Steps
    <2>5. CASE EnterLane(q)
      BY <2>5 DEF EnterLane, Steps, BeforeSend
    <2>6. CASE Gate(q)
      BY <2>6 DEF Gate, Steps, InLane, BeforeSend
    <2>7. CASE Preflight(q)
      BY <2>7 DEF Preflight, Steps, InLane, BeforeSend
    <2>8. QED BY <2>1, <2>2, <2>3, <2>4, <2>5, <2>6, <2>7
  <1>2. UNCHANGED <<db, chain, history>>
    BY DEF ClassifyActive, ClassifyRevoked, Reclassify, RequestError, EnterLane, Gate, Preflight
  <1>3. pc'[q] = s /\ (s # "idle" => signer'[q] = signer[q])
    BY <1>1, GotoMoves, TypeParts DEF SafetyInv, LaneInv
  <1>4. RequestSafe(q)'
    BY <1>1, <1>2, <1>3, MoverFacts
       DEF RequestSafe, Finalized, CanSeeRevoked, CanSeeActive, db, chain
  <1>5. QED BY <1>1, <1>2, <1>4, SafeGoto

LEMMA SafeLeaves ==
  ASSUME SafetyInv, LaneInv', NEW q \in Requests,
         SkipRevoked(q) \/ ReceiptConfirmed(q) \/ WriteFailed(q) \/ GateRefused(q)
  PROVE  SafetyInv'
  <1>1. PICK s \in Steps :
          /\ Goto(q, s) /\ pc[q] \in {"queued"} \cup InLane
          /\ s \in {"idle", "reclassifying", "finalizing"}
          /\ s = "finalizing" => q \in Issuances /\ ReceiptConfirmed(q)
    <2>1. CASE SkipRevoked(q)
      BY <2>1 DEF SkipRevoked, Steps, InLane
    <2>2. CASE ReceiptConfirmed(q)
      BY <2>2 DEF ReceiptConfirmed, Steps, InLane
    <2>3. CASE WriteFailed(q)
      BY <2>3 DEF WriteFailed, AfterFailure, Steps
    <2>4. CASE GateRefused(q)
      BY <2>4 DEF GateRefused, Steps, InLane
    <2>5. QED BY <2>1, <2>2, <2>3, <2>4
  <1>2. UNCHANGED <<db, chain, history>>
    BY DEF SkipRevoked, ReceiptConfirmed, WriteFailed, GateRefused
  <1>3. pc'[q] = s /\ (s # "idle" => signer'[q] = signer[q] /\ txOf'[q] = txOf[q])
    BY <1>1, GotoMoves, TypeParts DEF SafetyInv, LaneInv
  \* The receipt is of the transaction the issuance sent, which registers: it
  \* is not the one that revoked the hash, so it is the one that registered it.
  <1>4. s = "finalizing" =>
          txOf[q] # NoTx /\ txOf[q] = registered[Cred(q)] /\ txOf[q].acct = signer[q]
    <2> SUFFICES ASSUME s = "finalizing"
                 PROVE  txOf[q] # NoTx /\ txOf[q] = registered[Cred(q)]
                          /\ txOf[q].acct = signer[q]
      OBVIOUS
    <2>1. pc[q] = "waiting" /\ txOf[q] \in {registered[Cred(q)], revoked[Cred(q)]}
      BY <1>1 DEF ReceiptConfirmed
    <2>2. txOf[q] # NoTx /\ txOf[q].acct = signer[q] /\ txOf[q].op = "register"
      BY <1>1, <2>1, MoverFacts DEF RequestSafe, Op
    <2>3. txOf[q] # revoked[Cred(q)]
      BY <2>2, MoverFacts DEF SafetyInv, DatabaseInv, RegistrySound
    <2>4. QED BY <2>1, <2>2, <2>3
  <1>5. RequestSafe(q)'
    BY <1>1, <1>2, <1>3, <1>4, MoverFacts DEF RequestSafe, Finalized, InLane, db, chain
  <1>6. QED BY <1>1, <1>2, <1>5, SafeGoto

\* The beginnings of a request, and the scan: one read, two variables set.
LEMMA SafeStarts ==
  ASSUME SafetyInv, LaneInv', NEW q \in Requests,
         PrepareIssue(q) \/ StartRevoke(q) \/ StartReconcile(q) \/ Scan(q)
  PROVE  SafetyInv'
  <1>1. UNCHANGED <<db, chain, history>> /\ Others(q)
    BY DEF PrepareIssue, StartRevoke, StartReconcile, Scan, Others, SafetyInv, LaneInv, TypeOK
  <1>2. RequestSafe(q)'
    <2> USE MoverFacts DEF RequestSafe, Finalized, SafetyInv, LaneInv, TypeOK, db, chain
    <2>1. CASE PrepareIssue(q)
      BY <2>1 DEF PrepareIssue
    <2>2. CASE StartRevoke(q)
      BY <2>2 DEF StartRevoke, Revocable, SignerOfRevocation
    <2>3. CASE StartReconcile(q)
      BY <2>3 DEF StartReconcile, Writers
    <2>4. CASE Scan(q)
      BY <2>4 DEF Scan, EvidenceFound, CanSeeActive, StepFor, Writers
    <2>5. QED BY <2>1, <2>2, <2>3, <2>4
  <1>3. DatabaseInv'
    BY <1>1, UnchangedDatabaseInv DEF SafetyInv
  <1>4. RequestsSafe'
    BY <1>1, <1>2, OneMoves, UnchangedGrows DEF SafetyInv
  <1>5. AttemptsInv'
    <2>1. ~BeforeSend(q)'
      BY DEF PrepareIssue, StartRevoke, StartReconcile, Scan, BeforeSend,
             SafetyInv, LaneInv, TypeOK
    <2>2. ASSUME NEW r \in Requests, BeforeSend(r)' PROVE BeforeSend(r)
      BY <1>1, <2>1, <2>2 DEF BeforeSend, Others
    <2>3. QED BY <1>1, <2>2, AttemptsKept, UnchangedGrows DEF SafetyInv, history
  <1>6. QED BY <1>3, <1>4, <1>5 DEF SafetyInv

-----------------------------------------------------------------------------
(* The sends.                                                                *)

\* A signed transaction follows its record, and is the only registration.
LEMMA SafeAttempt ==
  ASSUME SafetyInv, NEW q \in Requests, NEW n \in Nat, Attempt(q, n),
         UNCHANGED db, Others(q), ~BeforeSend(q)'
  PROVE  AttemptsInv'
  <1> DEFINE tx == [acct |-> signer[q], nonce |-> n, op |-> Op(q), cred |-> Cred(q)]
  <1>1. attempts' = attempts \cup {tx} /\ pc[q] = "sending" /\ record' = record
    BY DEF Attempt, db
  <1>2. q \in Writers
    BY <1>1, AttemptTypes DEF SafetyInv
  <1>3. /\ record[Cred(q)].status # "none" /\ signer[q] = record[Cred(q)].anchor
        /\ q \in Revocations => record[Cred(q)].status \in {"registered", "revoked"}
    BY <1>1, MoverFacts DEF RequestSafe, Finalized
  <1>4. Op(q) = "revoke" => q \in Revocations
    BY <1>2 DEF Op, Writers
  <1>5. Op(q) = "register" => BeforeSend(q)
    BY <1>1 DEF Op, BeforeSend
  <1>6. tx.acct = signer[q] /\ tx.op = Op(q) /\ tx.cred = Cred(q)
    OBVIOUS
  <1> HIDE DEF tx
  <1>7. AttemptsRecorded'
    BY <1>1, <1>3, <1>6 DEF SafetyInv, AttemptsInv, AttemptsRecorded
  <1>8. WritesFollowTheRecord'
    BY <1>1, <1>3, <1>4, <1>6 DEF SafetyInv, AttemptsInv, WritesFollowTheRecord
  <1>9. AtMostOneRegistration'
    <2>1. ASSUME NEW x \in attempts, x.op = "register", x.cred = tx.cred, tx.op = "register"
          PROVE  FALSE
      BY <1>5, <1>6, <2>1 DEF SafetyInv, AttemptsInv, OneIssuance
    <2>2. QED BY <1>1, <2>1 DEF SafetyInv, AttemptsInv, AtMostOneRegistration
  <1>10. OneIssuance'
    <2>1. ASSUME NEW r \in Requests, BeforeSend(r)'
          PROVE  BeforeSend(r) /\ r # q /\ Cred(r)' = Cred(r)
      BY <2>1 DEF BeforeSend, Others, Cred
    <2>2. ASSUME NEW r \in Requests, BeforeSend(r)', tx.op = "register"
          PROVE  tx.cred # Cred(r)
      BY <1>5, <1>6, <2>1, <2>2 DEF SafetyInv, AttemptsInv, OneIssuance
    <2>3. QED BY <1>1, <2>1, <2>2 DEF SafetyInv, AttemptsInv, OneIssuance
  <1>11. QED BY <1>7, <1>8, <1>9, <1>10 DEF AttemptsInv

LEMMA SafeSendAccepted ==
  ASSUME SafetyInv, LaneInv', NEW q \in Requests, NEW n \in Nat, SendAccepted(q, n)
  PROVE  SafetyInv'
  <1> DEFINE tx == [acct |-> signer[q], nonce |-> n, op |-> Op(q), cred |-> Cred(q)]
  <1>1. /\ Attempt(q, n) /\ txOf' = [txOf EXCEPT ![q] = tx]
        /\ pc' = [pc EXCEPT ![q] = "waiting"]
        /\ UNCHANGED <<db, registered, revoked, signer>>
    BY DEF SendAccepted
  <1>2. Others(q) /\ pc'[q] = "waiting" /\ txOf'[q] = tx /\ signer'[q] = signer[q]
    BY <1>1 DEF Others, SafetyInv, LaneInv, TypeOK
  <1>3. tx # NoTx /\ tx.acct = signer[q] /\ tx.op = Op(q)
    BY <1>1, AttemptTypes, ValueAssumption DEF SafetyInv
  <1> HIDE DEF tx
  <1>4. pc[q] = "sending" /\ record' = record
    BY <1>1 DEF Attempt, db
  <1>5. RequestSafe(q)'
    BY <1>2, <1>3, <1>4, MoverFacts DEF RequestSafe, Finalized
  <1>6. RecordGrows /\ RegistryGrows
    BY <1>1, UnchangedGrows DEF RegistryGrows
  <1>7. RequestsSafe'
    BY <1>2, <1>5, <1>6, OneMoves DEF SafetyInv
  <1>8. DatabaseInv'
    BY <1>1 DEF SafetyInv, DatabaseInv, StagesAgree, RegistrySound, DatabaseFollowsChain, db
  <1>9. ~BeforeSend(q)'
    BY <1>2 DEF BeforeSend
  <1>10. AttemptsInv'
    BY <1>1, <1>2, <1>9, SafeAttempt
  <1>11. QED BY <1>7, <1>8, <1>10 DEF SafetyInv

LEMMA SafeSendThrew ==
  ASSUME SafetyInv, LaneInv', NEW q \in Requests, NEW n \in Nat, SendThrew(q, n)
  PROVE  SafetyInv'
  <1> DEFINE s == AfterFailure(q)
  <1>1. /\ Attempt(q, n) /\ Goto(q, s) /\ UNCHANGED <<db, registered, revoked>>
        /\ s \in {"idle", "reclassifying"} /\ s \in Steps
    BY DEF SendThrew, AfterFailure, Steps
  <1> HIDE DEF s
  <1>2. /\ Others(q) /\ pc'[q] = s
        /\ s # "idle" => signer'[q] = signer[q] /\ txOf'[q] = txOf[q]
    BY <1>1, GotoMoves, TypeParts DEF Others, SafetyInv, LaneInv
  <1>3. pc[q] = "sending" /\ record' = record
    BY <1>1 DEF Attempt, db
  <1>4. RequestSafe(q)'
    BY <1>1, <1>2, <1>3, MoverFacts DEF RequestSafe, Finalized
  <1>5. RecordGrows /\ RegistryGrows
    BY <1>1, UnchangedGrows DEF RegistryGrows
  <1>6. RequestsSafe'
    BY <1>2, <1>4, <1>5, OneMoves DEF SafetyInv
  <1>7. DatabaseInv'
    BY <1>1 DEF SafetyInv, DatabaseInv, StagesAgree, RegistrySound, DatabaseFollowsChain, db
  <1>8. ~BeforeSend(q)'
    BY <1>1, <1>2 DEF BeforeSend
  <1>9. AttemptsInv'
    BY <1>1, <1>2, <1>8, SafeAttempt
  <1>10. QED BY <1>6, <1>7, <1>9 DEF SafetyInv

-----------------------------------------------------------------------------
(* The writes to the database.                                               *)

\* TX#1 finds a draft: no request holds an intent of this credential and
\* nothing was ever attempted for it.
LEMMA SafeCommitIssue ==
  ASSUME SafetyInv, LaneInv', NEW q \in Requests, CommitIssue(q)
  PROVE  SafetyInv'
  <1> DEFINE c == Cred(q)
             r == [status |-> "pending", anchor |-> signer[q], tx |-> NoTx]
  <1>1. /\ pc[q] = "prepared" /\ credential[c] = "draft" /\ q \in Issuances
        /\ credential' = [credential EXCEPT ![c] = "issued"]
        /\ record' = [record EXCEPT ![c] = r] /\ Goto(q, "entering")
        /\ UNCHANGED <<chain, history>>
    BY DEF CommitIssue, BindingStillHolds
  <1>2. c \in Credentials /\ record[c].status = "none"
    BY <1>1, MoverFacts DEF SafetyInv, DatabaseInv, StagesAgree
  <1>3. record \in [Credentials -> Record] /\ credential \in [Credentials -> {"draft", "issued", "revoked"}]
    BY DEF SafetyInv, LaneInv, TypeOK
  <1>4. /\ Others(q) /\ pc'[q] = "entering" /\ signer'[q] = signer[q]
    BY <1>1, GotoMoves, TypeParts DEF Others, SafetyInv, LaneInv, Steps
  <1>5. record'[c] = r /\ credential'[c] = "issued"
    BY <1>1, <1>2, <1>3
  <1>6. \A d \in Credentials \ {c} : record'[d] = record[d] /\ credential'[d] = credential[d]
    BY <1>1, <1>2, <1>3
  <1>7. r.status = "pending" /\ r.anchor = signer[q]
    OBVIOUS
  <1>8. c = Cred(q) /\ Cred(q)' = c
    BY MoverFacts
  <1> HIDE DEF c, r
  <1>9. RecordGrows
    BY <1>2, <1>6 DEF RecordGrows, Finalized
  <1>10. RegistryGrows
    BY <1>1, UnchangedGrows
  <1>11. RequestSafe(q)'
    BY <1>1, <1>4, <1>5, <1>7, <1>8, MoverFacts DEF RequestSafe
  <1>12. RequestsSafe'
    BY <1>4, <1>9, <1>10, <1>11, OneMoves DEF SafetyInv
  <1>13. DatabaseInv'
    <2>1. StagesAgree'
      BY <1>5, <1>6, <1>7 DEF SafetyInv, DatabaseInv, StagesAgree
    <2>2. DatabaseFollowsChain'
      BY <1>1, <1>5, <1>6, <1>7 DEF SafetyInv, DatabaseInv, DatabaseFollowsChain, chain
    <2>3. RegistrySound'
      BY <1>1 DEF SafetyInv, DatabaseInv, RegistrySound, chain
    <2>4. QED BY <2>1, <2>2, <2>3 DEF DatabaseInv
  <1>14. AttemptsInv'
    <2>1. \A x \in attempts : x.cred \in Credentials /\ x.cred # c
      BY <1>2 DEF SafetyInv, LaneInv, TypeOK, Tx, AttemptsInv, AttemptsRecorded
    <2>2. attempts' = attempts
      BY <1>1 DEF history
    <2>3. AttemptsRecorded' /\ WritesFollowTheRecord'
      BY <1>6, <2>1, <2>2 DEF SafetyInv, AttemptsInv, AttemptsRecorded, WritesFollowTheRecord
    <2>4. AtMostOneRegistration'
      BY <2>2 DEF SafetyInv, AttemptsInv, AtMostOneRegistration
    <2>5. ASSUME NEW a \in Requests, BeforeSend(a)', a # q
          PROVE  BeforeSend(a) /\ Cred(a)' = Cred(a) /\ Cred(a) # c
      <3>1. BeforeSend(a)
        BY <1>4, <2>5 DEF BeforeSend, Others
      <3>2. record[Cred(a)].status # "none"
        BY <3>1, MoverFacts DEF RequestSafe, BeforeSend
      <3>3. QED BY <1>2, <3>1, <3>2 DEF Cred
    <2>6. OneIssuance'
      BY <1>8, <2>1, <2>2, <2>5 DEF SafetyInv, AttemptsInv, OneIssuance
    <2>7. QED BY <2>3, <2>4, <2>6 DEF AttemptsInv
  <1>15. QED BY <1>12, <1>13, <1>14 DEF SafetyInv

\* TX#2 and the persistence of a revocation end the request, and take the
\* record one stage on, as the chain has it.
LEMMA SafeRecordEnds ==
  ASSUME SafetyInv, LaneInv', NEW q \in Requests, Finalize(q) \/ PersistRevocation(q)
  PROVE  SafetyInv'
  <1> DEFINE c == Cred(q)
  <1>1. Goto(q, "idle") /\ UNCHANGED <<chain, history>>
    BY DEF Finalize, PersistRevocation
  <1>2. Others(q) /\ pc'[q] = "idle"
    BY <1>1, GotoMoves, TypeParts DEF Others, SafetyInv, LaneInv, Steps
  <1>3. c \in Credentials /\ RequestSafe(q) /\ StagesAgree
    BY MoverFacts DEF SafetyInv, DatabaseInv
  <1>4. /\ record \in [Credentials -> Record]
        /\ credential \in [Credentials -> {"draft", "issued", "revoked"}]
    BY DEF SafetyInv, LaneInv, TypeOK
  <1>5. \/ record' = record /\ credential' = credential
        \/ /\ Finalize(q) /\ record[c].status = "pending" /\ credential' = credential
           /\ record[c].anchor = signer[q]
           /\ record' = [record EXCEPT ![c] =
                [status |-> "registered", anchor |-> @.anchor, tx |-> txOf[q]]]
        \/ /\ PersistRevocation(q) /\ record[c].status = "registered"
           /\ credential' = [credential EXCEPT ![c] = "revoked"]
           /\ record' = [record EXCEPT ![c] =
                [status |-> "revoked", anchor |-> @.anchor, tx |-> @.tx]]
    <2>1. CASE Finalize(q)
      BY <2>1 DEF Finalize, Finalizable
    <2>2. CASE PersistRevocation(q) /\ credential[c] # "issued"
      BY <2>2 DEF PersistRevocation
    <2>3. CASE PersistRevocation(q) /\ credential[c] = "issued"
      <3>1. pc[q] = "persisting"
        BY <2>3 DEF PersistRevocation
      <3>2. q \in Revocations
        BY <3>1, MoverFacts DEF StepFor
      <3>3. record[c].status = "registered"
        BY <1>3, <2>3, <3>1, <3>2 DEF RequestSafe, Finalized, StagesAgree
      <3>4. QED BY <2>3, <3>3 DEF PersistRevocation
    <2>4. QED BY <2>1, <2>2, <2>3
  <1>6. RegistryGrows
    BY <1>1, UnchangedGrows
  <1>7. CASE record' = record /\ credential' = credential
    <2>1. RecordGrows
      BY <1>7 DEF RecordGrows, Finalized
    <2>2. RequestsSafe'
      BY <1>2, <1>6, <2>1, OneMoves DEF SafetyInv, RequestSafe
    <2>3. DatabaseInv'
      BY <1>1, <1>7 DEF SafetyInv, DatabaseInv, StagesAgree, RegistrySound, DatabaseFollowsChain, chain
    <2>4. \A a \in Requests : BeforeSend(a)' => BeforeSend(a)
      BY <1>2 DEF BeforeSend, Others
    <2>5. AttemptsInv'
      BY <1>1, <2>1, <2>4, AttemptsKept DEF SafetyInv, history
    <2>6. QED BY <2>2, <2>3, <2>5 DEF SafetyInv
  <1>8. CASE ~(record' = record /\ credential' = credential)
    <2> DEFINE r == record'[c]
    <2>1. /\ r.anchor = record[c].anchor
          /\ \A d \in Credentials \ {c} :
               record'[d] = record[d] /\ credential'[d] = credential[d]
      BY <1>3, <1>4, <1>5, <1>8
    <2>2. \/ /\ pc[q] = "finalizing" /\ record[c].status = "pending"
             /\ record[c].anchor = signer[q]
             /\ r.status = "registered" /\ r.tx = txOf[q] /\ credential'[c] = credential[c]
          \/ /\ pc[q] = "persisting" /\ record[c].status = "registered"
             /\ r.status = "revoked" /\ r.tx = record[c].tx /\ credential'[c] = "revoked"
      BY <1>3, <1>4, <1>5, <1>8 DEF Finalize, PersistRevocation
    <2> HIDE DEF r, c
    <2>3. RecordGrows
      BY <2>1, <2>2 DEF RecordGrows, Finalized, r
    <2>4. RequestsSafe'
      BY <1>2, <1>6, <2>3, OneMoves DEF SafetyInv, RequestSafe
    <2>5. StagesAgree'
      BY <1>3, <2>1, <2>2 DEF StagesAgree, r
    <2>6. /\ r.status \in {"registered", "revoked"}
          /\ registered[c] = r.tx /\ r.tx # NoTx /\ r.tx.acct = r.anchor
          /\ credential'[c] = "revoked" <=> r.status = "revoked"
          /\ r.status = "revoked" => revoked[c] # NoTx /\ revoked[c].acct = r.anchor
      <3>1. CASE pc[q] = "finalizing"
        BY <1>3, <2>1, <2>2, <3>1 DEF RequestSafe, StagesAgree, c
      <3>2. CASE pc[q] = "persisting"
        <4>1. /\ registered[c] = record[c].tx /\ record[c].tx # NoTx
              /\ record[c].tx.acct = record[c].anchor
          BY <1>3, <2>2, <3>2 DEF SafetyInv, DatabaseInv, DatabaseFollowsChain
        <4>2. revoked[c] # NoTx /\ revoked[c].acct = registered[c].acct
          BY <1>3, <3>2
             DEF RequestSafe, CanSeeRevoked, SafetyInv, DatabaseInv, RegistrySound, c
        <4>3. QED BY <2>1, <2>2, <3>2, <4>1, <4>2
      <3>3. QED BY <2>2, <3>1, <3>2
    <2>7. DatabaseFollowsChain'
      BY <1>1, <2>1, <2>6 DEF SafetyInv, DatabaseInv, DatabaseFollowsChain, chain, r
    <2>8. RegistrySound'
      BY <1>1 DEF SafetyInv, DatabaseInv, RegistrySound, chain
    <2>9. \A a \in Requests : BeforeSend(a)' => BeforeSend(a)
      BY <1>2 DEF BeforeSend, Others
    <2>10. AttemptsInv'
      BY <1>1, <2>3, <2>9, AttemptsKept DEF SafetyInv, history
    <2>11. QED BY <2>4, <2>5, <2>7, <2>8, <2>10 DEF SafetyInv, DatabaseInv
  <1>9. QED BY <1>7, <1>8

-----------------------------------------------------------------------------
(* The environment.                                                          *)

\* A step outside the requests that leaves credentials, records and attempts
\* alone, and writes what the contract allows.
LEMMA SafeOutside ==
  ASSUME SafetyInv, LaneInv', UNCHANGED <<credential, record, attempts>>,
         RegistryGrows, RegistrySound',
         UNCHANGED reqs \/ \E t \in Tasks : Crash(t)
  PROVE  SafetyInv'
  <1>1. RecordGrows
    BY DEF RecordGrows, Finalized
  <1>2. \A r \in Requests :
          \/ pc'[r] = pc[r] /\ signer'[r] = signer[r] /\ txOf'[r] = txOf[r]
          \/ pc'[r] = "idle"
    BY DEF reqs, Crash
  <1>3. RequestsSafe'
    <2>1. ASSUME NEW r \in Requests PROVE RequestSafe(r)'
      <3>1. CASE pc'[r] = "idle"
        BY <3>1 DEF RequestSafe
      <3>2. CASE pc'[r] # "idle"
        BY <1>1, <1>2, <3>2, RequestKept DEF SafetyInv, RequestsSafe
      <3>3. QED BY <3>1, <3>2
    <2>2. QED BY <2>1 DEF RequestsSafe
  <1>4. DatabaseInv'
    <2>1. StagesAgree'
      BY DEF SafetyInv, DatabaseInv, StagesAgree
    <2>2. DatabaseFollowsChain'
      BY DEF SafetyInv, DatabaseInv, DatabaseFollowsChain, RegistryGrows
    <2>3. QED BY <2>1, <2>2 DEF DatabaseInv
  <1>5. \A q \in Requests : BeforeSend(q)' => BeforeSend(q)
    BY <1>2 DEF BeforeSend
  <1>6. AttemptsInv'
    BY <1>1, <1>5, AttemptsKept DEF SafetyInv
  <1>7. QED BY <1>3, <1>4, <1>6 DEF SafetyInv

LEMMA SafeEnvironment ==
  ASSUME SafetyInv, LaneInv', Environment
  PROVE  SafetyInv'
  <1>1. CASE /\ UNCHANGED <<credential, record, attempts, registered, revoked>>
             /\ UNCHANGED reqs \/ \E t \in Tasks : Crash(t)
    <2>1. RegistryGrows /\ RegistrySound'
      BY <1>1 DEF RegistryGrows, SafetyInv, DatabaseInv, RegistrySound
    <2>2. QED BY <1>1, <2>1, SafeOutside
  <1>2. ASSUME NEW tx \in pool, Mine(tx)
        PROVE  SafetyInv'
    <2>1. /\ UNCHANGED <<credential, record, attempts>> /\ UNCHANGED reqs
          /\ registered' = IF Registers(tx) THEN [registered EXCEPT ![tx.cred] = tx]
                                            ELSE registered
          /\ revoked' = IF Revokes(tx) THEN [revoked EXCEPT ![tx.cred] = tx] ELSE revoked
      BY <1>2 DEF Mine, db, history
    <2>2. tx \in Tx /\ tx.cred \in Credentials
      BY DEF SafetyInv, LaneInv, TypeOK, Tx
    <2>3. /\ registered \in [Credentials -> Tx \cup {NoTx}]
          /\ revoked \in [Credentials -> Tx \cup {NoTx}]
      BY DEF SafetyInv, LaneInv, TypeOK
    <2>4. RegistryGrows
      BY <2>1, <2>2, <2>3 DEF RegistryGrows, Registers, Revokes
    <2>5. RegistrySound'
      <3>1. ASSUME NEW c \in Credentials, registered'[c] # NoTx
            PROVE  registered'[c].op = "register" /\ registered'[c].cred = c
        BY <2>1, <2>2, <2>3, <3>1 DEF Registers, SafetyInv, DatabaseInv, RegistrySound
      <3>2. ASSUME NEW c \in Credentials, revoked'[c] # NoTx
            PROVE  /\ revoked'[c].op = "revoke" /\ revoked'[c].cred = c
                   /\ registered'[c] # NoTx /\ revoked'[c].acct = registered'[c].acct
        <4>1. CASE revoked'[c] = revoked[c]
          BY <2>4, <3>2, <4>1 DEF RegistryGrows, SafetyInv, DatabaseInv, RegistrySound
        <4>2. CASE revoked'[c] # revoked[c]
          <5>1. Revokes(tx) /\ tx.cred = c /\ revoked'[c] = tx
            BY <2>1, <2>2, <2>3, <4>2
          <5>2. registered'[c] = registered[c]
            BY <2>4, <5>1 DEF RegistryGrows, Revokes
          <5>3. QED BY <5>1, <5>2 DEF Revokes
        <4>3. QED BY <4>1, <4>2
      <3>3. QED BY <3>1, <3>2 DEF RegistrySound
    <2>6. QED BY <2>1, <2>4, <2>5, SafeOutside
  <1>3. ASSUME NEW c \in Credentials, RegisterByStranger(c)
        PROVE  SafetyInv'
    <2>1. /\ UNCHANGED <<credential, record, attempts, revoked>> /\ UNCHANGED reqs
          /\ registered[c] = NoTx
          /\ registered' = [registered EXCEPT ![c] =
               [acct |-> Stranger, nonce |-> 0, op |-> "register", cred |-> c]]
      BY <1>3 DEF RegisterByStranger, db, history
    <2>2. registered \in [Credentials -> Tx \cup {NoTx}]
      BY DEF SafetyInv, LaneInv, TypeOK
    <2>3. RegistryGrows
      BY <2>1, <2>2 DEF RegistryGrows
    <2>4. RegistrySound'
      BY <2>1, <2>2 DEF SafetyInv, DatabaseInv, RegistrySound
    <2>5. QED BY <2>1, <2>3, <2>4, SafeOutside
  <1>4. \/ /\ UNCHANGED <<credential, record, attempts, registered, revoked>>
           /\ UNCHANGED reqs \/ \E t \in Tasks : Crash(t)
        \/ \E tx \in pool : Mine(tx)
        \/ \E c \in Credentials : RegisterByStranger(c)
    BY DEF Environment, RotateAnchor, MarkCompromised, Crash, Evict, Deliver,
           db, chain, history
  <1>5. QED BY <1>1, <1>2, <1>3, <1>4

-----------------------------------------------------------------------------
LEMMA SafetyStep ==
  ASSUME SafetyInv, [Next]_vars
  PROVE  SafetyInv'
  <1>1. LaneInv'
    BY LaneStep DEF SafetyInv
  <1>2. ASSUME NEW q \in Requests, Write(q)
        PROVE  SafetyInv'
    <2>1. \A n \in 0 .. MaxNonce : n \in Nat
      OBVIOUS
    <2>2. QED
      BY <1>1, <1>2, <2>1, SafeMoves, SafeLeaves, SafeSendAccepted, SafeSendThrew DEF Write
  <1>3. ASSUME NEW q \in Requests, RequestStep(q)
        PROVE  SafetyInv'
    BY <1>1, <1>3, SafeStarts, SafeMoves, SafeCommitIssue, SafeRecordEnds DEF RequestStep
  <1>4. CASE UNCHANGED vars
    <2>1. UNCHANGED <<credential, record, attempts, registered, revoked>> /\ UNCHANGED reqs
      BY <1>4 DEF vars, reqs
    <2>2. RegistryGrows /\ RegistrySound'
      BY <2>1 DEF RegistryGrows, SafetyInv, DatabaseInv, RegistrySound
    <2>3. QED BY <1>1, <2>1, <2>2, SafeOutside
  <1>5. QED BY <1>1, <1>2, <1>3, <1>4, SafeEnvironment DEF Next

\* The invariant that carries the three results below: what every request in
\* flight relies on stays true whatever moves around it.
THEOREM AnchoringSafe == Spec => []SafetyInv
  <1>1. QED BY SafetyInit, SafetyStep, PTL DEF Spec

\* The database never runs ahead of the chain: finalization and revocation are
\* persisted only with the evidence the chain holds, for any number of tasks,
\* crashes, rotations and requests.
THEOREM DatabaseNeverAhead == Spec => []DatabaseFollowsChain
  <1>1. SafetyInv => DatabaseFollowsChain
    BY DEF SafetyInv, DatabaseInv
  <1>2. QED BY <1>1, AnchoringSafe, PTL

\* No blind resend: TX#1 admits one issuance of a credential, and neither a
\* failure nor the reconciliation leads to a second registration.
THEOREM NoSecondRegistration == Spec => []AtMostOneRegistration
  <1>1. SafetyInv => AtMostOneRegistration
    BY DEF SafetyInv, AttemptsInv
  <1>2. QED BY <1>1, AnchoringSafe, PTL

\* Every write is signed by the anchor its record froze, and a revocation is
\* sent for a finalized record only, through any rotation.
THEOREM RecordedAnchorSigns == Spec => []WritesFollowTheRecord
  <1>1. SafetyInv => WritesFollowTheRecord
    BY DEF SafetyInv, AttemptsInv
  <1>2. QED BY <1>1, AnchoringSafe, PTL

-----------------------------------------------------------------------------
(* Part 3: the gate on the key.                                              *)

PastGate == {"gated", "sending"}

\* After a late send the profile is compromised and nobody of its lane is
\* between the gate and the send, nor can get there any more.
LateInv ==
  \A t \in Tasks, p \in Profiles :
    lateSends[t][p] # 0 =>
      /\ lateSends[t][p] = 1
      /\ profileStatus[p] = "compromised"
      /\ \A q \in Requests : TaskOf[q] = t /\ signer[q] = p => pc[q] \notin PastGate

LEMMA LateInit == Init => LateInv
  BY DEF Init, LateInv

\* Nobody clears the mark, and only the gate leads past the gate.
LEMMA GateSteps ==
  ASSUME LaneInv, [Next]_vars
  PROVE  /\ \A p \in Profiles :
              profileStatus[p] = "compromised" => profileStatus'[p] = "compromised"
         /\ \A q \in Requests : pc'[q] \in PastGate =>
              signer'[q] = signer[q] /\ (pc[q] \in PastGate \/ SignerUsable(signer[q]))
         /\ \/ lateSends' = lateSends
            \/ \E q \in Requests, n \in Nat :
                 Attempt(q, n) /\ pc'[q] \notin PastGate /\ profileStatus' = profileStatus
  <1> USE DEF PastGate
  <1> DEFINE Marks == \A p \in Profiles :
                        profileStatus[p] = "compromised" => profileStatus'[p] = "compromised"
             Gated(q) == pc'[q] \in PastGate =>
                           signer'[q] = signer[q] /\ (pc[q] \in PastGate \/ SignerUsable(signer[q]))
             Sends == \/ lateSends' = lateSends
                      \/ \E q \in Requests, n \in Nat :
                           Attempt(q, n) /\ pc'[q] \notin PastGate /\ profileStatus' = profileStatus
  <1>1. RequestsOK /\ DatabaseOK
    BY TypeParts DEF LaneInv
  <1>2. ASSUME NEW q \in Requests, Write(q) \/ RequestStep(q)
        PROVE  Marks /\ (\A r \in Requests : Gated(r)) /\ Sends
    <2>1. profileStatus' = profileStatus
      BY <1>2
      DEF Write, RequestStep, EnterLane, Gate, Preflight, SkipRevoked, SendAccepted, SendThrew,
          ReceiptConfirmed, WriteFailed, GateRefused, PrepareIssue, CommitIssue, StartRevoke,
          ClassifyActive, ClassifyRevoked, Reclassify, PersistRevocation, StartReconcile, Scan,
          Finalize, RequestError, db
    <2>2. ASSUME NEW s \in Steps, Goto(q, s),
                 s \in PastGate => pc[q] \in PastGate \/ SignerUsable(signer[q])
          PROVE  \A r \in Requests : Gated(r)
      BY <1>1, <2>2, GotoMoves
    <2>3. CASE Gate(q) \/ Preflight(q)
      <3>1. PICK s \in Steps : Goto(q, s) /\ (pc[q] \in PastGate \/ SignerUsable(signer[q]))
        BY <2>3 DEF Gate, GatePasses, Preflight, Steps, InLane
      <3>2. lateSends' = lateSends
        BY <2>3 DEF Gate, Preflight, history
      <3>3. QED BY <2>1, <2>2, <3>1, <3>2
    <2>4. CASE EnterLane(q) \/ SkipRevoked(q) \/ ReceiptConfirmed(q) \/ WriteFailed(q)
                 \/ GateRefused(q) \/ RequestStep(q)
      <3>1. lateSends' = lateSends
        BY <2>4
        DEF EnterLane, SkipRevoked, ReceiptConfirmed, WriteFailed, GateRefused, RequestStep,
            PrepareIssue, CommitIssue, StartRevoke, ClassifyActive, ClassifyRevoked, Reclassify,
            PersistRevocation, StartReconcile, Scan, Finalize, RequestError, history
      <3>2. \/ \E s \in Steps \ PastGate : Goto(q, s)
            \/ /\ \A r \in Requests \ {q} : pc'[r] = pc[r] /\ signer'[r] = signer[r]
               /\ pc'[q] \notin PastGate
        BY <1>1, <2>4
        DEF EnterLane, SkipRevoked, ReceiptConfirmed, WriteFailed, AfterFailure, GateRefused,
            RequestStep, PrepareIssue, CommitIssue, StartRevoke, ClassifyActive, ClassifyRevoked,
            Reclassify, PersistRevocation, StartReconcile, Scan, Finalize, RequestError,
            Steps, RequestsOK
      <3>3. QED BY <2>1, <2>2, <3>1, <3>2
    <2>5. ASSUME NEW n \in Nat, SendAccepted(q, n) \/ SendThrew(q, n)
          PROVE  Marks /\ (\A r \in Requests : Gated(r)) /\ Sends
      <3>1. Attempt(q, n)
        BY <2>5 DEF SendAccepted, SendThrew
      <3>2. CASE SendAccepted(q, n)
        BY <1>1, <2>1, <3>1, <3>2 DEF SendAccepted, RequestsOK
      <3>3. CASE SendThrew(q, n)
        <4>1. PICK s \in Steps \ PastGate : Goto(q, s)
          BY <3>3 DEF SendThrew, AfterFailure, Steps
        <4>2. pc'[q] = s
          BY <1>1, <4>1, GotoMoves
        <4>3. QED BY <2>1, <2>2, <3>1, <4>1, <4>2
      <3>4. QED BY <2>5, <3>2, <3>3
    <2>6. \A n \in 0 .. MaxNonce : n \in Nat
      BY ValueAssumption
    <2>7. QED BY <1>2, <2>3, <2>4, <2>5, <2>6 DEF Write
  <1>3. CASE Environment
    <2>1. lateSends' = lateSends
      BY <1>3 DEF Environment, RotateAnchor, MarkCompromised, Crash, Mine, Evict, Deliver,
                  RegisterByStranger, history
    <2>2. Marks
      BY <1>1, <1>3 DEF Environment, RotateAnchor, MarkCompromised, Crash, Mine, Evict, Deliver,
                        RegisterByStranger, db, DatabaseOK
    <2>3. \A r \in Requests : Gated(r)
      BY <1>3 DEF Environment, RotateAnchor, MarkCompromised, Crash, Mine, Evict, Deliver,
                  RegisterByStranger, reqs
    <2>4. QED BY <2>1, <2>2, <2>3
  <1>4. CASE UNCHANGED vars
    BY <1>4 DEF vars
  <1>5. QED BY <1>2, <1>3, <1>4 DEF Next

LEMMA LateStep ==
  ASSUME LaneInv, LateInv, [Next]_vars
  PROVE  LateInv'
  <1> SUFFICES ASSUME NEW t \in Tasks, NEW p \in Profiles, lateSends'[t][p] # 0
               PROVE  /\ lateSends'[t][p] = 1
                      /\ profileStatus'[p] = "compromised"
                      /\ \A q \in Requests :
                           TaskOf[q] = t /\ signer'[q] = p => pc'[q] \notin PastGate
    BY DEF LateInv
  <1>1. CASE lateSends'[t][p] = lateSends[t][p]
    BY <1>1, GateSteps DEF LateInv, SignerUsable
  <1>2. CASE lateSends'[t][p] # lateSends[t][p]
    <2>1. PICK q \in Requests, n \in Nat :
            Attempt(q, n) /\ pc'[q] \notin PastGate /\ profileStatus' = profileStatus
      BY <1>2, GateSteps
    <2>2. lateSends \in [Tasks -> [Profiles -> Nat]] /\ signer[q] \in Profiles /\ TaskOf[q] \in Tasks
      BY <2>1, AttemptTypes, RequestParts DEF LaneInv, TypeOK
    <2>3. /\ ~SignerUsable(signer[q]) /\ pc[q] = "sending"
          /\ lateSends' = [lateSends EXCEPT ![TaskOf[q]][signer[q]] = @ + 1]
      BY <1>2, <2>1 DEF Attempt
    <2>4. TaskOf[q] = t /\ signer[q] = p
      BY <1>2, <2>2, <2>3
    <2>5. lateSends[t][p] = 0
      BY <2>3, <2>4 DEF LateInv, PastGate
    <2>6. lateSends'[t][p] = 1
      BY <2>2, <2>3, <2>4, <2>5
    <2>7. profileStatus'[p] = "compromised"
      BY <2>1, <2>3, <2>4 DEF SignerUsable
    <2>8. ASSUME NEW r \in Requests, TaskOf[r] = t, signer'[r] = p, pc'[r] \in PastGate
          PROVE  FALSE
      <3>1. signer[r] = p /\ pc[r] \in PastGate /\ r # q
        BY <2>1, <2>3, <2>4, <2>8, GateSteps
      <3>2. AtHead(r) /\ AtHead(q)
        BY <2>3, <3>1 DEF LaneInv, HolderOK, PastGate, InLane
      <3>3. QED BY <2>4, <2>8, <3>1, <3>2 DEF AtHead, Lane
    <2>9. QED BY <2>6, <2>7, <2>8
  <1>3. QED BY <1>1, <1>2

\* The gate inside the lane: once a profile is marked, a task sends with it
\* at most the one write that was past the gate, whatever queues behind it.
THEOREM OneLateSend == Spec => []AtMostOneLateSend
  <1>1. LaneInv /\ LateInv => AtMostOneLateSend
    <2> SUFFICES ASSUME LaneInv, LateInv, NEW t \in Tasks, NEW p \in Profiles
                 PROVE  lateSends[t][p] <= 1
      BY DEF AtMostOneLateSend
    <2>1. lateSends[t][p] \in Nat
      BY DEF LaneInv, TypeOK
    <2>2. QED BY <2>1 DEF LateInv
  <1>2. Init => LaneInv /\ LateInv
    BY LaneInit, LateInit
  <1>3. LaneInv /\ LateInv /\ [Next]_vars => LaneInv' /\ LateInv'
    BY LaneStep, LateStep
  <1>4. QED BY <1>1, <1>2, <1>3, PTL DEF Spec

-----------------------------------------------------------------------------
(* Part 4: the nonces of an account are contiguous.                          *)

Below(p, n) == \A m \in 0 .. n - 1 : Covered(p, m)

\* Nothing waits behind a gap, no lane that may still be used counts past one,
\* and whoever is past the gate uses such a lane.
NonceInv ==
  /\ \A x \in pool \cup inflight : x.acct \in Profiles /\ Below(x.acct, x.nonce)
  /\ \A t \in Tasks, p \in Profiles : p \notin uncertain[t] => Below(p, nextNonce[t][p])
  /\ \A q \in Requests : pc[q] \in InLane => LaneCertain(q)

LEMMA NonceInit == Init => NonceInv
  BY DEF Init, NonceInv, Below, InLane, Unset

\* What a node that drops nothing has is not lost: a transaction is executed,
\* or gives way to one with its nonce.
CoverGrows == \A p \in Profiles, m \in Nat : Covered(p, m) => Covered(p, m)'

LEMMA PoolGrows ==
  ASSUME NEW tx, mined' = mined, pool' = PoolWith(tx)
  PROVE  CoverGrows /\ Covered(tx.acct, tx.nonce)'
  BY DEF CoverGrows, Covered, PoolWith, Rivals

LEMMA MineGrows ==
  ASSUME LaneInv, NEW tx \in pool, tx.acct \in Profiles, Mine(tx)
  PROVE  CoverGrows
  <1>1. /\ mined' = [mined EXCEPT ![tx.acct] = mined[tx.acct] + 1] /\ pool' = pool \ {tx}
        /\ tx.nonce = mined[tx.acct] /\ mined \in [Profiles -> Nat]
    BY DEF Mine, LaneInv, TypeOK
  <1>2. ASSUME NEW p \in Profiles, NEW m \in Nat, Covered(p, m)
        PROVE  Covered(p, m)'
    <2>1. mined[p] \in Nat /\ mined'[p] \in Nat /\ mined[p] <= mined'[p]
      BY <1>1
    <2>2. CASE m < mined[p]
      BY <2>1, <2>2 DEF Covered
    <2>3. CASE \E x \in pool : x.acct = p /\ x.nonce = m
      <3>1. PICK x \in pool : x.acct = p /\ x.nonce = m
        BY <2>3
      <3>2. CASE x = tx
        <4>1. mined'[p] = mined[p] + 1 /\ m = mined[p]
          BY <1>1, <3>1, <3>2
        <4>2. QED BY <2>1, <4>1 DEF Covered
      <3>3. CASE x # tx
        BY <1>1, <3>1, <3>3 DEF Covered
      <3>4. QED BY <3>2, <3>3
    <2>4. QED BY <1>2, <2>2, <2>3 DEF Covered
  <1>3. QED BY <1>2 DEF CoverGrows

LEMMA BelowKept ==
  ASSUME CoverGrows, NEW p \in Profiles, NEW n \in Int, Below(p, n)
  PROVE  Below(p, n)'
  BY DEF CoverGrows, Below

\* The nonce a writer uses is the first that is free, or the one after those
\* its lane used before.
LEMMA NonceIsNext ==
  ASSUME LaneInv, NonceInv, NEW q \in Requests, NEW n \in Nat, Attempt(q, n)
  PROVE  Below(signer[q], n) /\ LaneCertain(q)
  <1>1. signer[q] \in Profiles /\ TaskOf[q] \in Tasks /\ pc[q] = "sending"
    BY AttemptTypes, RequestParts
  <1>2. LaneCertain(q)
    BY <1>1 DEF NonceInv, InLane
  <1>3. Below(signer[q], nextNonce[TaskOf[q]][signer[q]])
    BY <1>1, <1>2 DEF NonceInv, LaneCertain
  <1>4. CASE IsPendingNonce(signer[q], n)
    <2>1. mined[signer[q]] \in Nat
      BY <1>1 DEF LaneInv, TypeOK
    <2>2. QED BY <1>2, <1>4, <2>1 DEF IsPendingNonce, Below, Covered
  <1>5. CASE n = nextNonce[TaskOf[q]][signer[q]]
    BY <1>2, <1>3, <1>5
  <1>6. QED BY <1>2, <1>4, <1>5 DEF Attempt, NonceToUse

\* Only the gate leads into the lane, and only of a lane without a latch.
LEMMA LatchSteps ==
  ASSUME LaneInv, [Next]_vars
  PROVE  \A q \in Requests : pc'[q] \in InLane =>
           signer'[q] = signer[q] /\ (pc[q] \in InLane \/ LaneCertain(q))
  <1> DEFINE Kept(q) == pc'[q] \in InLane =>
               signer'[q] = signer[q] /\ (pc[q] \in InLane \/ LaneCertain(q))
  <1>1. RequestsOK
    BY TypeParts DEF LaneInv
  <1>2. ASSUME NEW q \in Requests, Write(q) \/ RequestStep(q)
        PROVE  \A r \in Requests : Kept(r)
    <2>1. ASSUME NEW s \in Steps, Goto(q, s), s \in InLane => pc[q] \in InLane \/ LaneCertain(q)
          PROVE  \A r \in Requests : Kept(r)
      BY <1>1, <2>1, GotoMoves DEF InLane
    <2>2. CASE Gate(q) \/ Preflight(q)
      <3>1. PICK s \in Steps : Goto(q, s) /\ (pc[q] \in InLane \/ LaneCertain(q))
        BY <2>2 DEF Gate, GatePasses, Preflight, Steps, InLane
      <3>2. QED BY <2>1, <3>1
    <2>3. CASE EnterLane(q) \/ SkipRevoked(q) \/ ReceiptConfirmed(q) \/ WriteFailed(q)
                 \/ GateRefused(q) \/ RequestStep(q)
      <3>1. \/ \E s \in Steps \ InLane : Goto(q, s)
            \/ /\ \A r \in Requests \ {q} : pc'[r] = pc[r] /\ signer'[r] = signer[r]
               /\ pc'[q] \notin InLane
        BY <1>1, <2>3
        DEF EnterLane, SkipRevoked, ReceiptConfirmed, WriteFailed, AfterFailure, GateRefused,
            RequestStep, PrepareIssue, CommitIssue, StartRevoke, ClassifyActive, ClassifyRevoked,
            Reclassify, PersistRevocation, StartReconcile, Scan, Finalize, RequestError,
            Steps, RequestsOK, InLane
      <3>2. QED BY <2>1, <3>1
    <2>4. ASSUME NEW n \in Nat, SendAccepted(q, n)
          PROVE  \A r \in Requests : Kept(r)
      BY <1>1, <2>4 DEF SendAccepted, Attempt, RequestsOK, InLane
    <2>5. ASSUME NEW n \in Nat, SendThrew(q, n)
          PROVE  \A r \in Requests : Kept(r)
      <3>1. PICK s \in Steps \ InLane : Goto(q, s)
        BY <2>5 DEF SendThrew, AfterFailure, Steps, InLane
      <3>2. QED BY <2>1, <3>1
    <2>6. \A n \in 0 .. MaxNonce : n \in Nat
      OBVIOUS
    <2>7. QED BY <1>2, <2>2, <2>3, <2>4, <2>5, <2>6 DEF Write
  <1>3. CASE Environment
    BY <1>3 DEF Environment, RotateAnchor, MarkCompromised, Crash, Mine, Evict, Deliver,
                RegisterByStranger, reqs, InLane
  <1>4. CASE UNCHANGED vars
    BY <1>4 DEF vars
  <1>5. QED BY <1>2, <1>3, <1>4 DEF Next

\* A step that hands nothing to the node keeps the invariant when it keeps
\* what is covered.
LEMMA NonceKept ==
  ASSUME LaneInv, NonceInv, [Next]_vars, CoverGrows,
         \A x \in pool' \cup inflight' : x \in pool \cup inflight,
         UNCHANGED <<uncertain, nextNonce>>
  PROVE  NonceInv'
  <1>1. ASSUME NEW x \in pool' \cup inflight'
        PROVE  x.acct \in Profiles /\ Below(x.acct, x.nonce)'
    <2>1. x \in Tx /\ x.acct \in Profiles /\ Below(x.acct, x.nonce)
      BY <1>1 DEF NonceInv, LaneInv, TypeOK
    <2>2. x.nonce \in Int
      BY <2>1 DEF Tx
    <2>3. QED BY <2>1, <2>2, BelowKept
  <1>2. ASSUME NEW t \in Tasks, NEW p \in Profiles, p \notin uncertain[t]
        PROVE  Below(p, nextNonce[t][p])'
    <2>0. nextNonce[t][p] \in Int /\ Below(p, nextNonce[t][p])
      BY <1>2 DEF NonceInv, LaneInv, TypeOK, Unset
    <2>1. PICK n \in Int : n = nextNonce[t][p] /\ Below(p, n)
      BY <2>0
    <2>2. Below(p, n)'
      BY <2>1, BelowKept
    <2>3. nextNonce'[t][p] = n
      BY <2>1
    <2>4. QED BY <2>2, <2>3 DEF Below
  <1>3. \A q \in Requests : pc'[q] \in InLane => LaneCertain(q)'
    BY LatchSteps DEF NonceInv, LaneCertain
  <1>4. QED BY <1>1, <1>2, <1>3 DEF NonceInv

LEMMA NonceAccepted ==
  ASSUME LaneInv, NonceInv, NEW q \in Requests, NEW n \in Nat, SendAccepted(q, n),
         [Next]_vars
  PROVE  NonceInv'
  <1> DEFINE k == TaskOf[q]
  <1>0. PICK s \in Profiles, tx \in Tx :
          s = signer[q] /\ tx = [acct |-> s, nonce |-> n, op |-> Op(q), cred |-> Cred(q)]
    BY AttemptTypes DEF SendAccepted
  <1>1. /\ Attempt(q, n) /\ pool' = PoolWith(tx) /\ mined' = mined
        /\ inflight' = inflight /\ uncertain' = uncertain
        /\ nextNonce' = [nextNonce EXCEPT ![k][s] = n + 1]
    BY <1>0 DEF SendAccepted, Attempt
  <1>2. s \in Profiles /\ k \in Tasks /\ Below(s, n)
    BY <1>0, <1>1, RequestParts, NonceIsNext
  <1>3. CoverGrows /\ Covered(s, n)'
    <2>1. tx.acct = s /\ tx.nonce = n
      BY <1>0
    <2>2. CoverGrows /\ Covered(tx.acct, tx.nonce)'
      BY <1>1, PoolGrows
    <2>3. QED BY <2>1, <2>2 DEF Covered
  <1>4. Below(s, n)' /\ Below(s, n + 1)'
    <2>1. Below(s, n)'
      BY <1>2, <1>3, BelowKept
    <2>2. \A m \in 0 .. n + 1 - 1 : m \in 0 .. n - 1 \/ m = n
      OBVIOUS
    <2>3. QED BY <1>3, <2>1, <2>2 DEF Below
  <1>5. ASSUME NEW x \in pool' \cup inflight'
        PROVE  x.acct \in Profiles /\ Below(x.acct, x.nonce)'
    <2>1. CASE x = tx
      BY <1>0, <1>2, <1>4, <2>1
    <2>2. CASE x # tx
      <3>1. x \in pool \cup inflight
        BY <1>1, <2>2 DEF PoolWith
      <3>2. x.acct \in Profiles /\ Below(x.acct, x.nonce) /\ x.nonce \in Int
        BY <3>1 DEF NonceInv, LaneInv, TypeOK, Tx
      <3>3. QED BY <1>3, <3>2, BelowKept
    <2>3. QED BY <2>1, <2>2
  <1>6. ASSUME NEW t \in Tasks, NEW p \in Profiles, p \notin uncertain[t]
        PROVE  Below(p, nextNonce[t][p])'
    <2>1. CASE t = k /\ p = s
      <3>1. nextNonce'[t][p] = n + 1
        BY <1>1, <1>2, <2>1 DEF LaneInv, TypeOK
      <3>2. QED BY <1>4, <2>1, <3>1 DEF Below
    <2>2. CASE ~(t = k /\ p = s)
      <3>0. nextNonce[t][p] \in Int /\ Below(p, nextNonce[t][p])
        BY <1>1, <1>6 DEF NonceInv, LaneInv, TypeOK, Unset
      <3>1. PICK j \in Int : j = nextNonce[t][p] /\ Below(p, j)
        BY <3>0
      <3>2. nextNonce'[t][p] = j
        BY <1>1, <1>2, <2>2, <3>1 DEF LaneInv, TypeOK
      <3>3. Below(p, j)'
        BY <1>3, <3>1, BelowKept
      <3>4. QED BY <3>2, <3>3 DEF Below
    <2>3. QED BY <2>1, <2>2
  <1>7. \A r \in Requests : pc'[r] \in InLane => LaneCertain(r)'
    BY <1>1, LatchSteps DEF NonceInv, LaneCertain
  <1>8. QED BY <1>1, <1>5, <1>6, <1>7 DEF NonceInv

LEMMA NonceThrew ==
  ASSUME LaneInv, NonceInv, NEW q \in Requests, NEW n \in Nat, SendThrew(q, n),
         [Next]_vars
  PROVE  NonceInv'
  <1> DEFINE k == TaskOf[q]
  <1>0. PICK s \in Profiles, tx \in Tx :
          s = signer[q] /\ tx = [acct |-> s, nonce |-> n, op |-> Op(q), cred |-> Cred(q)]
    BY AttemptTypes DEF SendThrew
  <1>1. /\ Attempt(q, n) /\ mined' = mined /\ pool' = pool
        /\ inflight' \subseteq inflight \cup {tx}
        /\ uncertain' = [uncertain EXCEPT ![k] = @ \cup {s}]
        /\ nextNonce' = [nextNonce EXCEPT ![k][s] = n + 1]
    BY <1>0 DEF SendThrew, Attempt, Latch
  <1>2. s \in Profiles /\ k \in Tasks /\ Below(s, n)
    BY <1>0, <1>1, RequestParts, NonceIsNext
  <1>3. CoverGrows
    BY <1>1 DEF CoverGrows, Covered
  <1>4. ASSUME NEW x \in pool' \cup inflight'
        PROVE  x.acct \in Profiles /\ Below(x.acct, x.nonce)'
    <2>1. x.acct \in Profiles /\ Below(x.acct, x.nonce) /\ x.nonce \in Int
      <3>1. CASE x = tx
        BY <1>0, <1>2, <3>1
      <3>2. CASE x \in pool \cup inflight
        BY <3>2 DEF NonceInv, LaneInv, TypeOK, Tx
      <3>3. QED BY <1>1, <1>4, <3>1, <3>2
    <2>2. QED BY <1>3, <2>1, BelowKept
  <1>5. ASSUME NEW t \in Tasks, NEW p \in Profiles, p \notin uncertain'[t]
        PROVE  Below(p, nextNonce[t][p])'
    <2>1. p \notin uncertain[t] /\ ~(t = k /\ p = s)
      BY <1>1, <1>2, <1>5 DEF LaneInv, TypeOK
    <2>0. nextNonce[t][p] \in Int /\ Below(p, nextNonce[t][p])
      BY <2>1 DEF NonceInv, LaneInv, TypeOK, Unset
    <2>2. PICK j \in Int : j = nextNonce[t][p] /\ Below(p, j)
      BY <2>0
    <2>3. nextNonce'[t][p] = j
      BY <1>1, <1>2, <2>1, <2>2 DEF LaneInv, TypeOK
    <2>4. Below(p, j)'
      BY <1>3, <2>2, BelowKept
    <2>5. QED BY <2>3, <2>4 DEF Below
  <1>6. ASSUME NEW r \in Requests, pc'[r] \in InLane
        PROVE  LaneCertain(r)'
    <2>1. PICK z \in Steps \ InLane : Goto(q, z)
      BY DEF SendThrew, AfterFailure, Steps, InLane
    <2>2. r # q /\ signer'[r] = signer[r] /\ pc[r] = pc'[r]
      BY <1>6, <2>1, GotoMoves, TypeParts DEF LaneInv
    <2>3. AtHead(r) /\ AtHead(q) /\ LaneCertain(r)
      BY <1>1, <1>6, <2>2, AttemptTypes DEF LaneInv, HolderOK, NonceInv
    <2>4. ~(TaskOf[r] = k /\ signer[r] = s)
      BY <1>0, <2>2, <2>3 DEF AtHead, Lane
    <2>5. QED BY <1>1, <1>2, <2>2, <2>3, <2>4 DEF LaneCertain, LaneInv, TypeOK
  <1>7. QED BY <1>4, <1>5, <1>6 DEF NonceInv

LEMMA NonceStep ==
  ASSUME ~Evictions, LaneInv, NonceInv, [Next]_vars
  PROVE  NonceInv'
  <1>1. ASSUME NEW q \in Requests, Write(q) \/ RequestStep(q)
        PROVE  NonceInv'
    <2>1. CASE \E n \in 0 .. MaxNonce : SendAccepted(q, n) \/ SendThrew(q, n)
      BY <2>1, NonceAccepted, NonceThrew
    <2>2. CASE ~ \E n \in 0 .. MaxNonce : SendAccepted(q, n) \/ SendThrew(q, n)
      <3>1. UNCHANGED <<mined, pool, inflight, uncertain, nextNonce>>
        BY <1>1, <2>2
        DEF Write, RequestStep, EnterLane, Gate, Preflight, SkipRevoked, ReceiptConfirmed,
            WriteFailed, GateRefused, PrepareIssue, CommitIssue, StartRevoke, ClassifyActive,
            ClassifyRevoked, Reclassify, PersistRevocation, StartReconcile, Scan, Finalize,
            RequestError, chain, lanes
      <3>2. CoverGrows
        BY <3>1 DEF CoverGrows, Covered
      <3>3. QED BY <3>1, <3>2, NonceKept
    <2>3. QED BY <2>1, <2>2
  <1>2. CASE UNCHANGED <<mined, pool, inflight, uncertain, nextNonce>>
    <2>1. CoverGrows
      BY <1>2 DEF CoverGrows, Covered
    <2>2. QED BY <1>2, <2>1, NonceKept
  <1>3. ASSUME NEW t \in Tasks, Crash(t)
        PROVE  NonceInv'
    <2>1. /\ UNCHANGED <<mined, pool, inflight>>
          /\ uncertain' = [uncertain EXCEPT ![t] = {}]
          /\ nextNonce' = [nextNonce EXCEPT ![t] = [p \in Profiles |-> Unset]]
          /\ \A q \in Requests : pc'[q] \in InLane =>
               TaskOf[q] # t /\ pc[q] \in InLane /\ signer'[q] = signer[q]
      BY <1>3 DEF Crash, chain, InLane
    <2>2. \A x \in pool' \cup inflight' : x.acct \in Profiles /\ Below(x.acct, x.nonce)'
      BY <2>1 DEF NonceInv, Below, Covered
    <2>3. ASSUME NEW u \in Tasks, NEW p \in Profiles, p \notin uncertain'[u]
          PROVE  Below(p, nextNonce[u][p])'
      <3>1. CASE u = t
        <4>1. nextNonce'[u][p] = -1
          BY <2>1, <3>1 DEF LaneInv, TypeOK, Unset
        <4>2. 0 .. (-1) - 1 = {}
          OBVIOUS
        <4>3. QED BY <4>1, <4>2 DEF Below
      <3>2. CASE u # t
        <4>1. nextNonce'[u][p] = nextNonce[u][p] /\ uncertain'[u] = uncertain[u]
          BY <2>1, <3>2 DEF LaneInv, TypeOK
        <4>2. Below(p, nextNonce[u][p])
          BY <2>3, <4>1 DEF NonceInv
        <4>3. QED BY <2>1, <4>1, <4>2 DEF Below, Covered
      <3>3. QED BY <3>1, <3>2
    <2>4. \A q \in Requests : pc'[q] \in InLane => LaneCertain(q)'
      BY <2>1, RequestParts DEF NonceInv, LaneInv, TypeOK, LaneCertain
    <2>5. QED BY <2>2, <2>3, <2>4 DEF NonceInv
  <1>4. ASSUME NEW tx \in pool, Mine(tx) \/ Evict(tx)
        PROVE  NonceInv'
    <2>1. Mine(tx) /\ tx.acct \in Profiles
      BY <1>4 DEF Evict, NonceInv
    <2>2. /\ pool' \subseteq pool
          /\ UNCHANGED <<inflight, uncertain, nextNonce>>
      BY <2>1 DEF Mine, lanes
    <2>3. QED BY <2>1, <2>2, MineGrows, NonceKept
  <1>5. ASSUME NEW tx \in inflight, Deliver(tx)
        PROVE  NonceInv'
    <2>1. /\ mined' = mined /\ inflight' \subseteq inflight
          /\ pool' = pool \/ pool' = PoolWith(tx)
          /\ UNCHANGED <<uncertain, nextNonce>>
      BY <1>5 DEF Deliver, lanes
    <2>2. CoverGrows
      BY <2>1, PoolGrows DEF CoverGrows, Covered
    <2>3. \A x \in pool' \cup inflight' : x \in pool \cup inflight
      BY <1>5, <2>1 DEF PoolWith
    <2>4. QED BY <2>1, <2>2, <2>3, NonceKept
  <1>6. QED
    BY <1>1, <1>2, <1>3, <1>4, <1>5
    DEF Next, Environment, RotateAnchor, MarkCompromised, RegisterByStranger, vars, chain,
        lanes

\* On a node that drops nothing, no transaction ever waits behind a nonce
\* nobody sent: whatever sends throw, arrive late or never, whichever tasks
\* crash and however many of them share an account.
THEOREM NothingIsStuck == ASSUME ~Evictions PROVE Spec => []NoStuckTransaction
  <1>1. LaneInv /\ NonceInv => NoStuckTransaction
    <2> SUFFICES ASSUME LaneInv, NonceInv, NEW x \in pool, NEW n \in 0 .. x.nonce
                 PROVE  Covered(x.acct, n)
      BY DEF NoStuckTransaction
    <2>1. x.nonce \in Nat /\ Below(x.acct, x.nonce)
      BY DEF LaneInv, TypeOK, Tx, NonceInv
    <2>2. CASE n = x.nonce
      BY <2>2 DEF Covered
    <2>3. CASE n # x.nonce
      <3>1. n \in 0 .. x.nonce - 1
        BY <2>1, <2>3
      <3>2. QED BY <2>1, <3>1 DEF Below
    <2>4. QED BY <2>2, <2>3
  <1>2. Init => LaneInv /\ NonceInv
    BY LaneInit, NonceInit
  <1>3. LaneInv /\ NonceInv /\ [Next]_vars => LaneInv' /\ NonceInv'
    BY LaneStep, NonceStep
  <1>4. QED BY <1>1, <1>2, <1>3, PTL DEF Spec

-----------------------------------------------------------------------------
(* Part 5: the anchoring implements the life cycle of AnchoredCredential;    *)
(* requests, lanes, nonces, crashes and the node are stutters but for the    *)
(* five steps that matter.                                                   *)

\* Whatever the node holds was signed, and whatever the registry shows of a
\* hash has its counterpart in the database.
NodeInv ==
  /\ pool \subseteq attempts /\ inflight \subseteq attempts
  /\ \A c \in Credentials :
       /\ registered[c] # NoTx => record[c].status # "none"
       /\ revoked[c] # NoTx => Finalized(c)

LEMMA NodeInit == Init => NodeInv
  BY DEF Init, NodeInv

\* The attempts are never forgotten, and the database goes forwards.
LEMMA StepGrows ==
  ASSUME SafetyInv, [Next]_vars
  PROVE  RecordGrows /\ attempts \subseteq attempts'
  <1>1. attempts \subseteq attempts'
    <2>1. ASSUME NEW q \in Requests, Write(q)
          PROVE  attempts \subseteq attempts'
      BY <2>1
      DEF Write, EnterLane, Gate, Preflight, SkipRevoked, SendAccepted, SendThrew, Attempt,
          ReceiptConfirmed, WriteFailed, GateRefused, history
    <2>2. ASSUME NEW q \in Requests, RequestStep(q)
          PROVE  attempts' = attempts
      BY <2>2
      DEF RequestStep, PrepareIssue, CommitIssue, StartRevoke, ClassifyActive, ClassifyRevoked,
          Reclassify, PersistRevocation, StartReconcile, Scan, Finalize, RequestError, history
    <2>3. CASE Environment
      BY <2>3 DEF Environment, RotateAnchor, MarkCompromised, Crash, Mine, Evict, Deliver,
                  RegisterByStranger, history
    <2>4. CASE UNCHANGED vars
      BY <2>4 DEF vars
    <2>5. QED BY <2>1, <2>2, <2>3, <2>4 DEF Next
  <1>2. ASSUME UNCHANGED record
        PROVE  RecordGrows
    BY <1>2 DEF RecordGrows, Finalized
  <1>3. ASSUME NEW q \in Requests, CommitIssue(q) \/ Finalize(q) \/ PersistRevocation(q)
        PROVE  RecordGrows
    <2>1. Cred(q) \in Credentials /\ record \in [Credentials -> Record] /\ StagesAgree
      BY MoverFacts DEF SafetyInv, LaneInv, TypeOK, DatabaseInv
    <2>2. CASE CommitIssue(q)
      BY <2>1, <2>2 DEF CommitIssue, BindingStillHolds, RecordGrows, Finalized, StagesAgree
    <2>3. CASE Finalize(q)
      BY <2>1, <2>3 DEF Finalize, Finalizable, RecordGrows, Finalized
    <2>4. CASE PersistRevocation(q)
      BY <2>1, <2>4 DEF PersistRevocation, RecordGrows, Finalized
    <2>5. QED BY <1>3, <2>2, <2>3, <2>4
  <1>4. UNCHANGED record
          \/ \E q \in Requests : CommitIssue(q) \/ Finalize(q) \/ PersistRevocation(q)
    BY DEF Next, vars, Write, RequestStep, Environment, EnterLane, Gate, Preflight, SkipRevoked,
           SendAccepted, SendThrew, ReceiptConfirmed, WriteFailed, GateRefused,
           PrepareIssue, StartRevoke, ClassifyActive, ClassifyRevoked,
           Reclassify, StartReconcile, Scan, RequestError,
           RotateAnchor, MarkCompromised, Crash, Mine, Evict, Deliver, RegisterByStranger, db
  <1>5. QED BY <1>1, <1>2, <1>3, <1>4

\* What may touch the node and the registry.
LEMMA ChainSteps ==
  ASSUME [Next]_vars
  PROVE  \/ UNCHANGED <<registered, revoked, pool, inflight>>
         \/ \E q \in Requests, n \in Nat : SendAccepted(q, n) \/ SendThrew(q, n)
         \/ \E tx \in pool : Mine(tx) \/ Evict(tx)
         \/ \E tx \in inflight : Deliver(tx)
         \/ \E c \in Credentials : RegisterByStranger(c)
  <1>1. \A n \in 0 .. MaxNonce : n \in Nat
    OBVIOUS
  <1>2. QED
    BY <1>1
    DEF Next, vars, Write, RequestStep, Environment, EnterLane, Gate, Preflight, SkipRevoked,
        ReceiptConfirmed, WriteFailed, GateRefused,
        PrepareIssue, CommitIssue, StartRevoke, ClassifyActive, ClassifyRevoked,
        Reclassify, PersistRevocation, StartReconcile, Scan, Finalize, RequestError,
        RotateAnchor, MarkCompromised, Crash, chain

LEMMA NodeStep ==
  ASSUME SafetyInv, NodeInv, [Next]_vars
  PROVE  NodeInv'
  <1>1. RecordGrows /\ attempts \subseteq attempts'
    BY StepGrows
  <1>2. pool \subseteq attempts /\ inflight \subseteq attempts
    BY DEF NodeInv
  <1>3. \/ registered' = registered /\ revoked' = revoked
        \/ \E tx \in pool : Mine(tx)
        \/ \E c \in Credentials : RegisterByStranger(c)
    BY ChainSteps DEF SendAccepted, SendThrew, Evict, Deliver
  <1>4. pool' \subseteq attempts' /\ inflight' \subseteq attempts'
    <2>1. CASE UNCHANGED <<registered, revoked, pool, inflight>>
      BY <1>1, <1>2, <2>1
    <2>2. ASSUME NEW q \in Requests, NEW n \in Nat, SendAccepted(q, n) \/ SendThrew(q, n)
          PROVE  pool' \subseteq attempts' /\ inflight' \subseteq attempts'
      BY <1>1, <1>2, <2>2 DEF SendAccepted, SendThrew, Attempt, PoolWith
    <2>3. ASSUME NEW tx \in pool, Mine(tx) \/ Evict(tx)
          PROVE  pool' \subseteq attempts' /\ inflight' \subseteq attempts'
      BY <1>1, <1>2, <2>3 DEF Mine, Evict
    <2>4. ASSUME NEW tx \in inflight, Deliver(tx)
          PROVE  pool' \subseteq attempts' /\ inflight' \subseteq attempts'
      BY <1>1, <1>2, <2>4 DEF Deliver, PoolWith
    <2>5. ASSUME NEW c \in Credentials, RegisterByStranger(c)
          PROVE  pool' \subseteq attempts' /\ inflight' \subseteq attempts'
      BY <1>1, <1>2, <2>5 DEF RegisterByStranger
    <2>6. QED BY <2>1, <2>2, <2>3, <2>4, <2>5, ChainSteps
  <1>5. ASSUME NEW c \in Credentials
        PROVE  /\ registered'[c] # NoTx => record'[c].status # "none"
               /\ revoked'[c] # NoTx => Finalized(c)'
    <2>1. CASE registered'[c] = registered[c] /\ revoked'[c] = revoked[c]
      BY <1>1, <2>1 DEF NodeInv, RecordGrows
    <2>2. ASSUME NEW tx \in pool, Mine(tx)
          PROVE  /\ registered'[c] # NoTx => record'[c].status # "none"
                 /\ revoked'[c] # NoTx => Finalized(c)'
      <3>1. tx \in attempts /\ tx \in Tx
        BY <1>2 DEF SafetyInv, LaneInv, TypeOK
      <3>2. /\ record[tx.cred].status # "none"
            /\ tx.op = "revoke" => Finalized(tx.cred)
        BY <3>1 DEF SafetyInv, AttemptsInv, AttemptsRecorded, WritesFollowTheRecord, Finalized
      <3>3. registered'[c] = registered[c] \/ tx.cred = c
        BY <2>2 DEF Mine, SafetyInv, LaneInv, TypeOK
      <3>4. revoked'[c] = revoked[c] \/ (tx.cred = c /\ tx.op = "revoke")
        <4>1. CASE Revokes(tx)
          BY <2>2, <4>1 DEF Mine, Revokes, SafetyInv, LaneInv, TypeOK
        <4>2. CASE ~Revokes(tx)
          <5>1. revoked' = revoked
            BY <2>2, <4>2 DEF Mine
          <5>2. QED BY <5>1
        <4>3. QED BY <4>1, <4>2
      <3>5. QED BY <1>1, <3>2, <3>3, <3>4 DEF NodeInv, RecordGrows
    <2>3. ASSUME NEW d \in Credentials, RegisterByStranger(d)
          PROVE  /\ registered'[c] # NoTx => record'[c].status # "none"
                 /\ revoked'[c] # NoTx => Finalized(c)'
      <3>1. record[d].status # "none" /\ revoked' = revoked
        BY <2>3 DEF RegisterByStranger, SafetyInv, DatabaseInv, StagesAgree
      <3>2. registered'[c] = registered[c] \/ c = d
        BY <2>3 DEF RegisterByStranger, SafetyInv, LaneInv, TypeOK
      <3>3. QED BY <1>1, <3>1, <3>2 DEF NodeInv, RecordGrows
    <2>4. QED BY <1>3, <2>1, <2>2, <2>3
  <1>6. QED BY <1>4, <1>5 DEF NodeInv

-----------------------------------------------------------------------------
(* The refinement mapping.                                                   *)

SameStage(d)  == StageOf(d)' = StageOf(d)
SameChain(d)  == ChainOf(d)' = ChainOf(d)
SameAnchor(d) == record'[d].anchor = record[d].anchor
Same(d)       == SameStage(d) /\ SameChain(d) /\ SameAnchor(d)

LEMMA MapsStutter ==
  ASSUME \A d \in Credentials : Same(d)
  PROVE  UNCHANGED Lifecycle!vars
  BY DEF Same, SameStage, SameChain, SameAnchor, Lifecycle!vars

LEMMA MapsIssue ==
  ASSUME NEW c \in Credentials, \A d \in Credentials \ {c} : Same(d), SameChain(c),
         StageOf(c) = "draft", StageOf(c)' = "pending", record'[c].anchor \in Profiles
  PROVE  Lifecycle!Next
  <1>1. Lifecycle!Issue(c)
    BY DEF Same, SameStage, SameChain, SameAnchor, Lifecycle!Issue
  <1>2. QED BY <1>1 DEF Lifecycle!Next

LEMMA MapsStage ==
  ASSUME NEW c \in Credentials, \A d \in Credentials \ {c} : Same(d),
         SameChain(c), SameAnchor(c),
         \/ StageOf(c) = "pending" /\ ChainOf(c) = "anchored" /\ StageOf(c)' = "registered"
         \/ StageOf(c) = "registered" /\ ChainOf(c) = "revoked" /\ StageOf(c)' = "revoked"
  PROVE  Lifecycle!Next
  <1>1. Lifecycle!Adopt(c) \/ Lifecycle!MarkRevoked(c)
    BY DEF Same, SameStage, SameChain, SameAnchor, Lifecycle!Adopt, Lifecycle!MarkRevoked
  <1>2. QED BY <1>1 DEF Lifecycle!Next

LEMMA MapsChain ==
  ASSUME NEW c \in Credentials, \A d \in Credentials \ {c} : Same(d),
         SameStage(c), SameAnchor(c),
         \/ /\ StageOf(c) # "draft" /\ ChainOf(c) = "absent"
            /\ ChainOf(c)' \in {"anchored", "foreign"}
         \/ StageOf(c) = "registered" /\ ChainOf(c) = "anchored" /\ ChainOf(c)' = "revoked"
  PROVE  Lifecycle!Next
  <1>1. Lifecycle!RegisterOnChain(c) \/ Lifecycle!RevokeOnChain(c)
    BY DEF Same, SameStage, SameChain, SameAnchor,
           Lifecycle!RegisterOnChain, Lifecycle!RevokeOnChain
  <1>2. QED BY <1>1 DEF Lifecycle!Next

-----------------------------------------------------------------------------
(* The five steps that are not stutters.                                     *)

\* A credential whose row and whose registry entry stay is the same.
LEMMA SameRow ==
  ASSUME NEW d \in Credentials, record'[d] = record[d], credential'[d] = credential[d],
         registered'[d] = registered[d], revoked'[d] = revoked[d]
  PROVE  Same(d)
  BY DEF Same, SameStage, SameChain, SameAnchor, StageOf, ChainOf

\* "draft" is a stage of the credential, never of its record.
LEMMA StatusFacts ==
  ASSUME SafetyInv, NEW c \in Credentials
  PROVE  record[c].status # "draft"
  <1>1. record[c].status \in {"none", "pending", "registered", "revoked"}
    BY DEF SafetyInv, LaneInv, TypeOK, Record
  <1>2. QED BY <1>1

LEMMA RefinesCommitIssue ==
  ASSUME SafetyInv, NodeInv, NEW q \in Requests, CommitIssue(q)
  PROVE  Lifecycle!Next
  <1> DEFINE c == Cred(q)
             r == [status |-> "pending", anchor |-> signer[q], tx |-> NoTx]
  <1>1. c \in Credentials /\ signer[q] \in Profiles
    BY MoverFacts DEF CommitIssue
  <1>2. /\ record' = [record EXCEPT ![c] = r] /\ credential' = [credential EXCEPT ![c] = "issued"]
        /\ credential[c] = "draft" /\ registered' = registered /\ revoked' = revoked
    BY DEF CommitIssue, BindingStillHolds, chain
  <1>3. /\ record'[c] = r /\ credential'[c] = "issued"
        /\ \A d \in Credentials \ {c} : record'[d] = record[d] /\ credential'[d] = credential[d]
    BY <1>1, <1>2 DEF SafetyInv, LaneInv, TypeOK
  <1>4. r.status = "pending" /\ r.anchor = signer[q]
    OBVIOUS
  <1> HIDE DEF c, r
  <1>5. \A d \in Credentials \ {c} : Same(d)
    BY <1>2, <1>3, SameRow
  <1>6. registered[c] = NoTx
    BY <1>1, <1>2 DEF NodeInv, SafetyInv, DatabaseInv, StagesAgree
  <1>7. SameChain(c)
    BY <1>2, <1>6 DEF SameChain, ChainOf
  <1>8. StageOf(c) = "draft" /\ StageOf(c)' = "pending" /\ record'[c].anchor \in Profiles
    BY <1>1, <1>2, <1>3, <1>4 DEF StageOf
  <1>9. QED BY <1>1, <1>5, <1>7, <1>8, MapsIssue

LEMMA RefinesRecordEnds ==
  ASSUME SafetyInv, NodeInv, NEW q \in Requests, Finalize(q) \/ PersistRevocation(q),
         record' # record \/ credential' # credential
  PROVE  Lifecycle!Next
  <1> DEFINE c == Cred(q)
  <1>1. c \in Credentials /\ RequestSafe(q) /\ StagesAgree
    BY MoverFacts DEF SafetyInv, DatabaseInv
  <1>2. /\ record \in [Credentials -> Record]
        /\ credential \in [Credentials -> {"draft", "issued", "revoked"}]
        /\ registered' = registered /\ revoked' = revoked
    BY DEF SafetyInv, LaneInv, TypeOK, Finalize, PersistRevocation, chain
  <1>3. CASE Finalize(q)
    <2> DEFINE r == [status |-> "registered", anchor |-> record[c].anchor, tx |-> txOf[q]]
    <2>1. /\ pc[q] = "finalizing" /\ record[c].status = "pending" /\ record[c].anchor = signer[q]
          /\ record' = [record EXCEPT ![c] = r] /\ credential' = credential
      BY <1>3 DEF Finalize, Finalizable
    <2>2. record'[c] = r /\ \A d \in Credentials \ {c} : record'[d] = record[d]
      BY <1>1, <1>2, <2>1
    <2>3. r.status = "registered" /\ r.anchor = record[c].anchor
      OBVIOUS
    <2>4. registered[c] # NoTx /\ registered[c].acct = record[c].anchor
      BY <1>1, <2>1 DEF RequestSafe
    <2> HIDE DEF r
    <2>5. \A d \in Credentials \ {c} : Same(d)
      BY <1>2, <2>1, <2>2, SameRow
    <2>6. SameChain(c) /\ SameAnchor(c)
      BY <1>2, <2>2, <2>3 DEF SameChain, SameAnchor, ChainOf
    <2>7. revoked[c] = NoTx
      BY <1>1, <2>1 DEF NodeInv, Finalized
    <2>8. StageOf(c) = "pending" /\ StageOf(c)' = "registered" /\ ChainOf(c) = "anchored"
      BY <1>1, <2>1, <2>2, <2>3, <2>4, <2>7 DEF StageOf, ChainOf, StagesAgree
    <2> HIDE DEF c
    <2>9. QED BY <1>1, <2>5, <2>6, <2>8, MapsStage
  <1>4. CASE PersistRevocation(q)
    <2> DEFINE r == [status |-> "revoked", anchor |-> record[c].anchor, tx |-> record[c].tx]
    <2>1. pc[q] = "persisting" /\ credential[c] = "issued"
      BY <1>4 DEF PersistRevocation
    <2>2. record[c].status = "registered" /\ CanSeeRevoked(c, signer[q]) /\ signer[q] = record[c].anchor
      BY <1>1, <2>1, MoverFacts DEF RequestSafe, Finalized, StagesAgree, StepFor
    <2>3. record' = [record EXCEPT ![c] = r] /\ credential' = [credential EXCEPT ![c] = "revoked"]
      BY <1>4, <2>1, <2>2 DEF PersistRevocation
    <2>4. /\ record'[c] = r /\ credential'[c] = "revoked"
          /\ \A d \in Credentials \ {c} : record'[d] = record[d] /\ credential'[d] = credential[d]
      BY <1>1, <1>2, <2>3
    <2>5. r.status = "revoked" /\ r.anchor = record[c].anchor
      OBVIOUS
    <2> HIDE DEF r
    <2>6. \A d \in Credentials \ {c} : Same(d)
      BY <1>2, <2>4, SameRow
    <2>7. SameChain(c) /\ SameAnchor(c)
      BY <1>2, <2>4, <2>5 DEF SameChain, SameAnchor, ChainOf
    <2>8. StageOf(c) = "registered" /\ StageOf(c)' = "revoked" /\ ChainOf(c) = "revoked"
      BY <2>1, <2>2, <2>4, <2>5 DEF StageOf, ChainOf, CanSeeRevoked, CanSeeActive
    <2> HIDE DEF c
    <2>9. QED BY <1>1, <2>6, <2>7, <2>8, MapsStage
  <1>5. QED BY <1>3, <1>4

LEMMA RefinesMine ==
  ASSUME SafetyInv, NodeInv, NEW tx \in pool, Mine(tx)
  PROVE  Lifecycle!Next \/ UNCHANGED Lifecycle!vars
  <1> DEFINE c == tx.cred
  <1>1. tx \in Tx /\ c \in Credentials /\ tx \in attempts
    BY DEF SafetyInv, LaneInv, TypeOK, Tx, NodeInv
  <1>2. /\ record' = record /\ credential' = credential
        /\ registered' = IF Registers(tx) THEN [registered EXCEPT ![c] = tx] ELSE registered
        /\ revoked' = IF Revokes(tx) THEN [revoked EXCEPT ![c] = tx] ELSE revoked
    BY DEF Mine, db
  <1>3. /\ registered \in [Credentials -> Tx \cup {NoTx}]
        /\ revoked \in [Credentials -> Tx \cup {NoTx}]
        /\ StagesAgree /\ RegistrySound
    BY DEF SafetyInv, LaneInv, TypeOK, DatabaseInv
  <1>4. /\ record[c].status # "none" /\ tx.acct = record[c].anchor
        /\ tx.op = "revoke" => Finalized(c)
    BY <1>1 DEF SafetyInv, AttemptsInv, AttemptsRecorded, WritesFollowTheRecord, Finalized
  <1>5. tx # NoTx
    BY <1>1, ValueAssumption
  <1>6. /\ StageOf(c) # "draft" /\ StageOf(c) = record[c].status
        /\ SameStage(c) /\ SameAnchor(c)
    <2>1. credential[c] # "draft" /\ record[c].status # "draft"
      BY <1>1, <1>3, <1>4, StatusFacts DEF StagesAgree
    <2> HIDE DEF c
    <2>2. QED BY <1>2, <2>1 DEF StageOf, SameStage, SameAnchor
  <1> HIDE DEF c
  <1>7. CASE Registers(tx)
    <2>1. registered[c] = NoTx /\ registered'[c] = tx /\ revoked' = revoked
      BY <1>1, <1>2, <1>3, <1>7 DEF Registers, Revokes, c
    <2>2. \A d \in Credentials \ {c} : Same(d)
      BY <1>2, <1>3, <1>7, <2>1, SameRow
    <2>3. revoked[c] = NoTx
      BY <1>1, <1>3, <2>1 DEF RegistrySound
    <2>4. ChainOf(c) = "absent" /\ ChainOf(c)' \in {"anchored", "foreign"}
      BY <1>5, <2>1, <2>3 DEF ChainOf
    <2>5. QED BY <1>1, <1>6, <2>2, <2>4, MapsChain
  <1>8. CASE Revokes(tx)
    <2>1. /\ registered[c] # NoTx /\ registered[c].acct = tx.acct /\ revoked[c] = NoTx
          /\ registered' = registered /\ revoked'[c] = tx /\ tx.op = "revoke"
      BY <1>1, <1>2, <1>3, <1>8 DEF Registers, Revokes, c
    <2>2. \A d \in Credentials \ {c} : Same(d)
      BY <1>2, <1>3, <1>8, <2>1, SameRow
    <2>3. record[c].status = "registered"
      BY <1>1, <1>4, <2>1 DEF Finalized, SafetyInv, DatabaseInv, DatabaseFollowsChain
    <2>4. ChainOf(c) = "anchored" /\ ChainOf(c)' = "revoked"
      BY <1>2, <1>4, <1>5, <2>1 DEF ChainOf
    <2>5. QED BY <1>1, <1>6, <2>2, <2>3, <2>4, MapsChain
  <1>9. CASE ~Registers(tx) /\ ~Revokes(tx)
    <2>1. registered' = registered /\ revoked' = revoked
      BY <1>2, <1>9
    <2>2. QED BY <1>2, <2>1, SameRow, MapsStutter
  <1>10. QED BY <1>7, <1>8, <1>9

LEMMA RefinesStranger ==
  ASSUME SafetyInv, NodeInv, NEW c \in Credentials, RegisterByStranger(c)
  PROVE  Lifecycle!Next
  <1> DEFINE tx == [acct |-> Stranger, nonce |-> 0, op |-> "register", cred |-> c]
  <1>1. /\ registered[c] = NoTx /\ registered' = [registered EXCEPT ![c] = tx]
        /\ record' = record /\ credential' = credential /\ revoked' = revoked
        /\ credential[c] # "draft"
    BY DEF RegisterByStranger, db
  <1>2. tx # NoTx
    <2>1. tx \in Tx
      BY DEF Tx
    <2>2. QED BY <2>1, ValueAssumption
  <1> HIDE DEF tx
  <1>3. registered'[c] = tx /\ \A d \in Credentials \ {c} : registered'[d] = registered[d]
    BY <1>1 DEF SafetyInv, LaneInv, TypeOK
  <1>4. \A d \in Credentials \ {c} : Same(d)
    BY <1>1, <1>3, SameRow
  <1>5. /\ StageOf(c) # "draft" /\ SameStage(c) /\ SameAnchor(c)
    BY <1>1, StatusFacts DEF StageOf, SameStage, SameAnchor
  <1>6. revoked[c] = NoTx
    BY <1>1 DEF SafetyInv, DatabaseInv, RegistrySound
  <1>7. ChainOf(c) = "absent" /\ ChainOf(c)' \in {"anchored", "foreign"}
    BY <1>1, <1>2, <1>3, <1>6 DEF ChainOf
  <1>8. QED BY <1>4, <1>5, <1>7, MapsChain

-----------------------------------------------------------------------------
\* Every other step leaves what the life cycle sees.
LEMMA SeenSteps ==
  ASSUME [Next]_vars
  PROVE  \/ UNCHANGED <<credential, record, registered, revoked>>
         \/ \E q \in Requests : CommitIssue(q) \/ Finalize(q) \/ PersistRevocation(q)
         \/ \E tx \in pool : Mine(tx)
         \/ \E c \in Credentials : RegisterByStranger(c)
  BY DEF Next, vars, Write, RequestStep, Environment, EnterLane, Gate, Preflight, SkipRevoked,
         SendAccepted, SendThrew, ReceiptConfirmed, WriteFailed, GateRefused,
         PrepareIssue, StartRevoke, ClassifyActive, ClassifyRevoked,
         Reclassify, StartReconcile, Scan, RequestError,
         RotateAnchor, MarkCompromised, Crash, Evict, Deliver, db, chain

LEMMA StepRefines ==
  ASSUME SafetyInv, NodeInv, [Next]_vars
  PROVE  [Lifecycle!Next]_Lifecycle!vars
  <1>1. ASSUME UNCHANGED <<credential, record, registered, revoked>>
        PROVE  UNCHANGED Lifecycle!vars
    BY <1>1, SameRow, MapsStutter
  <1>2. ASSUME NEW q \in Requests, Finalize(q) \/ PersistRevocation(q)
        PROVE  Lifecycle!Next \/ UNCHANGED Lifecycle!vars
    <2>1. UNCHANGED <<registered, revoked>>
      BY <1>2 DEF Finalize, PersistRevocation, chain
    <2>2. QED BY <1>1, <1>2, <2>1, RefinesRecordEnds
  <1>3. QED
    BY <1>1, <1>2, SeenSteps, RefinesCommitIssue, RefinesMine, RefinesStranger

\* The anchoring implements its life cycle: the database adopts only what the
\* chain registered for the anchor of the intent, the chain revokes only what
\* the database had adopted, and neither ever goes back.
THEOREM AnchoringRefines == Spec => RefinesLifecycle
  <1>1. Init => Lifecycle!Init
    BY DEF Init, Lifecycle!Init, StageOf, ChainOf, NoRecord
  <1>2. Init => SafetyInv /\ NodeInv
    BY SafetyInit, NodeInit
  <1>3. SafetyInv /\ NodeInv /\ [Next]_vars => SafetyInv' /\ NodeInv'
    BY SafetyStep, NodeStep
  <1>4. SafetyInv /\ NodeInv /\ [Next]_vars => [Lifecycle!Next]_Lifecycle!vars
    BY StepRefines
  <1>5. QED BY <1>1, <1>2, <1>3, <1>4, PTL DEF Spec, RefinesLifecycle, Lifecycle!Spec

=============================================================================
