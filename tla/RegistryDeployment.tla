------------------------- MODULE RegistryDeployment -------------------------
(***************************************************************************)
(* The tool that deploys CredentialRegistry                                *)
(* (services/api/src/blockchain/deployment): a read-only gate, one send,   *)
(* two readings of what the chain shows and a manifest that is published   *)
(* once.  A run is one execution of the tool, with one deployer account    *)
(* and one directory of manifests for all; runs overlap, processes die,    *)
(* answers are lost, the pool forgets transactions and the chain           *)
(* reorganises.                                                            *)
(*                                                                         *)
(* A step of a run is what it does between two awaits.  The contract of a  *)
(* transaction has the address that follows from its nonce, so addresses,  *)
(* deployment ids and manifests are named by nonces.                       *)
(***************************************************************************)
EXTENDS Naturals, Sequences, FiniteSets

CONSTANTS
  Runs,          \* executions of the tool with --execute
  None,
  Confirmations, \* DEPLOYMENT_ACCEPTANCE_CONFIRMATIONS
  Depth,         \* bound: how far below the top a reorganisation reaches
  MaxHeight,     \* bound: blocks of the chain
  MaxReorgs,     \* bound: reorganisations
  Faults         \* whether runs die and answers are lost

Wallet == "wallet"   \* the deployer account used by hand
Senders == Runs \cup {Wallet}
Nonces  == 0..Cardinality(Senders)

VARIABLES
  \* --- the chain and the pool of the provider
  chain,    \* blocks: the fork they are of, and the deployer's transaction
  top,      \* the highest block there ever was
  reorgs,   \* reorganisations so far
  deepest,  \* how far below the top they reached
  pool,     \* transactions of the deployer that may be mined
  seen,     \* those the provider counts as pending
  sent,     \* runs whose transaction was ever accepted
  \* --- runs
  pc, told, nonce, ready, first, second,
  confirmedAtGate, \* whose transactions the gate counted as confirmed
  \* --- files
  temporary, manifests

deployVars == <<chain, top, reorgs, deepest, pool, seen, sent, pc, told, nonce, ready,
                first, second, confirmedAtGate, temporary, manifests>>

Txs == [by : Senders, nonce : Nonces]
Tx(r) == [by |-> r, nonce |-> nonce[r]]

States == {"idle", "latest", "create", "manifest", "estimate", "send", "wait",
           "code", "transaction", "block", "threshold", "reread", "open",
           "fill", "publish", "clean", "ended", "dead"}
\* What the operator is told; only the last three follow a known transaction.
Answers == {"not ready", "ambiguous send", "pending reconciliation",
            "evidence rejected", "manifest not persisted", "finalized"}

ChainBlocks == [fork : 0..MaxReorgs, tx : Txs \cup {None}, ok : BOOLEAN]
Observations == [number : 1..MaxHeight, fork : 0..MaxReorgs]
Manifests == [by : Runs, at : Observations, whole : BOOLEAN]

ASSUME BoundsAssumption ==
  /\ Confirmations \in Nat \ {0} /\ Depth \in Nat
  /\ MaxHeight \in Nat /\ MaxReorgs \in Nat /\ Faults \in BOOLEAN
ASSUME NamesAssumption ==
  /\ IsFiniteSet(Runs) /\ Wallet \notin Runs
  /\ None \notin Senders \cup Txs \cup Observations \cup Manifests \cup Answers

DeployTypeOK ==
  /\ chain \in Seq(ChainBlocks)
  /\ Len(chain) <= top /\ top \in 0..MaxHeight
  /\ reorgs \in 0..MaxReorgs /\ deepest \in 0..Depth
  /\ pool \subseteq Txs /\ seen \subseteq pool /\ sent \subseteq Runs
  /\ pc \in [Runs -> States] /\ told \in [Runs -> Answers \cup {None}]
  /\ nonce \in [Runs -> Nonces] /\ ready \in [Runs -> BOOLEAN]
  /\ first \in [Runs -> Observations \cup {None}]
  /\ second \in [Runs -> Observations \cup {None}]
  /\ confirmedAtGate \in [Runs -> SUBSET Senders]
  /\ temporary \in [Runs -> {"none", "partial", "complete"}]
  /\ manifests \in [Nonces -> Manifests \cup {None}]

DeployInit ==
  /\ chain = <<>> /\ top = 0 /\ reorgs = 0 /\ deepest = 0
  /\ pool = {} /\ seen = {} /\ sent = {}
  /\ pc = [r \in Runs |-> "idle"] /\ told = [r \in Runs |-> None]
  /\ nonce = [r \in Runs |-> 0] /\ ready = [r \in Runs |-> TRUE]
  /\ first = [r \in Runs |-> None] /\ second = [r \in Runs |-> None]
  /\ confirmedAtGate = [r \in Runs |-> {}]
  /\ temporary = [r \in Runs |-> "none"]
  /\ manifests = [n \in Nonces |-> None]

-----------------------------------------------------------------------------
(* What the provider answers.                                              *)

Mined == {chain[h].tx : h \in 1..Len(chain)} \ {None}
LatestNonce == Cardinality(Mined)

\* The nonces that follow the confirmed ones without a gap.
Queued ==
  {n \in Nonces : LatestNonce <= n /\ \A m \in LatestNonce..n : \E t \in seen : t.nonce = m}
PendingNonce == LatestNonce + Cardinality(Queued)

HeightOf(t) == CHOOSE h \in 1..Len(chain) : chain[h].tx = t
Receipt(t)  == [number |-> HeightOf(t), fork |-> chain[HeightOf(t)].fork]
Succeeded(t) == \E h \in 1..Len(chain) : chain[h].tx = t /\ chain[h].ok

\* The reviewed contract is at the address of a nonce.
HasContract(n) ==
  \E h \in 1..Len(chain) :
    chain[h].tx # None /\ chain[h].tx.nonce = n /\ chain[h].ok /\ chain[h].tx.by \in Runs

-----------------------------------------------------------------------------
(* The chain.                                                              *)

Mine ==
  /\ Len(chain) < MaxHeight
  /\ \E t \in {None} \cup {x \in pool : x.nonce = LatestNonce}, ok \in BOOLEAN :
       /\ ok \/ (Faults /\ t # None)
       /\ chain' = Append(chain, [fork |-> reorgs, tx |-> t, ok |-> ok])
       /\ pool' = pool \ {t} /\ seen' = seen \ {t}
  /\ top' = IF Len(chain) = top THEN top + 1 ELSE top
  /\ UNCHANGED <<reorgs, deepest, sent, pc, told, nonce, ready, first, second,
                 confirmedAtGate, temporary, manifests>>

\* The last blocks are abandoned for a longer fork, which others follow; their
\* transactions return to the pool.
Reorganise ==
  /\ reorgs < MaxReorgs
  /\ \E d \in 1..Depth :
       /\ d <= Len(chain) /\ top <= Len(chain) - d + Depth
       /\ chain' = SubSeq(chain, 1, Len(chain) - d)
       /\ LET undone == {chain[h].tx : h \in (Len(chain) - d + 1)..Len(chain)} \ {None} IN
            pool' = pool \cup undone /\ seen' = seen \cup undone
       /\ LET under == top - (Len(chain) - d) IN
            deepest' = IF under > deepest THEN under ELSE deepest
  /\ reorgs' = reorgs + 1
  /\ UNCHANGED <<top, sent, pc, told, nonce, ready, first, second, confirmedAtGate,
                 temporary, manifests>>

\* The provider stops counting a transaction that may still be mined, or the
\* transaction is gone.
Forget ==
  /\ Faults
  /\ \E t \in seen :
       seen' = seen \ {t} /\ (UNCHANGED pool \/ pool' = pool \ {t})
  /\ UNCHANGED <<chain, top, reorgs, deepest, sent, pc, told, nonce, ready, first, second,
                 confirmedAtGate, temporary, manifests>>

\* The holder of the keystore sends something else, once.
SendByHand ==
  /\ \A t \in pool \cup Mined : t.by # Wallet
  /\ LET t == [by |-> Wallet, nonce |-> PendingNonce] IN
       pool' = pool \cup {t} /\ seen' = seen \cup {t}
  /\ UNCHANGED <<chain, top, reorgs, deepest, sent, pc, told, nonce, ready, first, second,
                 confirmedAtGate, temporary, manifests>>

-----------------------------------------------------------------------------
(* The steps of a run.                                                     *)

Goes(r, where) == pc' = [pc EXCEPT ![r] = where] /\ UNCHANGED told
Ends(r, answer) ==
  /\ pc' = [pc EXCEPT ![r] = "ended"]
  /\ told' = [told EXCEPT ![r] = answer]

\* Every blocker is collected and the gate reads on.
Observes(r, fine) == ready' = [ready EXCEPT ![r] = @ /\ fine]

\* Source, toolchain, artifact, chain and keystore have been checked: the
\* pending nonce is read, on which the address depends.
ReadPending(r) ==
  /\ pc[r] = "idle"
  /\ \/ /\ nonce' = [nonce EXCEPT ![r] = PendingNonce]
        /\ Goes(r, "latest")
     \/ Faults /\ Ends(r, "not ready") /\ UNCHANGED nonce
  /\ UNCHANGED <<chain, top, reorgs, deepest, pool, seen, sent, ready, first, second,
                 confirmedAtGate, temporary, manifests>>

\* pending is the truth, latest only contrasts.
NothingPending(r) == LatestNonce = nonce[r]

ReadLatest(r) ==
  /\ pc[r] = "latest"
  /\ \/ /\ Observes(r, NothingPending(r))
        /\ confirmedAtGate' = [confirmedAtGate EXCEPT ![r] = {t.by : t \in Mined}]
     \/ Faults /\ Observes(r, FALSE) /\ UNCHANGED confirmedAtGate
  /\ Goes(r, "create")
  /\ UNCHANGED <<chain, top, reorgs, deepest, pool, seen, sent, nonce, first, second,
                 temporary, manifests>>

\* Neither code nor a nonce at the address of the contract to be.
ReadCreateAddress(r) ==
  /\ pc[r] = "create"
  /\ \/ Observes(r, ~HasContract(nonce[r]))
     \/ Faults /\ Observes(r, FALSE)
  /\ Goes(r, "manifest")
  /\ UNCHANGED <<chain, top, reorgs, deepest, pool, seen, sent, nonce, first, second,
                 confirmedAtGate, temporary, manifests>>

\* The file system answers that there is no manifest also when it cannot tell.
ReadManifest(r) ==
  /\ pc[r] = "manifest"
  /\ \/ Observes(r, manifests[nonce[r]] = None)
     \/ Faults /\ Observes(r, TRUE)
  /\ Goes(r, "estimate")
  /\ UNCHANGED <<chain, top, reorgs, deepest, pool, seen, sent, nonce, first, second,
                 confirmedAtGate, temporary, manifests>>

\* Gas, fees and balance; then the gate is ready or nothing is sent.
Estimate(r) ==
  /\ pc[r] = "estimate"
  /\ UNCHANGED ready
  /\ \/ ready[r] /\ Goes(r, "send")
     \/ (~ready[r] \/ Faults) /\ Ends(r, "not ready")
  /\ UNCHANGED <<chain, top, reorgs, deepest, pool, seen, sent, nonce, first, second,
                 confirmedAtGate, temporary, manifests>>

\* The nonce of the gate is sent, not another.
SendOnce(r) == Tx(r)

\* Mutant of SendFailure: taken for one more check that failed before the send.
NotReadyAfterAll == "not ready"

\* What a send that throws, or answers no hash, is reported as.
SendFailure == "ambiguous send"

\* sendDeployment, the only one.  A node refuses a nonce that is spent and may
\* refuse any other; a hash that is not answered is ambiguous.
Send(r) ==
  LET t == SendOnce(r)
      accepted == /\ t.nonce >= LatestNonce
                  /\ pool' = pool \cup {t} /\ seen' = seen \cup {t}
                  /\ sent' = sent \cup {r} IN
  /\ pc[r] = "send"
  /\ \/ accepted /\ Goes(r, "wait")
     \/ Faults /\ accepted /\ Ends(r, SendFailure)
     \/ Ends(r, SendFailure) /\ UNCHANGED <<pool, seen, sent>>
  /\ UNCHANGED <<chain, top, reorgs, deepest, nonce, ready, first, second, confirmedAtGate,
                 temporary, manifests>>

\* The receipt the wait answers with, whatever its confirmations; a timeout, a
\* replacement or an outage leaves the deployment pending.
Wait(r) ==
  /\ pc[r] = "wait"
  /\ \/ /\ Tx(r) \in Mined
        /\ first' = [first EXCEPT ![r] = Receipt(Tx(r))]
        /\ IF Succeeded(Tx(r)) THEN Goes(r, "code") ELSE Ends(r, "evidence rejected")
     \/ Ends(r, "pending reconciliation") /\ UNCHANGED first
  /\ UNCHANGED <<chain, top, reorgs, deepest, pool, seen, sent, nonce, ready, second,
                 confirmedAtGate, temporary, manifests>>

\* The reading that is under way: the first, or the one after the threshold.
Reading(r) == IF second[r] = None THEN first[r] ELSE second[r]

\* Contradicted evidence is rejected; a read that fails leaves it pending.
Verifies(r, holds, next) ==
  \/ holds /\ Goes(r, next)
  \/ ~holds /\ Ends(r, "evidence rejected")
  \/ Faults /\ Ends(r, "pending reconciliation")

ReadCode(r) ==
  /\ pc[r] = "code"
  /\ Verifies(r, HasContract(nonce[r]), "transaction")
  /\ UNCHANGED <<chain, top, reorgs, deepest, pool, seen, sent, nonce, ready, first, second,
                 confirmedAtGate, temporary, manifests>>

ReadTransaction(r) ==
  /\ pc[r] = "transaction"
  /\ Verifies(r, Tx(r) \in Mined \cup seen, "block")
  /\ UNCHANGED <<chain, top, reorgs, deepest, pool, seen, sent, nonce, ready, first, second,
                 confirmedAtGate, temporary, manifests>>

\* The block at the height of the receipt has the hash of the receipt.
InBlock(at) == at.number \in 1..Len(chain) /\ chain[at.number].fork = at.fork

\* The second reading shows what the first one did.
Agrees(r) == InBlock(second[r]) /\ second[r] = first[r]

ReadBlock(r) ==
  /\ pc[r] = "block"
  /\ IF second[r] = None
     THEN Verifies(r, InBlock(first[r]), "threshold")
     ELSE Verifies(r, Agrees(r), "open")
  /\ UNCHANGED <<chain, top, reorgs, deepest, pool, seen, sent, nonce, ready, first, second,
                 confirmedAtGate, temporary, manifests>>

\* Mutant of DeepEnough: the block after the head counts too.
DeepEnoughByOne(r) == Len(chain) + 2 >= first[r].number + Confirmations

\* The threshold, measured apart from the wait.
DeepEnough(r) == Len(chain) + 1 >= first[r].number + Confirmations

ReadHeight(r) ==
  /\ pc[r] = "threshold"
  /\ \/ DeepEnough(r) /\ Goes(r, "reread")
     \/ (~DeepEnough(r) \/ Faults) /\ Ends(r, "pending reconciliation")
  /\ UNCHANGED <<chain, top, reorgs, deepest, pool, seen, sent, nonce, ready, first, second,
                 confirmedAtGate, temporary, manifests>>

ReadReceipt(r) ==
  /\ pc[r] = "reread"
  /\ \/ /\ Succeeded(Tx(r))
        /\ second' = [second EXCEPT ![r] = Receipt(Tx(r))]
        /\ Goes(r, "code")
     \/ /\ ~Succeeded(Tx(r))
        /\ Ends(r, "evidence rejected") /\ UNCHANGED second
     \/ Faults /\ Ends(r, "pending reconciliation") /\ UNCHANGED second
  /\ UNCHANGED <<chain, top, reorgs, deepest, pool, seen, sent, nonce, ready, first,
                 confirmedAtGate, temporary, manifests>>

-----------------------------------------------------------------------------
(* FileManifestStore.writeNew.                                             *)

\* Best effort: the temporary file may stay.
Discards(r) ==
  \/ UNCHANGED temporary
  \/ temporary' = [temporary EXCEPT ![r] = "none"]

NotPersisted(r) == Ends(r, "manifest not persisted") /\ Discards(r)

OpenTemporary(r) ==
  /\ pc[r] = "open"
  /\ \/ temporary' = [temporary EXCEPT ![r] = "partial"] /\ Goes(r, "fill")
     \/ NotPersisted(r)
  /\ UNCHANGED <<chain, top, reorgs, deepest, pool, seen, sent, nonce, ready, first, second,
                 confirmedAtGate, manifests>>

\* All the bytes, fsync and close.
FillTemporary(r) ==
  /\ pc[r] = "fill"
  /\ \/ temporary' = [temporary EXCEPT ![r] = "complete"] /\ Goes(r, "publish")
     \/ NotPersisted(r)
  /\ UNCHANGED <<chain, top, reorgs, deepest, pool, seen, sent, nonce, ready, first, second,
                 confirmedAtGate, manifests>>

Manifest(r) == [by |-> r, at |-> second[r], whole |-> temporary[r] = "complete"]

\* link: the whole file appears at once, and never over another.
Publish(r) ==
  /\ pc[r] = "publish"
  /\ \/ /\ manifests[nonce[r]] = None
        /\ manifests' = [manifests EXCEPT ![nonce[r]] = Manifest(r)]
        /\ Goes(r, "clean") /\ UNCHANGED temporary
     \/ NotPersisted(r) /\ UNCHANGED manifests
  /\ UNCHANGED <<chain, top, reorgs, deepest, pool, seen, sent, nonce, ready, first, second,
                 confirmedAtGate>>

CleanUp(r) ==
  /\ pc[r] = "clean"
  /\ Discards(r) /\ Ends(r, "finalized")
  /\ UNCHANGED <<chain, top, reorgs, deepest, pool, seen, sent, nonce, ready, first, second,
                 confirmedAtGate, manifests>>

Die(r) ==
  /\ Faults /\ pc[r] \notin {"idle", "ended", "dead"}
  /\ Goes(r, "dead")
  /\ UNCHANGED <<chain, top, reorgs, deepest, pool, seen, sent, nonce, ready, first, second,
                 confirmedAtGate, temporary, manifests>>

-----------------------------------------------------------------------------
Gate(r) ==
  ReadPending(r) \/ ReadLatest(r) \/ ReadCreateAddress(r) \/ ReadManifest(r) \/ Estimate(r)
Observe(r) ==
  Wait(r) \/ ReadCode(r) \/ ReadTransaction(r) \/ ReadBlock(r) \/ ReadHeight(r) \/ ReadReceipt(r)
Persist(r) == OpenTemporary(r) \/ FillTemporary(r) \/ Publish(r) \/ CleanUp(r)

Environment == Mine \/ Reorganise \/ Forget \/ SendByHand
DeployNext ==
  Environment \/ \E r \in Runs : Gate(r) \/ Send(r) \/ Observe(r) \/ Persist(r) \/ Die(r)

DeploySpec == DeployInit /\ [][DeployNext]_deployVars

-----------------------------------------------------------------------------
(* Properties.                                                             *)

\* The confirmed transaction of a run.
Deployed(r) == \E h \in 1..Len(chain) : chain[h].tx # None /\ chain[h].tx.by = r /\ chain[h].ok

\* A manifest names a contract that is on the chain, in that block, for good:
\* no reorganisation shallower than the confirmations asked for undoes what
\* two readings and the height between them have shown.
ManifestsAreFinal ==
  deepest < Confirmations =>
    \A n \in DOMAIN manifests :
      LET m == manifests[n] IN
        m # None =>
          /\ InBlock(m.at)
          /\ chain[m.at.number].tx = [by |-> m.by, nonce |-> n] /\ chain[m.at.number].ok

\* Runs that overlap deploy one contract: a second one is only deployed by a
\* run whose gate found the first one confirmed.  (A reorganisation may put
\* the transaction of a run in the place of another of the same nonce.)
RacesDeployOnce ==
  reorgs = 0 =>
    \A r, q \in DOMAIN pc :
      r # q /\ Deployed(r) /\ Deployed(q) => r \in confirmedAtGate[q] \/ q \in confirmedAtGate[r]

\* Whoever is told that nothing was ready knows that nothing was sent: what
\* reached the node always ends in an answer that asks for a reconciliation,
\* unless the process died.
NothingSentUnreported == \A r \in sent : told[r] # "not ready"

\* A manifest is whole since it has a name, whatever failed on the way.
ManifestsAreWhole ==
  \A n \in DOMAIN manifests : manifests[n] # None => manifests[n].whole

\* A run that ended finalized has its own manifest, not one it ran into.
FinalizedHasItsManifest ==
  \A r \in DOMAIN told : told[r] = "finalized" =>
    manifests[nonce[r]] # None /\ manifests[nonce[r]].by = r

\* A manifest that was published is neither replaced nor removed, also when a
\* deep reorganisation gave its address to another transaction.
ManifestsAreAppendOnly ==
  [][\A n \in DOMAIN manifests :
       manifests[n] # None => manifests'[n] = manifests[n]]_deployVars

\* What a run of the tool answers and what it leaves agree, whatever failed on
\* the way.
ManifestsTellTheirRun ==
  NothingSentUnreported /\ ManifestsAreWhole /\ FinalizedHasItsManifest

\* What a manifest names stays: it is the contract of one deployment, that no
\* reorganisation takes back, and nothing is written over it.
DeploymentsLast == [](ManifestsAreFinal /\ RacesDeployOnce) /\ ManifestsAreAppendOnly
=============================================================================
