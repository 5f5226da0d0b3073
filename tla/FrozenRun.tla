----------------------------- MODULE FrozenRun ------------------------------
(***************************************************************************)
(* What a reasoning run promises to who reads it: an append-only record.   *)
(* It is open until it completes or fails; while open it learns, once      *)
(* each, the facts of its stages; its outcome is made of those facts and   *)
(* appears together with its completion; what has ended never changes.     *)
(* Who executes it, how often and how it is retried is not visible.        *)
(***************************************************************************)
CONSTANTS Runs, SlotStages, Artifact, Result, None

VARIABLES phase, fact, outcome

vars == <<phase, fact, outcome>>

Init ==
  /\ phase = [r \in Runs |-> "absent"]
  /\ fact = [r \in Runs |-> [s \in SlotStages |-> None]]
  /\ outcome = [r \in Runs |-> None]

\* The run is frozen, open or already failed.
Create(r) ==
  /\ phase[r] = "absent"
  /\ \E born \in {"open", "failed"} : phase' = [phase EXCEPT ![r] = born]
  /\ UNCHANGED <<fact, outcome>>

\* A stage leaves its artifact.
Learn(r, s) ==
  /\ phase[r] = "open"
  /\ fact[r][s] = None
  /\ \E a \in Artifact : fact' = [fact EXCEPT ![r][s] = a]
  /\ UNCHANGED <<phase, outcome>>

\* The run ends with a result made of its facts.
Complete(r) ==
  /\ phase[r] = "open"
  /\ \A s \in SlotStages : fact[r][s] # None
  /\ \E res \in Result :
       /\ res.objective = fact[r]["objective"]
       /\ res.evidence = fact[r]["evidence"]
       /\ outcome' = [outcome EXCEPT ![r] = res]
  /\ phase' = [phase EXCEPT ![r] = "completed"]
  /\ UNCHANGED fact

\* The run ends without one, and keeps what it learned.
Fail(r) ==
  /\ phase[r] = "open"
  /\ phase' = [phase EXCEPT ![r] = "failed"]
  /\ UNCHANGED <<fact, outcome>>

Next ==
  \E r \in Runs :
    \/ Create(r)
    \/ \E s \in SlotStages : Learn(r, s)
    \/ Complete(r)
    \/ Fail(r)

Spec == Init /\ [][Next]_vars
=============================================================================
