--------------------------- MODULE MCReasoningRun ---------------------------
(***************************************************************************)
(* Instances of ReasoningRun for TLC.                                      *)
(***************************************************************************)
EXTENDS ReasoningRun, TLC

CONSTANTS r1, e1, e2, e3, p1, p2, m1, m2, v1, v2

MCRunOf == [e \in Executions |-> r1]

\* e2 runs in a process of another policy version, e3 of another model.
MCPolicyOf ==
  [e \in Executions |-> IF e = e2 /\ p2 \in Policies THEN p2 ELSE p1]
MCModelOf ==
  [e \in Executions |-> IF e = e3 /\ m2 \in Models THEN m2 ELSE m1]

ValueSymmetry == Permutations(Values)
=============================================================================
