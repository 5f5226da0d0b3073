----------------------- MODULE MCCredentialAnchoring -----------------------
(***************************************************************************)
(* Instances of CredentialAnchoring for TLC.                               *)
(***************************************************************************)
EXTENDS CredentialAnchoring, TLC

CONSTANTS c1, c2, i1, i2, p1, p2, t1, t2, iss1, iss2, rev1, rev2, rec1

MCIssuerOf == [c \in Credentials |-> IF c = c1 THEN i1 ELSE i2]

\* The second issuance is of the second credential when there is one.
MCCredentialOf ==
  [q \in Requests |-> IF q = iss2 /\ c2 \in Credentials THEN c2 ELSE c1]

\* With two tasks, the second requests of each kind run in the second one.
MCTaskOf ==
  [q \in Requests |-> IF q \in {iss2, rev2} /\ t2 \in Tasks THEN t2 ELSE t1]

\* Every issuer starts with the same shared anchor.
MCInitialAnchor == [i \in Issuers |-> p1]
=============================================================================
