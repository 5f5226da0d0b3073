-------------------------- MODULE MCSignerRotation --------------------------
(***************************************************************************)
(* Instances of SignerRotation for TLC.                                    *)
(***************************************************************************)
EXTENDS SignerRotation, TLC

Symmetry == Permutations(Issuers) \cup Permutations(Calls)
=============================================================================
