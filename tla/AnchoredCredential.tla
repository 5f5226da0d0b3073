------------------------- MODULE AnchoredCredential -------------------------
(***************************************************************************)
(* What the anchoring subsystem promises about one credential and its      *)
(* on-chain counterpart, with no requests, lanes, transactions or crashes: *)
(* the database follows the chain and never runs ahead of it.              *)
(*                                                                         *)
(*   - a credential is issued together with a pending intent that names    *)
(*     the account (anchor) expected to register it, once and for all;     *)
(*   - the database says "registered" only after the chain registered the  *)
(*     hash for that very account, and "revoked" only after the chain      *)
(*     revoked it;                                                         *)
(*   - the chain revokes only what the database already knew registered;   *)
(*   - no stage is ever left backwards, on either side.                    *)
(***************************************************************************)
CONSTANTS Credentials, Profiles, NoProfile

VARIABLES
  stage,    \* what the database says of a credential
  chain,    \* what the registry contract says of its hash
  anchor    \* the account the intent was committed for

vars == <<stage, chain, anchor>>

Init ==
  /\ stage = [c \in Credentials |-> "draft"]
  /\ chain = [c \in Credentials |-> "absent"]
  /\ anchor = [c \in Credentials |-> NoProfile]

\* Issuance: the credential and its pending intent become durable together.
Issue(c) ==
  /\ stage[c] = "draft"
  /\ \E p \in Profiles : anchor' = [anchor EXCEPT ![c] = p]
  /\ stage' = [stage EXCEPT ![c] = "pending"]
  /\ UNCHANGED chain

\* The hash of an issued credential is registered: by the anchor of its
\* intent ("anchored") or by an account that is not its anchor ("foreign").
RegisterOnChain(c) ==
  /\ stage[c] # "draft"
  /\ chain[c] = "absent"
  /\ \E s \in {"anchored", "foreign"} : chain' = [chain EXCEPT ![c] = s]
  /\ UNCHANGED <<stage, anchor>>

\* The database adopts the registration it observed.
Adopt(c) ==
  /\ stage[c] = "pending"
  /\ chain[c] = "anchored"
  /\ stage' = [stage EXCEPT ![c] = "registered"]
  /\ UNCHANGED <<chain, anchor>>

\* Only a registration the database already adopted is revoked.
RevokeOnChain(c) ==
  /\ stage[c] = "registered"
  /\ chain[c] = "anchored"
  /\ chain' = [chain EXCEPT ![c] = "revoked"]
  /\ UNCHANGED <<stage, anchor>>

MarkRevoked(c) ==
  /\ stage[c] = "registered"
  /\ chain[c] = "revoked"
  /\ stage' = [stage EXCEPT ![c] = "revoked"]
  /\ UNCHANGED <<chain, anchor>>

Next ==
  \E c \in Credentials :
    Issue(c) \/ RegisterOnChain(c) \/ Adopt(c) \/ RevokeOnChain(c) \/ MarkRevoked(c)

Spec == Init /\ [][Next]_vars
=============================================================================
