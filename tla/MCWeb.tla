------------------------------- MODULE MCWeb -------------------------------
(* The web application: accounts, delegated authority and bridge proposals. *)
(* They meet in the session of a request alone, which each models for       *)
(* itself; each is explored while the others are still untouched.           *)
EXTENDS WebAuthority, WebIdentity, WebBridge, TLC

CONSTANTS e1, s1, s2
NamespaceOf == [a \in Addresses |-> IF a = e1 THEN "evm" ELSE "solana"]
Symmetric == Permutations(Requests) \cup Permutations(Handlers)

WebInit == WebAuthInit /\ IdentityInit /\ BridgeInit

NoBridge == BridgeInit /\ route = "solana"
WebNext ==
  \/ WebAuthNext /\ IdentityInit /\ NoBridge /\ UNCHANGED <<identityVars, bridgeVars>>
  \/ IdentityNext /\ WebAuthInit /\ NoBridge /\ UNCHANGED <<webAuthVars, bridgeVars>>
  \/ BridgeNext /\ WebAuthInit /\ IdentityInit /\ UNCHANGED <<webAuthVars, identityVars>>

WebSpec == WebInit /\ [][WebNext]_<<webAuthVars, identityVars, bridgeVars>>

WebTypeOK == WebAuthTypeOK /\ IdentityTypeOK /\ BridgeTypeOK
=============================================================================
