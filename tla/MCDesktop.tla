----------------------------- MODULE MCDesktop -----------------------------
(* The stores of the desktop's main process. They share the vault's lock,   *)
(* which each models for itself, and no record; so each is explored while   *)
(* the others are still untouched (and, of the two starts of the wallets,   *)
(* in one).                                                                 *)
EXTENDS Authority, Vault, Wallets, Launch, TLC

CONSTANTS s1, j1, m1, m2
OneSession == [j \in Jobs |-> s1]
OwnName == [s \in Services |-> s]
Symmetric == Permutations(Slots) \cup Permutations(Grants) \cup Permutations(Clicks)

DesktopInit == AuthInit /\ VaultInit /\ WalletsInit /\ LaunchInit

NoWallets == WalletsInit /\ recorded
AuthorityOnly == LaunchInit /\ VaultInit /\ NoWallets /\ UNCHANGED <<vaultVars, walletVars, launchVars>>
VaultOnly == LaunchInit /\ AuthInit /\ NoWallets /\ UNCHANGED <<authVars, walletVars, launchVars>>
WalletsOnly == LaunchInit /\ AuthInit /\ VaultInit /\ UNCHANGED <<authVars, vaultVars, launchVars>>
LaunchOnly == AuthInit /\ VaultInit /\ NoWallets /\ UNCHANGED <<authVars, vaultVars, walletVars>>

(* Bounds of the launch. The mints are generated in order. A lock comes    *)
(* while a call awaits something; locks, chats, verification and recovery  *)
(* end before there is a second mint.                                      *)
Awaiting == \E c \in Clicks : click[c].pc \notin {"idle", "showing"}
FewCalls == m2 \in made =>
  /\ m1 \in made
  /\ \A kind \in {"chat", "verify", "recover"} : ~Ongoing(kind)
LaunchBound ==
  /\ FewCalls'
  /\ vaultFree /\ ~vaultFree' => m2 \notin made /\ Awaiting

DesktopNext ==
  \/ AuthorityOnly /\ AuthNext
  \/ VaultOnly /\ VaultNext
  \/ WalletsOnly /\ WalletsNext
  \/ LaunchOnly /\ LaunchNext /\ LaunchBound

DesktopSpec == DesktopInit /\ [][DesktopNext]_<<authVars, vaultVars, walletVars, launchVars>>

DesktopTypeOK == AuthTypeOK /\ VaultTypeOK /\ WalletsTypeOK /\ LaunchTypeOK
=============================================================================
