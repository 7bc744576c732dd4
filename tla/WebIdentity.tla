----------------------------- MODULE WebIdentity -----------------------------
(***************************************************************************)
(* Accounts of the web application: a wallet signs a challenge to open a   *)
(* session, and a session links the wallet of the other namespace with a   *)
(* second challenge. Every await of the database lets other requests run,  *)
(* and a request may end at any of them. An account is named by the        *)
(* address it was opened with, which the database keeps unique.            *)
(***************************************************************************)
EXTENDS Naturals

CONSTANTS Addresses, \* wallets
          Namespace, \* the namespace of a wallet, solana or evm
          Proofs,    \* challenges that may be issued
          Handlers,  \* verify requests in flight
          NoAddress  \* stands for what is undefined

ASSUME WebIdentityAssumption == NoAddress \notin Addresses

VARIABLES account, \* accounts that exist
          linked,  \* the account a wallet is linked to
          proof,   \* the challenges
          opened,  \* sessions opened with each login challenge
          session, \* the last of them
          handler

database == <<account, linked, proof, opened, session>>
identityVars == <<database, handler>>

MaybeAddress == Addresses \cup {NoAddress}
(* A login challenge names no account, a link challenge that of a session. *)
ProofRecords == [status : {"none", "open", "expired", "used"},
                 address : MaybeAddress, by : MaybeAddress]
NoProof == [status |-> "none", address |-> NoAddress, by |-> NoAddress]
SessionRecords == [user : MaybeAddress, address : MaybeAddress, live : BOOLEAN]
NoSession == [user |-> NoAddress, address |-> NoAddress, live |-> FALSE]
Awaits == {"idle", "consuming", "finding", "naming", "opening account", "linking",
           "opening session", "assigning", "owning", "adding"}
HandlerRecords == [pc : Awaits, proof : Proofs \cup {NoAddress}, user : MaybeAddress]
Resting == [pc |-> "idle", proof |-> NoAddress, user |-> NoAddress]

IdentityInit ==
  /\ account = {}
  /\ linked = [a \in Addresses |-> NoAddress]
  /\ proof = [c \in Proofs |-> NoProof]
  /\ opened = [c \in Proofs |-> 0]
  /\ session = [c \in Proofs |-> NoSession]
  /\ handler = [h \in Handlers |-> Resting]

Wallet(h) == proof[handler[h].proof].address
Awaiting(h, pc) == handler[h].pc = pc
Await(h, pc) == handler' = [handler EXCEPT ![h].pc = pc]
AwaitFor(h, pc, u) == handler' = [handler EXCEPT ![h].pc = pc, ![h].user = u]
Answer(h) == handler' = [handler EXCEPT ![h] = Resting]

-----------------------------------------------------------------------------
(* auth/wallet/challenge, wallets/evm/challenge, wallets/solana/challenge  *)

IssueLogin(c, a) ==
  /\ proof[c].status = "none"
  /\ proof' = [proof EXCEPT ![c] = [status |-> "open", address |-> a, by |-> NoAddress]]
  /\ UNCHANGED <<account, linked, opened, session, handler>>

Serves(c, u) == session[c].live /\ session[c].user = u

IssueLink(c, a, u) ==
  /\ proof[c].status = "none"
  /\ \E d \in Proofs : Serves(d, u)
  /\ proof' = [proof EXCEPT ![c] = [status |-> "open", address |-> a, by |-> u]]
  /\ UNCHANGED <<account, linked, opened, session, handler>>

ExpireProof(c) ==
  /\ proof[c].status = "open"
  /\ proof' = [proof EXCEPT ![c].status = "expired"]
  /\ UNCHANGED <<account, linked, opened, session, handler>>

(* Both verify routes read the challenge, check the signature and consume  *)
(* the challenge with one conditional update.                              *)
Present(h, c) ==
  /\ Awaiting(h, "idle")
  /\ proof[c].status = "open"
  /\ proof[c].by # NoAddress => \E d \in Proofs : Serves(d, proof[c].by)
  /\ handler' = [handler EXCEPT ![h] =
       [Resting EXCEPT !.pc = "consuming", !.proof = c, !.user = proof[c].by]]
  /\ UNCHANGED database

UnusedMutant(c) == proof[c].status \in {"open", "used"}
Unused(c) == proof[c].status = "open"

ConsumeProof(h) ==
  LET c == handler[h].proof IN
  /\ Awaiting(h, "consuming")
  /\ IF Unused(c)
     THEN /\ proof' = [proof EXCEPT ![c].status = "used"]
          /\ Await(h, IF proof[c].by = NoAddress THEN "finding" ELSE "assigning")
     ELSE Answer(h) /\ UNCHANGED proof
  /\ UNCHANGED <<account, linked, opened, session>>

(* The database is unreachable, or the process ends.                       *)
HandlerFails(h) ==
  /\ ~Awaiting(h, "idle")
  /\ Answer(h)
  /\ UNCHANGED database

-----------------------------------------------------------------------------
(* auth/wallet/verify: the account of the wallet, made when there is none  *)

FindLinked(h) ==
  LET u == linked[Wallet(h)] IN
  /\ Awaiting(h, "finding")
  /\ AwaitFor(h, IF u # NoAddress THEN "opening session" ELSE "naming", u)
  /\ UNCHANGED database

FindAccount(h) ==
  /\ Awaiting(h, "naming")
  /\ IF Wallet(h) \in account THEN AwaitFor(h, "linking", Wallet(h)) ELSE Await(h, "opening account")
  /\ UNCHANGED database

OpenAccount(h) ==
  /\ Awaiting(h, "opening account")
  /\ IF Wallet(h) \in account
     THEN Answer(h) /\ UNCHANGED account
     ELSE account' = account \cup {Wallet(h)} /\ AwaitFor(h, "linking", Wallet(h))
  /\ UNCHANGED <<linked, proof, opened, session>>

(* One record per wallet, and one per account and namespace.               *)
IndexedMutant(a, u) == linked[a] # NoAddress
Indexed(a, u) == linked[a] # NoAddress \/
  \E b \in Addresses : linked[b] = u /\ Namespace[b] = Namespace[a]

(* A record that could not be made must be one of the same account.        *)
SameOwnerMutant(a, u) == linked[a] # NoAddress
SameOwner(a, u) == linked[a] = u

LinkOnLogin(h) ==
  LET a == Wallet(h)  u == handler[h].user IN
  /\ Awaiting(h, "linking")
  /\ IF Indexed(a, u)
     THEN /\ IF SameOwner(a, u) THEN Await(h, "opening session") ELSE Answer(h)
          /\ UNCHANGED linked
     ELSE linked' = [linked EXCEPT ![a] = u] /\ Await(h, "opening session")
  /\ UNCHANGED <<account, proof, opened, session>>

OpenSession(h) ==
  LET c == handler[h].proof IN
  /\ Awaiting(h, "opening session")
  /\ opened[c] < 2
  /\ opened' = [opened EXCEPT ![c] = @ + 1]
  /\ session' = [session EXCEPT ![c] =
       [user |-> handler[h].user, address |-> Wallet(h), live |-> TRUE]]
  /\ Answer(h)
  /\ UNCHANGED <<account, linked, proof>>

(* It expires, or its cookie is cleared.                                   *)
EndSession(c) ==
  /\ session[c].live
  /\ session' = [session EXCEPT ![c].live = FALSE]
  /\ UNCHANGED <<account, linked, proof, opened, handler>>

-----------------------------------------------------------------------------
(* wallets/evm/verify, wallets/solana/verify: one wallet per namespace     *)

Assigned(u, n) == {b \in Addresses : linked[b] = u /\ Namespace[b] = n}
  \cup (IF Namespace[u] = n THEN {u} ELSE {})

CheckAssigned(h) ==
  /\ Awaiting(h, "assigning")
  /\ IF Assigned(handler[h].user, Namespace[Wallet(h)]) \subseteq {Wallet(h)}
     THEN Await(h, "owning") ELSE Answer(h)
  /\ UNCHANGED database

CheckOwner(h) ==
  LET owner == linked[Wallet(h)] IN
  /\ Awaiting(h, "owning")
  /\ IF owner = NoAddress THEN Await(h, "adding") ELSE Answer(h)
  /\ UNCHANGED database

AddWallet(h) ==
  LET a == Wallet(h)  u == handler[h].user IN
  /\ Awaiting(h, "adding")
  /\ linked' = IF Indexed(a, u) THEN linked ELSE [linked EXCEPT ![a] = u]
  /\ Answer(h)
  /\ UNCHANGED <<account, proof, opened, session>>

IdentityNext ==
  \/ \E c \in Proofs :
       \/ ExpireProof(c) \/ EndSession(c)
       \/ \E a \in Addresses : IssueLogin(c, a) \/ \E u \in account : IssueLink(c, a, u)
       \/ \E h \in Handlers : Present(h, c)
  \/ \E h \in Handlers :
       \/ ConsumeProof(h) \/ HandlerFails(h)
       \/ FindLinked(h) \/ FindAccount(h) \/ OpenAccount(h) \/ LinkOnLogin(h) \/ OpenSession(h)
       \/ CheckAssigned(h) \/ CheckOwner(h) \/ AddWallet(h)

IdentitySpec == IdentityInit /\ [][IdentityNext]_identityVars

-----------------------------------------------------------------------------
(* Properties *)

IdentityTypeOK ==
  /\ account \subseteq Addresses
  /\ linked \in [Addresses -> MaybeAddress]
  /\ proof \in [Proofs -> ProofRecords]
  /\ opened \in [Proofs -> 0..2]
  /\ session \in [Proofs -> SessionRecords]
  /\ handler \in [Handlers -> HandlerRecords]

(* What requireWalletAuth lets a session ask for: the wallet it was opened *)
(* with, the first wallet of its account and the linked ones.              *)
Scope(c) == {session[c].address, session[c].user}
  \cup {a \in Addresses : linked[a] = session[c].user}

(* A wallet is served to the sessions of one account only, though a login  *)
(* with a wallet may race its being linked to another account and leave an *)
(* account behind that was opened with it.                                 *)
ScopesAreDisjoint == \A c, d \in Proofs :
  session[c].live /\ session[d].live /\ session[c].user # session[d].user =>
    Scope(c) \cap Scope(d) = {}

(* An account has one wallet of each namespace, its first one included.    *)
OneWalletPerNamespace == \A u \in account, a, b \in Addresses :
  linked[a] = u /\ linked[b] = u /\ Namespace[a] = Namespace[b] => a = b

(* A signature opens one session, however often it is sent.                *)
OneSessionPerSignature == \A c \in Proofs : opened[c] <= 1
=============================================================================
