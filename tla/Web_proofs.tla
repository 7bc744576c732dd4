----------------------------- MODULE Web_proofs -----------------------------
(* Theorems about the web application: accounts, their wallets and their    *)
(* sessions, for every set of wallets, namespaces, challenges and requests  *)
(* in flight; delegated authority, for every set of wallets, challenges and *)
(* requests in flight, whatever the database makes of a missing field; and  *)
(* bridge proposals, for any number of transactions.                        *)
EXTENDS MCWeb, FiniteSetTheorems, TLAPS

-----------------------------------------------------------------------------
(* Accounts, wallets and sessions *)

(* Types *)

HandlersTyped == handler \in [Handlers -> HandlerRecords]

LEMMA RestingType == Resting \in HandlerRecords
BY DEF Resting, HandlerRecords, Awaits, MaybeAddress

LEMMA AwaitType ==
    ASSUME HandlersTyped, NEW h \in Handlers, NEW pc \in Awaits, Await(h, pc)
    PROVE  HandlersTyped'
BY DEF HandlersTyped, Await, HandlerRecords

LEMMA AwaitForType ==
    ASSUME HandlersTyped, NEW h \in Handlers, NEW pc \in Awaits,
           NEW u \in MaybeAddress, AwaitFor(h, pc, u)
    PROVE  HandlersTyped'
BY DEF HandlersTyped, AwaitFor, HandlerRecords

LEMMA AnswerType ==
    ASSUME HandlersTyped, NEW h \in Handlers, Answer(h)
    PROVE  HandlersTyped'
BY RestingType DEF HandlersTyped, Answer

\* A request in flight goes by a challenge that was issued, for a wallet.
Issued(c) == c \in Proofs /\ proof[c].status # "none"
HoldsProof(h) == ~Awaiting(h, "idle") => Issued(handler[h].proof)
Addressed == \A c \in Proofs : proof[c].status # "none" => proof[c].address \in Addresses

Typed == IdentityTypeOK /\ Addressed /\ \A h \in Handlers : HoldsProof(h)

LEMMA WalletIs ==
    ASSUME Typed, NEW h \in Handlers, ~Awaiting(h, "idle")
    PROVE  Wallet(h) \in Addresses /\ handler[h].proof \in Proofs
BY DEF Typed, Addressed, HoldsProof, Issued, Wallet

LEMMA IdentityInitType == IdentityInit => Typed
BY RestingType
   DEF IdentityInit, Typed, IdentityTypeOK, Addressed, HoldsProof, Awaiting, Resting, NoProof,
       NoSession, ProofRecords, SessionRecords, MaybeAddress

\* The challenges that were issued stay for the same wallet and account.
ProofsKept == \A c \in Proofs : proof[c].status # "none" =>
    /\ proof'[c].status # "none"
    /\ proof'[c].address = proof[c].address
    /\ proof'[c].by = proof[c].by

\* What a request that moves is then, and that the others stay as they are.
LEMMA Awaits1 ==
    ASSUME HandlersTyped, NEW h \in Handlers, NEW pc, Await(h, pc)
    PROVE  /\ \A q \in Handlers : q # h => handler'[q] = handler[q]
           /\ handler'[h].pc = pc
           /\ handler'[h].proof = handler[h].proof /\ handler'[h].user = handler[h].user
BY DEF HandlersTyped, Await, HandlerRecords

LEMMA Awaits2 ==
    ASSUME HandlersTyped, NEW h \in Handlers, NEW pc, NEW u, AwaitFor(h, pc, u)
    PROVE  /\ \A q \in Handlers : q # h => handler'[q] = handler[q]
           /\ handler'[h].pc = pc
           /\ handler'[h].proof = handler[h].proof /\ handler'[h].user = u
BY DEF HandlersTyped, AwaitFor, HandlerRecords

LEMMA Answers ==
    ASSUME HandlersTyped, NEW h \in Handlers, Answer(h)
    PROVE  /\ \A q \in Handlers : q # h => handler'[q] = handler[q]
           /\ handler'[h].pc = "idle"
BY DEF HandlersTyped, Answer, Resting

\* A request that moves keeps its challenge, or is answered.
OneMoves(h) ==
    /\ \A q \in Handlers : q # h => handler'[q] = handler[q]
    /\ handler'[h].proof = handler[h].proof \/ handler'[h].pc = "idle"

LEMMA HoldsMoved ==
    ASSUME Typed, ProofsKept, NEW h \in Handlers, ~Awaiting(h, "idle"), OneMoves(h)
    PROVE  \A q \in Handlers : HoldsProof(q)'
<1>1. HoldsProof(h)'
  BY DEF Typed, ProofsKept, HoldsProof, Issued, Awaiting, OneMoves
<1>2. ASSUME NEW q \in Handlers, q # h PROVE HoldsProof(q)'
  BY <1>2 DEF Typed, ProofsKept, HoldsProof, Issued, Awaiting, OneMoves
<1> QED BY <1>1, <1>2

LEMMA HoldsStill ==
    ASSUME Typed, ProofsKept, handler' = handler
    PROVE  \A q \in Handlers : HoldsProof(q)'
BY DEF Typed, ProofsKept, HoldsProof, Issued, Awaiting

LEMMA SameProofs == ASSUME UNCHANGED proof PROVE ProofsKept
BY DEF ProofsKept

LEMMA IdentityStepType == Typed /\ [IdentityNext]_identityVars => Typed'
<1> SUFFICES ASSUME Typed, [IdentityNext]_identityVars PROVE Typed'
  OBVIOUS
<1> USE DEF Typed
<1>0. HandlersTyped
  BY DEF IdentityTypeOK, HandlersTyped
<1>1. ASSUME NEW c \in Proofs, NEW a \in Addresses, NEW u \in MaybeAddress,
             proof[c].status = "none",
             proof' = [proof EXCEPT ![c] = [status |-> "open", address |-> a, by |-> u]],
             UNCHANGED <<account, linked, opened, session, handler>>
      PROVE  Typed'
  <2>1. proof' \in [Proofs -> ProofRecords] /\ Addressed' /\ ProofsKept
    BY <1>1 DEF IdentityTypeOK, Addressed, ProofsKept, ProofRecords, MaybeAddress
  <2> QED BY <1>1, <2>1, HoldsStill DEF IdentityTypeOK
<1>2. ASSUME NEW c \in Proofs, NEW a \in Addresses,
             IssueLogin(c, a) \/ \E u \in account : IssueLink(c, a, u)
      PROVE  Typed'
  BY <1>1, <1>2 DEF IssueLogin, IssueLink, IdentityTypeOK, MaybeAddress
<1>3. ASSUME NEW c \in Proofs, ExpireProof(c) PROVE Typed'
  <2>1. proof' \in [Proofs -> ProofRecords] /\ Addressed' /\ ProofsKept
    BY <1>3 DEF ExpireProof, IdentityTypeOK, Addressed, ProofsKept, ProofRecords
  <2> QED BY <1>3, <2>1, HoldsStill DEF ExpireProof, IdentityTypeOK
<1>4. ASSUME NEW c \in Proofs, EndSession(c) PROVE Typed'
  <2>1. session' \in [Proofs -> SessionRecords]
    BY <1>4 DEF EndSession, IdentityTypeOK, SessionRecords
  <2> QED BY <1>4, <2>1, SameProofs, HoldsStill DEF EndSession, IdentityTypeOK, Addressed
<1>5. ASSUME NEW h \in Handlers, NEW c \in Proofs, Present(h, c) PROVE Typed'
  <2> DEFINE taken == [Resting EXCEPT !.pc = "consuming", !.proof = c, !.user = proof[c].by]
  <2>1. handler' = [handler EXCEPT ![h] = taken]
    BY <1>5 DEF Present
  <2>2. proof[c].by \in MaybeAddress
    BY DEF IdentityTypeOK, ProofRecords
  <2>3. taken \in HandlerRecords /\ taken.proof = c
    BY <2>2, RestingType DEF Resting, HandlerRecords, Awaits
  <2> HIDE DEF taken
  <2>4. HandlersTyped'
    BY <1>0, <2>1, <2>3 DEF HandlersTyped
  <2>5. \A q \in Handlers : HoldsProof(q)'
    BY <1>0, <1>5, <2>1, <2>3 DEF Present, HandlersTyped, HoldsProof, Issued, Awaiting, database
  <2> QED BY <1>5, <2>4, <2>5 DEF Present, database, IdentityTypeOK, HandlersTyped, Addressed
<1>6. ASSUME NEW h \in Handlers, ConsumeProof(h) PROVE Typed'
  <2>1. ~Awaiting(h, "idle")
    BY <1>6 DEF ConsumeProof, Awaiting
  <2>2. proof' \in [Proofs -> ProofRecords] /\ Addressed' /\ ProofsKept
    BY <1>6, <2>1, WalletIs, SMTT(60)
       DEF ConsumeProof, IdentityTypeOK, Addressed, ProofsKept, ProofRecords, Unused
  <2>3. HandlersTyped' /\ OneMoves(h)
    BY <1>0, <1>6, AwaitType, AnswerType, Awaits1, Answers DEF ConsumeProof, OneMoves, Awaits
  <2> QED BY <1>6, <2>1, <2>2, <2>3, HoldsMoved DEF ConsumeProof, IdentityTypeOK, HandlersTyped
<1>7. ASSUME NEW h \in Handlers,
             HandlerFails(h) \/ FindLinked(h) \/ FindAccount(h) \/ CheckAssigned(h)
               \/ CheckOwner(h)
      PROVE  Typed'
  <2>1. ~Awaiting(h, "idle") /\ UNCHANGED database
    BY <1>7
       DEF HandlerFails, FindLinked, FindAccount, CheckAssigned, CheckOwner, Awaiting
  <2>2. linked[Wallet(h)] \in MaybeAddress /\ Wallet(h) \in MaybeAddress
    BY <2>1, WalletIs DEF IdentityTypeOK, MaybeAddress
  <2>3. HandlersTyped'
    BY <1>0, <1>7, <2>2, AwaitType, AwaitForType, AnswerType
       DEF HandlerFails, FindLinked, FindAccount, CheckAssigned, CheckOwner, Awaits
  <2>4. OneMoves(h)
    BY <1>0, <1>7, Awaits1, Awaits2, Answers
       DEF HandlerFails, FindLinked, FindAccount, CheckAssigned, CheckOwner, OneMoves
  <2> QED BY <2>1, <2>3, <2>4, HoldsMoved, SameProofs
          DEF database, IdentityTypeOK, HandlersTyped, Addressed
<1>8. ASSUME NEW h \in Handlers,
             OpenAccount(h) \/ LinkOnLogin(h) \/ OpenSession(h) \/ AddWallet(h)
      PROVE  Typed'
  <2>1. ~Awaiting(h, "idle") /\ UNCHANGED proof
    BY <1>8 DEF OpenAccount, LinkOnLogin, OpenSession, AddWallet, Awaiting
  <2>2. Wallet(h) \in Addresses /\ handler[h].proof \in Proofs
    BY <2>1, WalletIs
  <2>3. handler[h].user \in MaybeAddress /\ Wallet(h) \in MaybeAddress
    BY <1>0, <2>2 DEF HandlersTyped, HandlerRecords, MaybeAddress
  <2>4. HandlersTyped'
    BY <1>0, <1>8, <2>3, AwaitType, AwaitForType, AnswerType
       DEF OpenAccount, LinkOnLogin, OpenSession, AddWallet, Awaits
  <2>5. OneMoves(h)
    BY <1>0, <1>8, Awaits1, Awaits2, Answers
       DEF OpenAccount, LinkOnLogin, OpenSession, AddWallet, OneMoves
  <2>6. account' \subseteq Addresses
    BY <1>8, <2>2
       DEF OpenAccount, LinkOnLogin, OpenSession, AddWallet, IdentityTypeOK
  <2>7. linked' \in [Addresses -> MaybeAddress]
    BY <1>8, <2>2, <2>3
       DEF OpenAccount, LinkOnLogin, OpenSession, AddWallet, IdentityTypeOK
  <2>8. opened' \in [Proofs -> 0..2] /\ session' \in [Proofs -> SessionRecords]
    <3>1. CASE OpenSession(h)
      <4>0. opened[handler[h].proof] + 1 \in 0..2
        <5>1. opened[handler[h].proof] < 2
          BY <3>1 DEF OpenSession
        <5>2. opened[handler[h].proof] \in 0..2
          BY <2>2 DEF IdentityTypeOK
        <5> QED BY <5>1, <5>2
      <4>1. [user |-> handler[h].user, address |-> Wallet(h), live |-> TRUE] \in SessionRecords
        BY <2>3 DEF SessionRecords
      <4>2. opened' \in [Proofs -> 0..2]
        BY <2>2, <3>1, <4>0 DEF OpenSession, IdentityTypeOK
      <4> QED BY <3>1, <4>1, <4>2 DEF OpenSession, IdentityTypeOK
    <3> QED BY <1>8, <3>1 DEF OpenAccount, LinkOnLogin, AddWallet, IdentityTypeOK
  <2> QED BY <2>1, <2>4, <2>5, <2>6, <2>7, <2>8, HoldsMoved, SameProofs
          DEF IdentityTypeOK, HandlersTyped, Addressed
<1>9. CASE UNCHANGED identityVars
  BY <1>9, SameProofs, HoldsStill DEF identityVars, database, IdentityTypeOK, Addressed
<1> QED BY <1>2, <1>3, <1>4, <1>5, <1>6, <1>7, <1>8, <1>9 DEF IdentityNext

\* Type correctness of accounts, challenges, sessions and requests.
THEOREM IdentityTypeCorrect == IdentitySpec => []IdentityTypeOK
<1>1. Typed => IdentityTypeOK
  BY DEF Typed
<1> QED BY <1>1, IdentityInitType, IdentityStepType, PTL DEF IdentitySpec

-----------------------------------------------------------------------------
(* One wallet per namespace *)

LinksApart == \A a, b \in Addresses :
    linked[a] # NoAddress /\ linked[a] = linked[b] /\ Namespace[a] = Namespace[b] => a = b

\* Links are made by two steps only, where the index of the table allows one.
Links(h) ==
    /\ Awaiting(h, "linking") \/ Awaiting(h, "adding")
    /\ ~Indexed(Wallet(h), handler[h].user)
    /\ linked' = [linked EXCEPT ![Wallet(h)] = handler[h].user]

LEMMA LinkSteps ==
    ASSUME [IdentityNext]_identityVars
    PROVE  linked' = linked \/ \E h \in Handlers : Links(h)
<1>1. ASSUME NEW h \in Handlers, LinkOnLogin(h) \/ AddWallet(h)
      PROVE  linked' = linked \/ Links(h)
  BY <1>1 DEF LinkOnLogin, AddWallet, Links
<1>2. ASSUME NEW h \in Handlers,
             \/ ConsumeProof(h) \/ HandlerFails(h) \/ FindLinked(h) \/ FindAccount(h)
             \/ OpenAccount(h) \/ OpenSession(h) \/ CheckAssigned(h) \/ CheckOwner(h)
      PROVE  linked' = linked
  BY <1>2 DEF ConsumeProof, HandlerFails, FindLinked, FindAccount, OpenAccount, OpenSession,
              CheckAssigned, CheckOwner, database
<1>3. ASSUME NEW c \in Proofs,
             \/ ExpireProof(c) \/ EndSession(c)
             \/ \E a \in Addresses : IssueLogin(c, a) \/ \E u \in account : IssueLink(c, a, u)
             \/ \E h \in Handlers : Present(h, c)
      PROVE  linked' = linked
  BY <1>3 DEF ExpireProof, EndSession, IssueLogin, IssueLink, Present, database
<1>4. CASE UNCHANGED identityVars
  BY <1>4 DEF identityVars, database
<1> QED BY <1>1, <1>2, <1>3, <1>4 DEF IdentityNext

LEMMA ApartStep == Typed /\ LinksApart /\ [IdentityNext]_identityVars => LinksApart'
<1> SUFFICES ASSUME Typed, LinksApart, [IdentityNext]_identityVars PROVE LinksApart'
  OBVIOUS
<1>1. CASE linked' = linked
  BY <1>1 DEF LinksApart
<1>2. ASSUME NEW h \in Handlers, Links(h) PROVE LinksApart'
  <2>1. Wallet(h) \in Addresses
    BY <1>2, WalletIs DEF Links, Awaiting
  <2>2. linked \in [Addresses -> MaybeAddress]
    BY DEF Typed, IdentityTypeOK
  <2> QED BY <1>2, <2>1, <2>2 DEF Links, Indexed, LinksApart
<1> QED BY <1>1, <1>2, LinkSteps

\* An account has one wallet of each namespace, its first one included.
THEOREM WalletsCorrect == IdentitySpec => []OneWalletPerNamespace
<1>1. IdentityInit => LinksApart
  BY DEF IdentityInit, LinksApart
<1>2. Typed /\ LinksApart => OneWalletPerNamespace
  BY WebIdentityAssumption DEF LinksApart, OneWalletPerNamespace, Typed, IdentityTypeOK
<1> QED BY <1>1, <1>2, ApartStep, IdentityInitType, IdentityStepType, PTL DEF IdentitySpec

-----------------------------------------------------------------------------
(* One session per signature *)

\* Requests that have consumed their challenge.
Past == Awaits \ {"idle", "consuming"}
Using(c) == {h \in Handlers : handler[h].pc \in Past /\ handler[h].proof = c}

SessionOnce(c) ==
    /\ proof[c].status # "used" => opened[c] = 0 /\ Using(c) = {}
    /\ opened[c] <= 1
    /\ opened[c] # 0 => Using(c) = {}
    /\ \A h, q \in Using(c) : h = q

SessionInv == Typed /\ \A c \in Proofs : SessionOnce(c)

LEMMA SessionKept ==
    ASSUME SessionInv, NEW c \in Proofs,
           proof'[c].status = "used" \/ proof[c].status # "used",
           opened'[c] = opened[c], Using(c)' \subseteq Using(c)
    PROVE  SessionOnce(c)'
BY DEF SessionInv, SessionOnce

\* A request that moves on after its challenge was consumed, or is answered.
LEMMA UsingMoved ==
    ASSUME NEW h \in Handlers, OneMoves(h), handler[h].pc \in Past \/ handler'[h].pc \notin Past,
           NEW c \in Proofs
    PROVE  /\ Using(c)' \subseteq Using(c)
           /\ handler'[h].pc \notin Past => Using(c)' \subseteq Using(c) \ {h}
BY DEF OneMoves, Using, Past

LEMMA SessionStep == SessionInv /\ [IdentityNext]_identityVars => SessionInv'
<1> SUFFICES ASSUME SessionInv, [IdentityNext]_identityVars, NEW c \in Proofs
             PROVE  SessionOnce(c)'
  BY IdentityStepType DEF SessionInv
<1>0. Typed /\ HandlersTyped
  BY DEF SessionInv, Typed, IdentityTypeOK, HandlersTyped
<1>1. ASSUME NEW d \in Proofs,
             \/ ExpireProof(d) \/ EndSession(d)
             \/ \E a \in Addresses : IssueLogin(d, a) \/ \E u \in account : IssueLink(d, a, u)
      PROVE  SessionOnce(c)'
  <2>1. Using(c)' = Using(c) /\ opened' = opened
    BY <1>1 DEF ExpireProof, EndSession, IssueLogin, IssueLink, Using
  <2>2. proof'[c].status = "used" \/ proof[c].status # "used"
    BY <1>0, <1>1 DEF ExpireProof, EndSession, IssueLogin, IssueLink, Typed, IdentityTypeOK
  <2> QED BY <2>1, <2>2, SessionKept
<1>2. ASSUME NEW h \in Handlers, NEW d \in Proofs, Present(h, d) PROVE SessionOnce(c)'
  <2>1. Using(c)' \subseteq Using(c)
    BY <1>0, <1>2 DEF Present, HandlersTyped, Using, Past, Resting, Awaiting
  <2> QED BY <1>2, <2>1, SessionKept DEF Present, database
<1>3. ASSUME NEW h \in Handlers, ConsumeProof(h) PROVE SessionOnce(c)'
  <2>1. handler[h].pc = "consuming" /\ handler[h].proof \in Proofs
    BY <1>0, <1>3, WalletIs DEF ConsumeProof, Awaiting
  <2>2. opened' = opened /\ OneMoves(h)
    BY <1>0, <1>3, Awaits1, Answers DEF ConsumeProof, OneMoves
  <2>3. CASE ~Unused(handler[h].proof)
    <3>1. handler'[h].pc = "idle" /\ proof' = proof
      BY <1>0, <1>3, <2>3, Answers DEF ConsumeProof
    <3>2. Using(c)' \subseteq Using(c)
      BY <2>2, <3>1, UsingMoved DEF Past
    <3> QED BY <2>2, <3>1, <3>2, SessionKept
  <2>4. CASE Unused(handler[h].proof)
    <3>1. proof' = [proof EXCEPT ![handler[h].proof].status = "used"]
      BY <1>3, <2>4 DEF ConsumeProof
    <3>2. CASE c = handler[h].proof
      <4>1. proof'[c].status = "used"
        BY <1>0, <2>1, <3>1, <3>2 DEF Typed, IdentityTypeOK, ProofRecords
      <4>2. opened[c] = 0 /\ Using(c) = {}
        BY <2>4, <3>2 DEF SessionInv, SessionOnce, Unused
      <4>3. Using(c)' \subseteq {h}
        BY <2>2, <4>2 DEF OneMoves, Using
      <4> QED BY <2>2, <4>1, <4>2, <4>3 DEF SessionOnce
    <3>3. CASE c # handler[h].proof
      <4>1. proof'[c] = proof[c]
        BY <1>0, <2>1, <3>1, <3>3 DEF Typed, IdentityTypeOK
      <4>2. Using(c)' \subseteq Using(c)
        BY <2>2, <3>3 DEF OneMoves, Using, Past
      <4> QED BY <2>2, <4>1, <4>2, SessionKept
    <3> QED BY <3>2, <3>3
  <2> QED BY <2>3, <2>4
<1>4. ASSUME NEW h \in Handlers,
             HandlerFails(h) \/ FindLinked(h) \/ FindAccount(h) \/ OpenAccount(h)
               \/ LinkOnLogin(h) \/ CheckAssigned(h) \/ CheckOwner(h) \/ AddWallet(h)
      PROVE  SessionOnce(c)'
  <2>1. opened' = opened /\ proof' = proof
    BY <1>4 DEF HandlerFails, FindLinked, FindAccount, OpenAccount, LinkOnLogin, CheckAssigned,
                CheckOwner, AddWallet, database
  <2>2. OneMoves(h) /\ (handler[h].pc \in Past \/ handler'[h].pc \notin Past)
    <3>1. CASE HandlerFails(h)
      BY <1>0, <3>1, Answers DEF HandlerFails, OneMoves, Past
    <3>2. CASE ~HandlerFails(h)
      <4>1. handler[h].pc \in Past
        BY <1>4, <3>2 DEF FindLinked, FindAccount, OpenAccount, LinkOnLogin, CheckAssigned,
                          CheckOwner, AddWallet, Past, Awaits, Awaiting
      <4> QED BY <1>0, <1>4, <3>2, <4>1, Awaits1, Awaits2, Answers
              DEF FindLinked, FindAccount, OpenAccount, LinkOnLogin, CheckAssigned,
                  CheckOwner, AddWallet, OneMoves
    <3> QED BY <3>1, <3>2
  <2> QED BY <2>1, <2>2, UsingMoved, SessionKept
<1>5. ASSUME NEW h \in Handlers, OpenSession(h) PROVE SessionOnce(c)'
  <2>1. handler[h].proof \in Proofs /\ h \in Using(handler[h].proof)
    BY <1>0, <1>5, WalletIs DEF OpenSession, Awaiting, Using, Past, Awaits
  <2>2. handler'[h].pc = "idle" /\ OneMoves(h) /\ proof' = proof
    BY <1>0, <1>5, Answers DEF OpenSession, OneMoves
  <2>3. Using(c)' \subseteq Using(c) \ {h}
    BY <2>2, UsingMoved DEF Past
  <2>4. CASE c = handler[h].proof
    <3>1. opened[c] = 0 /\ proof[c].status = "used" /\ Using(c) \subseteq {h}
      BY <2>1, <2>4 DEF SessionInv, SessionOnce
    <3>2. opened' = [opened EXCEPT ![c] = @ + 1]
      BY <1>5, <2>4 DEF OpenSession
    <3>3. opened'[c] = 0 + 1
      BY <1>0, <3>1, <3>2 DEF Typed, IdentityTypeOK
    <3> QED BY <2>2, <2>3, <3>1, <3>3 DEF SessionOnce
  <2>5. CASE c # handler[h].proof
    <3>1. opened'[c] = opened[c]
      BY <1>0, <1>5, <2>5 DEF OpenSession, Typed, IdentityTypeOK
    <3> QED BY <2>2, <2>3, <3>1, SessionKept
  <2> QED BY <2>4, <2>5
<1>6. CASE UNCHANGED identityVars
  BY <1>6, SessionKept DEF identityVars, database, Using
<1> QED BY <1>1, <1>2, <1>3, <1>4, <1>5, <1>6 DEF IdentityNext

\* A signature opens one session, however often it is sent.
THEOREM SessionCorrect == IdentitySpec => []OneSessionPerSignature
<1>1. IdentityInit => SessionInv
  BY IdentityInitType
     DEF IdentityInit, SessionInv, SessionOnce, Using, Past, Resting, NoProof
<1>2. SessionInv => OneSessionPerSignature
  BY DEF SessionInv, SessionOnce, OneSessionPerSignature
<1> QED BY <1>1, <1>2, SessionStep, PTL DEF IdentitySpec

-----------------------------------------------------------------------------
(* Scopes of sessions *)

\* An account that serves anyone has the wallet it was opened with, which a
\* login that lost the race to link it never gives it.
Home(u) == u \in Addresses /\ linked[u] = u

HandlerScope(h) ==
    LET at == handler[h].pc  u == handler[h].user IN
    /\ at = "consuming" => u = proof[handler[h].proof].by
    /\ at \in {"assigning", "owning", "adding"} => Home(u)
    /\ at = "linking" => u = Wallet(h)
    /\ at = "opening session" => Home(u) /\ linked[Wallet(h)] = u
SessionScope(c) == session[c].live =>
    Home(session[c].user) /\ session[c].address \in Addresses
      /\ linked[session[c].address] = session[c].user

LinksHome == \A a \in Addresses : linked[a] # NoAddress => Home(linked[a])
ProofsHome == \A c \in Proofs : proof[c].by # NoAddress => Home(proof[c].by)
ScopeInv ==
    /\ Typed /\ LinksHome /\ ProofsHome
    /\ \A h \in Handlers : HandlerScope(h)
    /\ \A c \in Proofs : SessionScope(c)

LinksKept == \A a \in Addresses : linked[a] # NoAddress => linked'[a] = linked[a]

LEMMA KeepsLinks == Typed /\ [IdentityNext]_identityVars => LinksKept
<1> SUFFICES ASSUME Typed, [IdentityNext]_identityVars PROVE LinksKept
  OBVIOUS
<1>1. ASSUME NEW h \in Handlers, Links(h) PROVE LinksKept
  BY <1>1 DEF Links, Indexed, LinksKept, Typed, IdentityTypeOK
<1> QED BY <1>1, LinkSteps DEF LinksKept

LEMMA KeepsHome ==
    ASSUME LinksKept, NEW u, Home(u)
    PROVE  Home(u)'
BY WebIdentityAssumption DEF LinksKept, Home

LEMMA KeepsHandler ==
    ASSUME ScopeInv, LinksKept, ProofsKept, NEW q \in Handlers, handler'[q] = handler[q]
    PROVE  HandlerScope(q)'
<1>1. HandlerScope(q)
  BY DEF ScopeInv
<1>2. CASE handler[q].pc = "idle"
  BY <1>2 DEF HandlerScope
<1>3. CASE handler[q].pc # "idle"
  <2>1. Wallet(q) \in Addresses /\ Issued(handler[q].proof)
    BY <1>3, WalletIs DEF ScopeInv, Typed, HoldsProof, Awaiting
  <2>2. Wallet(q)' = Wallet(q) /\ proof'[handler[q].proof].by = proof[handler[q].proof].by
    BY <2>1 DEF ProofsKept, Issued, Wallet
  <2>3. handler[q].pc = "opening session" => linked'[Wallet(q)] = linked[Wallet(q)]
    BY <1>1, <2>1, WebIdentityAssumption DEF HandlerScope, Home, LinksKept
  <2> QED BY <1>1, <2>2, <2>3, KeepsHome DEF HandlerScope
<1> QED BY <1>2, <1>3

LEMMA KeepsSession ==
    ASSUME ScopeInv, LinksKept, NEW c \in Proofs, session'[c] = session[c]
    PROVE  SessionScope(c)'
<1>1. SessionScope(c)
  BY DEF ScopeInv
<1>2. CASE session[c].live
  <2>1. linked'[session[c].address] = linked[session[c].address]
    BY <1>1, <1>2, WebIdentityAssumption DEF SessionScope, Home, LinksKept
  <2> QED BY <1>1, <1>2, <2>1, KeepsHome DEF SessionScope
<1> QED BY <1>2 DEF SessionScope

LEMMA KeepsProofs ==
    ASSUME ScopeInv, LinksKept, proof' = proof
    PROVE  ProofsHome'
BY KeepsHome DEF ScopeInv, ProofsHome

LEMMA KeepsLinksHome ==
    ASSUME ScopeInv, LinksKept, linked' = linked
    PROVE  LinksHome'
BY KeepsHome DEF ScopeInv, LinksHome

LEMMA ScopeStep == ScopeInv /\ [IdentityNext]_identityVars => ScopeInv'
<1> SUFFICES ASSUME ScopeInv, [IdentityNext]_identityVars PROVE ScopeInv'
  OBVIOUS
<1>0. Typed /\ Typed' /\ HandlersTyped /\ LinksKept
  BY IdentityStepType, KeepsLinks DEF ScopeInv, Typed, IdentityTypeOK, HandlersTyped
\* What leaves the wallets, the challenges and the sessions alone and moves one
\* request, at most, into a state that becomes it.
<1>a. ASSUME UNCHANGED <<linked, proof, session>>, NEW h \in Handlers,
             \A q \in Handlers : q # h => handler'[q] = handler[q], HandlerScope(h)'
      PROVE  ScopeInv'
  BY <1>0, <1>a, SameProofs, KeepsHandler, KeepsSession, KeepsProofs, KeepsLinksHome
     DEF ScopeInv
<1>1. ASSUME NEW c \in Proofs, NEW a \in Addresses,
             IssueLogin(c, a) \/ \E u \in account : IssueLink(c, a, u)
      PROVE  ScopeInv'
  <2>1. PICK u : /\ proof[c].status = "none" /\ (u = NoAddress \/ Home(u))
                 /\ proof' = [proof EXCEPT ![c] = [status |-> "open", address |-> a, by |-> u]]
    <3>1. CASE IssueLogin(c, a)
      BY <3>1 DEF IssueLogin
    <3>2. ASSUME NEW u \in account, IssueLink(c, a, u) PROVE Home(u)
      BY <3>2 DEF IssueLink, Serves, ScopeInv, SessionScope
    <3> QED BY <1>1, <3>1, <3>2 DEF IssueLink
  <2>2. ProofsKept
    BY <1>0, <2>1 DEF ProofsKept, Typed, IdentityTypeOK
  <2>3. UNCHANGED <<linked, session, handler>>
    BY <1>1 DEF IssueLogin, IssueLink
  <2>4. ProofsHome'
    <3>1. \A d \in Proofs : proof'[d].by = IF d = c THEN u ELSE proof[d].by
      BY <1>0, <2>1 DEF Typed, IdentityTypeOK
    <3> QED BY <1>0, <2>1, <3>1, KeepsHome DEF ScopeInv, ProofsHome
  <2> QED BY <1>0, <2>2, <2>3, <2>4, KeepsHandler, KeepsSession, KeepsLinksHome DEF ScopeInv
<1>2. ASSUME NEW c \in Proofs, ExpireProof(c) PROVE ScopeInv'
  <2>1. \A d \in Proofs : proof'[d].by = proof[d].by
    BY <1>0, <1>2 DEF ExpireProof, Typed, IdentityTypeOK
  <2>2. ProofsKept
    BY <1>0, <1>2 DEF ExpireProof, ProofsKept, Typed, IdentityTypeOK
  <2>3. ProofsHome'
    BY <1>0, <2>1, KeepsHome DEF ScopeInv, ProofsHome
  <2>4. UNCHANGED <<linked, session, handler>>
    BY <1>2 DEF ExpireProof
  <2> QED BY <1>0, <2>2, <2>3, <2>4, KeepsHandler, KeepsSession, KeepsLinksHome DEF ScopeInv
<1>3. ASSUME NEW c \in Proofs, EndSession(c) PROVE ScopeInv'
  <2>1. \A d \in Proofs : session'[d] = session[d] \/ ~session'[d].live
    BY <1>0, <1>3 DEF EndSession, Typed, IdentityTypeOK
  <2>2. \A d \in Proofs : SessionScope(d)'
    BY <1>0, <2>1, KeepsSession DEF SessionScope
  <2>3. UNCHANGED <<linked, proof, handler>>
    BY <1>3 DEF EndSession
  <2> QED BY <1>0, <2>2, <2>3, SameProofs, KeepsHandler, KeepsProofs, KeepsLinksHome
          DEF ScopeInv
<1>4. ASSUME NEW h \in Handlers, NEW c \in Proofs, Present(h, c) PROVE ScopeInv'
  <2> DEFINE taken == [Resting EXCEPT !.pc = "consuming", !.proof = c, !.user = proof[c].by]
  <2>1. taken.pc = "consuming" /\ taken.proof = c /\ taken.user = proof[c].by
    BY DEF Resting
  <2>2. handler' = [handler EXCEPT ![h] = taken] /\ UNCHANGED <<linked, proof, session>>
    BY <1>4 DEF Present, database
  <2> HIDE DEF taken
  <2>3. handler'[h] = taken /\ \A q \in Handlers : q # h => handler'[q] = handler[q]
    BY <1>0, <2>2 DEF HandlersTyped
  <2>4. HandlerScope(h)'
    BY <2>1, <2>2, <2>3 DEF HandlerScope
  <2> QED BY <1>a, <2>2, <2>3, <2>4
<1>5. ASSUME NEW h \in Handlers, HandlerFails(h) PROVE ScopeInv'
  BY <1>0, <1>5, <1>a, Answers DEF HandlerFails, database, HandlerScope
<1>6. ASSUME NEW h \in Handlers, ConsumeProof(h) PROVE ScopeInv'
  <2> DEFINE taken == handler[h].proof
  <2>1. handler[h].pc = "consuming" /\ taken \in Proofs /\ UNCHANGED <<linked, session>>
    BY <1>0, <1>6, WalletIs DEF ConsumeProof, Awaiting
  <2>2. handler[h].user = proof[taken].by
    BY <2>1 DEF ScopeInv, HandlerScope
  <2>3. \A d \in Proofs : proof'[d].by = proof[d].by
    BY <1>0, <1>6, <2>1 DEF ConsumeProof, Typed, IdentityTypeOK, ProofRecords
  <2>4. ProofsKept
    BY <1>0, <1>6, <2>1 DEF ConsumeProof, ProofsKept, Typed, IdentityTypeOK, ProofRecords
  <2>5. ProofsHome'
    BY <1>0, <2>3, KeepsHome DEF ScopeInv, ProofsHome
  <2>6. \A q \in Handlers : q # h => handler'[q] = handler[q]
    BY <1>0, <1>6, Awaits1, Answers DEF ConsumeProof
  <2>7. \/ handler'[h].pc \in {"idle", "finding"}
        \/ /\ handler'[h].pc = "assigning" /\ handler'[h].user = proof[taken].by
           /\ proof[taken].by # NoAddress
    <3>1. CASE Unused(taken)
      <4>1. Await(h, IF proof[taken].by = NoAddress THEN "finding" ELSE "assigning")
        BY <1>6, <3>1 DEF ConsumeProof
      <4> QED BY <1>0, <2>2, <4>1, Awaits1
    <3>2. CASE ~Unused(taken)
      BY <1>0, <1>6, <3>2, Answers DEF ConsumeProof
    <3> QED BY <3>1, <3>2
  <2>8. HandlerScope(h)'
    BY <1>0, <2>1, <2>7, KeepsHome DEF HandlerScope, ScopeInv, ProofsHome
  <2> QED BY <1>0, <2>1, <2>4, <2>5, <2>6, <2>8, KeepsHandler, KeepsSession, KeepsLinksHome
          DEF ScopeInv
<1>7. ASSUME NEW h \in Handlers, FindLinked(h) PROVE ScopeInv'
  <2>1. ~Awaiting(h, "idle") /\ UNCHANGED <<linked, proof, session>>
    BY <1>7 DEF FindLinked, Awaiting, database
  <2>2. Wallet(h) \in Addresses /\ Wallet(h)' = proof'[handler'[h].proof].address
    BY <1>0, <2>1, WalletIs DEF Wallet
  <2>3. handler'[h].proof = handler[h].proof /\ handler'[h].user = linked[Wallet(h)]
        /\ \A q \in Handlers : q # h => handler'[q] = handler[q]
    BY <1>0, <1>7, Awaits2, ZenonT(60) DEF FindLinked
  <2>4. handler'[h].pc = IF linked[Wallet(h)] # NoAddress THEN "opening session" ELSE "naming"
    BY <1>0, <1>7, Awaits2 DEF FindLinked
  <2>5. Wallet(h)' = Wallet(h)
    BY <2>1, <2>3 DEF Wallet
  <2>6. HandlerScope(h)'
    BY <2>1, <2>2, <2>3, <2>4, <2>5 DEF HandlerScope, ScopeInv, LinksHome, Home
  <2> QED BY <1>a, <2>1, <2>3, <2>6
<1>8. ASSUME NEW h \in Handlers, FindAccount(h) \/ OpenAccount(h) PROVE ScopeInv'
  <2>1. UNCHANGED <<linked, proof, session>>
    BY <1>8 DEF FindAccount, OpenAccount, database
  <2>2. \/ AwaitFor(h, "linking", Wallet(h)) \/ Await(h, "opening account") \/ Answer(h)
    BY <1>8 DEF FindAccount, OpenAccount
  <2>3. \A q \in Handlers : q # h => handler'[q] = handler[q]
    BY <1>0, <2>2, Awaits1, Awaits2, Answers
  <2>4. CASE AwaitFor(h, "linking", Wallet(h))
    <3>1. handler'[h].pc = "linking" /\ handler'[h].user = Wallet(h)
          /\ handler'[h].proof = handler[h].proof
      BY <1>0, <2>4, Awaits2
    <3>2. Wallet(h)' = Wallet(h)
      BY <2>1, <3>1 DEF Wallet
    <3>3. HandlerScope(h)'
      BY <3>1, <3>2 DEF HandlerScope
    <3> QED BY <1>a, <2>1, <2>3, <3>3
  <2>5. CASE Await(h, "opening account") \/ Answer(h)
    <3>1. handler'[h].pc \in {"opening account", "idle"}
      BY <1>0, <2>5, Awaits1, Answers
    <3>2. HandlerScope(h)'
      BY <3>1 DEF HandlerScope
    <3> QED BY <1>a, <2>1, <2>3, <3>2
  <2> QED BY <2>2, <2>4, <2>5
<1>9. ASSUME NEW h \in Handlers, CheckAssigned(h) \/ CheckOwner(h) PROVE ScopeInv'
  <2>1. UNCHANGED <<linked, proof, session>> /\ handler[h].pc \in {"assigning", "owning"}
    BY <1>9 DEF CheckAssigned, CheckOwner, database, Awaiting
  <2>2. Home(handler[h].user)
    BY <2>1 DEF ScopeInv, HandlerScope
  <2>3. Await(h, "owning") \/ Await(h, "adding") \/ Answer(h)
    BY <1>9 DEF CheckAssigned, CheckOwner
  <2>4. \/ handler'[h].pc = "idle"
        \/ handler'[h].pc \in {"owning", "adding"} /\ handler'[h].user = handler[h].user
    BY <1>0, <2>3, Awaits1, Answers
  <2>5. \A q \in Handlers : q # h => handler'[q] = handler[q]
    BY <1>0, <2>3, Awaits1, Answers
  <2>6. HandlerScope(h)'
    BY <1>0, <2>2, <2>4, KeepsHome DEF HandlerScope
  <2> QED BY <1>a, <2>1, <2>5, <2>6
<1>10. ASSUME NEW h \in Handlers, LinkOnLogin(h) PROVE ScopeInv'
  <2> DEFINE a == Wallet(h)
  <2>1. handler[h].pc = "linking" /\ UNCHANGED <<proof, session>>
    BY <1>10 DEF LinkOnLogin, Awaiting
  <2>2. a \in Addresses /\ handler[h].user = a
    BY <1>0, <2>1, WalletIs DEF Awaiting, ScopeInv, HandlerScope
  <2>3. \A q \in Handlers : q # h => handler'[q] = handler[q]
    BY <1>0, <1>10, Awaits1, Answers DEF LinkOnLogin
  <2>4. linked' = linked \/ linked' = [linked EXCEPT ![a] = a]
    BY <1>10, <2>2 DEF LinkOnLogin
  <2>5. \/ handler'[h].pc = "idle"
        \/ /\ handler'[h].pc = "opening session" /\ handler'[h].user = a
           /\ handler'[h].proof = handler[h].proof /\ linked'[a] = a
    BY <1>0, <1>10, <2>2, Awaits1, Answers
       DEF LinkOnLogin, SameOwner, Typed, IdentityTypeOK
  <2>6. Wallet(h)' = a \/ handler'[h].pc = "idle"
    BY <2>1, <2>5 DEF Wallet
  <2>7. HandlerScope(h)'
    BY <2>2, <2>5, <2>6 DEF HandlerScope, Home
  <2>8. LinksHome'
    <3>1. CASE linked' = linked
      BY <1>0, <3>1, KeepsLinksHome
    <3>2. CASE linked' = [linked EXCEPT ![a] = a]
      <4>1. linked'[a] = a /\ \A b \in Addresses : b # a => linked'[b] = linked[b]
        BY <1>0, <2>2, <3>2 DEF Typed, IdentityTypeOK
      <4>2. ASSUME NEW b \in Addresses, linked'[b] # NoAddress PROVE Home(linked[b])'
        <5>1. CASE b = a
          BY <2>2, <4>1, <5>1 DEF Home
        <5>2. CASE b # a
          BY <1>0, <4>1, <4>2, <5>2, KeepsHome DEF ScopeInv, LinksHome
        <5> QED BY <5>1, <5>2
      <4> QED BY <4>2 DEF LinksHome
    <3> QED BY <2>4, <3>1, <3>2
  <2> QED BY <1>0, <2>1, <2>3, <2>7, <2>8, SameProofs, KeepsHandler, KeepsSession, KeepsProofs
          DEF ScopeInv
<1>11. ASSUME NEW h \in Handlers, OpenSession(h) PROVE ScopeInv'
  <2>1. handler[h].pc = "opening session" /\ UNCHANGED <<linked, proof>>
    BY <1>11 DEF OpenSession, Awaiting
  <2>2. handler[h].proof \in Proofs /\ Wallet(h) \in Addresses
    BY <1>0, <2>1, WalletIs DEF Awaiting
  <2>a. PICK login \in Proofs : login = handler[h].proof
    BY <2>2
  <2>3. PICK u, a : u = handler[h].user /\ a = Wallet(h) /\ Home(u) /\ linked[a] = u
    BY <2>1 DEF ScopeInv, HandlerScope
  <2>4. /\ session'[login] = [user |-> u, address |-> a, live |-> TRUE]
        /\ \A d \in Proofs : d # login => session'[d] = session[d]
    BY <1>0, <1>11, <2>3, <2>a DEF OpenSession, Typed, IdentityTypeOK
  <2>5. SessionScope(login)'
    <3>1. session'[login].user = u /\ session'[login].address = a
      BY <2>4
    <3> QED BY <2>1, <2>2, <2>3, <3>1 DEF SessionScope, Home
  <2>6. \A d \in Proofs : SessionScope(d)'
    BY <1>0, <2>4, <2>5, KeepsSession
  <2>7. handler'[h].pc = "idle" /\ \A q \in Handlers : q # h => handler'[q] = handler[q]
    BY <1>0, <1>11, Answers DEF OpenSession
  <2>8. HandlerScope(h)'
    BY <2>7 DEF HandlerScope
  <2> QED BY <1>0, <2>1, <2>6, <2>7, <2>8, SameProofs, KeepsHandler, KeepsProofs, KeepsLinksHome
          DEF ScopeInv
<1>12. ASSUME NEW h \in Handlers, AddWallet(h) PROVE ScopeInv'
  <2> DEFINE a == Wallet(h)  u == handler[h].user
  <2>1. handler[h].pc = "adding" /\ UNCHANGED <<proof, session>>
    BY <1>12 DEF AddWallet, Awaiting
  <2>2. a \in Addresses /\ Home(u)
    BY <1>0, <2>1, WalletIs DEF Awaiting, ScopeInv, HandlerScope
  <2>3. handler'[h].pc = "idle" /\ \A q \in Handlers : q # h => handler'[q] = handler[q]
    BY <1>0, <1>12, Answers DEF AddWallet
  <2>4. linked' = linked \/ linked' = [linked EXCEPT ![a] = u]
    BY <1>12 DEF AddWallet
  <2>5. \A b \in Addresses : linked'[b] = linked[b] \/ linked'[b] = u
    BY <1>0, <2>2, <2>4 DEF Typed, IdentityTypeOK
  <2>6. LinksHome'
    BY <1>0, <2>2, <2>5, KeepsHome DEF ScopeInv, LinksHome
  <2>7. HandlerScope(h)'
    BY <2>3 DEF HandlerScope
  <2> QED BY <1>0, <2>1, <2>3, <2>6, <2>7, SameProofs, KeepsHandler, KeepsSession, KeepsProofs
          DEF ScopeInv
<1>13. CASE UNCHANGED identityVars
  BY <1>0, <1>13, SameProofs, KeepsHandler, KeepsSession, KeepsProofs, KeepsLinksHome
     DEF identityVars, database, ScopeInv
<1> QED BY <1>1, <1>2, <1>3, <1>4, <1>5, <1>6, <1>7, <1>8, <1>9, <1>10, <1>11, <1>12, <1>13
        DEF IdentityNext

\* A wallet is served to the sessions of one account only, though a login with
\* it may race its being linked to another.
THEOREM ScopesCorrect == IdentitySpec => []ScopesAreDisjoint
<1>1. ASSUME IdentityInit PROVE ScopeInv
  <2>1. LinksHome /\ ProofsHome
    BY <1>1 DEF IdentityInit, LinksHome, ProofsHome, NoProof
  <2>2. ASSUME NEW h \in Handlers PROVE HandlerScope(h)
    BY <1>1 DEF IdentityInit, HandlerScope, Resting
  <2>3. ASSUME NEW c \in Proofs PROVE SessionScope(c)
    BY <1>1 DEF IdentityInit, SessionScope, NoSession
  <2> QED BY <1>1, <2>1, <2>2, <2>3, IdentityInitType DEF ScopeInv
<1>2. ScopeInv => ScopesAreDisjoint
  <2> SUFFICES ASSUME ScopeInv, NEW c \in Proofs, session[c].live
               PROVE  \A a \in Scope(c) : linked[a] = session[c].user
    BY DEF ScopesAreDisjoint
  <2> QED BY DEF ScopeInv, SessionScope, Home, Scope
<1> QED BY <1>1, <1>2, ScopeStep, PTL DEF IdentitySpec

-----------------------------------------------------------------------------
(* Delegated authority *)

(* Types *)

LEMMA IdleType == Idle \in RequestRecords
BY DEF Idle, RequestRecords, RequestStates

\* A request that moves on, or that is answered, is still a request.
LEMMA GotoType ==
    ASSUME request \in [Requests -> RequestRecords], NEW r \in Requests,
           NEW pc \in RequestStates, Goto(r, pc)
    PROVE  request' \in [Requests -> RequestRecords]
BY DEF Goto, RequestRecords

LEMMA DoneType ==
    ASSUME request \in [Requests -> RequestRecords], NEW r \in Requests, Done(r)
    PROVE  request' \in [Requests -> RequestRecords]
BY IdleType DEF Done

LEMMA RevokedType ==
    ASSUME WebAuthTypeOK, NEW C
    PROVE  Revoked(C) \in [Challenges -> {"none", "ACTIVE", "REVOKED"}]
BY DEF Revoked, WebAuthTypeOK

\* A request past its first check goes by a challenge that exists.
Holding == {"checked", "consuming", "replacing", "creating"}
HoldsChallenge == \A r \in Requests : request[r].pc \in Holding => Of(r) \in Challenges

WebTyped == WebAuthTypeOK /\ HoldsChallenge

LEMMA WebInitType == WebAuthInit => WebTyped
<1> SUFFICES ASSUME WebAuthInit PROVE WebTyped
  OBVIOUS
<1>1. request \in [Requests -> RequestRecords]
  BY IdleType DEF WebAuthInit
<1>2. HoldsChallenge
  BY DEF WebAuthInit, HoldsChallenge, Holding, Idle
<1>3. challenge \in [Challenges -> ChallengeRecords] /\ made \in [Challenges -> 0..2]
  BY DEF WebAuthInit, ChallengeRecords
<1>4. grant \in [Challenges -> {"none", "ACTIVE", "REVOKED"}]
  BY DEF WebAuthInit
<1> QED BY <1>1, <1>2, <1>3, <1>4 DEF WebTyped, WebAuthTypeOK, WebAuthInit

\* Moving on within these states, or leaving them, keeps the challenge.
LEMMA GotoHolds ==
    ASSUME WebTyped, NEW r \in Requests, NEW pc \in RequestStates, Goto(r, pc),
           pc \in Holding => request[r].pc \in Holding
    PROVE  HoldsChallenge'
BY DEF WebTyped, WebAuthTypeOK, HoldsChallenge, Goto, Of, RequestRecords

LEMMA DoneHolds ==
    ASSUME WebTyped, NEW r \in Requests, Done(r)
    PROVE  HoldsChallenge'
BY DEF WebTyped, WebAuthTypeOK, HoldsChallenge, Done, Of, Idle, Holding

\* Only the requests move: the database stays as it is.
LEMMA RequestMoves ==
    ASSUME WebTyped, UNCHANGED <<records, killed>>,
           request' \in [Requests -> RequestRecords], HoldsChallenge'
    PROVE  WebTyped'
BY DEF WebTyped, WebAuthTypeOK, records

LEMMA WebStepType == WebTyped /\ [WebAuthNext]_webAuthVars => WebTyped'
<1> SUFFICES ASSUME WebTyped, [WebAuthNext]_webAuthVars PROVE WebTyped'
  OBVIOUS
<1> USE DEF WebTyped
<1>1. ASSUME NEW c \in Challenges, NEW w \in Wallets, Issue(c, w) PROVE WebTyped'
  BY <1>1 DEF Issue, WebAuthTypeOK, HoldsChallenge, ChallengeRecords, Of
<1>2. ASSUME NEW c \in Challenges, Lapse(c) PROVE WebTyped'
  BY <1>2 DEF Lapse, WebAuthTypeOK, HoldsChallenge, ChallengeRecords, Of
<1>3. ASSUME NEW c \in Challenges, NEW r \in Requests, Check(r, c) PROVE WebTyped'
  BY <1>3, RequestMoves
     DEF Check, WebAuthTypeOK, HoldsChallenge, Of, Idle, RequestRecords, RequestStates
<1>4. ASSUME NEW r \in Requests, ReadSafety(r) PROVE WebTyped'
  <2>1. CASE Done(r)
    BY <1>4, <2>1, RequestMoves, DoneType, DoneHolds DEF ReadSafety, WebAuthTypeOK
  <2>2. CASE Goto(r, "consuming")
    <3>1. "consuming" \in RequestStates /\ request[r].pc \in Holding
      BY <1>4 DEF ReadSafety, At, RequestStates, Holding
    <3>2. request' \in [Requests -> RequestRecords] /\ HoldsChallenge'
      BY <2>2, <3>1, GotoType, GotoHolds DEF WebAuthTypeOK
    <3> QED BY <1>4, <3>2, RequestMoves DEF ReadSafety
  <2> QED BY <1>4, <2>1, <2>2 DEF ReadSafety
<1>5. ASSUME NEW r \in Requests, Consume(r) PROVE WebTyped'
  <2>1. request' \in [Requests -> RequestRecords] /\ HoldsChallenge'
    <3>1. "replacing" \in RequestStates /\ request[r].pc \in Holding
      BY <1>5 DEF Consume, At, RequestStates, Holding
    <3>2. CASE Goto(r, "replacing")
      BY <3>1, <3>2, GotoType, GotoHolds DEF WebAuthTypeOK
    <3>3. CASE Done(r)
      BY <3>3, DoneType, DoneHolds DEF WebAuthTypeOK
    <3> QED BY <1>5, <3>2, <3>3 DEF Consume
  <2>2. challenge' \in [Challenges -> ChallengeRecords]
    BY <1>5 DEF Consume, WebAuthTypeOK, ChallengeRecords
  <2> QED BY <1>5, <2>1, <2>2 DEF Consume, WebAuthTypeOK
<1>6. ASSUME NEW r \in Requests, ReplaceOlder(r) PROVE WebTyped'
  <2>1. request' \in [Requests -> RequestRecords] /\ HoldsChallenge'
    <3>1. "creating" \in RequestStates /\ request[r].pc \in Holding
      BY <1>6 DEF ReplaceOlder, At, RequestStates, Holding
    <3> QED BY <1>6, <3>1, GotoType, GotoHolds DEF ReplaceOlder, WebAuthTypeOK
  <2> QED BY <1>6, <2>1, RevokedType DEF ReplaceOlder, WebAuthTypeOK
<1>7. ASSUME NEW r \in Requests, Create(r) PROVE WebTyped'
  <2>1. request' \in [Requests -> RequestRecords] /\ HoldsChallenge'
    BY <1>7, DoneType, DoneHolds DEF Create, WebAuthTypeOK
  <2>2. Of(r) \in Challenges
    BY <1>7 DEF Create, At, HoldsChallenge, Holding
  <2> QED BY <1>7, <2>1, <2>2 DEF Create, WebAuthTypeOK
<1>8. ASSUME NEW w \in Wallets, NEW C, Revoke(w, C) PROVE WebTyped'
  BY <1>8, RevokedType DEF Revoke, WebAuthTypeOK, HoldsChallenge, Of
<1>9. ASSUME NEW w \in Wallets, NEW r \in Requests, KillStart(r, w) PROVE WebTyped'
  BY <1>9, RequestMoves
     DEF KillStart, WebAuthTypeOK, HoldsChallenge, Of, Idle, Holding, RequestRecords,
         RequestStates
<1>10. ASSUME NEW r \in Requests, KillSwitch(r) \/ KillGrants(r) PROVE WebTyped'
  <2>1. request' \in [Requests -> RequestRecords] /\ HoldsChallenge'
    BY <1>10 DEF KillSwitch, KillGrants, WebAuthTypeOK, HoldsChallenge, Of, RequestRecords
  <2>2. killer' \in Wallets \cup {None}
    BY <1>10 DEF KillSwitch, KillGrants, WebAuthTypeOK, At, RequestRecords
  <2> QED BY <1>10, <2>1, <2>2, RevokedType DEF KillSwitch, KillGrants, WebAuthTypeOK
<1>11. ASSUME NEW r \in Requests, KillAnswered(r) PROVE WebTyped'
  <2>1. request' \in [Requests -> RequestRecords] /\ HoldsChallenge'
    BY <1>11, DoneType, DoneHolds DEF KillAnswered, WebAuthTypeOK
  <2> QED BY <1>11, <2>1 DEF KillAnswered, WebAuthTypeOK, records
<1>12. ASSUME NEW r \in Requests, JobStart(r) PROVE WebTyped'
  BY <1>12, RequestMoves
     DEF JobStart, WebAuthTypeOK, HoldsChallenge, Of, Idle, Holding, RequestRecords,
         RequestStates
<1>13. ASSUME NEW r \in Requests, JobReadsGrant(r) \/ JobReadsSwitch(r) PROVE WebTyped'
  <2>1. (Active(Primary) # {}) \in BOOLEAN /\ Engaged \in BOOLEAN
    BY DEF Engaged
  <2>2. request' \in [Requests -> RequestRecords]
    BY <1>13, <2>1 DEF JobReadsGrant, JobReadsSwitch, WebAuthTypeOK, RequestRecords
  <2>3. HoldsChallenge'
    BY <1>13 DEF JobReadsGrant, JobReadsSwitch, WebAuthTypeOK, HoldsChallenge, Of, RequestRecords
  <2> QED BY <1>13, <2>2, <2>3, RequestMoves DEF JobReadsGrant, JobReadsSwitch
<1>14. ASSUME NEW r \in Requests, JobEnds(r) PROVE WebTyped'
  BY <1>14, RequestMoves, DoneType, DoneHolds DEF JobEnds, WebAuthTypeOK
<1>15. CASE UNCHANGED webAuthVars
  BY <1>15 DEF webAuthVars, records, WebAuthTypeOK, HoldsChallenge, Of
<1> QED BY <1>1, <1>2, <1>3, <1>4, <1>5, <1>6, <1>7, <1>8, <1>9, <1>10, <1>11, <1>12,
           <1>13, <1>14, <1>15 DEF WebAuthNext

\* Type correctness of challenges, authorities and requests.
THEOREM WebAuthTypeCorrect == WebAuthSpec => []WebAuthTypeOK
<1>1. WebTyped => WebAuthTypeOK
  BY DEF WebTyped
<1> QED BY <1>1, WebInitType, WebStepType, PTL DEF WebAuthSpec

-----------------------------------------------------------------------------
(* One authority per signature *)

\* Requests that have consumed their challenge and have yet to create.
Consumed == {"replacing", "creating"}
MakingFrom(c) == {r \in Requests : request[r].pc \in Consumed /\ Of(r) = c}

\* A challenge that was not used has no authority and no request that makes
\* one; a used one has at most one of the two.
UsedOnce(c) ==
    /\ challenge[c].status # "used" => made[c] = 0 /\ MakingFrom(c) = {}
    /\ made[c] <= 1
    /\ made[c] # 0 => MakingFrom(c) = {}
    /\ \A r, q \in MakingFrom(c) : r = q

GrantInv == WebTyped /\ \A c \in Challenges : UsedOnce(c)

\* What leaves these requests, challenges and counts alone keeps the invariant.
LEMMA UsedOnceKept ==
    ASSUME GrantInv, WebTyped', NEW c \in Challenges,
           challenge'[c].status = "used" \/ challenge[c].status # "used",
           made'[c] = made[c], MakingFrom(c)' \subseteq MakingFrom(c)
    PROVE  UsedOnce(c)'
BY DEF GrantInv, UsedOnce

LEMMA MakingByGoto ==
    ASSUME WebTyped, NEW r \in Requests, NEW pc \in RequestStates, Goto(r, pc),
           pc \in Consumed => request[r].pc \in Consumed, NEW c \in Challenges
    PROVE  MakingFrom(c)' \subseteq MakingFrom(c)
BY DEF WebTyped, WebAuthTypeOK, Goto, MakingFrom, Of, RequestRecords

LEMMA MakingByDone ==
    ASSUME WebTyped, NEW r \in Requests, Done(r), NEW c \in Challenges
    PROVE  MakingFrom(c)' \subseteq MakingFrom(c) \ {r}
BY DEF WebTyped, WebAuthTypeOK, Done, MakingFrom, Of, Idle, Consumed

LEMMA GrantStep == GrantInv /\ [WebAuthNext]_webAuthVars => GrantInv'
<1> SUFFICES ASSUME GrantInv, [WebAuthNext]_webAuthVars, NEW c \in Challenges
             PROVE  UsedOnce(c)'
  BY WebStepType DEF GrantInv
<1>0. WebTyped /\ WebTyped'
  BY WebStepType DEF GrantInv
<1>1. ASSUME NEW d \in Challenges, NEW w \in Wallets, Issue(d, w) PROVE UsedOnce(c)'
  <2>1. MakingFrom(c)' = MakingFrom(c) /\ made' = made
    BY <1>1 DEF Issue, MakingFrom, Of
  <2>2. challenge[c].status # "used" \/ challenge'[c].status = "used"
    BY <1>0, <1>1 DEF Issue, WebTyped, WebAuthTypeOK
  <2> QED BY <1>0, <2>1, <2>2, UsedOnceKept
<1>2. ASSUME NEW d \in Challenges, Lapse(d) PROVE UsedOnce(c)'
  <2>1. MakingFrom(c)' = MakingFrom(c) /\ made' = made
    BY <1>2 DEF Lapse, MakingFrom, Of
  <2>2. challenge[c].status # "used" \/ challenge'[c].status = "used"
    BY <1>0, <1>2 DEF Lapse, WebTyped, WebAuthTypeOK
  <2> QED BY <1>0, <2>1, <2>2, UsedOnceKept
<1>3. ASSUME NEW d \in Challenges, NEW r \in Requests, Check(r, d) PROVE UsedOnce(c)'
  <2>1. MakingFrom(c)' \subseteq MakingFrom(c)
    BY <1>0, <1>3 DEF Check, WebTyped, WebAuthTypeOK, MakingFrom, Of, Idle, Consumed
  <2> QED BY <1>0, <1>3, <2>1, UsedOnceKept DEF Check, records
<1>4. ASSUME NEW r \in Requests, ReadSafety(r) PROVE UsedOnce(c)'
  <2>1. MakingFrom(c)' \subseteq MakingFrom(c)
    BY <1>0, <1>4, MakingByDone, MakingByGoto DEF ReadSafety, RequestStates, Consumed
  <2> QED BY <1>0, <1>4, <2>1, UsedOnceKept DEF ReadSafety, records
<1>5. ASSUME NEW r \in Requests, Consume(r) PROVE UsedOnce(c)'
  <2>1. CASE ~Matches(Of(r))
    <3>1. MakingFrom(c)' \subseteq MakingFrom(c)
      BY <1>0, <1>5, <2>1, MakingByDone DEF Consume
    <3> QED BY <1>0, <1>5, <2>1, <3>1, UsedOnceKept DEF Consume
  <2>2. CASE Matches(Of(r))
    <3>1. Of(r) \in Challenges
      BY <1>0, <1>5 DEF Consume, At, WebTyped, HoldsChallenge, Holding
    <3>2. CASE c = Of(r)
      <4>1. challenge'[c].status = "used" /\ made' = made
        BY <1>0, <1>5, <2>2, <3>2 DEF Consume, WebTyped, WebAuthTypeOK, ChallengeRecords
      <4>2. made[c] = 0 /\ MakingFrom(c) = {}
        BY <2>2, <3>2 DEF GrantInv, UsedOnce, Matches
      <4>3. MakingFrom(c)' \subseteq {r}
        BY <1>0, <1>5, <2>2, <4>2 DEF Consume, Goto, MakingFrom, Of, WebTyped, WebAuthTypeOK
      <4> QED BY <4>1, <4>2, <4>3 DEF UsedOnce
    <3>3. CASE c # Of(r)
      <4>1. MakingFrom(c)' \subseteq MakingFrom(c)
        BY <1>0, <1>5, <2>2, <3>3
           DEF Consume, Goto, MakingFrom, Of, WebTyped, WebAuthTypeOK, RequestRecords
      <4>2. challenge'[c] = challenge[c] /\ made' = made
        BY <1>0, <1>5, <2>2, <3>3 DEF Consume, WebTyped, WebAuthTypeOK
      <4> QED BY <1>0, <4>1, <4>2, UsedOnceKept
    <3> QED BY <3>2, <3>3
  <2> QED BY <2>1, <2>2
<1>6. ASSUME NEW r \in Requests, ReplaceOlder(r) PROVE UsedOnce(c)'
  <2>1. MakingFrom(c)' \subseteq MakingFrom(c)
    BY <1>0, <1>6, MakingByGoto DEF ReplaceOlder, At, RequestStates, Consumed
  <2> QED BY <1>0, <1>6, <2>1, UsedOnceKept DEF ReplaceOlder
<1>7. ASSUME NEW r \in Requests, Create(r) PROVE UsedOnce(c)'
  <2>1. Of(r) \in Challenges /\ r \in MakingFrom(Of(r))
    BY <1>0, <1>7 DEF Create, At, WebTyped, HoldsChallenge, Holding, MakingFrom, Consumed
  <2>2. MakingFrom(c)' \subseteq MakingFrom(c) \ {r} /\ challenge' = challenge
    BY <1>0, <1>7, MakingByDone DEF Create
  <2>3. CASE c = Of(r)
    <3>1. made[c] = 0 /\ challenge[c].status = "used" /\ MakingFrom(c) \subseteq {r}
      BY <2>1, <2>3 DEF GrantInv, UsedOnce
    <3>2. made'[c] = 1
      BY <1>0, <1>7, <2>3, <3>1 DEF Create, WebTyped, WebAuthTypeOK
    <3> QED BY <2>2, <3>1, <3>2 DEF UsedOnce
  <2>4. CASE c # Of(r)
    <3>1. made'[c] = made[c]
      BY <1>0, <1>7, <2>4 DEF Create, WebTyped, WebAuthTypeOK
    <3> QED BY <1>0, <2>2, <3>1, UsedOnceKept
  <2> QED BY <2>3, <2>4
<1>8. ASSUME NEW w \in Wallets, NEW C, Revoke(w, C) PROVE UsedOnce(c)'
  <2>1. MakingFrom(c)' = MakingFrom(c)
    BY <1>8 DEF Revoke, MakingFrom, Of
  <2> QED BY <1>0, <1>8, <2>1, UsedOnceKept DEF Revoke
<1>9. ASSUME NEW r \in Requests,
             (\E w \in Wallets : KillStart(r, w)) \/ JobStart(r)
      PROVE  UsedOnce(c)'
  <2>1. MakingFrom(c)' \subseteq MakingFrom(c)
    BY <1>0, <1>9, ZenonT(60)
       DEF KillStart, JobStart, WebTyped, WebAuthTypeOK, MakingFrom, Of, Idle, Consumed
  <2> QED BY <1>0, <1>9, <2>1, UsedOnceKept DEF KillStart, JobStart, records
<1>10. ASSUME NEW r \in Requests,
              KillSwitch(r) \/ KillGrants(r) \/ JobReadsGrant(r) \/ JobReadsSwitch(r)
       PROVE  UsedOnce(c)'
  <2>1. MakingFrom(c)' \subseteq MakingFrom(c)
    BY <1>0, <1>10
       DEF KillSwitch, KillGrants, JobReadsGrant, JobReadsSwitch, WebTyped, WebAuthTypeOK,
           MakingFrom, Of, RequestRecords
  <2> QED BY <1>0, <1>10, <2>1, UsedOnceKept
          DEF KillSwitch, KillGrants, JobReadsGrant, JobReadsSwitch, records
<1>11. ASSUME NEW r \in Requests, KillAnswered(r) \/ JobEnds(r) PROVE UsedOnce(c)'
  <2>1. MakingFrom(c)' \subseteq MakingFrom(c)
    BY <1>0, <1>11, MakingByDone DEF KillAnswered, JobEnds
  <2> QED BY <1>0, <1>11, <2>1, UsedOnceKept DEF KillAnswered, JobEnds, records
<1>12. CASE UNCHANGED webAuthVars
  BY <1>0, <1>12, UsedOnceKept DEF webAuthVars, records, MakingFrom, Of
<1> QED BY <1>0, <1>1, <1>2, <1>3, <1>4, <1>5, <1>6, <1>7, <1>8, <1>9, <1>10, <1>11,
           <1>12 DEF WebAuthNext

LEMMA GrantInit == WebAuthInit => GrantInv
<1> SUFFICES ASSUME WebAuthInit, NEW c \in Challenges PROVE UsedOnce(c)
  BY WebInitType DEF GrantInv
<1>1. made[c] = 0 /\ MakingFrom(c) = {}
  BY DEF WebAuthInit, MakingFrom, Idle, Consumed
<1> QED BY <1>1 DEF UsedOnce

\* A signed challenge becomes one authority, however often it is sent and
\* however its requests overlap.
THEOREM GrantCorrect == WebAuthSpec => []OneGrantPerSignature
<1>1. GrantInv => OneGrantPerSignature
  BY DEF GrantInv, UsedOnce, OneGrantPerSignature
<1> QED BY <1>1, GrantInit, GrantStep, PTL DEF WebAuthSpec

-----------------------------------------------------------------------------
(* The kill switch *)

\* A switch that was answered, or whose record is written, is on record; a job
\* that started after the answer reads the record as it then is for good.
Switched(r) ==
    /\ request[r].pc = "killing" => request[r].wallet \in Wallets
    /\ request[r].pc = "killing" /\ "switch" \notin request[r].todo => killer # None
    /\ request[r].late => killer # None
    /\ request[r].late /\ request[r].pc = "job" /\ "switch" \notin request[r].todo
       /\ killer = Primary => request[r].killed

KillInv == WebTyped /\ (killed => killer # None) /\ \A r \in Requests : Switched(r)

LEMMA KillInit == WebAuthInit => KillInv
BY WebInitType DEF WebAuthInit, KillInv, Switched, Idle

\* A request that moves on within what is neither a kill nor a job.
LEMMA SwitchedMoves ==
    ASSUME KillInv, WebTyped', NEW r \in Requests, NEW pc \in RequestStates,
           Goto(r, pc), pc \notin {"killing", "job"}, killer' = killer
    PROVE  \A q \in Requests : Switched(q)'
BY DEF KillInv, Switched, Goto, WebTyped, WebAuthTypeOK, RequestRecords

LEMMA SwitchedDone ==
    ASSUME KillInv, NEW r \in Requests, Done(r), killer' = killer
    PROVE  \A q \in Requests : Switched(q)'
BY DEF KillInv, Switched, Done, Idle, WebTyped, WebAuthTypeOK

LEMMA KillStep == KillInv /\ [WebAuthNext]_webAuthVars => KillInv'
<1> SUFFICES ASSUME KillInv, [WebAuthNext]_webAuthVars
             PROVE  (killed' => killer' # None) /\ \A q \in Requests : Switched(q)'
  BY WebStepType DEF KillInv
<1>0. WebTyped /\ WebTyped'
  BY WebStepType DEF KillInv
<1> DEFINE Goal == (killed' => killer' # None) /\ \A q \in Requests : Switched(q)'
<1>1. ASSUME UNCHANGED <<killer, request, killed>> PROVE Goal
  BY <1>1 DEF KillInv, Switched
<1>2. ASSUME NEW c \in Challenges, NEW r \in Requests, Check(r, c) PROVE Goal
  BY <1>0, <1>2 DEF Check, KillInv, Switched, Idle, WebTyped, WebAuthTypeOK, records
<1>3. ASSUME NEW r \in Requests, ReadSafety(r) PROVE Goal
  BY <1>0, <1>3, SwitchedMoves, SwitchedDone DEF ReadSafety, KillInv, RequestStates, records
<1>4. ASSUME NEW r \in Requests, Consume(r) PROVE Goal
  BY <1>0, <1>4, SwitchedMoves, SwitchedDone DEF Consume, KillInv, RequestStates
<1>5. ASSUME NEW r \in Requests, ReplaceOlder(r) PROVE Goal
  BY <1>0, <1>5, SwitchedMoves DEF ReplaceOlder, KillInv, RequestStates
<1>6. ASSUME NEW r \in Requests, Create(r) PROVE Goal
  BY <1>0, <1>6, SwitchedDone DEF Create, KillInv
<1>7. ASSUME NEW w \in Wallets, NEW r \in Requests, KillStart(r, w) PROVE Goal
  BY <1>0, <1>7 DEF KillStart, KillInv, Switched, Idle, WebTyped, WebAuthTypeOK, records
<1>8. ASSUME NEW r \in Requests, KillSwitch(r) PROVE Goal
  <2>1. killer' # None /\ (killer # None => killer' = killer) /\ killed' = killed
    BY <1>8, WebAuthorityAssumption DEF KillSwitch, At, KillInv, Switched
  <2>2. request'[r] = [request[r] EXCEPT !.todo = @ \ {"switch"}]
    BY <1>0, <1>8 DEF KillSwitch, WebTyped, WebAuthTypeOK
  <2>3. Switched(r)'
    BY <1>0, <1>8, <2>1, <2>2
       DEF KillSwitch, At, KillInv, Switched, WebTyped, WebAuthTypeOK, RequestRecords
  <2>4. ASSUME NEW q \in Requests, q # r PROVE Switched(q)'
    <3>1. request'[q] = request[q]
      BY <1>0, <1>8, <2>4 DEF KillSwitch, WebTyped, WebAuthTypeOK
    <3>2. Switched(q)
      BY DEF KillInv
    <3> QED BY <2>1, <3>1, <3>2 DEF Switched
  <2> QED BY <2>1, <2>3, <2>4
<1>9. ASSUME NEW r \in Requests, KillGrants(r) PROVE Goal
  BY <1>0, <1>9
     DEF KillGrants, At, KillInv, Switched, WebTyped, WebAuthTypeOK, RequestRecords
<1>10. ASSUME NEW r \in Requests, KillAnswered(r) PROVE Goal
  BY <1>0, <1>10, SwitchedDone DEF KillAnswered, At, KillInv, Switched, records
<1>11. ASSUME NEW r \in Requests, JobStart(r) PROVE Goal
  <2>1. killer' = killer /\ killed' = killed
    BY <1>11 DEF JobStart, records
  <2>2. /\ request'[r].pc = "job" /\ "switch" \in request'[r].todo
        /\ request'[r].late = killed
    BY <1>0, <1>11 DEF JobStart, Idle, WebTyped, WebAuthTypeOK
  <2>3. ASSUME NEW q \in Requests, q # r PROVE Switched(q)'
    <3>1. request'[q] = request[q]
      BY <1>0, <1>11, <2>3 DEF JobStart, WebTyped, WebAuthTypeOK
    <3> QED BY <2>1, <3>1 DEF KillInv, Switched
  <2> QED BY <2>1, <2>2, <2>3 DEF KillInv, Switched
<1>12. ASSUME NEW r \in Requests, JobReadsGrant(r) PROVE Goal
  <2>1. killer' = killer /\ killed' = killed
    BY <1>12 DEF JobReadsGrant, records
  <2>2. /\ request'[r].pc = "job" /\ request'[r].late = request[r].late
        /\ request'[r].killed = request[r].killed
        /\ request'[r].todo = request[r].todo \ {"grants"}
    BY <1>0, <1>12 DEF JobReadsGrant, At, WebTyped, WebAuthTypeOK
  <2>3. ASSUME NEW q \in Requests, q # r PROVE request'[q] = request[q]
    BY <1>0, <1>12, <2>3 DEF JobReadsGrant, WebTyped, WebAuthTypeOK
  <2>4. request[r].pc = "job"
    BY <1>12 DEF JobReadsGrant, At
  <2>5. Switched(r)'
    BY <2>1, <2>2, <2>4 DEF KillInv, Switched
  <2>6. ASSUME NEW q \in Requests, q # r PROVE Switched(q)'
    BY <2>1, <2>3, <2>6 DEF KillInv, Switched
  <2> QED BY <2>1, <2>5, <2>6 DEF KillInv
<1>13. ASSUME NEW r \in Requests, JobReadsSwitch(r) PROVE Goal
  BY <1>0, <1>13
     DEF JobReadsSwitch, Engaged, At, KillInv, Switched, WebTyped, WebAuthTypeOK,
         RequestRecords, records
<1>14. ASSUME NEW r \in Requests, JobEnds(r) PROVE Goal
  BY <1>0, <1>14, SwitchedDone DEF JobEnds, KillInv, records
<1>15. ASSUME NEW c \in Challenges, Lapse(c) \/ \E w \in Wallets : Issue(c, w) PROVE Goal
  BY <1>1, <1>15 DEF Lapse, Issue
<1>16. ASSUME NEW w \in Wallets, NEW C, Revoke(w, C) PROVE Goal
  BY <1>1, <1>16 DEF Revoke
<1>17. CASE UNCHANGED webAuthVars
  BY <1>1, <1>17 DEF webAuthVars, records
<1> QED BY <1>2, <1>3, <1>4, <1>5, <1>6, <1>7, <1>8, <1>9, <1>10, <1>11, <1>12, <1>13,
           <1>14, <1>15, <1>16, <1>17 DEF WebAuthNext

\* A worker job that starts after the kill switch was answered monitors nothing,
\* if it was the account's primary wallet that engaged it.
THEOREM KillCorrect == WebAuthSpec => []KillIsSeen
<1>1. KillInv => KillIsSeen
  BY DEF KillInv, Switched, KillIsSeen, Monitors, Decided, At
<1> QED BY <1>1, KillInit, KillStep, PTL DEF WebAuthSpec

-----------------------------------------------------------------------------
(* Bridge proposals *)

(* Types *)

Calls == [pc : {"idle", "quoting", "preparing", "signing", "waiting", "checking", "settling"},
          snap : Proposals, use : Actions, tx : MaybeTx]

PagesTyped == onPage \in Proposals /\ inRecord \in Proposals /\ unseen \in BOOLEAN
TxTyped == tx \in [Txs -> [use : Actions, fate : Fates]]

LEMMA BridgeParts ==
    BridgeTypeOK <=> /\ route \in {"robinhood", "solana"} /\ quote \in Actions
                     /\ PagesTyped /\ TxTyped /\ bridging \in Calls
BY DEF BridgeTypeOK, PagesTyped, TxTyped, Calls

LEMMA ProposalTypes == Away \in Proposals /\ Preview \in Proposals /\ NoBridging \in Calls
<1>1. Away \in Proposals /\ Preview \in Proposals
  BY DEF Away, Preview, Proposals, Statuses, Actions, MaybeTx
<1> QED BY <1>1 DEF NoBridging, Calls, Actions, MaybeTx

LEMMA StatusType ==
    ASSUME PagesTyped, NEW s \in Statuses
    PROVE  WithStatus(s) \in Proposals
BY DEF PagesTyped, WithStatus, Proposals

\* The proposal with a status concluded for it: the source may be written again.
LEMMA ConcludedIs ==
    ASSUME PagesTyped, bridging \in Calls, NEW s \in Statuses, NEW p \in Concluded(s)
    PROVE  /\ p \in Proposals
           /\ p.status = s /\ p.action = onPage.action /\ p.approval = onPage.approval
           /\ \/ p.source = onPage.source
              \/ AtStep("settling") /\ p.source = bridging.tx
<1>1. onPage \in Proposals /\ bridging.tx \in MaybeTx
  BY DEF PagesTyped, Calls
<1>2. CASE p = WithStatus(s)
  BY <1>1, <1>2 DEF WithStatus, Proposals
<1>3. CASE AtStep("settling") /\ s = "source_confirmed" /\ p = WithSource(bridging.tx)
  BY <1>1, <1>3 DEF WithSource, Proposals
<1> QED BY <1>2, <1>3 DEF Concluded

LEMMA TxType ==
    ASSUME PagesTyped, bridging \in Calls, NEW s \in Statuses
    PROVE  WithTx(s) \in Proposals
<1>1. bridging.tx \in MaybeTx /\ bridging.snap \in Proposals
  BY DEF Calls
<1>2. bridging.snap.source \in MaybeTx /\ bridging.snap.approval \in MaybeTx
  BY <1>1 DEF Proposals
<1> QED BY <1>1, <1>2 DEF PagesTyped, WithTx, Proposals

LEMMA PatchType ==
    ASSUME PagesTyped, NEW p \in Proposals, Patch(p)
    PROVE  PagesTyped'
BY DEF PagesTyped, Patch, proposals

\* A call in the wallet or waiting for a receipt has its transaction.
Holds == AtStep("waiting") => bridging.tx \in Txs

BridgeTyped == BridgeTypeOK /\ Holds

LEMMA BridgeInitType == BridgeInit => BridgeTyped
<1> SUFFICES ASSUME BridgeInit PROVE BridgeTyped
  OBVIOUS
<1>1. onPage \in Proposals
  BY ProposalTypes DEF BridgeInit, Stored, Proposals, Statuses
<1>2. PagesTyped /\ bridging \in Calls
  BY <1>1, ProposalTypes DEF BridgeInit, PagesTyped
<1>3. TxTyped
  BY DEF BridgeInit, TxTyped, Unsent, Actions, Fates
<1>4. Holds
  BY DEF BridgeInit, Holds, AtStep, NoBridging
<1> QED BY <1>2, <1>3, <1>4, BridgeParts DEF BridgeInit, BridgeTyped, Actions

LEMMA BridgeStepType == BridgeTyped /\ [BridgeNext]_bridgeVars => BridgeTyped'
<1> SUFFICES ASSUME BridgeTyped, [BridgeNext]_bridgeVars PROVE BridgeTyped'
  OBVIOUS
<1>0. /\ route \in {"robinhood", "solana"} /\ quote \in Actions
      /\ PagesTyped /\ TxTyped /\ bridging \in Calls /\ Holds
  BY BridgeParts DEF BridgeTyped
<1>a. ASSUME UNCHANGED route, quote' \in Actions, PagesTyped', TxTyped', bridging' \in Calls,
             AtStep("waiting")' => bridging.pc = "waiting" /\ bridging'.tx = bridging.tx
      PROVE  BridgeTyped'
  BY <1>0, <1>a
     DEF BridgeTyped, BridgeTypeOK, PagesTyped, TxTyped, Calls, Holds, AtStep
<1>b. ASSUME UNCHANGED route, quote' \in Actions, PagesTyped', UNCHANGED tx, EndCall
      PROVE  BridgeTyped'
  BY <1>0, <1>a, <1>b, ProposalTypes DEF EndCall, TxTyped, NoBridging, AtStep
<1>s. {"preview_only", "ready_for_user_signature", "approval_confirmed", "signing", "submitted",
       "source_confirmed", "confirmed", "reverted", "unknown"} \subseteq Statuses
  BY DEF Statuses
<1>u. BeforeSending \in Statuses /\ RevertedStatus \in Statuses
  BY <1>s DEF BeforeSending, RevertedStatus
<1>1. CASE Press
  <2>1. PICK pc \in {"checking", "quoting", "preparing"} :
          bridging' = [NoBridging EXCEPT !.snap = onPage, !.use = quote, !.pc = pc]
    BY <1>1 DEF Press
  <2>2. bridging' \in Calls /\ bridging'.pc # "waiting"
    BY <1>0, <2>1, ProposalTypes DEF NoBridging, Calls, PagesTyped
  <2> QED BY <1>0, <1>1, <1>a, <2>2 DEF Press, PagesTyped, TxTyped, AtStep, proposals
<1>2. CASE PressFromSolana
  <2>1. bridging' = [NoBridging EXCEPT !.snap = onPage, !.use = "deposit", !.pc = "signing"]
        /\ Patch(WithStatus("signing")) /\ UNCHANGED <<route, quote, tx>>
    BY <1>2 DEF PressFromSolana
  <2>2. bridging' \in Calls /\ bridging'.pc # "waiting"
    BY <1>0, <2>1, ProposalTypes DEF NoBridging, Calls, PagesTyped, Actions
  <2>3. PagesTyped'
    BY <1>0, <1>s, <2>1, StatusType, PatchType
  <2> QED BY <1>0, <1>a, <2>1, <2>2, <2>3 DEF TxTyped, AtStep
<1>3. ASSUME NEW action \in {"approval", "deposit"}, Quoted(action) PROVE BridgeTyped'
  <2>1. [WithStatus("ready_for_user_signature") EXCEPT !.action = action] \in Proposals
    BY <1>0, <1>s, StatusType DEF Proposals, Actions
  <2>2. PagesTyped'
    BY <1>0, <1>3, <2>1, PatchType DEF Quoted
  <2> QED BY <1>3, <1>b, <2>2 DEF Quoted, Actions
<1>4. CASE QuoteExpires
  BY <1>0, <1>4, <1>a DEF QuoteExpires, PagesTyped, TxTyped, Actions, AtStep, proposals
<1>5. CASE Prepared
  <2>1. bridging' \in Calls /\ bridging'.pc # "waiting"
    BY <1>0, <1>5 DEF Prepared, GoOn, Calls
  <2>2. PagesTyped'
    BY <1>0, <1>5, <1>s, StatusType, PatchType DEF Prepared
  <2> QED BY <1>0, <1>5, <1>a, <2>1, <2>2 DEF Prepared, TxTyped, AtStep
<1>6. CASE Fails
  <2>1. PagesTyped'
    BY <1>0, <1>6, <1>u, StatusType, PatchType DEF Fails
  <2> QED BY <1>0, <1>6, <1>b, <2>1 DEF Fails
<1>7. ASSUME NEW t \in Txs, WalletSends(t) PROVE BridgeTyped'
  <2>1. TxTyped'
    BY <1>0, <1>7 DEF WalletSends, Sends, TxTyped, Calls, Fates
  <2>2. bridging' \in Calls /\ bridging'.tx = t
    BY <1>0, <1>7 DEF WalletSends, Calls, MaybeTx
  <2>3. [WithStatus("submitted") EXCEPT !.source = t] \in Proposals
    BY <1>0, <1>s, StatusType DEF Proposals, MaybeTx
  <2>4. PagesTyped'
    BY <1>0, <1>7, <2>3, PatchType DEF WalletSends, PagesTyped, proposals
  <2>5. UNCHANGED <<route, quote>>
    BY <1>7 DEF WalletSends
  <2> QED BY <1>0, <2>1, <2>2, <2>4, <2>5
          DEF BridgeTyped, BridgeTypeOK, PagesTyped, TxTyped, Calls, Holds
<1>8. ASSUME NEW t \in Txs, WalletThrows(t) PROVE BridgeTyped'
  <2>1. TxTyped'
    BY <1>0, <1>8 DEF WalletThrows, Sends, TxTyped, Calls, Fates
  <2>2. PagesTyped'
    BY <1>0, <1>8, <1>u, StatusType DEF WalletThrows, PagesTyped, proposals
  <2>3. bridging' = NoBridging /\ UNCHANGED <<route, quote>>
    BY <1>8 DEF WalletThrows, EndCall
  <2> QED BY <1>0, <1>a, <2>1, <2>2, <2>3, ProposalTypes DEF NoBridging, AtStep
<1>9. ASSUME NEW t \in Txs, NEW fate \in Fates, Decides(t, fate) PROVE BridgeTyped'
  <2>1. TxTyped'
    BY <1>0, <1>9 DEF Decides, TxTyped
  <2> QED BY <1>0, <1>9, <1>a, <2>1 DEF Decides, PagesTyped, AtStep, proposals
<1>10. CASE ApprovalConfirmed
  <2>1. bridging.tx \in MaybeTx
    BY <1>0 DEF Calls
  <2>2. [WithStatus("approval_confirmed") EXCEPT !.action = "none", !.approval = bridging.tx]
          \in Proposals
    <3>1. ASSUME NEW p \in Proposals
          PROVE  [p EXCEPT !.action = "none", !.approval = bridging.tx] \in Proposals
      BY <2>1 DEF Proposals, Actions
    <3> QED BY <1>0, <1>s, <3>1, StatusType
  <2>3. PagesTyped'
    BY <1>0, <1>10, <2>2, PatchType DEF ApprovalConfirmed
  <2> QED BY <1>10, <1>b, <2>3 DEF ApprovalConfirmed, Actions
<1>11. CASE SourceConfirmed
  <2>1. bridging.tx \in MaybeTx
    BY <1>0 DEF Calls
  <2>2. [WithStatus("source_confirmed") EXCEPT !.source = bridging.tx] \in Proposals
    BY <1>0, <1>s, <2>1, StatusType DEF Proposals
  <2>3. PagesTyped'
    BY <1>0, <1>11, <2>2, PatchType DEF SourceConfirmed
  <2>4. bridging' \in Calls /\ bridging'.pc # "waiting"
    BY <1>0, <1>11, ProposalTypes DEF SourceConfirmed, EndCall, GoOn, Calls, NoBridging
  <2> QED BY <1>0, <1>11, <1>a, <2>3, <2>4 DEF SourceConfirmed, TxTyped, Actions, AtStep
<1>12. CASE SourceReverted \/ NoReceipt
  <2>1. PagesTyped'
    BY <1>0, <1>12, <1>s, <1>u, TxType, PatchType DEF SourceReverted, NoReceipt
  <2> QED BY <1>0, <1>12, <1>b, <2>1 DEF SourceReverted, NoReceipt
<1>13. ASSUME NEW status \in Statuses, SettlementChecked(status) PROVE BridgeTyped'
  <2>1. PICK p \in Concluded(status) : Patch(p)
    BY <1>13 DEF SettlementChecked
  <2>2. PagesTyped'
    BY <1>0, <2>1, ConcludedIs, PatchType
  <2> QED BY <1>0, <1>13, <1>b, <2>2 DEF SettlementChecked
<1>14. CASE OpenOtherSession \/ OpenThisSession
  BY <1>0, <1>14, <1>a, ProposalTypes
     DEF OpenOtherSession, OpenThisSession, PagesTyped, TxTyped, AtStep
<1>15. CASE ReloadPage
  <2>1. PagesTyped'
    BY <1>0, <1>15 DEF ReloadPage, PagesTyped
  <2> QED BY <1>15, <1>b, <2>1 DEF ReloadPage, EndCall, Actions
<1>16. CASE UNCHANGED bridgeVars
  BY <1>0, <1>16, <1>a DEF bridgeVars, proposals, PagesTyped, TxTyped, AtStep
<1> QED BY <1>1, <1>2, <1>3, <1>4, <1>5, <1>6, <1>7, <1>8, <1>9, <1>10, <1>11, <1>12, <1>13,
           <1>14, <1>15, <1>16 DEF BridgeNext

\* Type correctness of the proposals, the transactions and the call in flight.
THEOREM BridgeTypeCorrect == BridgeSpec => []BridgeTypeOK
<1>1. BridgeTyped => BridgeTypeOK
  BY DEF BridgeTyped
<1> QED BY <1>1, BridgeInitType, BridgeStepType, PTL DEF BridgeSpec

-----------------------------------------------------------------------------
(* One deposit from Robinhood *)

\* What a deposit that was sent leaves in the database: nothing that lets the
\* proposal deposit again, but for the check of its settlement.
Final(p) ==
    \/ p.status \in {"confirmed", "reverted"}
    \/ p.status \in {"source_confirmed", "unknown"} /\ p.source # NoTx
Spent ==
    \/ /\ AtStep("waiting") /\ bridging.use = "deposit"
       /\ inRecord.status = "signing"
    \/ AtStep("idle") /\ inRecord.status = "signing"
    \/ bridging.pc \in {"idle", "checking", "settling"} /\ Final(inRecord)

Deposits == SentFor("deposit")
DepositState ==
    /\ onPage \in {Away, inRecord}
    /\ AtStep("signing") => inRecord.status = "signing"
    /\ AtStep("checking") => bridging.snap.status \in {"source_confirmed", "unknown"}
    /\ bridging.pc \in {"checking", "settling"} => inRecord.source # NoTx
    /\ AtStep("settling") => bridging.tx # NoTx
    /\ \A t, u \in Deposits : t = u
    /\ Deposits # {} => Spent

\* It holds as long as the page had part in all that was done.
DepositInv == BridgeTyped /\ (route = "robinhood" /\ ~unseen => DepositState)

\* A patch the page had part in is in the database as well.
LEMMA PatchSeen ==
    ASSUME NEW p, Patch(p), ~unseen'
    PROVE  onPage # Away /\ onPage' = p /\ inRecord' = p /\ ~unseen
BY DEF Patch, proposals

LEMMA DepositStep == DepositInv /\ [BridgeNext]_bridgeVars => DepositInv'
<1> SUFFICES ASSUME DepositInv, [BridgeNext]_bridgeVars, route' = "robinhood", ~unseen'
             PROVE  DepositState'
  BY BridgeStepType DEF DepositInv
<1>0. PagesTyped /\ TxTyped /\ bridging \in Calls /\ Holds
  BY BridgeParts DEF DepositInv, BridgeTyped
<1>a. ASSUME route = "robinhood", ~unseen PROVE DepositState
  BY <1>a DEF DepositInv
<1>d. ASSUME UNCHANGED tx PROVE Deposits' = Deposits
  BY <1>d DEF Deposits, SentFor
<1>1. CASE Press
  <2>1. /\ UNCHANGED <<route, proposals, tx, unseen>>
        /\ bridging' = [NoBridging EXCEPT !.snap = onPage, !.use = quote, !.pc =
             IF SettlementOnly(onPage) THEN "checking"
             ELSE IF quote = "none" THEN "quoting" ELSE "preparing"]
        /\ AtStep("idle") /\ onPage # Away
        /\ onPage.status \notin {"signing", "confirmed", "reverted"}
    BY <1>1 DEF Press, CardDisabled
  <2>2. DepositState /\ onPage = inRecord /\ Deposits' = Deposits
    BY <1>a, <1>d, <2>1 DEF DepositState
  <2>3. CASE SettlementOnly(onPage)
    <3>1. bridging'.pc = "checking" /\ bridging'.snap = onPage
      BY <2>1, <2>3 DEF NoBridging
    <3> QED BY <2>1, <2>2, <2>3, <3>1
            DEF DepositState, SettlementOnly, Spent, Final, AtStep, proposals
  <2>4. CASE ~SettlementOnly(onPage)
    <3>1. bridging'.pc \in {"quoting", "preparing"}
      BY <2>1, <2>4 DEF NoBridging
    <3>2. Deposits = {}
      BY <2>1, <2>2, <2>4 DEF DepositState, SettlementOnly, Spent, Final, AtStep
    <3> QED BY <2>1, <2>2, <3>1, <3>2 DEF DepositState, AtStep, proposals
  <2> QED BY <2>3, <2>4
<1>2. CASE PressFromSolana
  BY <1>2 DEF PressFromSolana
\* Before the wallet is asked nothing was deposited.
<1>b. ASSUME route = "robinhood", ~unseen,
             bridging.pc \in {"quoting", "preparing", "signing"}
      PROVE  Deposits = {} /\ DepositState
  BY <1>a, <1>b DEF DepositState, Spent, AtStep
<1>3. ASSUME NEW action \in {"approval", "deposit"}, Quoted(action) PROVE DepositState'
  <2>1. /\ bridging' = NoBridging /\ UNCHANGED <<route, tx>> /\ AtStep("quoting")
        /\ onPage' = inRecord' /\ ~unseen
    BY <1>3, PatchSeen DEF Quoted, EndCall
  <2>2. Deposits' = {}
    BY <1>b, <1>d, <2>1 DEF AtStep
  <2> QED BY <2>1, <2>2 DEF DepositState, AtStep, NoBridging
<1>4. CASE QuoteExpires
  BY <1>4, <1>a, <1>d DEF QuoteExpires, DepositState, Spent, Final, AtStep, proposals
<1>5. CASE Prepared
  <2>1. /\ UNCHANGED <<route, tx>> /\ AtStep("preparing") /\ bridging'.pc = "signing"
        /\ onPage' = WithStatus("signing") /\ inRecord' = onPage' /\ ~unseen
    BY <1>0, <1>5, PatchSeen DEF Prepared, GoOn, Calls
  <2>2. Deposits' = {}
    BY <1>b, <1>d, <2>1 DEF AtStep
  <2>3. inRecord'.status = "signing"
    BY <1>0, <2>1 DEF WithStatus, PagesTyped, Proposals
  <2> QED BY <2>1, <2>2, <2>3 DEF DepositState, AtStep
<1>6. CASE Fails
  <2>1. /\ bridging' = NoBridging /\ UNCHANGED <<route, tx>>
        /\ bridging.pc \in {"quoting", "preparing", "signing"}
        /\ onPage' = inRecord' /\ ~unseen
    BY <1>6, PatchSeen DEF Fails, EndCall
  <2>2. Deposits' = {}
    BY <1>b, <1>d, <2>1
  <2> QED BY <2>1, <2>2 DEF DepositState, AtStep, NoBridging
<1>7. ASSUME NEW t \in Txs, WalletSends(t) PROVE DepositState'
  <2>1. /\ UNCHANGED <<route, proposals, unseen>> /\ AtStep("signing")
        /\ bridging'.pc = "waiting" /\ bridging'.use = bridging.use
        /\ tx' = [tx EXCEPT ![t] = [use |-> bridging.use, fate |-> "pending"]]
    BY <1>0, <1>7 DEF WalletSends, Sends, Calls
  <2>2. Deposits = {} /\ DepositState
    BY <1>b, <2>1 DEF AtStep
  <2>3. Deposits' \subseteq {t} /\ (bridging.use # "deposit" => Deposits' = {})
    BY <1>0, <2>1, <2>2 DEF Deposits, SentFor, TxTyped
  <2> QED BY <2>1, <2>2, <2>3 DEF DepositState, Spent, AtStep, proposals
<1>8. ASSUME NEW t \in Txs, WalletThrows(t) PROVE DepositState'
  BY <1>8 DEF WalletThrows
<1>9. ASSUME NEW t \in Txs, NEW fate \in Fates, Decides(t, fate) PROVE DepositState'
  <2>1. UNCHANGED <<route, proposals, bridging, unseen>> /\ tx' = [tx EXCEPT ![t].fate = fate]
    BY <1>9 DEF Decides
  <2>2. Deposits' = Deposits
    BY <1>0, <2>1 DEF Deposits, SentFor, TxTyped
  <2> QED BY <1>a, <2>1, <2>2 DEF DepositState, Spent, Final, AtStep, proposals
<1>10. CASE ApprovalConfirmed
  <2>1. /\ bridging' = NoBridging /\ UNCHANGED <<route, tx>>
        /\ AtStep("waiting") /\ bridging.use = "approval"
        /\ onPage' = inRecord' /\ ~unseen
    BY <1>10, PatchSeen DEF ApprovalConfirmed, EndCall
  <2>2. Deposits' = {}
    BY <1>a, <1>d, <2>1 DEF DepositState, Spent, AtStep
  <2> QED BY <2>1, <2>2 DEF DepositState, AtStep, NoBridging
<1>11. CASE SourceConfirmed
  <2>1. /\ UNCHANGED <<route, tx>> /\ AtStep("waiting") /\ bridging'.pc = "settling"
        /\ onPage' = [WithStatus("source_confirmed") EXCEPT !.source = bridging.tx]
        /\ inRecord' = onPage' /\ ~unseen /\ bridging'.tx = bridging.tx
    BY <1>0, <1>11, PatchSeen DEF SourceConfirmed, GoOn, Calls
  <2>2. /\ inRecord'.status = "source_confirmed" /\ inRecord'.source # NoTx
        /\ bridging'.tx # NoTx
    BY <1>0, <2>1, BridgeAssumption DEF WithStatus, PagesTyped, Proposals, Holds
  <2>3. DepositState /\ Deposits' = Deposits
    BY <1>a, <1>d, <2>1
  <2> QED BY <2>1, <2>2, <2>3 DEF DepositState, Spent, Final, AtStep
\* A receipt that is not a confirmation.
<1>c. ASSUME NEW status \in {"reverted", "unknown"}, AtStep("waiting"), EndCall,
             Patch(WithTx(status)), UNCHANGED <<route, tx>>
      PROVE  DepositState'
  <2>1. onPage' = WithTx(status) /\ inRecord' = onPage' /\ ~unseen /\ bridging'.pc = "idle"
    BY <1>c, PatchSeen DEF EndCall, NoBridging
  <2>2. /\ inRecord'.status = status
        /\ bridging.use = "deposit" => inRecord'.source # NoTx
    BY <1>0, <1>c, <2>1, BridgeAssumption DEF WithTx, PagesTyped, Proposals, Holds
  <2>3. DepositState /\ Deposits' = Deposits
    BY <1>a, <1>c, <1>d, <2>1
  <2>4. Deposits # {} => bridging.use = "deposit"
    BY <1>c, <2>3 DEF DepositState, Spent, AtStep
  <2> QED BY <2>1, <2>2, <2>3, <2>4 DEF DepositState, Spent, Final, AtStep
<1>12. CASE SourceReverted \/ NoReceipt
  BY <1>12, <1>c DEF SourceReverted, NoReceipt, RevertedStatus
<1>13. ASSUME NEW status \in Statuses, SettlementChecked(status) PROVE DepositState'
  <2>0. PICK p \in Concluded(status) : Patch(p)
    BY <1>13 DEF SettlementChecked
  <2>1. /\ bridging.pc \in {"checking", "settling"} /\ UNCHANGED <<route, tx>>
        /\ bridging'.pc = "idle" /\ onPage # Away
        /\ onPage' = p /\ inRecord' = onPage' /\ ~unseen
    BY <1>13, <2>0, PatchSeen DEF SettlementChecked, EndCall, NoBridging
  <2>2. DepositState /\ Deposits' = Deposits
    BY <1>a, <1>d, <2>1
  <2>3. status \in {"source_confirmed", "unknown", "confirmed"}
    BY <1>13, <2>1, <2>2 DEF SettlementChecked, Evidence, KeptStatus, DepositState, AtStep
  <2>4. inRecord'.status = status /\ inRecord'.source # NoTx
    BY <1>0, <2>1, <2>2, ConcludedIs DEF DepositState
  <2> QED BY <2>1, <2>2, <2>3, <2>4 DEF DepositState, Spent, Final, AtStep
<1>14. CASE OpenOtherSession \/ OpenThisSession
  BY <1>14, <1>a, <1>d
     DEF OpenOtherSession, OpenThisSession, DepositState, Spent, Final, AtStep
<1>15. CASE ReloadPage
  <2>1. /\ UNCHANGED <<route, inRecord, tx, unseen>> /\ onPage' = inRecord
        /\ bridging'.pc = "idle"
    BY <1>15 DEF ReloadPage, NoBridging
  <2>2. DepositState /\ Deposits' = Deposits
    BY <1>a, <1>d, <2>1
  <2> QED BY <2>1, <2>2 DEF DepositState, Spent, Final, AtStep
<1>16. CASE UNCHANGED bridgeVars
  BY <1>16, <1>a, <1>d DEF bridgeVars, proposals, DepositState, Spent, Final, AtStep
<1> QED BY <1>1, <1>2, <1>3, <1>4, <1>5, <1>6, <1>7, <1>8, <1>9, <1>10, <1>11, <1>12, <1>13,
           <1>14, <1>15, <1>16 DEF BridgeNext

LEMMA DepositInit == BridgeInit => DepositInv
<1> SUFFICES ASSUME BridgeInit PROVE DepositState
  BY BridgeInitType DEF DepositInv
<1>1. Deposits = {}
  BY DEF BridgeInit, Deposits, SentFor, Unsent
<1> QED BY <1>1 DEF BridgeInit, DepositState, AtStep, NoBridging

\* A bridge from Robinhood deposits once, whatever quotes, reverts, late
\* receipts, settlement checks and reloads come in between.
THEOREM DepositCorrect == BridgeSpec => []DepositedOnce
<1>1. DepositInv => DepositedOnce
  <2> SUFFICES ASSUME DepositInv, route = "robinhood", ~unseen
               PROVE  Cardinality(Deposits) <= 1
    BY DEF DepositedOnce, Deposits
  <2>1. \A t, u \in Deposits : t = u
    BY DEF DepositInv, DepositState
  <2>2. CASE Deposits = {}
    <3>1. Cardinality({}) = 0
      BY FS_EmptySet
    <3> QED BY <2>2, <3>1
  <2>3. ASSUME NEW t \in Deposits PROVE Cardinality(Deposits) <= 1
    <3>1. Deposits = {t}
      BY <2>1, <2>3
    <3>2. Cardinality({t}) = 1
      BY FS_Singleton
    <3> QED BY <3>1, <3>2
  <2> QED BY <2>2, <2>3
<1> QED BY <1>1, DepositInit, DepositStep, PTL DEF BridgeSpec

-----------------------------------------------------------------------------
(* What the page and the database say. A proposal p agrees with the chains  *)
(* when the transactions are x; u: something was done that no patch tells.  *)

Arrived(t, x) == x[t].fate \in {"landed", "settled"}

Agrees(p, x, r, u) ==
    /\ p.status = "confirmed" =>
         \E t \in Txs : x[t].use = "deposit" /\ x[t].fate = "settled"
    /\ p.status = "reverted" =>
         \E t \in {p.source, p.approval} \ {NoTx} : x[t].fate = "reverted"
    /\ p.status = "approval_confirmed" /\ ~u => p.approval # NoTx /\ Arrived(p.approval, x)
    /\ p.status = "source_confirmed" /\ r = "solana" =>
         \E t \in Txs : x[t].use = "deposit" /\ Arrived(t, x)

PagesAgree == Agrees(onPage, tx, route, unseen) /\ Agrees(inRecord, tx, route, unseen)

\* What the call in flight knows by where it is.
CallState ==
    /\ bridging.pc \in {"quoting", "preparing", "checking", "settling"} => route = "robinhood"
    /\ bridging.pc \in {"preparing", "signing", "waiting"} => bridging.use # "none"
    /\ AtStep("waiting") => tx[bridging.tx].use = bridging.use
    /\ AtStep("checking") => /\ bridging.snap.source # NoTx
                             /\ bridging.snap.status \in {"source_confirmed", "unknown"}
    /\ AtStep("settling") => bridging.tx # NoTx

\* While the page has part in all that is done, the proposal is the one the
\* call began with, and an approval without a next action has landed.
SeenState ==
    /\ onPage \in {Away, inRecord}
    /\ inRecord.action = "none" /\ inRecord.approval # NoTx => Arrived(inRecord.approval, tx)
    /\ quote # "none" => inRecord.action = quote
    /\ bridging.pc \in {"quoting", "preparing", "signing", "waiting"} =>
         inRecord.action = bridging.snap.action /\ inRecord.approval = bridging.snap.approval
    /\ bridging.pc \in {"preparing", "signing", "waiting"} /\ bridging.use = "approval" =>
         bridging.snap.action # "none"

OnlyDepositsSettle == \A t \in Txs : tx[t].fate = "settled" => tx[t].use = "deposit"

StatusInv ==
    BridgeTyped /\ OnlyDepositsSettle /\ CallState /\ PagesAgree /\ (~unseen => SeenState)

\* Fates only go forward, and the use of what was sent stays.
FatesGrow == \A t \in Txs :
    /\ tx[t].use # "none" => tx'[t].use = tx[t].use
    /\ tx[t].fate = "settled" => tx'[t].fate = "settled"
    /\ tx[t].fate = "reverted" => tx'[t].fate = "reverted"
    /\ Arrived(t, tx) => Arrived(t, tx')

LEMMA FatesStep ==
    StatusInv /\ [BridgeNext]_bridgeVars => FatesGrow /\ OnlyDepositsSettle' /\ UNCHANGED route
<1> SUFFICES ASSUME StatusInv, [BridgeNext]_bridgeVars
             PROVE  FatesGrow /\ OnlyDepositsSettle' /\ UNCHANGED route
  OBVIOUS
<1>0. TxTyped /\ bridging \in Calls /\ OnlyDepositsSettle
  BY BridgeParts DEF StatusInv, BridgeTyped
<1>1. CASE UNCHANGED <<route, tx>>
  BY <1>0, <1>1 DEF FatesGrow, OnlyDepositsSettle, Arrived
<1>2. ASSUME NEW t \in Txs, Sends(t), UNCHANGED route
      PROVE  FatesGrow /\ OnlyDepositsSettle'
  <2>1. tx' = [tx EXCEPT ![t] = [use |-> bridging.use, fate |-> "pending"]]
        /\ tx[t].use = "none" /\ tx[t].fate = "none"
    BY <1>2 DEF Sends, Unsent
  <2> QED BY <1>0, <2>1 DEF FatesGrow, OnlyDepositsSettle, Arrived, TxTyped
<1>3. ASSUME NEW t \in Txs, NEW fate \in Fates, Decides(t, fate)
      PROVE  FatesGrow /\ OnlyDepositsSettle' /\ UNCHANGED route
  BY <1>0, <1>3 DEF Decides, FatesGrow, OnlyDepositsSettle, Arrived, TxTyped
<1> QED BY <1>1, <1>2, <1>3
        DEF BridgeNext, bridgeVars, Press, PressFromSolana, Quoted, QuoteExpires, Prepared,
            Fails, WalletSends, WalletThrows, ApprovalConfirmed, SourceConfirmed,
            SourceReverted, NoReceipt, SettlementChecked, OpenOtherSession,
            OpenThisSession, ReloadPage

LEMMA AgreesStays ==
    ASSUME FatesGrow, UNCHANGED route, NEW u \in BOOLEAN, unseen => u
    PROVE  \A p \in Proposals : Agrees(p, tx, route, unseen) => Agrees(p, tx', route', u)
<1> SUFFICES ASSUME NEW p \in Proposals, Agrees(p, tx, route, unseen)
             PROVE  Agrees(p, tx', route', u)
  OBVIOUS
<1>1. p.source \in MaybeTx /\ p.approval \in MaybeTx
  BY DEF Proposals
<1>2. \A t \in Txs : tx[t].use = "deposit" => tx'[t].use = "deposit"
  BY DEF FatesGrow
<1> QED BY <1>1, <1>2 DEF Agrees, FatesGrow, MaybeTx

\* Whatever is patched in, it has to agree, and the rest still does.
LEMMA PatchAgrees ==
    ASSUME StatusInv, FatesGrow, UNCHANGED route, NEW p, Patch(p),
           Agrees(p, tx', route', unseen')
    PROVE  PagesAgree'
<1>1. /\ onPage \in Proposals /\ inRecord \in Proposals /\ unseen \in BOOLEAN
      /\ Agrees(onPage, tx, route, unseen) /\ Agrees(inRecord, tx, route, unseen)
  BY BridgeParts DEF StatusInv, BridgeTyped, PagesTyped, PagesAgree
<1>2. unseen' \in BOOLEAN /\ (unseen => unseen')
  BY <1>1 DEF Patch
<1>3. /\ Agrees(onPage, tx', route', unseen') /\ Agrees(inRecord, tx', route', unseen')
  BY <1>1, <1>2, AgreesStays
<1> QED BY <1>3 DEF PagesAgree, Patch, proposals

LEMMA PagesStay ==
    ASSUME StatusInv, FatesGrow, UNCHANGED <<route, unseen>>, onPage' \in {onPage, inRecord, Away},
           UNCHANGED inRecord
    PROVE  PagesAgree'
<1>1. /\ onPage \in Proposals /\ inRecord \in Proposals /\ unseen \in BOOLEAN
      /\ Agrees(onPage, tx, route, unseen) /\ Agrees(inRecord, tx, route, unseen)
  BY BridgeParts DEF StatusInv, BridgeTyped, PagesTyped, PagesAgree
<1>2. /\ Agrees(onPage, tx', route', unseen') /\ Agrees(inRecord, tx', route', unseen')
  BY <1>1, AgreesStays
<1>3. Agrees(Away, tx', route', unseen')
  BY DEF Away, Agrees
<1> QED BY <1>2, <1>3 DEF PagesAgree

\* A status that claims nothing.
Claims == {"confirmed", "reverted", "approval_confirmed", "source_confirmed"}
LEMMA NothingClaimed ==
    ASSUME NEW p, p.status \notin Claims, NEW x, NEW r, NEW u PROVE Agrees(p, x, r, u)
BY DEF Claims, Agrees

LEMMA WithStatusIs ==
    ASSUME PagesTyped, NEW s \in Statuses
    PROVE  /\ WithStatus(s) \in Proposals
           /\ WithStatus(s).status = s /\ WithStatus(s).action = onPage.action
           /\ WithStatus(s).source = onPage.source /\ WithStatus(s).approval = onPage.approval
BY StatusType DEF PagesTyped, WithStatus, Proposals

LEMMA WithTxIs ==
    ASSUME PagesTyped, bridging \in Calls, NEW s \in Statuses
    PROVE  /\ WithTx(s).status = s /\ WithTx(s).action = onPage.action
           /\ bridging.use = "deposit" => WithTx(s).source = bridging.tx
           /\ bridging.use = "approval" => WithTx(s).approval = bridging.tx
           /\ bridging.use # "approval" => WithTx(s).approval = bridging.snap.approval
BY DEF PagesTyped, WithTx, Proposals

LEMMA StatusStep == StatusInv /\ [BridgeNext]_bridgeVars => StatusInv'
<1> SUFFICES ASSUME StatusInv, [BridgeNext]_bridgeVars
             PROVE  CallState' /\ PagesAgree' /\ (~unseen' => SeenState')
  BY BridgeStepType, FatesStep DEF StatusInv
<1>0. /\ route \in {"robinhood", "solana"} /\ quote \in Actions /\ PagesTyped /\ TxTyped
      /\ bridging \in Calls /\ Holds /\ FatesGrow /\ UNCHANGED route
      /\ CallState /\ OnlyDepositsSettle /\ PagesAgree
  BY BridgeParts, FatesStep DEF StatusInv, BridgeTyped
<1>a. ASSUME ~unseen PROVE SeenState
  BY <1>a DEF StatusInv
<1>b. \A t \in MaybeTx : t # NoTx => (Arrived(t, tx) => Arrived(t, tx'))
  BY <1>0 DEF FatesGrow, MaybeTx
<1>c. inRecord.approval \in MaybeTx /\ onPage.approval \in MaybeTx
  BY <1>0 DEF PagesTyped, Proposals
<1>d. ASSUME EndCall PROVE CallState' /\ bridging'.pc = "idle"
  BY <1>d DEF EndCall, CallState, AtStep, NoBridging
<1>e. ASSUME AtStep("waiting") PROVE bridging.tx \in Txs
  BY <1>0, <1>e DEF Holds
\* A patch that leaves the action and the approval, and ends the call.
<1>f. ASSUME NEW p, Patch(p), EndCall, ~unseen', p.action = onPage.action,
             p.approval = onPage.approval, quote' \in {quote, "none"}
      PROVE  SeenState'
  <2>1. onPage' = p /\ inRecord' = p /\ ~unseen /\ onPage # Away
    BY <1>f, PatchSeen
  <2>2. SeenState /\ onPage = inRecord
    BY <1>a, <2>1 DEF SeenState
  <2> QED BY <1>b, <1>c, <1>d, <1>f, <2>1, <2>2 DEF SeenState
<1>1. CASE Press
  <2> DEFINE pc == IF SettlementOnly(onPage) THEN "checking"
                   ELSE IF quote = "none" THEN "quoting" ELSE "preparing"
  <2>1. /\ UNCHANGED <<route, proposals, quote, tx, unseen>> /\ route = "robinhood"
        /\ bridging' = [NoBridging EXCEPT !.snap = onPage, !.use = quote, !.pc = pc]
        /\ onPage # Away
    BY <1>1 DEF Press, CardDisabled
  <2>2. bridging'.pc = pc /\ bridging'.snap = onPage /\ bridging'.use = quote
    BY <2>1 DEF NoBridging
  <2>3. CallState'
    BY <2>1, <2>2 DEF CallState, AtStep, SettlementOnly, proposals
  <2>4. PagesAgree'
    BY <1>0, <2>1, PagesStay DEF proposals
  <2>5. ~unseen' => SeenState'
    BY <1>a, <2>1, <2>2 DEF SeenState, proposals
  <2> QED BY <2>3, <2>4, <2>5
<1>2. CASE PressFromSolana
  <2> DEFINE p == WithStatus("signing")
  <2>1. /\ UNCHANGED <<route, quote, tx>> /\ route = "solana" /\ Patch(p) /\ onPage # Away
        /\ bridging' = [NoBridging EXCEPT !.snap = onPage, !.use = "deposit", !.pc = "signing"]
    BY <1>2 DEF PressFromSolana, CardDisabled
  <2>2. bridging'.pc = "signing" /\ bridging'.snap = onPage /\ bridging'.use = "deposit"
    BY <2>1 DEF NoBridging
  <2>3. /\ p.status = "signing" /\ p.action = onPage.action /\ p.approval = onPage.approval
    BY <1>0, WithStatusIs DEF Statuses
  <2> HIDE DEF p
  <2>4. CallState'
    BY <2>2 DEF CallState, AtStep
  <2>5. PagesAgree'
    BY <1>0, <2>1, <2>3, PatchAgrees, NothingClaimed DEF Claims
  <2>6. ASSUME ~unseen' PROVE SeenState'
    <3>1. onPage' = p /\ inRecord' = p /\ ~unseen
      BY <2>1, <2>6, PatchSeen
    <3>2. SeenState /\ onPage = inRecord
      BY <1>a, <2>1, <3>1 DEF SeenState
    <3> QED BY <2>1, <2>2, <2>3, <3>1, <3>2 DEF SeenState
  <2> QED BY <2>4, <2>5, <2>6
<1>3. ASSUME NEW action \in {"approval", "deposit"}, Quoted(action)
      PROVE  CallState' /\ PagesAgree' /\ (~unseen' => SeenState')
  <2> DEFINE p == [WithStatus("ready_for_user_signature") EXCEPT !.action = action]
  <2>1. p.status = "ready_for_user_signature" /\ p.action = action
    BY <1>0, WithStatusIs DEF Statuses, Proposals
  <2>2. Patch(p) /\ EndCall /\ quote' = action
    BY <1>3 DEF Quoted
  <2> HIDE DEF p
  <2>3. PagesAgree'
    BY <1>0, <2>1, <2>2, PatchAgrees, NothingClaimed DEF Claims
  <2>4. ASSUME ~unseen' PROVE SeenState'
    <3>1. onPage' = p /\ inRecord' = p
      BY <2>2, <2>4, PatchSeen
    <3> QED BY <1>d, <2>1, <2>2, <3>1 DEF SeenState
  <2> QED BY <1>d, <2>2, <2>3, <2>4
<1>4. CASE QuoteExpires
  <2>1. UNCHANGED <<route, proposals, tx, bridging, unseen>> /\ quote' = "none"
    BY <1>4 DEF QuoteExpires
  <2>2. PagesAgree'
    BY <1>0, <2>1, PagesStay DEF proposals
  <2> QED BY <1>0, <1>a, <2>1, <2>2 DEF CallState, AtStep, SeenState, proposals
<1>5. CASE Prepared
  <2> DEFINE p == WithStatus("signing")
  <2>1. /\ UNCHANGED <<route, quote, tx>> /\ AtStep("preparing") /\ Patch(p)
        /\ bridging' = [bridging EXCEPT !.pc = "signing"]
    BY <1>5 DEF Prepared, GoOn
  <2>2. /\ bridging'.pc = "signing" /\ bridging'.snap = bridging.snap
        /\ bridging'.use = bridging.use
    BY <1>0, <2>1 DEF Calls
  <2>3. /\ p.status = "signing" /\ p.action = onPage.action /\ p.approval = onPage.approval
    BY <1>0, WithStatusIs DEF Statuses
  <2> HIDE DEF p
  <2>4. CallState'
    BY <1>0, <2>1, <2>2 DEF CallState, AtStep
  <2>5. PagesAgree'
    BY <1>0, <2>1, <2>3, PatchAgrees, NothingClaimed DEF Claims
  <2>6. ASSUME ~unseen' PROVE SeenState'
    <3>1. onPage' = p /\ inRecord' = p /\ ~unseen /\ onPage # Away
      BY <2>1, <2>6, PatchSeen
    <3>2. SeenState /\ onPage = inRecord
      BY <1>a, <3>1 DEF SeenState
    <3> QED BY <2>1, <2>2, <2>3, <3>1, <3>2 DEF SeenState, AtStep
  <2> QED BY <2>4, <2>5, <2>6
<1>6. CASE Fails
  <2> DEFINE s == BeforeSending  p == WithStatus(s)
  <2>1. /\ Patch(p) /\ EndCall /\ UNCHANGED <<route, quote, tx>>
        /\ bridging.pc \in {"quoting", "preparing", "signing"}
    BY <1>6 DEF Fails
  <2>2. s \in Statuses /\ s \notin {"confirmed", "reverted", "source_confirmed"}
    BY DEF BeforeSending, Statuses
  <2>3. p.status = s /\ p.action = onPage.action /\ p.approval = onPage.approval
    BY <1>0, <2>2, WithStatusIs
  <2>4. s = "approval_confirmed" =>
          bridging.snap.action = "none" /\ bridging.snap.approval # NoTx
    BY DEF BeforeSending
  <2> HIDE DEF s, p
  <2>5. ~unseen' => SeenState'
    BY <1>f, <2>1, <2>3
  <2>6. ASSUME s = "approval_confirmed", ~unseen'
        PROVE  p.approval # NoTx /\ Arrived(p.approval, tx')
    <3>1. ~unseen /\ onPage # Away
      BY <2>1, <2>6, PatchSeen
    <3>2. SeenState /\ onPage = inRecord
      BY <1>a, <3>1 DEF SeenState
    <3> QED BY <1>b, <1>c, <2>1, <2>3, <2>4, <2>6, <3>2 DEF SeenState
  <2>7. Agrees(p, tx', route', unseen')
    BY <2>2, <2>3, <2>6 DEF Agrees
  <2> QED BY <1>0, <1>d, <2>1, <2>5, <2>7, PatchAgrees
<1>7. ASSUME NEW t \in Txs, WalletSends(t)
      PROVE  CallState' /\ PagesAgree' /\ (~unseen' => SeenState')
  <2>1. /\ UNCHANGED <<route, quote>> /\ AtStep("signing")
        /\ bridging' = [bridging EXCEPT !.pc = "waiting", !.tx = t]
        /\ tx' = [tx EXCEPT ![t] = [use |-> bridging.use, fate |-> "pending"]]
    BY <1>7 DEF WalletSends, Sends
  <2>2. /\ bridging'.pc = "waiting" /\ bridging'.tx = t /\ bridging'.use = bridging.use
        /\ bridging'.snap = bridging.snap /\ tx'[t].use = bridging.use
    BY <1>0, <2>1 DEF Calls, TxTyped
  <2>3. CallState'
    BY <1>0, <2>1, <2>2 DEF CallState, AtStep
  <2>4. CASE UNCHANGED <<proposals, unseen>>
    <3>1. PagesAgree'
      BY <1>0, <2>4, PagesStay DEF proposals
    <3> QED BY <1>a, <1>b, <1>c, <2>1, <2>2, <2>3, <2>4, <3>1 DEF SeenState, AtStep, proposals
  <2> DEFINE p == [WithStatus("submitted") EXCEPT !.source = t]
  <2>5. CASE Patch(p)
    <3>1. p.status = "submitted" /\ p.action = onPage.action /\ p.approval = onPage.approval
      BY <1>0, WithStatusIs DEF Statuses, Proposals
    <3>2. Patch(p)
      BY <2>5
    <3> HIDE DEF p
    <3>3. PagesAgree'
      BY <1>0, <3>1, <3>2, PatchAgrees, NothingClaimed DEF Claims
    <3>4. ASSUME ~unseen' PROVE SeenState'
      <4>1. onPage' = p /\ inRecord' = p /\ ~unseen /\ onPage # Away
        BY <3>2, <3>4, PatchSeen
      <4>2. SeenState /\ onPage = inRecord
        BY <1>a, <4>1 DEF SeenState
      <4> QED BY <1>b, <1>c, <2>1, <2>2, <3>1, <4>1, <4>2 DEF SeenState, AtStep
    <3> QED BY <2>3, <3>3, <3>4
  <2> QED BY <1>7, <2>4, <2>5 DEF WalletSends
<1>8. ASSUME NEW t \in Txs, WalletThrows(t)
      PROVE  CallState' /\ PagesAgree' /\ (~unseen' => SeenState')
  <2> DEFINE s == BeforeSending  p == WithStatus(s)
  <2>1. EndCall /\ unseen' = TRUE
        /\ onPage' \in {onPage, p} /\ inRecord' \in {onPage', inRecord}
    BY <1>8 DEF WalletThrows, proposals
  <2>2. s \in Statuses /\ s \notin {"confirmed", "reverted", "source_confirmed"}
    BY DEF BeforeSending, Statuses
  <2>3. p.status = s
    BY <1>0, <2>2, WithStatusIs
  <2> HIDE DEF s, p
  <2>4. Agrees(p, tx', route', TRUE)
    BY <2>2, <2>3 DEF Agrees
  <2>5. Agrees(onPage, tx', route', TRUE) /\ Agrees(inRecord, tx', route', TRUE)
    BY <1>0, AgreesStays DEF PagesAgree, PagesTyped
  <2> QED BY <1>d, <2>1, <2>4, <2>5 DEF PagesAgree
<1>9. ASSUME NEW t \in Txs, NEW fate \in Fates, Decides(t, fate)
      PROVE  CallState' /\ PagesAgree' /\ (~unseen' => SeenState')
  <2>1. /\ UNCHANGED <<route, proposals, quote, bridging, unseen>>
        /\ tx' = [tx EXCEPT ![t].fate = fate]
    BY <1>9 DEF Decides
  <2>2. \A u \in Txs : tx'[u].use = tx[u].use
    BY <1>0, <2>1 DEF TxTyped
  <2>3. CallState'
    BY <1>0, <1>e, <2>1, <2>2 DEF CallState, AtStep
  <2>4. PagesAgree'
    BY <1>0, <2>1, PagesStay DEF proposals
  <2> QED BY <1>a, <1>b, <1>c, <2>1, <2>3, <2>4 DEF SeenState, proposals
<1>10. CASE ApprovalConfirmed
  <2> DEFINE p == [WithStatus("approval_confirmed") EXCEPT !.action = "none",
                                                          !.approval = bridging.tx]
  <2>1. /\ Patch(p) /\ EndCall /\ quote' = "none" /\ UNCHANGED tx
        /\ bridging.tx \in Txs /\ Arrived(bridging.tx, tx)
    BY <1>10, <1>e DEF ApprovalConfirmed, HasLanded, Arrived
  <2>2. /\ p.status = "approval_confirmed" /\ p.action = "none" /\ p.approval = bridging.tx
    BY <1>0, WithStatusIs DEF Statuses, Proposals
  <2> HIDE DEF p
  <2>3. Agrees(p, tx', route', unseen')
    BY <2>1, <2>2, BridgeAssumption DEF Agrees
  <2>4. ASSUME ~unseen' PROVE SeenState'
    <3>1. onPage' = p /\ inRecord' = p
      BY <2>1, <2>4, PatchSeen
    <3> QED BY <1>d, <2>1, <2>2, <3>1 DEF SeenState
  <2> QED BY <1>0, <1>d, <2>1, <2>3, <2>4, PatchAgrees
<1>11. CASE SourceConfirmed
  <2> DEFINE p == [WithStatus("source_confirmed") EXCEPT !.source = bridging.tx]
  <2>1. /\ Patch(p) /\ AtStep("waiting") /\ quote' = "none" /\ UNCHANGED tx
        /\ bridging.use = "deposit" /\ bridging.tx \in Txs /\ Arrived(bridging.tx, tx)
    BY <1>11, <1>e DEF SourceConfirmed, HasLanded, Arrived
  <2>2. /\ p.status = "source_confirmed" /\ p.action = onPage.action
        /\ p.approval = onPage.approval
    BY <1>0, WithStatusIs DEF Statuses, Proposals
  <2>3. CallState' /\ bridging'.pc \in {"idle", "settling"}
    <3>1. CASE EndCall
      BY <1>d, <3>1
    <3>2. CASE route # "solana" /\ bridging' = [bridging EXCEPT !.pc = "settling"]
      <4>1. bridging'.pc = "settling" /\ bridging'.tx = bridging.tx /\ route' = "robinhood"
        BY <1>0, <3>2 DEF Calls
      <4> QED BY <2>1, <4>1, BridgeAssumption DEF CallState, AtStep
    <3> QED BY <1>11, <3>1, <3>2 DEF SourceConfirmed, GoOn
  <2> HIDE DEF p
  <2>4. Agrees(p, tx', route', unseen')
    BY <1>0, <2>1, <2>2 DEF Agrees, CallState
  <2>5. ASSUME ~unseen' PROVE SeenState'
    <3>1. onPage' = p /\ inRecord' = p /\ ~unseen /\ onPage # Away
      BY <2>1, <2>5, PatchSeen
    <3>2. SeenState /\ onPage = inRecord
      BY <1>a, <3>1 DEF SeenState
    <3> QED BY <1>b, <1>c, <2>1, <2>2, <2>3, <3>1, <3>2 DEF SeenState
  <2> QED BY <1>0, <2>1, <2>3, <2>4, <2>5, PatchAgrees
\* A receipt that is not a confirmation.
<1>g. ASSUME NEW s \in {"reverted", "unknown"}, AtStep("waiting"), EndCall,
             Patch(WithTx(s)), UNCHANGED <<quote, tx>>,
             s = "reverted" => tx[bridging.tx].fate = "reverted"
      PROVE  CallState' /\ PagesAgree' /\ (~unseen' => SeenState')
  <2> DEFINE p == WithTx(s)
  <2>0. bridging.use \in {"approval", "deposit"} /\ bridging.tx \in Txs /\ s \in Statuses
    BY <1>0, <1>e, <1>g DEF CallState, AtStep, Calls, Actions, Statuses
  <2>1. /\ p.status = s /\ p.action = onPage.action
        /\ bridging.use = "deposit" =>
             p.source = bridging.tx /\ p.approval = bridging.snap.approval
        /\ bridging.use = "approval" => p.approval = bridging.tx
    BY <1>0, <2>0, WithTxIs
  <2>2. Patch(p)
    BY <1>g
  <2> HIDE DEF p
  <2>3. Agrees(p, tx', route', unseen')
    BY <1>g, <2>0, <2>1, BridgeAssumption DEF Agrees
  <2>4. ASSUME ~unseen' PROVE SeenState'
    <3>1. onPage' = p /\ inRecord' = p /\ ~unseen /\ onPage # Away
      BY <2>2, <2>4, PatchSeen
    <3>2. SeenState /\ onPage = inRecord
      BY <1>a, <3>1 DEF SeenState
    <3>3. /\ inRecord.action = bridging.snap.action
          /\ inRecord.approval = bridging.snap.approval
          /\ bridging.use = "approval" => bridging.snap.action # "none"
      BY <1>g, <3>2 DEF SeenState, AtStep
    <3> QED BY <1>b, <1>c, <1>d, <1>g, <2>0, <2>1, <3>1, <3>2, <3>3 DEF SeenState
  <2> QED BY <1>0, <1>d, <1>g, <2>2, <2>3, <2>4, PatchAgrees
<1>12. CASE SourceReverted \/ NoReceipt
  BY <1>12, <1>g DEF SourceReverted, NoReceipt, RevertedStatus
<1>13. ASSUME NEW s \in Statuses, SettlementChecked(s)
       PROVE  CallState' /\ PagesAgree' /\ (~unseen' => SeenState')
  <2> DEFINE t == IF AtStep("checking") THEN bridging.snap.source ELSE bridging.tx
  <2>0. PICK p \in Concluded(s) : Patch(p)
    BY <1>13 DEF SettlementChecked
  <2>1. /\ Patch(p) /\ EndCall /\ UNCHANGED <<quote, tx>>
        /\ bridging.pc \in {"checking", "settling"} /\ s \in Evidence(t) \cup {KeptStatus}
    BY <1>13, <2>0 DEF SettlementChecked
  <2>2. p.status = s /\ p.action = onPage.action /\ p.approval = onPage.approval
    BY <1>0, ConcludedIs
  <2>3. t \in Txs /\ route = "robinhood"
    BY <1>0, <2>1 DEF CallState, AtStep, Calls, Proposals, MaybeTx
  <2>4. s \notin {"reverted", "approval_confirmed"}
    BY <1>0, <2>1 DEF Evidence, KeptStatus, CallState, AtStep
  <2>5. s = "confirmed" => tx[t].fate = "settled"
    BY <1>0, <2>1 DEF Evidence, KeptStatus, CallState, AtStep
  <2> HIDE DEF t
  <2>6. Agrees(p, tx', route', unseen')
    BY <1>0, <2>1, <2>2, <2>3, <2>4, <2>5 DEF Agrees, OnlyDepositsSettle
  <2>7. ~unseen' => SeenState'
    BY <1>f, <2>1, <2>2
  <2> QED BY <1>0, <1>d, <2>1, <2>6, <2>7, PatchAgrees
<1>14. CASE OpenOtherSession \/ OpenThisSession
  <2>1. /\ UNCHANGED <<route, inRecord, quote, tx, bridging, unseen>>
        /\ onPage' \in {Away, inRecord}
    BY <1>14 DEF OpenOtherSession, OpenThisSession
  <2>2. PagesAgree'
    BY <1>0, <2>1, PagesStay
  <2> QED BY <1>0, <1>a, <2>1, <2>2 DEF CallState, AtStep, SeenState
<1>15. CASE ReloadPage
  <2>1. /\ UNCHANGED <<route, inRecord, tx, unseen>> /\ onPage' = inRecord
        /\ quote' = "none" /\ EndCall
    BY <1>15 DEF ReloadPage, EndCall
  <2>2. PagesAgree'
    BY <1>0, <2>1, PagesStay
  <2> QED BY <1>0, <1>a, <1>d, <2>1, <2>2 DEF SeenState
<1>16. CASE UNCHANGED bridgeVars
  <2>1. PagesAgree'
    BY <1>0, <1>16, PagesStay DEF bridgeVars, proposals
  <2> QED BY <1>0, <1>16, <1>a, <2>1 DEF bridgeVars, proposals, CallState, AtStep, SeenState
<1> QED BY <1>1, <1>2, <1>3, <1>4, <1>5, <1>6, <1>7, <1>8, <1>9, <1>10, <1>11, <1>12, <1>13,
           <1>14, <1>15, <1>16 DEF BridgeNext

LEMMA StatusInit == BridgeInit => StatusInv
<1> SUFFICES ASSUME BridgeInit PROVE StatusInv
  OBVIOUS
<1>1. BridgeTyped
  BY BridgeInitType
<1>2. onPage.status \in {"preview_only", "ready_for_user_signature"} /\ onPage.approval = NoTx
  BY DEF BridgeInit, Stored, Preview
<1>3. PagesAgree
  BY <1>2, NothingClaimed DEF BridgeInit, PagesAgree, Claims
<1>4. OnlyDepositsSettle /\ CallState
  BY DEF BridgeInit, OnlyDepositsSettle, Unsent, CallState, AtStep, NoBridging
<1>5. SeenState
  BY <1>2 DEF BridgeInit, SeenState, NoBridging
<1> QED BY <1>1, <1>3, <1>4, <1>5 DEF StatusInv

\* A status that tells what became of a bridge tells the truth: confirmed,
\* reverted, an approval that landed, a source transaction from Solana.
THEOREM BridgeStatusCorrect == BridgeSpec => []BridgeStatusTrue
<1>1. StatusInv => BridgeStatusTrue
  BY DEF StatusInv, PagesAgree, Agrees, Arrived, BridgeStatusTrue, SentFor, HasLanded
<1> QED BY <1>1, StatusInit, StatusStep, PTL DEF BridgeSpec

-----------------------------------------------------------------------------
(* The three of them as they are explored together *)

LEMMA WebHasParts == WebSpec => WebAuthSpec /\ IdentitySpec /\ BridgeSpec
<1>1. WebInit => WebAuthInit /\ IdentityInit /\ BridgeInit
  BY DEF WebInit
<1>2. [WebNext]_<<webAuthVars, identityVars, bridgeVars>> =>
        [WebAuthNext]_webAuthVars /\ [IdentityNext]_identityVars /\ [BridgeNext]_bridgeVars
  BY DEF WebNext
<1> QED BY <1>1, <1>2, PTL DEF WebSpec, WebAuthSpec, IdentitySpec, BridgeSpec

(* The state of the web application stays in its types.                     *)
THEOREM WebTypeCorrect == WebSpec => []WebTypeOK
<1>1. WebAuthTypeOK /\ IdentityTypeOK /\ BridgeTypeOK => WebTypeOK
  BY DEF WebTypeOK
<1> QED BY <1>1, WebHasParts, WebAuthTypeCorrect, IdentityTypeCorrect, BridgeTypeCorrect, PTL
=============================================================================
