--------------------------- MODULE Payments_proofs ---------------------------
(* Theorems about x402 purchases, for every set of cards, resources and     *)
(* payments, whatever the cards offer, and for every budget.                *)
EXTENDS MCPurchases, Pump_proofs, FiniteSetTheorems

-----------------------------------------------------------------------------
(* The inductive invariant: what a payment has been through, by where its   *)
(* request stands, and whose it is                                          *)

Unrecorded == {"asked", "taken"}

PaymentOK(p) ==
  /\ plan[p].for = Nothing => request[p] = "none"
  /\ request[p] \in {"none"} \cup Unrecorded => receipt[p] = "none" /\ proof[p] = "unsent"
  /\ request[p] = "paying" => receipt[p] = "SUBMITTED"
  /\ receipt[p] = "RESOURCE_RECEIVED" => proof[p] = "settled" /\ request[p] = "ended"
  /\ receipt[p] = "none" => proof[p] = "unsent"
  /\ p \in left => request[p] # "none"

CardOK(k) ==
  /\ ~Purchasing(k, "idle") => card[k].resource \in Resources
  /\ card[k].pc \in {"approving", "waiting"} =>
       /\ card[k].plan \in Plans
       /\ plan[card[k].plan].for = k
       /\ plan[card[k].plan].resource = card[k].resource
  /\ Purchasing(k, "approving") => request[card[k].plan] = "none"
  /\ Purchasing(k, "waiting") => request[card[k].plan] # "none"

\* A request that is not recorded yet is awaited by its card, or left behind.
Awaited(p) == \E k \in Cards : Purchasing(k, "waiting") /\ card[k].plan = p
Owned(p) == request[p] \in Unrecorded => p \in left \/ Awaited(p)

PurchaseInv ==
  /\ PaymentsTypeOK
  /\ \A p \in Plans : PaymentOK(p) /\ Owned(p)
  /\ \A k \in Cards : CardOK(k)

\* What was spent, and what may still be: by a card, or by a request left.
SpentPlans == {p \in Plans : IsSpent(receipt[p])}
MaySpend(k) ==
  \/ card[k].pc \in {"planning", "approving"}
  \/ Purchasing(k, "waiting") /\ request[card[k].plan] \in Unrecorded
Spenders == {k \in Cards : MaySpend(k)}
LeftToSpend == {p \in left : request[p] \in Unrecorded}

CountInv ==
  Cardinality(SpentPlans) + Cardinality(Spenders) + Cardinality(LeftToSpend)
    < Budget + Cardinality(Cards) + Cardinality(left)

-----------------------------------------------------------------------------
(* The steps of the card *)

LEMMA FreshType == PaymentsTypeOK => Fresh \in Batches /\ Fresh.pc = "idle"
BY DEF Fresh, NoBatch, Batches

\* What a batch goes on with: the next resource, or nothing.
LEMMA NextBatch ==
    ASSUME PaymentsTypeOK, NEW k \in Cards, NEW todo \in SUBSET Resources,
           NextPurchase(k, todo)
    PROVE  \E b \in Batches :
             /\ card' = [card EXCEPT ![k] = b]
             /\ b.pc \in {"idle", "pricing"}
             /\ b.pc = "pricing" => b.resource \in Resources
<1>1. CASE todo = {}
  <2>1. card' = [card EXCEPT ![k] = Fresh]
    BY <1>1 DEF NextPurchase, EndBatch
  <2> QED BY <2>1, FreshType
<1>2. CASE todo # {}
  <2>1. PICK r \in todo : card' = [card EXCEPT ![k] =
          [Fresh EXCEPT !.pc = "pricing", !.todo = todo \ {r}, !.resource = r]]
    BY <1>2 DEF NextPurchase
  <2>2. [Fresh EXCEPT !.pc = "pricing", !.todo = todo \ {r}, !.resource = r] \in Batches
    BY FreshType DEF Batches
  <2>3. /\ [Fresh EXCEPT !.pc = "pricing", !.todo = todo \ {r}, !.resource = r].pc = "pricing"
        /\ [Fresh EXCEPT !.pc = "pricing", !.todo = todo \ {r}, !.resource = r].resource = r
    BY FreshType DEF Batches
  <2> QED BY <2>1, <2>2, <2>3
<1> QED BY <1>1, <1>2

LEMMA InitInv == PaymentsInit => PurchaseInv
<1> SUFFICES ASSUME PaymentsInit PROVE PurchaseInv
  OBVIOUS
<1>1. PaymentsTypeOK
  BY PaymentsAssumption DEF PaymentsInit, PaymentsTypeOK, NoPlan, Planned, NoBatch, Batches
<1>2. \A p \in Plans : PaymentOK(p) /\ Owned(p)
  BY DEF PaymentsInit, PaymentOK, Owned, Unrecorded
<1>3. \A k \in Cards : CardOK(k)
  BY DEF PaymentsInit, CardOK, Purchasing, NoBatch
<1> QED BY <1>1, <1>2, <1>3 DEF PurchaseInv

\* A card that goes back to idle, or on to the next resource, whose request
\* is over, disturbs no payment.
LEMMA CardMovesOn ==
    ASSUME PurchaseInv, NEW k \in Cards, NEW b \in Batches,
           card' = [card EXCEPT ![k] = b],
           b.pc \in {"idle", "pricing"}, b.pc = "pricing" => b.resource \in Resources,
           ~Purchasing(k, "waiting") \/ request[card[k].plan] \notin Unrecorded \/ card[k].plan \in left',
           left \subseteq left', left' \subseteq Plans,
           \A p \in left' \ left : request[p] # "none",
           UNCHANGED <<session, emergency, payments>>, held' \in [Cards -> SUBSET Resources]
    PROVE  PurchaseInv'
<1>1. PaymentsTypeOK'
  BY DEF PurchaseInv, PaymentsTypeOK, session, payments
<1>2. ASSUME NEW p \in Plans PROVE PaymentOK(p)' /\ Owned(p)'
  <2>1. PaymentOK(p)'
    BY DEF PurchaseInv, PaymentOK, payments, Unrecorded
  <2>2. Owned(p)'
    BY DEF PurchaseInv, PaymentsTypeOK, Owned, Awaited, Purchasing, payments, Batches
  <2> QED BY <2>1, <2>2
<1>3. ASSUME NEW j \in Cards PROVE CardOK(j)'
  BY DEF PurchaseInv, PaymentsTypeOK, CardOK, Purchasing, payments, Batches
<1> QED BY <1>1, <1>2, <1>3 DEF PurchaseInv

LEMMA PurchaseKeeps ==
    ASSUME PurchaseInv, NEW k \in Cards, NEW chosen \in SUBSET Resources, Purchase(k, chosen)
    PROVE  PurchaseInv'
<1>1. PICK b \in Batches :
        /\ card' = [card EXCEPT ![k] = b]
        /\ b.pc \in {"idle", "pricing"}
        /\ b.pc = "pricing" => b.resource \in Resources
  BY NextBatch DEF Purchase, PurchaseInv
<1> QED BY <1>1, CardMovesOn DEF Purchase, Purchasing, PurchaseInv, PaymentsTypeOK

LEMMA StopsKeeps ==
    ASSUME PurchaseInv, NEW k \in Cards, StopsBatch(k)
    PROVE  PurchaseInv'
<1>1. card' = [card EXCEPT ![k] = Fresh]
  BY DEF StopsBatch, EndBatch
<1>2. Fresh \in Batches /\ Fresh.pc = "idle"
  BY FreshType DEF PurchaseInv
<1>3. Purchasing(k, "waiting") => card[k].plan \in Plans
  BY DEF PurchaseInv, CardOK, Purchasing
<1>4. left \subseteq left' /\ left' \subseteq Plans /\ \A p \in left' \ left : request[p] # "none"
  BY <1>3 DEF StopsBatch, PurchaseInv, PaymentsTypeOK
<1>5. ~Purchasing(k, "waiting") \/ request[card[k].plan] \notin Unrecorded \/ card[k].plan \in left'
  BY DEF StopsBatch, Unrecorded
<1>6. UNCHANGED <<session, emergency, payments>> /\ held' \in [Cards -> SUBSET Resources]
  BY DEF StopsBatch, PurchaseInv, PaymentsTypeOK
<1> QED BY <1>1, <1>2, <1>4, <1>5, <1>6, CardMovesOn

LEMMA ShowKeeps ==
    ASSUME PurchaseInv, NEW k \in Cards, ShowReceipt(k)
    PROVE  PurchaseInv'
<1>1. card[k].todo \in SUBSET Resources
  BY DEF PurchaseInv, PaymentsTypeOK, Batches
<1>2. PICK b \in Batches :
        /\ card' = [card EXCEPT ![k] = b]
        /\ b.pc \in {"idle", "pricing"}
        /\ b.pc = "pricing" => b.resource \in Resources
  BY <1>1, NextBatch DEF ShowReceipt, PurchaseInv
<1>3. card[k].resource \in Resources
  BY DEF ShowReceipt, PurchaseInv, CardOK, Purchasing
<1>4. held' \in [Cards -> SUBSET Resources]
  BY <1>3 DEF ShowReceipt, PurchaseInv, PaymentsTypeOK
<1>5. request[card[k].plan] \notin Unrecorded /\ left' = left /\ left \subseteq Plans
  BY DEF ShowReceipt, Unrecorded, PurchaseInv, PaymentsTypeOK
<1>6. UNCHANGED <<session, emergency, payments>>
  BY DEF ShowReceipt
<1> QED BY <1>2, <1>4, <1>5, <1>6, CardMovesOn

LEMMA CheckKeeps ==
    ASSUME PurchaseInv, NEW k \in Cards, CheckBudget(k)
    PROVE  PurchaseInv'
<1>1. PaymentsTypeOK'
  BY SMTT(60) DEF PurchaseInv, PaymentsTypeOK, CheckBudget, Proceed, Batches, session, payments
<1>2. ASSUME NEW p \in Plans PROVE PaymentOK(p)' /\ Owned(p)'
  BY DEF PurchaseInv, PaymentsTypeOK, CheckBudget, Proceed, Batches, payments,
         PaymentOK, Owned, Awaited, Purchasing, Unrecorded
<1>3. ASSUME NEW j \in Cards PROVE CardOK(j)'
  BY DEF PurchaseInv, PaymentsTypeOK, CheckBudget, Proceed, Batches, payments, CardOK, Purchasing
<1> QED BY <1>1, <1>2, <1>3 DEF PurchaseInv

LEMMA MakeKeeps ==
    ASSUME PurchaseInv, NEW k \in Cards, NEW p \in Plans, MakePlan(k, p)
    PROVE  PurchaseInv'
<1>0. plan[p].for = Nothing /\ request[p] = "none"
  BY DEF MakePlan, NoPlan, PurchaseInv, PaymentOK
<1>1. PaymentsTypeOK'
  <2>1. card[k].resource \in Resources \cup {Nothing}
    BY DEF PurchaseInv, PaymentsTypeOK, Batches
  <2>2. plan' \in [Plans -> Planned]
    BY <2>1 DEF PurchaseInv, PaymentsTypeOK, MakePlan, Planned
  <2>3. card' \in [Cards -> Batches]
    <3> DEFINE b == [card[k] EXCEPT !.pc = "approving", !.plan = p]
    <3>1. card \in [Cards -> Batches] /\ card[k] \in Batches
      BY DEF PurchaseInv, PaymentsTypeOK
    <3>2. b \in Batches
      BY <3>1 DEF Batches
    <3>3. card' = [card EXCEPT ![k] = b]
      BY <3>1 DEF MakePlan
    <3> HIDE DEF b
    <3> QED BY <3>1, <3>2, <3>3
  <2> QED BY <2>2, <2>3 DEF PurchaseInv, PaymentsTypeOK, MakePlan, session
<1>2. ASSUME NEW q \in Plans PROVE PaymentOK(q)' /\ Owned(q)'
  <2>1. PaymentOK(q)'
    BY <1>0 DEF PurchaseInv, PaymentsTypeOK, MakePlan, Planned, PaymentOK, Unrecorded
  <2>2. Owned(q)'
    BY DEF PurchaseInv, PaymentsTypeOK, MakePlan, Batches, Owned, Awaited, Purchasing, Unrecorded
  <2> QED BY <2>1, <2>2
<1>3. ASSUME NEW j \in Cards PROVE CardOK(j)'
  BY <1>0, PaymentsAssumption DEF PurchaseInv, PaymentsTypeOK, MakePlan, Batches, Planned, CardOK, Purchasing
<1> QED BY <1>1, <1>2, <1>3 DEF PurchaseInv

LEMMA ApproveKeeps ==
    ASSUME PurchaseInv, NEW k \in Cards, Approve(k)
    PROVE  PurchaseInv'
<1> DEFINE p == card[k].plan
<1>0. p \in Plans /\ plan[p].for = k /\ request[p] = "none"
  BY DEF Approve, PurchaseInv, CardOK, Purchasing
<1>1. PaymentsTypeOK'
  <2>1. request' \in [Plans -> {"none", "asked", "taken", "paying", "ended"}]
    BY <1>0 DEF PurchaseInv, PaymentsTypeOK, Approve
  <2>2. card' \in [Cards -> Batches]
    BY SMTT(60) DEF PurchaseInv, PaymentsTypeOK, Approve, Proceed, Batches
  <2> QED BY <2>1, <2>2 DEF PurchaseInv, PaymentsTypeOK, Approve, session
<1>2. ASSUME NEW q \in Plans PROVE PaymentOK(q)' /\ Owned(q)'
  <2>1. PaymentOK(q)'
    BY <1>0, PaymentsAssumption DEF PurchaseInv, PaymentsTypeOK, Approve, PaymentOK, Unrecorded
  <2>2. Owned(q)'
    BY <1>0 DEF PurchaseInv, PaymentsTypeOK, Approve, Proceed, Batches, Owned, Awaited, Purchasing, Unrecorded
  <2> QED BY <2>1, <2>2
<1>3. ASSUME NEW j \in Cards PROVE CardOK(j)'
  BY <1>0 DEF PurchaseInv, PaymentsTypeOK, Approve, Proceed, Batches, CardOK, Purchasing
<1> QED BY <1>1, <1>2, <1>3 DEF PurchaseInv

-----------------------------------------------------------------------------
(* The steps of a payment *)

\* A request that moves on, or ends, with its record and its proof.
MovesTo(p, q, r, s, b) ==
  /\ q \in {"none", "asked", "taken", "paying", "ended"}
  /\ r \in {"none", "SUBMITTED", "RESOURCE_RECEIVED", "UNKNOWN"}
  /\ s \in {"unsent", "sent", "settled"}
  /\ b \in BOOLEAN
  /\ request[p] = "none" <=> q = "none"
  /\ q \in Unrecorded => request[p] \in Unrecorded
  /\ q \in {"none"} \cup Unrecorded => r = "none" /\ s = "unsent"
  /\ q = "paying" => r = "SUBMITTED"
  /\ r = "RESOURCE_RECEIVED" => s = "settled" /\ q = "ended"
  /\ r = "none" => s = "unsent"
  /\ request' = [request EXCEPT ![p] = q]
  /\ receipt' = [receipt EXCEPT ![p] = r]
  /\ proof' = [proof EXCEPT ![p] = s]
  /\ plan' = [plan EXCEPT ![p].ready = b]
  /\ UNCHANGED <<session, emergency, card, held, left>>

LEMMA PaymentMovesOn ==
    ASSUME PurchaseInv, NEW p \in Plans, NEW q, NEW r, NEW s, NEW b, MovesTo(p, q, r, s, b)
    PROVE  PurchaseInv'
<1>1. PaymentsTypeOK'
  <2>1. plan' \in [Plans -> Planned]
    BY SMTT(60) DEF MovesTo, PurchaseInv, PaymentsTypeOK, Planned
  <2>2. /\ request' \in [Plans -> {"none", "asked", "taken", "paying", "ended"}]
        /\ receipt' \in [Plans -> {"none", "SUBMITTED", "RESOURCE_RECEIVED", "UNKNOWN"}]
        /\ proof' \in [Plans -> {"unsent", "sent", "settled"}]
    BY DEF MovesTo, PurchaseInv, PaymentsTypeOK
  <2> QED BY <2>1, <2>2 DEF MovesTo, PurchaseInv, PaymentsTypeOK, session
<1>2. \A n \in Plans : plan'[n].for = plan[n].for /\ plan'[n].resource = plan[n].resource
  BY DEF MovesTo, PurchaseInv, PaymentsTypeOK, Planned
<1>3. ASSUME NEW n \in Plans PROVE PaymentOK(n)' /\ Owned(n)'
  <2>1. PaymentOK(n)'
    <3>1. PaymentOK(n) /\ PaymentOK(p)
      BY DEF PurchaseInv
    <3> QED BY <1>2, <3>1 DEF MovesTo, PurchaseInv, PaymentsTypeOK, PaymentOK
  <2>2. Owned(n)'
    BY DEF MovesTo, PurchaseInv, PaymentsTypeOK, Owned, Awaited, Purchasing
  <2> QED BY <2>1, <2>2
<1>4. ASSUME NEW j \in Cards PROVE CardOK(j)'
  <2>1. CardOK(j)
    BY DEF PurchaseInv
  <2> QED BY <1>2, <2>1 DEF MovesTo, PurchaseInv, PaymentsTypeOK, CardOK, Purchasing
<1> QED BY <1>1, <1>3, <1>4 DEF PurchaseInv

\* What a payment has been through, spelt out for one step of it.
LEMMA PaymentKeeps ==
    ASSUME PurchaseInv, NEW p \in Plans,
           \/ TakePlan(p) \/ RefusePlan(p) \/ Submit(p)
           \/ Receive(p) \/ LoseAnswer(p) \/ RequestFails(p) \/ SettlePayment(p)
    PROVE  PurchaseInv'
<1>1. /\ PaymentOK(p)
      /\ plan[p].ready \in BOOLEAN
      /\ request[p] \in {"none", "asked", "taken", "paying", "ended"}
      /\ receipt[p] \in {"none", "SUBMITTED", "RESOURCE_RECEIVED", "UNKNOWN"}
      /\ proof[p] \in {"unsent", "sent", "settled"}
  BY DEF PurchaseInv, PaymentsTypeOK, Planned
<1>2. /\ plan = [plan EXCEPT ![p].ready = plan[p].ready]
      /\ request = [request EXCEPT ![p] = request[p]]
      /\ receipt = [receipt EXCEPT ![p] = receipt[p]]
      /\ proof = [proof EXCEPT ![p] = proof[p]]
  BY DEF PurchaseInv, PaymentsTypeOK, Planned
<1>3. CASE TakePlan(p)
  <2>1. MovesTo(p, "taken", receipt[p], proof[p], FALSE)
    BY <1>1, <1>2, <1>3 DEF TakePlan, Unready, MovesTo, PaymentOK, Unrecorded
  <2> QED BY <2>1, PaymentMovesOn
<1>4. CASE RefusePlan(p)
  <2>1. MovesTo(p, "ended", receipt[p], proof[p], FALSE)
    BY <1>1, <1>2, <1>4 DEF RefusePlan, Unready, MovesTo, PaymentOK, Unrecorded
  <2> QED BY <2>1, PaymentMovesOn
<1>5. CASE Submit(p)
  <2>1. MovesTo(p, "paying", "SUBMITTED", "sent", plan[p].ready)
    BY <1>1, <1>2, <1>5 DEF Submit, MovesTo, PaymentOK, Unrecorded
  <2> QED BY <2>1, PaymentMovesOn
<1>6. CASE Receive(p)
  <2>1. MovesTo(p, "ended", "RESOURCE_RECEIVED", "settled", plan[p].ready)
    BY <1>1, <1>2, <1>6 DEF Receive, MovesTo, PaymentOK, Unrecorded
  <2> QED BY <2>1, PaymentMovesOn
<1>7. CASE LoseAnswer(p)
  <2>1. MovesTo(p, "ended", "UNKNOWN", proof[p], plan[p].ready)
    BY <1>1, <1>2, <1>7 DEF LoseAnswer, MovesTo, PaymentOK, Unrecorded
  <2> QED BY <2>1, PaymentMovesOn
<1>8. CASE RequestFails(p)
  <2>1. MovesTo(p, "ended", receipt[p], proof[p], FALSE)
    BY <1>1, <1>2, <1>8 DEF RequestFails, Unready, MovesTo, PaymentOK, Unrecorded
  <2> QED BY <2>1, PaymentMovesOn
<1>9. CASE SettlePayment(p)
  <2>1. MovesTo(p, request[p], receipt[p], "settled", plan[p].ready)
    BY <1>1, <1>2, <1>9 DEF SettlePayment, MovesTo, PaymentOK, Unrecorded
  <2> QED BY <2>1, PaymentMovesOn
<1> QED BY <1>3, <1>4, <1>5, <1>6, <1>7, <1>8, <1>9

-----------------------------------------------------------------------------
(* The stop, the restart, and every step *)

LEMMA StopKeeps ==
    ASSUME PurchaseInv, EngageStop \/ StopClearsPlans \/ ReleaseStop
    PROVE  PurchaseInv'
<1>1. plan' \in [Plans -> Planned] /\ emergency' \in {"off", "engaging", "on"}
  <2>1. plan' = plan \/ ClearPrepared
    BY DEF EngageStop, StopClearsPlans, ReleaseStop, payments
  <2>2. plan \in [Plans -> Planned]
    BY DEF PurchaseInv, PaymentsTypeOK
  <2>3. ASSUME ClearPrepared PROVE plan' \in [Plans -> Planned]
    <3>1. \A n \in Plans : [plan[n] EXCEPT !.ready = FALSE] \in Planned
      BY <2>2 DEF Planned
    <3> QED BY <2>3, <3>1 DEF ClearPrepared
  <2>4. emergency' \in {"off", "engaging", "on"}
    BY DEF EngageStop, StopClearsPlans, ReleaseStop
  <2> QED BY <2>1, <2>2, <2>3, <2>4
<1>2. \A n \in Plans : plan'[n].for = plan[n].for /\ plan'[n].resource = plan[n].resource
  <2>1. plan' = plan \/ ClearPrepared
    BY DEF EngageStop, StopClearsPlans, ReleaseStop, payments
  <2>2. plan \in [Plans -> Planned]
    BY DEF PurchaseInv, PaymentsTypeOK
  <2>3. CASE plan' = plan
    BY <2>3
  <2>4. CASE ClearPrepared
    BY <2>2, <2>4 DEF ClearPrepared, Planned
  <2> QED BY <2>1, <2>3, <2>4
<1>3. UNCHANGED <<session, request, receipt, proof, card, held, left>>
  BY DEF EngageStop, StopClearsPlans, ReleaseStop, payments
<1>4. PaymentsTypeOK'
  BY <1>1, <1>3 DEF PurchaseInv, PaymentsTypeOK, session
<1>5. ASSUME NEW n \in Plans PROVE PaymentOK(n)' /\ Owned(n)'
  BY <1>2, <1>3 DEF PurchaseInv, PaymentOK, Owned, Awaited, Purchasing
<1>6. ASSUME NEW k \in Cards PROVE CardOK(k)'
  BY <1>2, <1>3 DEF PurchaseInv, CardOK, Purchasing
<1> QED BY <1>4, <1>5, <1>6 DEF PurchaseInv

LEMMA RestartKeeps ==
    ASSUME PurchaseInv, RestartDesktop
    PROVE  PurchaseInv'
<1>1. plan' \in [Plans -> Planned] /\ emergency' \in {"off", "engaging", "on"}
  BY DEF PurchaseInv, PaymentsTypeOK, RestartDesktop, ClearPrepared, Planned
<1>2. \A n \in Plans : plan'[n].for = plan[n].for /\ plan'[n].resource = plan[n].resource
  BY DEF PurchaseInv, PaymentsTypeOK, RestartDesktop, ClearPrepared, Planned
<1>3. request' \in [Plans -> {"none", "asked", "taken", "paying", "ended"}]
  BY DEF PurchaseInv, PaymentsTypeOK, RestartDesktop
<1>4. card' \in [Cards -> Batches]
  BY DEF PurchaseInv, PaymentsTypeOK, RestartDesktop, NoBatch, Batches
<1>5. \A k \in Cards : card'[k].pc = "idle"
  BY DEF RestartDesktop, NoBatch
<1>6. \A n \in Plans : request'[n] = IF request[n] = "none" THEN "none" ELSE "ended"
  BY DEF RestartDesktop
<1>7. UNCHANGED <<session, receipt, proof, held, left>>
  BY DEF RestartDesktop
<1>8. PaymentsTypeOK'
  BY <1>1, <1>3, <1>4, <1>7 DEF PurchaseInv, PaymentsTypeOK, session
<1>9. ASSUME NEW n \in Plans PROVE PaymentOK(n)' /\ Owned(n)'
  BY <1>2, <1>6, <1>7 DEF PurchaseInv, PaymentsTypeOK, PaymentOK, Owned, Unrecorded
<1>10. ASSUME NEW k \in Cards PROVE CardOK(k)'
  BY <1>5 DEF CardOK, Purchasing
<1> QED BY <1>8, <1>9, <1>10 DEF PurchaseInv

LEMMA StepInv == PurchaseInv /\ [PaymentsNext]_paymentVars => PurchaseInv'
<1> SUFFICES ASSUME PurchaseInv, [PaymentsNext]_paymentVars PROVE PurchaseInv'
  OBVIOUS
<1>1. CASE UNCHANGED paymentVars
  BY <1>1 DEF paymentVars, session, payments, PurchaseInv, PaymentsTypeOK, PaymentOK, Owned,
              Awaited, CardOK, Purchasing
<1>2. CASE \E k \in Cards : \E chosen \in SUBSET Resources : Purchase(k, chosen)
  BY <1>2, PurchaseKeeps
<1>3. CASE \E k \in Cards, p \in Plans : MakePlan(k, p)
  BY <1>3, MakeKeeps
<1>4. CASE \E k \in Cards : StopsBatch(k) \/ ShowReceipt(k) \/ CheckBudget(k) \/ Approve(k)
  BY <1>4, StopsKeeps, ShowKeeps, CheckKeeps, ApproveKeeps
<1>5. CASE \E p \in Plans :
        \/ TakePlan(p) \/ RefusePlan(p) \/ Submit(p)
        \/ Receive(p) \/ LoseAnswer(p) \/ RequestFails(p) \/ SettlePayment(p)
  BY <1>5, PaymentKeeps
<1>6. CASE EngageStop \/ StopClearsPlans \/ ReleaseStop
  BY <1>6, StopKeeps
<1>7. CASE RestartDesktop
  BY <1>7, RestartKeeps
<1> QED BY <1>1, <1>2, <1>3, <1>4, <1>5, <1>6, <1>7 DEF PaymentsNext

(* Every variable of the purchases keeps its type, and every plan, request, *)
(* record and card stays where the others say it is: page.tsx and the x402  *)
(* services hold no plan, and no request, that nothing accounts for.        *)
THEOREM PaymentsTypeCorrect == PaymentsSpec => []PaymentsTypeOK
<1>1. PurchaseInv => PaymentsTypeOK
  BY DEF PurchaseInv
<1> QED BY <1>1, InitInv, StepInv, PTL DEF PaymentsSpec

-----------------------------------------------------------------------------
(* What is received stays on record *)

Bought(k, r, p) ==
  /\ plan[p].for = k /\ plan[p].resource = r
  /\ proof[p] = "settled" /\ receipt[p] = "RESOURCE_RECEIVED"

LEMMA BoughtStays ==
    ASSUME PurchaseInv, [PaymentsNext]_paymentVars,
           NEW k \in Cards, NEW r, NEW p \in Plans, Bought(k, r, p)
    PROVE  Bought(k, r, p)'
<1>1. request[p] = "ended" /\ plan[p].for # Nothing
  BY PaymentsAssumption DEF PurchaseInv, PaymentOK, Bought
<1>2. /\ plan \in [Plans -> Planned]
      /\ receipt \in [Plans -> {"none", "SUBMITTED", "RESOURCE_RECEIVED", "UNKNOWN"}]
      /\ proof \in [Plans -> {"unsent", "sent", "settled"}]
  BY DEF PurchaseInv, PaymentsTypeOK
<1>3. CASE UNCHANGED payments
  BY <1>3 DEF payments, Bought
<1>4. CASE \E j \in Cards, q \in Plans : MakePlan(j, q)
  <2>1. PICK j \in Cards, q \in Plans : MakePlan(j, q)
    BY <1>4
  <2>2. q # p
    BY <1>1, <2>1 DEF MakePlan, NoPlan
  <2> QED BY <1>2, <2>1, <2>2 DEF MakePlan, Bought
<1>5. CASE \E j \in Cards : Approve(j)
  BY <1>5 DEF Approve, Bought
<1>6. CASE \E q \in Plans :
        \/ TakePlan(q) \/ RefusePlan(q) \/ Submit(q)
        \/ Receive(q) \/ LoseAnswer(q) \/ RequestFails(q) \/ SettlePayment(q)
  <2>1. PICK q \in Plans :
          \/ TakePlan(q) \/ RefusePlan(q) \/ Submit(q)
          \/ Receive(q) \/ LoseAnswer(q) \/ RequestFails(q) \/ SettlePayment(q)
    BY <1>6
  <2>2. q # p
    BY <1>1, <2>1 DEF TakePlan, RefusePlan, Submit, Receive, LoseAnswer, RequestFails,
                      SettlePayment, Bought
  <2> QED BY <1>2, <2>1, <2>2 DEF TakePlan, RefusePlan, Submit, Receive, LoseAnswer, RequestFails,
                                  SettlePayment, Unready, Bought, Planned
<1>7. CASE (StopClearsPlans \/ RestartDesktop)
  BY <1>2, <1>7 DEF StopClearsPlans, RestartDesktop, ClearPrepared, Planned, Bought
<1>8. CASE EngageStop \/ ReleaseStop
  BY <1>3, <1>8 DEF EngageStop, ReleaseStop
<1>9. CASE UNCHANGED paymentVars
  BY <1>3, <1>9 DEF paymentVars
<1>10. CASE \E j \in Cards :
         \/ \E chosen \in SUBSET Resources : Purchase(j, chosen)
         \/ StopsBatch(j) \/ ShowReceipt(j) \/ CheckBudget(j)
  BY <1>3, <1>10 DEF Purchase, StopsBatch, ShowReceipt, CheckBudget
<1> QED BY <1>4, <1>5, <1>6, <1>7, <1>8, <1>9, <1>10 DEF PaymentsNext

\* Only a receipt that was awaited is shown, and it is one of this payment.
LEMMA OnlyShown ==
    ASSUME PurchaseInv, [PaymentsNext]_paymentVars,
           NEW k \in Cards, NEW r \in held'[k], r \notin held[k]
    PROVE  \E p \in Plans : Bought(k, r, p)
<1>1. PICK j \in Cards : ShowReceipt(j)
  <2>1. held' # held
    OBVIOUS
  <2> QED BY <2>1 DEF PaymentsNext, paymentVars, Purchase, MakePlan, StopsBatch, CheckBudget,
                      Approve, TakePlan, RefusePlan, Submit, Receive, LoseAnswer, RequestFails,
                      SettlePayment, EngageStop, StopClearsPlans, ReleaseStop, RestartDesktop
<1>2. j = k /\ r = card[k].resource
  BY <1>1 DEF ShowReceipt, PurchaseInv, PaymentsTypeOK
<1>3. Bought(k, r, card[k].plan) /\ card[k].plan \in Plans
  BY <1>1, <1>2 DEF ShowReceipt, PurchaseInv, CardOK, PaymentOK, Purchasing, Bought
<1> QED BY <1>3

(* Whatever ends a request, the process, the database or the provider, what *)
(* was settled was recorded first (x402-execution.ts, x402/execute), and a  *)
(* card shows only what was bought for it.                                  *)
THEOREM EverySettlementIsOnRecord == PaymentsSpec => []SettledIsOnRecord
<1>1. PurchaseInv => \A p \in Plans : proof[p] = "settled" => receipt[p] # "none"
  BY DEF PurchaseInv, PaymentOK
<1> DEFINE Kept == \A k \in Cards : \A r \in held[k] : \E p \in Plans : Bought(k, r, p)
<1>2. PurchaseInv /\ Kept => SettledIsOnRecord
  BY <1>1 DEF SettledIsOnRecord, Bought
<1>3. PaymentsInit => Kept
  BY DEF PaymentsInit
<1>4. PurchaseInv /\ Kept /\ [PaymentsNext]_paymentVars => Kept'
  <2> SUFFICES ASSUME PurchaseInv, Kept, [PaymentsNext]_paymentVars,
                      NEW k \in Cards, NEW r \in held'[k]
               PROVE  \E p \in Plans : Bought(k, r, p)'
    OBVIOUS
  <2>1. \E p \in Plans : Bought(k, r, p)
    BY OnlyShown
  <2>2. PICK p \in Plans : Bought(k, r, p)
    BY <2>1
  <2>3. Bought(k, r, p)'
    BY <2>2, BoughtStays
  <2> QED BY <2>3
<1> HIDE DEF Held
<1> QED BY <1>2, <1>3, <1>4, InitInv, StepInv, PTL DEF PaymentsSpec

-----------------------------------------------------------------------------
(* The bound of the spending *)

LEMMA FiniteCounts ==
    ASSUME PaymentsTypeOK
    PROVE  /\ IsFiniteSet(SpentPlans) /\ Cardinality(SpentPlans) \in Nat
           /\ IsFiniteSet(Spenders) /\ Cardinality(Spenders) \in Nat
           /\ IsFiniteSet(LeftToSpend) /\ Cardinality(LeftToSpend) \in Nat
           /\ IsFiniteSet(left) /\ Cardinality(left) \in Nat
           /\ Cardinality(Spenders) <= Cardinality(Cards)
           /\ Cardinality(LeftToSpend) <= Cardinality(left)
           /\ Cardinality(Cards) \in Nat
<1>1. SpentPlans \in SUBSET Plans /\ Spenders \in SUBSET Cards /\ left \in SUBSET Plans
      /\ LeftToSpend \in SUBSET left
  BY DEF SpentPlans, Spenders, LeftToSpend, PaymentsTypeOK
<1>2. IsFiniteSet(SpentPlans) /\ IsFiniteSet(Spenders) /\ IsFiniteSet(left)
  BY <1>1, FS_Subset, PaymentsAssumption
<1>3. IsFiniteSet(LeftToSpend)
  BY <1>1, <1>2, FS_Subset
<1> QED BY <1>1, <1>2, <1>3, FS_Subset, FS_CardinalityType, PaymentsAssumption

\* Most steps spend nothing, and let nothing further be spent.
LEMMA NoneMore ==
    ASSUME PaymentsTypeOK, CountInv, left' = left,
           SpentPlans' \subseteq SpentPlans, Spenders' \subseteq Spenders,
           LeftToSpend' \subseteq LeftToSpend
    PROVE  CountInv'
<1>1. /\ Cardinality(SpentPlans') <= Cardinality(SpentPlans) /\ Cardinality(SpentPlans') \in Nat
      /\ Cardinality(Spenders') <= Cardinality(Spenders) /\ Cardinality(Spenders') \in Nat
      /\ Cardinality(LeftToSpend') <= Cardinality(LeftToSpend) /\ Cardinality(LeftToSpend') \in Nat
  BY FiniteCounts, FS_Subset, FS_CardinalityType
<1> QED BY <1>1, FiniteCounts, PaymentsAssumption DEF CountInv

LEMMA CheckCounts ==
    ASSUME PurchaseInv, PurchaseInv', CountInv, NEW k \in Cards, CheckBudget(k)
    PROVE  CountInv'
<1>1. PaymentsTypeOK /\ PaymentsTypeOK'
  BY DEF PurchaseInv
<1>2. SpentPlans' = SpentPlans /\ LeftToSpend' = LeftToSpend /\ left' = left
  BY DEF CheckBudget, payments, SpentPlans, LeftToSpend
<1>3. Cardinality(SpentPlans) + 1 <= Budget
  BY DEF CheckBudget, Spent, SpentPlans
<1>4. Cardinality(Spenders') <= Cardinality(Cards) /\ Cardinality(Spenders') \in Nat
  <2>1. Spenders' \in SUBSET Cards
    BY DEF Spenders
  <2> QED BY <2>1, FS_Subset, FS_CardinalityType, PaymentsAssumption
<1> QED BY <1>1, <1>2, <1>3, <1>4, FiniteCounts, PaymentsAssumption DEF CountInv

LEMMA StopsCounts ==
    ASSUME PurchaseInv, CountInv, NEW k \in Cards, StopsBatch(k)
    PROVE  CountInv'
<1>1. PaymentsTypeOK /\ Fresh.pc = "idle"
  BY FreshType DEF PurchaseInv
<1>2. SpentPlans' = SpentPlans /\ UNCHANGED request
  BY DEF StopsBatch, payments, SpentPlans
<1>3. Spenders' \subseteq Spenders
  BY <1>1, <1>2 DEF StopsBatch, EndBatch, Spenders, MaySpend, Purchasing, PaymentsTypeOK
<1>4. CASE left' = left
  <2>1. LeftToSpend' = LeftToSpend
    BY <1>2, <1>4 DEF LeftToSpend
  <2> QED BY <1>1, <1>2, <1>3, <1>4, <2>1, NoneMore
<1>5. CASE left' # left
  <2> DEFINE p == card[k].plan
  <2>1. left' = left \cup {p} /\ p \notin left
    BY <1>5 DEF StopsBatch
  <2>2. LeftToSpend' = LeftToSpend \/ LeftToSpend' = LeftToSpend \cup {p}
    BY <1>2, <2>1 DEF LeftToSpend
  <2> HIDE DEF p
  <2>3. Cardinality(left') = Cardinality(left) + 1
    BY <1>1, <2>1, FiniteCounts, FS_AddElement
  <2>4. /\ Cardinality(LeftToSpend') <= Cardinality(LeftToSpend) + 1
        /\ Cardinality(LeftToSpend') \in Nat
    <3>1. IsFiniteSet(LeftToSpend) /\ Cardinality(LeftToSpend) \in Nat
      BY <1>1, FiniteCounts
    <3>2. \/ Cardinality(LeftToSpend') = Cardinality(LeftToSpend)
          \/ Cardinality(LeftToSpend') = Cardinality(LeftToSpend \cup {p})
      BY <2>2
    <3>3. \/ Cardinality(LeftToSpend \cup {p}) = Cardinality(LeftToSpend)
          \/ Cardinality(LeftToSpend \cup {p}) = Cardinality(LeftToSpend) + 1
      BY <3>1, FS_AddElement, Zenon
    <3> QED BY <3>1, <3>2, <3>3
  <2>5. Cardinality(Spenders') <= Cardinality(Spenders) /\ Cardinality(Spenders') \in Nat
    BY <1>1, <1>3, FiniteCounts, FS_Subset, FS_CardinalityType
  <2> QED BY <1>1, <1>2, <2>3, <2>4, <2>5, FiniteCounts, PaymentsAssumption DEF CountInv
<1> QED BY <1>4, <1>5

\* A record takes the place of what its card, or the request left, may spend.
LEMMA SubmitCounts ==
    ASSUME PurchaseInv, CountInv, NEW p \in Plans, Submit(p)
    PROVE  CountInv'
<1>1. PaymentsTypeOK /\ receipt[p] = "none" /\ request[p] = "taken" /\ Owned(p)
  BY DEF PurchaseInv, PaymentOK, Unrecorded, Submit
<1>2. Cardinality(SpentPlans') = Cardinality(SpentPlans) + 1
  <2>1. SpentPlans' = SpentPlans \cup {p} /\ p \notin SpentPlans
    BY <1>1 DEF Submit, SpentPlans, IsSpent, PaymentsTypeOK
  <2> QED BY <1>1, <2>1, FiniteCounts, FS_AddElement
<1>3. Spenders' \subseteq Spenders /\ LeftToSpend' \subseteq LeftToSpend /\ left' = left
  BY <1>1 DEF Submit, Spenders, MaySpend, Purchasing, LeftToSpend, Unrecorded, PaymentsTypeOK
<1>4. /\ Cardinality(Spenders') <= Cardinality(Spenders) /\ Cardinality(Spenders') \in Nat
      /\ Cardinality(LeftToSpend') <= Cardinality(LeftToSpend) /\ Cardinality(LeftToSpend') \in Nat
  BY <1>1, <1>3, FiniteCounts, FS_Subset, FS_CardinalityType
<1>5. CASE p \in left
  <2>1. p \in LeftToSpend /\ p \notin LeftToSpend'
    BY <1>1, <1>5 DEF Submit, LeftToSpend, Unrecorded, PaymentsTypeOK
  <2>2. Cardinality(LeftToSpend') # Cardinality(LeftToSpend)
    BY <1>1, <1>3, <2>1, FiniteCounts, FS_Subset
  <2> QED BY <1>1, <1>2, <1>3, <1>4, <2>2, FiniteCounts, PaymentsAssumption DEF CountInv
<1>6. CASE Awaited(p)
  <2>1. PICK k \in Cards : Purchasing(k, "waiting") /\ card[k].plan = p
    BY <1>6 DEF Awaited
  <2>2. k \in Spenders /\ k \notin Spenders'
    BY <1>1, <2>1 DEF Submit, Spenders, MaySpend, Purchasing, Unrecorded, PaymentsTypeOK
  <2>3. Cardinality(Spenders') # Cardinality(Spenders)
    BY <1>1, <1>3, <2>2, FiniteCounts, FS_Subset
  <2> QED BY <1>1, <1>2, <1>3, <1>4, <2>3, FiniteCounts, PaymentsAssumption DEF CountInv
<1> QED BY <1>1, <1>5, <1>6 DEF Owned, Unrecorded

\* The other steps of a card: it goes on with what it was going to spend.
LEMMA CardCounts ==
    ASSUME PurchaseInv, CountInv, NEW k \in Cards,
           \/ \E chosen \in SUBSET Resources : Purchase(k, chosen)
           \/ ShowReceipt(k)
    PROVE  CountInv'
<1>1. PaymentsTypeOK
  BY DEF PurchaseInv
<1>2. PICK b : card' = [card EXCEPT ![k] = b] /\ b.pc \in {"idle", "pricing"}
  BY <1>1, NextBatch DEF Purchase, ShowReceipt, PaymentsTypeOK, Batches
<1>3. UNCHANGED <<request, receipt, left>>
  BY DEF Purchase, ShowReceipt, payments
<1>4. SpentPlans' = SpentPlans /\ LeftToSpend' = LeftToSpend
  BY <1>3 DEF SpentPlans, LeftToSpend
<1>5. Spenders' \subseteq Spenders
  BY <1>1, <1>2, <1>3 DEF Spenders, MaySpend, Purchasing, PaymentsTypeOK
<1> QED BY <1>1, <1>3, <1>4, <1>5, NoneMore

LEMMA PlanCounts ==
    ASSUME PurchaseInv, CountInv, NEW k \in Cards,
           (\E p \in Plans : MakePlan(k, p)) \/ Approve(k)
    PROVE  CountInv'
<1>1. PaymentsTypeOK
  BY DEF PurchaseInv
<1>2. CASE \E p \in Plans : MakePlan(k, p)
  <2>1. SpentPlans' = SpentPlans /\ LeftToSpend' = LeftToSpend /\ left' = left
    BY <1>2 DEF MakePlan, SpentPlans, LeftToSpend
  <2>2. Spenders' \subseteq Spenders
    BY <1>1, <1>2 DEF MakePlan, Spenders, MaySpend, Purchasing, PaymentsTypeOK, Batches
  <2> QED BY <1>1, <2>1, <2>2, NoneMore
<1>3. CASE Approve(k)
  <2> DEFINE p == card[k].plan
  <2>1. p \in Plans /\ request[p] = "none" /\ p \notin left
    BY <1>3 DEF Approve, PurchaseInv, PaymentOK, CardOK, Purchasing
  <2>2. SpentPlans' = SpentPlans /\ left' = left
    BY <1>3 DEF Approve, SpentPlans
  <2>3. LeftToSpend' = LeftToSpend
    BY <1>1, <1>3, <2>1 DEF Approve, LeftToSpend, PaymentsTypeOK
  <2>4. ASSUME NEW j \in Cards, MaySpend(j)' PROVE MaySpend(j)
    <3>1. CASE j = k
      BY <1>3, <3>1 DEF Approve, MaySpend, Purchasing
    <3>2. CASE j # k
      <4>1. card'[j] = card[j]
        BY <1>1, <1>3, <3>2 DEF Approve, Proceed, PaymentsTypeOK
      <4>2. Purchasing(j, "waiting") => card[j].plan # p
        BY <2>1 DEF PurchaseInv, CardOK, Purchasing
      <4>3. Purchasing(j, "waiting") => card[j].plan \in Plans
        BY DEF PurchaseInv, CardOK, Purchasing
      <4> QED BY <1>1, <1>3, <2>4, <4>1, <4>2, <4>3 DEF Approve, MaySpend, Purchasing, PaymentsTypeOK
    <3> QED BY <3>1, <3>2
  <2>5. Spenders' \subseteq Spenders
    BY <2>4 DEF Spenders
  <2> QED BY <1>1, <2>2, <2>3, <2>5, NoneMore
<1> QED BY <1>2, <1>3

\* A request that ends, or is taken, or is answered, spends nothing further.
LEMMA RequestCounts ==
    ASSUME PurchaseInv, CountInv, NEW p \in Plans,
           \/ TakePlan(p) \/ RefusePlan(p)
           \/ Receive(p) \/ LoseAnswer(p) \/ RequestFails(p) \/ SettlePayment(p)
    PROVE  CountInv'
<1>1. PaymentsTypeOK /\ PaymentOK(p)
  BY DEF PurchaseInv
<1>2. UNCHANGED <<card, left>>
  BY DEF TakePlan, RefusePlan, Receive, LoseAnswer, RequestFails, SettlePayment
<1>3. SpentPlans' \subseteq SpentPlans
  BY <1>1 DEF TakePlan, RefusePlan, Receive, LoseAnswer, RequestFails, SettlePayment, SpentPlans,
              IsSpent, PaymentsTypeOK, PaymentOK
<1>4. \A q \in Plans : request'[q] \in Unrecorded => request[q] \in Unrecorded
  BY <1>1 DEF TakePlan, RefusePlan, Receive, LoseAnswer, RequestFails, SettlePayment, Unrecorded,
              PaymentsTypeOK
<1>5. LeftToSpend' \subseteq LeftToSpend
  BY <1>1, <1>2, <1>4 DEF LeftToSpend, PaymentsTypeOK
<1>6. Spenders' \subseteq Spenders
  BY <1>2, <1>4 DEF Spenders, MaySpend, Purchasing, PurchaseInv, CardOK
<1> QED BY <1>1, <1>2, <1>3, <1>5, <1>6, NoneMore

LEMMA StopCounts ==
    ASSUME PurchaseInv, CountInv,
           EngageStop \/ StopClearsPlans \/ ReleaseStop \/ RestartDesktop
    PROVE  CountInv'
<1>1. PaymentsTypeOK
  BY DEF PurchaseInv
<1>2. SpentPlans' = SpentPlans /\ left' = left
  BY DEF EngageStop, StopClearsPlans, ReleaseStop, RestartDesktop, payments, SpentPlans
<1>3. CASE RestartDesktop
  <2>1. LeftToSpend' = {}
    BY <1>1, <1>3 DEF RestartDesktop, LeftToSpend, Unrecorded, PaymentsTypeOK
  <2>2. Spenders' = {}
    BY <1>3 DEF RestartDesktop, NoBatch, Spenders, MaySpend, Purchasing
  <2> QED BY <1>1, <1>2, <2>1, <2>2, NoneMore
<1>4. CASE EngageStop \/ StopClearsPlans \/ ReleaseStop
  <2>1. UNCHANGED <<card, request, left>>
    BY <1>4 DEF EngageStop, StopClearsPlans, ReleaseStop, payments
  <2>2. LeftToSpend' = LeftToSpend /\ Spenders' = Spenders
    BY <2>1 DEF LeftToSpend, Spenders, MaySpend, Purchasing
  <2> QED BY <1>1, <1>2, <2>2, NoneMore
<1> QED BY <1>3, <1>4

LEMMA StepCounts == PurchaseInv /\ CountInv /\ [PaymentsNext]_paymentVars => CountInv'
<1> SUFFICES ASSUME PurchaseInv, CountInv, [PaymentsNext]_paymentVars PROVE CountInv'
  OBVIOUS
<1>1. CASE UNCHANGED paymentVars
  <2>1. SpentPlans' = SpentPlans /\ Spenders' = Spenders /\ LeftToSpend' = LeftToSpend /\ left' = left
    BY <1>1 DEF paymentVars, payments, SpentPlans, Spenders, MaySpend, Purchasing, LeftToSpend
  <2> QED BY <2>1 DEF CountInv
<1>2. CASE \E k \in Cards :
        (\E chosen \in SUBSET Resources : Purchase(k, chosen)) \/ ShowReceipt(k)
  BY <1>2, CardCounts
<1>3. CASE \E k \in Cards : (\E p \in Plans : MakePlan(k, p)) \/ Approve(k)
  BY <1>3, PlanCounts
<1>4. CASE \E k \in Cards : StopsBatch(k)
  BY <1>4, StopsCounts
<1>5. CASE \E k \in Cards : CheckBudget(k)
  BY <1>5, CheckCounts, StepInv
<1>6. CASE \E p \in Plans : Submit(p)
  BY <1>6, SubmitCounts
<1>7. CASE \E p \in Plans :
        \/ TakePlan(p) \/ RefusePlan(p)
        \/ Receive(p) \/ LoseAnswer(p) \/ RequestFails(p) \/ SettlePayment(p)
  BY <1>7, RequestCounts
<1>8. CASE EngageStop \/ StopClearsPlans \/ ReleaseStop \/ RestartDesktop
  BY <1>8, StopCounts
<1> QED BY <1>1, <1>2, <1>3, <1>4, <1>5, <1>6, <1>7, <1>8 DEF PaymentsNext

(* The budget is read before the awaits of prepare, and a payment counts    *)
(* from its record on (x402-preparation.ts, registerX402Ipc.ts): whatever   *)
(* the budget, no session outspends it by more than its other cards and     *)
(* the requests its page left behind.                                       *)
THEOREM SpendStaysBounded == PaymentsSpec => []SpendIsBounded
<1>1. PurchaseInv /\ CountInv => SpendIsBounded
  <2> SUFFICES ASSUME PurchaseInv, CountInv PROVE SpendIsBounded
    OBVIOUS
  <2>1. PaymentsTypeOK
    BY DEF PurchaseInv
  <2>2. Known \in SUBSET SpentPlans
    BY DEF Known, SpentPlans, IsSpent, PurchaseInv, PaymentOK, PaymentsTypeOK
  <2>3. Cardinality(Known) <= Cardinality(SpentPlans) /\ Cardinality(Known) \in Nat
    BY <2>1, <2>2, FiniteCounts, FS_Subset, FS_CardinalityType
  <2> QED BY <2>1, <2>3, FiniteCounts, PaymentsAssumption DEF CountInv, SpendIsBounded
<1>2. PaymentsInit => CountInv
  <2> SUFFICES ASSUME PaymentsInit PROVE CountInv
    OBVIOUS
  <2>1. SpentPlans = {} /\ Spenders = {} /\ LeftToSpend = {} /\ left = {}
    BY DEF PaymentsInit, SpentPlans, IsSpent, Spenders, MaySpend, Purchasing, NoBatch, LeftToSpend
  <2>2. Cardinality(Cards) \in Nat /\ Cardinality(Cards) # 0
    BY FS_EmptySet, FS_CardinalityType, PaymentsAssumption
  <2> QED BY <2>1, <2>2, FS_EmptySet, PaymentsAssumption DEF CountInv
<1> QED BY <1>1, <1>2, InitInv, StepInv, StepCounts, PTL DEF PaymentsSpec

-----------------------------------------------------------------------------
(* Purchases and Pump trades as they are explored together *)

LEMMA PurchasesHaveParts == PurchasesSpec => PumpSpec /\ PaymentsSpec
<1>1. PurchasesInit => PumpInit /\ PaymentsInit
  BY DEF PurchasesInit
<1>2. [PurchasesNext]_<<pumpVars, paymentVars>> =>
        [PumpNext]_pumpVars /\ [PaymentsNext]_paymentVars
  BY DEF PurchasesNext, PumpOnly, PaymentsOnly
<1> QED BY <1>1, <1>2, PTL DEF PurchasesSpec, PumpSpec, PaymentsSpec

(* The state of both spending lanes stays in its types.                     *)
THEOREM PurchasesTypeCorrect == PurchasesSpec => []PurchasesTypeOK
<1>1. PumpTypeOK /\ PaymentsTypeOK => PurchasesTypeOK
  BY DEF PurchasesTypeOK
<1> QED BY <1>1, PurchasesHaveParts, PumpTypeCorrect, PaymentsTypeCorrect, PTL
=============================================================================
