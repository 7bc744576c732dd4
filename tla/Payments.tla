------------------------------- MODULE Payments -------------------------------
(***************************************************************************)
(* x402 purchases of a chat session, on the desktop and on the web: a card *)
(* buys the chosen resources one after the other, each with a plan that is *)
(* prepared against the budget of the session, approved, recorded and sent *)
(* to the provider. A page may lose the answer of a request while the      *)
(* request goes on, and a request may end at any await. A provider settles *)
(* what it was sent, in time or late, and says so truthfully.              *)
(***************************************************************************)
EXTENDS Naturals, FiniteSets

CONSTANTS Cards,     \* messages of the session that offer resources
          Resources, \* what a provider sells, each for one unit
          Offers,    \* what the cards may offer
          Plans,     \* payments that may be prepared
          Budget,    \* maxMissionAmount, in units
          Nothing    \* stands for what is undefined

ASSUME PaymentsAssumption ==
  /\ IsFiniteSet(Cards) /\ Cards # {} /\ IsFiniteSet(Plans) /\ Budget \in Nat
  /\ Offers \subseteq [Cards -> SUBSET Resources]
  /\ Nothing \notin Cards \cup Resources \cup Plans

VARIABLES permission, \* of the session: restricted, full (desktop) or web
          emergency,  \* the emergency stop of the desktop: off, engaging, on
          plan,       \* the payments, ready while a request may take them
          request,    \* the execution of each
          receipt,    \* the status of its record
          proof,      \* what the provider did with the signed payment
          offered,    \* the resources of each card
          card,       \* the batch of each card
          held,       \* resources a card shows as received
          left        \* requests the page left before they were recorded

payments == <<plan, request, receipt, proof>>
session == <<permission, offered>>
paymentVars == <<session, emergency, payments, card, held, left>>

Planned == [for : Cards \cup {Nothing}, resource : Resources \cup {Nothing}, ready : BOOLEAN]
NoPlan == [for |-> Nothing, resource |-> Nothing, ready |-> FALSE]
Batches == [pc : {"idle", "pricing", "planning", "approving", "waiting"},
            todo : SUBSET Resources, resource : Resources \cup {Nothing},
            plan : Plans \cup {Nothing}, ran : BOOLEAN]
NoBatch == [pc |-> "idle", todo |-> {}, resource |-> Nothing, plan |-> Nothing, ran |-> FALSE]

PaymentsInit ==
  /\ permission \in {"restricted", "full", "web"}
  /\ offered \in Offers
  /\ emergency = "off"
  /\ plan = [p \in Plans |-> NoPlan]
  /\ request = [p \in Plans |-> "none"]
  /\ receipt = [p \in Plans |-> "none"]
  /\ proof = [p \in Plans |-> "unsent"]
  /\ card = [k \in Cards |-> NoBatch]
  /\ held = [k \in Cards |-> {}]
  /\ left = {}

OnWeb == permission = "web"
Purchasing(k, pc) == card[k].pc = pc
Proceed(k, pc) == card' = [card EXCEPT ![k].pc = pc]
Unready(p) == plan' = [plan EXCEPT ![p].ready = FALSE]

(* With full access the batch of a message runs once.                      *)
Fresh == [NoBatch EXCEPT !.ran = permission = "full"]
EndBatch(k) == card' = [card EXCEPT ![k] = Fresh]

(* The next resource that is not received yet.                             *)
NextPurchase(k, todo) ==
  IF todo = {} THEN EndBatch(k)
  ELSE \E r \in todo : card' = [card EXCEPT ![k] =
         [Fresh EXCEPT !.pc = "pricing", !.todo = todo \ {r}, !.resource = r]]

-----------------------------------------------------------------------------
(* The card *)

(* A card offers what it does not show as received; with full access it    *)
(* offers nothing, and its batch runs as the message arrives.              *)
Purchase(k, chosen) ==
  /\ Purchasing(k, "idle")
  /\ chosen # {} /\ chosen \subseteq offered[k] \ held[k]
  /\ ~card[k].ran
  /\ NextPurchase(k, chosen)
  /\ UNCHANGED <<session, emergency, payments, held, left>>

(* A request is refused, the user declines, or the page is reloaded or     *)
(* loses the answer while the request goes on. (On the desktop the loop of *)
(* a batch also goes on when a lock unmounts its card; here that card ends *)
(* with its batch.)                                                        *)
StopsBatch(k) ==
  /\ ~Purchasing(k, "idle")
  /\ EndBatch(k)
  /\ left' = IF Purchasing(k, "waiting") /\ request[card[k].plan] \in {"asked", "taken"}
             THEN left \cup {card[k].plan} ELSE left
  /\ UNCHANGED <<session, emergency, payments, held>>

(* On the web the receipt is lost when another session is open.            *)
ShowReceipt(k) ==
  LET b == card[k] IN
  /\ Purchasing(k, "waiting")
  /\ request[b.plan] = "ended" /\ receipt[b.plan] = "RESOURCE_RECEIVED"
  /\ \/ held' = [held EXCEPT ![k] = @ \cup {b.resource}]
     \/ OnWeb /\ UNCHANGED held
  /\ NextPurchase(k, b.todo)
  /\ UNCHANGED <<session, emergency, payments, left>>

-----------------------------------------------------------------------------
(* prepare: the spending is read, and the plan is made awaits later        *)

IsSpentMutant(status) == status = "RESOURCE_RECEIVED"
IsSpent(status) == status \in {"SUBMITTED", "RESOURCE_RECEIVED"}
Spent == Cardinality({p \in Plans : IsSpent(receipt[p])})
Allowed == OnWeb \/ emergency = "off"

CheckBudget(k) ==
  /\ Purchasing(k, "pricing")
  /\ Allowed /\ Spent + 1 <= Budget
  /\ Proceed(k, "planning")
  /\ UNCHANGED <<session, emergency, payments, held, left>>

MakePlan(k, p) ==
  /\ Purchasing(k, "planning")
  /\ plan[p] = NoPlan
  /\ plan' = [plan EXCEPT ![p] = [for |-> k, resource |-> card[k].resource, ready |-> TRUE]]
  /\ card' = [card EXCEPT ![k].pc = "approving", ![k].plan = p]
  /\ UNCHANGED <<session, emergency, request, receipt, proof, held, left>>

-----------------------------------------------------------------------------
(* execute, submit: password, signing session or the wallet, then a record *)
(* and only then the provider                                              *)

Approve(k) ==
  LET p == card[k].plan IN
  /\ Purchasing(k, "approving")
  /\ Allowed
  /\ request' = [request EXCEPT ![p] = "asked"]
  /\ Proceed(k, "waiting")
  /\ UNCHANGED <<session, emergency, plan, receipt, proof, held, left>>

(* A plan is asked for once: that it stays prepared on the desktop until   *)
(* the resource is received is of no more use to anyone.                   *)
TakePlan(p) ==
  /\ request[p] = "asked" /\ plan[p].ready
  /\ request' = [request EXCEPT ![p] = "taken"]
  /\ Unready(p)
  /\ UNCHANGED <<session, emergency, receipt, proof, card, held, left>>

(* The plan was cleared or has expired, when it is dropped as well.        *)
RefusePlan(p) ==
  /\ request[p] = "asked"
  /\ request' = [request EXCEPT ![p] = "ended"]
  /\ Unready(p)
  /\ UNCHANGED <<session, emergency, receipt, proof, card, held, left>>

SubmitMutant(p) ==
  /\ request[p] = "taken"
  /\ request' = [request EXCEPT ![p] = "paying"]
  /\ proof' = [proof EXCEPT ![p] = "sent"]
  /\ UNCHANGED <<session, emergency, plan, receipt, card, held, left>>

Submit(p) ==
  /\ request[p] = "taken"
  /\ receipt' = [receipt EXCEPT ![p] = "SUBMITTED"]
  /\ request' = [request EXCEPT ![p] = "paying"]
  /\ proof' = [proof EXCEPT ![p] = "sent"]
  /\ UNCHANGED <<session, emergency, plan, card, held, left>>

Receive(p) ==
  /\ request[p] = "paying" /\ proof[p] = "settled"
  /\ receipt' = [receipt EXCEPT ![p] = "RESOURCE_RECEIVED"]
  /\ request' = [request EXCEPT ![p] = "ended"]
  /\ UNCHANGED <<session, emergency, plan, proof, card, held, left>>

(* The provider refuses, answers what cannot be used, or is late.          *)
LoseAnswer(p) ==
  /\ request[p] = "paying"
  /\ receipt' = [receipt EXCEPT ![p] = "UNKNOWN"]
  /\ request' = [request EXCEPT ![p] = "ended"]
  /\ UNCHANGED <<session, emergency, plan, proof, card, held, left>>

(* The vault is locked, the database is away, or the process ends.         *)
RequestFails(p) ==
  /\ request[p] \in {"asked", "taken", "paying"}
  /\ request' = [request EXCEPT ![p] = "ended"]
  /\ Unready(p)
  /\ UNCHANGED <<session, emergency, receipt, proof, card, held, left>>

-----------------------------------------------------------------------------
(* The emergency stop of the desktop, which clears the plans awaits after  *)
(* it is engaged; the restart of the desktop; the provider                 *)

ClearPrepared == plan' = [p \in Plans |-> [plan[p] EXCEPT !.ready = FALSE]]

EngageStop ==
  /\ ~OnWeb /\ emergency = "off"
  /\ emergency' = "engaging"
  /\ UNCHANGED <<session, payments, card, held, left>>

StopClearsPlans ==
  /\ emergency = "engaging"
  /\ emergency' = "on"
  /\ ClearPrepared
  /\ UNCHANGED <<session, request, receipt, proof, card, held, left>>

ReleaseStop ==
  /\ emergency = "on"
  /\ emergency' = "off"
  /\ UNCHANGED <<session, payments, card, held, left>>

RestartDesktop ==
  /\ ~OnWeb
  /\ emergency' = IF emergency = "engaging" THEN "on" ELSE emergency
  /\ ClearPrepared
  /\ request' = [p \in Plans |-> IF request[p] = "none" THEN "none" ELSE "ended"]
  /\ card' = [k \in Cards |-> [NoBatch EXCEPT !.ran = card[k].ran]]
  /\ UNCHANGED <<session, receipt, proof, held, left>>

SettlePayment(p) ==
  /\ proof[p] = "sent"
  /\ proof' = [proof EXCEPT ![p] = "settled"]
  /\ UNCHANGED <<session, emergency, plan, request, receipt, card, held, left>>

PaymentsNext ==
  \/ \E k \in Cards :
       \/ \E chosen \in SUBSET Resources : Purchase(k, chosen)
       \/ \E p \in Plans : MakePlan(k, p)
       \/ StopsBatch(k) \/ ShowReceipt(k) \/ CheckBudget(k) \/ Approve(k)
  \/ \E p \in Plans :
       \/ TakePlan(p) \/ RefusePlan(p) \/ Submit(p)
       \/ Receive(p) \/ LoseAnswer(p) \/ RequestFails(p) \/ SettlePayment(p)
  \/ EngageStop \/ StopClearsPlans \/ ReleaseStop \/ RestartDesktop

PaymentsSpec == PaymentsInit /\ [][PaymentsNext]_paymentVars

-----------------------------------------------------------------------------
(* Properties *)

PaymentsTypeOK ==
  /\ permission \in {"restricted", "full", "web"}
  /\ offered \in [Cards -> SUBSET Resources]
  /\ emergency \in {"off", "engaging", "on"}
  /\ plan \in [Plans -> Planned]
  /\ request \in [Plans -> {"none", "asked", "taken", "paying", "ended"}]
  /\ receipt \in [Plans -> {"none", "SUBMITTED", "RESOURCE_RECEIVED", "UNKNOWN"}]
  /\ proof \in [Plans -> {"unsent", "sent", "settled"}]
  /\ card \in [Cards -> Batches]
  /\ held \in [Cards -> SUBSET Resources]
  /\ left \subseteq Plans

(* What a provider settled is on record, whatever was lost or ended since, *)
(* and a card shows as received only what was settled for it.              *)
SettledIsOnRecord ==
  /\ \A p \in Plans : proof[p] = "settled" => receipt[p] # "none"
  /\ \A k \in Cards : \A r \in held[k] : \E p \in Plans :
       /\ plan[p].for = k /\ plan[p].resource = r
       /\ proof[p] = "settled" /\ receipt[p] = "RESOURCE_RECEIVED"

(* The spending is read before the awaits of prepare and is recorded after *)
(* those of the execution; still a session outspends its budget by no more *)
(* than one purchase for each further card and each request the page left, *)
(* payments of unknown outcome aside, which count for nothing.             *)
Known == {p \in Plans : proof[p] = "settled" /\ receipt[p] # "UNKNOWN"}
SpendIsBounded == Cardinality(Known) < Budget + Cardinality(Cards) + Cardinality(left)

-----------------------------------------------------------------------------
(* A statement of the program that does not hold: page.tsx:2296, "continue *)
(* to retry only unpaid resources": what a card has bought it does not pay *)
(* for again, even when no page ever left a request behind.                *)
PaidOnce == left = {} => \A p, q \in Plans :
  /\ {proof[p], proof[q]} = {"settled"}
  /\ plan[p].for = plan[q].for /\ plan[p].resource = plan[q].resource
  => p = q
=============================================================================
