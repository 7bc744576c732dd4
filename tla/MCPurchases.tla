----------------------------- MODULE MCPurchases -----------------------------
(* The two lanes of a session that spend: Pump trades and x402 purchases.   *)
(* They share no record; each is explored while the other is untouched.     *)
EXTENDS Pump, Payments, TLC

CONSTANTS k1, k2, r1, r2

(* One card offers two resources, or both offer the same one.               *)
MCOffers == {(k1 :> {r1}) @@ (k2 :> {r1}),
             (k1 :> {r1, r2}) @@ (k2 :> {}), (k1 :> {}) @@ (k2 :> {r1, r2})}

(* Cards are interchangeable, and so are payments.                          *)
Symmetric == Permutations(Cards) \cup Permutations(Plans)

(* Two resources on one card are bought on the web and with full access.    *)
PurchasesInit ==
  /\ PumpInit /\ PaymentsInit
  /\ permission = "restricted" => offered[k1] = offered[k2]

NoPayments == PaymentsInit /\ OnWeb /\ offered[k1] = offered[k2]
PumpOnly == NoPayments /\ UNCHANGED paymentVars
PaymentsOnly == PumpInit /\ UNCHANGED pumpVars

(* Nothing is left to buy, the only end there is.                           *)
AllReceived == \A k \in Cards : held[k] = offered[k]

PurchasesNext ==
  \/ PumpOnly /\ PumpNext
  \/ PaymentsOnly /\ PaymentsNext
  \/ AllReceived /\ PaymentsOnly /\ UNCHANGED paymentVars

PurchasesSpec == PurchasesInit /\ [][PurchasesNext]_<<pumpVars, paymentVars>>

PurchasesTypeOK == PumpTypeOK /\ PaymentsTypeOK
=============================================================================
