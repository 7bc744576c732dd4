----------------------------- MODULE Approvals -----------------------------
(***************************************************************************)
(* What the Pump lane and the EVM swaps promise about a transaction the    *)
(* user approved: it is spent at most once and only while its approval     *)
(* stands, an approval that is over does not come back, and a transaction  *)
(* is counted, in the risk ledger or as a confirmed receipt, only after it *)
(* has landed.                                                             *)
(***************************************************************************)
EXTENDS Naturals

CONSTANT Builds     \* unsigned transactions, each with its digest

VARIABLES approval, \* the final approval of a transaction
          spends,   \* how often it was given to the network
          landed,   \* the transactions that took effect on chain
          counted   \* the transactions the ledger or a receipt counts

approvalVars == <<approval, spends, landed, counted>>

ApprovalInit ==
  /\ approval = [b \in Builds |-> "none"]
  /\ spends = [b \in Builds |-> 0]
  /\ landed = {}
  /\ counted = {}

(* A new approval may take the place of earlier ones.                      *)
Grant(b, B) ==
  /\ approval[b] = "none"
  /\ \A c \in B : approval[c] = "granted"
  /\ approval' = [c \in Builds |-> CASE c = b -> "granted"
                                     [] c \in B -> "over"
                                     [] OTHER -> approval[c]]
  /\ UNCHANGED <<spends, landed, counted>>

(* Approvals expire or are refused, cleared or lost, several at once.      *)
Withdraw(B) ==
  /\ \A c \in B : approval[c] = "granted"
  /\ approval' = [c \in Builds |-> IF c \in B THEN "over" ELSE approval[c]]
  /\ UNCHANGED <<spends, landed, counted>>

Spend(b) ==
  /\ approval[b] = "granted"
  /\ spends[b] = 0
  /\ approval' = [approval EXCEPT ![b] = "over"]
  /\ spends' = [spends EXCEPT ![b] = 1]
  /\ UNCHANGED <<landed, counted>>

Land(b) ==
  /\ spends[b] = 1
  /\ b \notin landed
  /\ landed' = landed \cup {b}
  /\ UNCHANGED <<approval, spends, counted>>

Count(b) ==
  /\ b \in landed \ counted
  /\ counted' = counted \cup {b}
  /\ UNCHANGED <<approval, spends, landed>>

ApprovalNext ==
  \/ \E b \in Builds : Spend(b) \/ Land(b) \/ Count(b)
  \/ \E B \in SUBSET Builds : Withdraw(B) \/ \E b \in Builds : Grant(b, B)

ApprovalSpec == ApprovalInit /\ [][ApprovalNext]_approvalVars
=============================================================================
