------------------------------ MODULE MCCards ------------------------------
(* Two cards of the desktop's window whose calls replace a whole session:   *)
(* an EVM swap and a limit order. Each is explored while the other is still *)
(* untouched (and of one kind).                                              *)
EXTENDS EvmSwap, LimitOrders, TLC

Alone == [full |-> FALSE, chatty |-> FALSE]
Watched == [full |-> TRUE, chatty |-> TRUE]
CardOrRun == {Alone, Watched}
Symmetric == Permutations(Slots) \cup Permutations(Preflights)
  \cup Permutations(Sims) \cup Permutations(Workers)

CardsInit == SwapInit /\ LimitInit
CardsNext ==
  \/ LimitInit /\ SwapNext /\ UNCHANGED limitVars
  \/ SwapInit /\ kind = Alone /\ LimitNext /\ UNCHANGED swapVars
CardsSpec == CardsInit /\ [][CardsNext]_<<swapVars, limitVars>>

(* What was reported to the user decides nothing: states that differ in it  *)
(* alone are explored once.                                                 *)
Unreported == <<lane, network, shown, stored, modal, chat, task, recon, gates,
                limitVars>>

CardsTypeOK == SwapTypeOK /\ LimitTypeOK
=============================================================================
