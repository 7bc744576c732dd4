----------------------------- MODULE MCDispatch -----------------------------
(* One strategy on one loop, driven by the dispatcher: a DCA strategy on   *)
(* Solana, over two idempotency windows, or an EXIT strategy on Robinhood, *)
(* which expires while its task is in flight, or two EXIT strategies in     *)
(* sessions of different permission.                                       *)
EXTENDS Dispatch

CONSTANTS dca, exit, other

OneDca == {dca}
OneExit == {exit}
TwoExits == {exit, other}
NoStrategy == {}
MCInterval == [s \in Dca |-> 1]
MCMaxRuns == [s \in Dca |-> 1]
MCExit == [s \in Exits |-> [entry |-> 2, stop |-> 1, take |-> 0, trail |-> 0]]
MCExpiry == [s \in Strategies |-> IF s = dca THEN 3 ELSE 1]
MCPrices == {1}

\* One strategy at a time: the restricted one in the first window and up to
\* the stop, which the Full Access one goes past.
Apart ==
    \/ status[other] = "NONE"
    \/ status[exit] = "NONE" /\ ~estop /\ now = 0

\* A session is deleted, and perhaps restored, away from the stop.
DeletedApart == \A s \in Strategies : session[s] # "kept" => ~estop /\ ~engaging

\* In the run of two strategies, the session of the Full Access one.
ExitDeleted == session[other] = "kept" /\ DeletedApart
=============================================================================
