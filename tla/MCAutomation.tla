---------------------------- MODULE MCAutomation ----------------------------
(* Small instances of Automation: one DCA strategy over several idempotency *)
(* windows, or one EXIT strategy over rising and falling prices.            *)
EXTENDS Automation, TLC

CONSTANTS dca, exit

OneDca == {dca}
OneExit == {exit}
NoDca == {}
Both == {dca, exit}

\* A DCA order every two minutes, two orders in all.
MCInterval == [s \in Dca |-> 2]
MCMaxRuns == [s \in Dca |-> 2]

\* An exit with a stop loss, a take profit and a trailing stop of 20 percent:
\* after a peak of 13, a price of 10 triggers the trailing stop.
MCExit == [s \in Exits |-> [entry |-> 11, stop |-> 8, take |-> 14, trail |-> 20]]
MCPrices == {10, 11, 13, 14}

MCExpiry == (dca :> 7) @@ (exit :> 4)

\* The manager treats strategies independently: a bound to one of them at a
\* time keeps the instance small and both kinds in it.
OneCreated == \E s \in Strategies : status'[s] = "NONE"

OneAtATime == AutoInit /\ [][AutoNext /\ OneCreated]_autoVars
=============================================================================
