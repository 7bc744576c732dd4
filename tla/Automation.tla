----------------------------- MODULE Automation -----------------------------
(***************************************************************************)
(* The automation manager and the background observation loop of the       *)
(* desktop main process: durable DCA and EXIT strategies, the proposals    *)
(* they raise, and the timer that evaluates them against fetched prices.   *)
(*                                                                         *)
(* Every method of AutomationManager is synchronous (SQLite), so each is   *)
(* one step.  The only await is the price fetch inside a loop tick, which  *)
(* is why a tick is two steps and why several ticks may be in flight.      *)
(*                                                                         *)
(* One unit of time is one minute: the retry delay, the shortest DCA       *)
(* interval and the EXIT idempotency window are all 60 seconds.            *)
(***************************************************************************)
EXTENDS Integers, FiniteSets

CONSTANTS
    Strategies,     \* strategy ids
    Dca,            \* those of kind "DCA"; the others are of kind "EXIT"
    Interval,       \* intervalSeconds of a DCA strategy, in minutes
    MaxRuns,        \* maximumExecutions of a DCA strategy
    Exit,           \* conditions of an EXIT strategy: entry, stop, take, trail
    Expiry,         \* expiresAt
    MinLead,        \* a new strategy must expire at least this much later
    Prices,         \* prices a provider may report
    HasPositions,   \* whether PositionStrategyManager holds positions
    MaxTicks,       \* bound: loop ticks awaiting prices at the same time
    MaxTime         \* bound: the last minute explored

Exits == Strategies \ Dca
RetryDelay == 1     \* retryDelayMs = 60 000
Null == -1          \* a null timestamp; in Exit, 0 is an absent condition

ASSUME StrategiesAssumption == Dca \subseteq Strategies
ASSUME ScheduleAssumption ==
    /\ Interval \in [Dca -> Nat \ {0}]
    /\ MaxRuns \in [Dca -> Nat \ {0}]
    /\ \A s \in Strategies : Expiry[s] \in Nat
    /\ MinLead \in Nat
ASSUME ExitAssumption ==
    /\ Exit \in [Exits -> [entry : Nat \ {0}, stop : Nat, take : Nat, trail : 0..50]]
    /\ \A s \in Exits : /\ Exit[s].stop < Exit[s].entry
                        /\ Exit[s].take = 0 \/ Exit[s].take > Exit[s].entry
    /\ Prices \subseteq Nat \ {0}
ASSUME BoundAssumption ==
    /\ MaxTicks \in Nat
    /\ MaxTime \in Nat
    /\ HasPositions \in BOOLEAN

VARIABLES
    now,        \* the clock
    status,     \* StrategyStatus; "NONE" before creation
    wake,       \* nextWakeAt
    left,       \* pausedRemainingMs
    runs,       \* completedExecutions
    peak,       \* highestPriceUsd
    proposal,   \* proposal[s][w]: the proposal with idempotency key s:w
    running,    \* DurableBackgroundObservationService.#active
    ticks       \* loop ticks whose price fetch has not returned

strategyVars == <<status, wake, left, runs, peak>>
autoVars == <<now, strategyVars, proposal, running, ticks>>

Windows == 0..MaxTime
StrategyStatus == {"NONE", "ACTIVE", "PAUSED", "AWAITING_APPROVAL", "CANCELLED",
                   "EXPIRED", "EMERGENCY_STOPPED"}
ProposalStatus == {"NONE", "AWAITING_APPROVAL", "REJECTED", "CONSUMED"}

AutoTypeOK ==
    /\ now \in 0..MaxTime
    /\ status \in [Strategies -> StrategyStatus]
    /\ wake \in [Strategies -> Nat \cup {Null}]
    /\ left \in [Strategies -> Nat \cup {Null}]
    /\ runs \in [Strategies -> Nat]
    /\ peak \in [Strategies -> Nat]
    /\ proposal \in [Strategies -> [Windows -> ProposalStatus]]
    /\ running \in BOOLEAN
    /\ ticks \in 0..MaxTicks

AutoInit ==
    /\ now = 0
    /\ status = [s \in Strategies |-> "NONE"]
    /\ wake = [s \in Strategies |-> Null]
    /\ left = [s \in Strategies |-> Null]
    /\ runs = [s \in Strategies |-> 0]
    /\ peak = [s \in Strategies |-> 0]
    /\ proposal = [s \in Strategies |-> [w \in Windows |-> "NONE"]]
    /\ running \in BOOLEAN
    /\ ticks = 0

-----------------------------------------------------------------------------
(* Helpers. *)

\* (An operator whose name ends in Mutant is a plausible slip in the code it
\* stands beside; it serves only to see that a property notices the slip.)
Larger(a, b) == IF a >= b THEN a ELSE b

Pending(s) == {w \in Windows : proposal[s][w] = "AWAITING_APPROVAL"}
Consumed(s) == {w \in Windows : proposal[s][w] = "CONSUMED"}

\* The idempotency window a proposal created now would fall in.
WindowAt(s) == IF s \in Dca THEN now \div Interval[s] ELSE now

\* The proposals of s once every pending one is set to REJECTED.
PendingRejectedMutant(s) == proposal[s]
PendingRejected(s) ==
    [w \in Windows |-> IF w \in Pending(s) THEN "REJECTED" ELSE proposal[s][w]]

-----------------------------------------------------------------------------
(* Creating and steering a strategy. *)

\* createDca and createExit under a fresh id.
Create(s) ==
    /\ status[s] = "NONE"
    /\ Expiry[s] > now + MinLead
    /\ status' = [status EXCEPT ![s] = "ACTIVE"]
    /\ wake' = [wake EXCEPT ![s] = IF s \in Dca THEN now + Interval[s] ELSE now]
    /\ peak' = [peak EXCEPT ![s] = IF s \in Dca THEN 0 ELSE Exit[s].entry]
    /\ UNCHANGED <<now, left, runs, proposal, running, ticks>>

\* setStatus "PAUSE".  The panel offers it for an ACTIVE strategy, but what it
\* shows is old: it polls every five seconds and not at all while the vault is
\* locked.  The handler has no guard, so any existing strategy can receive it.
Pause(s) ==
    /\ status[s] # "NONE"
    /\ proposal' = [proposal EXCEPT ![s] = PendingRejected(s)]
    /\ status' = [status EXCEPT ![s] = "PAUSED"]
    /\ left' = [left EXCEPT ![s] = IF wake[s] = Null THEN @ ELSE Larger(0, wake[s] - now)]
    /\ UNCHANGED <<now, wake, runs, peak, running, ticks>>

\* setStatus "RESUME".  The panel offers it for a PAUSED strategy; what it shows
\* is overtaken when the assistant cancels the strategy meanwhile, and then
\* pausedRemainingMs is still the one of the pause.
ResumeOffered(s) ==
    status[s] = "PAUSED" \/ (status[s] = "CANCELLED" /\ left[s] # Null)

Resume(s) ==
    /\ ResumeOffered(s)
    /\ status' = [status EXCEPT ![s] = "ACTIVE"]
    /\ left' = [left EXCEPT ![s] = Null]
    /\ wake' = [wake EXCEPT ![s] = now + Larger(0, left[s])]
    /\ UNCHANGED <<now, runs, peak, proposal, running, ticks>>

\* setStatus "CANCEL", from the panel or from the assistant's tool.
Cancel(s) ==
    /\ status[s] # "NONE"
    /\ proposal' = [proposal EXCEPT ![s] = PendingRejected(s)]
    /\ status' = [status EXCEPT ![s] = "CANCELLED"]
    /\ UNCHANGED <<now, wake, left, runs, peak, running, ticks>>

-----------------------------------------------------------------------------
(* Deciding a proposal. *)

DecideMutant(s, w, outcome) ==
    /\ proposal[s][w] # "NONE"
    /\ proposal' = [proposal EXCEPT ![s][w] = outcome]

Decide(s, w, outcome) ==
    /\ proposal[s][w] = "AWAITING_APPROVAL"
    /\ proposal' = [proposal EXCEPT ![s][w] = outcome]

\* approveProposal: it does not look at the status the strategy has by now.
Approve(s, w) ==
    LET done == s \notin Dca \/ runs[s] + 1 >= MaxRuns[s]
    IN  /\ Decide(s, w, "CONSUMED")
        /\ runs' = [runs EXCEPT ![s] = IF s \in Dca THEN @ + 1 ELSE @]
        /\ status' = [status EXCEPT ![s] = IF done THEN "EXPIRED" ELSE "ACTIVE"]
        /\ wake' = [wake EXCEPT ![s] = IF done THEN Null ELSE now + Interval[s]]
        /\ UNCHANGED <<now, left, peak, running, ticks>>

\* rejectProposal: pausedRemainingMs is left as it is.
Reject(s, w) ==
    /\ Decide(s, w, "REJECTED")
    /\ status' = [status EXCEPT ![s] = IF @ = "AWAITING_APPROVAL" THEN "PAUSED" ELSE @]
    /\ UNCHANGED <<now, wake, left, runs, peak, running, ticks>>

-----------------------------------------------------------------------------
(* Evaluation. *)

Active(s) == status[s] = "ACTIVE"
PastExpiry(s) == Expiry[s] <= now
Due(s) == wake[s] = Null \/ wake[s] <= now
RunsLeft(s) == s \notin Dca \/ runs[s] < MaxRuns[s]

\* The highest price seen, and whether an exit condition is met at a price
\* (percentages are kept exact by comparing hundredths).
Highest(s, price) == Larger(peak[s], price)

Triggered(s, price) ==
    LET c == Exit[s]
        trailing == IF c.trail = 0 THEN 0 ELSE Highest(s, price) * (100 - c.trail)
    IN  \/ 100 * price <= Larger(100 * c.stop, trailing)
        \/ c.take # 0 /\ price >= c.take

\* The branches of the evaluation loop for one strategy; quote[s] = 0 stands for
\* a missing, non-finite or non-positive price.
Expires(s) == Active(s) /\ (PastExpiry(s) \/ (Due(s) /\ ~RunsLeft(s)))
Evaluated(s) == Active(s) /\ ~PastExpiry(s) /\ Due(s) /\ RunsLeft(s)
Priced(s, quote) == s \in Exits /\ Evaluated(s) /\ quote[s] # 0
Proposes(s, quote) ==
    /\ Evaluated(s)
    /\ s \in Dca \/ (quote[s] # 0 /\ Triggered(s, quote[s]))

\* INSERT ... ON CONFLICT(idempotency_key) DO NOTHING.
Inserts(s, w, quote) ==
    /\ Proposes(s, quote)
    /\ w = WindowAt(s)
    /\ proposal[s][w] = "NONE"

\* evaluate(now, prices): each strategy is read and written on its own, so the
\* loop over strategies is one simultaneous assignment.
Evaluate(quote) ==
    /\ status' = [s \in Strategies |->
            IF Expires(s) THEN "EXPIRED"
            ELSE IF Proposes(s, quote) THEN "AWAITING_APPROVAL"
            ELSE status[s]]
    /\ wake' = [s \in Strategies |->
            IF Expires(s) THEN Null
            ELSE IF ~Evaluated(s) THEN wake[s]
            ELSE IF s \in Dca THEN now + Interval[s]
            ELSE IF Proposes(s, quote) THEN Null
            ELSE now + RetryDelay]
    /\ left' = [s \in Strategies |-> IF Evaluated(s) THEN Null ELSE left[s]]
    /\ peak' = [s \in Strategies |->
            IF Priced(s, quote) THEN Highest(s, quote[s]) ELSE peak[s]]
    /\ proposal' = [s \in Strategies |-> [w \in Windows |->
            IF Inserts(s, w, quote) THEN "AWAITING_APPROVAL" ELSE proposal[s][w]]]
    /\ UNCHANGED runs

-----------------------------------------------------------------------------
(* The observation loop. *)

Quotes == [Strategies -> Prices \cup {0}]

\* The timer fires: with something to observe, prices are requested.
TickStart ==
    /\ running
    /\ HasPositions \/ \E s \in Strategies : Active(s)
    /\ ticks < MaxTicks
    /\ ticks' = ticks + 1
    /\ UNCHANGED <<now, strategyVars, proposal, running>>

\* Prices arrive.  #active is not read again, so a stopped loop still evaluates.
TickEvaluate ==
    /\ ticks > 0
    /\ ticks' = ticks - 1
    /\ \E quote \in Quotes : Evaluate(quote)
    /\ UNCHANGED <<now, running>>

\* The fetch fails: deferActiveEvaluations.
TickFail ==
    /\ ticks > 0
    /\ ticks' = ticks - 1
    /\ wake' = [s \in Strategies |-> IF Active(s) THEN now + RetryDelay ELSE wake[s]]
    /\ left' = [s \in Strategies |-> IF Active(s) THEN Null ELSE left[s]]
    /\ UNCHANGED <<now, status, runs, peak, proposal, running>>

\* The fetch fails because the vault is locked: the tick is dropped.
TickLocked ==
    /\ ticks > 0
    /\ ticks' = ticks - 1
    /\ UNCHANGED <<now, strategyVars, proposal, running>>

StartLoop ==
    /\ ~running
    /\ running' = TRUE
    /\ UNCHANGED <<now, strategyVars, proposal, ticks>>

StopLoop ==
    /\ running
    /\ running' = FALSE
    /\ UNCHANGED <<now, strategyVars, proposal, ticks>>

-----------------------------------------------------------------------------
(* Emergency stop, restart, time. *)

StoppedByEmergency(s) == status[s] \in {"ACTIVE", "AWAITING_APPROVAL"}

\* What the engage handler does after its await: AutomationManager.emergencyStop
\* and stopObservationLoop.
EmergencyStop ==
    /\ proposal' = [s \in Strategies |->
            IF StoppedByEmergency(s) THEN PendingRejected(s) ELSE proposal[s]]
    /\ status' = [s \in Strategies |->
            IF StoppedByEmergency(s) THEN "EMERGENCY_STOPPED" ELSE status[s]]
    /\ wake' = [s \in Strategies |-> IF StoppedByEmergency(s) THEN Null ELSE wake[s]]
    /\ left' = [s \in Strategies |-> IF StoppedByEmergency(s) THEN Null ELSE left[s]]
    /\ running' = FALSE
    /\ UNCHANGED <<now, runs, peak, ticks>>

\* The process ends and starts again: strategies and proposals are in SQLite,
\* ticks in flight are gone, and boot starts the loop unless the stop is engaged.
Restart ==
    /\ ticks' = 0
    /\ running' \in BOOLEAN
    /\ UNCHANGED <<now, strategyVars, proposal>>

Clock ==
    /\ now < MaxTime
    /\ now' = now + 1
    /\ UNCHANGED <<strategyVars, proposal, running, ticks>>

AutoNext ==
    \/ \E s \in Strategies : Create(s) \/ Pause(s) \/ Resume(s) \/ Cancel(s)
    \/ \E s \in Strategies, w \in Windows : Approve(s, w) \/ Reject(s, w)
    \/ TickStart \/ TickEvaluate \/ TickFail \/ TickLocked
    \/ StartLoop \/ StopLoop \/ EmergencyStop \/ Restart \/ Clock

AutoSpec == AutoInit /\ [][AutoNext]_autoVars

-----------------------------------------------------------------------------
(* Properties. *)

\* A strategy has at most one undecided proposal, and while it has one its own
\* status says so: the proposal table and the strategy table, written by
\* different statements of eight methods, never disagree on what is pending.
PendingMatchesStrategy ==
    \A s \in Strategies : \A w \in Pending(s) :
        /\ status[s] = "AWAITING_APPROVAL"
        /\ Pending(s) = {w}

\* completedExecutions counts the consumed proposals of a DCA strategy, no more
\* and no less, and never passes maximumExecutions.
RunsCountConsumed ==
    \A s \in Dca : /\ runs[s] = Cardinality(Consumed(s))
                   /\ runs[s] <= MaxRuns[s]

\* A stopped strategy is inert: whatever answer is still
\* on its way (a late price, a late approval), no proposal of it is created or
\* consumed and no execution is counted until the user resumes it.  The same
\* goes for a strategy that is paused or has run out.
StoppedStaysInert ==
    [][\A s \in Strategies :
          status[s] \in {"PAUSED", "CANCELLED", "EXPIRED", "EMERGENCY_STOPPED"} =>
              /\ proposal'[s] = proposal[s]
              /\ runs'[s] = runs[s]]_autoVars

\* The trailing stop only tightens: overlapping ticks may deliver an older
\* price last, and the highest price seen must survive it.
TrailingPeakRatchets ==
    [][\A s \in Strategies : status[s] # "NONE" => peak'[s] >= peak[s]]_autoVars

\* "DCA wake creates one durable approval proposal": a strategy that awaits a
\* decision has a proposal to decide.
AwaitingHasProposal ==
    \A s \in Strategies : status[s] = "AWAITING_APPROVAL" => Pending(s) # {}

\* "A failed RPC/price read is not a trade signal": no failed read brings the
\* next order of an active DCA strategy closer.
PriceFailureIsNoSignal ==
    [][TickFail => \A s \in Dca : Active(s) /\ wake[s] > now => wake'[s] >= wake[s]]_autoVars

=============================================================================
