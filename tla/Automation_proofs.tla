-------------------------- MODULE Automation_proofs --------------------------
(* Theorems about the automation manager and its loop, for every set of       *)
(* strategies, every schedule and every price.                                *)
EXTENDS Automation, FiniteSetTheorems, TLAPS

-----------------------------------------------------------------------------
(* Lemmas about the helpers. *)

\* The idempotency window of the current time is one of the windows.
LEMMA WindowInRange ==
    ASSUME now \in 0..MaxTime, NEW s \in Strategies
    PROVE  WindowAt(s) \in Windows
<1>1. CASE s \notin Dca
  BY <1>1 DEF WindowAt, Windows
<1>2. CASE s \in Dca
  <2> DEFINE i == Interval[s]
             q == now \div i
  <2>1. i \in Nat /\ i # 0 /\ now \in Nat /\ MaxTime \in Nat /\ now <= MaxTime
    BY <1>2, ScheduleAssumption, BoundAssumption
  <2>2. q \in Int /\ now = i * q + (now % i) /\ now % i \in 0..(i - 1)
    BY <2>1
  <2>3. q >= 0 /\ q <= now
    BY <2>1
  <2>4. WindowAt(s) = q
    BY <1>2 DEF WindowAt
  <2> QED BY <2>1, <2>2, <2>3, <2>4 DEF Windows
<1> QED BY <1>1, <1>2

\* The larger of two natural numbers is one of them, and no less than either.
LEMMA LargerProp ==
    ASSUME NEW a \in Nat, NEW b \in Nat
    PROVE  Larger(a, b) \in Nat /\ Larger(a, b) >= a /\ Larger(a, b) >= b
BY DEF Larger

\* Rejecting what is pending leaves nothing pending and keeps every decision.
LEMMA PendingRejectedProp ==
    ASSUME NEW s \in Strategies, proposal[s] \in [Windows -> ProposalStatus]
    PROVE  /\ PendingRejected(s) \in [Windows -> ProposalStatus]
           /\ \A w \in Windows : PendingRejected(s)[w] # "AWAITING_APPROVAL"
           /\ \A w \in Windows :
                 PendingRejected(s)[w] = "CONSUMED" <=> proposal[s][w] = "CONSUMED"
BY DEF PendingRejected, Pending, ProposalStatus

-----------------------------------------------------------------------------
(* Type correctness. *)

LEMMA InitType == AutoInit => AutoTypeOK
BY BoundAssumption DEF AutoInit, AutoTypeOK, StrategyStatus, ProposalStatus, Null

\* Evaluating all strategies at any quote keeps every table well typed.
LEMMA EvaluateType ==
    ASSUME AutoTypeOK, NEW quote \in Quotes, Evaluate(quote)
    PROVE  /\ status' \in [Strategies -> StrategyStatus]
           /\ wake' \in [Strategies -> Nat \cup {Null}]
           /\ left' \in [Strategies -> Nat \cup {Null}]
           /\ peak' \in [Strategies -> Nat]
           /\ proposal' \in [Strategies -> [Windows -> ProposalStatus]]
<1>1. status' \in [Strategies -> StrategyStatus]
  BY DEF Evaluate, AutoTypeOK, StrategyStatus
<1>2. wake' \in [Strategies -> Nat \cup {Null}]
  <2>1. now \in Nat /\ \A s \in Dca : now + Interval[s] \in Nat
    BY ScheduleAssumption, BoundAssumption DEF AutoTypeOK
  <2>2. now + RetryDelay \in Nat
    BY <2>1 DEF RetryDelay
  <2>3. wake \in [Strategies -> Nat \cup {Null}]
    BY DEF AutoTypeOK
  <2> QED BY <2>1, <2>2, <2>3 DEF Evaluate
<1>3. left' \in [Strategies -> Nat \cup {Null}]
  BY DEF Evaluate, AutoTypeOK
<1>4. peak' \in [Strategies -> Nat]
  <2>1. ASSUME NEW s \in Strategies PROVE Highest(s, quote[s]) \in Nat
    <3>1. quote[s] \in Prices \cup {0}
      BY DEF Quotes
    <3>2. Prices \subseteq Nat
      BY ExitAssumption
    <3>3. peak[s] \in Nat
      BY DEF AutoTypeOK
    <3>4. quote[s] \in Nat
      BY <3>1, <3>2, 0 \in Nat
    <3> QED BY <3>3, <3>4, LargerProp DEF Highest
  <2> QED BY <2>1 DEF Evaluate, AutoTypeOK
<1>5. proposal' \in [Strategies -> [Windows -> ProposalStatus]]
  BY DEF Evaluate, AutoTypeOK, ProposalStatus
<1> QED BY <1>1, <1>2, <1>3, <1>4, <1>5

LEMMA StepType == AutoTypeOK /\ [AutoNext]_autoVars => AutoTypeOK'
<1> SUFFICES ASSUME AutoTypeOK, [AutoNext]_autoVars PROVE AutoTypeOK'
  OBVIOUS
<1> USE DEF AutoTypeOK
<1>0. now \in Nat /\ MaxTime \in Nat
  BY BoundAssumption
<1>1. ASSUME NEW s \in Strategies, Create(s) PROVE AutoTypeOK'
  <2>1. s \in Dca => now + Interval[s] \in Nat
    BY <1>0, ScheduleAssumption
  <2>2. s \notin Dca => Exit[s].entry \in Nat
    BY ExitAssumption DEF Exits
  <2> QED BY <1>0, <1>1, <2>1, <2>2 DEF Create, StrategyStatus
<1>2. ASSUME NEW s \in Strategies, Pause(s) PROVE AutoTypeOK'
  <2>1. PendingRejected(s) \in [Windows -> ProposalStatus]
    BY PendingRejectedProp
  <2>2. wake[s] # Null => Larger(0, wake[s] - now) \in Nat
    <3>1. wake[s] # Null => wake[s] \in Nat
      OBVIOUS
    <3> QED BY <1>0, <3>1 DEF Larger
  <2> QED BY <1>2, <2>1, <2>2 DEF Pause, StrategyStatus
<1>3. ASSUME NEW s \in Strategies, Resume(s) PROVE AutoTypeOK'
  <2>1. now + Larger(0, left[s]) \in Nat
    BY <1>0 DEF Larger, Null
  <2> QED BY <1>3, <2>1 DEF Resume, StrategyStatus
<1>4. ASSUME NEW s \in Strategies, Cancel(s) PROVE AutoTypeOK'
  <2>1. PendingRejected(s) \in [Windows -> ProposalStatus]
    BY PendingRejectedProp
  <2> QED BY <1>4, <2>1 DEF Cancel, StrategyStatus
<1>5. ASSUME NEW s \in Strategies, NEW w \in Windows, Approve(s, w) PROVE AutoTypeOK'
  <2>1. s \in Dca => now + Interval[s] \in Nat
    BY <1>0, ScheduleAssumption
  <2> QED BY <1>5, <2>1 DEF Approve, Decide, StrategyStatus, ProposalStatus
<1>6. ASSUME NEW s \in Strategies, NEW w \in Windows, Reject(s, w) PROVE AutoTypeOK'
  BY <1>6 DEF Reject, Decide, StrategyStatus, ProposalStatus
<1>7. CASE TickEvaluate
  <2>1. PICK quote \in Quotes : Evaluate(quote)
    BY <1>7 DEF TickEvaluate
  <2>2. UNCHANGED runs
    BY <2>1 DEF Evaluate
  <2>3. ticks' \in 0..MaxTicks
    BY <1>7, BoundAssumption DEF TickEvaluate
  <2> QED BY <1>7, <2>1, <2>2, <2>3, EvaluateType DEF TickEvaluate
<1>8. CASE TickFail
  <2>1. now + RetryDelay \in Nat
    BY <1>0 DEF RetryDelay
  <2> QED BY <1>8, <2>1, BoundAssumption DEF TickFail
<1>9. CASE TickStart \/ TickLocked \/ Restart
  BY <1>9, BoundAssumption DEF TickStart, TickLocked, Restart, strategyVars
<1>10. CASE StartLoop \/ StopLoop
  BY <1>10 DEF StartLoop, StopLoop, strategyVars
<1>11. CASE EmergencyStop
  <2>1. \A s \in Strategies : PendingRejected(s) \in [Windows -> ProposalStatus]
    BY PendingRejectedProp
  <2> QED BY <1>11, <2>1 DEF EmergencyStop, StrategyStatus
<1>12. CASE Clock
  BY <1>0, <1>12 DEF Clock, strategyVars
<1>13. CASE UNCHANGED autoVars
  BY <1>13 DEF autoVars, strategyVars
<1> QED BY <1>1, <1>2, <1>3, <1>4, <1>5, <1>6, <1>7, <1>8, <1>9, <1>10, <1>11,
           <1>12, <1>13 DEF AutoNext

\* Every reachable state is well typed: no timestamp, countdown or counter
\* leaves its range, whatever is paused, resumed or deferred in between.
THEOREM AutoTypeCorrect == AutoSpec => []AutoTypeOK
BY InitType, StepType, PTL DEF AutoSpec

-----------------------------------------------------------------------------
(* What is pending. *)

PendingInv == AutoTypeOK /\ PendingMatchesStrategy

\* PendingMatchesStrategy without the set of pending windows.
LEMMA PendingPointwise ==
    PendingMatchesStrategy <=>
        \A s \in Strategies, w \in Windows : proposal[s][w] = "AWAITING_APPROVAL" =>
            /\ status[s] = "AWAITING_APPROVAL"
            /\ \A v \in Windows : proposal[s][v] = "AWAITING_APPROVAL" => v = w
BY DEF PendingMatchesStrategy, Pending

\* A step that pauses, cancels or stops strategies: those it touches have
\* nothing pending afterwards, the others stay as they are.
LEMMA PendingCleared ==
    ASSUME PendingInv, NEW T \in SUBSET Strategies,
           \A s \in T, w \in Windows : proposal'[s][w] # "AWAITING_APPROVAL",
           \A s \in Strategies \ T : proposal'[s] = proposal[s] /\ status'[s] = status[s]
    PROVE  PendingMatchesStrategy'
BY DEF PendingInv, PendingMatchesStrategy, Pending

\* A strategy whose status is not AWAITING_APPROVAL has nothing pending.
LEMMA NothingPending ==
    ASSUME PendingInv, NEW s \in Strategies, status[s] # "AWAITING_APPROVAL",
           NEW w \in Windows
    PROVE  proposal[s][w] # "AWAITING_APPROVAL"
BY DEF PendingInv, PendingMatchesStrategy, Pending

LEMMA EvaluatePending ==
    ASSUME PendingInv, NEW quote \in Quotes, Evaluate(quote)
    PROVE  PendingMatchesStrategy'
<1> SUFFICES ASSUME NEW s \in Strategies, NEW w \in Windows,
                    proposal'[s][w] = "AWAITING_APPROVAL"
             PROVE  /\ status'[s] = "AWAITING_APPROVAL"
                    /\ \A v \in Windows : proposal'[s][v] = "AWAITING_APPROVAL" => v = w
  BY DEF PendingMatchesStrategy, Pending
<1>1. \A v \in Windows : proposal'[s][v] =
         IF Inserts(s, v, quote) THEN "AWAITING_APPROVAL" ELSE proposal[s][v]
  BY DEF Evaluate
<1>2. status'[s] = IF Expires(s) THEN "EXPIRED"
                   ELSE IF Proposes(s, quote) THEN "AWAITING_APPROVAL" ELSE status[s]
  BY DEF Evaluate
<1>3. CASE Inserts(s, w, quote)
  <2>1. Active(s) /\ ~Expires(s) /\ Proposes(s, quote) /\ w = WindowAt(s)
    BY <1>3 DEF Inserts, Proposes, Evaluated, Expires
  <2>2. \A v \in Windows : proposal[s][v] # "AWAITING_APPROVAL"
    BY <2>1, NothingPending DEF Active
  <2> QED BY <1>1, <1>2, <2>1, <2>2 DEF Inserts
<1>4. CASE ~Inserts(s, w, quote)
  <2>1. proposal[s][w] = "AWAITING_APPROVAL"
    BY <1>1, <1>4
  <2>2. /\ status[s] = "AWAITING_APPROVAL"
        /\ \A v \in Windows : proposal[s][v] = "AWAITING_APPROVAL" => v = w
    BY <2>1, PendingPointwise DEF PendingInv
  <2>3. ~Expires(s) /\ ~Proposes(s, quote)
    BY <2>2 DEF Expires, Proposes, Evaluated, Active
  <2> QED BY <1>1, <1>2, <2>2, <2>3 DEF Inserts
<1> QED BY <1>3, <1>4

LEMMA StepPending == PendingInv /\ [AutoNext]_autoVars => PendingMatchesStrategy'
<1> SUFFICES ASSUME PendingInv, [AutoNext]_autoVars PROVE PendingMatchesStrategy'
  OBVIOUS
<1>0. /\ status \in [Strategies -> StrategyStatus]
      /\ proposal \in [Strategies -> [Windows -> ProposalStatus]]
  BY DEF PendingInv, AutoTypeOK
<1>1. ASSUME NEW s \in Strategies, Create(s) \/ Resume(s) PROVE PendingMatchesStrategy'
  <2>1. status[s] # "AWAITING_APPROVAL" /\ proposal' = proposal
    BY <1>1 DEF Create, Resume, ResumeOffered
  <2>2. \A w \in Windows : proposal'[s][w] # "AWAITING_APPROVAL"
    BY <2>1, NothingPending
  <2>3. \A t \in Strategies \ {s} : proposal'[t] = proposal[t] /\ status'[t] = status[t]
    BY <1>0, <1>1, <2>1 DEF Create, Resume
  <2> QED BY <2>2, <2>3, PendingCleared, {s} \in SUBSET Strategies
<1>2. ASSUME NEW s \in Strategies, Pause(s) \/ Cancel(s) PROVE PendingMatchesStrategy'
  <2>1. proposal'[s] = PendingRejected(s)
    BY <1>0, <1>2 DEF Pause, Cancel
  <2>2. \A w \in Windows : proposal'[s][w] # "AWAITING_APPROVAL"
    BY <1>0, <2>1, PendingRejectedProp
  <2>3. \A t \in Strategies \ {s} : proposal'[t] = proposal[t] /\ status'[t] = status[t]
    BY <1>0, <1>2 DEF Pause, Cancel
  <2> QED BY <2>2, <2>3, PendingCleared, {s} \in SUBSET Strategies
<1>3. ASSUME NEW s \in Strategies, NEW w \in Windows, Approve(s, w) \/ Reject(s, w)
      PROVE  PendingMatchesStrategy'
  <2>1. proposal[s][w] = "AWAITING_APPROVAL"
    BY <1>3 DEF Approve, Reject, Decide
  <2>2. \A v \in Windows \ {w} : proposal[s][v] # "AWAITING_APPROVAL"
    BY <2>1, PendingPointwise DEF PendingInv
  <2>3. \A v \in Windows : proposal'[s][v] # "AWAITING_APPROVAL"
    BY <1>0, <1>3, <2>2 DEF Approve, Reject, Decide
  <2>4. \A t \in Strategies \ {s} : proposal'[t] = proposal[t] /\ status'[t] = status[t]
    BY <1>0, <1>3 DEF Approve, Reject, Decide
  <2> QED BY <2>3, <2>4, PendingCleared, {s} \in SUBSET Strategies
<1>4. CASE TickEvaluate
  BY <1>4, EvaluatePending DEF TickEvaluate
<1>5. CASE EmergencyStop
  <2> DEFINE T == {s \in Strategies : StoppedByEmergency(s)}
  <2>1. \A s \in T, w \in Windows : proposal'[s][w] # "AWAITING_APPROVAL"
    BY <1>0, <1>5, PendingRejectedProp DEF EmergencyStop
  <2>2. \A s \in Strategies \ T : proposal'[s] = proposal[s] /\ status'[s] = status[s]
    BY <1>5 DEF EmergencyStop
  <2> QED BY <2>1, <2>2, PendingCleared
<1>6. CASE UNCHANGED <<status, proposal>>
  BY <1>6 DEF PendingInv, PendingMatchesStrategy, Pending
<1>7. TickStart \/ TickFail \/ TickLocked \/ StartLoop \/ StopLoop \/ Restart \/ Clock
      \/ UNCHANGED autoVars => UNCHANGED <<status, proposal>>
  BY DEF TickStart, TickFail, TickLocked, StartLoop, StopLoop, Restart, Clock,
         autoVars, strategyVars
<1> QED BY <1>1, <1>2, <1>3, <1>4, <1>5, <1>6, <1>7 DEF AutoNext

LEMMA InitPending == AutoInit => PendingMatchesStrategy
BY DEF AutoInit, PendingMatchesStrategy, Pending

\* The strategy table and the proposal table always agree on what is pending,
\* for every number of strategies and whatever order the events arrive in.
THEOREM PendingCorrect == AutoSpec => []PendingMatchesStrategy
<1>1. AutoInit => PendingInv
  BY InitType, InitPending DEF PendingInv
<1>2. PendingInv /\ [AutoNext]_autoVars => PendingInv'
  BY StepType, StepPending DEF PendingInv
<1>3. PendingInv => PendingMatchesStrategy
  BY DEF PendingInv
<1> QED BY <1>1, <1>2, <1>3, PTL DEF AutoSpec

-----------------------------------------------------------------------------
(* Stopped strategies. *)

\* A step leaves the proposals and the counter of a stopped strategy alone.
LEMMA StepInert ==
    ASSUME PendingInv, [AutoNext]_autoVars, NEW s \in Strategies,
           status[s] \in {"PAUSED", "CANCELLED", "EXPIRED", "EMERGENCY_STOPPED"}
    PROVE  proposal'[s] = proposal[s] /\ runs'[s] = runs[s]
<1>0. /\ proposal \in [Strategies -> [Windows -> ProposalStatus]]
      /\ runs \in [Strategies -> Nat]
      /\ \A w \in Windows : proposal[s][w] # "AWAITING_APPROVAL"
  BY NothingPending DEF PendingInv, AutoTypeOK
<1>1. PendingRejected(s) = proposal[s]
  BY <1>0 DEF PendingRejected, Pending
<1>2. ASSUME NEW t \in Strategies, Create(t) \/ Resume(t)
      PROVE  proposal'[s] = proposal[s] /\ runs'[s] = runs[s]
  BY <1>2 DEF Create, Resume
<1>3. ASSUME NEW t \in Strategies, Pause(t) \/ Cancel(t)
      PROVE  proposal'[s] = proposal[s] /\ runs'[s] = runs[s]
  BY <1>0, <1>1, <1>3 DEF Pause, Cancel
<1>4. ASSUME NEW t \in Strategies, NEW w \in Windows, Approve(t, w) \/ Reject(t, w)
      PROVE  proposal'[s] = proposal[s] /\ runs'[s] = runs[s]
  <2>1. t # s
    BY <1>0, <1>4 DEF Approve, Reject, Decide
  <2> QED BY <1>0, <1>4, <2>1 DEF Approve, Reject, Decide
<1>5. CASE TickEvaluate
  <2>1. PICK quote \in Quotes : Evaluate(quote)
    BY <1>5 DEF TickEvaluate
  <2>2. \A w \in Windows : ~Inserts(s, w, quote)
    BY DEF Inserts, Proposes, Evaluated, Active
  <2>3. proposal'[s] = [w \in Windows |-> proposal[s][w]]
    BY <2>1, <2>2 DEF Evaluate
  <2>4. UNCHANGED runs
    BY <2>1 DEF Evaluate
  <2> QED BY <1>0, <2>3, <2>4
<1>6. CASE EmergencyStop
  BY <1>6 DEF EmergencyStop, StoppedByEmergency
<1>7. CASE UNCHANGED <<proposal, runs>>
  BY <1>7
<1>8. TickStart \/ TickFail \/ TickLocked \/ StartLoop \/ StopLoop \/ Restart \/ Clock
      \/ UNCHANGED autoVars => UNCHANGED <<proposal, runs>>
  BY DEF TickStart, TickFail, TickLocked, StartLoop, StopLoop, Restart, Clock,
         autoVars, strategyVars
<1> QED BY <1>2, <1>3, <1>4, <1>5, <1>6, <1>7, <1>8 DEF AutoNext

\* No late answer creates, decides or counts anything for a strategy that is
\* paused, cancelled, run out or stopped.
THEOREM InertCorrect == AutoSpec => StoppedStaysInert
<1>1. AutoInit => PendingInv
  BY InitType, InitPending DEF PendingInv
<1>2. PendingInv /\ [AutoNext]_autoVars => PendingInv'
  BY StepType, StepPending DEF PendingInv
<1>3. PendingInv /\ [AutoNext]_autoVars =>
        [\A s \in Strategies :
           status[s] \in {"PAUSED", "CANCELLED", "EXPIRED", "EMERGENCY_STOPPED"} =>
              /\ proposal'[s] = proposal[s]
              /\ runs'[s] = runs[s]]_autoVars
  BY StepInert
<1> QED BY <1>1, <1>2, <1>3, PTL DEF AutoSpec, StoppedStaysInert

-----------------------------------------------------------------------------
(* The highest price seen. *)

LEMMA StepPeak ==
    ASSUME AutoTypeOK, [AutoNext]_autoVars, NEW s \in Strategies, status[s] # "NONE"
    PROVE  peak'[s] >= peak[s]
<1>0. peak \in [Strategies -> Nat] /\ peak[s] \in Nat
  BY DEF AutoTypeOK
<1>1. ASSUME NEW t \in Strategies, Create(t) PROVE peak'[s] >= peak[s]
  <2>1. t # s
    BY <1>1 DEF Create
  <2> QED BY <1>0, <1>1, <2>1 DEF Create
<1>2. CASE TickEvaluate
  <2>1. PICK quote \in Quotes : Evaluate(quote)
    BY <1>2 DEF TickEvaluate
  <2>2. peak'[s] = IF Priced(s, quote) THEN Highest(s, quote[s]) ELSE peak[s]
    BY <2>1 DEF Evaluate
  <2>3. quote[s] \in Prices \cup {0}
    BY DEF Quotes
  <2>4. Prices \subseteq Nat
    BY ExitAssumption
  <2>5. quote[s] \in Nat
    BY <2>3, <2>4, 0 \in Nat
  <2>6. Highest(s, quote[s]) >= peak[s]
    BY <1>0, <2>5, LargerProp DEF Highest
  <2> QED BY <1>0, <2>2, <2>6
<1>3. CASE UNCHANGED peak
  BY <1>0, <1>3
<1>4. ASSUME NEW t \in Strategies, Pause(t) \/ Resume(t) \/ Cancel(t) PROVE UNCHANGED peak
  BY <1>4 DEF Pause, Resume, Cancel
<1>5. ASSUME NEW t \in Strategies, NEW w \in Windows, Approve(t, w) \/ Reject(t, w)
      PROVE  UNCHANGED peak
  BY <1>5 DEF Approve, Reject
<1>6. TickStart \/ TickFail \/ TickLocked \/ StartLoop \/ StopLoop \/ EmergencyStop
      \/ Restart \/ Clock \/ UNCHANGED autoVars => UNCHANGED peak
  BY DEF TickStart, TickFail, TickLocked, StartLoop, StopLoop, EmergencyStop, Restart,
         Clock, autoVars, strategyVars
<1> QED BY <1>1, <1>2, <1>3, <1>4, <1>5, <1>6 DEF AutoNext

\* Whatever order prices arrive in, the trailing stop never loosens.
THEOREM PeakCorrect == AutoSpec => TrailingPeakRatchets
<1>1. AutoTypeOK /\ [AutoNext]_autoVars =>
        [\A s \in Strategies : status[s] # "NONE" => peak'[s] >= peak[s]]_autoVars
  BY StepPeak
<1> QED BY <1>1, AutoTypeCorrect, PTL DEF AutoSpec, TrailingPeakRatchets

-----------------------------------------------------------------------------
(* Counting executions. *)

\* The count is exact, and an order is pending only while one is left: without
\* the second conjunct an approval could carry the count past the maximum.
RunsInv ==
    /\ RunsCountConsumed
    /\ \A s \in Dca : Pending(s) # {} => runs[s] < MaxRuns[s]

CountInv == PendingInv /\ RunsInv

LEMMA ConsumedFinite ==
    ASSUME NEW s \in Strategies
    PROVE  IsFiniteSet(Consumed(s))
<1>1. IsFiniteSet(Windows)
  BY FS_Interval, BoundAssumption DEF Windows
<1>2. Consumed(s) \subseteq Windows
  BY DEF Consumed
<1> QED BY <1>1, <1>2, FS_Subset

\* A step that consumes nothing, counts nothing and lets nothing become pending
\* without an order left.
LEMMA CountKept ==
    ASSUME RunsInv, NEW s \in Dca,
           runs'[s] = runs[s],
           \A w \in Windows : proposal'[s][w] = "CONSUMED" <=> proposal[s][w] = "CONSUMED",
           \A w \in Windows : proposal'[s][w] = "AWAITING_APPROVAL" =>
              proposal[s][w] = "AWAITING_APPROVAL" \/ runs[s] < MaxRuns[s]
    PROVE  /\ runs'[s] = Cardinality(Consumed(s)')
           /\ runs'[s] <= MaxRuns[s]
           /\ Pending(s)' # {} => runs'[s] < MaxRuns[s]
<1>1. Consumed(s)' = Consumed(s)
  BY DEF Consumed
<1>2. Pending(s)' # {} => Pending(s) # {} \/ runs[s] < MaxRuns[s]
  BY DEF Pending
<1> QED BY <1>1, <1>2 DEF RunsInv, RunsCountConsumed

LEMMA ApproveCounts ==
    ASSUME CountInv, NEW s \in Dca, NEW w \in Windows, Approve(s, w)
    PROVE  /\ runs'[s] = Cardinality(Consumed(s)')
           /\ runs'[s] <= MaxRuns[s]
           /\ Pending(s)' = {}
<1>0. /\ s \in Strategies
      /\ proposal \in [Strategies -> [Windows -> ProposalStatus]]
      /\ runs \in [Strategies -> Nat] /\ MaxRuns[s] \in Nat
  BY StrategiesAssumption, ScheduleAssumption DEF CountInv, PendingInv, AutoTypeOK
<1>1. proposal[s][w] = "AWAITING_APPROVAL"
  BY DEF Approve, Decide
<1>2. runs'[s] = runs[s] + 1
  BY <1>0 DEF Approve
<1>3. Consumed(s)' = Consumed(s) \cup {w}
  BY <1>0 DEF Approve, Decide, Consumed
<1>4. w \notin Consumed(s)
  BY <1>1 DEF Consumed
<1>5. Cardinality(Consumed(s)') = Cardinality(Consumed(s)) + 1
  BY <1>0, <1>3, <1>4, ConsumedFinite, FS_AddElement
<1>6. runs[s] = Cardinality(Consumed(s)) /\ runs[s] < MaxRuns[s]
  BY <1>1 DEF CountInv, RunsInv, RunsCountConsumed, Pending
<1>7. Pending(s)' = {}
  <2>1. \A v \in Windows \ {w} : proposal[s][v] # "AWAITING_APPROVAL"
    BY <1>0, <1>1, PendingPointwise DEF CountInv, PendingInv
  <2> QED BY <1>0, <2>1 DEF Approve, Decide, Pending
<1> QED BY <1>0, <1>2, <1>5, <1>6, <1>7

LEMMA StepCounts == CountInv /\ [AutoNext]_autoVars => RunsInv'
<1> SUFFICES ASSUME CountInv, [AutoNext]_autoVars, NEW s \in Dca
             PROVE  /\ runs'[s] = Cardinality(Consumed(s)')
                    /\ runs'[s] <= MaxRuns[s]
                    /\ Pending(s)' # {} => runs'[s] < MaxRuns[s]
  BY DEF RunsInv, RunsCountConsumed
<1> DEFINE Same == /\ runs'[s] = runs[s]
                   /\ \A w \in Windows :
                        proposal'[s][w] = "CONSUMED" <=> proposal[s][w] = "CONSUMED"
                   /\ \A w \in Windows : proposal'[s][w] = "AWAITING_APPROVAL" =>
                        proposal[s][w] = "AWAITING_APPROVAL" \/ runs[s] < MaxRuns[s]
<1>0. /\ s \in Strategies
      /\ proposal \in [Strategies -> [Windows -> ProposalStatus]]
      /\ runs \in [Strategies -> Nat]
  BY StrategiesAssumption DEF CountInv, PendingInv, AutoTypeOK
<1>1. ASSUME NEW t \in Strategies, Create(t) \/ Resume(t) PROVE Same
  <2>1. UNCHANGED <<proposal, runs>>
    BY <1>1 DEF Create, Resume
  <2> QED BY <2>1
<1>2. ASSUME NEW t \in Strategies, Pause(t) \/ Cancel(t) PROVE Same
  <2>1. proposal'[s] = IF t = s THEN PendingRejected(s) ELSE proposal[s]
    BY <1>0, <1>2 DEF Pause, Cancel
  <2>2. UNCHANGED runs
    BY <1>2 DEF Pause, Cancel
  <2>3. proposal[s] \in [Windows -> ProposalStatus]
    BY <1>0
  <2> QED BY <2>1, <2>2, <2>3, PendingRejectedProp
<1>3. ASSUME NEW t \in Strategies, NEW w \in Windows, Approve(t, w), t # s PROVE Same
  <2>1. proposal[t][w] = "AWAITING_APPROVAL" /\ runs'[s] = runs[s]
    BY <1>0, <1>3 DEF Approve, Decide
  <2>2. \A v \in Windows : proposal'[s][v] =
           IF t = s /\ v = w THEN "REJECTED" ELSE proposal[s][v]
    BY <1>0, <1>3 DEF Approve, Decide
  <2> QED BY <2>1, <2>2
<1>4. ASSUME NEW t \in Strategies, NEW w \in Windows, Reject(t, w) PROVE Same
  <2>1. proposal[t][w] = "AWAITING_APPROVAL" /\ runs'[s] = runs[s]
    BY <1>0, <1>4 DEF Reject, Decide
  <2>2. \A v \in Windows : proposal'[s][v] =
           IF t = s /\ v = w THEN "REJECTED" ELSE proposal[s][v]
    BY <1>0, <1>4 DEF Reject, Decide
  <2> QED BY <2>1, <2>2
<1>5. ASSUME TickEvaluate PROVE Same
  <2>1. PICK quote \in Quotes : Evaluate(quote)
    BY <1>5 DEF TickEvaluate
  <2>2. \A w \in Windows : Inserts(s, w, quote) =>
            proposal[s][w] = "NONE" /\ runs[s] < MaxRuns[s]
    BY DEF Inserts, Proposes, Evaluated, RunsLeft
  <2>3. \A w \in Windows : proposal'[s][w] =
            IF Inserts(s, w, quote) THEN "AWAITING_APPROVAL" ELSE proposal[s][w]
    BY <1>0, <2>1 DEF Evaluate
  <2>4. UNCHANGED runs
    BY <2>1 DEF Evaluate
  <2> QED BY <2>2, <2>3, <2>4
<1>6. ASSUME EmergencyStop PROVE Same
  <2>1. proposal'[s] = IF StoppedByEmergency(s) THEN PendingRejected(s) ELSE proposal[s]
    BY <1>0, <1>6 DEF EmergencyStop
  <2>2. UNCHANGED runs
    BY <1>6 DEF EmergencyStop
  <2>3. proposal[s] \in [Windows -> ProposalStatus]
    BY <1>0
  <2>4. /\ \A w \in Windows : PendingRejected(s)[w] # "AWAITING_APPROVAL"
        /\ \A w \in Windows :
              PendingRejected(s)[w] = "CONSUMED" <=> proposal[s][w] = "CONSUMED"
    BY <1>0, <2>3, PendingRejectedProp
  <2> QED BY <2>1, <2>2, <2>4
<1>7. ASSUME UNCHANGED <<proposal, runs>> PROVE Same
  BY <1>7
<1>8. TickStart \/ TickFail \/ TickLocked \/ StartLoop \/ StopLoop \/ Restart \/ Clock
      \/ UNCHANGED autoVars => UNCHANGED <<proposal, runs>>
  BY DEF TickStart, TickFail, TickLocked, StartLoop, StopLoop, Restart, Clock,
         autoVars, strategyVars
<1>9. (\E w \in Windows : Approve(s, w)) \/ Same
  BY <1>0, <1>1, <1>2, <1>3, <1>4, <1>5, <1>6, <1>7, <1>8 DEF AutoNext
<1>10. CASE Same
  BY <1>10, CountKept DEF CountInv
<1>11. ASSUME NEW w \in Windows, Approve(s, w)
       PROVE  /\ runs'[s] = Cardinality(Consumed(s)')
              /\ runs'[s] <= MaxRuns[s]
              /\ Pending(s)' = {}
  BY <1>11, ApproveCounts
<1> QED BY <1>9, <1>10, <1>11

LEMMA InitCounts == AutoInit => RunsInv
<1> SUFFICES ASSUME AutoInit, NEW s \in Dca
             PROVE  /\ runs[s] = Cardinality(Consumed(s))
                    /\ runs[s] <= MaxRuns[s]
                    /\ Pending(s) = {}
  BY DEF RunsInv, RunsCountConsumed
<1>1. s \in Strategies /\ runs[s] = 0 /\ MaxRuns[s] \in Nat
  BY StrategiesAssumption, ScheduleAssumption DEF AutoInit
<1>2. Consumed(s) = {} /\ Pending(s) = {}
  BY <1>1 DEF AutoInit, Consumed, Pending
<1> QED BY <1>1, <1>2, FS_EmptySet

\* completedExecutions is the number of consumed proposals and never exceeds
\* maximumExecutions, for every DCA strategy and every schedule.
THEOREM RunsCorrect == AutoSpec => []RunsCountConsumed
<1>1. AutoInit => CountInv
  BY InitType, InitPending, InitCounts DEF CountInv, PendingInv
<1>2. CountInv /\ [AutoNext]_autoVars => CountInv'
  BY StepType, StepPending, StepCounts DEF CountInv, PendingInv
<1>3. CountInv => RunsCountConsumed
  BY DEF CountInv, RunsInv
<1> QED BY <1>1, <1>2, <1>3, PTL DEF AutoSpec

=============================================================================
