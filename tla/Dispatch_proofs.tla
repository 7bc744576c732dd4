--------------------------- MODULE Dispatch_proofs ---------------------------
(* Theorems about the dispatcher of Full Access proposals, for every set of    *)
(* strategies and sessions, on both chains, and for every interleaving of the  *)
(* tasks with the user, the loop, the emergency stop and a restart.            *)
EXTENDS Dispatch, Automation_proofs

-----------------------------------------------------------------------------
(* The dispatcher implements the automation manager. *)

\* Deciding a proposal, or finding it decided, is a step of the manager.
LEMMA SettleRefines ==
    ASSUME NEW s \in Strategies, NEW w \in Windows, NEW confirmed, Settle(s, w, confirmed)
    PROVE  [AutoNext]_autoVars
<1>1. CASE Approve(s, w) \/ Reject(s, w)
  BY <1>1 DEF AutoNext
<1>2. CASE UNCHANGED autoVars
  BY <1>2
<1> QED BY <1>1, <1>2 DEF Settle

LEMMA TaskRefines ==
    ASSUME NEW s \in Strategies, NEW w \in Windows, TaskStep(s, w)
    PROVE  [AutoNext]_autoVars
<1>1. CASE Record(s, w) \/ TurnDown(s, w) \/ HandleFailure(s, w)
  <2>1. (\E confirmed \in BOOLEAN : Settle(s, w, confirmed)) \/ UNCHANGED autoVars
    BY <1>1 DEF Record, TurnDown, HandleFailure, At
  <2> QED BY <2>1, SettleRefines
<1>2. CASE ~(Record(s, w) \/ TurnDown(s, w) \/ HandleFailure(s, w))
  <2>1. UNCHANGED autoVars
    BY <1>2 DEF TaskStep, ReadSession, Prepare, PrepareFails, BroadcastApproval,
           BroadcastSwap, ExecuteFails, ReceiptConfirms, ReceiptUnconfirmed, SaveFails
  <2> QED BY <2>1
<1> QED BY <1>1, <1>2

LEMMA StepRefines == AutoTypeOK /\ [Next]_vars => [AutoNext]_autoVars
<1> SUFFICES ASSUME AutoTypeOK, [Next]_vars PROVE [AutoNext]_autoVars
  OBVIOUS
<1>1. ASSUME NEW s \in Strategies, NEW w \in Windows, TaskStep(s, w)
      PROVE  [AutoNext]_autoVars
  BY <1>1, TaskRefines
<1>2. ASSUME NEW s \in Strategies, NEW w \in Windows, ManualApprove(s, w) \/ ManualReject(s, w)
      PROVE  [AutoNext]_autoVars
  BY <1>2 DEF ManualApprove, ManualReject, AutoNext
<1>3. CASE Tick \/ LoopStep \/ SwitchLoop \/ Steer
  BY <1>3 DEF Tick, LoopStep, SwitchLoop, Steer, AutoNext
<1>4. CASE Lock
  <2>1. CASE running' = running
    BY <1>4, <2>1 DEF Lock, autoVars
  <2>2. CASE running' # running
    <3>1. running /\ running' = FALSE
      BY <1>4, <2>2 DEF Lock, AutoTypeOK
    <3> QED BY <1>4, <3>1 DEF Lock, StopLoop, AutoNext
  <2> QED BY <2>1, <2>2
<1>5. CASE EngageRest \/ Reboot \/ Minute
  BY <1>5 DEF EngageRest, Reboot, Minute, AutoNext
<1>6. CASE Unlock \/ BeginSigning \/ ClearSigning \/ Engage \/ EngageFails \/ Release
           \/ UNCHANGED vars
  BY <1>6 DEF Unlock, BeginSigning, ClearSigning, Engage, EngageFails, Release, vars
<1>7. ASSUME NEW s \in Strategies, DeleteSession(s) \/ RestoreSession(s)
      PROVE  [AutoNext]_autoVars
  BY <1>7 DEF DeleteSession, RestoreSession
<1> QED BY <1>1, <1>2, <1>3, <1>4, <1>5, <1>6, <1>7 DEF Next

\* What the dispatcher, the user, the stop and a restart do to strategies and
\* proposals together is always a behaviour of the automation manager.
THEOREM DispatchRefines == Spec => AutoSpec
<1>1. DispatchInit => AutoInit
  BY DEF DispatchInit
<1>2. AutoInit => AutoTypeOK
  BY InitType
<1>3. AutoTypeOK /\ [AutoNext]_autoVars => AutoTypeOK'
  BY StepType
<1> QED BY <1>1, <1>2, <1>3, StepRefines, PTL DEF Spec, AutoSpec

\* The two tables agree on what is pending while tasks are in flight.
THEOREM DispatchPending == Spec => []PendingMatchesStrategy
BY DispatchRefines, PendingCorrect, PTL

-----------------------------------------------------------------------------
(* What a task has done, by where it is. *)

Early == {"none", "session", "preparing", "executing", "rejecting"}

\* Before the swap is sent nothing has landed and at most one approval is out;
\* without the part about earlier steps, "at most one swap" is not inductive.
Sound(t) ==
    /\ t \in Tasks
    /\ t.swaps <= 1
    /\ t.landed => t.swaps = 1
    /\ t.pc \in Early => t.swaps = 0 /\ t.approvals <= 1
    /\ t.pc = "confirmed" => t.landed

\* Every task is sound, and a consumed proposal of a Full Access strategy whose
\* session was never deleted has a landed swap.
TaskInv ==
    /\ AutoTypeOK
    /\ task \in [Strategies -> [Windows -> Tasks]]
    /\ \A s \in Strategies, w \in Windows : Sound(task[s][w])
    /\ session \in [Strategies -> Records]
    /\ \A s \in Full, w \in Windows :
          proposal[s][w] = "CONSUMED" /\ session[s] = "kept" => task[s][w].landed

\* Only the task that moves changes.
OnlyMoves(s, w) ==
    /\ task' \in [Strategies -> [Windows -> Tasks]]
    /\ \A t \in Strategies, v \in Windows :
          t # s \/ v # w => task'[t][v] = task[t][v]

\* The records a step of a task writes.
LEMMA RecordStep ==
    ASSUME NEW t \in Tasks, NEW pc \in Steps
    PROVE  [t EXCEPT !.pc = pc] \in Tasks
BY DEF Tasks

LEMMA RecordApproval ==
    ASSUME NEW t, Sound(t), t.swaps = 0, t.approvals <= 1, NEW pc \in {"sent", "failing"}
    PROVE  LET u == [t EXCEPT !.pc = pc, !.approvals = @ + 1]
           IN  Sound(u) /\ u.landed = t.landed
<1> DEFINE n == t.approvals + 1
           u == [t EXCEPT !.pc = pc, !.approvals = n]
<1>1. t \in Tasks /\ ~t.landed
  BY DEF Sound
<1>2. n \in 0..2 /\ pc \in Steps
  BY <1>1 DEF Tasks, Steps
<1> HIDE DEF n
<1>3. u \in Tasks /\ u.pc = pc /\ u.swaps = 0 /\ u.landed = t.landed
  <2>1. t.swaps = 0 /\ n \in 0..2
    BY <1>2
  <2> QED BY <1>1, <1>2, <2>1 DEF Tasks
<1> HIDE DEF u
<1>4. u.pc \notin Early /\ u.pc # "confirmed"
  BY <1>3 DEF Early
<1>5. u.swaps <= 1 /\ ~u.landed
  BY <1>1, <1>3
<1>6. Sound(u) /\ u.landed = t.landed
  BY <1>3, <1>4, <1>5 DEF Sound
<1> QED BY <1>6 DEF n, u

LEMMA RecordSwap ==
    ASSUME NEW t, Sound(t), t.swaps = 0, NEW pc \in {"sent", "failing"}, NEW lands \in BOOLEAN
    PROVE  LET u == [t EXCEPT !.pc = pc, !.swaps = @ + 1, !.landed = @ \/ lands]
           IN  Sound(u) /\ (t.landed => u.landed)
<1> DEFINE n == t.swaps + 1
           l == t.landed \/ lands
           u == [t EXCEPT !.pc = pc, !.swaps = n, !.landed = l]
<1>1. t \in Tasks
  BY DEF Sound
<1>2. n = 1 /\ n \in 0..2 /\ pc \in Steps
  BY DEF Steps
<1>3. l \in BOOLEAN /\ (t.landed => l)
  OBVIOUS
<1> HIDE DEF n, l
<1>4. u \in Tasks /\ u.pc = pc /\ u.swaps = 1 /\ u.landed = l
  <2>1. n = 1 /\ n \in 0..2 /\ l \in BOOLEAN
    BY <1>2, <1>3
  <2> QED BY <1>1, <1>2, <2>1 DEF Tasks
<1> HIDE DEF u
<1>5. u.pc \notin Early /\ u.pc # "confirmed"
  BY <1>4 DEF Early
<1>6. Sound(u) /\ (t.landed => u.landed)
  BY <1>3, <1>4, <1>5 DEF Sound
<1> QED BY <1>6 DEF n, l, u

LEMMA GotoMoves ==
    ASSUME task \in [Strategies -> [Windows -> Tasks]],
           NEW s \in Strategies, NEW w \in Windows, NEW pc \in Steps, Goto(s, w, pc)
    PROVE  OnlyMoves(s, w) /\ task'[s][w] = [task[s][w] EXCEPT !.pc = pc]
<1>1. task' = [task EXCEPT ![s][w].pc = pc]
  BY DEF Goto
<1>2. [task[s][w] EXCEPT !.pc = pc] \in Tasks
  BY RecordStep
<1> QED BY <1>1, <1>2 DEF OnlyMoves

LEMMA SoundStep ==
    ASSUME TaskInv, NEW s \in Strategies, NEW w \in Windows, TaskStep(s, w)
    PROVE  /\ OnlyMoves(s, w)
           /\ Sound(task'[s][w])
           /\ task[s][w].landed => task'[s][w].landed
<1>0. /\ task \in [Strategies -> [Windows -> Tasks]]
      /\ Sound(task[s][w])
  BY DEF TaskInv
<1> DEFINE Good == /\ OnlyMoves(s, w)
                   /\ Sound(task'[s][w])
                   /\ task[s][w].landed => task'[s][w].landed
<1>1. ASSUME NEW pc \in Steps, Goto(s, w, pc),
             pc \in Early => task[s][w].swaps = 0 /\ task[s][w].approvals <= 1,
             pc = "confirmed" => task[s][w].landed
      PROVE  Good
  <2>1. OnlyMoves(s, w) /\ task'[s][w] = [task[s][w] EXCEPT !.pc = pc]
    BY <1>0, <1>1, GotoMoves
  <2>2. Sound(task'[s][w]) /\ task'[s][w].landed = task[s][w].landed
    BY <1>0, <1>1, <2>1 DEF Sound, Tasks
  <2> QED BY <2>1, <2>2
<1>2. ASSUME task[s][w].pc \in Early, NEW pc \in Steps, Goto(s, w, pc), pc # "confirmed"
      PROVE  Good
  BY <1>0, <1>1, <1>2 DEF Sound
<1>3. CASE ReadSession(s, w) \/ Prepare(s, w) \/ PrepareFails(s, w) \/ ExecuteFails(s, w)
           \/ TurnDown(s, w)
  <2>1. task[s][w].pc \in Early
    BY <1>3 DEF ReadSession, Prepare, PrepareFails, ExecuteFails, TurnDown, At, Early
  <2>2. \E pc \in Steps \ {"confirmed"} : Goto(s, w, pc)
    BY <1>3 DEF ReadSession, Prepare, PrepareFails, ExecuteFails, TurnDown, Steps
  <2> QED BY <1>2, <2>1, <2>2
<1>4. CASE ReceiptUnconfirmed(s, w) \/ SaveFails(s, w) \/ Record(s, w) \/ HandleFailure(s, w)
  <2>1. \E pc \in {"unconfirmed", "failing", "done"} : Goto(s, w, pc)
    BY <1>4 DEF ReceiptUnconfirmed, SaveFails, Record, HandleFailure
  <2> QED BY <1>1, <2>1 DEF Steps, Early
<1>5. CASE ReceiptConfirms(s, w)
  <2>1. CASE RunsAgain(s, w)
    <3>1. task[s][w].swaps = 0 /\ task[s][w].approvals = 1
      BY <1>0, <2>1 DEF RunsAgain, SwapSent, Sound, Tasks
    <3>2. Goto(s, w, "preparing")
      BY <1>5, <2>1 DEF ReceiptConfirms
    <3> QED BY <1>1, <3>1, <3>2 DEF Steps
  <2>2. CASE ~RunsAgain(s, w) /\ SwapSent(s, w)
    <3>1. task[s][w].landed /\ Goto(s, w, "confirmed")
      BY <1>5, <2>2 DEF ReceiptConfirms, MayConfirm
    <3> QED BY <1>1, <3>1 DEF Steps, Early
  <2>3. CASE ~RunsAgain(s, w) /\ ~SwapSent(s, w)
    <3>1. Goto(s, w, "unconfirmed")
      BY <1>5, <2>3 DEF ReceiptConfirms
    <3> QED BY <1>1, <3>1 DEF Steps, Early
  <2> QED BY <2>1, <2>2, <2>3
<1>6. CASE BroadcastApproval(s, w)
  <2>1. PICK next \in {"sent", "failing"} :
           task' = [task EXCEPT ![s][w].pc = next, ![s][w].approvals = @ + 1]
    BY <1>6 DEF BroadcastApproval
  <2> DEFINE u == [task[s][w] EXCEPT !.pc = next, !.approvals = @ + 1]
  <2>2. task[s][w].swaps = 0 /\ task[s][w].approvals <= 1
    BY <1>0, <1>6 DEF BroadcastApproval, At, Sound, Early
  <2>3. Sound(u) /\ u.landed = task[s][w].landed
    BY <1>0, <2>2, RecordApproval
  <2>4. u \in Tasks /\ task'[s][w] = u
    BY <1>0, <2>1, <2>3 DEF Sound
  <2>5. OnlyMoves(s, w)
    BY <1>0, <2>1, <2>4, ZenonT(60) DEF OnlyMoves
  <2> QED BY <2>3, <2>4, <2>5
<1>7. CASE BroadcastSwap(s, w)
  <2>1. PICK next \in {"sent", "failing"}, lands \in BOOLEAN :
           task' = [task EXCEPT ![s][w].pc = next, ![s][w].swaps = @ + 1,
                                ![s][w].landed = @ \/ lands]
    BY <1>7 DEF BroadcastSwap
  <2> DEFINE u == [task[s][w] EXCEPT !.pc = next, !.swaps = @ + 1, !.landed = @ \/ lands]
  <2>2. task[s][w].swaps = 0 /\ task[s][w].approvals <= 1
    BY <1>0, <1>7 DEF BroadcastSwap, At, Sound, Early
  <2>3. Sound(u) /\ (task[s][w].landed => u.landed)
    BY <1>0, <2>2, RecordSwap
  <2>4. u \in Tasks /\ task'[s][w] = u
    BY <1>0, <2>1, <2>3 DEF Sound
  <2>5. task' = [task EXCEPT ![s][w] = u]
    BY <1>0, <2>1
  <2>6. OnlyMoves(s, w)
    <3> HIDE DEF u
    <3> QED BY <1>0, <2>4, <2>5 DEF OnlyMoves
  <2> QED BY <2>3, <2>4, <2>6
<1> QED BY <1>3, <1>4, <1>5, <1>6, <1>7 DEF TaskStep

\* Only an approval consumes, and the dispatcher approves only what its task
\* has confirmed.
LEMMA SettleConsumes ==
    ASSUME AutoTypeOK, NEW s \in Strategies, NEW w \in Windows, NEW confirmed,
           Settle(s, w, confirmed), NEW t \in Strategies, NEW v \in Windows,
           proposal'[t][v] = "CONSUMED"
    PROVE  proposal[t][v] = "CONSUMED" \/ (confirmed /\ t = s /\ v = w)
BY DEF Settle, Approve, Reject, Decide, AutoTypeOK, autoVars

LEMMA TaskConsumes ==
    ASSUME TaskInv, NEW s \in Strategies, NEW w \in Windows, TaskStep(s, w),
           NEW t \in Strategies, NEW v \in Windows, proposal'[t][v] = "CONSUMED"
    PROVE  proposal[t][v] = "CONSUMED" \/ (task[s][w].landed /\ t = s /\ v = w)
<1>1. CASE UNCHANGED autoVars
  BY <1>1 DEF autoVars
<1>2. CASE \E confirmed \in BOOLEAN : Settle(s, w, confirmed) /\ (confirmed => At(s, w, "confirmed"))
  <2>1. At(s, w, "confirmed") => task[s][w].landed
    BY DEF At, TaskInv, Sound
  <2> QED BY <1>2, <2>1, SettleConsumes DEF TaskInv
<1>3. CASE Record(s, w) \/ TurnDown(s, w) \/ HandleFailure(s, w)
  <2>1. At(s, w, "confirmed") \in BOOLEAN
    BY DEF At
  <2> QED BY <1>1, <1>2, <1>3, <2>1 DEF Record, TurnDown, HandleFailure
<1>4. CASE ~(Record(s, w) \/ TurnDown(s, w) \/ HandleFailure(s, w))
  <2>1. UNCHANGED autoVars
    BY <1>4 DEF TaskStep, ReadSession, Prepare, PrepareFails, BroadcastApproval,
           BroadcastSwap, ExecuteFails, ReceiptConfirms, ReceiptUnconfirmed, SaveFails
  <2> QED BY <1>1, <2>1
<1> QED BY <1>3, <1>4

\* Steering, stopping and rejecting consume nothing.
LEMMA NothingConsumed ==
    ASSUME AutoTypeOK,
           Steer \/ EngageRest \/ (\E s \in Strategies, w \in Windows : ManualReject(s, w))
             \/ UNCHANGED proposal,
           NEW t \in Strategies, NEW v \in Windows, proposal'[t][v] = "CONSUMED"
    PROVE  proposal[t][v] = "CONSUMED"
<1>0. /\ proposal \in [Strategies -> [Windows -> ProposalStatus]]
      /\ PendingRejected(t)[v] = "CONSUMED" <=> proposal[t][v] = "CONSUMED"
  BY PendingRejectedProp DEF AutoTypeOK
<1>1. ASSUME NEW s \in Strategies, Create(s) \/ Resume(s) PROVE proposal[t][v] = "CONSUMED"
  BY <1>1 DEF Create, Resume
<1>2. ASSUME NEW s \in Strategies, Pause(s) \/ Cancel(s) PROVE proposal[t][v] = "CONSUMED"
  <2>1. proposal'[t] = IF t = s THEN PendingRejected(t) ELSE proposal[t]
    BY <1>0, <1>2 DEF Pause, Cancel
  <2> QED BY <1>0, <2>1
<1>3. CASE EmergencyStop
  <2>1. proposal'[t] = IF StoppedByEmergency(t) THEN PendingRejected(t) ELSE proposal[t]
    BY <1>3 DEF EmergencyStop
  <2> QED BY <1>0, <2>1
<1>4. ASSUME NEW s \in Strategies, NEW w \in Windows, Reject(s, w)
      PROVE  proposal[t][v] = "CONSUMED"
  BY <1>0, <1>4 DEF Reject, Decide
<1>5. CASE UNCHANGED proposal
  BY <1>5
<1> QED BY <1>1, <1>2, <1>3, <1>4, <1>5 DEF Steer, EngageRest, ManualReject

\* A record that is written back is not one that was kept.
StaysKept(s) == session'[s] = "kept" => session[s] = "kept"

LEMMA WrittenKeeps ==
    ASSUME session \in [Strategies -> Records], NEW s \in Strategies,
           session' \in {session, Restored(s)}
    PROVE  session' \in [Strategies -> Records] /\ \A t \in Strategies : StaysKept(t)
BY DEF Restored, Records, StaysKept

LEMMA KeptStep ==
    ASSUME TaskInv, [Next]_vars
    PROVE  session' \in [Strategies -> Records] /\ \A s \in Strategies : StaysKept(s)
<1>0. session \in [Strategies -> Records]
  BY DEF TaskInv
<1>1. ASSUME NEW s \in Strategies, NEW w \in Windows, TaskStep(s, w)
      PROVE  session' \in {session, Restored(s)}
  BY <1>1 DEF TaskStep, ReadSession, Prepare, PrepareFails, BroadcastApproval, BroadcastSwap,
         ExecuteFails, ReceiptConfirms, ReceiptUnconfirmed, SaveFails, Record, TurnDown,
         HandleFailure, WrittenBack, authority
<1>2. ASSUME NEW s \in Strategies, RestoreSession(s) PROVE session' \in {session, Restored(s)}
  BY <1>2 DEF RestoreSession
<1>3. ASSUME NEW s \in Strategies, DeleteSession(s)
      PROVE  session' \in [Strategies -> Records] /\ \A t \in Strategies : StaysKept(t)
  BY <1>0, <1>3 DEF DeleteSession, Records, StaysKept
<1>4. (\E s \in Strategies, w \in Windows : ManualApprove(s, w) \/ ManualReject(s, w))
        \/ Tick \/ LoopStep \/ SwitchLoop \/ Steer \/ Unlock \/ Lock \/ BeginSigning
        \/ ClearSigning \/ Engage \/ EngageRest \/ EngageFails \/ Release \/ Reboot \/ Minute
        \/ UNCHANGED vars
      => UNCHANGED session
  BY DEF ManualApprove, ManualReject, Tick, LoopStep, SwitchLoop, Steer, Unlock, Lock,
         BeginSigning, ClearSigning, Engage, EngageRest, EngageFails, Release, Reboot, Minute,
         vars, authority
<1>5. CASE UNCHANGED session
  BY <1>0, <1>5 DEF StaysKept
<1> QED BY <1>0, <1>1, <1>2, <1>3, <1>4, <1>5, WrittenKeeps DEF Next

LEMMA StepTask == TaskInv /\ [Next]_vars => TaskInv'
<1> SUFFICES ASSUME TaskInv, [Next]_vars PROVE TaskInv'
  OBVIOUS
<1> DEFINE Tables == /\ task' \in [Strategies -> [Windows -> Tasks]]
                     /\ \A s \in Strategies, w \in Windows : Sound(task'[s][w])
           Landed == \A s \in Full, w \in Windows :
                        proposal'[s][w] = "CONSUMED" /\ session'[s] = "kept"
                          => task'[s][w].landed
<1>0. /\ AutoTypeOK
      /\ task \in [Strategies -> [Windows -> Tasks]]
      /\ \A s \in Strategies, w \in Windows : Sound(task[s][w])
      /\ \A s \in Full, w \in Windows :
            proposal[s][w] = "CONSUMED" /\ session[s] = "kept" => task[s][w].landed
      /\ Full \subseteq Strategies
  BY SessionsAssumption DEF TaskInv
<1>k. session' \in [Strategies -> Records] /\ \A s \in Strategies : StaysKept(s)
  BY KeptStep
<1>1. AutoTypeOK'
  BY <1>0, StepRefines, StepType
<1>2. ASSUME NEW s \in Strategies, NEW w \in Windows, TaskStep(s, w) PROVE Tables /\ Landed
  <2>1. /\ OnlyMoves(s, w)
        /\ Sound(task'[s][w])
        /\ task[s][w].landed => task'[s][w].landed
    BY <1>2, SoundStep
  <2>2. Tables
    BY <1>0, <2>1 DEF OnlyMoves
  <2>3. ASSUME NEW t \in Full, NEW v \in Windows, proposal'[t][v] = "CONSUMED",
               session'[t] = "kept"
        PROVE  task'[t][v].landed
    <3>1. proposal[t][v] = "CONSUMED" \/ (task[s][w].landed /\ t = s /\ v = w)
      BY <1>0, <1>2, <2>3, TaskConsumes
    <3>2. task[t][v].landed
      BY <1>0, <1>k, <2>3, <3>1 DEF StaysKept
    <3> QED BY <1>0, <2>1, <3>2 DEF OnlyMoves
  <2> QED BY <2>2, <2>3
<1>3. ASSUME NEW s \in Strategies, NEW w \in Windows, ManualApprove(s, w)
      PROVE  Tables /\ Landed
  <2>1. UNCHANGED <<task, session>> /\ (s \notin Full \/ session[s] = "deleted")
    BY <1>3 DEF ManualApprove, Exists, authority
  <2>2. \A t \in Full : session[t] = "kept" => proposal'[t] = proposal[t]
    BY <1>0, <1>3, <2>1 DEF ManualApprove, Approve, Decide, AutoTypeOK
  <2> QED BY <1>0, <2>1, <2>2
<1>4. ASSUME Tick PROVE Tables /\ Landed
  <2>1. PICK quote \in Quotes : Evaluate(quote)
    BY <1>4 DEF Tick, TickEvaluate
  <2>2. Sound(Fresh("session"))
    BY DEF Sound, Fresh, Tasks, Steps, Early
  <2>3. \A s \in Strategies, w \in Windows :
           \/ task'[s][w] = task[s][w]
           \/ task'[s][w] = Fresh("session") /\ proposal[s][w] = "NONE"
    BY <1>4 DEF Tick
  <2>4. \A s \in Strategies, w \in Windows : Sound(task'[s][w])
    BY <1>0, <2>2, <2>3
  <2>5. task' \in [Strategies -> [Windows -> Tasks]]
    BY <1>4, <2>4 DEF Tick, Sound
  <2>6. \A s \in Strategies, w \in Windows :
           proposal'[s][w] = "CONSUMED" => proposal[s][w] = "CONSUMED"
    BY <2>1 DEF Evaluate
  <2>7. Landed
    BY <1>0, <1>k, <2>3, <2>6 DEF StaysKept
  <2> QED BY <2>4, <2>5, <2>7
<1>5. ASSUME Reboot PROVE Tables /\ Landed
  <2>1. \A s \in Strategies, w \in Windows :
           task'[s][w] = IF InFlight(s, w) THEN [task[s][w] EXCEPT !.pc = "lost"] ELSE task[s][w]
    BY <1>5 DEF Reboot
  <2>2. \A s \in Strategies, w \in Windows :
           Sound(task'[s][w]) /\ task'[s][w].landed = task[s][w].landed
    <3>1. \A t : Sound(t) => LET u == [t EXCEPT !.pc = "lost"]
                             IN  Sound(u) /\ u.landed = t.landed
      BY DEF Sound, Tasks, Steps, Early
    <3> QED BY <1>0, <2>1, <3>1
  <2>3. task' \in [Strategies -> [Windows -> Tasks]]
    BY <1>5, <2>2 DEF Reboot, Sound
  <2>4. UNCHANGED proposal
    BY <1>5 DEF Reboot, Restart
  <2> QED BY <1>0, <1>k, <2>2, <2>3, <2>4 DEF StaysKept
<1>6. ASSUME UNCHANGED task,
             Steer \/ EngageRest \/ (\E s \in Strategies, w \in Windows : ManualReject(s, w))
               \/ UNCHANGED proposal
      PROVE  Tables /\ Landed
  BY <1>0, <1>k, <1>6, NothingConsumed DEF StaysKept
<1>7. Steer \/ EngageRest \/ (\E s \in Strategies, w \in Windows : ManualReject(s, w))
        => UNCHANGED task
  BY DEF Steer, EngageRest, ManualReject
<1>8. LoopStep \/ SwitchLoop \/ Unlock \/ Lock \/ BeginSigning \/ ClearSigning \/ Engage
        \/ EngageFails \/ Release \/ Minute \/ UNCHANGED vars
        \/ (\E s \in Strategies : DeleteSession(s) \/ RestoreSession(s))
      => UNCHANGED <<task, proposal>>
  BY DEF DeleteSession, RestoreSession, LoopStep, TickStart, TickFail, TickLocked, SwitchLoop, StartLoop, StopLoop,
         Unlock, Lock, BeginSigning, ClearSigning, Engage, EngageFails, Release, Minute,
         Clock, vars, autoVars
<1>9. Tables /\ Landed
  BY <1>2, <1>3, <1>4, <1>5, <1>6, <1>7, <1>8 DEF Next
<1> QED BY <1>1, <1>k, <1>9 DEF TaskInv

LEMMA InitTask == DispatchInit => TaskInv
<1> SUFFICES ASSUME DispatchInit PROVE TaskInv
  OBVIOUS
<1>1. AutoTypeOK
  BY InitType DEF DispatchInit
<1>2. \A s \in Strategies, w \in Windows : task[s][w] = Fresh("none")
  BY DEF DispatchInit
<1>3. Sound(Fresh("none")) /\ Fresh("none") \in Tasks
  BY DEF Sound, Fresh, Tasks, Steps, Early
<1>4. task \in [Strategies -> [Windows -> Tasks]]
  BY <1>3 DEF DispatchInit
<1>5. \A s \in Full, w \in Windows : proposal[s][w] # "CONSUMED"
  BY SessionsAssumption DEF DispatchInit, AutoInit
<1>6. session \in [Strategies -> Records]
  BY DEF DispatchInit, Records
<1> QED BY <1>1, <1>2, <1>3, <1>4, <1>5, <1>6 DEF TaskInv

LEMMA TaskInvariant == Spec => []TaskInv
BY InitTask, StepTask, PTL DEF Spec

\* A proposal never puts a second swap on the wire, on either chain, whatever
\* its receipts say and however often the process restarts.
THEOREM OneSwap == Spec => []AtMostOneSwap
<1>1. TaskInv => AtMostOneSwap
  BY DEF TaskInv, AtMostOneSwap, Sound
<1> QED BY <1>1, TaskInvariant, PTL

\* A Full Access proposal is consumed only on a swap that landed and was
\* confirmed, whoever else decides proposals meanwhile, as long as its session
\* is not deleted.
THEOREM ConsumedCorrect == Spec => []ConsumedMeansLanded
<1>1. TaskInv => ConsumedMeansLanded
  BY SessionsAssumption DEF TaskInv, ConsumedMeansLanded, Sound, Consumed
<1> QED BY <1>1, TaskInvariant, PTL

-----------------------------------------------------------------------------
(* Types, the emergency stop, restricted sessions. *)

\* A task's own step takes it to preparation only under a Full Access session,
\* and to execution only past the recheck.
LEMMA TaskGates ==
    ASSUME TaskInv, NEW s \in Strategies, NEW w \in Windows, TaskStep(s, w)
    PROVE  /\ task'[s][w].pc = "executing" => ~estop
           /\ At(s, w, "session") => /\ task'[s][w].swaps = 0 /\ task'[s][w].approvals = task[s][w].approvals
                                     /\ s \in Full \/ task'[s][w].pc \in {"failing", "done", "orphaned"}
           /\ At(s, w, "failing") => /\ task'[s][w].pc = "done"
                                     /\ task'[s][w].swaps = task[s][w].swaps
                                     /\ task'[s][w].approvals = task[s][w].approvals
           /\ ~At(s, w, "none") /\ ~At(s, w, "done") /\ ~At(s, w, "orphaned")
           /\ ~At(s, w, "lost")
<1>0. /\ task \in [Strategies -> [Windows -> Tasks]]
      /\ task[s][w] \in Tasks
      /\ Sound(task[s][w])
  BY DEF TaskInv
<1>1. ASSUME NEW pc \in Steps, Goto(s, w, pc)
      PROVE  /\ task'[s][w].pc = pc
             /\ task'[s][w].swaps = task[s][w].swaps
             /\ task'[s][w].approvals = task[s][w].approvals
  <2>1. task'[s][w] = [task[s][w] EXCEPT !.pc = pc]
    BY <1>0, <1>1, GotoMoves
  <2> QED BY <1>0, <2>1 DEF Tasks
<1>2. CASE ReadSession(s, w)
  <2>1. At(s, w, "session") /\ task[s][w].swaps = 0
    BY <1>0, <1>2 DEF ReadSession, At, Sound, Early
  <2>2. \/ s \in Full /\ Goto(s, w, "preparing")
        \/ \E pc \in {"failing", "done", "orphaned"} : Goto(s, w, pc)
        \/ s \in Full /\ Goto(s, w, "rejecting")
    BY <1>2 DEF ReadSession
  <2> QED BY <1>1, <2>1, <2>2 DEF At, Steps
<1>3. CASE Prepare(s, w)
  <2>1. At(s, w, "preparing")
    BY <1>3 DEF Prepare
  <2>2. \/ Recheck(s, w) /\ Goto(s, w, "executing")
        \/ \E pc \in {"failing", "rejecting"} : Goto(s, w, pc)
    BY <1>3 DEF Prepare
  <2> QED BY <1>1, <2>1, <2>2 DEF At, Recheck, Steps
<1>4. CASE HandleFailure(s, w)
  <2>1. At(s, w, "failing") /\ Goto(s, w, "done")
    BY <1>4 DEF HandleFailure
  <2> QED BY <1>1, <2>1 DEF At, Steps
<1>5. CASE PrepareFails(s, w) \/ ExecuteFails(s, w) \/ ReceiptConfirms(s, w)
           \/ ReceiptUnconfirmed(s, w) \/ SaveFails(s, w) \/ Record(s, w) \/ TurnDown(s, w)
  <2>1. task[s][w].pc \in {"preparing", "executing", "sent", "confirmed", "unconfirmed",
                           "rejecting"}
    BY <1>5 DEF PrepareFails, ExecuteFails, ReceiptConfirms, ReceiptUnconfirmed, SaveFails,
           Record, TurnDown, At
  <2>2. \E pc \in Steps \ {"executing"} : Goto(s, w, pc)
    BY <1>5 DEF PrepareFails, ExecuteFails, ReceiptConfirms, ReceiptUnconfirmed, SaveFails,
           Record, TurnDown, Steps
  <2> QED BY <1>1, <2>1, <2>2 DEF At
<1>6. CASE BroadcastApproval(s, w) \/ BroadcastSwap(s, w)
  <2>1. At(s, w, "executing")
    BY <1>6 DEF BroadcastApproval, BroadcastSwap
  <2>2. task'[s][w].pc \in {"sent", "failing"}
    <3>1. CASE BroadcastApproval(s, w)
      BY <1>0, <3>1 DEF BroadcastApproval, Tasks
    <3>2. CASE BroadcastSwap(s, w)
      <4>1. PICK next \in {"sent", "failing"}, lands \in BOOLEAN :
               task' = [task EXCEPT ![s][w].pc = next, ![s][w].swaps = @ + 1,
                                    ![s][w].landed = @ \/ lands]
        BY <3>2 DEF BroadcastSwap
      <4>2. task'[s][w] = [task[s][w] EXCEPT !.pc = next, !.swaps = @ + 1,
                                             !.landed = @ \/ lands]
        BY <1>0, <4>1
      <4> QED BY <1>0, <4>2 DEF Tasks
    <3> QED BY <1>6, <3>1, <3>2
  <2> QED BY <2>1, <2>2 DEF At
<1> QED BY <1>2, <1>3, <1>4, <1>5, <1>6 DEF TaskStep

\* The record of one task after a step: it moved, started, was lost or stayed.
LEMMA OneRecord ==
    ASSUME TaskInv, [Next]_vars, NEW s \in Strategies, NEW w \in Windows
    PROVE  \/ TaskStep(s, w)
           \/ task'[s][w] = task[s][w]
           \/ task'[s][w] = Fresh("session")
           \/ /\ task'[s][w].pc = "lost"
              /\ task'[s][w].swaps = task[s][w].swaps
              /\ task'[s][w].approvals = task[s][w].approvals
<1>0. task \in [Strategies -> [Windows -> Tasks]] /\ task[s][w] \in Tasks
  BY DEF TaskInv
<1>1. ASSUME NEW t \in Strategies, NEW v \in Windows, TaskStep(t, v), t # s \/ v # w
      PROVE  task'[s][w] = task[s][w]
  BY <1>1, SoundStep DEF OnlyMoves
<1>2. ASSUME Tick PROVE task'[s][w] = task[s][w] \/ task'[s][w] = Fresh("session")
  BY <1>2 DEF Tick
<1>3. ASSUME Reboot, task'[s][w] # task[s][w]
      PROVE  /\ task'[s][w].pc = "lost"
             /\ task'[s][w].swaps = task[s][w].swaps
             /\ task'[s][w].approvals = task[s][w].approvals
  <2>1. task'[s][w] = [task[s][w] EXCEPT !.pc = "lost"]
    BY <1>3 DEF Reboot
  <2> QED BY <1>0, <2>1 DEF Tasks
<1>4. (\E t \in Strategies, v \in Windows : ManualApprove(t, v) \/ ManualReject(t, v))
        \/ LoopStep \/ SwitchLoop \/ Steer \/ Unlock \/ Lock \/ BeginSigning \/ ClearSigning
        \/ Engage \/ EngageRest \/ EngageFails \/ Release \/ Minute \/ UNCHANGED vars
        \/ (\E t \in Strategies : DeleteSession(t) \/ RestoreSession(t))
      => UNCHANGED task
  BY DEF DeleteSession, RestoreSession, ManualApprove, ManualReject, LoopStep, SwitchLoop, Steer, Unlock, Lock,
         BeginSigning, ClearSigning, Engage, EngageRest, EngageFails, Release, Minute, vars
<1> QED BY <1>1, <1>2, <1>3, <1>4 DEF Next

\* While the emergency stop is engaged no task passes on to signing, at the
\* first attempt or at the one after an approval.
THEOREM StopCorrect == Spec => StopFreezesExecution
<1>1. ASSUME TaskInv, [Next]_vars, NEW s \in Strategies, NEW w \in Windows,
             estop, task'[s][w].pc = "executing"
      PROVE  At(s, w, "executing")
  BY <1>1, OneRecord, TaskGates DEF At, Fresh
<1>2. TaskInv /\ [Next]_vars =>
        [\A s \in Strategies, w \in Windows :
           estop /\ task'[s][w].pc = "executing" => At(s, w, "executing")]_vars
  BY <1>1
<1> QED BY <1>2, TaskInvariant, PTL DEF Spec, StopFreezesExecution

\* A task of a restricted session never gets past the session it reads.
RestrictedInv ==
    \A s \in Strategies \ Full, w \in Windows :
        /\ task[s][w].pc \in {"none", "session", "failing", "done", "orphaned", "lost"}
        /\ task[s][w].swaps = 0 /\ task[s][w].approvals = 0

\* However the one signing flag of the process is switched by other sessions,
\* the strategies of a restricted session broadcast nothing.
THEOREM RestrictedCorrect == Spec => []RestrictedNeverBroadcasts
<1>1. DispatchInit => RestrictedInv
  BY DEF DispatchInit, RestrictedInv, Fresh
<1>2. ASSUME TaskInv, RestrictedInv, [Next]_vars,
             NEW s \in Strategies \ Full, NEW w \in Windows
      PROVE  /\ task'[s][w].pc \in {"none", "session", "failing", "done", "orphaned", "lost"}
             /\ task'[s][w].swaps = 0 /\ task'[s][w].approvals = 0
  <2>1. /\ task[s][w].pc \in {"none", "session", "failing", "done", "orphaned", "lost"}
        /\ task[s][w].swaps = 0 /\ task[s][w].approvals = 0
    BY <1>2 DEF RestrictedInv
  <2>2. CASE TaskStep(s, w)
    BY <1>2, <2>1, <2>2, TaskGates DEF At
  <2>3. CASE ~TaskStep(s, w)
    BY <1>2, <2>1, <2>3, OneRecord DEF Fresh
  <2> QED BY <2>2, <2>3
<1>3. TaskInv /\ RestrictedInv /\ [Next]_vars => RestrictedInv'
  BY <1>2 DEF RestrictedInv
<1>4. RestrictedInv => RestrictedNeverBroadcasts
  BY DEF RestrictedInv, RestrictedNeverBroadcasts
<1> QED BY <1>1, <1>3, <1>4, TaskInvariant, PTL DEF Spec

\* Every reachable state of the dispatcher is well typed; in particular no task
\* counts more than two approvals.
THEOREM DispatchTypeCorrect == Spec => []DispatchTypeOK
<1> DEFINE Flags == /\ estop \in BOOLEAN /\ engaging \in BOOLEAN
                    /\ unlocked \in BOOLEAN /\ signing \in BOOLEAN
<1>1. DispatchInit => Flags
  BY DEF DispatchInit
<1>2. ASSUME Flags, [Next]_vars PROVE Flags'
  <2>1. ASSUME NEW s \in Strategies, NEW w \in Windows,
               TaskStep(s, w) \/ ManualApprove(s, w) \/ ManualReject(s, w)
        PROVE  UNCHANGED flags
    BY <2>1 DEF authority, TaskStep, ReadSession, Prepare, PrepareFails, BroadcastApproval,
           BroadcastSwap, ExecuteFails, ReceiptConfirms, ReceiptUnconfirmed, SaveFails,
           Record, TurnDown, HandleFailure, ManualApprove, ManualReject
  <2>2. Tick \/ LoopStep \/ SwitchLoop \/ Steer \/ Minute \/ UNCHANGED vars
          => UNCHANGED flags
    BY DEF authority, Tick, LoopStep, SwitchLoop, Steer, Minute, vars
  <2>3. CASE UNCHANGED flags
    BY <1>2, <2>3 DEF flags
  <2>4. CASE Unlock \/ Lock \/ BeginSigning \/ ClearSigning
    BY <1>2, <2>4 DEF Unlock, Lock, BeginSigning, ClearSigning
  <2>5. CASE Engage \/ EngageRest \/ EngageFails \/ Release \/ Reboot
    BY <1>2, <2>5 DEF Engage, EngageRest, EngageFails, Release, Reboot
  <2>6. ASSUME NEW s \in Strategies, DeleteSession(s) \/ RestoreSession(s) PROVE Flags'
    BY <1>2, <2>6 DEF DeleteSession, RestoreSession
  <2> QED BY <1>2, <2>1, <2>2, <2>3, <2>4, <2>5, <2>6 DEF Next
<1>3. TaskInv /\ Flags => DispatchTypeOK
  BY DEF TaskInv, DispatchTypeOK
<1> QED BY <1>1, <1>2, <1>3, TaskInvariant, PTL DEF Spec

=============================================================================
