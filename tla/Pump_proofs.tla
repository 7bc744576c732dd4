----------------------------- MODULE Pump_proofs -----------------------------
(***************************************************************************)
(* Theorems about the Pump lane, for every set of proposals and            *)
(* transactions and any number of handlers in flight.                      *)
(***************************************************************************)
EXTENDS Pump, TLAPS

-----------------------------------------------------------------------------
(* Types *)

Bearing == {"signing", "signed", "sent", "status", "height", "receipt", "ledger", "confirmed"}
Holding == {"signing", "signed"}

(* A recorded execution is one of a transaction.                           *)
SessionOK(m) ==
  /\ m \in [Previews -> Messages]
  /\ \A p \in Previews : m[p].status # "none" => m[p].exec \in Builds

(* What a handler knows follows from where it is.                          *)
TaskOK(t) ==
  /\ t \in Tasks
  /\ SessionOK(t.copy)
  /\ t.pc \notin {"idle", "answering"} => t.preview \in Previews
  /\ t.pc \in Bearing => t.build \in Builds
  /\ t.pc = "ledger" => t.stamp \in Instants

(* PumpTypeOK is not inductive: that a receipt is stored for a transaction *)
(* and stamped depends on where its handler is and on what the session,    *)
(* or an old copy of it, said of the execution it resumed.                 *)
TypeInv ==
  /\ PumpTypeOK
  /\ SessionOK(message)
  /\ \A s \in Slots : TaskOK(task[s])

(* Executions as recorded in two versions of a session.                    *)
SameExecutions(m, n) ==
  \A p \in Previews : n[p].exec = m[p].exec /\ n[p].status = m[p].status

LEMMA SimulationEdit ==
  ASSUME NEW m, SessionOK(m), NEW p \in Previews,
         NEW sim \in {"none", "ready", "final"}, NEW d \in MaybeBuild
  PROVE  LET n == [m EXCEPT ![p].sim = sim, ![p].digest = d]
         IN  SessionOK(n) /\ SameExecutions(m, n)
<1> DEFINE n == [m EXCEPT ![p].sim = sim, ![p].digest = d]
<1>1. m \in [Previews -> Messages]
  BY DEF SessionOK
<1>2. \A q \in Previews : n[q].exec = m[q].exec /\ n[q].status = m[q].status /\ n[q] \in Messages
  BY <1>1 DEF Messages
<1>3. n \in [Previews -> Messages]
  BY <1>1, <1>2
<1> QED BY <1>2, <1>3 DEF SessionOK, SameExecutions

LEMMA ExecutionEdit ==
  ASSUME NEW m, SessionOK(m), NEW p \in Previews, NEW b \in Builds, NEW st \in ExecutionStatus
  PROVE  LET n == [m EXCEPT ![p].exec = b, ![p].status = st]
         IN  /\ SessionOK(n)
             /\ n[p].exec = b /\ n[p].status = st
             /\ \A q \in Previews \ {p} : n[q] = m[q]
<1> DEFINE n == [m EXCEPT ![p].exec = b, ![p].status = st]
<1>1. m \in [Previews -> Messages]
  BY DEF SessionOK
<1>2. n[p].exec = b /\ n[p].status = st /\ n[p] \in Messages
  BY <1>1 DEF Messages, MaybeBuild
<1>3. \A q \in Previews \ {p} : n[q] = m[q]
  BY <1>1
<1>4. n \in [Previews -> Messages]
  BY <1>1, <1>2, <1>3
<1> QED BY <1>2, <1>3, <1>4 DEF SessionOK

LEMMA IdleTask == TaskOK(Idle) /\ Idle.pc = "idle" /\ \A p \in Previews : Idle.copy[p].status = "none"
<1>1. Blank \in Messages /\ Blank.status = "none"
  BY DEF Blank, Messages, MaybeBuild, ExecutionStatus
<1>2. SessionOK([p \in Previews |-> Blank])
  BY <1>1 DEF SessionOK
<1>3. "idle" \in Steps
  BY DEF Steps
<1>4. Idle \in Tasks
  BY <1>1, <1>3 DEF Idle, Tasks, MaybeBuild
<1> QED BY <1>1, <1>2, <1>4 DEF Idle, TaskOK, Bearing

(* The handler of one slot moves.                                          *)
LEMMA TaskMoves ==
  ASSUME task \in [Slots -> Tasks], NEW s \in Slots, NEW u \in Tasks,
         task' = [task EXCEPT ![s] = u]
  PROVE  /\ task' \in [Slots -> Tasks]
         /\ task'[s] = u
         /\ \A t \in Slots \ {s} : task'[t] = task[t]
OBVIOUS

LEMMA GotoMoves ==
  ASSUME task \in [Slots -> Tasks], NEW s \in Slots, NEW pc \in Steps, Goto(s, pc)
  PROVE  /\ task' = [task EXCEPT ![s] = [task[s] EXCEPT !.pc = pc]]
         /\ [task[s] EXCEPT !.pc = pc] \in Tasks
         /\ task'[s].pc = pc
         /\ task'[s].preview = task[s].preview
         /\ task'[s].build = task[s].build
         /\ task'[s].copy = task[s].copy
         /\ task'[s].stamp = task[s].stamp
<1>1. task' = [task EXCEPT ![s] = [task[s] EXCEPT !.pc = pc]]
  BY DEF Goto
<1>2. [task[s] EXCEPT !.pc = pc] \in Tasks
  BY DEF Tasks
<1>3. task'[s] = [task[s] EXCEPT !.pc = pc]
  BY <1>1
<1> QED BY <1>1, <1>2, <1>3 DEF Tasks

LEMMA InitType == PumpInit => TypeInv
<1> SUFFICES ASSUME PumpInit PROVE TypeInv
  OBVIOUS
<1>1. Blank \in Messages /\ Blank.status = "none"
  BY DEF Blank, Messages, MaybeBuild, ExecutionStatus
<1>2. SessionOK(message)
  BY <1>1 DEF PumpInit, SessionOK
<1>3. \A s \in Slots : TaskOK(task[s])
  BY IdleTask DEF PumpInit
<1>4. task \in [Slots -> Tasks]
  BY IdleTask DEF PumpInit, TaskOK
<1> QED BY <1>2, <1>3, <1>4 DEF PumpInit, TypeInv, PumpTypeOK, SessionOK, MaybeBuild

(* What PumpTypeOK says beyond the session and the handlers.               *)
RestOK ==
  /\ prepared \subseteq Previews
  /\ final \in [Previews -> MaybeBuild]
  /\ broadcasts \in [Builds -> Nat]
  /\ chain \in [Builds -> {"unsent", "pending", "landed", "reverted"}]
  /\ stale \subseteq built
  /\ built \subseteq Builds
  /\ receipts \subseteq Builds
  /\ ledger \subseteq Events
  /\ unlocked \in BOOLEAN
  /\ stop \in BOOLEAN

LEMMA TypeParts == TypeInv <=> /\ RestOK
                               /\ SessionOK(message)
                               /\ task \in [Slots -> Tasks]
                               /\ \A s \in Slots : TaskOK(task[s])
BY DEF TypeInv, PumpTypeOK, RestOK, SessionOK

LEMMA RestKept ==
  ASSUME RestOK, UNCHANGED <<approvals, network, books, switches>>
  PROVE  RestOK'
BY DEF RestOK, approvals, network, books, switches

LEMMA HandlerType ==
  ASSUME TypeInv, NEW s \in Slots, NEW u, TaskOK(u), task' = [task EXCEPT ![s] = u],
         SessionOK(message'), RestOK'
  PROVE  TypeInv'
<1>1. task \in [Slots -> Tasks] /\ \A t \in Slots : TaskOK(task[t])
  BY TypeParts
<1>2. u \in Tasks
  BY DEF TaskOK
<1>3. task' \in [Slots -> Tasks] /\ \A t \in Slots : TaskOK(task'[t])
  BY <1>1, <1>2, TaskMoves
<1>4. SessionOK(message)' /\ (\A t \in Slots : TaskOK(task[t]))'
  BY <1>3
<1> QED BY <1>3, <1>4 DEF TypeInv, PumpTypeOK, RestOK, SessionOK

LEMMA StoredOK ==
  ASSUME SessionOK(message), NEW m, SessionOK(m)
  PROVE  SessionOK(Stored(m))
BY DEF Stored

LEMMA RecordedOK ==
  ASSUME SessionOK(message), NEW p \in Previews, NEW b \in Builds, NEW st \in ExecutionStatus
  PROVE  SessionOK(Recorded(p, b, st))
BY ExecutionEdit, StoredOK DEF Recorded

(* Where a handler goes on it keeps what it knows.                         *)
LEMMA GotoType ==
  ASSUME TypeInv, NEW s \in Slots, NEW pc \in Steps, Goto(s, pc),
         pc \notin {"idle", "answering", "ledger"},
         task[s].preview \in Previews,
         pc \in Bearing => task[s].build \in Builds,
         SessionOK(message'), RestOK'
  PROVE  TypeInv'
<1> DEFINE u == [task[s] EXCEPT !.pc = pc]
<1>1. task \in [Slots -> Tasks] /\ TaskOK(task[s])
  BY TypeParts
<1>2. task' = [task EXCEPT ![s] = u] /\ u \in Tasks
  BY <1>1, GotoMoves
<1>3. u.pc = pc /\ u.preview = task[s].preview /\ u.build = task[s].build /\ u.copy = task[s].copy
  BY <1>1 DEF Tasks
<1> HIDE DEF u
<1>4. TaskOK(u)
  BY <1>1, <1>2, <1>3 DEF TaskOK
<1> QED BY <1>2, <1>4, HandlerType

LEMMA EndType ==
  ASSUME TypeInv, NEW s \in Slots, End(s), SessionOK(message'), RestOK'
  PROVE  TypeInv'
BY IdleTask, HandlerType DEF End

(* The handlers that start.                                                *)
LEMMA ChatSendType ==
  ASSUME TypeInv, NEW s \in Slots, ChatSend(s)
  PROVE  TypeInv'
<1> DEFINE u == [Idle EXCEPT !.pc = "answering", !.copy = message]
<1>1. RestOK /\ SessionOK(message)
  BY TypeParts
<1>2. RestOK' /\ SessionOK(message')
  BY <1>1, RestKept DEF ChatSend
<1>3. u \in Tasks /\ u.pc = "answering" /\ u.copy = message
  BY <1>1, IdleTask DEF TaskOK, Tasks, Steps, SessionOK
<1>4. task' = [task EXCEPT ![s] = u]
  BY DEF ChatSend
<1> HIDE DEF u
<1>5. TaskOK(u)
  BY <1>1, <1>3 DEF TaskOK, Bearing
<1> QED BY <1>2, <1>4, <1>5, HandlerType

LEMMA StartType ==
  ASSUME TypeInv, NEW s \in Slots, NEW p \in Previews,
         \/ SimulateStart(s, p) \/ RevalidateStart(s, p)
         \/ ExecuteStart(s, p) \/ VerifyStart(s, p)
  PROVE  TypeInv'
<1>1. RestOK /\ SessionOK(message)
  BY TypeParts
<1>2. RestOK' /\ SessionOK(message')
  BY <1>1 DEF RestOK, SimulateStart, RevalidateStart, ExecuteStart, VerifyStart,
              approvals, network, books, switches
<1>3. SessionOK(Without(p))
  BY <1>1, SimulationEdit DEF Without, MaybeBuild
<1>4. Idle \in Tasks /\ SessionOK(Idle.copy) /\ Idle.build = None /\ Idle.preview = None
  BY IdleTask DEF TaskOK, Idle
<1>6. CASE SimulateStart(s, p) \/ RevalidateStart(s, p)
  <2>1. PICK pc \in {"simulating", "building"} :
          task' = [task EXCEPT ![s] = [Idle EXCEPT !.pc = pc, !.preview = p, !.copy = Without(p)]]
    BY <1>6 DEF SimulateStart, RevalidateStart
  <2> DEFINE u == [Idle EXCEPT !.pc = pc, !.preview = p, !.copy = Without(p)]
  <2>2. u \in Tasks /\ u.pc = pc /\ u.preview = p /\ u.copy = Without(p)
    BY <1>3, <1>4 DEF Tasks, Steps, SessionOK
  <2> HIDE DEF u
  <2>3. TaskOK(u)
    BY <2>2, <1>3 DEF TaskOK, Bearing
  <2> QED BY <1>2, <2>1, <2>3, HandlerType DEF u
<1>7. CASE ExecuteStart(s, p)
  <2> DEFINE u == [Idle EXCEPT !.pc = "password", !.preview = p]
  <2>1. u \in Tasks /\ u.pc = "password" /\ u.preview = p /\ u.copy = Idle.copy
    BY <1>4 DEF Tasks, Steps
  <2> HIDE DEF u
  <2>2. TaskOK(u)
    BY <2>1, <1>4 DEF TaskOK, Bearing
  <2> QED BY <1>2, <1>7, <2>2, HandlerType DEF ExecuteStart, u
<1>8. CASE VerifyStart(s, p)
  <2> DEFINE b == message[p].exec
             u == [Idle EXCEPT !.pc = "status", !.preview = p, !.build = b, !.verify = TRUE]
  <2>1. b \in Builds
    BY <1>1, <1>8 DEF VerifyStart, SessionOK
  <2> HIDE DEF b
  <2>2. /\ u \in Tasks /\ u.pc = "status" /\ u.preview = p
        /\ u.build = b /\ u.copy = Idle.copy
    BY <1>4, <2>1 DEF Tasks, Steps, MaybeBuild
  <2> HIDE DEF u
  <2>3. TaskOK(u)
    BY <1>4, <2>1, <2>2 DEF TaskOK
  <2> QED BY <1>2, <1>8, <2>3, HandlerType DEF VerifyStart, u, b
<1> QED BY <1>6, <1>7, <1>8

(* The handlers that write back a session they read, or give up.           *)
LEMMA WriteBackType ==
  ASSUME TypeInv, NEW s \in Slots,
         \/ ChatAnswer(s) \/ SimulateEnd(s) \/ RevalidatePasses(s) \/ RevalidateBlocks(s)
         \/ GiveUp(s) \/ PersistFails(s)
  PROVE  TypeInv'
<1>1. RestOK /\ SessionOK(message) /\ TaskOK(task[s])
  BY TypeParts
<1>2. SessionOK(Stored(task[s].copy))
  BY <1>1, StoredOK DEF TaskOK
<1>3. End(s)
  BY DEF ChatAnswer, SimulateEnd, RevalidatePasses, RevalidateBlocks, GiveUp, PersistFails
<1>4. CASE ChatAnswer(s) \/ GiveUp(s) \/ PersistFails(s)
  <2>1. RestOK' /\ SessionOK(message')
    BY <1>1, <1>2, <1>4, RestKept DEF ChatAnswer, GiveUp, PersistFails
  <2> QED BY <1>3, <2>1, EndType
<1>5. CASE SimulateEnd(s) \/ RevalidatePasses(s) \/ RevalidateBlocks(s)
  <2> DEFINE p == task[s].preview
  <2>1. p \in Previews
    BY <1>1, <1>5 DEF SimulateEnd, RevalidatePasses, RevalidateBlocks, At, TaskOK
  <2>2. RestOK'
    BY <1>1, <1>5, <2>1, ZenonT(60) DEF SimulateEnd, RevalidatePasses, RevalidateBlocks, RestOK, MaybeBuild,
                            approvals, network, books, switches
  <2>3. \E sim \in {"none", "ready", "final"}, d \in MaybeBuild :
          message' = Stored([task[s].copy EXCEPT ![p].sim = sim, ![p].digest = d])
    BY <1>5 DEF SimulateEnd, RevalidatePasses, RevalidateBlocks, MaybeBuild
  <2>4. SessionOK(message')
    BY <1>1, <2>1, <2>3, SimulationEdit, StoredOK DEF TaskOK
  <2> QED BY <1>3, <2>2, <2>4, EndType
<1> QED BY <1>4, <1>5

(* pumpExecute after its password.                                         *)
LEMMA ExecuteType ==
  ASSUME TypeInv, NEW s \in Slots, Consume(s) \/ Sign(s) \/ Broadcast(s) \/ Broadcasted(s)
  PROVE  TypeInv'
<1> DEFINE p == task[s].preview
<1>1. RestOK /\ SessionOK(message) /\ TaskOK(task[s]) /\ task \in [Slots -> Tasks]
  BY TypeParts
<1>2. p \in Previews
  BY <1>1 DEF Consume, Sign, Broadcast, Broadcasted, At, TaskOK
<1>3. CASE Consume(s)
  <2>1. RestOK'
    BY <1>1, <1>2, <1>3 DEF Consume, AfterConsume, RestOK, MaybeBuild, network, books, switches
  <2>2. SessionOK(message')
    BY <1>1, <1>3 DEF Consume
  <2>3. CASE End(s)
    BY <2>1, <2>2, <2>3, EndType
  <2>4. CASE ~End(s)
    <3> DEFINE b == final[p]
               u == [task[s] EXCEPT !.pc = "signing", !.build = b]
    <3>1. b \in Builds /\ task' = [task EXCEPT ![s] = u]
      BY <1>1, <1>3, <2>4 DEF Consume
    <3> HIDE DEF b
    <3>2. /\ u \in Tasks /\ u.pc = "signing" /\ u.preview = p
          /\ u.build = b /\ u.copy = task[s].copy
      BY <1>1, <3>1 DEF Tasks, Steps, MaybeBuild
    <3> HIDE DEF u
    <3>3. TaskOK(u)
      BY <1>1, <1>2, <3>1, <3>2 DEF TaskOK
    <3> QED BY <2>1, <2>2, <3>1, <3>3, HandlerType
  <2> QED BY <2>3, <2>4
<1>4. CASE Sign(s) \/ Broadcast(s) \/ Broadcasted(s)
  <2>1. task[s].build \in Builds
    BY <1>1, <1>4 DEF Sign, Broadcast, Broadcasted, At, TaskOK, Bearing
  <2>2. RestOK'
    <3>1. CASE Sign(s) \/ Broadcasted(s)
      BY <1>1, <3>1, RestKept DEF Sign, Broadcasted
    <3>2. CASE Broadcast(s)
      <4>1. broadcasts' \in [Builds -> Nat]
        BY <1>1, <2>1, <3>2 DEF Broadcast, RestOK
      <4>2. chain' \in [Builds -> {"unsent", "pending", "landed", "reverted"}]
        BY <1>1, <2>1, <3>2 DEF Broadcast, RestOK
      <4> QED BY <1>1, <3>2, <4>1, <4>2 DEF Broadcast, RestOK, approvals, books, switches
    <3> QED BY <1>4, <3>1, <3>2
  <2>3. PICK st \in ExecutionStatus, pc \in {"signed", "sent", "status"} :
          message' = Recorded(p, task[s].build, st) /\ Goto(s, pc)
    BY <1>4 DEF Sign, Broadcast, Broadcasted, ExecutionStatus
  <2>4. SessionOK(message')
    BY <1>1, <1>2, <2>1, <2>3, RecordedOK
  <2> QED BY <1>2, <2>1, <2>2, <2>3, <2>4, GotoType DEF Steps
<1> QED BY <1>3, <1>4

LEMMA ConcludeType ==
  ASSUME TypeInv, NEW s \in Slots, NEW st \in ExecutionStatus, Conclude(s, st),
         task[s].pc \in Bearing, RestOK'
  PROVE  TypeInv'
<1>1. SessionOK(message) /\ TaskOK(task[s])
  BY TypeParts
<1>2. task[s].preview \in Previews /\ task[s].build \in Builds
  BY <1>1 DEF TaskOK, Bearing
<1>3. SessionOK(message')
  BY <1>1, <1>2, RecordedOK DEF Conclude
<1> QED BY <1>3, EndType DEF Conclude

(* reconcilePumpExecution.                                                 *)
LEMMA ReconcileType ==
  ASSUME TypeInv, NEW s \in Slots,
         \/ ReadStatus(s) \/ ReadHeight(s) \/ SaveReceipt(s) \/ RecordReceipt(s)
         \/ MarkFinalized(s) \/ ReconcileFails(s)
  PROVE  TypeInv'
<1> DEFINE p == task[s].preview
           b == task[s].build
<1>1. RestOK /\ SessionOK(message) /\ TaskOK(task[s]) /\ task \in [Slots -> Tasks]
  BY TypeParts
<1>2. task[s].pc \in Bearing
  BY DEF ReadStatus, ReadHeight, SaveReceipt, RecordReceipt, MarkFinalized, ReconcileFails, At, Bearing
<1>3. p \in Previews /\ b \in Builds
  BY <1>1, <1>2 DEF TaskOK, Bearing
<1>4. CASE ReadStatus(s) \/ ReadHeight(s) \/ MarkFinalized(s) \/ ReconcileFails(s)
  <2>1. RestOK'
    BY <1>1, <1>4, RestKept DEF ReadStatus, ReadHeight, MarkFinalized, ReconcileFails
  <2>2. \/ \E st \in ExecutionStatus : Conclude(s, st)
        \/ \E pc \in {"receipt", "height"} : Goto(s, pc) /\ UNCHANGED message
        \/ End(s) /\ UNCHANGED message
    BY <1>4 DEF ReadStatus, ReadHeight, MarkFinalized, ReconcileFails, ExecutionStatus
  <2>3. CASE \E st \in ExecutionStatus : Conclude(s, st)
    BY <1>2, <2>1, <2>3, ConcludeType
  <2>4. CASE \E pc \in {"receipt", "height"} : Goto(s, pc) /\ UNCHANGED message
    BY <1>1, <1>3, <2>1, <2>4, GotoType DEF Steps
  <2>5. CASE End(s) /\ UNCHANGED message
    BY <1>1, <2>1, <2>5, EndType
  <2> QED BY <2>2, <2>3, <2>4, <2>5
<1>5. CASE SaveReceipt(s)
  <2>1. RestOK' /\ SessionOK(message')
    BY <1>1, <1>3, <1>5 DEF SaveReceipt, RestOK, approvals, network, switches
  <2>2. PICK now \in Instants : task' = [task EXCEPT ![s].pc = "ledger", ![s].stamp = now]
    BY <1>5 DEF SaveReceipt
  <2> DEFINE u == [task[s] EXCEPT !.pc = "ledger", !.stamp = now]
  <2>3. task' = [task EXCEPT ![s] = u]
    BY <1>1, <2>2
  <2>4. /\ u \in Tasks /\ u.pc = "ledger" /\ u.stamp = now
        /\ u.preview = p /\ u.build = b /\ u.copy = task[s].copy
    BY <1>1 DEF Tasks, Steps
  <2> HIDE DEF u
  <2>5. TaskOK(u)
    BY <1>1, <1>3, <2>4 DEF TaskOK
  <2> QED BY <2>1, <2>3, <2>5, HandlerType
<1>6. CASE RecordReceipt(s)
  <2>1. Event(s) \in Events
    BY <1>1, <1>3, <1>6 DEF RecordReceipt, At, TaskOK, Event, Events
  <2>2. RestOK' /\ SessionOK(message')
    BY <1>1, <1>6, <2>1 DEF RecordReceipt, RestOK, approvals, network, switches
  <2> QED BY <1>3, <1>6, <2>2, GotoType DEF RecordReceipt, Steps
<1> QED BY <1>4, <1>5, <1>6

LEMMA WorldType ==
  ASSUME TypeInv,
         \/ \E b \in Builds : Settle(b) \/ BlockhashExpires(b)
         \/ \E p \in Previews : Purge(p)
         \/ Suspend \/ LockScreen \/ Unlock \/ SwitchStop \/ Crash
         \/ UNCHANGED pumpVars
  PROVE  TypeInv'
<1>1. RestOK /\ SessionOK(message) /\ task \in [Slots -> Tasks] /\ \A s \in Slots : TaskOK(task[s])
  BY TypeParts
<1>2. message' = message
  BY DEF Settle, BlockhashExpires, Purge, Suspend, LockScreen, Unlock, SwitchStop, Crash, pumpVars
<1>3. task' \in [Slots -> Tasks] /\ \A s \in Slots : TaskOK(task'[s])
  <2>1. CASE Crash
    BY <2>1, IdleTask DEF Crash, TaskOK
  <2>2. CASE ~Crash
    BY <1>1, <2>2 DEF Settle, BlockhashExpires, Purge, Suspend, LockScreen, Unlock, SwitchStop, pumpVars
  <2> QED BY <2>1, <2>2
<1>4. RestOK'
  <2>1. CASE \E b \in Builds : Settle(b)
    BY <1>1, <2>1 DEF Settle, RestOK, approvals, books, switches
  <2>2. CASE \E b \in Builds : BlockhashExpires(b)
    BY <1>1, <2>2 DEF BlockhashExpires, RestOK, approvals, books, switches
  <2>3. CASE \E p \in Previews : Purge(p)
    BY <1>1, <2>3 DEF Purge, RestOK, MaybeBuild, network, books, switches
  <2>4. CASE Suspend \/ Crash
    BY <1>1, <2>4 DEF Suspend, Crash, Clear, RestOK, MaybeBuild, network, books
  <2>5. CASE LockScreen \/ Unlock \/ SwitchStop \/ UNCHANGED pumpVars
    BY <1>1, <2>5 DEF LockScreen, Unlock, SwitchStop, RestOK, approvals, network, books, pumpVars, switches
  <2> QED BY <2>1, <2>2, <2>3, <2>4, <2>5
<1>5. SessionOK(message)' /\ (\A s \in Slots : TaskOK(task[s]))'
  BY <1>1, <1>2, <1>3
<1> QED BY <1>3, <1>4, <1>5 DEF TypeInv, PumpTypeOK, RestOK, SessionOK

LEMMA StepType == TypeInv /\ [PumpNext]_pumpVars => TypeInv'
<1> SUFFICES ASSUME TypeInv, [PumpNext]_pumpVars PROVE TypeInv'
  OBVIOUS
<1>1. ASSUME NEW s \in Slots, Handler(s) PROVE TypeInv'
  <2>1. CASE ChatSend(s)
    BY <2>1, ChatSendType
  <2>2. CASE \E p \in Previews : \/ SimulateStart(s, p) \/ RevalidateStart(s, p)
                                \/ ExecuteStart(s, p) \/ VerifyStart(s, p)
    BY <2>2, StartType
  <2> QED BY <1>1, <2>1, <2>2, WriteBackType, ExecuteType, ReconcileType DEF Handler
<1> QED BY <1>1, WorldType DEF PumpNext

(* What is stored, prepared and in flight has its type.                    *)
THEOREM PumpTypeCorrect == PumpSpec => []PumpTypeOK
<1>1. TypeInv => PumpTypeOK
  BY DEF TypeInv
<1> QED BY <1>1, InitType, StepType, PTL DEF PumpSpec

-----------------------------------------------------------------------------
(* One broadcast *)

HeldBy(s, b) == task[s].build = b /\ task[s].pc \in Holding

(* OneBroadcast is not inductive: a broadcast is the first because its     *)
(* transaction is held by one approval or one handler at a time, and what  *)
(* is held has never been sent.                                            *)
ExclusiveOK(b) ==
  /\ Held(b) => b \in built /\ broadcasts[b] = 0
  /\ b \notin built => broadcasts[b] = 0
  /\ broadcasts[b] <= 1
  /\ chain[b] # "unsent" => broadcasts[b] = 1
  /\ \A p, q \in Previews : final[p] = b /\ final[q] = b => p = q
  /\ \A s, t \in Slots : HeldBy(s, b) /\ HeldBy(t, b) => s = t
  /\ \A p \in Previews, s \in Slots : ~(final[p] = b /\ HeldBy(s, b))

ExclusiveInv == TypeInv /\ \A b \in Builds : ExclusiveOK(b)

LEMMA HeldWhere ==
  \A b : Held(b) <=> \/ \E p \in Previews : final[p] = b
                     \/ \E s \in Slots : HeldBy(s, b)
BY DEF Held, HeldBy, Holding

LEMMA HandlerMoves ==
  ASSUME TypeInv, NEW s \in Slots, Handler(s)
  PROVE  \A t \in Slots \ {s} : task'[t] = task[t]
<1>1. task \in [Slots -> Tasks]
  BY TypeParts
<1>2. CASE \E p \in Previews : \/ SimulateStart(s, p) \/ RevalidateStart(s, p)
                              \/ ExecuteStart(s, p) \/ VerifyStart(s, p)
  BY <1>1, <1>2 DEF SimulateStart, RevalidateStart, ExecuteStart, VerifyStart
<1>3. CASE ChatSend(s) \/ ChatAnswer(s) \/ SimulateEnd(s) \/ RevalidatePasses(s)
           \/ RevalidateBlocks(s) \/ GiveUp(s) \/ PersistFails(s)
  BY <1>1, <1>3 DEF ChatSend, ChatAnswer, SimulateEnd, RevalidatePasses, RevalidateBlocks,
                    GiveUp, PersistFails, End
<1>4. CASE Consume(s) \/ Sign(s) \/ Broadcast(s) \/ Broadcasted(s)
  BY <1>1, <1>4 DEF Consume, Sign, Broadcast, Broadcasted, Goto, End
<1>5. CASE ReadStatus(s) \/ ReadHeight(s) \/ MarkFinalized(s) \/ ReconcileFails(s)
  BY <1>1, <1>5 DEF ReadStatus, ReadHeight, MarkFinalized, ReconcileFails, Conclude, Goto, End
<1>6. CASE SaveReceipt(s) \/ RecordReceipt(s)
  BY <1>1, <1>6 DEF SaveReceipt, RecordReceipt, Goto
<1> QED BY <1>2, <1>3, <1>4, <1>5, <1>6 DEF Handler

(* Only Consume and Sign leave a handler that holds a transaction.         *)
LEMMA HandlerHolds ==
  ASSUME TypeInv, NEW s \in Slots, Handler(s), ~Consume(s)
  PROVE  \A b : HeldBy(s, b)' => HeldBy(s, b)
<1>1. task \in [Slots -> Tasks] /\ task[s] \in Tasks
  BY TypeParts
<1>2. Idle.pc \notin Holding
  BY DEF Idle, Holding
<1>3. CASE Sign(s)
  BY <1>1, <1>3, GotoMoves DEF Sign, At, HeldBy, Holding, Steps
<1>4. CASE ~Sign(s)
  <2>1. task'[s].pc \notin Holding
    <3>1. CASE \E p \in Previews : \/ SimulateStart(s, p) \/ RevalidateStart(s, p)
                                  \/ ExecuteStart(s, p) \/ VerifyStart(s, p)
      <4>1. CASE \E p \in Previews : SimulateStart(s, p)
        BY <1>1, <4>1 DEF SimulateStart, Idle, Holding
      <4>2. CASE \E p \in Previews : RevalidateStart(s, p)
        BY <1>1, <4>2 DEF RevalidateStart, Idle, Holding
      <4>3. CASE \E p \in Previews : ExecuteStart(s, p)
        BY <1>1, <4>3 DEF ExecuteStart, Idle, Holding
      <4>4. CASE \E p \in Previews : VerifyStart(s, p)
        BY <1>1, <4>4 DEF VerifyStart, Idle, Holding
      <4> QED BY <3>1, <4>1, <4>2, <4>3, <4>4
    <3>2. CASE ChatSend(s)
      BY <1>1, <3>2 DEF ChatSend, Idle, Holding
    <3>3. CASE End(s)
      BY <1>1, <1>2, <3>3 DEF End
    <3>4. CASE \E pc \in Steps \ Holding : Goto(s, pc)
      BY <1>1, <3>4, GotoMoves
    <3>5. CASE SaveReceipt(s)
      BY <1>1, <3>5 DEF SaveReceipt, Holding, Tasks
    <3> QED BY <1>4, <3>1, <3>2, <3>3, <3>4, <3>5
        DEF Handler, ChatAnswer, SimulateEnd, RevalidatePasses, RevalidateBlocks, GiveUp, PersistFails,
            Broadcast, Broadcasted, ReadStatus, ReadHeight, RecordReceipt, MarkFinalized,
            ReconcileFails, Conclude, Steps, Holding
  <2> QED BY <2>1 DEF HeldBy
<1> QED BY <1>3, <1>4

(* Steps that hold nothing new and send nothing.                           *)
LEMMA ExclusiveKept ==
  ASSUME ExclusiveInv, TypeInv', UNCHANGED <<built, broadcasts>>,
         \A b \in Builds : chain'[b] # "unsent" => chain[b] # "unsent",
         \A p \in Previews : final'[p] \in {final[p], None},
         \A s \in Slots, b \in Builds : HeldBy(s, b)' => HeldBy(s, b)
  PROVE  ExclusiveInv'
<1> SUFFICES ASSUME NEW b \in Builds PROVE ExclusiveOK(b)'
  BY DEF ExclusiveInv
<1>1. ExclusiveOK(b) /\ b # None
  BY PumpAssumption DEF ExclusiveInv
<1>2. \A p \in Previews : final'[p] = b => final[p] = b
  BY <1>1
<1>3. Held(b)' => Held(b)
  <2>1. Held(b)' <=> \/ \E p \in Previews : final'[p] = b
                     \/ \E s \in Slots : HeldBy(s, b)'
    BY DEF Held, HeldBy, Holding
  <2> QED BY <1>2, <2>1, HeldWhere
<1> QED BY <1>1, <1>2, <1>3 DEF ExclusiveOK

LEMMA InitExclusive == PumpInit => ExclusiveInv
<1> SUFFICES ASSUME PumpInit, NEW b \in Builds PROVE ExclusiveOK(b)
  BY InitType DEF ExclusiveInv
<1>1. \A p \in Previews : final[p] # b
  BY PumpAssumption DEF PumpInit
<1>2. \A s \in Slots : ~HeldBy(s, b)
  BY DEF PumpInit, HeldBy, Idle, Holding
<1>3. ~Held(b)
  BY <1>1, <1>2, HeldWhere
<1> QED BY <1>1, <1>2, <1>3 DEF PumpInit, ExclusiveOK

LEMMA ConsumeExclusive ==
  ASSUME ExclusiveInv, TypeInv', NEW s \in Slots, Consume(s)
  PROVE  ExclusiveInv'
<1> DEFINE p == task[s].preview
<1>1. /\ TypeInv /\ task \in [Slots -> Tasks] /\ final \in [Previews -> MaybeBuild]
      /\ p \in Previews /\ task[s].pc \notin Holding
  BY TypeParts DEF ExclusiveInv, RestOK, Consume, At, TaskOK, Holding
<1>2. \A t \in Slots \ {s} : task'[t] = task[t]
  BY <1>1, HandlerMoves DEF Handler
<1>3. /\ final'[p] = None /\ \A q \in Previews \ {p} : final'[q] = final[q]
      /\ UNCHANGED <<built, broadcasts, chain>>
  BY <1>1 DEF Consume, AfterConsume, network
<1>4. CASE End(s)
  <2>1. \A t \in Slots, b \in Builds : HeldBy(t, b)' => HeldBy(t, b)
    BY <1>1, <1>2, <1>4 DEF End, HeldBy, Idle, Holding
  <2> QED BY <1>3, <2>1, ExclusiveKept
<1>5. CASE ~End(s)
  <2>1. /\ final[p] \in Builds
        /\ task' = [task EXCEPT ![s].pc = "signing", ![s].build = final[p]]
    BY <1>1, <1>5 DEF Consume
  <2>2. task'[s].pc = "signing" /\ task'[s].build = final[p]
    BY <1>1, <2>1 DEF Tasks
  <2> SUFFICES ASSUME NEW b \in Builds PROVE ExclusiveOK(b)'
    BY DEF ExclusiveInv
  <2>3. ExclusiveOK(b) /\ b # None
    BY PumpAssumption DEF ExclusiveInv
  <2>4. /\ \A q \in Previews : final'[q] = b => q # p /\ final[q] = b
        /\ \A t \in Slots : HeldBy(t, b)' => (IF t = s THEN final[p] = b ELSE HeldBy(t, b))
    BY <1>2, <1>3, <2>2, <2>3 DEF HeldBy
  <2>5. Held(b)' => Held(b)
    <3>1. Held(b)' <=> \/ \E q \in Previews : final'[q] = b
                       \/ \E t \in Slots : HeldBy(t, b)'
      BY DEF Held, HeldBy, Holding
    <3> QED BY <1>1, <2>4, <3>1, HeldWhere
  <2> QED BY <1>1, <1>3, <2>3, <2>4, <2>5 DEF ExclusiveOK
<1> QED BY <1>4, <1>5

LEMMA RevalidateExclusive ==
  ASSUME ExclusiveInv, TypeInv', NEW s \in Slots, RevalidatePasses(s)
  PROVE  ExclusiveInv'
<1> DEFINE p == task[s].preview
<1>1. /\ TypeInv /\ task \in [Slots -> Tasks] /\ final \in [Previews -> MaybeBuild]
      /\ p \in Previews
  BY TypeParts DEF ExclusiveInv, RestOK, RevalidatePasses, At, TaskOK
<1>2. PICK c \in Builds \ built : built' = built \cup {c} /\ final' = [final EXCEPT ![p] = c]
  BY DEF RevalidatePasses
<1>3. /\ final'[p] = c /\ \A q \in Previews \ {p} : final'[q] = final[q]
      /\ UNCHANGED <<broadcasts, chain>>
  BY <1>1, <1>2 DEF RevalidatePasses, network
<1>4. \A t \in Slots, b \in Builds : HeldBy(t, b)' => HeldBy(t, b)
  <2>1. \A t \in Slots \ {s} : task'[t] = task[t]
    BY <1>1, HandlerMoves DEF Handler
  <2>2. task'[s].pc \notin Holding
    BY <1>1 DEF RevalidatePasses, End, Idle, Holding
  <2> QED BY <2>1, <2>2 DEF HeldBy
<1> SUFFICES ASSUME NEW b \in Builds PROVE ExclusiveOK(b)'
  BY DEF ExclusiveInv
<1>5. ExclusiveOK(b)
  BY DEF ExclusiveInv
<1>6. Held(b)' <=> \/ \E q \in Previews : final'[q] = b
                   \/ \E t \in Slots : HeldBy(t, b)'
  BY DEF Held, HeldBy, Holding
<1>7. CASE b = c
  <2>1. ~Held(b) /\ broadcasts[b] = 0
    BY <1>2, <1>5, <1>7 DEF ExclusiveOK
  <2>2. (\A q \in Previews : final'[q] = b => q = p) /\ \A t \in Slots : ~HeldBy(t, b)'
    BY <1>3, <1>4, <2>1, HeldWhere
  <2> QED BY <1>1, <1>2, <1>3, <1>5, <1>7, <2>1, <2>2 DEF ExclusiveOK
<1>8. CASE b # c
  <2>1. \A q \in Previews : final'[q] = b => final[q] = b
    BY <1>3, <1>8
  <2>2. Held(b)' => Held(b)
    BY <1>4, <1>6, <2>1, HeldWhere
  <2> QED BY <1>2, <1>3, <1>4, <1>5, <1>8, <2>1, <2>2 DEF ExclusiveOK
<1> QED BY <1>7, <1>8

LEMMA BroadcastExclusive ==
  ASSUME ExclusiveInv, TypeInv', NEW s \in Slots, Broadcast(s)
  PROVE  ExclusiveInv'
<1> DEFINE c == task[s].build
<1>1. /\ TypeInv /\ task \in [Slots -> Tasks] /\ TaskOK(task[s]) /\ RestOK
      /\ ~Consume(s) /\ HeldBy(s, c) /\ c \in Builds
  BY TypeParts DEF ExclusiveInv, RestOK, Broadcast, Consume, At, TaskOK, Holding, HeldBy, Bearing
<1>2. /\ broadcasts'[c] = broadcasts[c] + 1
      /\ \A b \in Builds \ {c} : broadcasts'[b] = broadcasts[b] /\ chain'[b] = chain[b]
      /\ UNCHANGED <<built, final>>
  BY <1>1 DEF Broadcast, RestOK, approvals
<1>3. task'[s].pc = "sent" /\ \A t \in Slots \ {s} : task'[t] = task[t]
  BY <1>1, HandlerMoves, GotoMoves DEF Handler, Broadcast, Steps
<1>4. \A t \in Slots, b \in Builds : HeldBy(t, b)' => t # s /\ HeldBy(t, b)
  BY <1>3 DEF HeldBy, Holding
<1> SUFFICES ASSUME NEW b \in Builds PROVE ExclusiveOK(b)'
  BY DEF ExclusiveInv
<1>5. ExclusiveOK(b)
  BY DEF ExclusiveInv
<1>6. Held(b)' <=> \/ \E q \in Previews : final[q] = b
                   \/ \E t \in Slots : HeldBy(t, b)'
  BY <1>2 DEF Held, HeldBy, Holding
<1>7. CASE b = c
  <2>1. broadcasts[b] = 0 /\ b \in built
    BY <1>1, <1>5, <1>7, HeldWhere DEF ExclusiveOK
  <2>2. broadcasts'[b] = 1
    BY <1>2, <1>7, <2>1
  <2>3. ~Held(b)'
    BY <1>1, <1>4, <1>5, <1>6, <1>7 DEF ExclusiveOK
  <2> QED BY <1>2, <1>4, <1>5, <1>7, <2>1, <2>2, <2>3 DEF ExclusiveOK
<1>8. CASE b # c
  <2>1. Held(b)' => Held(b)
    BY <1>4, <1>6, HeldWhere
  <2> QED BY <1>2, <1>4, <1>5, <1>8, <2>1 DEF ExclusiveOK
<1> QED BY <1>7, <1>8

LEMMA StepExclusive == ExclusiveInv /\ [PumpNext]_pumpVars => ExclusiveInv'
<1> SUFFICES ASSUME ExclusiveInv, [PumpNext]_pumpVars PROVE ExclusiveInv'
  OBVIOUS
<1>1. TypeInv /\ TypeInv' /\ RestOK /\ task \in [Slots -> Tasks]
  BY StepType, TypeParts DEF ExclusiveInv
<1>2. ASSUME NEW s \in Slots, Handler(s) PROVE ExclusiveInv'
  <2>1. CASE Consume(s) \/ RevalidatePasses(s) \/ Broadcast(s)
    BY <1>1, <2>1, ConsumeExclusive, RevalidateExclusive, BroadcastExclusive
  <2>2. CASE ~Consume(s) /\ ~RevalidatePasses(s) /\ ~Broadcast(s)
    <3>1. UNCHANGED <<built, broadcasts, chain, final>>
      BY <1>2, <2>2 DEF Handler, ChatSend, ChatAnswer, SimulateStart, SimulateEnd, RevalidateStart,
         RevalidateBlocks, ExecuteStart, VerifyStart, GiveUp, Sign, PersistFails, Broadcasted,
         ReadStatus, ReadHeight, SaveReceipt, RecordReceipt, MarkFinalized, ReconcileFails,
         approvals, network
    <3>2. \A t \in Slots, b \in Builds : HeldBy(t, b)' => HeldBy(t, b)
      BY <1>1, <1>2, <2>2, HandlerMoves, HandlerHolds DEF HeldBy
    <3> QED BY <1>1, <3>1, <3>2, ExclusiveKept
  <2> QED BY <2>1, <2>2
<1>3. CASE \E b \in Builds : Settle(b) \/ BlockhashExpires(b)
  <2>1. UNCHANGED <<built, broadcasts, final, task>>
    BY <1>3 DEF Settle, BlockhashExpires, approvals
  <2>2. \A b \in Builds : chain'[b] # "unsent" => chain[b] # "unsent"
    BY <1>1, <1>3 DEF Settle, BlockhashExpires, RestOK
  <2> QED BY <1>1, <2>1, <2>2, ExclusiveKept DEF HeldBy
<1>4. CASE \/ \E p \in Previews : Purge(p)
           \/ Suspend \/ LockScreen \/ Unlock \/ SwitchStop \/ Crash
           \/ UNCHANGED pumpVars
  <2>1. UNCHANGED <<built, broadcasts, chain>>
    BY <1>4 DEF Purge, Suspend, LockScreen, Unlock, SwitchStop, Crash, Clear, pumpVars,
                approvals, network
  <2>2. \A p \in Previews : final'[p] \in {final[p], None}
    BY <1>1, <1>4 DEF Purge, Suspend, LockScreen, Unlock, SwitchStop, Crash, Clear, pumpVars,
                      approvals, RestOK
  <2>3. \A s \in Slots, b \in Builds : HeldBy(s, b)' => HeldBy(s, b)
    BY <1>1, <1>4 DEF Purge, Suspend, LockScreen, Unlock, SwitchStop, Crash, pumpVars,
                      HeldBy, Idle, Holding
  <2> QED BY <1>1, <2>1, <2>2, <2>3, ExclusiveKept
<1> QED BY <1>2, <1>3, <1>4 DEF PumpNext

LEMMA ExclusiveAlways == PumpSpec => []ExclusiveInv
BY InitExclusive, StepExclusive, PTL DEF PumpSpec

(* No transaction is submitted twice.                                      *)
THEOREM OneBroadcastCorrect == PumpSpec => []OneBroadcast
<1>1. ExclusiveInv => OneBroadcast
  BY DEF ExclusiveInv, ExclusiveOK, OneBroadcast
<1> QED BY <1>1, ExclusiveAlways, PTL

-----------------------------------------------------------------------------
(* The session, the receipts and the ledger *)

Counted(b, r, l) == b \in r /\ \E e \in l : e.build = b

Truthful(m, r, l) ==
  \A p \in Previews : m[p].status = "finalized" => Counted(m[p].exec, r, l)

(* What a reconciliation has established, by where it is, and that an old  *)
(* copy of the session claims no more than the session does.               *)
BooksOK(t, c, r, l) ==
  /\ t.pc \in {"receipt", "ledger", "confirmed"} => c[t.build] = "landed"
  /\ t.pc \in {"ledger", "confirmed"} => t.build \in r
  /\ t.pc = "confirmed" => \E e \in l : e.build = t.build
  /\ Truthful(t.copy, r, l)

(* Neither LedgerSound nor FinalizedIsCounted is inductive: the ledger is  *)
(* written, and the session marked, by handlers that remember what they    *)
(* read earlier.                                                           *)
BooksInv ==
  /\ TypeInv
  /\ LedgerSound
  /\ Truthful(message, receipts, ledger)
  /\ \A s \in Slots : BooksOK(task[s], chain, receipts, ledger)

(* What landed stays landed, what is stored stays stored.                  *)
Grows ==
  /\ \A b \in Builds : chain[b] = "landed" => chain'[b] = "landed"
  /\ receipts \subseteq receipts'
  /\ ledger \subseteq ledger'

LEMMA TruthfulGrows ==
  ASSUME Grows, NEW m, Truthful(m, receipts, ledger)
  PROVE  Truthful(m, receipts', ledger')
BY DEF Grows, Truthful, Counted

LEMMA BooksGrow ==
  ASSUME Grows, NEW t, TaskOK(t), BooksOK(t, chain, receipts, ledger)
  PROVE  BooksOK(t, chain', receipts', ledger')
<1>1. Truthful(t.copy, receipts', ledger')
  BY TruthfulGrows DEF BooksOK
<1> QED BY <1>1 DEF BooksOK, Grows, TaskOK, Bearing

LEMMA StepGrows == TypeInv /\ [PumpNext]_pumpVars => Grows
<1> SUFFICES ASSUME TypeInv, [PumpNext]_pumpVars PROVE Grows
  OBVIOUS
<1>1. RestOK
  BY TypeParts
<1>2. receipts \subseteq receipts' /\ ledger \subseteq ledger'
  <2>1. CASE \E s \in Slots : SaveReceipt(s) \/ RecordReceipt(s)
    BY <2>1 DEF SaveReceipt, RecordReceipt
  <2>2. CASE ~\E s \in Slots : SaveReceipt(s) \/ RecordReceipt(s)
    BY <2>2, ZenonT(60) DEF PumpNext, Handler, ChatSend, ChatAnswer, SimulateStart, SimulateEnd, RevalidateStart,
         RevalidatePasses, RevalidateBlocks, ExecuteStart, VerifyStart, Consume, GiveUp, Sign,
         PersistFails, Broadcast, Broadcasted, ReadStatus, ReadHeight, MarkFinalized,
         ReconcileFails, Settle, BlockhashExpires, Purge, Suspend, LockScreen, Unlock,
         SwitchStop, Crash, pumpVars, books
  <2> QED BY <2>1, <2>2
<1>3. \A b \in Builds : chain[b] = "landed" => chain'[b] = "landed"
  <2>1. CASE \E b \in Builds : Settle(b)
    BY <1>1, <2>1 DEF Settle, RestOK
  <2>2. CASE \E s \in Slots : Broadcast(s)
    BY <1>1, <2>2 DEF Broadcast, RestOK
  <2>3. CASE ~(\E b \in Builds : Settle(b)) /\ ~(\E s \in Slots : Broadcast(s))
    BY <2>3, ZenonT(60) DEF PumpNext, Handler, ChatSend, ChatAnswer, SimulateStart, SimulateEnd, RevalidateStart,
         RevalidatePasses, RevalidateBlocks, ExecuteStart, VerifyStart, Consume, GiveUp, Sign,
         PersistFails, Broadcasted, ReadStatus, ReadHeight, SaveReceipt, RecordReceipt,
         MarkFinalized, ReconcileFails, BlockhashExpires, Purge, Suspend, LockScreen, Unlock,
         SwitchStop, Crash, pumpVars, network
  <2> QED BY <2>1, <2>2, <2>3
<1> QED BY <1>2, <1>3 DEF Grows

(* A new event is of a landed transaction and the first of its signature.  *)
LEMMA StepLedger == BooksInv /\ [PumpNext]_pumpVars => LedgerSound'
<1> SUFFICES ASSUME BooksInv, [PumpNext]_pumpVars PROVE LedgerSound'
  OBVIOUS
<1>1. TypeInv /\ RestOK /\ Grows /\ LedgerSound
  BY StepGrows, TypeParts DEF BooksInv
<1>2. CASE ledger' = ledger
  <2>1. \A e \in ledger : e.build \in Builds
    BY <1>1 DEF RestOK, Events
  <2> QED BY <1>1, <1>2, <2>1 DEF LedgerSound, Grows
<1>3. CASE ledger' # ledger
  <2>1. PICK s \in Slots : RecordReceipt(s)
    BY <1>3, ZenonT(60) DEF PumpNext, Handler, ChatSend, ChatAnswer, SimulateStart, SimulateEnd, RevalidateStart,
         RevalidatePasses, RevalidateBlocks, ExecuteStart, VerifyStart, Consume, GiveUp, Sign,
         PersistFails, Broadcast, Broadcasted, ReadStatus, ReadHeight, SaveReceipt, MarkFinalized,
         ReconcileFails, Settle, BlockhashExpires, Purge, Suspend, LockScreen, Unlock,
         SwitchStop, Crash, pumpVars, books
  <2> DEFINE e == Event(s)
  <2>2. Duplicates(e) = {} /\ ledger' = ledger \cup {e} /\ chain' = chain
    BY <1>3, <2>1 DEF RecordReceipt, network
  <2>3. e.build = task[s].build /\ chain[task[s].build] = "landed"
    BY <2>1 DEF RecordReceipt, At, BooksInv, BooksOK, Event
  <2>4. \A d \in ledger : d.build # e.build
    BY <2>2 DEF Duplicates
  <2> QED BY <1>1, <2>2, <2>3, <2>4 DEF LedgerSound
<1> QED BY <1>2, <1>3

(* The session a handler writes back.                                      *)
LEMMA EditTruthful ==
  ASSUME NEW m, SessionOK(m), NEW r, NEW l, Truthful(m, r, l), NEW p \in Previews,
         NEW sim \in {"none", "ready", "final"}, NEW d \in MaybeBuild
  PROVE  Truthful([m EXCEPT ![p].sim = sim, ![p].digest = d], r, l)
<1> DEFINE n == [m EXCEPT ![p].sim = sim, ![p].digest = d]
<1>1. SameExecutions(m, n)
  BY SimulationEdit
<1> HIDE DEF n
<1>2. Truthful(n, r, l)
  BY <1>1 DEF SameExecutions, Truthful
<1> QED BY <1>2 DEF n

LEMMA RecordTruthful ==
  ASSUME BooksInv, NEW p \in Previews, NEW b \in Builds, NEW st \in ExecutionStatus,
         st = "finalized" => Counted(b, receipts, ledger)
  PROVE  Truthful(Recorded(p, b, st), receipts, ledger)
<1> DEFINE n == [message EXCEPT ![p].exec = b, ![p].status = st]
<1>1. message \in [Previews -> Messages]
  BY DEF BooksInv, TypeInv, PumpTypeOK
<1>2. n[p].exec = b /\ n[p].status = st /\ \A q \in Previews \ {p} : n[q] = message[q]
  BY <1>1 DEF Messages
<1>3. Truthful(n, receipts, ledger)
  BY <1>2 DEF BooksInv, Truthful
<1> QED BY <1>3 DEF BooksInv, Recorded, Stored

LEMMA StepSession ==
  ASSUME BooksInv, [PumpNext]_pumpVars
  PROVE  Truthful(message', receipts', ledger')
<1>1. TypeInv /\ RestOK /\ Grows /\ SessionOK(message) /\ Truthful(message, receipts, ledger)
  BY StepGrows, TypeParts DEF BooksInv
<1>2. CASE message' = message
  BY <1>1, <1>2, TruthfulGrows
<1>3. ASSUME NEW s \in Slots, ChatAnswer(s) \/ SimulateEnd(s) \/ RevalidatePasses(s) \/ RevalidateBlocks(s)
      PROVE  Truthful(message', receipts', ledger')
  <2>1. /\ SessionOK(task[s].copy) /\ Truthful(task[s].copy, receipts, ledger)
        /\ TaskOK(task[s])
    BY TypeParts DEF BooksInv, BooksOK, TaskOK
  <2>2. \E m : message' = Stored(m) /\ Truthful(m, receipts, ledger)
    <3>1. CASE ChatAnswer(s)
      BY <2>1, <3>1 DEF ChatAnswer
    <3>2. CASE SimulateEnd(s) \/ RevalidatePasses(s) \/ RevalidateBlocks(s)
      <4> DEFINE p == task[s].preview
      <4>1. p \in Previews
        BY <2>1, <3>2 DEF SimulateEnd, RevalidatePasses, RevalidateBlocks, At, TaskOK
      <4>2. \E sim \in {"none", "ready", "final"}, d \in MaybeBuild :
              message' = Stored([task[s].copy EXCEPT ![p].sim = sim, ![p].digest = d])
        BY <3>2 DEF SimulateEnd, RevalidatePasses, RevalidateBlocks, MaybeBuild
      <4>3. PICK sim \in {"none", "ready", "final"}, d \in MaybeBuild :
              message' = Stored([task[s].copy EXCEPT ![p].sim = sim, ![p].digest = d])
        BY <4>2
      <4> DEFINE m == [task[s].copy EXCEPT ![p].sim = sim, ![p].digest = d]
      <4>4. Truthful(m, receipts, ledger)
        BY <2>1, <4>1, EditTruthful
      <4> QED BY <4>3, <4>4
    <3> QED BY <1>3, <3>1, <3>2
  <2>3. Truthful(message', receipts, ledger)
    BY <1>1, <2>2 DEF Stored
  <2> QED BY <1>1, <2>3, TruthfulGrows
<1>4. ASSUME NEW s \in Slots,
             \/ Sign(s) \/ Broadcast(s) \/ Broadcasted(s)
             \/ ReadStatus(s) \/ ReadHeight(s) \/ MarkFinalized(s) \/ ReconcileFails(s),
             message' # message
      PROVE  Truthful(message', receipts', ledger')
  <2>1. TaskOK(task[s]) /\ task[s].pc \in Bearing
    BY <1>4, TypeParts DEF BooksInv, Sign, Broadcast, Broadcasted, ReadStatus, ReadHeight,
                           MarkFinalized, ReconcileFails, At, Bearing
  <2>2. task[s].preview \in Previews /\ task[s].build \in Builds
    BY <2>1 DEF TaskOK, Bearing
  <2>3. \E st \in ExecutionStatus :
          /\ message' = Recorded(task[s].preview, task[s].build, st)
          /\ st = "finalized" => task[s].pc = "confirmed"
    BY <1>4 DEF Sign, Broadcast, Broadcasted, ReadStatus, ReadHeight, MarkFinalized,
                ReconcileFails, Conclude, At, ExecutionStatus
  <2>4. task[s].pc = "confirmed" => Counted(task[s].build, receipts, ledger)
    BY DEF BooksInv, BooksOK, Counted
  <2>5. Truthful(message', receipts, ledger)
    BY <2>2, <2>3, <2>4, RecordTruthful
  <2> QED BY <1>1, <2>5, TruthfulGrows
<1>5. \/ message' = message
      \/ \E s \in Slots : \/ ChatAnswer(s) \/ SimulateEnd(s) \/ RevalidatePasses(s)
                          \/ RevalidateBlocks(s) \/ Sign(s) \/ Broadcast(s) \/ Broadcasted(s)
                          \/ ReadStatus(s) \/ ReadHeight(s) \/ MarkFinalized(s) \/ ReconcileFails(s)
  BY ZenonT(60) DEF PumpNext, Handler, ChatSend, SimulateStart, RevalidateStart, ExecuteStart, VerifyStart,
         Consume, GiveUp, PersistFails, SaveReceipt, RecordReceipt, Settle, BlockhashExpires,
         Purge, Suspend, LockScreen, Unlock, SwitchStop, Crash, pumpVars
<1> QED BY <1>2, <1>3, <1>4, <1>5

LEMMA BooksEarly ==
  ASSUME Grows, NEW t, t.pc \notin {"receipt", "ledger", "confirmed"},
         Truthful(t.copy, receipts, ledger)
  PROVE  BooksOK(t, chain', receipts', ledger')
BY TruthfulGrows DEF BooksOK

LEMMA StartBooks ==
  ASSUME BooksInv, Grows, NEW s \in Slots,
         \/ ChatSend(s)
         \/ \E p \in Previews : \/ SimulateStart(s, p) \/ RevalidateStart(s, p)
                              \/ ExecuteStart(s, p) \/ VerifyStart(s, p)
  PROVE  BooksOK(task'[s], chain', receipts', ledger')
<1>1. /\ TypeInv /\ task \in [Slots -> Tasks] /\ SessionOK(message)
      /\ Truthful(message, receipts, ledger)
  BY TypeParts DEF BooksInv
<1>2. Truthful(Idle.copy, receipts, ledger)
  BY IdleTask DEF Truthful
<1>3. CASE ChatSend(s)
  <2>1. task'[s].pc = "answering" /\ task'[s].copy = message
    BY <1>1, <1>3 DEF ChatSend, Idle
  <2> QED BY <1>1, <2>1, BooksEarly
<1>4. ASSUME NEW p \in Previews, SimulateStart(s, p) \/ RevalidateStart(s, p)
      PROVE  BooksOK(task'[s], chain', receipts', ledger')
  <2>1. PICK pc \in {"simulating", "building"} :
          task' = [task EXCEPT ![s] = [Idle EXCEPT !.pc = pc, !.preview = p, !.copy = Without(p)]]
    BY <1>4 DEF SimulateStart, RevalidateStart
  <2>2. task'[s].pc = pc /\ task'[s].copy = Without(p)
    BY <1>1, <2>1 DEF Idle
  <2>3. Truthful(Without(p), receipts, ledger)
    BY <1>1, EditTruthful DEF Without, MaybeBuild
  <2> QED BY <2>2, <2>3, BooksEarly
<1>5. ASSUME NEW p \in Previews, ExecuteStart(s, p)
      PROVE  BooksOK(task'[s], chain', receipts', ledger')
  <2>1. task'[s].pc = "password" /\ task'[s].copy = Idle.copy
    BY <1>1, <1>5 DEF ExecuteStart, Idle
  <2> QED BY <1>2, <2>1, BooksEarly
<1>6. ASSUME NEW p \in Previews, VerifyStart(s, p)
      PROVE  BooksOK(task'[s], chain', receipts', ledger')
  <2>1. task'[s].pc = "status" /\ task'[s].copy = Idle.copy
    BY <1>1, <1>6 DEF VerifyStart, Idle
  <2> QED BY <1>2, <2>1, BooksEarly
<1> QED BY <1>3, <1>4, <1>5, <1>6

LEMMA HandlerBooks ==
  ASSUME BooksInv, Grows, NEW s \in Slots, Handler(s)
  PROVE  BooksOK(task'[s], chain', receipts', ledger')
<1> DEFINE b == task[s].build
<1>1. /\ TypeInv /\ task \in [Slots -> Tasks] /\ RestOK
      /\ TaskOK(task[s]) /\ BooksOK(task[s], chain, receipts, ledger)
      /\ Truthful(task[s].copy, receipts, ledger)
  BY TypeParts DEF BooksInv, BooksOK
<1>2. CASE \/ ChatSend(s)
           \/ \E p \in Previews : \/ SimulateStart(s, p) \/ RevalidateStart(s, p)
                                \/ ExecuteStart(s, p) \/ VerifyStart(s, p)
  BY <1>2, StartBooks
<1>3. CASE End(s)
  <2>1. task'[s] = Idle /\ Truthful(Idle.copy, receipts, ledger)
    BY <1>1, <1>3, IdleTask DEF End, Truthful
  <2> QED BY <2>1, IdleTask, BooksEarly
<1>4. CASE Consume(s) /\ ~End(s)
  <2>1. task'[s].pc = "signing" /\ task'[s].copy = task[s].copy
    BY <1>1, <1>4 DEF Consume, Tasks
  <2> QED BY <1>1, <2>1, BooksEarly
<1>5. CASE \E pc \in {"signed", "sent", "status", "height"} : Goto(s, pc)
  <2>1. task'[s].pc \in {"signed", "sent", "status", "height"} /\ task'[s].copy = task[s].copy
    BY <1>1, <1>5, GotoMoves DEF Steps
  <2> QED BY <1>1, <2>1, BooksEarly
<1>6. CASE ReadStatus(s) /\ Goto(s, "receipt") /\ chain[b] = "landed"
  <2>1. task'[s].pc = "receipt" /\ task'[s].copy = task[s].copy /\ task'[s].build = b
    BY <1>1, <1>6, GotoMoves DEF Steps
  <2>2. b \in Builds
    BY <1>1, <1>6 DEF TaskOK, ReadStatus, At, Bearing
  <2>3. Truthful(task'[s].copy, receipts', ledger')
    BY <1>1, <2>1, TruthfulGrows
  <2> QED BY <1>6, <2>1, <2>2, <2>3 DEF BooksOK, Grows
<1>7. CASE SaveReceipt(s)
  <2>1. /\ task'[s].pc = "ledger" /\ task'[s].copy = task[s].copy /\ task'[s].build = b
        /\ b \in receipts' /\ chain' = chain
    BY <1>1, <1>7 DEF SaveReceipt, Tasks, network
  <2>2. chain[b] = "landed"
    BY <1>1, <1>7 DEF SaveReceipt, At, BooksOK
  <2>3. Truthful(task'[s].copy, receipts', ledger')
    BY <1>1, <2>1, TruthfulGrows
  <2> QED BY <2>1, <2>2, <2>3 DEF BooksOK
<1>8. CASE RecordReceipt(s)
  <2>1. /\ task'[s].pc = "confirmed" /\ task'[s].copy = task[s].copy /\ task'[s].build = b
        /\ UNCHANGED <<chain, receipts>>
    BY <1>1, <1>8, GotoMoves DEF RecordReceipt, Steps, network
  <2>2. chain[b] = "landed" /\ b \in receipts
    BY <1>1, <1>8 DEF RecordReceipt, At, BooksOK
  <2>3. Event(s).build = b /\ Event(s) \in ledger'
    BY <1>8 DEF RecordReceipt, Event, Duplicates
  <2>4. Truthful(task'[s].copy, receipts', ledger')
    BY <1>1, <2>1, TruthfulGrows
  <2> QED BY <2>1, <2>2, <2>3, <2>4 DEF BooksOK
<1>9. \/ End(s)
      \/ Consume(s)
      \/ \E pc \in {"signed", "sent", "status", "height"} : Goto(s, pc)
      \/ ReadStatus(s) /\ Goto(s, "receipt") /\ chain[b] = "landed"
      \/ SaveReceipt(s) \/ RecordReceipt(s) \/ ChatSend(s)
      \/ \E p \in Previews : \/ SimulateStart(s, p) \/ RevalidateStart(s, p)
                           \/ ExecuteStart(s, p) \/ VerifyStart(s, p)
  BY DEF Handler, ChatAnswer, SimulateEnd, RevalidatePasses, RevalidateBlocks, GiveUp, Sign,
         PersistFails, Broadcast, Broadcasted, ReadStatus, ReadHeight, MarkFinalized,
         ReconcileFails, Conclude
<1> QED BY <1>2, <1>3, <1>4, <1>5, <1>6, <1>7, <1>8, <1>9

LEMMA StepBooks == BooksInv /\ [PumpNext]_pumpVars => BooksInv'
<1> SUFFICES ASSUME BooksInv, [PumpNext]_pumpVars PROVE BooksInv'
  OBVIOUS
<1>1. /\ TypeInv /\ TypeInv' /\ Grows /\ LedgerSound'
      /\ Truthful(message', receipts', ledger')
      /\ task \in [Slots -> Tasks]
  BY StepType, StepGrows, StepLedger, StepSession, TypeParts DEF BooksInv
<1>2. \A t \in Slots : BooksOK(task[t], chain', receipts', ledger')
  <2>1. \A t \in Slots : TaskOK(task[t]) /\ BooksOK(task[t], chain, receipts, ledger)
    BY TypeParts DEF BooksInv
  <2> QED BY <1>1, <2>1, BooksGrow
<1>3. \A t \in Slots : BooksOK(task'[t], chain', receipts', ledger')
  <2>1. ASSUME NEW s \in Slots, Handler(s)
        PROVE  \A t \in Slots : BooksOK(task'[t], chain', receipts', ledger')
    <3>1. BooksOK(task'[s], chain', receipts', ledger')
      BY <1>1, <2>1, HandlerBooks
    <3>2. \A t \in Slots \ {s} : task'[t] = task[t]
      BY <1>1, <2>1, HandlerMoves
    <3> QED BY <1>2, <3>1, <3>2
  <2>2. CASE Crash
    <3>1. \A t \in Slots : task'[t] = Idle
      BY <2>2 DEF Crash
    <3>2. Truthful(Idle.copy, receipts, ledger) /\ Idle.pc = "idle"
      BY IdleTask DEF Truthful
    <3> QED BY <1>1, <3>1, <3>2, BooksEarly
  <2>3. CASE task' = task
    BY <1>2, <2>3
  <2>4. (\E s \in Slots : Handler(s)) \/ Crash \/ task' = task
    BY DEF PumpNext, Settle, BlockhashExpires, Purge, Suspend, LockScreen, Unlock, SwitchStop, pumpVars
  <2> QED BY <2>1, <2>2, <2>3, <2>4
<1> QED BY <1>1, <1>3 DEF BooksInv

LEMMA InitBooks == PumpInit => BooksInv
<1> SUFFICES ASSUME PumpInit PROVE BooksInv
  OBVIOUS
<1>1. TypeInv /\ ledger = {}
  BY InitType DEF PumpInit
<1>2. Truthful(message, receipts, ledger)
  BY DEF PumpInit, Truthful, Blank
<1>3. \A s \in Slots : BooksOK(task[s], chain, receipts, ledger)
  <2>1. Truthful(Idle.copy, receipts, ledger) /\ Idle.pc = "idle"
    BY IdleTask DEF Truthful
  <2> QED BY <2>1 DEF PumpInit, BooksOK
<1> QED BY <1>1, <1>2, <1>3 DEF BooksInv, LedgerSound

LEMMA BooksAlways == PumpSpec => []BooksInv
BY InitBooks, StepBooks, PTL DEF PumpSpec

(* The ledger counts a signature once, and only one that took effect.      *)
THEOREM LedgerCorrect == PumpSpec => []LedgerSound
<1>1. BooksInv => LedgerSound
  BY DEF BooksInv
<1> QED BY <1>1, BooksAlways, PTL

(* What a session shows as finalized is stored and counted.                *)
THEOREM FinalizedCorrect == PumpSpec => []FinalizedIsCounted
<1>1. BooksInv => FinalizedIsCounted
  BY DEF BooksInv, Truthful, Counted, FinalizedIsCounted
<1> QED BY <1>1, BooksAlways, PTL

-----------------------------------------------------------------------------
(* The promise *)

LEMMA ApprovalIs ==
  /\ Approval = [b \in Builds |-> IF b \notin built THEN "none"
                                 ELSE IF Held(b) THEN "granted" ELSE "over"]
  /\ Approval' = [b \in Builds |-> IF b \notin built' THEN "none"
                                  ELSE IF Held(b)' THEN "granted" ELSE "over"]
BY DEF Approval

(* What is no longer held is withdrawn.                                    *)
LEMMA WithdrawStep ==
  ASSUME ExclusiveInv, UNCHANGED <<built, broadcasts, Landed, CountedBuilds>>,
         \A b \in Builds : Held(b)' => Held(b)
  PROVE  Promise!ApprovalNext
<1> DEFINE B == {b \in Builds : Held(b) /\ ~Held(b)'}
<1>1. \A b \in Builds : Held(b) => b \in built
  BY DEF ExclusiveInv, ExclusiveOK
<1>2. \A b \in B : Approval[b] = "granted"
  BY <1>1, ApprovalIs
<1>3. Approval' = [b \in Builds |-> IF b \in B THEN "over" ELSE Approval[b]]
  BY <1>1, ApprovalIs
<1>4. B \in SUBSET Builds
  OBVIOUS
<1> HIDE DEF B
<1>5. Promise!Withdraw(B)
  BY <1>2, <1>3 DEF Promise!Withdraw
<1> QED BY <1>4, <1>5 DEF Promise!ApprovalNext

(* A new approval takes the place of the one its proposal had.             *)
LEMMA GrantStep ==
  ASSUME ExclusiveInv, ExclusiveInv', NEW s \in Slots, RevalidatePasses(s)
  PROVE  Promise!ApprovalNext
<1> DEFINE p == task[s].preview
           B == {b \in Builds : final[p] = b}
<1>1. /\ TypeInv /\ task \in [Slots -> Tasks] /\ final \in [Previews -> MaybeBuild]
      /\ p \in Previews /\ task[s].pc \notin Holding
  BY TypeParts DEF ExclusiveInv, RestOK, RevalidatePasses, At, TaskOK, Holding
<1>2. PICK c \in Builds \ built : built' = built \cup {c} /\ final' = [final EXCEPT ![p] = c]
  BY DEF RevalidatePasses
<1>3. UNCHANGED <<broadcasts, Landed, CountedBuilds>>
  BY DEF RevalidatePasses, network, books, Landed, CountedBuilds
<1>4. \A t \in Slots, b \in Builds : HeldBy(t, b)' <=> HeldBy(t, b)
  <2>1. \A t \in Slots \ {s} : task'[t] = task[t]
    BY <1>1, HandlerMoves DEF Handler
  <2>2. task'[s].pc \notin Holding
    BY <1>1 DEF RevalidatePasses, End, Idle, Holding
  <2> QED BY <1>1, <2>1, <2>2 DEF HeldBy
<1>5. \A b \in Builds : Held(b)' <=> \/ \E q \in Previews : final'[q] = b
                                    \/ \E t \in Slots : HeldBy(t, b)'
  BY DEF Held, HeldBy, Holding
<1>6. \A b \in Builds : Held(b) => b \in built
  BY DEF ExclusiveInv, ExclusiveOK
<1>7. \A b \in B : Held(b) /\ b \in built
  BY <1>1, <1>6, HeldWhere
<1>8. final'[p] = c /\ \A q \in Previews \ {p} : final'[q] = final[q]
  BY <1>1, <1>2
<1>9. c \notin B /\ Held(c)'
  BY <1>1, <1>2, <1>5, <1>7, <1>8
<1>10. \A b \in B : ~Held(b)'
  <2> SUFFICES ASSUME NEW b \in B PROVE ~Held(b)'
    OBVIOUS
  <2>1. ExclusiveOK(b) /\ final[p] = b /\ b # c
    BY <1>9 DEF ExclusiveInv
  <2>2. \A q \in Previews : final'[q] # b
    BY <1>1, <1>8, <2>1 DEF ExclusiveOK
  <2>3. \A t \in Slots : ~HeldBy(t, b)'
    BY <1>1, <1>4, <2>1 DEF ExclusiveOK
  <2> QED BY <1>5, <2>2, <2>3
<1>11. \A b \in Builds \ (B \cup {c}) : Held(b)' <=> Held(b)
  BY <1>1, <1>4, <1>5, <1>8, HeldWhere
<1>12. Approval[c] = "none" /\ \A b \in B : Approval[b] = "granted"
  BY <1>2, <1>7, ApprovalIs
<1>13. Approval' = [b \in Builds |-> CASE b = c -> "granted"
                                      [] b \in B -> "over"
                                      [] OTHER -> Approval[b]]
  <2>1. \A b \in Builds : Approval'[b] = IF b = c THEN "granted"
                                      ELSE IF b \in B THEN "over" ELSE Approval[b]
    BY <1>2, <1>7, <1>9, <1>10, <1>11, ApprovalIs
  <2>2. Approval' = [b \in Builds |-> IF b = c THEN "granted"
                                    ELSE IF b \in B THEN "over" ELSE Approval[b]]
    BY <2>1, ApprovalIs
  <2>3. \A b \in Builds : (IF b = c THEN "granted" ELSE IF b \in B THEN "over" ELSE Approval[b])
                          = CASE b = c -> "granted"
                              [] b \in B -> "over"
                              [] OTHER -> Approval[b]
    BY <1>9
  <2> QED BY <2>2, <2>3
<1>14. B \in SUBSET Builds
  OBVIOUS
<1> HIDE DEF B
<1>15. Promise!Grant(c, B)
  BY <1>3, <1>12, <1>13 DEF Promise!Grant
<1> QED BY <1>2, <1>14, <1>15 DEF Promise!ApprovalNext

LEMMA SpendStep ==
  ASSUME ExclusiveInv, ExclusiveInv', NEW s \in Slots, Broadcast(s)
  PROVE  Promise!ApprovalNext
<1>0. PICK c \in Builds : c = task[s].build
  BY TypeParts DEF ExclusiveInv, Broadcast, At, TaskOK, Bearing
<1>1. /\ TypeInv /\ task \in [Slots -> Tasks] /\ TaskOK(task[s]) /\ RestOK
      /\ HeldBy(s, c) /\ c \in Builds
  BY <1>0, TypeParts DEF ExclusiveInv, Broadcast, At, Holding, HeldBy
<1>2. ExclusiveOK(c) /\ Held(c)
  BY <1>1, HeldWhere DEF ExclusiveInv
<1>3. c \in built /\ broadcasts[c] = 0
  BY <1>2 DEF ExclusiveOK
<1>4. UNCHANGED <<built, final, ledger>> /\ broadcasts' = [broadcasts EXCEPT ![c] = 1]
  BY <1>0, <1>1, <1>3 DEF Broadcast, approvals, books, RestOK
<1>5. UNCHANGED <<Landed, CountedBuilds>>
  <2>1. \A b \in Builds : chain'[b] = "landed" <=> chain[b] = "landed"
    BY <1>0, <1>1 DEF Broadcast, RestOK
  <2>2. Landed' = Landed
    BY <2>1 DEF Landed
  <2>3. CountedBuilds' = CountedBuilds
    BY <1>4 DEF CountedBuilds
  <2> QED BY <2>2, <2>3
<1>6. ~Held(c)'
  <2>1. (Held(c) => broadcasts[c] = 0)'
    BY DEF ExclusiveInv, ExclusiveOK
  <2>2. broadcasts'[c] = 1
    BY <1>1, <1>4 DEF RestOK
  <2> QED BY <2>1, <2>2
<1>7. \A b \in Builds \ {c} : Held(b)' <=> Held(b)
  <2>1. task'[s].pc = "sent" /\ \A t \in Slots \ {s} : task'[t] = task[t]
    BY <1>1, HandlerMoves, GotoMoves DEF Handler, Broadcast, Steps
  <2>2. \A b \in Builds \ {c}, t \in Slots : HeldBy(t, b)' <=> HeldBy(t, b)
    BY <1>0, <2>1 DEF HeldBy, Holding
  <2>3. \A b \in Builds : Held(b)' <=> \/ \E q \in Previews : final'[q] = b
                                      \/ \E t \in Slots : HeldBy(t, b)'
    BY DEF Held, HeldBy, Holding
  <2>4. final' = final
    BY <1>4
  <2> SUFFICES ASSUME NEW b \in Builds \ {c} PROVE Held(b)' <=> Held(b)
    OBVIOUS
  <2> QED BY <2>2, <2>3, <2>4, HeldWhere
<1>8. Approval[c] = "granted" /\ Approval' = [Approval EXCEPT ![c] = "over"]
  BY <1>1, <1>2, <1>3, <1>4, <1>6, <1>7, ApprovalIs
<1>9. Promise!Spend(c)
  BY <1>3, <1>4, <1>5, <1>8 DEF Promise!Spend
<1> QED BY <1>1, <1>9 DEF Promise!ApprovalNext

LEMMA LandStep ==
  ASSUME ExclusiveInv, NEW b \in Builds, Settle(b)
  PROVE  Promise!ApprovalNext
<1>1. RestOK /\ broadcasts[b] = 1 /\ chain[b] = "pending"
  BY TypeParts DEF ExclusiveInv, ExclusiveOK, Settle
<1>2. UNCHANGED <<built, final, task, broadcasts, ledger>>
  BY DEF Settle, approvals, books
<1>3. \A c : Held(c)' <=> Held(c)
  BY <1>2 DEF Held
<1>4. Approval' = Approval /\ CountedBuilds' = CountedBuilds
  <2>1. Approval' = Approval
    BY <1>2, <1>3, ApprovalIs
  <2>2. CountedBuilds' = CountedBuilds
    BY <1>2 DEF CountedBuilds
  <2> QED BY <2>1, <2>2
<1>5. CASE chain' = [chain EXCEPT ![b] = "landed"]
  <2>1. \A c \in Builds : chain'[c] = "landed" <=> c = b \/ chain[c] = "landed"
    BY <1>1, <1>5 DEF RestOK
  <2>2. Landed' = Landed \cup {b} /\ b \notin Landed
    BY <1>1, <2>1 DEF Landed
  <2>3. Promise!Land(b)
    BY <1>1, <1>2, <1>4, <2>2 DEF Promise!Land
  <2> QED BY <2>3 DEF Promise!ApprovalNext
<1>6. CASE chain' = [chain EXCEPT ![b] = "reverted"]
  <2>1. \A c \in Builds : chain'[c] = "landed" <=> chain[c] = "landed"
    BY <1>1, <1>6 DEF RestOK
  <2>2. Landed' = Landed
    BY <2>1 DEF Landed
  <2> QED BY <1>2, <1>3, <1>4, <2>2, WithdrawStep
<1> QED BY <1>5, <1>6 DEF Settle

LEMMA CountStep ==
  ASSUME ExclusiveInv, BooksInv, NEW s \in Slots, RecordReceipt(s)
  PROVE  Promise!ApprovalNext \/ UNCHANGED Promise!approvalVars
<1>0. PICK b \in Builds : b = task[s].build
  BY TypeParts DEF ExclusiveInv, RecordReceipt, At, TaskOK, Bearing
<1>1. /\ TypeInv /\ task \in [Slots -> Tasks] /\ RestOK /\ b \in Landed
      /\ Event(s).build = b /\ task[s].pc \notin Holding
  BY <1>0, TypeParts DEF BooksInv, BooksOK, RecordReceipt, At, Landed, Event, Holding
<1>2. UNCHANGED <<built, final, broadcasts, chain>>
  BY DEF RecordReceipt, approvals, network
<1>3. \A c : Held(c)' <=> Held(c)
  <2>1. task'[s].pc = "confirmed" /\ \A t \in Slots \ {s} : task'[t] = task[t]
    BY <1>1, HandlerMoves, GotoMoves DEF Handler, RecordReceipt, Steps
  <2>2. \A t \in Slots : \A c : HeldBy(t, c)' <=> HeldBy(t, c)
    BY <1>1, <2>1 DEF HeldBy, Holding
  <2>3. \A c : Held(c)' <=> \/ \E q \in Previews : final'[q] = c
                           \/ \E t \in Slots : HeldBy(t, c)'
    BY DEF Held, HeldBy, Holding
  <2>4. final' = final
    BY <1>2
  <2> SUFFICES ASSUME NEW c PROVE Held(c)' <=> Held(c)
    OBVIOUS
  <2> QED BY <2>2, <2>3, <2>4, HeldWhere
<1>4. UNCHANGED <<Approval, Landed>>
  <2>1. Approval' = Approval
    BY <1>2, <1>3, ApprovalIs
  <2> QED BY <1>2, <2>1 DEF Landed
<1>5. CASE ledger' = ledger
  <2>1. CountedBuilds' = CountedBuilds
    BY <1>5 DEF CountedBuilds
  <2> QED BY <1>2, <1>4, <2>1 DEF Promise!approvalVars
<1>6. CASE ledger' # ledger
  <2>1. Duplicates(Event(s)) = {} /\ ledger' = ledger \cup {Event(s)}
    BY <1>6 DEF RecordReceipt
  <2>2. \A d \in ledger : d.build # b
    BY <1>1, <2>1 DEF Duplicates
  <2>3. b \notin CountedBuilds
    BY <2>2 DEF CountedBuilds
  <2>4. CountedBuilds' = CountedBuilds \cup {b}
    BY <1>1, <2>1 DEF CountedBuilds
  <2>5. Promise!Count(b)
    BY <1>1, <1>2, <1>4, <2>3, <2>4 DEF Promise!Count
  <2> QED BY <2>5 DEF Promise!ApprovalNext
<1> QED BY <1>5, <1>6

(* A transaction is newly held only by a revalidation; Consume passes it   *)
(* from the approval to its handler.                                       *)
LEMMA HeldShrinks ==
  ASSUME TypeInv, [PumpNext]_pumpVars, ~\E s \in Slots : RevalidatePasses(s)
  PROVE  \A b \in Builds : Held(b)' => Held(b)
<1> SUFFICES ASSUME NEW b \in Builds, Held(b)' PROVE Held(b)
  OBVIOUS
<1>1. RestOK /\ task \in [Slots -> Tasks] /\ b # None
  BY TypeParts, PumpAssumption
<1>2. CASE \E q \in Previews : final'[q] = b
  <2>1. PICK q \in Previews : final'[q] = b
    BY <1>2
  <2>2. CASE \E s \in Slots : Consume(s)
    <3>1. PICK s \in Slots : Consume(s)
      BY <2>2
    <3>2. final' = [final EXCEPT ![task[s].preview] = None]
      BY <3>1 DEF Consume, AfterConsume
    <3> QED BY <1>1, <2>1, <3>2, HeldWhere DEF RestOK
  <2>3. CASE \E p \in Previews : Purge(p)
    BY <1>1, <2>1, <2>3, HeldWhere DEF Purge, RestOK
  <2>4. CASE Suspend \/ Crash
    BY <1>1, <2>1, <2>4 DEF Suspend, Crash, Clear
  <2>5. CASE final' = final
    BY <2>1, <2>5, HeldWhere
  <2>6. \/ \E s \in Slots : Consume(s)
        \/ \E p \in Previews : Purge(p)
        \/ Suspend \/ Crash \/ final' = final
    BY ZenonT(60) DEF PumpNext, Handler, ChatSend, ChatAnswer, SimulateStart, SimulateEnd, RevalidateStart,
       RevalidateBlocks, ExecuteStart, VerifyStart, GiveUp, Sign, PersistFails, Broadcast,
       Broadcasted, ReadStatus, ReadHeight, SaveReceipt, RecordReceipt, MarkFinalized,
       ReconcileFails, Settle, BlockhashExpires, LockScreen, Unlock, SwitchStop, pumpVars, approvals
  <2> QED BY <2>2, <2>3, <2>4, <2>5, <2>6
<1>3. CASE \E t \in Slots : HeldBy(t, b)'
  <2>1. PICK t \in Slots : HeldBy(t, b)'
    BY <1>3
  <2>2. CASE \E s \in Slots : Handler(s)
    <3>1. PICK s \in Slots : Handler(s)
      BY <2>2
    <3>2. CASE t # s
      BY <2>1, <3>1, <3>2, HandlerMoves, HeldWhere DEF HeldBy
    <3>3. CASE t = s /\ ~Consume(s)
      BY <2>1, <3>1, <3>3, HandlerHolds, HeldWhere
    <3>4. CASE t = s /\ Consume(s)
      <4>1. CASE End(s)
        BY <1>1, <2>1, <3>4, <4>1 DEF End, HeldBy, Idle, Holding
      <4>2. CASE ~End(s)
        <5>1. /\ task' = [task EXCEPT ![s].pc = "signing", ![s].build = final[task[s].preview]]
              /\ task[s].preview \in Previews
          BY <1>1, <3>4, <4>2, TypeParts DEF Consume, At, TaskOK
        <5>2. task'[s].build = final[task[s].preview]
          BY <1>1, <5>1 DEF Tasks
        <5> QED BY <2>1, <3>4, <5>1, <5>2, HeldWhere DEF HeldBy
      <4> QED BY <4>1, <4>2
    <3> QED BY <3>2, <3>3, <3>4
  <2>3. CASE Crash
    BY <1>1, <2>1, <2>3 DEF Crash, HeldBy, Idle, Holding
  <2>4. CASE task' = task
    BY <2>1, <2>4, HeldWhere DEF HeldBy
  <2>5. (\E s \in Slots : Handler(s)) \/ Crash \/ task' = task
    BY DEF PumpNext, Settle, BlockhashExpires, Purge, Suspend, LockScreen, Unlock, SwitchStop, pumpVars
  <2> QED BY <2>2, <2>3, <2>4, <2>5
<1>4. Held(b)' <=> (\E q \in Previews : final'[q] = b) \/ \E t \in Slots : HeldBy(t, b)'
  BY DEF Held, HeldBy, Holding
<1> QED BY <1>2, <1>3, <1>4

LEMMA StepPromise ==
  ASSUME ExclusiveInv, ExclusiveInv', BooksInv, [PumpNext]_pumpVars
  PROVE  Promise!ApprovalNext \/ UNCHANGED Promise!approvalVars
<1>1. TypeInv /\ RestOK
  BY TypeParts DEF ExclusiveInv
<1>2. CASE \E s \in Slots : RevalidatePasses(s) \/ Broadcast(s) \/ RecordReceipt(s)
  BY <1>2, GrantStep, SpendStep, CountStep
<1>3. CASE \E b \in Builds : Settle(b)
  BY <1>3, LandStep
<1>4. CASE /\ ~\E s \in Slots : RevalidatePasses(s) \/ Broadcast(s) \/ RecordReceipt(s)
           /\ ~\E b \in Builds : Settle(b)
  <2>1. UNCHANGED <<built, broadcasts, chain, ledger>>
    BY <1>4, ZenonT(60) DEF PumpNext, Handler, ChatSend, ChatAnswer, SimulateStart, SimulateEnd, RevalidateStart,
       RevalidateBlocks, ExecuteStart, VerifyStart, Consume, GiveUp, Sign, PersistFails,
       Broadcasted, ReadStatus, ReadHeight, SaveReceipt, MarkFinalized, ReconcileFails,
       BlockhashExpires, Purge, Suspend, LockScreen, Unlock, SwitchStop, Crash, Clear,
       pumpVars, approvals, network, books
  <2>2. Landed' = Landed /\ CountedBuilds' = CountedBuilds
    <3>1. Landed' = Landed
      BY <2>1 DEF Landed
    <3>2. CountedBuilds' = CountedBuilds
      BY <2>1 DEF CountedBuilds
    <3> QED BY <3>1, <3>2
  <2>3. \A b \in Builds : Held(b)' => Held(b)
    BY <1>4, HeldShrinks DEF ExclusiveInv
  <2> QED BY <2>1, <2>2, <2>3, WithdrawStep
<1> QED BY <1>2, <1>3, <1>4

LEMMA InitPromise == PumpInit => Promise!ApprovalInit
<1> SUFFICES ASSUME PumpInit PROVE Promise!ApprovalInit
  OBVIOUS
<1>1. Approval = [b \in Builds |-> "none"]
  BY ApprovalIs DEF PumpInit
<1>2. broadcasts = [b \in Builds |-> 0]
  BY DEF PumpInit
<1>3. Landed = {}
  BY DEF PumpInit, Landed
<1>4. CountedBuilds = {}
  BY DEF PumpInit, CountedBuilds
<1> QED BY <1>1, <1>2, <1>3, <1>4 DEF Promise!ApprovalInit

(* Everything the lane does to approvals, the network and the ledger is a  *)
(* behaviour of Approvals.                                                 *)
THEOREM PromiseKept == PumpSpec => KeepsPromise
<1>1. /\ ExclusiveInv /\ ExclusiveInv' /\ BooksInv /\ [PumpNext]_pumpVars
      => [Promise!ApprovalNext]_(Promise!approvalVars)
  BY StepPromise
<1> QED BY <1>1, InitPromise, ExclusiveAlways, BooksAlways, PTL
        DEF PumpSpec, KeepsPromise, Promise!ApprovalSpec
=============================================================================
