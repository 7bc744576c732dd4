-------------------------------- MODULE Pump --------------------------------
(***************************************************************************)
(* The Pump lane of the desktop program: the request handlers that         *)
(* simulate, revalidate, execute and verify a trade proposal, the          *)
(* approvals prepared in memory, the encrypted session they all write      *)
(* whole, the receipt store and the risk ledger.                           *)
(*                                                                         *)
(* A handler is a task; one action is the code between two awaits on the   *)
(* network or on the password. Awaits on the local stores are not split.   *)
(***************************************************************************)
EXTENDS Naturals, FiniteSets

CONSTANTS Previews, \* trade proposals, one per message of a session
          Builds,   \* unsigned transactions: digest, signature, execution id
          None,     \* stands for what is undefined
          Slots,    \* handlers in flight at once
          Instants  \* milliseconds at which receipts are reconciled

ASSUME PumpAssumption ==
  /\ None \notin Builds \cup Previews \cup Instants

VARIABLES message,    \* what the encrypted session holds for each proposal
          prepared,   \* proposals with a prepared simulation
          final,      \* the transaction awaiting its password, per proposal
          task,       \* the handlers in flight
          broadcasts, \* sendTransaction calls, per transaction
          chain,      \* what became of a transaction on chain
          stale,      \* transactions whose blockhash has expired
          built,      \* transactions built so far
          receipts,   \* execution ids with a stored receipt
          ledger,     \* events of the risk ledger
          unlocked,   \* the keystore is unlocked
          stop        \* the emergency stop is engaged

approvals == <<prepared, final, built>>
network == <<broadcasts, chain, stale>>
books == <<receipts, ledger>>
switches == <<unlocked, stop>>
pumpVars == <<message, approvals, task, network, books, switches>>

MaybeBuild == Builds \cup {None}

ExecutionStatus ==
  {"none", "signed-not-broadcast", "broadcast-unknown", "finalized", "failed"}

Messages ==
  [sim : {"none", "ready", "final"}, digest : MaybeBuild,
   exec : MaybeBuild, status : ExecutionStatus]

Blank == [sim |-> "none", digest |-> None, exec |-> None, status |-> "none"]

(* Where a handler awaits. The first line belongs to the handlers that     *)
(* write back the session they read, the second to pumpExecute, the third  *)
(* to reconcilePumpExecution, which execute, verify and recovery share.    *)
Steps == {"idle", "answering", "simulating", "building",
          "password", "signing", "signed", "sent",
          "status", "height", "receipt", "ledger", "confirmed"}

Tasks == [pc : Steps, preview : Previews \cup {None}, build : MaybeBuild,
          copy : [Previews -> Messages], verify : BOOLEAN, stamp : Instants \cup {None}]

Events == [build : Builds, at : Instants]

(* Kept fields of an ended handler would only tell equal states apart.     *)
Idle == [pc |-> "idle", preview |-> None,
         build |-> None, copy |-> [p \in Previews |-> Blank],
         verify |-> FALSE, stamp |-> None]

PumpInit ==
  /\ message = [p \in Previews |-> Blank]
  /\ prepared = {}
  /\ final = [p \in Previews |-> None]
  /\ task = [s \in Slots |-> Idle]
  /\ broadcasts = [b \in Builds |-> 0]
  /\ chain = [b \in Builds |-> "unsent"]
  /\ stale = {}
  /\ built = {}
  /\ receipts = {}
  /\ ledger = {}
  /\ unlocked = FALSE
  /\ stop = FALSE

-----------------------------------------------------------------------------
(* Handlers *)

At(s, pc) == task[s].pc = pc
InFlight(pc, p) == \E s \in Slots : At(s, pc) /\ task[s].preview = p
Goto(s, pc) == task' = [task EXCEPT ![s].pc = pc]
End(s) == task' = [task EXCEPT ![s] = Idle]

(* A store that cannot be written while the vault is locked.               *)
Stored(m) == IF unlocked THEN m ELSE message

(* persistPumpExecution: a fresh read of the session, one field replaced.  *)
Recorded(p, b, st) == Stored([message EXCEPT ![p].exec = b, ![p].status = st])

(* A chat exchange: the window saves its copy of the session with the      *)
(* user's message, and the same copy again when the answer has arrived.    *)
ChatSend(s) ==
  /\ At(s, "idle")
  /\ ~InFlight("answering", None)
  /\ unlocked
  /\ task' = [task EXCEPT ![s] = [Idle EXCEPT !.pc = "answering", !.copy = message]]
  /\ UNCHANGED <<message, approvals, network, books, switches>>

ChatAnswer(s) ==
  /\ At(s, "answering")
  /\ message' = Stored(task[s].copy)
  /\ End(s)
  /\ UNCHANGED <<approvals, network, books, switches>>

(* The session as read, but for the simulation the handler will replace.   *)
Without(p) == [message EXCEPT ![p].sim = "none", ![p].digest = None]

(* pumpSimulate, up to its requests and after them. It may be repeated at  *)
(* any time, after an execution too.                                       *)
SimulateStart(s, p) ==
  /\ At(s, "idle")
  /\ unlocked
  /\ ~InFlight("simulating", p)
  /\ task' = [task EXCEPT ![s] = [Idle EXCEPT !.pc = "simulating", !.preview = p,
                                              !.copy = Without(p)]]
  /\ UNCHANGED <<message, approvals, network, books, switches>>

SimulateEnd(s) ==
  LET p == task[s].preview IN
  /\ At(s, "simulating")
  /\ \E ready \in BOOLEAN :
       /\ prepared' = IF ready THEN prepared \cup {p} ELSE prepared
       /\ message' = Stored([task[s].copy EXCEPT
                        ![p].sim = IF ready THEN "ready" ELSE "none",
                        ![p].digest = None])
  /\ End(s)
  /\ UNCHANGED <<final, built, network, books, switches>>

(* pumpFinalRevalidate: the prepared simulation is used up before the      *)
(* risk limits are read and the transaction is built again.                *)
RevalidateStart(s, p) ==
  /\ At(s, "idle")
  /\ unlocked
  /\ ~stop
  /\ message[p].sim \in {"ready", "final"}
  /\ p \in prepared
  /\ prepared' = prepared \ {p}
  /\ ~InFlight("building", p)
  /\ task' = [task EXCEPT ![s] = [Idle EXCEPT !.pc = "building", !.preview = p,
                                              !.copy = Without(p)]]
  /\ UNCHANGED <<message, final, built, network, books, switches>>

RevalidatePasses(s) ==
  LET p == task[s].preview IN
  /\ At(s, "building")
  /\ \E b \in Builds \ built :
       /\ built' = built \cup {b}
       /\ final' = [final EXCEPT ![p] = b]
       /\ message' = Stored([task[s].copy EXCEPT ![p].sim = "final", ![p].digest = b])
  /\ End(s)
  /\ UNCHANGED <<prepared, network, books, switches>>

RevalidateBlocks(s) ==
  LET p == task[s].preview IN
  /\ At(s, "building")
  /\ message' = Stored([task[s].copy EXCEPT ![p].sim = "ready", ![p].digest = None])
  /\ End(s)
  /\ UNCHANGED <<approvals, network, books, switches>>

(* pumpExecute: the stop is read before the password is verified, the      *)
(* session after it.                                                       *)
ExecuteStart(s, p) ==
  /\ At(s, "idle")
  /\ unlocked
  /\ ~stop
  /\ task' = [task EXCEPT ![s] = [Idle EXCEPT !.pc = "password", !.preview = p]]
  /\ UNCHANGED <<message, approvals, network, books, switches>>

(* A slip: the digests are compared and the approval is kept.              *)
AfterConsumeMutant(p) == final

(* What consumeFinal leaves for a later call: nothing.                     *)
AfterConsume(p) == [final EXCEPT ![p] = None]

Consume(s) ==
  LET p == task[s].preview
      b == final[p]
  IN
  /\ At(s, "password")
  /\ unlocked
  /\ message[p].sim = "final"
  /\ message[p].exec = None
  /\ final' = AfterConsume(p)
  /\ IF b \in Builds /\ b = message[p].digest
     THEN task' = [task EXCEPT ![s].pc = "signing", ![s].build = b]
     ELSE End(s)
  /\ UNCHANGED <<message, prepared, built, network, books, switches>>

(* Every throw that changes nothing, and the early return of a recorded    *)
(* execution.                                                              *)
GiveUp(s) ==
  /\ task[s].pc \in {"simulating", "building", "password", "signing"}
  /\ End(s)
  /\ UNCHANGED <<message, approvals, network, books, switches>>

(* The signature is derived and persisted before the broadcast.            *)
Sign(s) ==
  /\ At(s, "signing")
  /\ unlocked
  /\ message' = Recorded(task[s].preview, task[s].build, "signed-not-broadcast")
  /\ Goto(s, "signed")
  /\ UNCHANGED <<approvals, network, books, switches>>

(* A write that the lock makes throw ends the handler.                     *)
PersistFails(s) ==
  /\ task[s].pc \in {"signed", "sent"}
  /\ ~unlocked
  /\ End(s)
  /\ UNCHANGED <<message, approvals, network, books, switches>>

(* It is marked as unknown, then sent. The node may have taken it or not;  *)
(* either way the answer may be lost, and the record still says unknown.   *)
Broadcast(s) ==
  LET b == task[s].build IN
  /\ At(s, "signed")
  /\ unlocked
  /\ message' = Recorded(task[s].preview, b, "broadcast-unknown")
  /\ broadcasts' = [broadcasts EXCEPT ![b] = @ + 1]
  /\ \/ chain' = [chain EXCEPT ![b] = IF @ = "unsent" THEN "pending" ELSE @]
     \/ UNCHANGED chain
  /\ Goto(s, "sent")
  /\ UNCHANGED <<approvals, stale, books, switches>>

Broadcasted(s) ==
  /\ At(s, "sent")
  /\ unlocked
  /\ message' = Recorded(task[s].preview, task[s].build, "broadcast-unknown")
  /\ Goto(s, "status")
  /\ UNCHANGED <<approvals, network, books, switches>>

(* pumpVerifyExecution, and one record of recoverPendingPumpExecutions.    *)
VerifyStart(s, p) ==
  /\ At(s, "idle")
  /\ unlocked
  /\ message[p].status \in {"signed-not-broadcast", "broadcast-unknown"}
  /\ task' = [task EXCEPT ![s] = [Idle EXCEPT !.pc = "status", !.preview = p,
                                  !.build = message[p].exec, !.verify = TRUE]]
  /\ UNCHANGED <<message, approvals, network, books, switches>>

-----------------------------------------------------------------------------
(* Reconciliation *)

Conclude(s, st) ==
  /\ message' = Recorded(task[s].preview, task[s].build, st)
  /\ End(s)

(* getSignatureStatuses knows a transaction once it is on chain, and says  *)
(* "finalized" some time later.                                            *)
ReadStatus(s) ==
  LET b == task[s].build IN
  /\ At(s, "status")
  /\ \/ chain[b] = "landed" /\ Goto(s, "receipt") /\ UNCHANGED message
     \/ chain[b] = "landed" /\ Conclude(s, "broadcast-unknown")
     \/ chain[b] = "reverted" /\ Conclude(s, "failed")
     \/ chain[b] \in {"unsent", "pending"} /\ Goto(s, "height") /\ UNCHANGED message
  /\ UNCHANGED <<approvals, network, books, switches>>

ReadHeight(s) ==
  /\ At(s, "height")
  /\ Conclude(s, IF task[s].build \in stale THEN "failed" ELSE "broadcast-unknown")
  /\ UNCHANGED <<approvals, network, books, switches>>

(* A slip: the receipt is stored, the ledger is left to a later call.      *)
SaveReceiptMutant(s) ==
  /\ At(s, "receipt")
  /\ unlocked
  /\ receipts' = receipts \cup {task[s].build}
  /\ Goto(s, "confirmed")
  /\ UNCHANGED <<message, approvals, network, ledger, switches>>

(* The settlement is read, stamped with the present time and stored; the   *)
(* ledger follows. Two reconciliations may fall on one millisecond or not. *)
SaveReceipt(s) ==
  /\ At(s, "receipt")
  /\ unlocked
  /\ receipts' = receipts \cup {task[s].build}
  /\ \E now \in Instants :
       task' = [task EXCEPT ![s].pc = "ledger", ![s].stamp = now]
  /\ UNCHANGED <<message, approvals, network, ledger, switches>>

(* A slip: the event is made before the receipt has its time.              *)
EventMutant(s) == [build |-> task[s].build, at |-> None]

Event(s) == [build |-> task[s].build, at |-> task[s].stamp]

(* A slip: receipts are compared whole instead of by signature.            *)
DuplicatesMutant(e) == ledger \cap {e}

Duplicates(e) == {d \in ledger : d.build = e.build}

RecordReceipt(s) ==
  LET e == Event(s) IN
  /\ At(s, "ledger")
  /\ unlocked
  /\ \/ Duplicates(e) = {} /\ ledger' = ledger \cup {e}
     \/ e \in Duplicates(e) /\ UNCHANGED ledger
  /\ Goto(s, "confirmed")
  /\ UNCHANGED <<message, approvals, network, receipts, switches>>

MarkFinalized(s) ==
  /\ At(s, "confirmed")
  /\ Conclude(s, "finalized")
  /\ UNCHANGED <<approvals, network, books, switches>>

(* A request or a store fails, or the ledger has another event for the     *)
(* signature: execute keeps the record, verify and recovery rewrite it.    *)
ReconcileFails(s) ==
  /\ task[s].pc \in {"status", "height", "receipt", "ledger"}
  /\ IF task[s].verify
     THEN Conclude(s, "broadcast-unknown")
     ELSE End(s) /\ UNCHANGED message
  /\ UNCHANGED <<approvals, network, books, switches>>

-----------------------------------------------------------------------------
(* The chain, the clock and the user *)

Settle(b) ==
  /\ chain[b] = "pending"
  /\ b \notin stale
  /\ \E c \in {"landed", "reverted"} : chain' = [chain EXCEPT ![b] = c]
  /\ UNCHANGED <<message, approvals, task, broadcasts, stale, books, switches>>

(* It matters while the transaction may still land, or a height is read.   *)
BlockhashExpires(b) ==
  /\ b \in built \ stale
  /\ \/ chain[b] \in {"unsent", "pending"}
     \/ \E s \in Slots : At(s, "height") /\ task[s].build = b
  /\ stale' = stale \cup {b}
  /\ UNCHANGED <<message, approvals, task, broadcasts, chain, books, switches>>

(* #purge: what has outlived its 90 or 60 seconds.                         *)
Purge(p) ==
  /\ \/ p \in prepared /\ prepared' = prepared \ {p} /\ UNCHANGED final
     \/ /\ final[p] # None
        /\ final' = [final EXCEPT ![p] = None]
        /\ UNCHANGED prepared
  /\ UNCHANGED <<message, built, task, network, books, switches>>

Clear ==
  /\ prepared' = {}
  /\ final' = [p \in Previews |-> None]
  /\ UNCHANGED built

Suspend ==
  /\ Clear
  /\ unlocked' = FALSE
  /\ UNCHANGED <<message, task, network, books, stop>>

LockScreen ==
  /\ unlocked
  /\ unlocked' = FALSE
  /\ UNCHANGED <<message, approvals, task, network, books, stop>>

Unlock ==
  /\ ~unlocked
  /\ unlocked' = TRUE
  /\ UNCHANGED <<message, approvals, task, network, books, stop>>

SwitchStop ==
  /\ unlocked
  /\ stop' = ~stop
  /\ UNCHANGED <<message, approvals, task, network, books, unlocked>>

Crash ==
  /\ Clear
  /\ task' = [s \in Slots |-> Idle]
  /\ unlocked' = FALSE
  /\ UNCHANGED <<message, network, books, stop>>

Handler(s) ==
  \/ ChatSend(s) \/ ChatAnswer(s)
  \/ SimulateEnd(s) \/ RevalidatePasses(s) \/ RevalidateBlocks(s)
  \/ Consume(s) \/ GiveUp(s) \/ Sign(s) \/ PersistFails(s)
  \/ Broadcast(s) \/ Broadcasted(s)
  \/ ReadStatus(s) \/ ReadHeight(s) \/ SaveReceipt(s) \/ RecordReceipt(s)
  \/ MarkFinalized(s) \/ ReconcileFails(s)
  \/ \E p \in Previews : \/ SimulateStart(s, p) \/ RevalidateStart(s, p)
                         \/ ExecuteStart(s, p) \/ VerifyStart(s, p)

PumpNext ==
  \/ \E s \in Slots : Handler(s)
  \/ \E b \in Builds : Settle(b) \/ BlockhashExpires(b)
  \/ \E p \in Previews : Purge(p)
  \/ Suspend \/ LockScreen \/ Unlock \/ SwitchStop \/ Crash

PumpSpec == PumpInit /\ [][PumpNext]_pumpVars

-----------------------------------------------------------------------------
(* Properties *)

(* Types. Only what was built can grow stale, and an event of the risk     *)
(* ledger bears the time of its reconciliation.                            *)
PumpTypeOK ==
  /\ message \in [Previews -> Messages]
  /\ prepared \subseteq Previews
  /\ final \in [Previews -> MaybeBuild]
  /\ task \in [Slots -> Tasks]
  /\ broadcasts \in [Builds -> Nat]
  /\ chain \in [Builds -> {"unsent", "pending", "landed", "reverted"}]
  /\ stale \subseteq built
  /\ built \subseteq Builds
  /\ receipts \subseteq Builds
  /\ ledger \subseteq Events
  /\ unlocked \in BOOLEAN
  /\ stop \in BOOLEAN

(* "A fresh final revalidation, master password, and exact manual          *)
(* confirmation are required before one broadcast attempt": handlers that  *)
(* race, repeat or outlive a lock never submit one approved transaction    *)
(* twice (consumeFinal).                                                   *)
OneBroadcast == \A b \in Builds : broadcasts[b] <= 1

(* The risk ledger counts a signature once, however many reconciliations   *)
(* of it run, and only a transaction that took effect (recordFinalized).   *)
LedgerSound ==
  /\ \A e \in ledger : chain[e.build] = "landed"
  /\ \A d, e \in ledger : d.build = e.build => d = e

(* A session that shows an execution as finalized has its receipt stored   *)
(* and its spend counted, through crashes between the stores and through   *)
(* writes of an old copy of the session (reconcilePumpExecution).          *)
FinalizedIsCounted ==
  \A p \in Previews : message[p].status = "finalized" =>
    /\ message[p].exec \in receipts
    /\ \E e \in ledger : e.build = message[p].exec

(* What the lane does with approvals is what Approvals promises.           *)
Held(b) ==
  \/ \E p \in Previews : final[p] = b
  \/ \E s \in Slots : /\ task[s].build = b
                      /\ task[s].pc \in {"signing", "signed"}

Approval == [b \in Builds |-> CASE b \notin built -> "none"
                                [] b \in built /\ Held(b) -> "granted"
                                [] OTHER -> "over"]

Landed == {b \in Builds : chain[b] = "landed"}
CountedBuilds == {e.build : e \in ledger}

Promise == INSTANCE Approvals WITH
  approval <- Approval, spends <- broadcasts, landed <- Landed, counted <- CountedBuilds

KeepsPromise == Promise!ApprovalSpec

(* "Mirae persists the locally derived signature before the network call", *)
(* so that what was broadcast can be verified later: the session holds the *)
(* signature of every transaction the network may have.                    *)
SignatureKept ==
  \A b \in Builds : broadcasts[b] > 0 => \E p \in Previews : message[p].exec = b

(* "Keep the encrypted signature available for the next recovery pass": a  *)
(* transaction whose settlement is reconciled again gives the risk ledger  *)
(* the event it already has, so that the pass can conclude.                *)
RecoveryCanConclude ==
  \A s \in Slots : At(s, "ledger") => \A d \in Duplicates(Event(s)) : d = Event(s)

(* WorkspacePanels.tsx:89, engaging the emergency stop "Immediately clears *)
(* prepared Pump transactions": no final approval outlives it.             *)
StopInvalidates == [][~stop /\ stop' => \A p \in Previews : final'[p] = None]_pumpVars
=============================================================================
