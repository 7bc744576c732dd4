----------------------------- MODULE LimitOrders -----------------------------
(***************************************************************************)
(* A Jupiter limit order of the desktop: one message of a session, whose   *)
(* deposit and whose withdrawal are each simulated, authorized and         *)
(* verified. The prepared simulations live in the process, the receipts in *)
(* the session record, which every handler, the background reconciliation  *)
(* and the window replace as a whole from the copy they took before their  *)
(* awaits.                                                                 *)
(***************************************************************************)
EXTENDS Naturals

CONSTANTS Sims,    \* simulations, each with a transaction of its own
          Workers, \* calls of the window in flight
          NoSim    \* stands for what is undefined

ASSUME LimitAssumption == NoSim \notin Sims

VARIABLES record,    \* the message in the encrypted session record
          card,      \* the message in the window
          prepared,  \* simulations that may be authorized
          sent,      \* how often the transaction of a simulation was sent
          fate,      \* what became of it
          work,      \* what is in flight
          vaultOpen

messages == <<record, card>>
outside == <<sent, fate>>
limitVars == <<messages, prepared, outside, work, vaultOpen>>

Legs == {"deposit", "withdrawal"}
MaybeSims == Sims \cup {NoSim}
OrderReceipts == [status : {"none", "done", "failed", "unknown"}, tx : MaybeSims]
NoReceipt == [status |-> "none", tx |-> NoSim]
(* sim is the simulation of a leg that passed; done is active or cancelled. *)
LimitMessages == [Legs -> [sim : MaybeSims, receipt : OrderReceipts]]
NewMessage == [l \in Legs |-> [sim |-> NoSim, receipt |-> NoReceipt]]

Stages == {"idle", "simulating", "authorizing", "ordering", "ordered",
           "showing", "verifying", "reconciling"}
LimitWork == [pc : Stages, leg : Legs, sim : MaybeSims, view : LimitMessages,
               copy : LimitMessages, receipt : OrderReceipts, todo : SUBSET Legs]
NoWork == [pc |-> "idle", leg |-> "deposit", sim |-> NoSim, view |-> NewMessage,
           copy |-> NewMessage, receipt |-> NoReceipt, todo |-> {}]

LimitInit ==
  /\ record = NewMessage
  /\ card = NewMessage
  /\ prepared = {}
  /\ sent = [s \in Sims |-> 0]
  /\ fate = [s \in Sims |-> "none"]
  /\ work = [t \in Workers |-> NoWork]
  /\ vaultOpen = TRUE

Busy(t) == work[t].pc # "idle"
EndWork(t) == work' = [work EXCEPT ![t] = NoWork]
StartWork(t, r) ==
  /\ ~Busy(t)
  /\ work' = [work EXCEPT ![t] = r]

WithSim(m, l, s) == [m EXCEPT ![l].sim = s]
WithReceipt(m, l, r) == [m EXCEPT ![l].receipt = r]

(* upsert replaces the record, and is refused when the vault is locked.    *)
Replace(m) == record' = IF vaultOpen THEN m ELSE record
ReplaceBoth(m) == IF vaultOpen THEN record' = m /\ card' = m ELSE UNCHANGED messages

-----------------------------------------------------------------------------
(* What the card of the message offers: the first of these that applies.   *)

MayWithdraw(m) == m["withdrawal"].receipt = NoReceipt /\ m["withdrawal"].sim # NoSim
MayReviewCancel(m) ==
  /\ m["withdrawal"].receipt = NoReceipt /\ ~MayWithdraw(m)
  /\ m["deposit"].receipt.status = "done"
MayDeposit(m) ==
  /\ m["withdrawal"].receipt = NoReceipt /\ ~MayWithdraw(m)
  /\ m["deposit"].receipt = NoReceipt /\ m["deposit"].sim # NoSim
MayReviewDeposit(m) ==
  /\ m["withdrawal"].receipt = NoReceipt
  /\ ~MayWithdraw(m) /\ ~MayReviewCancel(m) /\ ~MayDeposit(m)

MayExecute(m, l) == IF l = "deposit" THEN MayDeposit(m) ELSE MayWithdraw(m)
MaySimulate(m, l) == IF l = "deposit" THEN MayReviewDeposit(m) ELSE MayReviewCancel(m)
Working(l, pcs) == \E t \in Workers : work[t].pc \in pcs /\ work[t].leg = l

-----------------------------------------------------------------------------
(* Simulation *)

Simulate(t, l) ==
  /\ vaultOpen /\ MaySimulate(card, l)
  /\ ~Working(l, {"simulating"})
  /\ StartWork(t, [NoWork EXCEPT !.pc = "simulating", !.leg = l, !.view = card])
  /\ UNCHANGED <<messages, prepared, outside, vaultOpen>>

SimulationPasses(t, s) ==
  /\ work[t].pc = "simulating"
  /\ fate[s] = "none" /\ s \notin prepared
  /\ \A m \in {record, card} : \A l \in Legs : m[l].sim # s
  /\ \A q \in Workers : work[q].sim # s
  /\ prepared' = prepared \cup {s}
  /\ ReplaceBoth(WithSim(work[t].view, work[t].leg, s))
  /\ EndWork(t)
  /\ UNCHANGED <<outside, vaultOpen>>

SimulationBlocked(t) ==
  /\ work[t].pc = "simulating"
  /\ ReplaceBoth(WithSim(work[t].view, work[t].leg, NoSim))
  /\ EndWork(t)
  /\ UNCHANGED <<prepared, outside, vaultOpen>>

SimulationExpires(s) ==
  /\ s \in prepared
  /\ prepared' = prepared \ {s}
  /\ UNCHANGED <<messages, outside, work, vaultOpen>>

-----------------------------------------------------------------------------
(* Authorization *)

Authorize(t, l) ==
  /\ vaultOpen /\ MayExecute(card, l)
  /\ ~Working(l, {"authorizing", "ordering", "ordered", "showing"})
  /\ StartWork(t, [NoWork EXCEPT !.pc = "authorizing", !.leg = l,
                                 !.sim = card[l].sim, !.view = card])
  /\ UNCHANGED <<messages, prepared, outside, vaultOpen>>

(* After the password the record is read and the simulation is taken.      *)
Submitted(l) == record[l].receipt # NoReceipt
Matching(l, s) ==
  /\ record[l].sim = s
  /\ l = "withdrawal" => record["deposit"].receipt.tx # NoSim

LeftPreparedMutant(s) == prepared
LeftPrepared(s) == prepared \ {s}

Take(t) ==
  LET l == work[t].leg  s == work[t].sim IN
  /\ work[t].pc = "authorizing"
  /\ vaultOpen /\ Matching(l, s) /\ ~Submitted(l)
  /\ s \in prepared
  /\ prepared' = LeftPrepared(s)
  /\ work' = [work EXCEPT ![t].pc = "ordering", ![t].copy = record]
  /\ UNCHANGED <<messages, outside, vaultOpen>>

(* A wrong password, a missing record, a policy that no longer passes.     *)
Refuse(t) ==
  /\ work[t].pc \in {"authorizing", "ordering"}
  /\ EndWork(t)
  /\ UNCHANGED <<messages, prepared, outside, vaultOpen>>

(* The signed transaction goes to Jupiter, which answers or does not; when *)
(* it does not, the transaction may have been sent or not.                 *)
SentReceipt(s, answered) ==
  [status |-> "unknown", tx |-> IF answered THEN s ELSE NoSim]

SendOrder(t, arrives, answered) ==
  LET s == work[t].sim IN
  /\ work[t].pc = "ordering" /\ vaultOpen
  /\ answered => arrives
  /\ sent[s] < 2
  /\ IF arrives
     THEN /\ sent' = [sent EXCEPT ![s] = @ + 1]
          /\ fate' = [fate EXCEPT ![s] = IF @ = "none" THEN "pending" ELSE @]
     ELSE UNCHANGED outside
  /\ work' = [work EXCEPT ![t].pc = "ordered", ![t].receipt = SentReceipt(s, answered)]
  /\ UNCHANGED <<messages, prepared, vaultOpen>>

(* The first verification only ever confirms.                              *)
StoreReceipt(t, confirmed) ==
  LET r == work[t].receipt
      new == IF confirmed THEN [r EXCEPT !.status = "done"] ELSE r IN
  /\ work[t].pc = "ordered"
  /\ confirmed => r.tx # NoSim /\ fate[r.tx] = "landed"
  /\ Replace(WithReceipt(work[t].copy, work[t].leg, new))
  /\ IF vaultOpen
     THEN work' = [work EXCEPT ![t].pc = "showing", ![t].receipt = new]
     ELSE EndWork(t)
  /\ UNCHANGED <<card, prepared, outside, vaultOpen>>

ShowReceipt(t) ==
  /\ work[t].pc = "showing"
  /\ ReplaceBoth(WithReceipt(work[t].view, work[t].leg, work[t].receipt))
  /\ EndWork(t)
  /\ UNCHANGED <<prepared, outside, vaultOpen>>

-----------------------------------------------------------------------------
(* Verification of a receipt, and its reconciliation in the background     *)

(* A failed read, like a transaction not yet found, leaves unknown.        *)
VerdictsMutant(s) == {"unknown", "failed"} \cup (IF fate[s] = "landed" THEN {"done"} ELSE {})
Verdicts(s) ==
  {"unknown"} \cup (CASE fate[s] = "landed" -> {"done"}
                      [] fate[s] = "failed" -> {"failed"}
                      [] OTHER -> {})

Unsettled(m, l) == m[l].receipt.status = "unknown" /\ m[l].receipt.tx # NoSim

Verify(t, l) ==
  /\ vaultOpen /\ Unsettled(card, l)
  /\ record[l].receipt.tx = card[l].receipt.tx
  /\ ~Working(l, {"verifying"})
  /\ StartWork(t, [NoWork EXCEPT !.pc = "verifying", !.leg = l, !.copy = record])
  /\ UNCHANGED <<messages, prepared, outside, vaultOpen>>

Verified(t, verdict) ==
  LET l == work[t].leg
      new == [work[t].copy[l].receipt EXCEPT !.status = verdict] IN
  /\ work[t].pc = "verifying"
  /\ verdict \in Verdicts(new.tx)
  /\ Replace(WithReceipt(work[t].copy, l, new))
  /\ card' = IF vaultOpen THEN WithReceipt(card, l, new) ELSE card
  /\ EndWork(t)
  /\ UNCHANGED <<prepared, outside, vaultOpen>>

(* Listing the sessions starts the reconciliation, unless it is running.   *)
ListSessions(t) ==
  LET pending == {l \in Legs : Unsettled(record, l)} IN
  /\ vaultOpen
  /\ card' = record
  /\ IF pending # {} /\ \A q \in Workers : work[q].pc # "reconciling"
     THEN StartWork(t, [NoWork EXCEPT !.pc = "reconciling", !.copy = record, !.todo = pending])
     ELSE UNCHANGED work
  /\ UNCHANGED <<record, prepared, outside, vaultOpen>>

Reconcile(t, l, verdict) ==
  /\ work[t].pc = "reconciling"
  /\ l \in work[t].todo /\ ("deposit" \in work[t].todo => l = "deposit")
  /\ verdict \in Verdicts(work[t].copy[l].receipt.tx)
  /\ work' = [work EXCEPT ![t].todo = @ \ {l}, ![t].copy[l].receipt.status = verdict]
  /\ UNCHANGED <<messages, prepared, outside, vaultOpen>>

Reconciled(t) ==
  /\ work[t].pc = "reconciling" /\ work[t].todo = {}
  /\ Replace(work[t].copy)
  /\ EndWork(t)
  /\ UNCHANGED <<card, prepared, outside, vaultOpen>>

-----------------------------------------------------------------------------
(* The chain, the lock and the restart *)

Settle(s, outcome) ==
  /\ fate[s] = "pending"
  /\ fate' = [fate EXCEPT ![s] = outcome]
  /\ UNCHANGED <<messages, prepared, sent, work, vaultOpen>>

LockLimits ==
  /\ vaultOpen
  /\ vaultOpen' = FALSE
  /\ UNCHANGED <<messages, prepared, outside, work>>

UnlockLimits ==
  /\ ~vaultOpen
  /\ vaultOpen' = TRUE
  /\ card' = record
  /\ UNCHANGED <<record, prepared, outside, work>>

RestartLimits ==
  /\ prepared' = {}
  /\ work' = [t \in Workers |-> NoWork]
  /\ vaultOpen' = FALSE
  /\ UNCHANGED <<messages, outside>>

LimitNext ==
  \/ \E t \in Workers :
       \/ \E l \in Legs : Simulate(t, l) \/ Authorize(t, l) \/ Verify(t, l)
       \/ \E s \in Sims : SimulationPasses(t, s)
       \/ \E arrives, answered \in BOOLEAN : SendOrder(t, arrives, answered)
       \/ \E confirmed \in BOOLEAN : StoreReceipt(t, confirmed)
       \/ \E verdict \in {"done", "failed", "unknown"} :
            Verified(t, verdict) \/ \E l \in Legs : Reconcile(t, l, verdict)
       \/ SimulationBlocked(t) \/ Take(t) \/ Refuse(t) \/ ShowReceipt(t)
       \/ ListSessions(t) \/ Reconciled(t)
  \/ \E s \in Sims : SimulationExpires(s) \/ \E outcome \in {"landed", "failed"} : Settle(s, outcome)
  \/ LockLimits \/ UnlockLimits \/ RestartLimits

LimitSpec == LimitInit /\ [][LimitNext]_limitVars

-----------------------------------------------------------------------------
(* Properties *)

LimitTypeOK ==
  /\ {record, card} \subseteq LimitMessages
  /\ prepared \subseteq Sims
  /\ sent \in [Sims -> 0..2]
  /\ fate \in [Sims -> {"none", "pending", "landed", "failed"}]
  /\ work \in [Workers -> LimitWork]
  /\ vaultOpen \in BOOLEAN

(* limit-order.test.ts:15, "the exact cached transaction is signed once":  *)
(* however calls overlap and whatever copy of the session they go by.      *)
SentOnce == \A s \in Sims : sent[s] <= 1

(* No receipt, of the window or of the record, contradicts the chain: one *)
(* that says active or cancelled has its transaction on chain, one that   *)
(* says failed has it failed, whichever old copy was written back.         *)
LimitReceiptsTrue == \A m \in {record, card}, l \in Legs :
  LET r == m[l].receipt IN
  /\ r.status = "done" => r.tx # NoSim /\ fate[r.tx] = "landed"
  /\ r.status = "failed" => r.tx # NoSim /\ fate[r.tx] = "failed"

-----------------------------------------------------------------------------
(* Statements of the program that do not hold *)

(* limit-order.ts:107, "Cancellation simulation approval expired; run a    *)
(* new simulation", and limit-order.ts:50: the card offers one.            *)
NewSimulationOffered == \A l \in Legs :
  /\ vaultOpen /\ \A t \in Workers : ~Busy(t)
  /\ MayExecute(card, l) /\ card[l].sim \notin prepared
  => MaySimulate(card, l)
=============================================================================
