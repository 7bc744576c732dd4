------------------------------ MODULE EvmSwap ------------------------------
(***************************************************************************)
(* Swaps on EVM chains proposed in a session: the window's card, the       *)
(* handlers that prepare and execute, the quotes and preflights kept in    *)
(* memory, the encrypted receipts and their reconciliation.                *)
(*                                                                         *)
(* A call from the window is a task; one action is the code between two    *)
(* awaits at which something else can change what the task reads next.     *)
(***************************************************************************)
EXTENDS Naturals, Sequences, FiniteSets

CONSTANTS Swaps,       \* swap proposals, one per message of a session
          Native,      \* those that pay in the chain's own currency
          Requotable,  \* those whose provider builds a quote more than once
          Preflights,  \* preflights, each with its transaction
          None,        \* stands for what is undefined
          Slots,       \* calls in flight at once
          Kinds        \* sessions to explore: with or without Full Access,
                       \* with or without chat while a call is in flight

ASSUME EvmSwapAssumption ==
  /\ None \notin Preflights \cup Swaps
  /\ Native \subseteq Swaps
  /\ Requotable \subseteq Swaps
  /\ Kinds \subseteq [full : BOOLEAN, chatty : BOOLEAN]

VARIABLES quote,     \* quotes that can be built
          preflight, \* what was prepared, and whether it is still retained
          receipts,  \* the encrypted receipt store
          chain,     \* what became of a transaction on chain
          allowed,   \* swaps whose spender has its allowance on chain
          shown,     \* the message of a swap in the window
          stored,    \* the same message in the encrypted session
          modal,     \* the preflight whose password dialog is open
          chat,      \* the copy an unanswered chat request will write back
          told,      \* preflights reported as not submitted
          task,      \* calls in flight
          recon,     \* unknown receipts a reconciliation has listed
          unlocked, signing, stop, \* the vault, the signing session, the stop
          kind       \* of the session the swaps are proposed in

lane == <<quote, preflight, receipts>>
network == <<chain, allowed>>
window == <<shown, stored, modal, chat, told>>
gates == <<unlocked, signing, stop, kind>>
swapVars == <<lane, network, window, task, recon, gates>>

Decisions == {"unknown", "confirmed", "reverted"}
Receipts == [of : Preflights, status : Decisions]
Messages == [card : Preflights \cup {None}, receipts : Seq(Receipts)]
Blank == [card |-> None, receipts |-> <<>>]

(* "building" is the await of a preparation, the next line those of an     *)
(* execution. round counts the preparations of a Full Access run; seen is  *)
(* false once the window that waits for the answer has been replaced.      *)
Steps == {"idle", "building",
          "verifying", "starting", "checking", "saving", "waiting"}
Tasks == [pc : Steps, swap : Swaps \cup {None}, of : Preflights \cup {None},
          round : 0..2, seen : BOOLEAN]
Idle == [pc |-> "idle", swap |-> None, of |-> None, round |-> 0, seen |-> TRUE]

SwapInit ==
  /\ quote = Swaps
  /\ preflight = [p \in Preflights |-> [swap |-> None, action |-> "none", kept |-> FALSE]]
  /\ receipts = [p \in Preflights |-> "none"]
  /\ chain = [p \in Preflights |-> "unsent"]
  /\ allowed = Native
  /\ shown = [s \in Swaps |-> Blank]
  /\ stored = shown
  /\ modal = None
  /\ chat = None
  /\ told = {}
  /\ task = [i \in Slots |-> Idle]
  /\ recon = {}
  /\ unlocked = TRUE
  /\ kind \in Kinds
  /\ signing = kind.full
  /\ stop = FALSE

-----------------------------------------------------------------------------
(* The card *)

At(i, pc) == task[i].pc = pc

(* What the window knows to be in flight: a workspace that was mounted     *)
(* anew knows nothing of the calls of the one it has replaced.             *)
Shows(i, s) == task[i].seen /\ task[i].swap = s
Preparing(s) == \E i \in Slots : At(i, "building") /\ Shows(i, s)
Executing(s) == \E i \in Slots : ~At(i, "idle") /\ ~At(i, "building") /\ Shows(i, s)
End(i) == task' = [task EXCEPT ![i] = Idle]
Goto(i, pc) == task' = [task EXCEPT ![i].pc = pc]

SwapConfirmed(m) == \E n \in DOMAIN m.receipts :
  m.receipts[n].status = "confirmed" /\ preflight[m.receipts[n].of].action = "swap"
LatestUnknownMutant(m) == FALSE
LatestUnknown(m) ==
  m.receipts # <<>> /\ m.receipts[Len(m.receipts)].status = "unknown"

(* An answer changes the message in the window and saves it.               *)
Show(i, m) ==
  LET s == task[i].swap IN
  /\ shown' = IF task[i].seen THEN [shown EXCEPT ![s] = m] ELSE shown
  /\ stored' = IF task[i].seen /\ unlocked THEN [stored EXCEPT ![s] = m] ELSE stored

Report(i, p) ==
  /\ told' = IF task[i].seen THEN told \cup {p} ELSE told
  /\ UNCHANGED <<shown, stored, modal, chat>>

-----------------------------------------------------------------------------
(* Preparation *)

PrepareAllowed(s) == unlocked /\ ~SwapConfirmed(stored[s]) /\ s \in quote

RequestPrepare(i, s) ==
  /\ At(i, "idle")
  /\ ~kind.full
  /\ shown[s].card = None
  /\ ~SwapConfirmed(shown[s])
  /\ ~LatestUnknown(shown[s])
  /\ ~Preparing(s)
  /\ PrepareAllowed(s)
  /\ task' = [task EXCEPT ![i] = [Idle EXCEPT !.pc = "building", !.swap = s]]
  /\ UNCHANGED <<lane, network, window, recon, gates>>

(* A proposal that arrives in a Full Access session is run at once.        *)
StartFullAccess(i, s) ==
  /\ At(i, "idle")
  /\ kind.full
  /\ \A j \in Slots : task[j].swap # s
  /\ \A p \in Preflights : preflight[p].swap # s
  /\ PrepareAllowed(s)
  /\ task' = [task EXCEPT ![i] = [Idle EXCEPT !.pc = "building", !.swap = s, !.round = 1]]
  /\ UNCHANGED <<lane, network, window, recon, gates>>

(* What a Full Access run does with a fresh preflight.                     *)
ProceedsMutant(round, action) == round \in {1, 2}
Proceeds(round, action) == round = 1 \/ (round = 2 /\ action = "swap")

QuoteAfterBuild(s) == IF s \in Requotable THEN quote ELSE quote \ {s}

(* A node that lags behind does not show the allowance yet.                *)
NeededActions(s) ==
  IF s \in Native THEN {"swap"}
  ELSE {"approval"} \cup {a \in {"swap"} : s \in allowed}

PrepareDone(i, p) ==
  LET s == task[i].swap IN
  /\ At(i, "building")
  /\ preflight[p].swap = None
  /\ quote' = QuoteAfterBuild(s)
  /\ Show(i, [shown[s] EXCEPT !.card = p])
  /\ \E action \in NeededActions(s) :
       /\ preflight' = [preflight EXCEPT ![p] = [swap |-> s, action |-> action, kept |-> TRUE]]
       /\ IF Proceeds(task[i].round, action)
          THEN task' = [task EXCEPT ![i].pc = "starting", ![i].of = p]
          ELSE End(i)
  /\ UNCHANGED <<receipts, network, modal, chat, told, recon, gates>>

(* The provider, a policy, the simulation or a balance refuses.            *)
PrepareFails(i) ==
  /\ At(i, "building")
  /\ quote' \in {quote, QuoteAfterBuild(task[i].swap)}
  /\ End(i)
  /\ UNCHANGED <<preflight, receipts, network, window, recon, gates>>

-----------------------------------------------------------------------------
(* Execution *)

OpenDialog(s) ==
  /\ ~kind.full
  /\ shown[s].card # None
  /\ ~SwapConfirmed(shown[s])
  /\ ~Executing(s)
  /\ modal = None
  /\ modal' = shown[s].card
  /\ UNCHANGED <<lane, network, shown, stored, chat, told, task, recon, gates>>

CloseDialog ==
  /\ modal # None
  /\ modal' = None
  /\ UNCHANGED <<lane, network, shown, stored, chat, told, task, recon, gates>>

(* The stop is read before the password is verified, and not afterwards.   *)
SubmitDialog(i) ==
  /\ At(i, "idle")
  /\ modal # None
  /\ modal' = None
  /\ IF unlocked /\ ~stop
     THEN /\ task' = [task EXCEPT ![i] = [Idle EXCEPT !.pc = "verifying", !.of = modal,
                                            !.swap = preflight[modal].swap]]
          /\ told' = told
     ELSE told' = told \cup {modal} /\ task' = task
  /\ UNCHANGED <<lane, network, shown, stored, chat, recon, gates>>

(* KyberSwapPreflightService.consume                                       *)
ConsumeMutant(p) == preflight' = preflight
Consume(p) == preflight' = [preflight EXCEPT ![p].kept = FALSE]

PasswordVerified(i) ==
  LET p == task[i].of IN
  /\ At(i, "verifying")
  /\ Consume(p)
  /\ IF preflight[p].kept
     THEN Goto(i, "checking") /\ UNCHANGED window
     ELSE End(i) /\ Report(i, p)
  /\ UNCHANGED <<quote, receipts, network, recon, gates>>

(* evmExecuteFullAccessKyberSwap, its last check and executeFullAccess     *)
StartUnattended(i) ==
  LET p == task[i].of IN
  /\ At(i, "starting")
  /\ unlocked /\ signing /\ ~stop
  /\ Consume(p)
  /\ IF preflight[p].kept
     THEN Goto(i, "checking") /\ UNCHANGED window
     ELSE End(i) /\ Report(i, p)
  /\ UNCHANGED <<quote, receipts, network, recon, gates>>

(* A wrong password, a missing signing session, a changed chain, a higher  *)
(* fee, a balance too low, a locked vault: the call ends before the send.  *)
ExecutionRefused(i) ==
  /\ At(i, "verifying") \/ At(i, "starting") \/ At(i, "checking")
  /\ End(i)
  /\ Report(i, task[i].of)
  /\ UNCHANGED <<lane, network, recon, gates>>

(* Simulated again, signed and sent. A send that throws may have reached   *)
(* the node all the same.                                                  *)
Send(i) ==
  LET p == task[i].of IN
  /\ At(i, "checking")
  /\ unlocked
  /\ preflight[p].action = "swap" => task[i].swap \in allowed
  /\ chain' = [chain EXCEPT ![p] = "pending"]
  /\ \/ Goto(i, "saving") /\ UNCHANGED window
     \/ End(i) /\ Report(i, p)
  /\ UNCHANGED <<lane, allowed, recon, gates>>

SavePending(i) ==
  LET p == task[i].of IN
  /\ At(i, "saving")
  /\ IF unlocked
     THEN /\ receipts' = [receipts EXCEPT ![p] = "unknown"]
          /\ Goto(i, "waiting") /\ UNCHANGED window
     ELSE receipts' = receipts /\ End(i) /\ Report(i, p)
  /\ UNCHANGED <<quote, preflight, network, recon, gates>>

OutcomeMutant(p) == chain[p]
Outcome(p) == IF chain[p] = "success" THEN "confirmed" ELSE "reverted"
DecidedMutant(p) == chain[p] # "unsent"
Decided(p) == chain[p] \in {"success", "reverted"}

(* The window keeps the receipt it was answered and drops the preflight;   *)
(* a Full Access run goes on from a confirmed approval.                    *)
Answer(i, status) ==
  LET p == task[i].of
      s == task[i].swap IN
  /\ Show(i, [card |-> None, receipts |->
                Append(shown[s].receipts, [of |-> p, status |-> status])])
  /\ UNCHANGED <<modal, chat, told>>
  /\ IF /\ task[i].round = 1
        /\ status = "confirmed"
        /\ preflight[p].action = "approval"
        /\ PrepareAllowed(s)
     THEN task' = [task EXCEPT ![i].pc = "building", ![i].of = None, ![i].round = 2]
     ELSE End(i)

ReceiptArrives(i) ==
  LET p == task[i].of IN
  /\ At(i, "waiting")
  /\ Decided(p)
  /\ unlocked
  /\ receipts' = [receipts EXCEPT ![p] = Outcome(p)]
  /\ Answer(i, Outcome(p))
  /\ UNCHANGED <<quote, preflight, network, recon, gates>>

(* The wait times out, or the vault is locked when the receipt is saved.   *)
ReceiptMissed(i) ==
  /\ At(i, "waiting")
  /\ Answer(i, "unknown")
  /\ UNCHANGED <<lane, network, recon, gates>>

-----------------------------------------------------------------------------
(* Reconciliation of the receipt store *)

ReconcileList ==
  /\ unlocked
  /\ recon = {}
  /\ recon' = {p \in Preflights : receipts[p] = "unknown"}
  /\ recon' # {}
  /\ UNCHANGED <<lane, network, window, task, gates>>

ReconcileOne(p) ==
  /\ p \in recon
  /\ Decided(p) /\ unlocked
  /\ recon' = recon \ {p}
  /\ receipts' = [receipts EXCEPT ![p] = Outcome(p)]
  /\ UNCHANGED <<quote, preflight, network, window, task, gates>>

(* Slip: the listed receipt is saved again to refresh its time.            *)
ReconcileSkipsMutant(p) ==
  /\ p \in recon /\ unlocked
  /\ recon' = recon \ {p}
  /\ receipts' = [receipts EXCEPT ![p] = "unknown"]
  /\ UNCHANGED <<quote, preflight, network, window, task, gates>>

(* No receipt yet: skipped. A failed request or a locked vault ends it.    *)
ReconcileSkips(p) ==
  /\ p \in recon
  /\ recon' \in {recon \ {p}, {}}
  /\ UNCHANGED <<lane, network, window, task, gates>>

-----------------------------------------------------------------------------
(* Chat, vault, stop, time and the chain *)

(* The window sends the session as it is, and after the answer writes that *)
(* copy back, whatever has happened to the message since.                  *)
ChatSend ==
  /\ kind.chatty
  /\ chat = None
  /\ unlocked
  /\ chat' = shown
  /\ UNCHANGED <<lane, network, shown, stored, modal, told, task, recon, gates>>

ChatAnswer ==
  /\ chat # None
  /\ unlocked
  /\ shown' = chat
  /\ stored' = chat
  /\ chat' = None
  /\ UNCHANGED <<lane, network, modal, told, task, recon, gates>>

Lock ==
  /\ unlocked
  /\ unlocked' = FALSE
  /\ signing' = FALSE
  /\ UNCHANGED <<lane, network, window, task, recon, stop, kind>>

(* The unlock screen has replaced the workspace, which is mounted anew.    *)
Unlock ==
  /\ ~unlocked
  /\ unlocked' = TRUE
  /\ signing' = kind.full
  /\ shown' = stored
  /\ modal' = None
  /\ chat' = None
  /\ task' = [i \in Slots |-> IF At(i, "idle") THEN Idle ELSE [task[i] EXCEPT !.seen = FALSE]]
  /\ UNCHANGED <<lane, network, stored, told, recon, stop, kind>>

(* Saving a Full Access session begins the signing session.                *)
SaveSession ==
  /\ kind.full
  /\ unlocked /\ ~stop /\ ~signing
  /\ signing' = TRUE
  /\ UNCHANGED <<lane, network, window, task, recon, unlocked, stop, kind>>

Engage ==
  /\ ~stop
  /\ stop' = TRUE
  /\ signing' = FALSE
  /\ UNCHANGED <<lane, network, window, task, recon, unlocked, kind>>

Release ==
  /\ stop
  /\ stop' = FALSE
  /\ UNCHANGED <<lane, network, window, task, recon, unlocked, signing, kind>>

Expire ==
  /\ \/ /\ \E s \in quote : quote' = quote \ {s}
        /\ preflight' = preflight
     \/ /\ \E p \in Preflights : preflight[p].kept /\ Consume(p)
        /\ quote' = quote
  /\ UNCHANGED <<receipts, network, window, task, recon, gates>>

Restart ==
  /\ quote' = {}
  /\ preflight' = [p \in Preflights |-> [preflight[p] EXCEPT !.kept = FALSE]]
  /\ task' = [i \in Slots |-> Idle]
  /\ shown' = stored
  /\ modal' = None
  /\ chat' = None
  /\ recon' = {}
  /\ unlocked' = FALSE
  /\ signing' = FALSE
  /\ UNCHANGED <<receipts, network, stored, told, stop, kind>>

(* A swap spends the exact allowance; without it, it reverts.              *)
Mine(p) ==
  LET s == preflight[p].swap IN
  /\ chain[p] = "pending"
  /\ \/ /\ preflight[p].action = "swap" => s \in allowed
        /\ chain' = [chain EXCEPT ![p] = "success"]
        /\ allowed' = IF preflight[p].action = "approval" \/ s \in Native
                      THEN allowed \cup {s} ELSE allowed \ {s}
     \/ /\ chain' = [chain EXCEPT ![p] = "reverted"]
        /\ UNCHANGED allowed
  /\ UNCHANGED <<lane, window, task, recon, gates>>

SwapNext ==
  \/ \E i \in Slots :
       \/ \E s \in Swaps : RequestPrepare(i, s) \/ StartFullAccess(i, s)
       \/ \E p \in Preflights : PrepareDone(i, p)
       \/ PrepareFails(i) \/ SubmitDialog(i) \/ PasswordVerified(i)
       \/ StartUnattended(i) \/ ExecutionRefused(i) \/ Send(i)
       \/ SavePending(i) \/ ReceiptArrives(i) \/ ReceiptMissed(i)
  \/ \E s \in Swaps : OpenDialog(s)
  \/ \E p \in Preflights : ReconcileOne(p) \/ ReconcileSkips(p) \/ Mine(p)
  \/ CloseDialog \/ ReconcileList \/ ChatSend \/ ChatAnswer
  \/ Lock \/ Unlock \/ SaveSession \/ Engage \/ Release \/ Expire \/ Restart

SwapSpec == SwapInit /\ [][SwapNext]_swapVars

-----------------------------------------------------------------------------
(* Properties *)

SwapTypeOK ==
  /\ quote \subseteq Swaps
  /\ preflight \in [Preflights -> [swap : Swaps \cup {None}, kept : BOOLEAN,
                                   action : {"none", "approval", "swap"}]]
  /\ receipts \in [Preflights -> Decisions \cup {"none"}]
  /\ chain \in [Preflights -> {"unsent", "pending", "success", "reverted"}]
  /\ allowed \subseteq Swaps
  /\ shown \in [Swaps -> Messages]
  /\ stored \in [Swaps -> Messages]
  /\ modal \in Preflights \cup {None}
  /\ chat \in [Swaps -> Messages] \cup {None}
  /\ told \subseteq Preflights
  /\ task \in [Slots -> Tasks]
  /\ recon \subseteq Preflights
  /\ {unlocked, signing, stop} \subseteq BOOLEAN
  /\ kind \in Kinds

Broadcast(s, action) ==
  {p \in Preflights : /\ preflight[p].swap = s /\ preflight[p].action = action
                      /\ chain[p] # "unsent"}

(* A receipt never claims what the chain does not show: one that says      *)
(* confirmed or reverted is of a transaction that was, although the        *)
(* execution and the reconciliation save the same record side by side.     *)
ReceiptsAgree ==
  \A p \in Preflights :
    /\ receipts[p] # "none" => chain[p] # "unsent"
    /\ receipts[p] = "confirmed" => chain[p] = "success"
    /\ receipts[p] = "reverted" => chain[p] = "reverted"

(* What is known of a transaction is not forgotten: neither the late save  *)
(* of the execution nor a reconciliation of an old list turns a decided    *)
(* receipt back, and the receipt of a broadcast is not lost.               *)
DecidedStays == [][\A p \in Preflights :
  /\ receipts[p] \in {"confirmed", "reverted"} => receipts'[p] = receipts[p]
  /\ receipts[p] # "none" => receipts'[p] # "none"]_swapVars

(* A proposal is swapped at most once, whatever the window was told about  *)
(* its broadcasts: a second swap is sent only after the first reverted.    *)
(* (A chat answer that writes an older copy of the message back undoes     *)
(* what the card knows: see NotPreparedAgain.)                             *)
OneSwap == ~kind.chatty => \A s \in Swaps :
  Cardinality({p \in Broadcast(s, "swap") : chain[p] # "reverted"}) <= 1

(* A Full Access run of a proposal spends at most one approval and one     *)
(* swap, and the swap only after its approval has landed.                  *)
RunIsBounded == kind.full => \A s \in Swaps :
  /\ Cardinality(Broadcast(s, "approval")) <= 1
  /\ Cardinality(Broadcast(s, "swap")) <= 1
  /\ Broadcast(s, "swap") # {} =>
       \A p \in Broadcast(s, "approval") : chain[p] = "success"

(* What the lane promises of a preflight: Approvals, where a preflight is  *)
(* held by the map or by the one execution that has taken it, and counted  *)
(* once its receipt says confirmed.                                        *)
Held(p) == preflight[p].kept \/ \E i \in Slots : At(i, "checking") /\ task[i].of = p

Approval == [p \in Preflights |-> IF preflight[p].swap = None THEN "none"
                                  ELSE IF Held(p) THEN "granted" ELSE "over"]
Spends == [p \in Preflights |-> IF chain[p] = "unsent" THEN 0 ELSE 1]
Landed == {p \in Preflights : chain[p] = "success"}
Counted == {p \in Preflights : receipts[p] = "confirmed"}

Promised == INSTANCE Approvals WITH
  Builds <- Preflights, approval <- Approval, spends <- Spends,
  landed <- Landed, counted <- Counted
KeepsPromise == Promised!ApprovalSpec

-----------------------------------------------------------------------------
(* Statements of the program that do not hold *)

(* registerIpc.ts:2523, "This EVM swap is already confirmed and cannot be  *)
(* prepared again."                                                        *)
NotPreparedAgain == [][\A p, q \in Preflights :
  /\ preflight[p].swap # None /\ preflight[p].action = "swap"
  /\ receipts[p] = "confirmed"
  /\ preflight[q].swap = None
  => preflight'[q].swap # preflight[p].swap]_swapVars

(* WorkspaceApp.tsx:1489, "was not submitted".                             *)
NotSubmittedIsTrue == \A p \in told : chain[p] = "unsent"

(* ActivityCards.tsx:134, "Reconcile this transaction from Settings before *)
(* preparing another action.": reconciled, it can be acted upon again.     *)
ReconciledIsShown == \A s \in Swaps :
  (LatestUnknown(shown[s]) /\ \A p \in Preflights : receipts[p] # "unknown")
    ~> ~LatestUnknown(shown[s])

SwapFairSpec ==
  /\ SwapSpec
  /\ \A i \in Slots : WF_swapVars(SavePending(i) \/ ReceiptArrives(i) \/ ReceiptMissed(i))
  /\ \A p \in Preflights : WF_swapVars(ReconcileOne(p))
  /\ WF_swapVars(ReconcileList)
=============================================================================
