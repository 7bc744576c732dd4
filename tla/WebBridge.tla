------------------------------ MODULE WebBridge ------------------------------
(***************************************************************************)
(* A bridge proposal of the web application, from Robinhood to Solana or   *)
(* back: a message of a session with a card, and the calls of the page     *)
(* that quote it, have the wallet sign, wait for the transaction and check *)
(* the settlement. Each call goes by the proposal as it was when its       *)
(* button was pressed, and patches the message that is then on the page.   *)
(***************************************************************************)
EXTENDS Naturals, FiniteSets

CONSTANTS Txs,  \* transactions the wallet may send
          NoTx  \* stands for what is undefined

ASSUME BridgeAssumption == NoTx \notin Txs

VARIABLES route,    \* the chain the funds leave: robinhood or solana
          onPage,   \* the proposal on the page, Away with another session open
          inRecord, \* the proposal in the database
          quote,    \* the action of the cached quote that has not expired
          tx,       \* the transactions and their fate
          bridging, \* the call in flight; bridgeBusy disables every card
          unseen    \* something was sent or done that no patch recorded

proposals == <<onPage, inRecord>>
bridgeVars == <<route, proposals, quote, tx, bridging, unseen>>

Actions == {"none", "approval", "deposit"}
MaybeTx == Txs \cup {NoTx}
Statuses == {"preview_only", "ready_for_user_signature", "approval_confirmed", "signing",
             "submitted", "source_confirmed", "confirmed", "reverted", "unknown"}
Proposals == [status : Statuses, action : Actions, source : MaybeTx, approval : MaybeTx]
Away == [status |-> "preview_only", action |-> "approval", source |-> NoTx, approval |-> NoTx]
Preview == [status |-> "preview_only", action |-> "none", source |-> NoTx, approval |-> NoTx]

Fates == {"none", "pending", "landed", "reverted", "settled"}
Unsent == [use |-> "none", fate |-> "none"]
NoBridging == [pc |-> "idle", snap |-> Preview, use |-> "none", tx |-> NoTx]

(* A proposal from Solana is stored as ready for the wallet.               *)
Stored(r) == IF r = "solana" THEN [Preview EXCEPT !.status = "ready_for_user_signature"] ELSE Preview

BridgeInit ==
  /\ route \in {"robinhood", "solana"}
  /\ onPage = Stored(route)
  /\ inRecord = onPage
  /\ quote = "none"
  /\ tx = [t \in Txs |-> Unsent]
  /\ bridging = NoBridging
  /\ unseen = FALSE

AtStep(pc) == bridging.pc = pc
GoOn(pc) == bridging' = [bridging EXCEPT !.pc = pc]
EndCall == bridging' = NoBridging
HasLanded(t) == tx[t].fate \in {"landed", "settled"}

(* patchProposal: the message on the page is changed and then saved. With  *)
(* another session open there is none, and nothing is saved; a save that   *)
(* fails is not reported. The save is awaited: a session opened again      *)
(* before it ends, from the older record, is not modelled.                 *)
Patch(p) ==
  IF onPage = Away
  THEN unseen' = TRUE /\ UNCHANGED proposals
  ELSE /\ onPage' = p
       /\ \/ inRecord' = p /\ UNCHANGED unseen
          \/ unseen' = TRUE /\ UNCHANGED inRecord

WithStatus(status) == [onPage EXCEPT !.status = status]

(* The hash of a transaction goes where its use says; the other field is   *)
(* set back to what it was when the call began.                            *)
WithTx(status) ==
  LET b == bridging IN
  [onPage EXCEPT !.status = status,
                 !.source = IF b.use = "deposit" THEN b.tx ELSE b.snap.source,
                 !.approval = IF b.use = "approval" THEN b.tx ELSE b.snap.approval]

-----------------------------------------------------------------------------
(* The cards *)

CardDisabled(p) ==
  \/ p = Away
  \/ ~AtStep("idle")
  \/ p.status \in {"signing", "confirmed"}
  \/ IF route = "robinhood" THEN p.status = "reverted"
     ELSE p.status \in {"submitted", "source_confirmed"}

SettlementOnlyMutant(p) == p.status = "source_confirmed" /\ p.source # NoTx
SettlementOnly(p) == p.status \in {"source_confirmed", "unknown"} /\ p.source # NoTx

(* One call at a time: bridgeBusy is state of the page. The record has one  *)
(* page here; a second tab on the same session would have its own.         *)
Press ==
  /\ route = "robinhood" /\ ~CardDisabled(onPage)
  /\ bridging' = [NoBridging EXCEPT !.snap = onPage, !.use = quote, !.pc =
       IF SettlementOnly(onPage) THEN "checking"
       ELSE IF quote = "none" THEN "quoting" ELSE "preparing"]
  /\ UNCHANGED <<route, proposals, quote, tx, unseen>>

PressFromSolana ==
  /\ route = "solana" /\ ~CardDisabled(onPage)
  /\ bridging' = [NoBridging EXCEPT !.snap = onPage, !.use = "deposit", !.pc = "signing"]
  /\ Patch(WithStatus("signing"))
  /\ UNCHANGED <<route, quote, tx>>

-----------------------------------------------------------------------------
(* The quote and the signature *)

BeforeSending ==
  IF route = "solana" THEN "preview_only"
  ELSE IF bridging.snap.action # "none" THEN "ready_for_user_signature"
  ELSE IF bridging.snap.approval # NoTx THEN "approval_confirmed" ELSE "preview_only"

(* Relay asks for an approval first, or not; a second one is refused.      *)
Quoted(action) ==
  /\ AtStep("quoting")
  /\ ~(action = "approval" /\ bridging.snap.approval # NoTx)
  /\ quote' = action
  /\ Patch([WithStatus("ready_for_user_signature") EXCEPT !.action = action])
  /\ EndCall
  /\ UNCHANGED <<route, tx>>

QuoteExpires ==
  /\ quote # "none"
  /\ quote' = "none"
  /\ UNCHANGED <<route, proposals, tx, bridging, unseen>>

(* The network, the account and the balances are right.                    *)
Prepared ==
  /\ AtStep("preparing")
  /\ Patch(WithStatus("signing"))
  /\ GoOn("signing")
  /\ UNCHANGED <<route, quote, tx>>

(* Relay refuses, a balance is short, or the user cancels in the wallet.   *)
Fails ==
  /\ bridging.pc \in {"quoting", "preparing", "signing"}
  /\ Patch(WithStatus(BeforeSending))
  /\ EndCall
  /\ UNCHANGED <<route, quote, tx>>

Sends(t) ==
  /\ AtStep("signing") /\ tx[t] = Unsent
  /\ tx' = [tx EXCEPT ![t] = [use |-> bridging.use, fate |-> "pending"]]

WalletSends(t) ==
  /\ Sends(t)
  /\ bridging' = [bridging EXCEPT !.pc = "waiting", !.tx = t]
  /\ IF route = "solana"
     THEN Patch([WithStatus("submitted") EXCEPT !.source = t])
     ELSE UNCHANGED <<proposals, unseen>>
  /\ UNCHANGED <<route, quote>>

(* The wallet throws although it has sent the transaction.                 *)
WalletThrows(t) ==
  /\ Sends(t)
  /\ unseen' = TRUE
  /\ IF onPage = Away THEN UNCHANGED proposals
     ELSE onPage' = WithStatus(BeforeSending) /\ inRecord' \in {onPage', inRecord}
  /\ EndCall
  /\ UNCHANGED <<route, quote>>

-----------------------------------------------------------------------------
(* The receipt *)

ApprovalConfirmed ==
  /\ AtStep("waiting") /\ bridging.use = "approval" /\ HasLanded(bridging.tx)
  /\ quote' = "none"
  /\ Patch([WithStatus("approval_confirmed") EXCEPT !.action = "none", !.approval = bridging.tx])
  /\ EndCall
  /\ UNCHANGED <<route, tx>>

SourceConfirmed ==
  LET p == [WithStatus("source_confirmed") EXCEPT !.source = bridging.tx] IN
  /\ AtStep("waiting") /\ bridging.use = "deposit" /\ HasLanded(bridging.tx)
  /\ quote' = "none"
  /\ Patch(p)
  /\ IF route = "solana" THEN EndCall ELSE GoOn("settling")
  /\ UNCHANGED <<route, tx>>

(* A bridge from Solana that the chain rejects is shown as unknown.        *)
RevertedStatus == IF route = "solana" THEN "unknown" ELSE "reverted"
SourceReverted ==
  /\ AtStep("waiting") /\ tx[bridging.tx].fate = "reverted"
  /\ Patch(WithTx(RevertedStatus))
  /\ EndCall
  /\ UNCHANGED <<route, quote, tx>>

(* No receipt within a minute, or a read of it throws. The quote remains.  *)
NoReceipt ==
  /\ AtStep("waiting")
  /\ Patch(WithTx("unknown"))
  /\ EndCall
  /\ UNCHANGED <<route, quote, tx>>

-----------------------------------------------------------------------------
(* The settlement: a call of its own, or the end of the one that deposited *)

(* Relay's word and the balance change on Solana, or Relay's failure, or   *)
(* neither yet; a check that throws leaves what was known before it, and   *)
(* after a deposit writes the confirmed transaction once more.             *)
EvidenceMutant(t) == {"confirmed", "unknown", "source_confirmed"}
Evidence(t) ==
  {"source_confirmed"} \cup (IF tx[t].fate = "settled" THEN {"confirmed"} ELSE {"unknown"})
KeptStatus == IF AtStep("checking") THEN bridging.snap.status ELSE "source_confirmed"

WithSource(t) == [onPage EXCEPT !.status = "source_confirmed", !.source = t]
Concluded(status) ==
  {WithStatus(status)} \cup
  (IF AtStep("settling") /\ status = "source_confirmed" THEN {WithSource(bridging.tx)} ELSE {})

SettlementChecked(status) ==
  LET t == IF AtStep("checking") THEN bridging.snap.source ELSE bridging.tx IN
  /\ bridging.pc \in {"checking", "settling"}
  /\ status \in Evidence(t) \cup {KeptStatus}
  /\ \E p \in Concluded(status) : Patch(p)
  /\ EndCall
  /\ UNCHANGED <<route, quote, tx>>

-----------------------------------------------------------------------------
(* The page and the chains *)

OpenOtherSession ==
  /\ onPage # Away
  /\ onPage' = Away
  /\ UNCHANGED <<route, inRecord, quote, tx, bridging, unseen>>

OpenThisSession ==
  /\ onPage = Away
  /\ onPage' = inRecord
  /\ UNCHANGED <<route, inRecord, quote, tx, bridging, unseen>>

ReloadPage ==
  /\ onPage' = inRecord
  /\ quote' = "none"
  /\ bridging' = NoBridging
  /\ UNCHANGED <<route, inRecord, tx, unseen>>

Decides(t, fate) ==
  /\ \/ tx[t].fate = "pending" /\ fate \in {"landed", "reverted"}
     \/ tx[t].fate = "landed" /\ tx[t].use = "deposit" /\ fate = "settled"
  /\ tx' = [tx EXCEPT ![t].fate = fate]
  /\ UNCHANGED <<route, proposals, quote, bridging, unseen>>

BridgeNext ==
  \/ Press \/ PressFromSolana \/ QuoteExpires \/ Prepared \/ Fails
  \/ \E action \in {"approval", "deposit"} : Quoted(action)
  \/ \E t \in Txs : WalletSends(t) \/ WalletThrows(t) \/ \E fate \in Fates : Decides(t, fate)
  \/ ApprovalConfirmed \/ SourceConfirmed \/ SourceReverted \/ NoReceipt
  \/ \E status \in Statuses : SettlementChecked(status)
  \/ OpenOtherSession \/ OpenThisSession \/ ReloadPage

BridgeSpec == BridgeInit /\ [][BridgeNext]_bridgeVars

-----------------------------------------------------------------------------
(* Properties *)

BridgeTypeOK ==
  /\ route \in {"robinhood", "solana"}
  /\ {onPage, inRecord} \subseteq Proposals
  /\ quote \in Actions
  /\ tx \in [Txs -> [use : Actions, fate : Fates]]
  /\ bridging \in [pc : {"idle", "quoting", "preparing", "signing", "waiting", "checking",
                         "settling"},
                   snap : Proposals, use : Actions, tx : MaybeTx]
  /\ unseen \in BOOLEAN

SentFor(use) == {t \in Txs : tx[t].use = use}

(* A bridge from Robinhood deposits once, whatever quotes, reverts, late   *)
(* receipts, settlement checks and reloads come in between: only where the *)
(* page had no part in it, because another session was open, a save failed *)
(* or the wallet hid the hash, can the same proposal deposit again.        *)
DepositedOnce == route = "robinhood" /\ ~unseen => Cardinality(SentFor("deposit")) <= 1

(* What the page and the database say of a bridge agrees with the chains,  *)
(* also when a call goes on while its session is closed and opened again.  *)
BridgeStatusTrue == \A p \in {onPage, inRecord} \ {Away} :
  /\ p.status = "confirmed" => \E t \in SentFor("deposit") : tx[t].fate = "settled"
  /\ p.status = "reverted" => \E t \in {p.source, p.approval} \ {NoTx} : tx[t].fate = "reverted"
  /\ p.status = "approval_confirmed" /\ ~unseen => HasLanded(p.approval)
  /\ p.status = "source_confirmed" /\ route = "solana" =>
       \E t \in SentFor("deposit") : HasLanded(t)

-----------------------------------------------------------------------------
(* Statements of the program that do not hold *)

(* page.tsx:1247, "Do not submit again until you inspect the signature":   *)
(* SolanaBridgePreviewCard.tsx:60 offers "Check settlement" for it.        *)
SubmittedOnce == ~unseen => \A use \in Actions \ {"none"} : Cardinality(SentFor(use)) <= 1

(* page.tsx:814, "Robinhood source transaction is confirmed."              *)
SourceClaimTrue == \A p \in {onPage, inRecord} \ {Away} :
  p.status = "source_confirmed" => \E t \in SentFor("deposit") : HasLanded(t)
=============================================================================
