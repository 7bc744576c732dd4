------------------------------ MODULE Dispatch ------------------------------
(***************************************************************************)
(* dispatchFullAccessAutomation: every proposal the observation loop       *)
(* creates starts one asynchronous task in the main process.  The task     *)
(* reads the session, prepares, signs, broadcasts, waits for a receipt and *)
(* decides the proposal.  Between two of its steps the user may steer the  *)
(* strategy, engage the emergency stop, lock the vault, clear the signing  *)
(* session, delete the session of the strategy, or the process may end.    *)
(*                                                                         *)
(* One step of a task is the code between two awaits at which another      *)
(* event can change what the task reads next.                              *)
(***************************************************************************)
EXTENDS Automation

CONSTANTS
    Full,       \* strategies whose session has permission "full"
    Evm         \* strategies on Robinhood; the others are on Solana

ASSUME SessionsAssumption == Full \subseteq Strategies /\ Evm \subseteq Strategies

VARIABLES
    estop,      \* EmergencyStopService: engaged
    engaging,   \* an engage handler awaits fullAccessExecutionGrants.emergencyStop
    unlocked,   \* the vault is unlocked
    signing,    \* LocalSigningSessionService.#active
    session,    \* the record of the session a strategy belongs to
    task        \* task[s][w]: the dispatch of proposal s:w

flags == <<estop, engaging, unlocked, signing>>
authority == <<flags, session>>
vars == <<autoVars, authority, task>>

Steps == {"none", "session", "preparing", "executing", "sent", "confirmed",
          "unconfirmed", "rejecting", "failing", "done", "orphaned", "lost"}
Ended == {"none", "done", "orphaned", "lost"}

\* A session that was deleted may be written back by whoever read it before.
Records == {"kept", "deleted", "restored"}

Tasks == [pc : Steps,
          approvals : 0..2, swaps : 0..2,   \* transactions broadcast
          landed : BOOLEAN]                 \* a swap took effect on chain

Fresh(pc) == [pc |-> pc, approvals |-> 0, swaps |-> 0, landed |-> FALSE]

DispatchTypeOK ==
    /\ AutoTypeOK
    /\ estop \in BOOLEAN /\ engaging \in BOOLEAN
    /\ unlocked \in BOOLEAN /\ signing \in BOOLEAN
    /\ session \in [Strategies -> Records]
    /\ task \in [Strategies -> [Windows -> Tasks]]

\* A first boot: the stop is not engaged, so the loop starts; the vault is locked.
DispatchInit ==
    /\ AutoInit
    /\ running = TRUE
    /\ estop = FALSE /\ engaging = FALSE
    /\ unlocked = FALSE /\ signing = FALSE
    /\ session = [s \in Strategies |-> "kept"]
    /\ task = [s \in Strategies |-> [w \in Windows |-> Fresh("none")]]

-----------------------------------------------------------------------------
(* Helpers. *)

InFlight(s, w) == task[s][w].pc \notin Ended

SigningActive == signing /\ unlocked

Exists(s) == session[s] # "deleted"
Restored(s) == [session EXCEPT ![s] = IF @ = "deleted" THEN "restored" ELSE @]

\* The record a task may leave when it has saved a message: on Solana its own
\* copy is always written, on EVM the record if it is still found, which may be
\* deleted between the two.
WrittenBack(s) == IF s \in Evm THEN {session, Restored(s)} ELSE {Restored(s)}

Awaiting(s, w) == proposal[s][w] = "AWAITING_APPROVAL"

At(s, w, pc) == task[s][w].pc = pc
Goto(s, w, pc) == task' = [task EXCEPT ![s][w].pc = pc]

\* Slips of Settle: the receipt is not looked at, the strategy is not written.
SettleUnchecked(s, w, confirmed) ==
    IF Awaiting(s, w) THEN Approve(s, w) ELSE UNCHANGED autoVars

SettleProposalOnly(s, w, confirmed) ==
    /\ proposal' = [proposal EXCEPT ![s][w] = IF confirmed THEN "CONSUMED" ELSE "REJECTED"]
    /\ UNCHANGED <<now, strategyVars, running, ticks>>

\* approveProposal or rejectProposal on behalf of a task; both return without
\* effect when the proposal has been decided meanwhile.
Settle(s, w, confirmed) ==
    IF Awaiting(s, w)
    THEN IF confirmed THEN Approve(s, w) ELSE Reject(s, w)
    ELSE UNCHANGED autoVars

-----------------------------------------------------------------------------
(* The steps of a task. *)

\* Slip of ReadSession: the permission is not looked at.
ReadAnySession(s, w) ==
    /\ At(s, w, "session")
    /\ IF unlocked /\ ~estop /\ SigningActive /\ Exists(s)
       THEN Goto(s, w, "preparing")
       ELSE Goto(s, w, "failing")
    /\ UNCHANGED <<autoVars, authority>>

\* The session is read; a locked vault makes the read throw.  The task of a
\* session that was deleted ends here and decides nothing, and so does the task
\* of a restricted one, which leaves the proposal to the user.
ReadSession(s, w) ==
    /\ At(s, w, "session")
    /\ \/ ~unlocked /\ Goto(s, w, "failing")
       \/ unlocked /\ ~Exists(s) /\ Goto(s, w, "orphaned")
       \/ /\ unlocked /\ Exists(s)
          /\ \/ s \notin Full /\ Goto(s, w, "done")
             \/ s \in Full /\ ~estop /\ SigningActive /\ Goto(s, w, "preparing")
             \/ /\ s \in Full /\ (estop \/ ~SigningActive)
                /\ Goto(s, w, IF s \in Evm THEN "failing" ELSE "rejecting")
    /\ UNCHANGED <<autoVars, authority>>

\* Slip of Recheck: the stop is left to the first gate.
RecheckSkipsStop(s, w) == s \in Evm \/ (Awaiting(s, w) /\ SigningActive)

\* What is read again directly before execution: on Solana the proposal, the
\* stop and the signer; on EVM only the stop, in executeFullAccess.
Recheck(s, w) == ~estop /\ (s \in Evm \/ (Awaiting(s, w) /\ SigningActive))

\* The quote and the unsigned simulation or preflight; messages are saved on
\* the way, which needs the vault: on EVM one, before the first quote.
Prepare(s, w) ==
    /\ At(s, w, "preparing")
    /\ unlocked
    /\ session' \in IF task[s][w].approvals = 0 THEN WrittenBack(s) ELSE {session}
    /\ Goto(s, w, IF Recheck(s, w) THEN "executing"
                  ELSE IF s \in Evm THEN "failing" ELSE "rejecting")
    /\ UNCHANGED <<autoVars, flags>>

\* A simulation that does not pass (Solana), or an await that throws.
PrepareFails(s, w) ==
    /\ At(s, w, "preparing")
    /\ \/ s \notin Evm /\ unlocked /\ Goto(s, w, "rejecting")
       \/ Goto(s, w, "failing")
    /\ session' \in {session, Restored(s)}
    /\ UNCHANGED <<autoVars, flags>>

\* Signing needs the vault and nothing else.  An EVM preflight may ask for an
\* exact approval before the swap, and the send may throw although the node
\* took the transaction.  Whether a swap takes effect is decided by the chain.
BroadcastApproval(s, w) ==
    /\ At(s, w, "executing")
    /\ unlocked
    /\ s \in Evm
    /\ \E next \in {"sent", "failing"} :
          task' = [task EXCEPT ![s][w].pc = next, ![s][w].approvals = @ + 1]
    /\ UNCHANGED <<autoVars, authority>>

BroadcastSwap(s, w) ==
    /\ At(s, w, "executing")
    /\ unlocked
    /\ \E next \in IF s \in Evm THEN {"sent", "failing"} ELSE {"sent"}, lands \in BOOLEAN :
          task' = [task EXCEPT ![s][w].pc = next,
                               ![s][w].swaps = @ + 1,
                               ![s][w].landed = @ \/ lands]
    /\ UNCHANGED <<autoVars, authority>>

\* Policy, simulation, balance, fee or signer refuse before the broadcast.
ExecuteFails(s, w) ==
    /\ At(s, w, "executing")
    /\ Goto(s, w, "failing")
    /\ UNCHANGED <<autoVars, authority>>

\* The transaction whose receipt is awaited is the approval until a swap is sent.
SwapSent(s, w) == task[s][w].swaps > 0

\* A receipt is "confirmed" on chain evidence only, and on EVM only if it can be
\* saved in the encrypted store; it may always stay "unknown", and a Solana
\* router may report a swap as failed that lands.
MayConfirm(s, w) ==
    /\ SwapSent(s, w) => task[s][w].landed
    /\ s \in Evm => unlocked

\* Slips of RunsAgain: any confirmed receipt, any number of approvals.
RunsAgainOnAny(s, w) == task[s][w].approvals + task[s][w].swaps = 1
RunsAgainForever(s, w) == ~SwapSent(s, w)

\* A confirmed approval is followed by run() once more; the second call may
\* find that it needs an approval again, and then the task gives up.
RunsAgain(s, w) == ~SwapSent(s, w) /\ task[s][w].approvals = 1

ReceiptConfirms(s, w) ==
    /\ At(s, w, "sent")
    /\ MayConfirm(s, w)
    /\ Goto(s, w, IF RunsAgain(s, w) THEN "preparing"
                  ELSE IF SwapSent(s, w) THEN "confirmed" ELSE "unconfirmed")
    /\ UNCHANGED <<autoVars, authority>>

\* Slip of ReceiptUnconfirmed: an unknown outcome is tried again.
ReceiptRetried(s, w) ==
    /\ At(s, w, "sent")
    /\ Goto(s, w, "executing")
    /\ UNCHANGED <<autoVars, authority>>

ReceiptUnconfirmed(s, w) ==
    /\ At(s, w, "sent")
    /\ Goto(s, w, "unconfirmed")
    /\ UNCHANGED <<autoVars, authority>>

\* The first, pending receipt of an EVM transaction cannot be saved.
SaveFails(s, w) ==
    /\ At(s, w, "sent")
    /\ s \in Evm /\ ~unlocked
    /\ Goto(s, w, "failing")
    /\ UNCHANGED <<autoVars, authority>>

\* The receipt is written into the session, then the proposal is decided.
Record(s, w) ==
    /\ At(s, w, "confirmed") \/ At(s, w, "unconfirmed")
    /\ IF unlocked
       THEN /\ Settle(s, w, At(s, w, "confirmed")) /\ Goto(s, w, "done")
            /\ session' \in WrittenBack(s)
       ELSE Goto(s, w, "failing") /\ UNCHANGED <<autoVars, session>>
    /\ UNCHANGED flags

\* A note that nothing was signed is saved, then the proposal is rejected.
TurnDown(s, w) ==
    /\ At(s, w, "rejecting")
    /\ IF unlocked
       THEN /\ Settle(s, w, FALSE) /\ Goto(s, w, "done")
            /\ session' \in WrittenBack(s)
       ELSE Goto(s, w, "failing") /\ UNCHANGED <<autoVars, session>>
    /\ UNCHANGED flags

\* Slip of HandleFailure: the proposal is not rejected.
HandleFailureSilently(s, w) ==
    /\ At(s, w, "failing")
    /\ Goto(s, w, "done")
    /\ UNCHANGED <<autoVars, authority>>

\* The catch block: the failure text is saved if the session can be read; a
\* deletion between the two is undone.
HandleFailure(s, w) ==
    /\ At(s, w, "failing")
    /\ Goto(s, w, "done")
    /\ Settle(s, w, FALSE)
    /\ session' \in IF unlocked THEN {session, Restored(s)} ELSE {session}
    /\ UNCHANGED flags

TaskStep(s, w) ==
    \/ ReadSession(s, w) \/ Prepare(s, w) \/ PrepareFails(s, w)
    \/ BroadcastApproval(s, w) \/ BroadcastSwap(s, w) \/ ExecuteFails(s, w)
    \/ ReceiptConfirms(s, w) \/ ReceiptUnconfirmed(s, w) \/ SaveFails(s, w)
    \/ Record(s, w) \/ TurnDown(s, w) \/ HandleFailure(s, w)

-----------------------------------------------------------------------------
(* The loop, the user and the strategies. *)

\* evaluate, then one event per proposal it created; a new task starts at once.
Tick ==
    /\ TickEvaluate
    /\ task' = [s \in Strategies |-> [w \in Windows |->
           IF proposal[s][w] = "NONE" /\ proposal'[s][w] = "AWAITING_APPROVAL"
           THEN Fresh("session")
           ELSE task[s][w]]]
    /\ UNCHANGED authority

LoopStep ==
    /\ TickStart \/ TickFail \/ (TickLocked /\ ~unlocked)
    /\ UNCHANGED <<authority, task>>

\* The toggle needs an unlocked vault, a power resume a released stop.
SwitchLoop ==
    /\ (StartLoop /\ (unlocked \/ ~estop)) \/ (StopLoop /\ unlocked)
    /\ UNCHANGED <<authority, task>>

Steer ==
    /\ \E s \in Strategies : Create(s) \/ Pause(s) \/ Resume(s) \/ Cancel(s)
    /\ UNCHANGED <<authority, task>>

\* APPROVE_PROPOSAL from the panel; refused for a Full Access session, but not
\* for one that is gone, of which the panel knows no permission either.
ManualApprove(s, w) ==
    /\ s \notin Full \/ ~Exists(s)
    /\ unlocked
    /\ Approve(s, w)
    /\ UNCHANGED <<authority, task>>

\* REJECT_PROPOSAL: the handler has no guard (no panel offers it today).
ManualReject(s, w) ==
    /\ Reject(s, w)
    /\ UNCHANGED <<authority, task>>

-----------------------------------------------------------------------------
(* Authority. *)

\* Master password entered: signing resumes if a Full Access session exists,
\* except on the configure-password path, which leaves it as it is.
Unlock ==
    /\ unlocked' = TRUE
    /\ signing' \in {signing, \E s \in Full : Exists(s)}
    /\ UNCHANGED <<autoVars, estop, engaging, session, task>>

\* Lock, lock-screen or suspend; the last also stops the loop.
Lock ==
    /\ unlocked' = FALSE
    /\ signing' \in {signing, FALSE}
    /\ running' \in {running, FALSE}
    /\ UNCHANGED <<now, strategyVars, proposal, ticks, estop, engaging, session, task>>

\* Enrolment, saving a Full Access session, creating or resuming a grant.  The
\* stop is read before the password is verified, so it may be engaged by now.
BeginSigning ==
    /\ unlocked
    /\ Full # {}
    /\ signing' = TRUE
    /\ UNCHANGED <<autoVars, estop, engaging, unlocked, session, task>>

\* A grant is paused, revoked or expires.
ClearSigning ==
    /\ signing' = FALSE
    /\ UNCHANGED <<autoVars, estop, engaging, unlocked, session, task>>

\* The window deletes a session; its strategies and proposals stay.
DeleteSession(s) ==
    /\ unlocked
    /\ Exists(s)
    /\ session' = [session EXCEPT ![s] = "deleted"]
    /\ signing' = (signing /\ s \notin Full)
    /\ UNCHANGED <<autoVars, estop, engaging, unlocked, task>>

\* A save of the window that was on its way when the session was deleted.
RestoreSession(s) ==
    /\ unlocked
    /\ ~Exists(s)
    /\ session' = Restored(s)
    /\ signing' = (signing \/ (s \in Full /\ ~estop))
    /\ UNCHANGED <<autoVars, estop, engaging, unlocked, task>>

\* The engage handler up to its await ...
Engage ==
    /\ unlocked
    /\ estop' = TRUE
    /\ engaging' = TRUE
    /\ UNCHANGED <<autoVars, unlocked, signing, session, task>>

\* ... and after it.
EngageRest ==
    /\ engaging
    /\ EmergencyStop
    /\ engaging' = FALSE
    /\ signing' = FALSE
    /\ UNCHANGED <<estop, unlocked, session, task>>

\* The vault is locked before the grants are written: the await throws and
\* nothing after it runs.
EngageFails ==
    /\ engaging
    /\ ~unlocked
    /\ engaging' = FALSE
    /\ UNCHANGED <<autoVars, estop, unlocked, signing, session, task>>

Release ==
    /\ unlocked
    /\ estop' = FALSE
    /\ UNCHANGED <<autoVars, engaging, unlocked, signing, session, task>>

\* Process end and start: tasks in flight are never taken up again.
Reboot ==
    /\ Restart
    /\ running' = ~estop
    /\ engaging' = FALSE /\ unlocked' = FALSE /\ signing' = FALSE
    /\ task' = [s \in Strategies |-> [w \in Windows |->
           IF InFlight(s, w) THEN [task[s][w] EXCEPT !.pc = "lost"] ELSE task[s][w]]]
    /\ UNCHANGED <<estop, session>>

Minute == Clock /\ UNCHANGED <<authority, task>>

Next ==
    \/ \E s \in Strategies, w \in Windows :
          TaskStep(s, w) \/ ManualApprove(s, w) \/ ManualReject(s, w)
    \/ \E s \in Strategies : DeleteSession(s) \/ RestoreSession(s)
    \/ Tick \/ LoopStep \/ SwitchLoop \/ Steer
    \/ Unlock \/ Lock \/ BeginSigning \/ ClearSigning
    \/ Engage \/ EngageRest \/ EngageFails \/ Release \/ Reboot \/ Minute

Spec == DispatchInit /\ [][Next]_vars

\* Every await of a task returns or throws: requests have timeouts.
FairSpec == Spec /\ \A s \in Strategies, w \in Windows : WF_vars(TaskStep(s, w))

-----------------------------------------------------------------------------
(* Properties. *)

\* One-attempt broadcast: a proposal never puts a second swap on the wire,
\* whatever the receipts of its approval and swap transactions say.
AtMostOneSwap ==
    \A s \in Strategies, w \in Windows : task[s][w].swaps <= 1

\* A proposal of a Full Access strategy is consumed, and its cycle counted,
\* only on a swap that took effect on chain and was confirmed as such, unless
\* the session was deleted: then the panel may approve without one.
ConsumedMeansLanded ==
    \A s \in Full : \A w \in Consumed(s) :
        session[s] = "kept" => task[s][w].landed /\ task[s][w].swaps = 1

\* Once the emergency stop is engaged no task passes on to signing, on either
\* chain, at the first attempt or at the one after an approval.
StopFreezesExecution ==
    [][\A s \in Strategies, w \in Windows :
          estop /\ task'[s][w].pc = "executing" => At(s, w, "executing")]_vars

\* The signing flag is one for the whole process: a signing session begun for
\* a Full Access session never serves the strategy of a restricted one, whose
\* tasks broadcast nothing.
RestrictedNeverBroadcasts ==
    \A s \in Strategies \ Full, w \in Windows :
        task[s][w].swaps = 0 /\ task[s][w].approvals = 0

\* A proposal of a Full Access strategy is left undecided by two tasks alone,
\* the one that a restart lost and the one that found its session deleted: any
\* other consumes or rejects it, or someone else has, wherever it fails and
\* also when the session is deleted later.
ProposalsDecided ==
    \A s \in Full, w \in Windows :
        Awaiting(s, w) ~> (~Awaiting(s, w) \/ At(s, w, "lost") \/ At(s, w, "orphaned"))

\* "so a stale in-flight task can never broadcast": a Solana task broadcasts
\* only while its proposal awaits execution and the stop is released.
NoStaleBroadcast ==
    [][\A s \in Strategies \ Evm, w \in Windows :
          task'[s][w].swaps > task[s][w].swaps => Awaiting(s, w) /\ ~estop]_vars

\* "No transaction was signed or broadcast": the text of the catch block is
\* shown only when that is so.
NoticeShown(s, w) == At(s, w, "failing") /\ task'[s][w].pc = "done" /\ unlocked

TruthfulFailureNotice ==
    [][\A s \in Strategies, w \in Windows : NoticeShown(s, w) =>
          task[s][w].swaps = 0 /\ task[s][w].approvals = 0]_vars

\* "maximum N cycles": a DCA strategy never buys more often than configured.
BudgetRespected ==
    \A s \in Dca : Cardinality({w \in Windows : task[s][w].landed}) <= MaxRuns[s]

=============================================================================
