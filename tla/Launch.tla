------------------------------- MODULE Launch -------------------------------
(***************************************************************************)
(* The token launch of the desktop: one draft in a session, its unsigned   *)
(* preflights, each with a mint key of its own that lives in the process   *)
(* only, the final checks, the one signature and the one broadcast, and    *)
(* the session record, which the handlers and the window replace whole     *)
(* from the copy they took before their awaits.                            *)
(*                                                                         *)
(* A mint names its preflight, its transaction and its execution, since    *)
(* each preflight makes one of each. Awaits on local stores are not split; *)
(* the emergency stop refuses a new call and is not a variable here.       *)
(***************************************************************************)
EXTENDS Naturals

CONSTANTS Mints,  \* mint keys, each generated once
          Clicks, \* calls of the window in flight
          NoMint  \* stands for what is undefined

ASSUME LaunchAssumption == NoMint \notin Mints

VARIABLES saved,     \* the message of the draft in the encrypted session
          shown,     \* the message in the window
          made,      \* mints generated so far
          held,      \* #prepared: mints whose key is in memory
          reviews,   \* #revalidations: mints ready for the password
          consumed,  \* #consumed
          click,     \* the calls in flight
          submitted, \* sendTransaction calls, per mint
          approved,  \* the mint on the card when the password was given
          lost,      \* mints whose execution an older copy has replaced
          outcome,   \* what became of a transaction; never: its blockhash expired
          vaultFree  \* the keystore is unlocked

drafts == <<saved, shown, lost>>
memory == <<made, held, reviews, consumed>>
wire == <<submitted, approved, outcome>>
launchVars == <<drafts, memory, click, wire, vaultFree>>

MaybeMint == Mints \cup {NoMint}
LaunchStatus == {"none", "signed", "unknown", "finalized", "failed"}
(* review is the mint of a final check that passed; a blocked one is none. *)
Drafts == [preflight : MaybeMint, review : MaybeMint,
           mint : MaybeMint, status : LaunchStatus]
NewDraft == [preflight |-> NoMint, review |-> NoMint, mint |-> NoMint, status |-> "none"]

(* A call knows the copy of the session its handler read, the one of the   *)
(* window it came from, and the mint it is about.                          *)
ClickSteps == {"idle", "chatting", "preflighting", "reviewing", "password", "signed",
               "sent", "checking", "height", "showing"}
ClickKinds == {"chat", "preflight", "review", "execute", "verify", "recover"}
ClickRecords == [pc : ClickSteps, kind : ClickKinds, read : Drafts, view : Drafts,
                 mint : MaybeMint, status : LaunchStatus]
NoClick == [pc |-> "idle", kind |-> "chat", read |-> NewDraft, view |-> NewDraft,
            mint |-> NoMint, status |-> "none"]

LaunchInit ==
  /\ saved = NewDraft
  /\ shown = NewDraft
  /\ made = {} /\ held = {} /\ reviews = {} /\ consumed = {}
  /\ click = [c \in Clicks |-> NoClick]
  /\ submitted = [m \in Mints |-> 0]
  /\ approved = [m \in Mints |-> NoMint]
  /\ lost = {}
  /\ outcome = [m \in Mints |-> "unsent"]
  /\ vaultFree = TRUE

On(c, pc) == click[c].pc = pc
Step(c, pc) == click' = [click EXCEPT ![c].pc = pc]
EndClick(c) == click' = [click EXCEPT ![c] = NoClick]
Begin(c, r) == On(c, "idle") /\ click' = [click EXCEPT ![c] = r]
Ongoing(kind) == \E c \in Clicks : ~On(c, "idle") /\ click[c].kind = kind

(* upsert replaces the record, and is refused when the vault is locked.    *)
Write(d) ==
  IF vaultFree
  THEN /\ saved' = d
       /\ lost' = IF saved.mint \in {d.mint, NoMint} THEN lost ELSE lost \cup {saved.mint}
  ELSE UNCHANGED <<saved, lost>>

(* persistPumpLaunchExecution: a fresh read, one field replaced.           *)
WithExecution(d, m, st) == [d EXCEPT !.mint = m, !.status = st]
Persist(m, st) == Write(WithExecution(saved, m, st))

(* What a call answers its card, which then writes the session of when it  *)
(* was clicked with the field of the answer replaced.                      *)
Answer(c, m, st) ==
  click' = [click EXCEPT ![c].pc = "showing", ![c].mint = m, ![c].status = st]
AnswerIfSaved(c, m, st) == IF vaultFree THEN Answer(c, m, st) ELSE EndClick(c)

Answered(c) ==
  LET v == click[c].view  m == click[c].mint IN
  CASE click[c].kind = "preflight" -> [v EXCEPT !.preflight = m]
    [] click[c].kind = "review" -> [v EXCEPT !.review = m]
    [] OTHER -> WithExecution(v, m, click[c].status)

Show(c) ==
  /\ On(c, "showing")
  /\ shown' = Answered(c)
  /\ Write(Answered(c))
  /\ EndClick(c)
  /\ UNCHANGED <<memory, wire, vaultFree>>

(* sendMessage saves the window's copy, and again with the answer.         *)
Chat(c) ==
  /\ vaultFree /\ ~Ongoing("chat")
  /\ Begin(c, [NoClick EXCEPT !.pc = "chatting", !.view = shown])
  /\ Write(shown)
  /\ UNCHANGED <<shown, memory, wire, vaultFree>>

ChatEnds(c) ==
  /\ On(c, "chatting")
  /\ Write(click[c].view)
  /\ shown' = IF vaultFree THEN click[c].view ELSE shown
  /\ EndClick(c)
  /\ UNCHANGED <<memory, wire, vaultFree>>

-----------------------------------------------------------------------------
(* Preflight and final checks *)

Preflight(c) ==
  /\ vaultFree /\ ~Ongoing("preflight")
  /\ Begin(c, [NoClick EXCEPT !.pc = "preflighting", !.kind = "preflight",
                              !.read = saved, !.view = shown])
  /\ UNCHANGED <<drafts, memory, wire, vaultFree>>

(* #replacePrepared: one draft, one key. A slip keeps the earlier ones.    *)
ReplacedMutant(m) == held \cup {m}
Replaced(m) == {m}

PreflightPasses(c, m) ==
  /\ On(c, "preflighting")
  /\ m \notin made
  /\ made' = made \cup {m}
  /\ held' = Replaced(m)
  /\ Write([click[c].read EXCEPT !.preflight = m])
  /\ AnswerIfSaved(c, m, "none")
  /\ UNCHANGED <<shown, reviews, consumed, wire, vaultFree>>

Revalidate(c) ==
  LET m == shown.preflight IN
  /\ vaultFree /\ ~Ongoing("review")
  /\ shown.mint = NoMint
  /\ saved.preflight = m /\ saved.mint = NoMint
  /\ m \in held \ consumed
  /\ Begin(c, [NoClick EXCEPT !.pc = "reviewing", !.kind = "review", !.mint = m,
                              !.read = saved, !.view = shown])
  /\ UNCHANGED <<drafts, memory, wire, vaultFree>>

RevalidatePasses(c) ==
  LET m == click[c].mint IN
  /\ On(c, "reviewing")
  /\ reviews' = reviews \cup {m}
  /\ Write([click[c].read EXCEPT !.review = m])
  /\ AnswerIfSaved(c, m, "none")
  /\ UNCHANGED <<shown, made, held, consumed, wire, vaultFree>>

RevalidateBlocks(c) ==
  /\ On(c, "reviewing")
  /\ Write([click[c].read EXCEPT !.review = NoMint])
  /\ AnswerIfSaved(c, NoMint, "none")
  /\ UNCHANGED <<shown, memory, wire, vaultFree>>

(* A request fails, the password is wrong, or what was approved is gone.   *)
Refuse(c) ==
  /\ click[c].pc \in {"preflighting", "reviewing", "password"}
  /\ EndClick(c)
  /\ UNCHANGED <<drafts, memory, wire, vaultFree>>

(* #prune and the two minutes of a final check.                            *)
Expire(m) ==
  /\ \/ m \in held /\ held' = held \ {m} /\ UNCHANGED reviews
     \/ m \in reviews /\ reviews' = reviews \ {m} /\ UNCHANGED held
  /\ UNCHANGED <<drafts, made, consumed, click, wire, vaultFree>>

-----------------------------------------------------------------------------
(* Execution *)

Execute(c) ==
  /\ vaultFree /\ ~Ongoing("execute")
  /\ shown.review # NoMint /\ shown.mint = NoMint
  /\ Begin(c, [NoClick EXCEPT !.pc = "password", !.kind = "execute", !.view = shown])
  /\ UNCHANGED <<drafts, memory, wire, vaultFree>>

(* A draft with an execution answers that one.                             *)
AlreadyLaunched(c) ==
  /\ On(c, "password") /\ vaultFree
  /\ saved.mint # NoMint
  /\ Answer(c, saved.mint, saved.status)
  /\ UNCHANGED <<drafts, memory, wire, vaultFree>>

(* The record, the request and the key must agree. The transaction of the  *)
(* review is signed, whatever the card shows as its preflight.             *)
MaySignMint(c) ==
  LET v == click[c].view IN
  /\ On(c, "password") /\ vaultFree
  /\ saved.mint = NoMint
  /\ saved.preflight = v.preflight /\ saved.review = v.review
  /\ v.review \in (reviews \cap held) \ consumed

UseUp(m) ==
  /\ consumed' = consumed \cup {m}
  /\ reviews' = reviews \ {m}

Sign(c) ==
  LET m == click[c].view.review IN
  /\ MaySignMint(c)
  /\ UseUp(m)
  /\ held' = held \ {m}
  /\ Persist(m, "signed")
  /\ click' = [click EXCEPT ![c].pc = "signed", ![c].mint = m]
  /\ UNCHANGED <<shown, made, wire, vaultFree>>

(* The signature fails, and keeps the key, or its record does.             *)
SignFails(c) ==
  LET m == click[c].view.review IN
  /\ MaySignMint(c)
  /\ UseUp(m)
  /\ held' \in {held, held \ {m}}
  /\ EndClick(c)
  /\ UNCHANGED <<drafts, made, wire, vaultFree>>

(* It is marked as unknown, then sent, and may arrive or not.              *)
Send(c, arrives) ==
  LET m == click[c].mint IN
  /\ On(c, "signed") /\ vaultFree
  /\ submitted[m] < 2
  /\ Persist(m, "unknown")
  /\ submitted' = [submitted EXCEPT ![m] = @ + 1]
  /\ approved' = [approved EXCEPT ![m] = click[c].view.preflight]
  /\ outcome' = IF arrives /\ outcome[m] = "unsent"
                THEN [outcome EXCEPT ![m] = "pending"] ELSE outcome
  /\ Step(c, "sent")
  /\ UNCHANGED <<shown, memory, vaultFree>>

(* The node accepts it, or an error leaves it unknown.                     *)
Sent(c, accepted) ==
  /\ On(c, "sent") /\ vaultFree
  /\ Persist(click[c].mint, "unknown")
  /\ IF accepted THEN Step(c, "checking") ELSE Answer(c, click[c].mint, "unknown")
  /\ UNCHANGED <<shown, memory, wire, vaultFree>>

(* A record that the lock refuses ends the call.                           *)
PersistFails(c) ==
  /\ click[c].pc \in {"signed", "sent"} /\ ~vaultFree
  /\ EndClick(c)
  /\ UNCHANGED <<drafts, memory, wire, vaultFree>>

-----------------------------------------------------------------------------
(* Reconciliation by the execution, a click on verify, or the recovery     *)

Open(d) == d.mint # NoMint /\ d.status \in {"signed", "unknown"}

Verify(c) ==
  /\ vaultFree /\ ~Ongoing("verify")
  /\ Open(shown) /\ saved.mint = shown.mint
  /\ IF Open(saved)
     THEN Begin(c, [NoClick EXCEPT !.pc = "checking", !.kind = "verify",
                                   !.mint = saved.mint, !.view = shown])
     ELSE Begin(c, [NoClick EXCEPT !.pc = "showing", !.kind = "verify", !.mint = saved.mint,
                                   !.status = saved.status, !.view = shown])
  /\ UNCHANGED <<drafts, memory, wire, vaultFree>>

(* Listing the sessions refreshes the window and starts the recovery.      *)
ListSessions(c) ==
  /\ vaultFree
  /\ shown' = saved
  /\ IF Open(saved) /\ ~Ongoing("recover")
     THEN Begin(c, [NoClick EXCEPT !.pc = "checking", !.kind = "recover", !.mint = saved.mint])
     ELSE UNCHANGED click
  /\ UNCHANGED <<saved, lost, memory, wire, vaultFree>>

(* The execution answers what it has learned even when the record is       *)
(* refused; verify throws, and the recovery has nobody to answer.          *)
Conclude(c, st) ==
  /\ Persist(click[c].mint, st)
  /\ CASE click[c].kind = "execute" -> Answer(c, click[c].mint, st)
       [] click[c].kind = "verify" -> AnswerIfSaved(c, click[c].mint, st)
       [] OTHER -> EndClick(c)

(* Finalized only with the account of the mint and the settlement read.    *)
CheckStatus(c) ==
  LET m == click[c].mint IN
  /\ On(c, "checking")
  /\ \/ outcome[m] = "landed" /\ \E st \in {"finalized", "unknown"} : Conclude(c, st)
     \/ outcome[m] = "reverted" /\ Conclude(c, "failed")
     \/ outcome[m] \in {"unsent", "pending", "never"} /\ Step(c, "height") /\ UNCHANGED <<saved, lost>>
  /\ UNCHANGED <<shown, memory, wire, vaultFree>>

(* The height may be past the blockhash, which then lands no more; the     *)
(* status was read before, and the transaction may have landed since.      *)
StillOpen(m) == outcome[m] \in {"unsent", "pending"}
CheckHeight(c) ==
  LET m == click[c].mint IN
  /\ On(c, "height")
  /\ \/ outcome[m] # "never" /\ Conclude(c, "unknown") /\ UNCHANGED outcome
     \/ /\ Conclude(c, "failed")
        /\ outcome' = IF StillOpen(m) THEN [outcome EXCEPT ![m] = "never"] ELSE outcome
  /\ UNCHANGED <<shown, memory, submitted, approved, vaultFree>>

(* A failed request: only the recovery writes.                             *)
CheckFails(c) ==
  /\ click[c].pc \in {"checking", "height"}
  /\ CASE click[c].kind = "execute" ->
            Answer(c, click[c].mint, "unknown") /\ UNCHANGED <<saved, lost>>
       [] click[c].kind = "verify" -> EndClick(c) /\ UNCHANGED <<saved, lost>>
       [] OTHER -> Conclude(c, "unknown")
  /\ UNCHANGED <<shown, memory, wire, vaultFree>>

-----------------------------------------------------------------------------
(* The chain, the lock and the process *)

Land(m, how) ==
  /\ outcome[m] = "pending"
  /\ outcome' = [outcome EXCEPT ![m] = how]
  /\ UNCHANGED <<drafts, memory, click, submitted, approved, vaultFree>>

Forget == held' = {} /\ reviews' = {} /\ consumed' = {} /\ UNCHANGED made

(* Closing the window and a suspended system clear the service.            *)
CloseWindow ==
  /\ Forget
  /\ vaultFree' = FALSE
  /\ UNCHANGED <<drafts, click, wire>>

(* A locked screen and a reset only lock.                                  *)
LockKeystore ==
  /\ vaultFree
  /\ vaultFree' = FALSE
  /\ UNCHANGED <<drafts, memory, click, wire>>

UnlockKeystore ==
  /\ ~vaultFree
  /\ vaultFree' = TRUE
  /\ shown' = saved
  /\ UNCHANGED <<saved, lost, memory, click, wire>>

Quit ==
  /\ Forget
  /\ click' = [c \in Clicks |-> NoClick]
  /\ vaultFree' = FALSE
  /\ UNCHANGED <<drafts, wire>>

LaunchNext ==
  \/ \E c \in Clicks :
       \/ Chat(c) \/ ChatEnds(c) \/ Show(c)
       \/ Preflight(c) \/ Revalidate(c) \/ RevalidatePasses(c) \/ RevalidateBlocks(c)
       \/ Refuse(c) \/ Execute(c) \/ AlreadyLaunched(c) \/ Sign(c) \/ SignFails(c)
       \/ PersistFails(c) \/ Verify(c) \/ ListSessions(c)
       \/ CheckStatus(c) \/ CheckHeight(c) \/ CheckFails(c)
       \/ \E m \in Mints : PreflightPasses(c, m)
       \/ \E yes \in BOOLEAN : Send(c, yes) \/ Sent(c, yes)
  \/ \E m \in Mints : Expire(m) \/ \E how \in {"landed", "reverted"} : Land(m, how)
  \/ CloseWindow \/ LockKeystore \/ UnlockKeystore \/ Quit

LaunchSpec == LaunchInit /\ [][LaunchNext]_launchVars

-----------------------------------------------------------------------------
(* Properties *)

LaunchTypeOK ==
  /\ {saved, shown} \subseteq Drafts
  /\ held \cup reviews \cup consumed \cup lost \subseteq made
  /\ made \subseteq Mints
  /\ click \in [Clicks -> ClickRecords]
  /\ submitted \in [Mints -> 0..2]
  /\ approved \in [Mints -> MaybeMint]
  /\ outcome \in [Mints -> {"unsent", "pending", "landed", "reverted", "never"}]
  /\ vaultFree \in BOOLEAN

(* ActivityCards.tsx:1209, "I authorize one local signing operation and    *)
(* one Mainnet broadcast attempt for this exact launch", although the card *)
(* may show the preflight of one mint with the final checks of another:    *)
(* what is sent was sent once, is the mint the card showed when the        *)
(* password was given, and is on record, unless an older copy of the       *)
(* session was written over it (signPrepared, #replacePrepared).           *)
SentAtMostOnce(m) == submitted[m] <= 1
SentAsShown(m) == submitted[m] > 0 => approved[m] = m
SentOnRecord(m) == submitted[m] > 0 => saved.mint = m \/ m \in lost
(* A record or a card that says finalized has its mint on chain.           *)
LandedIfFinalized(d) == d.status = "finalized" => d.mint # NoMint /\ outcome[d.mint] = "landed"

LaunchedAsApproved ==
  /\ \A m \in Mints : SentAtMostOnce(m) /\ SentAsShown(m) /\ SentOnRecord(m)
  /\ \A d \in {saved, shown} : LandedIfFinalized(d)

-----------------------------------------------------------------------------
(* Statements of the program that do not hold *)

(* registerIpc.ts:1506, "This Token Launch draft already has a signed      *)
(* execution receipt": an older copy of the session takes it away, and the *)
(* draft is launched again with another mint.                              *)
OneLaunch == \A m, n \in Mints : submitted[m] > 0 /\ submitted[n] > 0 => m = n

(* ActivityCards.tsx:1141, the mint signer "is discarded on expiry or      *)
(* lock": a locked screen keeps it, and a preflight that ends after the    *)
(* window was closed brings one.                                           *)
LockDiscards == ~vaultFree => held = {}
=============================================================================
