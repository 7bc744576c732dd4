# TLA+ models of Mirae

Mirae (`apps/desktop`, formerly silfable) is an Electron desktop program that
operates trading strategies for a user: it keeps wallets and sessions encrypted
on the machine, lets an assistant propose swaps, token launches, bridges and
recurring orders, and executes them either after an explicit approval or, in a
*Full Access* session, on its own. A web application offers part of this with
the wallets of the browser, and delegates monitoring to a cloud worker. The
modules in this directory model the parts of both in which the order of events
matters, TLC checks them on small instances, and TLAPS proves the main
properties for every value of the constants.

All paths below are relative to `src/apps/desktop/src/main/` unless they start
with `apps/` or `packages/`.

## Inventory

| component | state | operations | hard part | what makes it correct |
|---|---|---|---|---|
| automation manager `execution/automation-manager.ts`, tables in `storage/database.ts` | strategies (status, next wake, remaining pause, executions, highest price) and proposals, in SQLite | create, pause, resume, cancel, approve, reject, evaluate, defer, emergency stop | two tables, many writers, idempotency windows, late answers | the tables agree; stopped strategies are inert; orders are counted once; the trailing stop only tightens |
| observation loop `execution/background-loop.ts` | running flag, timer, price fetches in flight | start, stop, tick | ticks overlap, fail, or outlive a stop | a late or failed fetch is no trade signal |
| Full Access dispatcher `index.ts:569-705` | one asynchronous task per proposal, an in-flight set | dispatch | everything may change between two awaits; a broadcast with an unknown outcome | one swap per proposal; consumed means landed; the stop freezes it; every proposal is decided, except by a task that a restart lost or whose session is gone |
| emergency stop `security/emergency-stop.ts`, signing session `security/local-signing-session.ts` | a durable flag; a process-wide in-memory flag with an expiry | engage, release, begin, clear | handlers that await between their steps; one flag for all sessions | nothing is signed under the stop or for a restricted session |
| Full Access grants `security/full-access-execution-grants.ts`, jobs `execution/autonomous-job-store.ts` | grants and pinned jobs in encrypted stores | create, pause, resume, revoke, expire, arm, stop | three stores written in turn, two calls at once, expiry | one live grant per session, live means armed, ended stays ended |
| mission execution (Solana) `mission/simulation.ts` | simulations by id, used up once | simulate, execute, reconcile | the receipt may stay unknown | one broadcast per simulation |
| EVM execution `execution/evm-kyber-execution.ts`, `kyberswap-preflight.ts`, `evm-receipt-store.ts`, `evm-reconciliation.ts`, the swap card | quotes and preflights in memory, receipts in an encrypted store, a card in a session | prepare, consume, execute, save, reconcile | save and reconcile race; crash between send and save; cards that replace whole sessions | one broadcast per preflight, one swap per proposal, a receipt that agrees with the chain |
| Pump trade lane `pump/*`, handlers in `ipc/registerIpc.ts` | approvals in memory, the execution in its session message, receipts, a risk ledger | simulate, revalidate, execute, verify, recover | three stores written in turn; several reconciliations of one signature; whole-session writes | one broadcast per approval; the ledger counts what landed, once; a finalized execution is counted |
| Pump launch lane `pump/launch-preflight.ts`, handlers in `ipc/registerIpc.ts`, the launch card | mint keys and final checks in memory, preflight, checks and execution in the session message | preflight, revalidate, execute, verify, recover, expire | a key that must not outlive its use, whole-session writes by handlers and window | one broadcast per approval, of the mint that was shown; what is sent is on record |
| limit orders `mission/limit-order.ts`, `execution/reconciliation.ts`, the order card | prepared simulations in memory, two receipts in the session message | simulate, authorize, submit, verify, recover, for the deposit and the withdrawal | every writer replaces the session from an older copy | one transaction per simulation, no receipt contradicts the chain |
| keystore and encrypted stores `storage/keystore-core.ts`, `sessions/service.ts` | one file of keys, encrypted tables, keys cached in services | save, read, create a key, lock, unlock, reset | a key created by two writers, a failed read, a reset beside a write | what is stored can be read again, no key is replaced |
| wallets `wallet/onboarding.ts`, `wallet/evm-wallet.ts` | a secret of the keystore, a record of the database | create, import, list, clear | calls overlap, each with the list it read; two stores written in turn, and an undo that may fail | overlapping calls lose no wallet that was there before them, no record names a wallet that is gone |
| IPC handlers `ipc/registerIpc.ts` | none of their own | one per request | checks before an await, effects after it | see the services |
| renderer `apps/desktop/src/renderer`, AI service | what they last saw | requests | requests made on old information | the main process tolerates them |
| web accounts `apps/web` `api/auth`, `api/wallets` | accounts, linked wallets, challenges, sessions in MongoDB | challenge, login, link, sign out | every await lets another request run | a signature opens one session, a wallet serves one account |
| delegated authority `apps/web` `api/authority`, `apps/cloud-worker` | challenges, authorities, a kill switch, jobs | challenge, activate, revoke, kill, evaluate | checks before, effects after an await of the database | a signature makes one authority; the switch is seen by later jobs |
| web bridge `apps/web/src/app/trade/page.tsx` | the proposal on the page, its record, a cached quote | quote, sign, wait, check the settlement | lost saves, reloads, late receipts, two chains | one deposit per proposal; the status agrees with the chains |
| x402 purchases `x402/service.ts`, the x402 card; `apps/web` `api/x402`, `lib/x402-server.ts` | plans in memory or in the database, a record per payment, receipts on a card | prepare, execute, submit, show | the budget is read long before a payment is recorded; answers lost after the provider was paid | what settled is on record; the budget is passed by a bounded amount |
| planning grants, position strategies, perpetuals, RWA, analysis, `packages/contracts` | see `PROJECT.json` | | | not modelled |

How they interact: the loop's timer fetches prices and calls `evaluate`; each
proposal it returns is emitted as `automation_proposal_created`, which starts
the dispatcher; the dispatcher reads the session, the stop and the signing
session, calls the Solana or the EVM executor and decides the proposal in the
manager. The Pump handlers run on request of the window and share the session
records with it, the chat and the recovery that starts after an unlock; so do
the launch, the swap and the limit order cards. A Full Access grant begins the signing
session the executors read. Every store takes its key from the one keystore
file. IPC handlers, power events, boot and quit change all of these at any
time. The web application shares no state with the desktop; its requests meet in
the database. Each process runs on one JavaScript thread, so code between two
awaits is atomic, and every hazard lies at an await, in a second request, in an
old answer or in a restart. The hazards are listed at their lines in
`PROJECT.json`.

## Modules

| module | models |
|---|---|
| `Automation` | the automation manager and the observation loop |
| `Dispatch` | `EXTENDS Automation`: the dispatcher's tasks, the emergency stop, the vault, the signing session, restarts |
| `Approvals` | abstract: an approval is spent at most once, only while it stands, and what is counted landed |
| `Pump` | the Pump trade lane: its handlers, approvals, session record, receipts and ledger; implements `Approvals` |
| `Launch` | the token launch: preflights and their mint keys, final checks, one signature, one broadcast, the session copies |
| `EvmSwap` | EVM swaps: the card or a Full Access run, preflights, execution, receipts, reconciliation; implements `Approvals` |
| `LimitOrders` | the two transactions of a limit order, the session record and its copies |
| `Payments` | x402 purchases of a session: the cards, prepare, execute and submit, the records, the provider; desktop and web |
| `Authority` | execution grants, pinned jobs, the signing session, the emergency stop |
| `Vault` | the keystore file, the keys of the encrypted tables, lock, reset and restart |
| `Wallets` | adding, listing and clearing wallets over keystore and database |
| `WebIdentity` | accounts, linked wallets and sessions of the web application |
| `WebAuthority` | delegated authority, the kill switch, the job of the cloud worker |
| `WebBridge` | the bridge proposals of the web application, in both directions |
| `MCAutomation`, `MCDispatch` | constants, bounds and symmetry for TLC |
| `MCPurchases`, `MCCards`, `MCDesktop`, `MCWeb` | the same, for two to four modules side by side |
| `*_proofs` | theorems of the module they are named after; `Cards_proofs` of `EvmSwap` and `LimitOrders`, `Desktop_proofs` of `Authority`, `Vault` and `Wallets`, `Web_proofs` of `WebIdentity`, `WebAuthority` and `WebBridge`; each also of the composite in which its modules are explored |

### Automation

`status`, `wake`, `left`, `runs`, `peak` are the fields `status`, `nextWakeAt`,
`pausedRemainingMs`, `completedExecutions` and `highestPriceUsd` of a strategy;
`proposal[s][w]` is the status of the proposal whose idempotency key is made of
strategy `s` and window `w`, or `"NONE"`. `running` is the loop's `#active`,
`ticks` the number of timer callbacks awaiting prices, `now` the clock in
minutes. Each method of the manager is synchronous and is one action. The loop's
callback has one await, so it is two actions: `TickStart`, and one of
`TickEvaluate`, `TickFail` and `TickLocked`. `Evaluate` is the whole loop over
the strategies: since every strategy is read and written on its own it is one
simultaneous assignment. Prices are chosen anew for each evaluation, which
covers fetches that return out of order; 0 stands for a missing price.

What the user may send is what the panel may show, and the panel polls every
five seconds and not at all while the vault is locked: `Pause` and `Cancel` may
reach any existing strategy (`setStatus` has no guard), `Resume` one that is or
recently was paused.

### Dispatch

A task is a record: `pc` is the await it stands at, `approvals` and `swaps`
count the transactions it put on the wire, `landed` says whether a swap took
effect on chain, known to the chain long before it is known to the task. One
step is the code between two awaits at which something else can change what the
task reads next; awaits with nothing to read afterwards are merged.
`"preparing"` is the quote and the unsigned simulation or preflight,
`"executing"` everything from `simulations.execute` or `executeFullAccess` to
the broadcast, `"sent"` the wait for a receipt, `"failing"` the catch block.
Solana and Robinhood strategies share the actions and differ where the code
does: which conditions are read again (`Recheck`), whether an approval may come
first and be followed by one more run (`RunsAgain`), whether a receipt must be
saved in the vault (`SaveFails`, `MayConfirm`).

`session[s]` says whether the record of the session is there. A session is
deleted at any time and its strategies are not (`registerIpc.ts:795`), while a
task or a save of the window that has read it may write it back (`WrittenBack`,
`RestoreSession`). A task that starts without its session returns before it
decides anything (`index.ts:619`): its `pc` is `"orphaned"`, and the proposal
waits without a deadline, until its strategy is steered or the panel decides. The
panel refuses to approve a Full Access proposal, but only if it finds the session
(`ManualApprove`): once that is gone the proposal can be approved by hand, and a
run is counted with no swap. `ProposalsDecided` therefore excepts the task
without a session, beside the one a restart lost, and `ConsumedMeansLanded` the
sessions that were ever deleted. A session deleted while its task is past the
first read changes nothing for the task, which decides the proposal as any other.

The engage handler is split at its await (`Engage`, then `EngageRest` or
`EngageFails`). `Reboot` keeps what is in SQLite and marks tasks in flight as
lost. Signing (`BeginSigning`, `ClearSigning`) is driven by the handlers that
begin and clear it; the grants among them are modelled in `Authority`.

### Pump

`message[p]` is what the encrypted session holds for proposal `p`: whether its
simulation is ready or passed the final revalidation (and with which digest),
and the execution record with its status. `prepared` and `final` are the two
maps of `PumpPreparedExecutionService`; an unsigned transaction, its digest, its
signature and its execution id are one value of `Builds`, since each is made
once for it. `receipts` and `ledger` are the two stores; an event of the ledger
carries the time of its reconciliation, because `recordFinalized` compares
events whole. `chain` and `stale` are the truth about a transaction and its
blockhash, which the handlers see only through requests.

A handler in flight is a record in `task`: the await it stands at, its
transaction, and, for the handlers that write the session back whole (chat,
simulate, revalidate), the copy they read. One action is the code between two
awaits on the network or on the password; awaits on the local stores, which are
queued one behind the other, are not split. `SaveReceipt`, `RecordReceipt` and
`MarkFinalized` are three actions, so a lock or a crash may fall between the
stores. Execute, an explicit verify and the recovery share the actions from
`ReadStatus` on; they differ in what a failure writes (`ReconcileFails`).
Everything that throws and changes nothing is `GiveUp` or `PersistFails`; a
write while the vault is locked changes nothing (`Stored`). The expiry of
approvals may come at any time (`Purge`). The window disables the buttons for
what is already simulating and awaits one chat answer at a time; nothing else is
assumed of it.

`Approvals` is what this amounts to for the user. The refinement mapping calls a
transaction granted while it is held, by the map of final approvals or by the
one handler that has consumed its approval and not sent it yet (`Held`).

### Launch

`saved` is the message of the draft in the encrypted session, `shown` the one in
the window: each has the mint of its preflight, of its final checks (a blocked
check is none) and of its execution. A mint names its preflight, transaction and
execution, since every preflight generates one of each. `held` is `#prepared`,
the mints whose secret key is in memory, `reviews` the final checks that passed
and are not spent or two minutes old, `consumed` is `#consumed`. A call is a
record of `click` with the await it stands at (`"password"`, `"signed"` before
the broadcast, `"sent"`, `"checking"` the status of the transaction, `"height"`
the block height, `"showing"` its answer), the copy its handler read (`read`) and
the window's copy from which it was made (`view`). Handlers that take a copy
write it back whole (`Write`); the execution reads afresh and replaces one field
(`Persist`); the card writes what it showed when it was clicked with the field of
the answer replaced (`Show`, `Answered`). `lost` remembers the executions that an
older copy has replaced. `Revalidate` and `MaySignMint` are the guards that tie
the record, the request and the key; `AlreadyLaunched` answers an execution on
record. That a blockhash has expired is decided when its height is read
(`CheckHeight`): from then on the transaction does not land. A locked screen
keeps the keys, closing the window and quitting forget them (`Forget`). Awaits on
local stores are not split, and the emergency stop, read at the start of a call,
is a refusal. The automatic preflight of a new draft is left out: it is asked
for before the draft is saved (`WorkspaceApp.tsx:1930`), the handler does not
find the draft, and it never passes.

### EvmSwap

A proposal of `Swaps` is one message of a session; `shown[s]` is what the window
holds of it (the preflight on its card, the receipts it was answered), `stored[s]`
the same in the encrypted session. `preflight[p].kept` is the map of
`KyberSwapPreflightService`, `quote` the quotes that can still be built,
`receipts` the encrypted store, `chain` and `allowed` the truth on chain. A call
in flight is a record of `task` with the await it stands at: `"building"` the
quote and the simulation, `"verifying"` the password, `"starting"` the last
check of the Full Access handler, `"checking"` everything up to the send,
`"saving"` and `"waiting"` the receipt. A Full Access run prepares again after a
confirmed approval (`round`), a card waits for the user. A send that throws may
have reached the node (`Send`). `ReconcileList` and `ReconcileOne` are the
reconciliation, which saves the records it listed one at a time beside the
executions. The chat writes an older copy of the message back when `kind.chatty`.
What the window knows to be in flight is state of the workspace
(`preparingEvmIds`, `executingEvmIds`), which the unlock screen replaces: a
workspace mounted anew knows nothing of the calls of the one before (`seen`,
`Shows`), and a card may be executed while its earlier execution still runs.

### LimitOrders

`record` is the message in the encrypted session, `card` the one in the window;
each has a simulation and a receipt for the deposit and for the withdrawal.
Every handler takes a copy of the record and replaces the whole (`Replace`,
`ReplaceBoth`), which is why `work` carries `view` (the window's copy) and `copy`
(the handler's). `prepared` is the map of simulations, emptied by expiry and by
a restart. `SendOrder` distinguishes whether the transaction arrived and whether
the call was answered. `MayDeposit`, `MayWithdraw` and the two reviews are the
branches of the card.

### Payments

`card[k]` is the batch of one card, by the call it stands at: `"pricing"` is
prepare up to the reading of what was spent, `"planning"` the rest of it,
`"approving"` the password or the wallet, `"waiting"` the execution. `plan[p]`
is a prepared payment, `request[p]` the execution of it, which goes on when the
page is reloaded or loses the answer (`StopsBatch`); `left` remembers the
requests abandoned before they were recorded. `receipt[p]` is the status of the
record, `proof[p]` what the provider did with the signed payment. The desktop
and the web share the actions: the guards of the emergency stop and the restart
are the desktop's (`OnWeb`), a receipt that is lost with a change of session is
the web's (`ShowReceipt`), and a Full Access session runs a batch once and on
its own (`Fresh`). Every purchase costs one unit. On the desktop the loop of a
batch goes on behind a card that a lock and unlock mount anew; the model ends
the batch there, and the request in flight goes on.

### Authority

`grant`, `job` and `signing` are the records of the three services. A create
call goes through the password (`RequestGrant`), the mutation that writes the
grant (`WriteGrant`), the arming of each job (`Arm`, `ArmFails`) and the start of
signing (`BeginSigning`). Every other handler is one mutation. The look at the jobs that precedes the
grant's own mutation is part of it. `Engage` is split
at the read of the grant store, which fails when a reset has removed its key
(`orphans`, `readable`).

### Vault

A service that saves reads its key from memory or from the file, or generates
one and has the keystore write it; a mutation of the keystore reads the file and
renames a new one over it (`BeginMutation`, `EndMutation`). `Forgiving` services
take a failed read for a missing key. `rows` are the keys under which a table
holds records: a record is readable when the file still has that key.

### Wallets

One secret holds the wallets, primary first, and for Solana one database record
names the primary one (`recorded`). No handler has a queue or a flag, so calls
that add, list and clear overlap; `edit[c]` is one of them: its `op`, the await
it stands at, the wallet it adds or found to be the first, and the list it read
(`found`). An addition reads the list (`ReadExisting`), writes the longer one
(`StoreSecret`) and, when no record is found, encrypts the address and writes the
record (`NameWallet`); a failed second write puts the list it read back (`Undo`),
which may fail as well. Listing reads the secret (`ReadPrimary`), makes the
signers and asks for the record (`FindRecord`) and writes a missing one
(`NamePrimary`); clearing lists first, then removes secret and record. The record is
inserted or replaced (`ON CONFLICT`, `database.ts:309`), so there is never a second one.

What each of these writes may be older than what it overwrites. `shared` notes
that another addition or clearing overlapped the call, `told` how a wallet was
reported (by a call that was `"shared"` or `"alone"`), and `marred` that a shared
call has written, or one has ended half-way, since the wallets were last cleared
by a call that was alone. `WalletsAgree` says what holds whatever overlaps: a
wallet reported by a call that was alone stays until the wallets are cleared
(`ToldAreStored`), and when no edit is in flight the record names a wallet of the
vault unless `marred` (`RecordNamesOurs`). The exceptions are real: of two
additions that overlap, both report their wallet and the later write loses that of
the earlier (`AddedAreKept` does not hold), and a list beside a clearing, or two
that overlap, may leave the record of a wallet that is gone.

### WebIdentity, WebAuthority

A request is a record that names the database call it waits for; one action is
one such call, which MongoDB makes atomic, with the unique indexes of the
schemas (`Indexed`). `MissingIsNull` of `WebAuthority` says whether the database
matches the missing field `usedAt` with `null`, on which the consumption of a
challenge rests: MongoDB itself does, Prisma's connector tells the two apart,
and then no authority is ever made; TLC takes `TRUE`, the proofs either.

### WebBridge

`onPage` and `inRecord` are the proposal on the page and in the database.
`Patch` is `patchProposal`: it changes the message of the session that is open,
does nothing when another one is, and does not report a save that fails
(`unseen`). `Press` takes the proposal as it is, and the call goes by that
snapshot to its end. Both routes share the actions; they differ where the page
does (`CardDisabled`, `RevertedStatus`, `BeforeSending`). The record has one page: `bridgeBusy` is state of the page, so
a second tab on the same session has its own, and that tab is not modelled;
neither is a session that is opened again while a save of it is in flight.

Outside `src/`, and modelled from its use: the system clock (`Clock`), the
chains, the RPC nodes, Jupiter, Kyber and Relay (the choice of `lands`, of
receipts, verdicts and thrown sends, `Settle`, `Mine`, `Decides`,
`BlockhashExpires`), the wallet of the browser, MongoDB, Electron's power events.

## Runs

| run | instance | asks |
|---|---|---|
| `MCManager` | a DCA strategy of 2 orders, every 2 minutes, or an EXIT strategy with stop 8, take 14, trail 20 percent, prices 10, 11, 13, 14; 8 minutes, 2 fetches in flight | `PendingMatchesStrategy`, `RunsCountConsumed`, `StoppedStaysInert` |
| `MCSolana` | one Full Access DCA strategy on Solana, 2 windows, its session deleted and written back | types, `ConsumedMeansLanded`, `StopFreezesExecution`, refinement of `AutoSpec` |
| `MCEvm` | two EXIT strategies on Robinhood, of a Full Access and of a restricted session, one loop and one signing flag, under fairness | `RestrictedNeverBroadcasts`, `AtMostOneSwap`, `ProposalsDecided` |
| `MCPurchases` | one Pump proposal, one transaction, two handlers, two times of reconciliation; two x402 cards with one resource each or one with two (not in a restricted session), three payments, a budget of one | types, `OneBroadcast`, `LedgerSound`, `FinalizedIsCounted`, refinement of `Approvals` (`KeepsPromise`); `SettledIsOnRecord`, `SpendIsBounded` |
| `MCCards` | one EVM swap with three preflights and two calls, in a Full Access session with chat or a plain one without; one limit order with two simulations and two calls | types, `RunIsBounded`, `ReceiptsAgree`, `OneSwap`, `DecidedStays`, refinement of `Approvals`; `SentOnce`, `LimitReceiptsTrue` |
| `MCDesktop` | two grants, two create calls, one session and job; three services and three keys; one new and one imported wallet, a limit of two, two calls; a launch draft, two mints and two calls | types, `OneLiveGrant`, `LiveIsArmed`, `EndedStays`; `RowsReadable`, `KeyStays`; `WalletsAgree`; `LaunchedAsApproved` |
| `MCWeb` | two wallets, two challenges, two requests; three wallets, three challenges, two requests; one bridge of either direction, two transactions | types, `OneGrantPerSignature`, `KillIsSeen`; `ScopesAreDisjoint`, `OneSessionPerSignature`; `DepositedOnce`, `BridgeStatusTrue` |

Five more runs each check one statement of the repository that the code does
not keep; TLC's counterexample is the evidence of the finding in `PROJECT.json`.

| run | statement | shortest story |
|---|---|---|
| `MCSignature` | "Persist the locally derived signature before entering the network call" (`ipc/registerIpc.ts:1824`) | a chat answer that was awaited meanwhile writes back its older copy of the session |
| `MCBudget` | "maximum N cycles" (`ai/service.ts:314`) | receipt unknown, swap landed, not counted, resumed, bought again |
| `MCStopSigning` | the signing session "was cleared by ... emergency stop" (`ActivityCards.tsx:1313`) | a grant whose password is being verified begins signing after the stop |
| `MCPaid` | "continue to retry only unpaid resources" (`page.tsx:2296`) | the payment settles after its answer was lost, the card still offers the resource, and it is paid again |
| `MCBridge` | "Do not submit again until you inspect the signature" (`page.tsx:1247`) | "Check settlement" of a bridge from Solana sends a second deposit |

Further statements that the code does not keep stand at the end of the modules,
each with the line it quotes, and no run is spent on them: `AwaitingHasProposal`
(`Automation`), `NoStaleBroadcast` and `TruthfulFailureNotice` (`Dispatch`), `NotPreparedAgain`,
`NotSubmittedIsTrue` and `ReconciledIsShown` (`EvmSwap`),
`NewSimulationOffered` (`LimitOrders`), `OneLaunch` and `LockDiscards`
(`Launch`), `SessionsSurvive`
(`Vault`), `AddedAreKept`, `PhraseReturned`, `FirstIsPrimary` and `ClearedEverywhere`
(`Wallets`), `SourceClaimTrue` (`WebBridge`). That "manual proposal approval is
unavailable" for Full Access (`ipc/registerIpc.ts:2427`) does not hold once the
session is deleted either; `ManualApprove` has the case, and no run is spent on it.

**Composites.** The modules of `MCPurchases`, `MCCards`, `MCDesktop` and `MCWeb`
share no record, only the lock of the vault or the session of a request, which each
models for itself. Their composition would multiply states and show nothing, so
each part is explored while the others are at their initial state, and of an
initial state with alternatives only one is combined with the other parts. In
`MCCards` states that differ only in `told`, which no guard and no property of
the run reads, are explored once (`VIEW Unreported`).

**Bounds.** `MaxTime` bounds the clock and with it the windows, `MaxTicks` the
overlapping fetches. The manager treats strategies independently, so `MCManager`
creates one of the two kinds (`OneAtATime`). Two minutes at one order a minute
are two windows: enough for a rejected order, a resumed one and a second task
beside a first that is still waiting. Four windows and two orders in
`MCManager` allow a rejection in between and a window that is hit twice; its
prices allow a rise to 13 and a fall to 10, which the trailing stop must answer,
and an old price after a new one (`PeakCorrect` is proved). In `MCEvm` the two strategies follow one
another on the shared flag and loop (`Apart`): the restricted one in the first
window and up to the stop, the Full Access one beyond it; the stop is engaged in
every state of `MCSolana` as well. A session is deleted, and restored or not, in
states in which the stop is released and not being engaged (`DeletedApart`), and
in `MCEvm` it is that of the Full Access strategy (`ExitDeleted`). The counters `approvals`, `swaps`, `sent`,
`made` and `opened` end at 2, one above what the properties allow.

In `MCPurchases` two handlers may be two executions of one approval, an execution
beside a verify, or either beside a chat answer, a simulation or a
revalidation, in any order with locks, crashes and both outcomes of the chain;
two times are enough for a receipt to differ from its earlier self. `Builds` bounds
how many transactions are ever built, which is one more final revalidation each.
Of the purchases, a budget of one is passed by a second and a third payment only
when two cards are at work or a request was left behind; two resources let a
batch go on after its first receipt, on the web with retries and with full
access beside the stop; one resource on both cards lets them meet. Cards and
payments are interchangeable there, hence the symmetry.

Three preflights in `MCCards` are an approval, a swap and one more of either,
which a second swap or a second approval needs; two calls are two executions of
one preflight, or an execution beside a preparation. Two simulations of a limit
order are a deposit and a withdrawal, or a deposit simulated twice. `MCDesktop`
has the grant that ends and the one after it, a service that shares nothing,
one that caches its key and one that forgives a failed read, and one more key
than services that create theirs at once. Two calls on the wallets are two
additions, one of which may be refused, a list or a clearing beside an addition,
or a pair of either. Two mints of a launch are a draft that
is preflighted again between its final checks and its password, or launched
again when an older copy took its execution away; two calls are any two of the
card, a chat answer, a listing and the recovery. `LaunchBound` keeps apart what
would only multiply states: locks come while a call awaits something and before
the second mint, chats, verification and recovery end before it. Two requests in `MCWeb` are two
presentations of one challenge, an activation beside the kill switch, or a login
beside a link; a bridge has its approval and one deposit, or two deposits.

The proofs lift all of these bounds for the properties they state. The deadlock
check is off in `MCWeb` alone, where challenges and transactions are used up:
elsewhere the loop can be switched, the vault locked or the program restarted; the
purchases of `MCPurchases` end only when everything offered was received
(`AllReceived`).

**Fairness.** Only `MCEvm` needs any: weak fairness of every task step, that is,
every await of a task returns or throws. The RPC, quote and receipt requests of
the executors have timeouts, and no other actor is assumed to do anything: the
user need not unlock, the loop need not run, a locked vault makes the task
fail rather than wait. A restart ends a task, and a session deleted before it is read leaves one without
a decision; `ProposalsDecided` excepts both.

**Slips.** Operators whose name ends in `Mutant`, and the ones commented as a
slip, are plausible errors in the code beside which they stand (a dropped guard,
an unchecked receipt, a retry of an unknown outcome). They are used by no
specification; substituting one for its original must break the property that
`PROJECT.json` pairs it with.

## Theorems

Assumptions are the ones named in the modules, and no others; they hold in every
run.

- `StrategiesAssumption`, `ScheduleAssumption`, `ExitAssumption`,
  `BoundAssumption`, `SessionsAssumption`: what `createDca` and `createExit`
  validate, and that the bounds are numbers.
- `PumpAssumption`, `LaunchAssumption`, `EvmSwapAssumption`, `LimitAssumption`,
  `AuthorityAssumption`, `VaultAssumption`, `WalletsAssumption`,
  `WebIdentityAssumption`, `WebAuthorityAssumption`, `BridgeAssumption`: that
  what stands for "undefined" is none of the values it stands beside, and that
  sets of kinds are subsets of the sets they divide; besides, that a job has a
  session, that new and imported wallets differ, and that a limit is positive.
- `PaymentsAssumption`: the same, and that cards and payments are finitely many.
- `WipedAssumption`: the services whose tables a reset clears read their key
  from the keystore each time, under a record of their own (`Own`). It was found
  by proving `RowsReadable`: a service that kept its key in memory would go on
  writing under a key the reset has removed, and two services that make the key
  of one record at once replace each other's.

`Automation_proofs`, of `AutoSpec`:

- `AutoTypeCorrect`: the type invariant, inductive by itself.
- `PendingCorrect`: the tables agree. `PendingInv` (types and the property) is
  inductive because every method that changes a status away from
  `AWAITING_APPROVAL` also decides what is pending.
- `InertCorrect`: stopped strategies are inert, from `PendingInv`: a stopped
  strategy has nothing pending, so nothing can be approved late.
- `PeakCorrect`: the highest price never falls.
- `RunsCorrect`: the count is exact and bounded. `CountInv` adds that an order
  is pending only while one is left; without it an approval could pass the
  maximum, so the property alone is not inductive.

`Dispatch_proofs`, of `Spec`:

- `DispatchRefines`: `Spec => AutoSpec`, by the identity mapping: every step of
  a task, of the user, of the stop or of a restart is a step of the manager or
  a stutter. `DispatchPending` follows from it and `PendingCorrect`.
- `OneSwap`, `ConsumedCorrect`, `DispatchTypeCorrect`: from `TaskInv`, which
  says what a task has done by where it is (`Sound`: nothing has landed and at
  most one approval is out before the swap is sent) and that a consumed
  proposal of a session that was never deleted has a landed swap. A session that
  was once deleted is never again one that was kept (`StaysKept`).
- `StopCorrect`: `StopFreezesExecution`, a step property, from the gates of each task step.
- `RestrictedCorrect`: a task of a restricted session never gets past reading
  its session (`RestrictedInv`).

`Pump_proofs`, of `PumpSpec`:

- `PumpTypeCorrect`: from `TypeInv`, which adds to the types what a handler
  knows by where it is (`TaskOK`) and that a recorded execution, in the session
  or in an old copy of it, is one of a transaction. Without it a stored receipt
  might be a receipt of nothing.
- `OneBroadcastCorrect`: from `ExclusiveInv`. Counting broadcasts is not
  inductive: a broadcast is the first because its transaction has one holder at
  a time, an approval or a handler, and what is held was never sent.
- `LedgerCorrect` and `FinalizedCorrect`: from `BooksInv`, which says what a
  reconciliation has established by where it is, and that the copies of the
  session that handlers will write back claim no more than the books hold.
- `PromiseKept`: `PumpSpec => KeepsPromise`. A final revalidation grants
  (`GrantStep`), a broadcast spends (`SpendStep`), and landing and counting are
  themselves (`LandStep`, `CountStep`); every other step holds nothing new
  (`HeldShrinks`) and so withdraws some approvals, or none (`WithdrawStep`).

`Launch_proofs`, of `LaunchSpec`:

- `LaunchTypeCorrect` and `LaunchCorrect`, from `LaunchInv`. That a mint is sent
  once and as shown says nothing about the copies of the session calls carry,
  any of which may be written back; so the invariant says of every copy, in
  the record, in the window or in a call, that it names only mints that were
  made and that final checks whose key is in memory are those of the preflight
  beside them (`Paired`), and of a call what it knows by where it is
  (`GoodClick`): past the signature its mint is on record, its key is gone, it
  was not sent, and no other call holds it (`SignedApart`).

`Desktop_proofs`, of `AuthSpec`:

- `AuthTypeCorrect`, `EndedCorrect`: by the actions alone.
- `LiveCorrect`: from `LiveApart`, two live grants of a session are one and the
  same. The one lemma that matters is `NoneRevive`: no step but `WriteGrant`
  makes a grant live, and its guard sees none.
- `ArmedCorrect`: from `PinsHeld`, that every pin of a live grant is armed by it
  or is one its call has yet to arm; the property speaks only of grants whose
  call has ended and is not inductive.

of `VaultSpec`:

- `RowsCorrect`: from `VaultInv`. What is saved stays readable because a
  mutation of the keystore is alone and its copy of the file is the file
  (`MutationsApart`), and because a key is generated only where there is none
  (`MadeOnce`), unless a failed read was forgiven.
- `KeysCorrect`: `KeyStays` for services whose record is their own. The three
  stores that share `full-access-store-key` are outside this hypothesis, and so
  are `x402/service.ts` and `kamino-rwa/service.ts`, which make their key
  without the queue (`#keyTail`) the other stores serialise it with.

of `WalletsSpec`:

- `WalletsCorrect`: from `WalletsInv`, for any number of calls. Of two calls in
  flight the one beside an edit knows it (`EditsApart`), so a call that knows of
  none is alone: its list is the secret, and no record has appeared since it
  looked. Past its read every addition, alone or not, holds whatever was reported
  for certain (`HoldsTold`), so its write, or its undo, loses none of that. A
  record names a stored wallet unless a write may have been old or a clearing
  has yet to remove it (`Unnaming`).

and `DesktopTypeCorrect` of the composite.

`Cards_proofs`, of `LimitSpec`:

- `SentCorrect`: from `OnceInv`. A simulation is in the map of prepared ones, or
  with the one call that took it, or over; what is in the map or taken was never sent.
- `ReceiptsCorrect`: from `TrueInv`, that not only the record and the card but
  every copy a call holds agrees with the chain; any of them may be written back.

of `SwapSpec`, from `SwapInv`: what a preflight, its transaction and its receipt
allow each other (`LaneInv`), that a call and every copy of a message name
preflights of their own swap (`CallsInv`, `WindowInv`), and that a preflight
taken from the map is with one call whose step says whether it was sent and
whether its receipt was saved (`TakenInv`).

- `ReceiptsTrue` and `DecidedCorrect`: what the executions and the
  reconciliation may save (`ReceiptMoves`).
- `SwapPromiseKept`: `SwapSpec => KeepsPromise`, the second implementation of
  `Approvals`, step by step as for Pump.
- `RunCorrect`: from `RunInv`, what a Full Access run has prepared by its round
  and its step (`RoundOK`: in the second round nothing but the approval that has
  landed), and that a proposal has one run (`OneRun`).
- `SwappedOnce`: in a Full Access session from `RunInv`, otherwise from
  `CardInv`. Counting swaps is not inductive: a second one is prevented by what
  the card says. The invariant is that the copy in the window and the one in the
  session both block whatever a live swap is not (`CardOK`: its preflight is on
  the card, or an answer that says unknown or confirmed); that a call which may
  still send has its preflight on both copies (`SendOK`), so no other call can
  answer over it; and that the window knows one call of a proposal at a time
  (`OneSeen`), the password dialog included (`DialogOK`). The attempt to prove it
  for a window that also remembers the calls of the workspace before an unlock
  showed that the code's window does not, and the model was corrected (`Shows`).

and `CardsTypeCorrect` of the composite.

`Web_proofs`, of `IdentitySpec`:

- `WalletsCorrect`: from `LinksApart`, which the index gives and no step breaks.
- `SessionCorrect`: from `SessionInv`: a request past the challenge has consumed
  it, and no other request has.
- `ScopesCorrect`: from `ScopeInv`. Two accounts may exist of which one was
  opened with a wallet of the other; the invariant (`Home`) is that an account
  that serves a session has its first wallet linked to itself, and a wallet is
  linked once.

of `WebAuthSpec`:

- `GrantCorrect`: from `GrantInv`: an activation past the conditional update is
  alone with its challenge (`UsedOnce`).
- `KillCorrect`: from `KillInv`: once a kill-switch request was answered the
  switch is set and stays (`Switched`), so a job that starts later reads it.

of `BridgeSpec`:

- `DepositCorrect`: from `DepositInv`: as long as nothing went unseen, a deposit
  is held by the call in flight or recorded in a status from which the page only
  checks (`Spent`, `Final`), on the page and in the database.
- `BridgeStatusCorrect`: from `StatusInv`. A call writes what it concluded from
  the proposal it began with, which may be an older one; so the invariant says
  what a call knows of its transaction by where it is (`CallState`), that only
  deposits settle, that page and record claim no more than the chains show
  (`PagesAgree`), and, while nothing went unseen, that the proposal is still the
  one the call began with (`SeenState`).

and `WebTypeCorrect` of the composite.

`Payments_proofs`, of `PaymentsSpec`:

- `PaymentsTypeCorrect`: from `PurchaseInv`, what a payment has been through by
  where its request stands (`PaymentOK`), what a card holds by where its batch
  stands (`CardOK`), and that a request not recorded yet is awaited by a card or
  was left behind (`Owned`).
- `EverySettlementIsOnRecord`: the record comes before the payment, and what a
  card shows was bought for it and stays so (`OnlyShown`, `BoughtStays`).
- `SpendStaysBounded`: from `CountInv`, that what is recorded, what cards are
  about to spend and what requests left behind may still spend stay below the
  bound together. The property alone is not inductive: a purchase that passed
  the check of the budget is recorded only awaits later. A check of the budget
  resets the count (`CheckCounts`), a request left is paid for by the term
  `left` (`StopsCounts`), and a record takes the place of what its card or its
  request might spend (`SubmitCounts`); no other step spends (`NoneMore`).

`PurchasesTypeCorrect` is of the composite with Pump.

The composites let one part move while the others rest, so each of their
behaviours is one of every part (`WebHasParts`, `DesktopHasParts`,
`CardsHaveParts`, `PurchasesHaveParts`): what is proved of a part holds in them.

Only model-checked: `ProposalsDecided`, which is liveness under fairness, and the
statements with a counterexample. Every other property of a run is proved. Out of
the prover's reach are liveness, `ENABLED` and induction over data; nothing here
needs the last.

## Not modelled

Components with status `not_modelled` or `partly` in `PROJECT.json` are left out
for the reason given there. Amounts, addresses, message texts and cryptography
are abstracted; a vault reset is modelled where it bites (`Authority`, `Vault`)
and left out of `Dispatch`, whose strategies it deletes.

Most lines of the repository are views, schemas, clients of external services
and pure checks of one request (`packages/contracts`, `integrations`, the pages
and panels, codecs, policies, analysis routes): they keep no state and have no
order of events, and what they decide appears as a refusal or as a choice in the
module of the handler that calls them. The desktop's bridge has a service and
receipts, but the request schema of the window cannot express the direction its
handler accepts, so no call reaches it.
