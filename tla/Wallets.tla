------------------------------ MODULE Wallets ------------------------------
(***************************************************************************)
(* The wallets of the vault: one secret of the keystore holds the private  *)
(* keys, the first of them primary. For the Solana wallets one record of   *)
(* the database holds the encrypted address of the primary wallet; the EVM *)
(* wallets have none. The handlers have no queue: calls that add, list or  *)
(* clear wallets overlap, and each works on what it read before its awaits.*)
(***************************************************************************)
EXTENDS Naturals, Sequences, SequencesExt

CONSTANTS New,      \* wallets the application may generate
          Existing, \* wallets the user may import
          Limit,    \* MAX_WALLETS
          NoWallet, \* stands for what is undefined
          Edits     \* calls in flight at once

ASSUME WalletsAssumption ==
  /\ New \cap Existing = {} /\ NoWallet \notin New \cup Existing
  /\ Limit \in Nat \ {0}

VARIABLES secret,  \* the wallets of the keystore record, primary first
          meta,    \* the wallet the database record names
          edit,    \* the calls in flight
          known,   \* wallets the user holds the phrase or the key of
          told,    \* how a wallet was reported as configured, if it was
          open,
          recorded, \* the database has a record: Solana wallets, not EVM wallets
          marred    \* record and secret may differ: see Spoils, ClearMeta, Crash

walletVars == <<secret, meta, edit, known, told, open, recorded, marred>>

All == New \cup Existing
Lists == {w \in SeqOf(All, Limit) : IsInjective(w)}
WalletCalls == [op : {"none", "add", "list", "clear"},
          pc : {"idle", "reading", "setting", "listing", "naming", "undoing",
                "clearing", "unnaming"},
          wallet : All \cup {NoWallet}, \* to add, or the primary one that was listed
          found : Lists,                \* the list as an addition read it
          shared : BOOLEAN]             \* another addition or clearing overlaps
NoEdit == [op |-> "none", pc |-> "idle", wallet |-> NoWallet, found |-> <<>>, shared |-> FALSE]

At(c, op, pc) == edit[c].op = op /\ edit[c].pc = pc
Goto(c, pc) == edit' = [edit EXCEPT ![c].pc = pc]
Ends(c) == edit' = [edit EXCEPT ![c] = NoEdit]

\* Listing alone writes no secret.
Editing(c) == edit[c].op \in {"add", "clear"}

WalletsInit ==
  /\ secret = <<>>
  /\ meta = NoWallet
  /\ edit = [c \in Edits |-> NoEdit]
  /\ known = Existing
  /\ told = [w \in All |-> "no"]
  /\ open = TRUE
  /\ recorded \in BOOLEAN
  /\ marred = FALSE

-----------------------------------------------------------------------------
(* A call begins when the vault is open, whatever else is in flight.       *)

BeginEdit(c, op, w) ==
  /\ edit[c] = NoEdit /\ open
  /\ edit' = [d \in Edits |->
        IF d = c
        THEN [NoEdit EXCEPT !.op = op, !.pc = "reading", !.wallet = w,
                            !.shared = \E e \in Edits : Editing(e)]
        ELSE [edit[d] EXCEPT !.shared = @ \/ (op # "list" /\ edit[d] # NoEdit)]]
  /\ UNCHANGED <<secret, meta, known, told, open, recorded, marred>>

\* A generated wallet is one that nobody has met.
Unheard(w) ==
  /\ w \notin known \cup ToSet(secret) \cup {meta}
  /\ \A c \in Edits : w # edit[c].wallet /\ w \notin ToSet(edit[c].found)

\* createWallet, importMnemonic, importPrivateKey
Add(c, w) == (w \in New => Unheard(w)) /\ BeginEdit(c, "add", w)

\* The list of the EVM wallets changes nothing.
List(c) == recorded /\ BeginEdit(c, "list", NoWallet)

Clear(c) == BeginEdit(c, "clear", NoWallet)

\* A write by a call that overlapped another edit follows from what may be old.
Spoils(c) == marred' = (marred \/ edit[c].shared)

-----------------------------------------------------------------------------
(* #persistPrivateKey, #persistWallet                                      *)

Accepted(w) == Len(secret) < Limit /\ w \notin ToSet(secret)

\* For the Solana wallets a refusal runs the catch too, which writes the list
\* back.
ReadExisting(c) ==
  /\ At(c, "add", "reading") /\ open
  /\ \/ Accepted(edit[c].wallet) /\ edit' = [edit EXCEPT ![c].pc = "setting", ![c].found = secret]
     \/ /\ ~Accepted(edit[c].wallet) /\ recorded
        /\ edit' = [edit EXCEPT ![c].pc = "undoing", ![c].found = secret]
     \/ ~Accepted(edit[c].wallet) /\ ~recorded /\ Ends(c)
  /\ UNCHANGED <<secret, meta, known, told, open, recorded, marred>>

Report(c) ==
  /\ Ends(c)
  /\ told' = [told EXCEPT ![edit[c].wallet] = IF edit[c].shared THEN "shared" ELSE "alone"]
  /\ known' = known \cup {edit[c].wallet}

ExtendedMutant(c) == <<edit[c].wallet>>
Extended(c) == Append(edit[c].found, edit[c].wallet)

Named == meta # NoWallet

StoreSecret(c) ==
  /\ At(c, "add", "setting") /\ open
  /\ secret' = Extended(c)
  /\ IF Named \/ ~recorded THEN Report(c) ELSE Goto(c, "naming") /\ UNCHANGED <<told, known>>
  /\ Spoils(c)
  /\ UNCHANGED <<meta, open, recorded>>

\* The record is replaced if somebody wrote one meanwhile.
NameWallet(c) ==
  /\ At(c, "add", "naming")
  /\ meta' = edit[c].wallet
  /\ Report(c)
  /\ Spoils(c)
  /\ UNCHANGED <<secret, open, recorded>>

\* A locked vault, a full disk, a database error: the Solana wallets put the
\* list they found back.
AddFails(c) ==
  /\ edit[c].op = "add" /\ edit[c].pc \in {"reading", "setting", "naming"}
  /\ IF recorded /\ edit[c].pc # "reading" THEN Goto(c, "undoing") ELSE Ends(c)
  /\ UNCHANGED <<secret, meta, known, told, open, recorded, marred>>

Undone(c) == edit[c].found

Undo(c) ==
  /\ At(c, "add", "undoing")
  /\ secret' \in IF open THEN {Undone(c), secret} ELSE {secret}
  /\ Ends(c)
  /\ Spoils(c)
  /\ UNCHANGED <<meta, known, told, open, recorded>>

-----------------------------------------------------------------------------
(* listWallets and clearWallets. The latter lists first.                   *)

Listed(c) == IF edit[c].op = "clear" THEN Goto(c, "clearing") ELSE Ends(c)

ReadPrimary(c) ==
  /\ edit[c].op # "add" /\ edit[c].pc = "reading" /\ open
  /\ IF recorded /\ secret # <<>>
     THEN edit' = [edit EXCEPT ![c].pc = "listing", ![c].wallet = secret[1]]
     ELSE Listed(c)
  /\ UNCHANGED <<secret, meta, known, told, open, recorded, marred>>

\* hasWallet is asked after the signers of all wallets were made.
FindRecord(c) ==
  /\ edit[c].pc = "listing"
  /\ IF Named THEN Listed(c) ELSE Goto(c, "naming")
  /\ UNCHANGED <<secret, meta, known, told, open, recorded, marred>>

\* The missing record is written after the address was encrypted.
NamePrimary(c) ==
  /\ edit[c].op # "add" /\ edit[c].pc = "naming"
  /\ meta' = edit[c].wallet
  /\ Listed(c)
  /\ Spoils(c)
  /\ UNCHANGED <<secret, known, told, open, recorded>>

ListFails(c) ==
  /\ edit[c].op # "add" /\ edit[c].pc \in {"reading", "listing", "naming", "clearing"}
  /\ Ends(c)
  /\ UNCHANGED <<secret, meta, known, told, open, recorded, marred>>

ClearSecret(c) ==
  /\ edit[c].pc = "clearing" /\ open
  /\ secret' = <<>>
  /\ told' = [w \in All |-> "no"]
  /\ IF recorded THEN Goto(c, "unnaming") ELSE Ends(c)
  /\ Spoils(c)
  /\ UNCHANGED <<meta, known, open, recorded>>

\* A clearing that nothing overlapped leaves neither secret nor record.
ClearMeta(c) ==
  /\ edit[c].pc = "unnaming"
  /\ meta' = NoWallet
  /\ Ends(c)
  /\ marred' = edit[c].shared
  /\ UNCHANGED <<secret, known, told, open, recorded>>

ClearMetaFails(c) ==
  /\ edit[c].pc = "unnaming"
  /\ Ends(c)
  /\ marred' = TRUE
  /\ UNCHANGED <<secret, meta, known, told, open, recorded>>

-----------------------------------------------------------------------------

LockWallets == open /\ open' = FALSE /\ UNCHANGED <<secret, meta, edit, known, told, recorded, marred>>
UnlockWallets == ~open /\ open' = TRUE /\ UNCHANGED <<secret, meta, edit, known, told, recorded, marred>>

Crash ==
  /\ marred' = (marred \/ \E c \in Edits : Editing(c))
  /\ edit' = [c \in Edits |-> NoEdit]
  /\ open' = FALSE
  /\ UNCHANGED <<secret, meta, known, told, recorded>>

Adding(c) ==
  \/ \E w \in All : Add(c, w)
  \/ ReadExisting(c) \/ StoreSecret(c) \/ NameWallet(c) \/ AddFails(c) \/ Undo(c)

Clearing(c) ==
  \/ List(c) \/ Clear(c)
  \/ ReadPrimary(c) \/ FindRecord(c) \/ NamePrimary(c) \/ ListFails(c)
  \/ ClearSecret(c) \/ ClearMeta(c) \/ ClearMetaFails(c)

WalletsNext ==
  \/ \E c \in Edits : Adding(c) \/ Clearing(c)
  \/ LockWallets \/ UnlockWallets \/ Crash

WalletsSpec == WalletsInit /\ [][WalletsNext]_walletVars

-----------------------------------------------------------------------------
(* Properties *)

WalletsTypeOK ==
  /\ secret \in Lists
  /\ meta \in All \cup {NoWallet}
  /\ edit \in [Edits -> WalletCalls]
  /\ known \subseteq All /\ told \in [All -> {"no", "alone", "shared"}]
  /\ {open, recorded, marred} \subseteq BOOLEAN

(* A wallet that was reported as configured, by a call no other addition   *)
(* or clearing overlapped, stays in the vault until the wallets are        *)
(* cleared: whatever later calls do, whether they overlap one another, are *)
(* refused, or fail and put an older list back, none of them loses it.     *)
ToldAreStored == \A w \in All : told[w] = "alone" => w \in ToSet(secret)

(* No record of the database names a wallet that is gone, once no edit is  *)
(* in flight: a call that fails undoes what it stored, and clearing        *)
(* removes both. Excepted is what was written by a call that overlapped an *)
(* edit, or left by one that ended half-way, until the wallets are cleared *)
(* by a call that nothing overlaps.                                        *)
RecordNamesOurs ==
  ~marred /\ (\A c \in Edits : ~Editing(c)) /\ Named => meta \in ToSet(secret)

(* What the user was told, what the vault holds and what the database      *)
(* names agree, whichever of two writes fails and whatever overlaps later. *)
WalletsAgree == ToldAreStored /\ RecordNamesOurs

-----------------------------------------------------------------------------
(* Statements of the program that do not hold *)

(* onboarding.test.ts:91, "multiple wallets can be added and the first     *)
(* wallet remains primary": whatever was reported as configured is stored  *)
(* until the wallets are cleared. Of two calls that overlap, the later     *)
(* write loses the wallet of the earlier one.                              *)
AddedAreKept == recorded => \A w \in All : told[w] # "no" => w \in ToSet(secret)

NoneInFlight == \A c \in Edits : edit[c] = NoEdit

(* The same title: the record names the first wallet of the list.          *)
FirstIsPrimary == NoneInFlight /\ Named => secret # <<>> /\ meta = secret[1]

(* onboarding.test.ts:49, "new wallet returns a one-time mnemonic": a      *)
(* generated wallet the vault uses has had its phrase shown.               *)
PhraseReturned == NoneInFlight => ToSet(secret) \subseteq known

(* onboarding.test.ts:121, "clearWallets removes all wallets from keystore *)
(* and database": no wallet left, no record left, whenever it was ended.   *)
ClearedEverywhere == NoneInFlight /\ secret = <<>> => ~Named
=============================================================================
