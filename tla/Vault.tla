------------------------------- MODULE Vault -------------------------------
(***************************************************************************)
(* The keystore file and the encrypted tables whose keys it holds: how a   *)
(* service finds or makes its key, how the keystore changes its file, and  *)
(* what locking, resetting and restarting do to both.                      *)
(***************************************************************************)
EXTENDS Naturals, FiniteSets

CONSTANTS Services,  \* services with an encrypted table and a key
          Name,      \* the keystore record a service keeps its key under
          Cached,    \* those that keep the key in memory
          Forgiving, \* those that take a failed read for a missing key
          Wiped,     \* those whose table a reset clears
          Keys,      \* keys that may be generated, each at most once
          NoKey      \* stands for what is undefined

ASSUME VaultAssumption ==
  /\ Cached \subseteq Services /\ Forgiving \subseteq Services
  /\ Wiped \subseteq Services
  /\ NoKey \notin Keys \cup Services

(* The services whose tables a reset clears read their key from the        *)
(* keystore each time, and each under a record of its own.                 *)
Own(s) == \A t \in Services : Name[t] = Name[s] => t = s
ASSUME WipedAssumption == Wiped \cap Cached = {} /\ \A s \in Wiped : Own(s)

VARIABLES file,     \* the keystore file: key by name
          rows,     \* the keys under which a table holds records
          cache,    \* the key a service keeps in memory
          op,       \* the record a service is saving
          mutation, \* keystore mutations in progress, with the file they read
          used,     \* keys generated so far
          vaultUnlocked,
          reset,    \* progress of a vault reset
          faulty    \* a read or a reset has failed, or a crash cut one short

disk == <<file, rows>>
vaultVars == <<file, rows, cache, op, mutation, used, vaultUnlocked, reset, faulty>>

Names == {Name[s] : s \in Services}
Blank == [n \in Names |-> NoKey]
Ops == [pc : {"idle", "reading", "setting"}, key : Keys \cup {NoKey}]
NoOp == [pc |-> "idle", key |-> NoKey]
NoMutation == [on |-> FALSE, file |-> Blank]

VaultInit ==
  /\ file = Blank
  /\ rows = [s \in Services |-> {}]
  /\ cache = [s \in Services |-> NoKey]
  /\ op = [s \in Services |-> NoOp]
  /\ mutation = [s \in Services |-> NoMutation]
  /\ used = {}
  /\ vaultUnlocked = FALSE
  /\ reset = "idle"
  /\ faulty = FALSE

-----------------------------------------------------------------------------
(* Saving a record *)

End(s) == op' = [op EXCEPT ![s] = NoOp]

(* The record is encrypted and written as soon as the key is there.        *)
Save(s, k) ==
  /\ rows' = [rows EXCEPT ![s] = @ \cup {k}]
  /\ cache' = IF s \in Cached THEN [cache EXCEPT ![s] = k] ELSE cache
  /\ End(s)

StartSave(s) ==
  /\ vaultUnlocked
  /\ op[s].pc = "idle"
  /\ op' = [op EXCEPT ![s].pc = "reading"]
  /\ UNCHANGED <<disk, cache, mutation, used, vaultUnlocked, reset, faulty>>

PresentMutant(k) == TRUE
Present(k) == k # NoKey

\* Nothing is awaited between the key that was read and the write of the record.
KeyFound(s) ==
  LET k == IF cache[s] # NoKey THEN cache[s] ELSE file[Name[s]] IN
  /\ op[s].pc = "reading"
  /\ Present(k)
  /\ Save(s, k)
  /\ UNCHANGED <<file, mutation, used, vaultUnlocked, reset, faulty>>

(* No key, or so it seems: one is generated and handed to the keystore,    *)
(* which refuses it when locked.                                           *)
GenerateKey(s, k) ==
  /\ used' = used \cup {k}
  /\ op' = IF vaultUnlocked THEN [op EXCEPT ![s] = [pc |-> "setting", key |-> k]]
                       ELSE [op EXCEPT ![s] = NoOp]
  /\ UNCHANGED <<disk, cache, mutation, vaultUnlocked, reset>>

TakenForMissingMutant(s) == TRUE
TakenForMissing(s) == file[Name[s]] = NoKey

KeyMissing(s, k) ==
  /\ op[s].pc = "reading" /\ cache[s] = NoKey
  /\ TakenForMissing(s)
  /\ GenerateKey(s, k)
  /\ faulty' = faulty

ReadFails(s, k) ==
  /\ op[s].pc = "reading" /\ cache[s] = NoKey
  /\ faulty' = TRUE
  /\ IF s \in Forgiving
     THEN GenerateKey(s, k)
     ELSE End(s) /\ UNCHANGED <<disk, cache, mutation, used, vaultUnlocked, reset>>

(* enqueueMutation: one mutation at a time reads the file, changes its     *)
(* record and renames the new file over the old one.                       *)
MutationFreeMutant == TRUE
MutationFree == \A s \in Services : ~mutation[s].on

BeginMutation(s) ==
  /\ op[s].pc = "setting" /\ ~mutation[s].on
  /\ MutationFree
  /\ vaultUnlocked
  /\ mutation' = [mutation EXCEPT ![s] = [on |-> TRUE, file |-> file]]
  /\ UNCHANGED <<disk, cache, op, used, vaultUnlocked, reset, faulty>>

MutationRefused(s) ==
  /\ op[s].pc = "setting" /\ MutationFree
  /\ ~vaultUnlocked
  /\ End(s)
  /\ UNCHANGED <<disk, cache, mutation, used, vaultUnlocked, reset, faulty>>

EndMutation(s) ==
  /\ mutation[s].on
  /\ file' = [mutation[s].file EXCEPT ![Name[s]] = op[s].key]
  /\ mutation' = [mutation EXCEPT ![s] = NoMutation]
  /\ Save(s, op[s].key)
  /\ UNCHANGED <<used, vaultUnlocked, reset, faulty>>

-----------------------------------------------------------------------------
(* Lock, reset and restart *)

LockVault ==
  /\ vaultUnlocked
  /\ vaultUnlocked' = FALSE
  /\ UNCHANGED <<disk, cache, op, mutation, used, reset, faulty>>

UnlockVault ==
  /\ ~vaultUnlocked /\ reset = "idle"
  /\ vaultUnlocked' = TRUE
  /\ UNCHANGED <<disk, cache, op, mutation, used, reset, faulty>>

(* The database is backed up, the keystore file moved away once no         *)
(* mutation runs, and the tables cleared.                                  *)
ResetStart ==
  /\ ~vaultUnlocked /\ reset = "idle"
  /\ reset' = "backing up"
  /\ UNCHANGED <<disk, cache, op, mutation, used, vaultUnlocked, faulty>>

MoveKeystore ==
  /\ reset = "backing up" /\ MutationFree
  /\ file' = Blank
  /\ reset' = "clearing"
  /\ UNCHANGED <<rows, cache, op, mutation, used, vaultUnlocked, faulty>>

ClearTables ==
  /\ reset = "clearing"
  /\ rows' = [s \in Services |-> IF s \in Wiped THEN {} ELSE rows[s]]
  /\ reset' = "idle"
  /\ UNCHANGED <<file, cache, op, mutation, used, vaultUnlocked, faulty>>

ResetFails ==
  /\ reset # "idle"
  /\ reset' = "idle"
  /\ faulty' = TRUE
  /\ UNCHANGED <<disk, cache, op, mutation, used, vaultUnlocked>>

RestartApp ==
  /\ cache' = [s \in Services |-> NoKey]
  /\ op' = [s \in Services |-> NoOp]
  /\ mutation' = [s \in Services |-> NoMutation]
  /\ vaultUnlocked' = FALSE
  /\ reset' = "idle"
  /\ faulty' = (faulty \/ reset # "idle")
  /\ UNCHANGED <<disk, used>>

VaultNext ==
  \/ \E s \in Services :
       \/ StartSave(s) \/ KeyFound(s)
       \/ BeginMutation(s) \/ MutationRefused(s) \/ EndMutation(s)
       \/ \E k \in Keys \ used : KeyMissing(s, k) \/ ReadFails(s, k)
  \/ LockVault \/ UnlockVault
  \/ ResetStart \/ MoveKeystore \/ ClearTables \/ ResetFails \/ RestartApp

VaultSpec == VaultInit /\ [][VaultNext]_vaultVars

-----------------------------------------------------------------------------
(* Properties *)

VaultTypeOK ==
  /\ file \in [Names -> Keys \cup {NoKey}]
  /\ rows \in [Services -> SUBSET Keys]
  /\ cache \in [Services -> Keys \cup {NoKey}]
  /\ op \in [Services -> Ops]
  /\ mutation \in [Services -> [on : BOOLEAN, file : [Names -> Keys \cup {NoKey}]]]
  /\ used \subseteq Keys
  /\ {vaultUnlocked, faulty} \subseteq BOOLEAN
  /\ reset \in {"idle", "backing up", "clearing"}

(* Every record can be decrypted with the key the keystore holds, so it    *)
(* survives the restart: whatever first uses, locks, resets and crashes of *)
(* the application do in between. A failed read or reset may end that.     *)
Readable(s) == rows[s] \subseteq {file[Name[s]]}
RowsReadable == reset = "idle" /\ ~faulty => \A s \in Wiped : Readable(s)

(* The key of a service that has a record of its own is replaced by no     *)
(* other, not even after failures: the reset alone removes it. (A service  *)
(* that takes a failed read for a missing key replaces its key, see        *)
(* SessionsSurvive; so may services that share one record.)                *)
KeyStays == [][\A s \in Services \ Forgiving :
  LET n == Name[s] IN
  file[n] # NoKey => file'[n] = file[n] \/ (file' = Blank /\ reset = "backing up")]_vaultVars

-----------------------------------------------------------------------------
(* Statements of the program that do not hold *)

(* sessions/service.test.ts:16, "sessions survive reopen".                 *)
SessionsSurvive == \A s \in Forgiving : reset = "idle" => Readable(s)
=============================================================================
