----------------------------- MODULE Authority -----------------------------
(***************************************************************************)
(* Full Access authority of the desktop: execution grants and the jobs     *)
(* they pin, the signing session kept in memory, the emergency stop, and   *)
(* the lock, the reset and the restart of the application around them.     *)
(*                                                                         *)
(* A grant is created by a call in a slot; the awaits of that call are its *)
(* steps. Every other handler changes its records in one mutation.         *)
(***************************************************************************)
EXTENDS Naturals, FiniteSets

CONSTANTS Sessions,  \* wallet-bound sessions
          Grants,    \* execution grants, in no order
          Jobs,      \* pinned swap jobs, one per mission of a session
          SessionOf, \* the session of a job
          Slots,     \* create calls in flight at once
          NoGrant       \* stands for what is undefined

ASSUME AuthorityAssumption ==
  /\ SessionOf \in [Jobs -> Sessions]
  /\ NoGrant \notin Grants \cup Sessions

VARIABLES grant,   \* the encrypted grant records
          job,     \* the encrypted job records
          due,     \* grants whose expiry has passed
          call,    \* create calls in flight
          signing, \* the local signing session
          full,    \* sessions stored with Full Access
          unlocked, stop,
          halting, \* an engage handler awaits the grant store
          orphans, \* grant records are left whose key a reset has removed
          readable, \* the grant and job stores can be decrypted
          crashed   \* the application has ended with a create call in flight

records == <<grant, job>>
process == <<call, signing, halting>>
vaultState == <<unlocked, orphans, readable, crashed>>
authVars == <<grant, job, due, call, signing, full, unlocked, stop,
              halting, orphans, readable, crashed>>

Live == {"ACTIVE", "PAUSED"}
Terminal == {"EXPIRED", "REVOKED", "EMERGENCY_STOPPED"}
GrantRecords == [status : {"none"} \cup Live \cup Terminal,
                 session : Sessions \cup {NoGrant}, pins : SUBSET Jobs]
JobRecords == [state : {"absent", "DRAFT", "ARMED"}, by : Grants \cup {NoGrant}]
Calls == [pc : {"idle", "verifying", "arming"}, grant : Grants \cup {NoGrant},
          session : Sessions \cup {NoGrant}, pins : SUBSET Jobs]
NoCall == [pc |-> "idle", grant |-> NoGrant, session |-> NoGrant, pins |-> {}]

(* until is the grant whose expiry ends it, NoGrant when it is until cleared. *)
Off == [on |-> FALSE, until |-> NoGrant]
Begun(g) == [on |-> TRUE, until |-> g]

AuthInit ==
  /\ grant = [g \in Grants |-> [status |-> "none", session |-> NoGrant, pins |-> {}]]
  /\ job = [j \in Jobs |-> [state |-> "absent", by |-> NoGrant]]
  /\ due = {}
  /\ call = [c \in Slots |-> NoCall]
  /\ signing = Off
  /\ full = {}
  /\ unlocked = FALSE
  /\ stop = FALSE
  /\ halting = FALSE
  /\ orphans = FALSE
  /\ readable = TRUE
  /\ crashed = FALSE

(* What assertActive accepts.                                              *)
MaySign == signing.on /\ unlocked /\ signing.until \notin due

LiveGrants(s) == {g \in Grants : grant[g].session = s /\ grant[g].status \in Live}

-----------------------------------------------------------------------------
(* Jobs and the creation of a grant *)

CreateJob(j) ==
  /\ unlocked /\ readable
  /\ job[j].state = "absent"
  /\ job' = [job EXCEPT ![j].state = "DRAFT"]
  /\ UNCHANGED <<grant, due, process, full, stop, vaultState>>

RequestGrant(c, s, P) ==
  /\ call[c].pc = "idle"
  /\ unlocked /\ ~stop
  /\ call' = [call EXCEPT ![c] = [NoCall EXCEPT !.pc = "verifying", !.session = s, !.pins = P]]
  /\ UNCHANGED <<records, due, signing, halting, full, stop, vaultState>>

Pinnable(s, P) == \A j \in P : SessionOf[j] = s /\ job[j].state = "DRAFT"

(* The mutation refuses a second live grant of the session. The check of   *)
(* the pinned jobs one await earlier is part of the step: a job that left  *)
(* its state since then fails to arm.                                      *)
NoneLiveMutant(s) == TRUE
NoneLive(s) == LiveGrants(s) = {}

WriteGrant(c, g) ==
  LET s == call[c].session IN
  /\ call[c].pc = "verifying"
  /\ grant[g].status = "none"
  /\ unlocked /\ readable
  /\ Pinnable(s, call[c].pins)
  /\ NoneLive(s)
  /\ grant' = [grant EXCEPT ![g] = [status |-> "ACTIVE", session |-> s, pins |-> call[c].pins]]
  /\ call' = [call EXCEPT ![c].pc = "arming", ![c].grant = g]
  /\ UNCHANGED <<job, due, signing, halting, full, stop, vaultState>>

GrantRefused(c) ==
  /\ call[c].pc = "verifying"
  /\ call' = [call EXCEPT ![c] = NoCall]
  /\ UNCHANGED <<records, due, signing, halting, full, stop, vaultState>>

MayArm(j) == job[j].state = "DRAFT"

Arm(c, j) ==
  /\ call[c].pc = "arming"
  /\ j \in call[c].pins
  /\ MayArm(j)
  /\ job' = [job EXCEPT ![j] = [state |-> "ARMED", by |-> call[c].grant]]
  /\ call' = [call EXCEPT ![c].pins = @ \ {j}]
  /\ UNCHANGED <<grant, due, signing, halting, full, stop, vaultState>>

(* A job that cannot be armed revokes the new grant, unless it is terminal *)
(* already; what was armed before stays armed.                             *)
RevokeStatusMutant == "REVOKE"
RevokeStatus == "REVOKED"
AfterArmFailureMutant(g) == UNCHANGED <<grant, signing>>
AfterArmFailure(g) ==
  IF grant[g].status \in Terminal
  THEN UNCHANGED <<grant, signing>>
  ELSE grant' = [grant EXCEPT ![g].status = RevokeStatus] /\ signing' = Off

ArmFails(c) ==
  /\ call[c].pc = "arming" /\ call[c].pins # {}
  /\ AfterArmFailure(call[c].grant)
  /\ call' = [call EXCEPT ![c] = NoCall]
  /\ UNCHANGED <<job, due, halting, full, stop, vaultState>>

(* A lock in between makes begin throw: the grant stays. An expiry in      *)
(* between does not, since begin compares with the time create was called: *)
(* the signing session is replaced by one that is over (MaySign).          *)
BeginSigning(c) ==
  LET g == call[c].grant IN
  /\ call[c].pc = "arming" /\ call[c].pins = {}
  /\ signing' = IF unlocked THEN Begun(g) ELSE signing
  /\ call' = [call EXCEPT ![c] = NoCall]
  /\ UNCHANGED <<records, due, halting, full, stop, vaultState>>

-----------------------------------------------------------------------------
(* Actions on a grant *)

Actionable(g) == unlocked /\ readable /\ grant[g].status \in Live

Pause(g) ==
  /\ Actionable(g) /\ grant[g].status = "ACTIVE"
  /\ grant' = [grant EXCEPT ![g].status = "PAUSED"]
  /\ signing' = Off
  /\ UNCHANGED <<job, due, call, halting, full, stop, vaultState>>

Resume(g) ==
  /\ Actionable(g) /\ grant[g].status = "PAUSED" /\ g \notin due
  /\ grant' = [grant EXCEPT ![g].status = "ACTIVE"]
  /\ signing' = Begun(g)
  /\ UNCHANGED <<job, due, call, halting, full, stop, vaultState>>

RevocableMutant(g) == unlocked /\ readable /\ grant[g].status # "none"
Revocable(g) == Actionable(g)

Revoke(g) ==
  /\ Revocable(g)
  /\ grant' = [grant EXCEPT ![g].status = RevokeStatus]
  /\ signing' = Off
  /\ UNCHANGED <<job, due, call, halting, full, stop, vaultState>>

(* list: what is due is expired first, and the signing session is checked. *)
Evaluate ==
  /\ unlocked /\ readable
  /\ grant' = [g \in Grants |-> IF g \in due /\ grant[g].status \in Live
                                THEN [grant[g] EXCEPT !.status = "EXPIRED"] ELSE grant[g]]
  /\ signing' = IF MaySign THEN signing ELSE Off
  /\ UNCHANGED <<job, due, call, halting, full, stop, vaultState>>

TimePasses(g) ==
  /\ grant[g].status # "none" /\ g \notin due
  /\ due' = due \cup {g}
  /\ UNCHANGED <<records, process, full, stop, vaultState>>

-----------------------------------------------------------------------------
(* The emergency stop *)

Engage ==
  /\ unlocked /\ ~halting
  /\ stop' = TRUE
  /\ halting' = TRUE
  /\ UNCHANGED <<records, due, call, signing, full, vaultState>>

EngageDone ==
  /\ halting /\ readable
  /\ grant' = [g \in Grants |-> IF grant[g].status \in Live
                 THEN [grant[g] EXCEPT !.status = "EMERGENCY_STOPPED"] ELSE grant[g]]
  /\ signing' = Off
  /\ halting' = FALSE
  /\ UNCHANGED <<job, due, call, full, stop, vaultState>>

(* The grant store is read before anything else is stopped, and throws.    *)
EngageFails ==
  /\ halting /\ ~readable
  /\ halting' = FALSE
  /\ UNCHANGED <<records, due, call, signing, full, stop, vaultState>>

Release ==
  /\ unlocked /\ stop /\ ~halting
  /\ stop' = FALSE
  /\ UNCHANGED <<records, due, call, signing, halting, full, vaultState>>

-----------------------------------------------------------------------------
(* Sessions and the vault *)

SaveFullSession(s) ==
  /\ unlocked
  /\ full' = full \cup {s}
  /\ signing' = IF stop THEN signing ELSE Begun(NoGrant)
  /\ UNCHANGED <<records, due, call, halting, stop, vaultState>>

DeleteSession(s) ==
  /\ unlocked /\ s \in full
  /\ full' = full \ {s}
  /\ signing' = Off
  /\ UNCHANGED <<records, due, call, halting, stop, vaultState>>

Unlock ==
  /\ ~unlocked
  /\ unlocked' = TRUE
  /\ signing' = IF full # {} THEN Begun(NoGrant) ELSE Off
  /\ UNCHANGED <<records, due, call, halting, full, stop, orphans, readable, crashed>>

(* Closing the window locks and leaves the signing session as it is; a     *)
(* locked screen and a suspended system clear it.                          *)
Lock ==
  /\ unlocked
  /\ unlocked' = FALSE
  /\ signing' \in {signing, Off}
  /\ UNCHANGED <<records, due, call, halting, full, stop, orphans, readable, crashed>>

(* The reset removes the keystore, the sessions and the settings, the stop *)
(* among them; the tables of grants and jobs are not cleared, and their    *)
(* key lives on in the process.                                            *)
ResetVault ==
  /\ ~unlocked
  /\ full' = {}
  /\ stop' = FALSE
  /\ orphans' = (orphans \/ \E g \in Grants : grant[g].status # "none")
  /\ UNCHANGED <<records, due, process, unlocked, readable, crashed>>

Restart ==
  /\ crashed' = (crashed \/ \E c \in Slots : call[c].pc # "idle")
  /\ call' = [c \in Slots |-> NoCall]
  /\ signing' = Off
  /\ unlocked' = FALSE
  /\ halting' = FALSE
  /\ readable' = ~orphans
  /\ UNCHANGED <<records, due, full, stop, orphans>>

AuthNext ==
  \/ \E c \in Slots :
       \/ \E s \in Sessions, P \in SUBSET Jobs : RequestGrant(c, s, P)
       \/ \E g \in Grants : WriteGrant(c, g)
       \/ \E j \in Jobs : Arm(c, j)
       \/ GrantRefused(c) \/ ArmFails(c) \/ BeginSigning(c)
  \/ \E j \in Jobs : CreateJob(j)
  \/ \E g \in Grants : Pause(g) \/ Resume(g) \/ Revoke(g) \/ TimePasses(g)
  \/ \E s \in Sessions : SaveFullSession(s) \/ DeleteSession(s)
  \/ Evaluate \/ Engage \/ EngageDone \/ EngageFails \/ Release
  \/ Unlock \/ Lock \/ ResetVault \/ Restart

AuthSpec == AuthInit /\ [][AuthNext]_authVars

-----------------------------------------------------------------------------
(* Properties *)

AuthTypeOK ==
  /\ grant \in [Grants -> GrantRecords]
  /\ job \in [Jobs -> JobRecords]
  /\ due \subseteq Grants
  /\ call \in [Slots -> Calls]
  /\ signing \in [on : BOOLEAN, until : Grants \cup {NoGrant}]
  /\ full \subseteq Sessions
  /\ {unlocked, stop, halting, orphans, readable, crashed} \subseteq BOOLEAN

(* However many create calls are awaiting the password of one session, at  *)
(* most one of its grants is live.                                         *)
OneLiveGrant == \A s \in Sessions : Cardinality(LiveGrants(s)) <= 1

(* Authority that has ended does not come back: an expired, revoked or     *)
(* stopped grant keeps that status, beside late calls, resumes and the     *)
(* evaluation of expiries.                                                 *)
EndedStays == [][\A g \in Grants :
  grant[g].status \in Terminal => grant'[g] = grant[g]]_authVars

(* A grant is live with all its jobs armed, or its creation is under way:  *)
(* a creation that fails half way leaves no live grant behind, unless the  *)
(* application ended in the middle of it.                                  *)
Creating(g) == \E c \in Slots : call[c].grant = g
LiveIsArmed == ~crashed => \A g \in Grants :
  grant[g].status \in Live /\ ~Creating(g) =>
    \A j \in grant[g].pins : job[j] = [state |-> "ARMED", by |-> g]

-----------------------------------------------------------------------------
(* Statements of the program that do not hold *)

(* ActivityCards.tsx:1313: the signing session "was cleared by lock,       *)
(* sleep, restart, or emergency stop".                                     *)
StopClearsSigning == stop /\ ~halting => ~MaySign
=============================================================================
