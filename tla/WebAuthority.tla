---------------------------- MODULE WebAuthority ----------------------------
(***************************************************************************)
(* Delegated monitoring authority of the web application: the challenge a  *)
(* wallet signs, the requests that turn it into an authority, revoke it or *)
(* engage the kill switch, and the job of the cloud worker that reads what *)
(* they left. Every await of the database lets other requests run.         *)
(***************************************************************************)
EXTENDS Naturals

CONSTANTS Wallets,    \* the wallets linked to one account
          Primary,    \* the one the account was opened with
          Solana,     \* the one whose signatures an authority takes
          Challenges, \* challenges that may be issued
          Requests,   \* requests and jobs in flight
          None,       \* stands for what is undefined
          MissingIsNull \* the database matches a missing field with null

ASSUME WebAuthorityAssumption ==
  /\ Primary \in Wallets /\ Solana \in Wallets
  /\ None \notin Wallets \cup Challenges
  /\ MissingIsNull \in BOOLEAN

VARIABLES challenge, \* the record of each challenge
          grant,     \* the authority made from each challenge
          made,      \* how many authorities were made from each challenge
          killer,    \* the wallet whose record says the switch is engaged
          request,   \* what is in flight
          killed     \* a kill-switch request was answered

records == <<challenge, grant, made, killer>>
webAuthVars == <<records, request, killed>>

ChallengeRecords == [status : {"none", "open", "expired", "used"},
                     wallet : Wallets \cup {None}]
RequestStates == {"idle", "checked", "consuming", "replacing", "creating",
                  "killing", "job"}
RequestRecords == [pc : RequestStates, challenge : Challenges \cup {None},
                   wallet : Wallets \cup {None}, todo : SUBSET {"grants", "switch"},
                   grant : BOOLEAN, killed : BOOLEAN, late : BOOLEAN]
Idle == [pc |-> "idle", challenge |-> None, wallet |-> None, todo |-> {},
         grant |-> FALSE, killed |-> FALSE, late |-> FALSE]

WebAuthInit ==
  /\ challenge = [c \in Challenges |-> [status |-> "none", wallet |-> None]]
  /\ grant = [c \in Challenges |-> "none"]
  /\ made = [c \in Challenges |-> 0]
  /\ killer = None
  /\ request = [r \in Requests |-> Idle]
  /\ killed = FALSE

Of(r) == request[r].challenge
At(r, pc) == request[r].pc = pc
Goto(r, pc) == request' = [request EXCEPT ![r].pc = pc]
Done(r) == request' = [request EXCEPT ![r] = Idle]

-----------------------------------------------------------------------------
(* authority/challenge, authority/verify *)

Issue(c, w) ==
  /\ challenge[c].status = "none"
  /\ challenge' = [challenge EXCEPT ![c] = [status |-> "open", wallet |-> w]]
  /\ UNCHANGED <<grant, made, killer, request, killed>>

Lapse(c) ==
  /\ challenge[c].status = "open"
  /\ challenge' = [challenge EXCEPT ![c].status = "expired"]
  /\ UNCHANGED <<grant, made, killer, request, killed>>

(* The record is read and the signature and the policy are checked.        *)
Check(r, c) ==
  /\ At(r, "idle")
  /\ challenge[c].status = "open" /\ challenge[c].wallet = Solana
  /\ request' = [request EXCEPT ![r] = [Idle EXCEPT !.pc = "checked", !.challenge = c]]
  /\ UNCHANGED <<records, killed>>

ReadSafety(r) ==
  /\ At(r, "checked")
  /\ IF killer # None THEN Done(r) ELSE Goto(r, "consuming")
  /\ UNCHANGED <<records, killed>>

(* One update consumes the challenge if it is open and its field usedAt,   *)
(* which authority/challenge leaves out, matches null.                     *)
MatchesMutant(c) == MissingIsNull
Matches(c) == challenge[c].status = "open" /\ MissingIsNull

Consume(r) ==
  /\ At(r, "consuming")
  /\ IF Matches(Of(r))
     THEN /\ challenge' = [challenge EXCEPT ![Of(r)].status = "used"]
          /\ Goto(r, "replacing")
     ELSE Done(r) /\ UNCHANGED challenge
  /\ UNCHANGED <<grant, made, killer, killed>>

Active(w) == {c \in Challenges : grant[c] = "ACTIVE" /\ challenge[c].wallet = w}
RevokedMutant(C) == [c \in C |-> "REVOKED"]
Revoked(C) == [c \in Challenges |-> IF c \in C THEN "REVOKED" ELSE grant[c]]

Replaced(w) == Active(w)

ReplaceOlder(r) ==
  /\ At(r, "replacing")
  /\ grant' = Revoked(Replaced(challenge[Of(r)].wallet))
  /\ Goto(r, "creating")
  /\ UNCHANGED <<challenge, made, killer, killed>>

Create(r) ==
  /\ At(r, "creating")
  /\ made[Of(r)] < 2
  /\ grant' = [grant EXCEPT ![Of(r)] = "ACTIVE"]
  /\ made' = [made EXCEPT ![Of(r)] = @ + 1]
  /\ Done(r)
  /\ UNCHANGED <<challenge, killer, killed>>

-----------------------------------------------------------------------------
(* authority DELETE, authority/kill-switch *)

Revoke(w, C) ==
  /\ C = Active(w) \/ \E c \in Active(w) : C = {c}
  /\ C # {}
  /\ grant' = Revoked(C)
  /\ UNCHANGED <<challenge, made, killer, request, killed>>

KillStart(r, w) ==
  /\ At(r, "idle")
  /\ request' = [request EXCEPT ![r] =
       [Idle EXCEPT !.pc = "killing", !.wallet = w, !.todo = {"grants", "switch"}]]
  /\ UNCHANGED <<records, killed>>

(* The record is found by account: its wallet stays that of the first.     *)
KillSwitch(r) ==
  /\ At(r, "killing") /\ "switch" \in request[r].todo
  /\ killer' = IF killer = None THEN request[r].wallet ELSE killer
  /\ request' = [request EXCEPT ![r].todo = @ \ {"switch"}]
  /\ UNCHANGED <<challenge, grant, made, killed>>

KillGrants(r) ==
  /\ At(r, "killing") /\ "grants" \in request[r].todo
  /\ grant' = Revoked({c \in Challenges : grant[c] = "ACTIVE"})
  /\ request' = [request EXCEPT ![r].todo = @ \ {"grants"}]
  /\ UNCHANGED <<challenge, made, killer, killed>>

KillAnswered(r) ==
  /\ At(r, "killing") /\ request[r].todo = {}
  /\ killed' = TRUE
  /\ Done(r)
  /\ UNCHANGED <<records>>

-----------------------------------------------------------------------------
(* A job of the cloud worker reads the authority and the switch, both by   *)
(* the primary wallet of the account, and evaluates them.                  *)

JobStart(r) ==
  /\ At(r, "idle")
  /\ request' = [request EXCEPT ![r] =
       [Idle EXCEPT !.pc = "job", !.todo = {"grants", "switch"}, !.late = killed]]
  /\ UNCHANGED <<records, killed>>

JobReadsGrant(r) ==
  /\ At(r, "job") /\ "grants" \in request[r].todo
  /\ request' = [request EXCEPT ![r].todo = @ \ {"grants"}, ![r].grant = Active(Primary) # {}]
  /\ UNCHANGED <<records, killed>>

EngagedMutant == killer \in Wallets \ {Primary}
Engaged == killer = Primary

JobReadsSwitch(r) ==
  /\ At(r, "job") /\ "switch" \in request[r].todo
  /\ request' = [request EXCEPT ![r].todo = @ \ {"switch"}, ![r].killed = Engaged]
  /\ UNCHANGED <<records, killed>>

Decided(r) == At(r, "job") /\ request[r].todo = {}
Monitors(r) == Decided(r) /\ ~request[r].killed /\ request[r].grant

JobEnds(r) == Decided(r) /\ Done(r) /\ UNCHANGED <<records, killed>>

WebAuthNext ==
  \/ \E c \in Challenges :
       \/ Lapse(c)
       \/ \E w \in Wallets : Issue(c, w)
       \/ \E r \in Requests : Check(r, c)
  \/ \E w \in Wallets :
       \/ \E C \in SUBSET Challenges : Revoke(w, C)
       \/ \E r \in Requests : KillStart(r, w)
  \/ \E r \in Requests :
       \/ ReadSafety(r) \/ Consume(r) \/ ReplaceOlder(r) \/ Create(r)
       \/ KillSwitch(r) \/ KillGrants(r) \/ KillAnswered(r)
       \/ JobStart(r) \/ JobReadsGrant(r) \/ JobReadsSwitch(r) \/ JobEnds(r)

WebAuthSpec == WebAuthInit /\ [][WebAuthNext]_webAuthVars

-----------------------------------------------------------------------------
(* Properties *)

WebAuthTypeOK ==
  /\ challenge \in [Challenges -> ChallengeRecords]
  /\ grant \in [Challenges -> {"none", "ACTIVE", "REVOKED"}]
  /\ made \in [Challenges -> 0..2]
  /\ killer \in Wallets \cup {None}
  /\ request \in [Requests -> RequestRecords]
  /\ killed \in BOOLEAN

(* A signed challenge becomes one authority, however often it is sent and  *)
(* however its requests overlap.                                           *)
OneGrantPerSignature == \A c \in Challenges : made[c] <= 1

(* guard.test.ts:43, "kill switch overrides an active policy": a job that  *)
(* starts after the switch was engaged monitors nothing, whatever requests *)
(* that activate an authority were in flight. The worker looks the switch  *)
(* up by the wallet the account was opened with, so a switch that another  *)
(* linked wallet engaged first is not seen.                                *)
KillIsSeen == killer = Primary => \A r \in Requests : request[r].late => ~Monitors(r)
=============================================================================
