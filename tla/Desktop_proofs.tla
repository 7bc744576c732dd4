--------------------------- MODULE Desktop_proofs ---------------------------
(* Theorems about the stores of the desktop: Full Access authority, for     *)
(* every set of sessions, grants, jobs and calls in flight; the keystore    *)
(* and the encrypted tables, for every set of services and keys; and the    *)
(* wallets of the vault, for every set of wallets and any limit. Those      *)
(* about the token launch are in Launch_proofs.                             *)
EXTENDS MCDesktop, Launch_proofs, FiniteSetTheorems, TLAPS

-----------------------------------------------------------------------------
(* Full Access authority *)

(* Types *)

Statuses == {"none"} \cup Live \cup Terminal

LEMMA StatusType ==
    ASSUME AuthTypeOK, NEW g \in Grants, NEW st \in Statuses
    PROVE  [grant EXCEPT ![g].status = st] \in [Grants -> GrantRecords]
BY DEF AuthTypeOK, GrantRecords, Statuses

LEMMA NoCallType == NoCall \in Calls
BY DEF NoCall, Calls

LEMMA CallEndType ==
    ASSUME AuthTypeOK, NEW c \in Slots, call' = [call EXCEPT ![c] = NoCall]
    PROVE  call' \in [Slots -> Calls]
BY NoCallType DEF AuthTypeOK

LEMMA BegunType == \A g \in Grants \cup {NoGrant} :
    Begun(g) \in [on : BOOLEAN, until : Grants \cup {NoGrant}]
BY DEF Begun

LEMMA OffType == Off \in [on : BOOLEAN, until : Grants \cup {NoGrant}]
BY DEF Off

\* A call that arms jobs has written its grant; the others have none.
CallTyped(c) ==
    /\ call[c].pc = "arming" => call[c].grant \in Grants
    /\ call[c].pc # "arming" => call[c].grant = NoGrant

AuthTyped == AuthTypeOK /\ \A c \in Slots : CallTyped(c)

LEMMA AuthInitType == AuthInit => AuthTyped
<1> SUFFICES ASSUME AuthInit PROVE AuthTyped
  OBVIOUS
<1>1. grant \in [Grants -> GrantRecords] /\ job \in [Jobs -> JobRecords]
  BY DEF AuthInit, GrantRecords, JobRecords
<1>2. call \in [Slots -> Calls]
  BY NoCallType DEF AuthInit
<1>3. \A c \in Slots : CallTyped(c)
  BY DEF AuthInit, CallTyped, NoCall
<1> QED BY <1>1, <1>2, <1>3, OffType DEF AuthInit, AuthTyped, AuthTypeOK

\* The steps that leave the calls alone.
LEMMA CallsStay ==
    ASSUME AuthTyped, UNCHANGED call
    PROVE  \A c \in Slots : CallTyped(c)'
BY DEF AuthTyped, CallTyped

LEMMA CallsEnd ==
    ASSUME AuthTyped, NEW c \in Slots, call' = [call EXCEPT ![c] = NoCall]
    PROVE  \A d \in Slots : CallTyped(d)'
BY DEF AuthTyped, AuthTypeOK, CallTyped, NoCall

LEMMA AuthStepType == AuthTyped /\ [AuthNext]_authVars => AuthTyped'
<1> SUFFICES ASSUME AuthTyped, [AuthNext]_authVars PROVE AuthTyped'
  OBVIOUS
<1> USE DEF AuthTyped
<1>1. ASSUME NEW c \in Slots, NEW s \in Sessions, NEW P \in SUBSET Jobs, RequestGrant(c, s, P)
      PROVE  AuthTyped'
  <2> DEFINE asked == [NoCall EXCEPT !.pc = "verifying", !.session = s, !.pins = P]
  <2>1. asked \in Calls /\ asked.pc = "verifying" /\ asked.grant = NoGrant
    BY DEF NoCall, Calls
  <2>2. call' = [call EXCEPT ![c] = asked]
    BY <1>1 DEF RequestGrant
  <2> HIDE DEF asked
  <2>3. call' \in [Slots -> Calls] /\ \A d \in Slots : CallTyped(d)'
    BY <2>1, <2>2 DEF AuthTypeOK, CallTyped
  <2> QED BY <1>1, <2>3 DEF RequestGrant, AuthTypeOK, records, vaultState
<1>2. ASSUME NEW c \in Slots, NEW g \in Grants, WriteGrant(c, g) PROVE AuthTyped'
  <2>1. call[c] \in Calls
    BY DEF AuthTypeOK
  <2>2. [status |-> "ACTIVE", session |-> call[c].session, pins |-> call[c].pins] \in GrantRecords
    BY <2>1 DEF Calls, GrantRecords, Live
  <2>3. grant' \in [Grants -> GrantRecords]
    BY <1>2, <2>2 DEF WriteGrant, AuthTypeOK
  <2>4. call' = [call EXCEPT ![c].pc = "arming", ![c].grant = g]
    BY <1>2 DEF WriteGrant
  <2>5. call' \in [Slots -> Calls] /\ \A d \in Slots : CallTyped(d)'
    BY <2>4, ZenonT(60) DEF AuthTypeOK, Calls, CallTyped
  <2> QED BY <1>2, <2>3, <2>5 DEF WriteGrant, AuthTypeOK, vaultState
<1>3. ASSUME NEW c \in Slots, GrantRefused(c) PROVE AuthTyped'
  BY <1>3, CallEndType, CallsEnd DEF GrantRefused, AuthTypeOK, records, vaultState
<1>4. ASSUME NEW c \in Slots, NEW j \in Jobs, Arm(c, j) PROVE AuthTyped'
  <2>1. call[c] \in Calls /\ call[c].grant \in Grants
    BY <1>4 DEF Arm, AuthTypeOK, CallTyped
  <2>2. job' \in [Jobs -> JobRecords]
    <3>1. [state |-> "ARMED", by |-> call[c].grant] \in JobRecords
      BY <2>1 DEF JobRecords
    <3> QED BY <1>4, <3>1 DEF Arm, AuthTypeOK
  <2>3. call' = [call EXCEPT ![c].pins = @ \ {j}]
    BY <1>4 DEF Arm
  <2>4. call' \in [Slots -> Calls] /\ \A d \in Slots : CallTyped(d)'
    BY <2>1, <2>3 DEF AuthTypeOK, Calls, CallTyped
  <2> QED BY <1>4, <2>2, <2>4 DEF Arm, AuthTypeOK, vaultState
<1>5. ASSUME NEW c \in Slots, ArmFails(c) PROVE AuthTyped'
  <2>1. call[c].grant \in Grants
    BY <1>5 DEF ArmFails, CallTyped
  <2>2. "REVOKED" \in Statuses
    BY DEF Statuses, Terminal
  <2>3. grant' \in [Grants -> GrantRecords]
        /\ signing' \in [on : BOOLEAN, until : Grants \cup {NoGrant}]
    BY <1>5, <2>1, <2>2, StatusType, OffType
       DEF ArmFails, AfterArmFailure, RevokeStatus, AuthTypeOK
  <2> QED BY <1>5, <2>3, CallEndType, CallsEnd DEF ArmFails, AuthTypeOK, vaultState
<1>6. ASSUME NEW c \in Slots, BeginSigning(c) PROVE AuthTyped'
  <2>1. call[c].grant \in Grants
    BY <1>6 DEF BeginSigning, CallTyped
  <2>2. signing' \in [on : BOOLEAN, until : Grants \cup {NoGrant}]
    BY <1>6, <2>1, BegunType DEF BeginSigning, AuthTypeOK
  <2> QED BY <1>6, <2>2, CallEndType, CallsEnd DEF BeginSigning, AuthTypeOK, records, vaultState
<1>7. ASSUME NEW j \in Jobs, CreateJob(j) PROVE AuthTyped'
  <2>1. job' \in [Jobs -> JobRecords]
    BY <1>7 DEF CreateJob, AuthTypeOK, JobRecords
  <2> QED BY <1>7, <2>1, CallsStay DEF CreateJob, AuthTypeOK, process, vaultState
<1>8. ASSUME NEW g \in Grants, Pause(g) \/ Resume(g) \/ Revoke(g) PROVE AuthTyped'
  <2>1. {"PAUSED", "ACTIVE", "REVOKED"} \subseteq Statuses
    BY DEF Statuses, Live, Terminal
  <2>2. \E st \in Statuses : grant' = [grant EXCEPT ![g].status = st]
    BY <1>8, <2>1 DEF Pause, Resume, Revoke, RevokeStatus
  <2>3. signing' \in [on : BOOLEAN, until : Grants \cup {NoGrant}]
    BY <1>8, OffType, BegunType DEF Pause, Resume, Revoke
  <2>4. grant' \in [Grants -> GrantRecords]
    BY <2>2, StatusType
  <2> QED BY <1>8, <2>3, <2>4, CallsStay DEF Pause, Resume, Revoke, AuthTypeOK, vaultState
<1>9. ASSUME NEW g \in Grants, TimePasses(g) PROVE AuthTyped'
  BY <1>9, CallsStay DEF TimePasses, AuthTypeOK, records, process, vaultState
<1>10. ASSUME NEW s \in Sessions, SaveFullSession(s) \/ DeleteSession(s) PROVE AuthTyped'
  <2>1. signing' \in [on : BOOLEAN, until : Grants \cup {NoGrant}]
    BY <1>10, OffType, BegunType DEF SaveFullSession, DeleteSession, AuthTypeOK
  <2> QED BY <1>10, <2>1, CallsStay
          DEF SaveFullSession, DeleteSession, AuthTypeOK, records, vaultState
<1>11. CASE Evaluate \/ EngageDone
  <2>0. \A g \in Grants : /\ [grant[g] EXCEPT !.status = "EXPIRED"] \in GrantRecords
                          /\ [grant[g] EXCEPT !.status = "EMERGENCY_STOPPED"] \in GrantRecords
    BY DEF AuthTypeOK, GrantRecords, Terminal
  <2>1. grant' \in [Grants -> GrantRecords]
    BY <1>11, <2>0, ZenonT(60) DEF Evaluate, EngageDone, AuthTypeOK
  <2>2. signing' \in [on : BOOLEAN, until : Grants \cup {NoGrant}]
    BY <1>11, OffType DEF Evaluate, EngageDone, AuthTypeOK
  <2> QED BY <1>11, <2>1, <2>2, CallsStay DEF Evaluate, EngageDone, AuthTypeOK, vaultState
<1>12. CASE Engage \/ EngageFails \/ Release
  BY <1>12, CallsStay DEF Engage, EngageFails, Release, AuthTypeOK, records, vaultState
<1>13. CASE Unlock \/ Lock
  <2>1. signing' \in [on : BOOLEAN, until : Grants \cup {NoGrant}]
    BY <1>13, OffType, BegunType DEF Unlock, Lock, AuthTypeOK
  <2> QED BY <1>13, <2>1, CallsStay DEF Unlock, Lock, AuthTypeOK, records
<1>14. CASE ResetVault
  BY <1>14, CallsStay DEF ResetVault, AuthTypeOK, records, process
<1>15. CASE Restart
  <2>1. call' \in [Slots -> Calls] /\ \A d \in Slots : CallTyped(d)'
    BY <1>15, NoCallType DEF Restart, CallTyped, NoCall
  <2> QED BY <1>15, <2>1, OffType DEF Restart, AuthTypeOK, records
<1>16. CASE UNCHANGED authVars
  BY <1>16, CallsStay DEF authVars, AuthTypeOK
<1> QED BY <1>1, <1>2, <1>3, <1>4, <1>5, <1>6, <1>7, <1>8, <1>9, <1>10, <1>11, <1>12, <1>13,
           <1>14, <1>15, <1>16 DEF AuthNext

\* Type correctness of grants, jobs, create calls and the signing session.
THEOREM AuthTypeCorrect == AuthSpec => []AuthTypeOK
<1>1. AuthTyped => AuthTypeOK
  BY DEF AuthTyped
<1> QED BY <1>1, AuthInitType, AuthStepType, PTL DEF AuthSpec

-----------------------------------------------------------------------------
(* Ended authority *)

\* Authority that has ended does not come back, beside late calls, resumes and
\* the evaluation of expiries.
Ended == \A g \in Grants : grant[g].status \in Terminal => grant'[g] = grant[g]

LEMMA EndedStep == AuthTyped /\ [AuthNext]_authVars => Ended
<1> SUFFICES ASSUME AuthTyped, [AuthNext]_authVars PROVE Ended
  OBVIOUS
<1>0. grant \in [Grants -> GrantRecords]
  BY DEF AuthTyped, AuthTypeOK
<1>1. ASSUME UNCHANGED grant PROVE Ended
  BY <1>1 DEF Ended
<1>2. ASSUME NEW h \in Grants, grant[h].status \notin Terminal, NEW r,
             grant' = [grant EXCEPT ![h] = r]
      PROVE  Ended
  BY <1>0, <1>2 DEF Ended
<1>3. ASSUME NEW c \in Slots, NEW g \in Grants, WriteGrant(c, g) PROVE Ended
  BY <1>0, <1>2, <1>3 DEF WriteGrant, Terminal
<1>4. ASSUME NEW c \in Slots, ArmFails(c) PROVE Ended
  <2>1. call[c].grant \in Grants
    BY <1>4 DEF ArmFails, AuthTyped, CallTyped
  <2> QED BY <1>0, <1>1, <1>4, <2>1 DEF ArmFails, AfterArmFailure, Ended
<1>5. ASSUME NEW g \in Grants, Pause(g) \/ Resume(g) \/ Revoke(g) PROVE Ended
  <2>1. grant[g].status \notin Terminal
    BY <1>5 DEF Pause, Resume, Revoke, Revocable, Actionable, Live, Terminal
  <2> QED BY <1>0, <1>5, <2>1 DEF Pause, Resume, Revoke, Ended
<1>6. CASE Evaluate \/ EngageDone
  BY <1>6 DEF Evaluate, EngageDone, Ended, Live, Terminal
<1>7. ASSUME NEW c \in Slots,
             \/ \E s \in Sessions, P \in SUBSET Jobs : RequestGrant(c, s, P)
             \/ \E j \in Jobs : Arm(c, j)
             \/ GrantRefused(c) \/ BeginSigning(c)
      PROVE  Ended
  BY <1>1, <1>7 DEF RequestGrant, Arm, GrantRefused, BeginSigning, records
<1>8. CASE \/ \E j \in Jobs : CreateJob(j)
           \/ \E g \in Grants : TimePasses(g)
           \/ \E s \in Sessions : SaveFullSession(s) \/ DeleteSession(s)
  BY <1>1, <1>8 DEF CreateJob, TimePasses, SaveFullSession, DeleteSession, records
<1>9. CASE Engage \/ EngageFails \/ Release \/ Unlock \/ Lock \/ ResetVault \/ Restart
  BY <1>1, <1>9
     DEF Engage, EngageFails, Release, Unlock, Lock, ResetVault, Restart, records
<1>10. CASE UNCHANGED authVars
  BY <1>1, <1>10 DEF authVars
<1> QED BY <1>3, <1>4, <1>5, <1>6, <1>7, <1>8, <1>9, <1>10 DEF AuthNext

\* An expired, revoked or stopped grant keeps that status for good.
THEOREM EndedCorrect == AuthSpec => EndedStays
<1>1. AuthTyped /\ [AuthNext]_authVars =>
        [\A g \in Grants : grant[g].status \in Terminal => grant'[g] = grant[g]]_authVars
  BY EndedStep DEF Ended
<1> QED BY <1>1, AuthInitType, AuthStepType, PTL DEF AuthSpec, EndedStays

-----------------------------------------------------------------------------
(* One live grant per session *)

LiveApart == \A g, h \in Grants :
    grant[g].status \in Live /\ grant[h].status \in Live /\ grant[g].session = grant[h].session
      => g = h

\* A grant becomes live only when it is written; any other step leaves live, at
\* most, what was live, for the same session and with the same pinned jobs.
NoneRevive == \A g \in Grants : grant'[g].status \in Live =>
    /\ grant[g].status \in Live
    /\ grant'[g].session = grant[g].session /\ grant'[g].pins = grant[g].pins

LEMMA ReviveStep ==
    ASSUME AuthTyped, [AuthNext]_authVars
    PROVE  NoneRevive \/ \E c \in Slots, g \in Grants : WriteGrant(c, g)
<1>0. grant \in [Grants -> GrantRecords]
  BY DEF AuthTyped, AuthTypeOK
<1>1. ASSUME UNCHANGED grant PROVE NoneRevive
  BY <1>1 DEF NoneRevive
<1>2. ASSUME NEW h \in Grants, NEW st, grant' = [grant EXCEPT ![h].status = st],
             grant[h].status \in Live \/ st \notin Live
      PROVE  NoneRevive
  BY <1>0, <1>2 DEF NoneRevive, GrantRecords
<1>3. "REVOKED" \notin Live
  BY DEF Live
<1>4. ASSUME NEW c \in Slots, ArmFails(c) PROVE NoneRevive
  <2>1. call[c].grant \in Grants
    BY <1>4 DEF ArmFails, AuthTyped, CallTyped
  <2> QED BY <1>1, <1>2, <1>3, <1>4, <2>1 DEF ArmFails, AfterArmFailure, RevokeStatus
<1>5. ASSUME NEW g \in Grants, Pause(g) \/ Resume(g) \/ Revoke(g) PROVE NoneRevive
  <2>1. grant[g].status \in Live /\ \E st : grant' = [grant EXCEPT ![g].status = st]
    BY <1>5 DEF Pause, Resume, Revoke, Revocable, Actionable
  <2> QED BY <1>2, <2>1
<1>6. CASE Evaluate \/ EngageDone
  BY <1>0, <1>6 DEF Evaluate, EngageDone, NoneRevive, GrantRecords
<1>7. ASSUME NEW c \in Slots,
             \/ \E s \in Sessions, P \in SUBSET Jobs : RequestGrant(c, s, P)
             \/ \E j \in Jobs : Arm(c, j)
             \/ GrantRefused(c) \/ BeginSigning(c)
      PROVE  NoneRevive
  BY <1>1, <1>7 DEF RequestGrant, Arm, GrantRefused, BeginSigning, records
<1>8. CASE \/ \E j \in Jobs : CreateJob(j)
           \/ \E g \in Grants : TimePasses(g)
           \/ \E s \in Sessions : SaveFullSession(s) \/ DeleteSession(s)
  BY <1>1, <1>8 DEF CreateJob, TimePasses, SaveFullSession, DeleteSession, records
<1>9. CASE Engage \/ EngageFails \/ Release \/ Unlock \/ Lock \/ ResetVault \/ Restart
  BY <1>1, <1>9
     DEF Engage, EngageFails, Release, Unlock, Lock, ResetVault, Restart, records
<1>10. CASE UNCHANGED authVars
  BY <1>1, <1>10 DEF authVars
<1> QED BY <1>4, <1>5, <1>6, <1>7, <1>8, <1>9, <1>10 DEF AuthNext

LEMMA LiveStep == AuthTyped /\ LiveApart /\ [AuthNext]_authVars => LiveApart'
<1> SUFFICES ASSUME AuthTyped, LiveApart, [AuthNext]_authVars PROVE LiveApart'
  OBVIOUS
<1>1. CASE NoneRevive
  BY <1>1 DEF NoneRevive, LiveApart
<1>2. ASSUME NEW c \in Slots, NEW g \in Grants, WriteGrant(c, g) PROVE LiveApart'
  <2>1. /\ grant'[g].session = call[c].session
        /\ \A h \in Grants : h # g => grant'[h] = grant[h]
    BY <1>2 DEF WriteGrant, AuthTyped, AuthTypeOK
  <2>2. \A h \in Grants : grant[h].status \in Live => grant[h].session # call[c].session
    BY <1>2 DEF WriteGrant, NoneLive, LiveGrants
  <2> QED BY <2>1, <2>2 DEF LiveApart
<1> QED BY <1>1, <1>2, ReviveStep

\* However many create calls await the password of a session, at most one of
\* its grants is live.
THEOREM LiveCorrect == AuthSpec => []OneLiveGrant
<1>1. AuthInit => LiveApart
  BY DEF AuthInit, LiveApart, Live
<1>2. LiveApart => OneLiveGrant
  <2> SUFFICES ASSUME LiveApart, NEW s \in Sessions PROVE Cardinality(LiveGrants(s)) <= 1
    BY DEF OneLiveGrant
  <2>1. CASE LiveGrants(s) = {}
    <3>1. Cardinality({}) = 0
      BY FS_EmptySet
    <3> QED BY <2>1, <3>1
  <2>2. ASSUME NEW g \in LiveGrants(s) PROVE Cardinality(LiveGrants(s)) <= 1
    <3>1. LiveGrants(s) = {g}
      BY <2>2 DEF LiveApart, LiveGrants
    <3>2. Cardinality({g}) = 1
      BY FS_Singleton
    <3> QED BY <3>1, <3>2
  <2> QED BY <2>1, <2>2
<1> QED BY <1>1, <1>2, LiveStep, AuthInitType, AuthStepType, PTL DEF AuthSpec

-----------------------------------------------------------------------------
(* Live grants and their jobs *)

ArmedBy(g, j) == job[j] = [state |-> "ARMED", by |-> g]
ToArm(c, g, j) == call[c].pc = "arming" /\ call[c].grant = g /\ j \in call[c].pins

\* A job a live grant pins is armed, or a call has yet to arm it, unless the
\* application ended in between.
PinsHeld == ~crashed => \A g \in Grants : grant[g].status \in Live =>
    \A j \in grant[g].pins : ArmedBy(g, j) \/ \E c \in Slots : ToArm(c, g, j)

ArmedKept == \A j \in Jobs, g \in Grants : ArmedBy(g, j) => ArmedBy(g, j)'

\* An armed job stays armed by the same grant.
LEMMA ArmedStep ==
    ASSUME AuthTyped, [AuthNext]_authVars
    PROVE  ArmedKept
<1>1. ASSUME UNCHANGED job PROVE ArmedKept
  BY <1>1 DEF ArmedKept, ArmedBy
<1>2. ASSUME NEW i \in Jobs, NEW c \in Slots, CreateJob(i) \/ Arm(c, i) PROVE ArmedKept
  BY <1>2 DEF CreateJob, Arm, MayArm, ArmedKept, ArmedBy, AuthTyped, AuthTypeOK
<1>3. ASSUME NEW c \in Slots,
             \/ \E s \in Sessions, P \in SUBSET Jobs : RequestGrant(c, s, P)
             \/ \E g \in Grants : WriteGrant(c, g)
             \/ GrantRefused(c) \/ ArmFails(c) \/ BeginSigning(c)
      PROVE  ArmedKept
  BY <1>1, <1>3 DEF RequestGrant, WriteGrant, GrantRefused, ArmFails, BeginSigning, records
<1>4. CASE \/ \E g \in Grants : Pause(g) \/ Resume(g) \/ Revoke(g) \/ TimePasses(g)
           \/ \E s \in Sessions : SaveFullSession(s) \/ DeleteSession(s)
  BY <1>1, <1>4
     DEF Pause, Resume, Revoke, TimePasses, SaveFullSession, DeleteSession, records
<1>5. CASE Evaluate \/ Engage \/ EngageDone \/ EngageFails \/ Release
           \/ Unlock \/ Lock \/ ResetVault \/ Restart
  BY <1>1, <1>5
     DEF Evaluate, Engage, EngageDone, EngageFails, Release, Unlock, Lock, ResetVault, Restart,
         records
<1>6. ASSUME NEW i \in Jobs, CreateJob(i) PROVE ArmedKept
  BY <1>6 DEF CreateJob, ArmedKept, ArmedBy, AuthTyped, AuthTypeOK
<1>7. CASE UNCHANGED authVars
  BY <1>1, <1>7 DEF authVars
<1> QED BY <1>2, <1>3, <1>4, <1>5, <1>6, <1>7 DEF AuthNext

\* What leaves the calls that arm a live grant's jobs alone, and makes none live.
LEMMA PinsKept ==
    ASSUME AuthTyped, PinsHeld, ArmedKept, NoneRevive, crashed' = crashed,
           \A c \in Slots, g \in Grants, j \in Jobs :
             ToArm(c, g, j) /\ grant'[g].status \in Live => ToArm(c, g, j)'
    PROVE  PinsHeld'
<1> SUFFICES ASSUME ~crashed, NEW g \in Grants, grant'[g].status \in Live,
                    NEW j \in grant[g].pins
             PROVE  ArmedBy(g, j)' \/ \E c \in Slots : ToArm(c, g, j)'
  BY DEF PinsHeld, NoneRevive
<1>1. grant[g].status \in Live /\ j \in Jobs
  BY DEF NoneRevive, AuthTyped, AuthTypeOK, GrantRecords
<1>2. ArmedBy(g, j) \/ \E c \in Slots : ToArm(c, g, j)
  BY <1>1 DEF PinsHeld
<1> QED BY <1>1, <1>2 DEF ArmedKept

LEMMA PinsStep == AuthTyped /\ PinsHeld /\ [AuthNext]_authVars => PinsHeld'
<1> SUFFICES ASSUME AuthTyped, PinsHeld, [AuthNext]_authVars PROVE PinsHeld'
  OBVIOUS
<1>0. ArmedKept /\ call \in [Slots -> Calls]
  BY ArmedStep DEF AuthTyped, AuthTypeOK
\* Most steps leave the calls alone.
<1>b. ASSUME UNCHANGED <<call, crashed>> PROVE PinsHeld'
  <2>1. ASSUME NEW c \in Slots, NEW g \in Grants, WriteGrant(c, g) PROVE FALSE
    <3>1. call[c].pc = "verifying" /\ call' = [call EXCEPT ![c].pc = "arming", ![c].grant = g]
      BY <2>1 DEF WriteGrant
    <3>2. call'[c].pc = "arming"
      BY <1>0, <3>1 DEF Calls
    <3> QED BY <1>b, <3>1, <3>2
  <2>2. NoneRevive
    BY <2>1, ReviveStep
  <2> QED BY <1>0, <1>b, <2>2, PinsKept DEF ToArm
<1>1. ASSUME NEW c \in Slots, GrantRefused(c)
             \/ \E s \in Sessions, P \in SUBSET Jobs : RequestGrant(c, s, P)
      PROVE  PinsHeld'
  <2>1. call[c].pc # "arming" /\ \A d \in Slots : d # c => call'[d] = call[d]
    BY <1>0, <1>1 DEF GrantRefused, RequestGrant
  <2>2. UNCHANGED <<grant, crashed>>
    BY <1>1 DEF GrantRefused, RequestGrant, records, vaultState
  <2>3. NoneRevive
    BY <2>2 DEF NoneRevive
  <2> QED BY <1>0, <2>1, <2>2, <2>3, PinsKept DEF ToArm
<1>2. ASSUME NEW c \in Slots, NEW g \in Grants, WriteGrant(c, g) PROVE PinsHeld'
  <2>1. /\ grant'[g].pins = call[c].pins
        /\ \A h \in Grants : h # g => grant'[h] = grant[h]
    BY <1>2 DEF WriteGrant, AuthTyped, AuthTypeOK
  <2>2. /\ call'[c].pc = "arming" /\ call'[c].grant = g /\ call'[c].pins = call[c].pins
        /\ call[c].pc = "verifying" /\ \A d \in Slots : d # c => call'[d] = call[d]
    BY <1>0, <1>2 DEF WriteGrant, Calls
  <2>3. crashed' = crashed
    BY <1>2 DEF WriteGrant, vaultState
  <2> SUFFICES ASSUME ~crashed, NEW h \in Grants, grant'[h].status \in Live,
                      NEW j \in grant'[h].pins
               PROVE  ArmedBy(h, j)' \/ \E d \in Slots : ToArm(d, h, j)'
    BY <2>3 DEF PinsHeld
  <2>4. CASE h = g
    BY <2>1, <2>2, <2>4 DEF ToArm
  <2>5. CASE h # g
    <3>1. grant[h].status \in Live /\ j \in grant[h].pins /\ j \in Jobs
      BY <2>1, <2>5 DEF AuthTyped, AuthTypeOK, GrantRecords
    <3>2. ASSUME NEW d \in Slots, ToArm(d, h, j) PROVE ToArm(d, h, j)'
      BY <2>2, <3>2 DEF ToArm
    <3> QED BY <1>0, <3>1, <3>2 DEF PinsHeld, ArmedKept
  <2> QED BY <2>4, <2>5
<1>3. ASSUME NEW c \in Slots, NEW i \in Jobs, Arm(c, i) PROVE PinsHeld'
  <2>1. /\ call'[c].pc = call[c].pc /\ call'[c].grant = call[c].grant
        /\ call'[c].pins = call[c].pins \ {i} /\ call[c].pc = "arming"
        /\ \A d \in Slots : d # c => call'[d] = call[d]
    BY <1>0, <1>3 DEF Arm, Calls
  <2>2. job'[i] = [state |-> "ARMED", by |-> call[c].grant] /\ UNCHANGED <<grant, crashed>>
    BY <1>3 DEF Arm, AuthTyped, AuthTypeOK, vaultState
  <2> SUFFICES ASSUME ~crashed, NEW h \in Grants, grant[h].status \in Live,
                      NEW j \in grant[h].pins
               PROVE  ArmedBy(h, j)' \/ \E d \in Slots : ToArm(d, h, j)'
    BY <2>2 DEF PinsHeld
  <2>3. j \in Jobs
    BY DEF AuthTyped, AuthTypeOK, GrantRecords
  <2>4. CASE ArmedBy(h, j)
    BY <1>0, <2>3, <2>4 DEF ArmedKept
  <2>5. ASSUME NEW d \in Slots, ToArm(d, h, j)
        PROVE  ArmedBy(h, j)' \/ \E e \in Slots : ToArm(e, h, j)'
    <3>1. CASE d = c /\ j = i
      BY <2>2, <2>5, <3>1 DEF ToArm, ArmedBy
    <3>2. CASE ~(d = c /\ j = i)
      BY <2>1, <2>5, <3>2 DEF ToArm
    <3> QED BY <3>1, <3>2
  <2> QED BY <2>4, <2>5 DEF PinsHeld
<1>4. ASSUME NEW c \in Slots, ArmFails(c) PROVE PinsHeld'
  <2>1. call[c].grant \in Grants /\ call[c].pc = "arming" /\ crashed' = crashed
    BY <1>4 DEF ArmFails, AuthTyped, CallTyped, vaultState
  <2>2. ASSUME NEW d \in Slots, NEW g \in Grants, WriteGrant(d, g) PROVE FALSE
    <3>1. call[d].pc = "verifying" /\ call' = [call EXCEPT ![d].pc = "arming", ![d].grant = g]
      BY <2>2 DEF WriteGrant
    <3>2. call'[d].pc = "arming"
      BY <1>0, <3>1 DEF Calls
    <3>3. d # c /\ call'[d] = call[d]
      BY <1>0, <1>4, <2>1, <3>1 DEF ArmFails
    <3> QED BY <3>1, <3>2, <3>3
  <2>3. grant'[call[c].grant].status \notin Live
    BY <1>4, <2>1
       DEF ArmFails, AfterArmFailure, RevokeStatus, Terminal, Live, AuthTyped, AuthTypeOK,
           GrantRecords
  <2>4. \A d \in Slots : d # c => call'[d] = call[d]
    BY <1>0, <1>4 DEF ArmFails
  <2> QED BY <1>0, <2>1, <2>2, <2>3, <2>4, ReviveStep, PinsKept DEF ToArm
<1>5. ASSUME NEW c \in Slots, BeginSigning(c) PROVE PinsHeld'
  <2>1. call[c].pins = {} /\ \A d \in Slots : d # c => call'[d] = call[d]
    BY <1>0, <1>5 DEF BeginSigning
  <2>2. UNCHANGED <<grant, crashed>>
    BY <1>5 DEF BeginSigning, records, vaultState
  <2>3. NoneRevive
    BY <2>2 DEF NoneRevive
  <2> QED BY <1>0, <2>1, <2>2, <2>3, PinsKept DEF ToArm
<1>6. CASE \/ \E j \in Jobs : CreateJob(j)
           \/ \E g \in Grants : Pause(g) \/ Resume(g) \/ Revoke(g) \/ TimePasses(g)
           \/ \E s \in Sessions : SaveFullSession(s) \/ DeleteSession(s)
  BY <1>b, <1>6
     DEF CreateJob, Pause, Resume, Revoke, TimePasses, SaveFullSession, DeleteSession,
         process, vaultState
<1>7. CASE Evaluate \/ Engage \/ EngageDone \/ EngageFails \/ Release
           \/ Unlock \/ Lock \/ ResetVault
  BY <1>b, <1>7
     DEF Evaluate, Engage, EngageDone, EngageFails, Release, Unlock, Lock, ResetVault,
         process, vaultState
<1>8. CASE Restart
  <2>1. CASE \E c \in Slots : call[c].pc # "idle"
    BY <1>8, <2>1 DEF Restart, PinsHeld
  <2>2. CASE \A c \in Slots : call[c].pc = "idle"
    <3>0. crashed \in BOOLEAN
      BY DEF AuthTyped, AuthTypeOK
    <3>1. crashed' = crashed /\ UNCHANGED grant
      BY <1>8, <2>2, <3>0 DEF Restart, records
    <3>2. NoneRevive
      BY <3>1 DEF NoneRevive
    <3> QED BY <1>0, <2>2, <3>1, <3>2, PinsKept DEF ToArm
  <2> QED BY <2>1, <2>2
<1>9. CASE UNCHANGED authVars
  BY <1>b, <1>9 DEF authVars
<1> QED BY <1>1, <1>2, <1>3, <1>4, <1>5, <1>6, <1>7, <1>8, <1>9 DEF AuthNext

\* A grant that no call is creating is live with all its jobs armed, unless the
\* application ended in the middle of a creation.
THEOREM ArmedCorrect == AuthSpec => []LiveIsArmed
<1>1. AuthInit => PinsHeld
  BY DEF AuthInit, PinsHeld, Live
<1>2. AuthTyped /\ PinsHeld => LiveIsArmed
  BY DEF AuthTyped, PinsHeld, LiveIsArmed, ToArm, ArmedBy, Creating
<1> QED BY <1>1, <1>2, PinsStep, AuthInitType, AuthStepType, PTL DEF AuthSpec

-----------------------------------------------------------------------------
(* The vault *)

KeyOrNone == Keys \cup {NoKey}
Files == [Names -> KeyOrNone]
Mutations == [on : BOOLEAN, file : Files]

LEMMA VaultParts ==
    VaultTypeOK <=>
      /\ file \in Files /\ rows \in [Services -> SUBSET Keys]
      /\ cache \in [Services -> KeyOrNone] /\ op \in [Services -> Ops]
      /\ mutation \in [Services -> Mutations] /\ used \subseteq Keys
      /\ vaultUnlocked \in BOOLEAN /\ faulty \in BOOLEAN
      /\ reset \in {"idle", "backing up", "clearing"}
BY DEF VaultTypeOK, KeyOrNone, Files, Mutations

LEMMA VaultConstants ==
    /\ Blank \in Files /\ \A s \in Services : Name[s] \in Names /\ Blank[Name[s]] = NoKey
    /\ NoOp \in Ops /\ NoOp.pc = "idle"
    /\ NoMutation \in Mutations /\ NoMutation.on = FALSE
<1>1. Blank \in Files /\ \A s \in Services : Name[s] \in Names /\ Blank[Name[s]] = NoKey
  BY DEF Blank, Files, KeyOrNone, Names
<1> QED BY <1>1 DEF NoOp, Ops, NoMutation, Mutations

Setting(s) == op[s].pc = "setting"

\* Mutations: of a service that is setting its key, one at a time, and what it
\* has read is still the file. No mutation outlives the move of the keystore.
MutationsApart ==
    /\ \A s \in Services : mutation[s].on => Setting(s) /\ mutation[s].file = file
    /\ \A s, t \in Services : mutation[s].on /\ mutation[t].on => s = t
    /\ reset = "clearing" => file = Blank /\ MutationFree

\* A key is made where there is none, unless a read that failed was forgiven.
MadeOnce == \A s \in Services :
    Own(s) /\ Setting(s) /\ (s \in Forgiving => ~faulty) => file[Name[s]] = NoKey

VaultInv ==
    /\ VaultTypeOK /\ MutationsApart /\ MadeOnce
    /\ \A s \in Services : Setting(s) => op[s].key \in Keys
    /\ \A s \in Services \ Cached : cache[s] = NoKey
    /\ reset # "idle" => ~vaultUnlocked
    /\ ~faulty /\ reset # "clearing" => \A s \in Wiped : Readable(s)

LEMMA VaultStart == ASSUME VaultInit PROVE VaultInv
<1> USE DEF VaultInit
<1>1. VaultTypeOK
  BY VaultConstants, VaultParts DEF KeyOrNone
<1>2. \A s \in Services : op[s].pc = "idle" /\ mutation[s].on = FALSE
  BY VaultConstants
<1>3. Wiped \subseteq Services
  BY VaultAssumption
<1> QED BY <1>1, <1>2, <1>3 DEF VaultInv, MutationsApart, MadeOnce, Setting, Readable

\* What a save does to the rows, the cache and the call.
LEMMA Saves ==
    ASSUME VaultTypeOK, NEW s \in Services, NEW k \in Keys, Save(s, k)
    PROVE  /\ rows' \in [Services -> SUBSET Keys] /\ cache' \in [Services -> KeyOrNone]
           /\ op' \in [Services -> Ops]
           /\ rows'[s] = rows[s] \cup {k} /\ \A t \in Services \ {s} : rows'[t] = rows[t]
           /\ \A t \in Services \ Cached : cache'[t] = cache[t]
           /\ op'[s].pc = "idle" /\ \A t \in Services \ {s} : op'[t] = op[t]
<1> USE VaultConstants, VaultParts
<1>1. op' \in [Services -> Ops] /\ op'[s].pc = "idle" /\ \A t \in Services \ {s} : op'[t] = op[t]
  BY DEF Save, End
<1>2. /\ rows' \in [Services -> SUBSET Keys]
      /\ rows'[s] = rows[s] \cup {k} /\ \A t \in Services \ {s} : rows'[t] = rows[t]
  BY DEF Save
<1>3. cache' \in [Services -> KeyOrNone] /\ \A t \in Services \ Cached : cache'[t] = cache[t]
  BY DEF Save, KeyOrNone
<1> QED BY <1>1, <1>2, <1>3

\* The end of a mutation replaces one key.
LEMMA FileChanges ==
    ASSUME VaultInv, NEW s \in Services, EndMutation(s)
    PROVE  /\ op[s].key \in Keys /\ Setting(s) /\ Save(s, op[s].key)
           /\ file' \in Files /\ file'[Name[s]] = op[s].key
           /\ \A t \in Services : Name[t] # Name[s] => file'[Name[t]] = file[Name[t]]
           /\ \A t \in Services : mutation'[t].on = FALSE
           /\ mutation' \in [Services -> Mutations]
<1>1. /\ mutation[s].on /\ mutation[s].file = file /\ Setting(s) /\ op[s].key \in Keys
      /\ \A t \in Services \ {s} : ~mutation[t].on
  BY DEF EndMutation, VaultInv, MutationsApart
<1>2. file \in Files /\ mutation \in [Services -> Mutations]
  BY VaultParts DEF VaultInv
<1>3. file' = [file EXCEPT ![Name[s]] = op[s].key] /\ Save(s, op[s].key)
      /\ mutation' = [mutation EXCEPT ![s] = NoMutation]
  BY <1>1 DEF EndMutation
<1>4. /\ file' \in Files /\ file'[Name[s]] = op[s].key
      /\ \A t \in Services : Name[t] # Name[s] => file'[Name[t]] = file[Name[t]]
  BY <1>1, <1>2, <1>3, VaultConstants DEF Files, KeyOrNone
<1>5. mutation' \in [Services -> Mutations] /\ \A t \in Services : mutation'[t].on = FALSE
  <2>1. mutation'[s] = NoMutation /\ \A t \in Services \ {s} : mutation'[t] = mutation[t]
    BY <1>2, <1>3
  <2>2. \A t \in Services \ {s} : mutation[t].on = FALSE
    BY <1>1, <1>2 DEF Mutations
  <2> QED BY <1>2, <1>3, <2>1, <2>2, VaultConstants
<1> QED BY <1>1, <1>3, <1>4, <1>5

LEMMA VaultStep == VaultInv /\ [VaultNext]_vaultVars => VaultInv'
<1> SUFFICES ASSUME VaultInv, [VaultNext]_vaultVars PROVE VaultInv'
  OBVIOUS
<1>0. /\ file \in Files /\ rows \in [Services -> SUBSET Keys]
      /\ cache \in [Services -> KeyOrNone] /\ op \in [Services -> Ops]
      /\ mutation \in [Services -> Mutations] /\ used \subseteq Keys
      /\ vaultUnlocked \in BOOLEAN /\ faulty \in BOOLEAN
      /\ reset \in {"idle", "backing up", "clearing"}
      /\ Wiped \subseteq Services /\ Wiped \cap Cached = {} /\ \A s \in Wiped : Own(s)
      /\ NoKey \notin Keys
  BY VaultParts, VaultAssumption, WipedAssumption DEF VaultInv
<1>f. faulty \in BOOLEAN /\ vaultUnlocked \in BOOLEAN
  BY <1>0
<1>r. reset # "idle" => ~vaultUnlocked
  BY DEF VaultInv
\* Steps that leave the file, the rows, the memory and the mutations.
<1>a. ASSUME UNCHANGED <<file, rows, mutation, cache>>, op' \in [Services -> Ops],
             \A s \in Services : Setting(s)' =>
               \/ op'[s] = op[s]
               \/ /\ op'[s].key \in Keys /\ ~mutation[s].on
                  /\ (s \in Forgiving => ~faulty') => file[Name[s]] = NoKey,
             \A s \in Services : mutation[s].on => op'[s] = op[s],
             used' \subseteq Keys, vaultUnlocked' \in BOOLEAN, faulty' \in BOOLEAN,
             faulty => faulty',
             (reset' = reset \/ (reset' # "clearing" /\ (reset = "clearing" => faulty'))),
             reset' \in {"idle", "backing up", "clearing"},
             reset' # "idle" => ~vaultUnlocked'
      PROVE  VaultInv'
  <2>1. VaultTypeOK'
    BY <1>0, <1>a, VaultParts DEF VaultTypeOK, Files, KeyOrNone, Mutations
  <2>2. MutationsApart'
    BY <1>a DEF VaultInv, MutationsApart, MutationFree, Setting
  <2>3. MadeOnce'
    BY <1>a DEF VaultInv, MadeOnce, Setting, Own
  <2>4. \A s \in Services : Setting(s)' => op'[s].key \in Keys
    BY <1>a DEF VaultInv, Setting
  <2> QED BY <1>a, <2>1, <2>2, <2>3, <2>4 DEF VaultInv, Readable
<1>1. ASSUME NEW s \in Services, StartSave(s) PROVE VaultInv'
  <2>1. /\ op' \in [Services -> Ops] /\ op'[s].pc = "reading"
        /\ \A t \in Services \ {s} : op'[t] = op[t]
    BY <1>0, <1>1 DEF StartSave, Ops
  <2>2. ~mutation[s].on
    BY <1>1 DEF StartSave, VaultInv, MutationsApart, Setting
  <2>3. UNCHANGED <<file, rows, cache, mutation, used, vaultUnlocked, reset, faulty>>
    BY <1>1 DEF StartSave, disk
  <2> QED BY <1>0, <1>a, <2>1, <2>2, <2>3 DEF Setting, VaultInv
\* A call that ends without a save.
<1>b. ASSUME NEW s \in Services, End(s), ~mutation[s].on, UNCHANGED faulty \/ faulty' = TRUE,
             UNCHANGED <<file, rows, cache, mutation, vaultUnlocked, reset>>,
             used' \subseteq Keys
      PROVE  VaultInv'
  <2>1. /\ op' \in [Services -> Ops] /\ op'[s].pc = "idle"
        /\ \A t \in Services \ {s} : op'[t] = op[t]
    BY <1>0, <1>b, VaultConstants DEF End
  <2>2. faulty' \in BOOLEAN /\ (faulty => faulty')
    BY <1>b, <1>f
  <2>4. reset' # "idle" => ~vaultUnlocked'
    BY <1>b, <1>r
  <2>3. \A t \in Services : (Setting(t)' => op'[t] = op[t]) /\ (mutation[t].on => op'[t] = op[t])
    BY <1>b, <2>1 DEF Setting
  <2> QED BY <1>0, <1>a, <1>b, <2>1, <2>2, <2>3, <2>4
<1>2. ASSUME NEW s \in Services, KeyFound(s) PROVE VaultInv'
  <2> DEFINE k == IF cache[s] # NoKey THEN cache[s] ELSE file[Name[s]]
  <2>1. /\ op[s].pc = "reading" /\ k # NoKey /\ Save(s, k)
        /\ UNCHANGED <<file, mutation, used, vaultUnlocked, reset, faulty>>
    BY <1>2 DEF KeyFound, Present
  <2>2. k \in Keys
    BY <1>0, <2>1, VaultConstants DEF Files, KeyOrNone
  <2>3. s \notin Cached => k = file[Name[s]]
    BY DEF VaultInv
  <2> HIDE DEF k
  <2>4. /\ rows' \in [Services -> SUBSET Keys] /\ cache' \in [Services -> KeyOrNone]
        /\ op' \in [Services -> Ops]
        /\ rows'[s] = rows[s] \cup {k} /\ \A t \in Services \ {s} : rows'[t] = rows[t]
        /\ \A t \in Services \ Cached : cache'[t] = cache[t]
        /\ op'[s].pc = "idle" /\ \A t \in Services \ {s} : op'[t] = op[t]
    BY <2>1, <2>2, Saves DEF VaultInv
  <2>5. ~mutation[s].on
    BY <2>1 DEF VaultInv, MutationsApart, Setting
  <2>6. VaultTypeOK'
    BY <1>0, <2>1, <2>4, VaultParts DEF VaultTypeOK, Files, KeyOrNone, Mutations
  <2>7. MutationsApart'
    BY <2>1, <2>4, <2>5 DEF VaultInv, MutationsApart, MutationFree, Setting
  <2>8. MadeOnce'
    BY <2>1, <2>4 DEF VaultInv, MadeOnce, Setting, Own
  <2>9. \A t \in Wiped : Readable(t) => Readable(t)'
    BY <1>0, <2>1, <2>3, <2>4 DEF Readable
  <2>10. \A t \in Services : Setting(t)' => op'[t].key \in Keys
    BY <2>4 DEF VaultInv, Setting
  <2> QED BY <1>0, <2>1, <2>4, <2>6, <2>7, <2>8, <2>9, <2>10 DEF VaultInv
<1>3. ASSUME NEW s \in Services, NEW k \in Keys \ used, KeyMissing(s, k) \/ ReadFails(s, k)
      PROVE  VaultInv'
  <2>0. /\ op[s].pc = "reading" /\ (UNCHANGED faulty \/ faulty' = TRUE) /\ ~mutation[s].on
        /\ UNCHANGED <<file, rows, cache, mutation, vaultUnlocked, reset>>
        /\ used' \subseteq Keys
    BY <1>0, <1>3
       DEF KeyMissing, ReadFails, GenerateKey, disk, VaultInv, MutationsApart, Setting
  <2>1. CASE End(s)
    BY <1>b, <2>0, <2>1
  <2>2. CASE /\ op' = [op EXCEPT ![s] = [pc |-> "setting", key |-> k]]
             /\ (s \in Forgiving => ~faulty') => file[Name[s]] = NoKey
    <3>1. /\ op' \in [Services -> Ops] /\ op'[s].pc = "setting" /\ op'[s].key = k
          /\ \A t \in Services \ {s} : op'[t] = op[t]
      BY <1>0, <2>2 DEF Ops
    <3>2. faulty' \in BOOLEAN /\ (faulty => faulty')
      <4>1. UNCHANGED faulty \/ faulty' = TRUE
        BY <2>0
      <4> QED BY <1>f, <4>1
    <3>5. reset' # "idle" => ~vaultUnlocked'
      BY <1>r, <2>0
    <3>3. \A t \in Services : mutation[t].on => op'[t] = op[t]
      BY <2>0, <3>1
    <3>4. \A t \in Services : Setting(t)' =>
            \/ op'[t] = op[t]
            \/ /\ op'[t].key \in Keys /\ ~mutation[t].on
               /\ (t \in Forgiving => ~faulty') => file[Name[t]] = NoKey
      <4>1. op'[s].key \in Keys /\ ~mutation[s].on
        BY <2>0, <3>1
      <4>2. (s \in Forgiving => ~faulty') => file[Name[s]] = NoKey
        BY <2>2
      <4>3. \A t \in Services : t = s \/ op'[t] = op[t]
        BY <3>1
      <4> QED BY <4>1, <4>2, <4>3, Zenon
    <3> QED BY <1>0, <1>a, <2>0, <3>1, <3>2, <3>3, <3>4, <3>5
  <2> QED BY <1>3, <2>1, <2>2
          DEF KeyMissing, ReadFails, TakenForMissing, GenerateKey, End
<1>4. ASSUME NEW s \in Services, BeginMutation(s) PROVE VaultInv'
  <2>1. /\ mutation' = [mutation EXCEPT ![s] = [on |-> TRUE, file |-> file]]
        /\ Setting(s) /\ MutationFree /\ vaultUnlocked
        /\ UNCHANGED <<file, rows, cache, op, used, vaultUnlocked, reset, faulty>>
    BY <1>4 DEF BeginMutation, disk, Setting
  <2>2. /\ mutation' \in [Services -> Mutations] /\ mutation'[s].file = file
        /\ \A t \in Services \ {s} : mutation'[t] = mutation[t]
    BY <1>0, <2>1 DEF Mutations
  <2>3. VaultTypeOK'
    BY <1>0, <2>1, <2>2, VaultParts DEF VaultTypeOK, Files, KeyOrNone, Mutations
  <2>4. MutationsApart'
    BY <2>1, <2>2 DEF VaultInv, MutationsApart, MutationFree, Setting
  <2>5. MadeOnce'
    BY <2>1 DEF VaultInv, MadeOnce, Setting, Own
  <2> QED BY <2>1, <2>3, <2>4, <2>5 DEF VaultInv, Setting, Readable
<1>5. ASSUME NEW s \in Services, MutationRefused(s) PROVE VaultInv'
  BY <1>0, <1>5, <1>b DEF MutationRefused, MutationFree, disk
<1>6. ASSUME NEW s \in Services, EndMutation(s) PROVE VaultInv'
  <2> DEFINE k == op[s].key
  <2>1. /\ k \in Keys /\ Setting(s) /\ Save(s, k) /\ mutation[s].on
        /\ file' \in Files /\ file'[Name[s]] = k
        /\ \A t \in Services : Name[t] # Name[s] => file'[Name[t]] = file[Name[t]]
        /\ \A t \in Services : mutation'[t].on = FALSE
        /\ mutation' \in [Services -> Mutations]
        /\ UNCHANGED <<used, vaultUnlocked, reset, faulty>>
    BY <1>6, FileChanges DEF EndMutation
  <2> HIDE DEF k
  <2>2. /\ rows' \in [Services -> SUBSET Keys] /\ cache' \in [Services -> KeyOrNone]
        /\ op' \in [Services -> Ops]
        /\ rows'[s] = rows[s] \cup {k} /\ \A t \in Services \ {s} : rows'[t] = rows[t]
        /\ \A t \in Services \ Cached : cache'[t] = cache[t]
        /\ op'[s].pc = "idle" /\ \A t \in Services \ {s} : op'[t] = op[t]
    BY <2>1, Saves DEF VaultInv
  <2>3. reset # "clearing"
    BY <2>1 DEF VaultInv, MutationsApart, MutationFree
  <2>4. VaultTypeOK'
    BY <1>0, <2>1, <2>2, VaultParts DEF VaultTypeOK, Files, KeyOrNone, Mutations
  <2>5. MutationsApart'
    BY <2>1, <2>3 DEF MutationsApart
  <2>6. MadeOnce'
    <3> SUFFICES ASSUME NEW t \in Services, Own(t), Setting(t)', t \in Forgiving => ~faulty'
                 PROVE  file'[Name[t]] = NoKey
      BY DEF MadeOnce, Own
    <3>1. t # s /\ Setting(t) /\ Name[t] # Name[s]
      BY <2>2 DEF Setting, Own
    <3> QED BY <2>1, <3>1 DEF VaultInv, MadeOnce
  <2>7. ASSUME ~faulty, NEW t \in Wiped PROVE Readable(t)'
    <3>1. Readable(t) /\ Own(t)
      BY <1>0, <2>3, <2>7 DEF VaultInv
    <3>2. CASE t = s
      <4>1. file[Name[s]] = NoKey
        BY <1>0, <2>1, <2>7, <3>1, <3>2 DEF VaultInv, MadeOnce
      <4>2. rows[s] = {}
        BY <1>0, <3>1, <3>2, <4>1 DEF Readable
      <4> QED BY <2>1, <2>2, <3>2, <4>2 DEF Readable
    <3>3. CASE t # s
      <4>1. Name[t] # Name[s]
        BY <3>1, <3>3 DEF Own
      <4> QED BY <1>0, <2>1, <2>2, <3>1, <3>3, <4>1 DEF Readable
    <3> QED BY <3>2, <3>3
  <2>8. \A t \in Services : Setting(t)' => op'[t].key \in Keys
    BY <2>2 DEF VaultInv, Setting
  <2> QED BY <2>1, <2>2, <2>4, <2>5, <2>6, <2>7, <2>8 DEF VaultInv
<1>7. CASE LockVault \/ UnlockVault \/ ResetStart \/ ResetFails
  <2>1. UNCHANGED <<file, rows, cache, op, mutation, used>>
    BY <1>7 DEF LockVault, UnlockVault, ResetStart, ResetFails, disk
  <2>2. /\ vaultUnlocked' \in BOOLEAN /\ faulty' \in BOOLEAN
        /\ reset' \in {"idle", "backing up", "clearing"}
    BY <1>0, <1>7 DEF LockVault, UnlockVault, ResetStart, ResetFails
  <2>3. faulty => faulty'
    BY <1>7 DEF LockVault, UnlockVault, ResetStart, ResetFails
  <2>5. reset' # "idle" => ~vaultUnlocked'
    BY <1>7, <1>r DEF LockVault, UnlockVault, ResetStart, ResetFails
  <2>4. reset' = reset \/ (reset' # "clearing" /\ (reset = "clearing" => faulty'))
    BY <1>7 DEF LockVault, UnlockVault, ResetStart, ResetFails
  <2> QED BY <1>0, <1>a, <2>1, <2>2, <2>3, <2>4, <2>5 DEF Setting
<1>8. CASE MoveKeystore
  <2>1. /\ file' = Blank /\ reset' = "clearing" /\ reset # "idle" /\ MutationFree
        /\ UNCHANGED <<rows, cache, op, mutation, used, vaultUnlocked, faulty>>
    BY <1>8 DEF MoveKeystore
  <2>2. VaultTypeOK'
    BY <1>0, <2>1, VaultConstants, VaultParts DEF VaultTypeOK, Files, KeyOrNone, Mutations
  <2>3. MutationsApart'
    BY <2>1 DEF MutationsApart, MutationFree
  <2>4. MadeOnce'
    BY <2>1, VaultConstants DEF MadeOnce
  <2> QED BY <2>1, <2>2, <2>3, <2>4 DEF VaultInv, Setting
<1>9. CASE ClearTables
  <2>1. /\ rows' = [s \in Services |-> IF s \in Wiped THEN {} ELSE rows[s]]
        /\ reset' = "idle" /\ reset = "clearing"
        /\ UNCHANGED <<file, cache, op, mutation, used, vaultUnlocked, faulty>>
    BY <1>9 DEF ClearTables
  <2>2. VaultTypeOK'
    BY <1>0, <2>1, VaultParts DEF VaultTypeOK, Files, KeyOrNone, Mutations
  <2>3. MutationsApart' /\ MadeOnce'
    BY <2>1 DEF VaultInv, MutationsApart, MutationFree, MadeOnce, Setting, Own
  <2>4. \A s \in Wiped : Readable(s)'
    BY <1>0, <2>1 DEF Readable
  <2> QED BY <2>1, <2>2, <2>3, <2>4 DEF VaultInv, Setting
<1>10. CASE RestartApp
  <2>1. /\ UNCHANGED <<file, rows, used>> /\ reset' = "idle" /\ vaultUnlocked' = FALSE
        /\ cache' = [s \in Services |-> NoKey] /\ op' = [s \in Services |-> NoOp]
        /\ mutation' = [s \in Services |-> NoMutation] /\ faulty' = (faulty \/ reset # "idle")
    BY <1>10 DEF RestartApp, disk
  <2>2. VaultTypeOK'
    BY <1>0, <2>1, VaultConstants, VaultParts
       DEF VaultTypeOK, Files, KeyOrNone, Mutations
  <2>3. \A s \in Services : op'[s].pc = "idle" /\ mutation'[s].on = FALSE
    BY <2>1, VaultConstants
  <2>4. MutationsApart' /\ MadeOnce'
    BY <2>1, <2>3 DEF MutationsApart, MadeOnce, Setting
  <2> QED BY <2>1, <2>2, <2>3, <2>4 DEF VaultInv, Setting, Readable
<1>11. CASE UNCHANGED vaultVars
  <2>1. UNCHANGED <<file, rows, cache, op, mutation, used, vaultUnlocked, reset, faulty>>
    BY <1>11 DEF vaultVars, disk
  <2> QED BY <1>0, <1>a, <2>1 DEF VaultInv, Setting
<1> QED BY <1>1, <1>2, <1>3, <1>4, <1>5, <1>6, <1>7, <1>8, <1>9, <1>10, <1>11 DEF VaultNext

LEMMA VaultInvariant == VaultSpec => []VaultInv
BY VaultStart, VaultStep, PTL DEF VaultSpec

\* The keystore, the tables and the services stay in their types.
THEOREM VaultTypeCorrect == VaultSpec => []VaultTypeOK
<1>1. VaultInv => VaultTypeOK
  BY DEF VaultInv
<1> QED BY <1>1, VaultInvariant, PTL

\* What is saved can be decrypted with the key of the keystore, whatever keys,
\* locks, resets and crashes come in between (setSecret, #enqueueMutation,
\* resetVaultData), until a read or a reset has failed.
THEOREM RowsCorrect == VaultSpec => []RowsReadable
<1>1. VaultInv => RowsReadable
  BY DEF VaultInv, RowsReadable
<1> QED BY <1>1, VaultInvariant, PTL

\* A key of the keystore is replaced by no other, not even after failures, when
\* no other service keeps its key under the same record: the reset alone
\* removes it.
THEOREM KeysCorrect ==
    ASSUME \A s \in Services \ Forgiving : Own(s)
    PROVE  VaultSpec => KeyStays
<1> DEFINE Kept == \A s \in Services \ Forgiving : LET n == Name[s] IN
              file[n] # NoKey => file'[n] = file[n] \/ (file' = Blank /\ reset = "backing up")
<1>1. VaultInv /\ [VaultNext]_vaultVars => [Kept]_vaultVars
  <2> SUFFICES ASSUME VaultInv, VaultNext, NEW s \in Services \ Forgiving,
                      file[Name[s]] # NoKey, file'[Name[s]] # file[Name[s]]
               PROVE  file' = Blank /\ reset = "backing up"
    OBVIOUS
  <2>1. ASSUME NEW t \in Services, EndMutation(t) PROVE FALSE
    <3>1. /\ Setting(t)
          /\ \A u \in Services : Name[u] # Name[t] => file'[Name[u]] = file[Name[u]]
      BY <2>1, FileChanges
    <3>2. s = t
      BY <3>1 DEF Own
    <3> QED BY <3>1, <3>2 DEF VaultInv, MadeOnce
  <2> QED BY <2>1 DEF VaultNext, StartSave, KeyFound, BeginMutation, MutationRefused,
                      KeyMissing, ReadFails, GenerateKey, LockVault, UnlockVault,
                      ResetStart, MoveKeystore, ClearTables, ResetFails, RestartApp, disk
<1> QED BY <1>1, VaultInvariant, PTL DEF VaultSpec, KeyStays

-----------------------------------------------------------------------------
(* Lists of wallets *)

LEMMA ListIs ==
    ASSUME NEW w
    PROVE  w \in Lists <=> w \in Seq(All) /\ Len(w) <= Limit /\ IsInjective(w)
<1>1. ASSUME w \in Lists PROVE w \in Seq(All) /\ Len(w) <= Limit /\ IsInjective(w)
  <2>1. PICK m \in 0..Limit : w \in [1..m -> All]
    BY <1>1 DEF Lists, SeqOf
  <2>2. w \in Seq(All) /\ Len(w) = m
    BY <2>1, WalletsAssumption
  <2> QED BY <1>1, <2>1, <2>2, WalletsAssumption DEF Lists
<1>2. ASSUME w \in Seq(All), Len(w) <= Limit, IsInjective(w) PROVE w \in Lists
  <2>1. w \in [1..Len(w) -> All] /\ Len(w) \in 0..Limit
    BY <1>2, WalletsAssumption
  <2> QED BY <1>2, <2>1 DEF Lists, SeqOf
<1> QED BY <1>1, <1>2

LEMMA ListHolds ==
    ASSUME NEW w \in Lists
    PROVE  ToSet(w) \subseteq All /\ (w # <<>> => w[1] \in ToSet(w))
BY ListIs DEF ToSet

LEMMA EmptyList == <<>> \in Lists /\ ToSet(<<>>) = {}
<1>1. <<>> \in Seq(All) /\ Len(<<>>) <= Limit
  BY WalletsAssumption
<1>2. IsInjective(<<>>) /\ ToSet(<<>>) = {}
  BY DEF IsInjective, ToSet
<1> QED BY <1>1, <1>2, ListIs

LEMMA LongerList ==
    ASSUME NEW w \in Lists, NEW x \in All
    PROVE  /\ ToSet(Append(w, x)) = ToSet(w) \cup {x}
           /\ Len(w) < Limit /\ x \notin ToSet(w) => Append(w, x) \in Lists
<1>1. w \in Seq(All) /\ IsInjective(w) /\ Len(w) <= Limit
  BY ListIs
<1> DEFINE y == Append(w, x)
<1>2. /\ y \in Seq(All) /\ Len(y) = Len(w) + 1 /\ DOMAIN y = 1..(Len(w) + 1)
      /\ \A i \in 1..Len(w) : y[i] = w[i]
      /\ y[Len(w) + 1] = x /\ DOMAIN w = 1..Len(w)
  BY <1>1
<1> HIDE DEF y
<1>3. ToSet(y) = ToSet(w) \cup {x}
  <2>1. ToSet(y) \subseteq ToSet(w) \cup {x}
    BY <1>1, <1>2 DEF ToSet
  <2>2. ToSet(w) \cup {x} \subseteq ToSet(y)
    <3>1. ASSUME NEW i \in 1..Len(w) PROVE w[i] \in ToSet(y)
      BY <1>1, <1>2 DEF ToSet
    <3>2. x \in ToSet(y)
      BY <1>1, <1>2 DEF ToSet
    <3> QED BY <1>2, <3>1, <3>2 DEF ToSet
  <2> QED BY <2>1, <2>2
<1>4. ASSUME Len(w) < Limit, x \notin ToSet(w) PROVE y \in Lists
  <2>1. Len(y) <= Limit
    BY <1>1, <1>2, <1>4, WalletsAssumption
  <2>2. IsInjective(y)
    <3> SUFFICES ASSUME NEW i \in DOMAIN y, NEW j \in DOMAIN y, y[i] = y[j] PROVE i = j
      BY DEF IsInjective
    <3>1. \A k \in 1..Len(w) : w[k] # x
      BY <1>2, <1>4 DEF ToSet
    <3> QED BY <1>1, <1>2, <3>1 DEF IsInjective
  <2> QED BY <1>2, <2>1, <2>2, ListIs
<1> QED BY <1>3, <1>4 DEF y

-----------------------------------------------------------------------------
(* Wallets *)

InFlight(c) == edit[c] # NoEdit

\* Of two calls in flight, the one that overlaps an edit knows it.
EditsApart == \A c, d \in Edits : c # d /\ InFlight(c) /\ Editing(d) => edit[c].shared

\* A list from which no wallet the user was told of for certain is missing.
HoldsTold(list) == \A w \in All : told[w] = "alone" => w \in ToSet(list)

Holding == {"setting", "naming", "undoing"}

\* What an addition has read holds what it has to keep. An addition that
\* nothing overlaps knows the list and the record as well.
AddingOK(c) ==
    /\ edit[c].wallet \in All /\ edit[c].pc \in {"reading"} \cup Holding
    /\ edit[c].pc = "setting" =>
         Len(edit[c].found) < Limit /\ edit[c].wallet \notin ToSet(edit[c].found)
    /\ edit[c].pc \in {"naming", "undoing"} => recorded
    /\ edit[c].pc \in Holding => HoldsTold(edit[c].found)
    /\ edit[c].pc = "setting" /\ ~edit[c].shared => secret = edit[c].found
    /\ edit[c].pc = "naming" /\ ~edit[c].shared =>
         secret = Extended(c) /\ (~marred => meta = NoWallet)
    /\ edit[c].pc = "undoing" /\ ~edit[c].shared /\ ~marred /\ Named =>
         meta \in ToSet(edit[c].found)

ListingOK(c) ==
    /\ edit[c].pc \notin {"setting", "undoing"}
    /\ edit[c].pc \in {"listing", "naming", "unnaming"} => recorded
    /\ edit[c].pc \in {"clearing", "unnaming"} => edit[c].op = "clear"
    /\ edit[c].pc \in {"listing", "naming"} => edit[c].wallet \in All
    /\ edit[c].pc \in {"listing", "naming"} /\ ~edit[c].shared => edit[c].wallet \in ToSet(secret)

EditOK(c) ==
    /\ edit[c].op = "none" => edit[c] = NoEdit
    /\ edit[c].op = "add" => AddingOK(c)
    /\ edit[c].op # "add" => ListingOK(c)

Unnaming == \E c \in Edits : edit[c].pc = "unnaming"

WalletsInv ==
    /\ WalletsTypeOK
    /\ EditsApart
    /\ \A c \in Edits : EditOK(c)
    /\ HoldsTold(secret)
    /\ ~marred /\ Named => meta \in ToSet(secret) \/ Unnaming
    /\ ~recorded => ~Named

LEMMA NoEditIs ==
    NoEdit \in WalletCalls /\ NoEdit.op = "none" /\ NoEdit.pc = "idle"
BY EmptyList DEF NoEdit, WalletCalls

LEMMA WalletsStart == ASSUME WalletsInit PROVE WalletsInv
<1>1. WalletsTypeOK /\ EditsApart
  BY NoEditIs, EmptyList DEF WalletsInit, WalletsTypeOK, EditsApart, Editing, All
<1>2. ASSUME NEW c \in Edits PROVE EditOK(c)
  BY NoEditIs DEF WalletsInit, EditOK, ListingOK
<1> QED BY <1>1, <1>2 DEF WalletsInit, WalletsInv, HoldsTold, Named

\* A call that goes on, or ends, leaves the calls apart.
LEMMA OneGoesOn ==
    ASSUME WalletsInv, NEW c \in Edits, NEW e \in WalletCalls, edit' = [edit EXCEPT ![c] = e],
           e = NoEdit \/ (e.op = edit[c].op /\ e.op # "none" /\ e.shared = edit[c].shared)
    PROVE  /\ edit' \in [Edits -> WalletCalls] /\ edit'[c] = e
           /\ \A d \in Edits \ {c} : edit'[d] = edit[d]
           /\ EditsApart'
<1>1. edit \in [Edits -> WalletCalls] /\ EditsApart
  BY DEF WalletsInv, WalletsTypeOK
<1>2. /\ edit' \in [Edits -> WalletCalls] /\ edit'[c] = e
      /\ \A d \in Edits \ {c} : edit'[d] = edit[d]
  BY <1>1
<1>3. ASSUME NEW a \in Edits, NEW b \in Edits, a # b, edit'[a] # NoEdit,
             edit'[b].op \in {"add", "clear"}
      PROVE  edit'[a].shared
  <2>1. edit[b].op \in {"add", "clear"}
    BY <1>2, <1>3, NoEditIs
  <2>2. edit[a] # NoEdit
    BY <1>2, <1>3, NoEditIs
  <2>3. edit[a].shared
    BY <1>1, <1>3, <2>1, <2>2 DEF EditsApart, InFlight, Editing
  <2> QED BY <1>2, <1>3, <2>3
<1> QED BY <1>2, <1>3 DEF EditsApart, InFlight, Editing

\* What another call did leaves a call as it was, if the other wrote only where
\* this one knows of it.
LEMMA EditStays ==
    ASSUME NEW d \in Edits, EditOK(d), edit'[d] = edit[d], UNCHANGED recorded,
           edit[d].op = "add" => \A w \in All : told'[w] = "alone" => told[w] = "alone",
           edit[d].op # "none" /\ ~edit[d].shared => UNCHANGED secret,
           edit[d].op = "add" /\ ~edit[d].shared => marred' \/ (~marred /\ UNCHANGED meta)
    PROVE  EditOK(d)'
<1>1. CASE edit[d].op = "none"
  BY <1>1, NoEditIs DEF EditOK, ListingOK
<1>2. CASE edit[d].op = "add"
  BY <1>2 DEF EditOK, AddingOK, HoldsTold, Extended, Named
<1>3. CASE edit[d].op \notin {"none", "add"}
  BY <1>3 DEF EditOK, ListingOK
<1> QED BY <1>1, <1>2, <1>3

\* A call that overlaps no edit has no edit beside it, and no clearing that has
\* yet to remove the record.
LEMMA AloneIs ==
    ASSUME WalletsInv, NEW c \in Edits, edit[c] # NoEdit, ~edit[c].shared
    PROVE  /\ \A d \in Edits \ {c} : ~Editing(d)
           /\ Unnaming => edit[c].pc = "unnaming"
<1>1. \A d \in Edits \ {c} : ~Editing(d)
  BY DEF WalletsInv, EditsApart, InFlight
<1>2. ASSUME NEW d \in Edits, edit[d].pc = "unnaming" PROVE Editing(d)
  <2>1. EditOK(d)
    BY DEF WalletsInv
  <2> QED BY <1>2, <2>1 DEF EditOK, AddingOK, Holding, ListingOK, Editing
<1> QED BY <1>1, <1>2 DEF Unnaming

\* Beside an edit every call knows that it overlaps one.
LEMMA BesideIs ==
    ASSUME WalletsInv, NEW c \in Edits, Editing(c),
           NEW d \in Edits, c # d, edit[d].op # "none"
    PROVE  edit[d].shared
BY NoEditIs DEF WalletsInv, EditsApart, InFlight

\* An edit that writes: it leaves the other calls as they were, since they know
\* of it.
LEMMA WriteStays ==
    ASSUME WalletsInv, NEW c \in Edits, Editing(c), NEW e \in WalletCalls,
           edit' = [edit EXCEPT ![c] = e],
           e = NoEdit \/ (e.op = edit[c].op /\ e.op # "none" /\ e.shared = edit[c].shared),
           edit[c].shared => \A w \in All : told'[w] = "alone" => told[w] = "alone",
           UNCHANGED <<open, recorded>>, secret' \in Lists, meta' \in All \cup {NoWallet},
           known' \subseteq All, told' \in [All -> {"no", "alone", "shared"}], marred' \in BOOLEAN,
           EditOK(c)', HoldsTold(secret)',
           ~marred' /\ Named' => meta' \in ToSet(secret') \/ e.pc = "unnaming",
           ~recorded' => ~Named'
    PROVE  WalletsInv'
<1>1. /\ edit' \in [Edits -> WalletCalls] /\ edit'[c] = e
      /\ \A d \in Edits \ {c} : edit'[d] = edit[d]
      /\ EditsApart'
  BY OneGoesOn
<1>2. WalletsTypeOK'
  BY <1>1 DEF WalletsInv, WalletsTypeOK
<1>3. ASSUME NEW d \in Edits PROVE EditOK(d)'
  <2>1. CASE d = c
    BY <2>1
  <2>2. CASE d # c
    <3>1. EditOK(d) /\ edit'[d] = edit[d]
      BY <1>1, <2>2 DEF WalletsInv
    <3>2. edit[d].op # "none" => edit[d].shared
      BY <2>2, BesideIs
    <3>3. edit[d].op = "add" => edit[c].shared
      BY <2>2, NoEditIs DEF WalletsInv, EditsApart, InFlight, Editing
    <3> QED BY <3>1, <3>2, <3>3, EditStays
  <2> QED BY <2>1, <2>2
<1>4. e.pc = "unnaming" => Unnaming'
  BY <1>1 DEF Unnaming
<1> QED BY <1>1, <1>2, <1>3, <1>4 DEF WalletsInv

\* A call that goes on, or ends, and writes nothing.
LEMMA WaitStays ==
    ASSUME WalletsInv, NEW c \in Edits, edit[c].pc # "unnaming", NEW e \in WalletCalls,
           edit' = [edit EXCEPT ![c] = e],
           e = NoEdit \/ (e.op = edit[c].op /\ e.op # "none" /\ e.shared = edit[c].shared),
           UNCHANGED <<secret, meta, known, told, open, recorded, marred>>, EditOK(c)'
    PROVE  WalletsInv'
<1>1. /\ edit' \in [Edits -> WalletCalls] /\ edit'[c] = e
      /\ \A d \in Edits \ {c} : edit'[d] = edit[d]
      /\ EditsApart'
  BY OneGoesOn
<1>2. WalletsTypeOK'
  BY <1>1 DEF WalletsInv, WalletsTypeOK
<1>3. ASSUME NEW d \in Edits PROVE EditOK(d)'
  <2>1. CASE d = c
    BY <2>1
  <2>2. CASE d # c
    <3>1. EditOK(d) /\ edit'[d] = edit[d]
      BY <1>1, <2>2 DEF WalletsInv
    <3>2. marred' \/ (~marred /\ UNCHANGED meta)
      BY DEF WalletsInv, WalletsTypeOK
    <3> QED BY <3>1, <3>2, EditStays
  <2> QED BY <2>1, <2>2
<1>4. Unnaming => Unnaming'
  BY <1>1 DEF Unnaming
<1> QED BY <1>1, <1>2, <1>3, <1>4 DEF WalletsInv, HoldsTold, Named

\* A call that ends and writes nothing.
LEMMA EndStays ==
    ASSUME WalletsInv, NEW c \in Edits, edit[c].pc # "unnaming", Ends(c),
           UNCHANGED <<secret, meta, known, told, open, recorded, marred>>
    PROVE  WalletsInv'
<1>1. edit' = [edit EXCEPT ![c] = NoEdit] /\ edit'[c] = NoEdit
  BY DEF Ends, WalletsInv, WalletsTypeOK
<1>2. EditOK(c)'
  BY <1>1, NoEditIs DEF EditOK, ListingOK
<1> QED BY <1>1, <1>2, NoEditIs, WaitStays

LEMMA BeginStep ==
    ASSUME WalletsInv, NEW c \in Edits, NEW o \in {"add", "list", "clear"},
           NEW w \in All \cup {NoWallet}, o = "add" => w \in All, BeginEdit(c, o, w)
    PROVE  WalletsInv'
<1>1. /\ edit \in [Edits -> WalletCalls] /\ edit[c] = NoEdit
      /\ UNCHANGED <<secret, meta, known, told, open, recorded, marred>>
  BY DEF BeginEdit, WalletsInv, WalletsTypeOK
<1> DEFINE s == \E b \in Edits : Editing(b)
           n == [NoEdit EXCEPT !.op = o, !.pc = "reading", !.wallet = w, !.shared = s]
           h(d) == edit[d].shared \/ (o # "list" /\ edit[d] # NoEdit)
<1>2. edit' = [d \in Edits |-> IF d = c THEN n ELSE [edit[d] EXCEPT !.shared = h(d)]]
  BY DEF BeginEdit
<1>3. /\ n \in WalletCalls /\ n.op = o /\ n.pc = "reading" /\ n.wallet = w /\ n.shared = s
  BY NoEditIs DEF WalletCalls, NoEdit
<1>4. ASSUME NEW d \in Edits \ {c}
      PROVE  /\ edit'[d] \in WalletCalls /\ edit'[d].shared = h(d)
             /\ edit'[d].op = edit[d].op /\ edit'[d].pc = edit[d].pc
             /\ edit'[d].wallet = edit[d].wallet /\ edit'[d].found = edit[d].found
             /\ edit[d] = NoEdit => edit'[d] = NoEdit
  <2>1. edit[d] \in WalletCalls /\ h(d) \in BOOLEAN
    BY <1>1 DEF WalletCalls
  <2>2. edit'[d] = [edit[d] EXCEPT !.shared = h(d)]
    BY <1>2
  <2>3. edit[d] = NoEdit => h(d) = FALSE
    BY DEF NoEdit
  <2> HIDE DEF h
  <2> QED BY <2>1, <2>2, <2>3 DEF WalletCalls, NoEdit
<1>5. edit'[c] = n
  BY <1>2
<1> HIDE DEF n, h
<1>6. edit' \in [Edits -> WalletCalls]
  BY <1>2, <1>3, <1>4, <1>5
<1>7. WalletsTypeOK'
  BY <1>1, <1>6 DEF WalletsInv, WalletsTypeOK
<1>8. EditsApart'
  <2> SUFFICES ASSUME NEW a \in Edits, NEW b \in Edits, a # b, edit'[a] # NoEdit,
                      edit'[b].op \in {"add", "clear"}
               PROVE  edit'[a].shared
    BY DEF EditsApart, InFlight, Editing
  <2>1. CASE b = c
    BY <1>3, <1>4, <1>5, <2>1 DEF h
  <2>2. CASE a = c
    BY <1>3, <1>4, <1>5, <2>2 DEF Editing
  <2>3. CASE a # c /\ b # c
    <3>1. edit[a].shared
      BY <1>4, <2>3 DEF WalletsInv, EditsApart, InFlight, Editing
    <3> QED BY <1>4, <2>3, <3>1 DEF h
  <2> QED BY <2>1, <2>2, <2>3
<1>9. ASSUME NEW d \in Edits PROVE EditOK(d)'
  <2>1. CASE d = c
    BY <1>1, <1>3, <1>5, <2>1 DEF EditOK, AddingOK, Holding, ListingOK, HoldsTold
  <2>2. CASE d # c /\ edit[d] = NoEdit
    BY <1>4, <2>2, NoEditIs DEF EditOK, ListingOK
  <2>3. CASE d # c /\ edit[d] # NoEdit
    <3>1. EditOK(d) /\ (~edit'[d].shared => ~edit[d].shared)
      BY <1>4, <2>3 DEF WalletsInv, h
    <3>2. CASE edit[d].op = "add"
      BY <1>1, <1>4, <2>3, <3>1, <3>2 DEF EditOK, AddingOK, HoldsTold, Extended, Named
    <3>3. CASE edit[d].op # "add"
      BY <1>1, <1>4, <2>3, <3>1, <3>3 DEF EditOK, ListingOK
    <3> QED BY <3>2, <3>3
  <2> QED BY <2>1, <2>2, <2>3
<1>10. Unnaming => Unnaming'
  <2> SUFFICES ASSUME NEW d \in Edits, edit[d].pc = "unnaming" PROVE edit'[d].pc = "unnaming"
    BY DEF Unnaming
  <2> QED BY <1>1, <1>4, NoEditIs
<1> QED BY <1>1, <1>7, <1>8, <1>9, <1>10 DEF WalletsInv, HoldsTold, Named

\* The record that is replaced by a call that goes on.
LEMMA GotoIs ==
    ASSUME WalletsInv, NEW c \in Edits,
           NEW pc \in {"naming", "undoing", "listing", "clearing", "unnaming"}
    PROVE  LET e == [edit[c] EXCEPT !.pc = pc] IN
           /\ e \in WalletCalls /\ e.pc = pc /\ e.op = edit[c].op /\ e.wallet = edit[c].wallet
           /\ e.found = edit[c].found /\ e.shared = edit[c].shared
           /\ Goto(c, pc) => edit' = [edit EXCEPT ![c] = e] /\ edit'[c] = e
BY DEF WalletsInv, WalletsTypeOK, WalletCalls, Goto

\* The wallet the call has added is reported.
LEMMA ReportIs ==
    ASSUME WalletsInv, NEW c \in Edits, edit[c].wallet \in All, Report(c)
    PROVE  /\ edit' = [edit EXCEPT ![c] = NoEdit] /\ edit'[c] = NoEdit
           /\ told' \in [All -> {"no", "alone", "shared"}] /\ known' \subseteq All
           /\ \A w \in All : told'[w] = "alone" =>
                told[w] = "alone" \/ (w = edit[c].wallet /\ ~edit[c].shared)
BY DEF WalletsInv, WalletsTypeOK, Report, Ends

LEMMA AddStep ==
    ASSUME WalletsInv, NEW c \in Edits, Adding(c)
    PROVE  WalletsInv'
<1>0. /\ secret \in Lists /\ meta \in All \cup {NoWallet} /\ edit \in [Edits -> WalletCalls]
      /\ known \subseteq All /\ told \in [All -> {"no", "alone", "shared"}]
      /\ open \in BOOLEAN /\ recorded \in BOOLEAN /\ marred \in BOOLEAN
      /\ edit[c] \in WalletCalls /\ edit[c].found \in Lists /\ EditOK(c) /\ HoldsTold(secret)
      /\ ~recorded => ~Named
  BY DEF WalletsInv, WalletsTypeOK, WalletCalls
<1>s. ASSUME edit[c].op = "add" PROVE edit[c].shared \in BOOLEAN /\ edit[c] # NoEdit /\ Editing(c)
  BY <1>0, <1>s, NoEditIs DEF WalletCalls, Editing
\* An addition that nothing overlaps goes by the record as it is.
<1>r. ASSUME edit[c].op = "add", ~edit[c].shared, ~marred, Named PROVE meta \in ToSet(secret)
  <2>1. edit[c].pc # "unnaming"
    BY <1>0, <1>r DEF EditOK, AddingOK, Holding
  <2> QED BY <1>r, <1>s, <2>1, AloneIs DEF WalletsInv
<1>e. ASSUME edit' = [edit EXCEPT ![c] = NoEdit] PROVE EditOK(c)'
  BY <1>0, <1>e, NoEditIs DEF EditOK, ListingOK
<1>1. ASSUME NEW w \in All, Add(c, w) PROVE WalletsInv'
  BY <1>1, BeginStep DEF Add
<1>2. CASE ReadExisting(c)
  <2>0. /\ edit[c].op = "add" /\ edit[c].pc = "reading" /\ edit[c].wallet \in All
        /\ UNCHANGED <<secret, meta, known, told, open, recorded, marred>>
    BY <1>0, <1>2 DEF ReadExisting, At, EditOK, AddingOK
  <2>1. CASE Ends(c)
    BY <2>0, <2>1, EndStays
  <2>2. ASSUME NEW pc \in {"setting", "undoing"},
               pc = "setting" => Accepted(edit[c].wallet), pc = "undoing" => recorded,
               edit' = [edit EXCEPT ![c].pc = pc, ![c].found = secret]
        PROVE  WalletsInv'
    <3> DEFINE e == [edit[c] EXCEPT !.pc = pc, !.found = secret]
    <3>1. /\ e \in WalletCalls /\ e.pc = pc /\ e.op = "add" /\ e.wallet = edit[c].wallet
          /\ e.found = secret /\ e.shared = edit[c].shared
      BY <1>0, <2>0, <2>2 DEF WalletCalls
    <3>2. edit' = [edit EXCEPT ![c] = e] /\ edit'[c] = e
      BY <1>0, <2>2
    <3> HIDE DEF e
    <3>3. ~e.shared /\ ~marred /\ Named => meta \in ToSet(secret)
      BY <1>r, <2>0, <3>1
    <3>4. EditOK(c)'
      BY <1>0, <2>0, <2>2, <3>1, <3>2, <3>3
         DEF EditOK, AddingOK, Holding, HoldsTold, Accepted, Named
    <3> QED BY <2>0, <3>1, <3>2, <3>4, WaitStays
  <2> QED BY <1>2, <2>1, <2>2 DEF ReadExisting
<1>3. CASE StoreSecret(c)
  <2>1. /\ edit[c].op = "add" /\ edit[c].pc = "setting" /\ edit[c].wallet \in All
        /\ HoldsTold(edit[c].found) /\ (~edit[c].shared => secret = edit[c].found)
        /\ Len(edit[c].found) < Limit /\ edit[c].wallet \notin ToSet(edit[c].found)
        /\ secret' = Extended(c) /\ UNCHANGED <<meta, open, recorded>>
        /\ marred' = (marred \/ edit[c].shared)
    BY <1>0, <1>3 DEF StoreSecret, Spoils, At, EditOK, AddingOK, Holding
  <2>2. /\ secret' \in Lists
        /\ ToSet(secret') = ToSet(edit[c].found) \cup {edit[c].wallet}
    BY <1>0, <2>1, LongerList DEF Extended
  <2>3. ~marred' /\ Named' => meta' \in ToSet(secret')
    BY <1>r, <2>1, <2>2 DEF Named
  <2>4. CASE Report(c)
    <3>1. HoldsTold(secret)'
      BY <2>1, <2>2, <2>4, ReportIs DEF HoldsTold
    <3> QED BY <1>0, <1>e, <1>s, <2>1, <2>2, <2>3, <2>4, <3>1, ReportIs, NoEditIs, WriteStays
            DEF Named
  <2>5. CASE ~Named /\ recorded /\ Goto(c, "naming") /\ UNCHANGED <<told, known>>
    <3> DEFINE e == [edit[c] EXCEPT !.pc = "naming"]
    <3>1. /\ e \in WalletCalls /\ e.pc = "naming" /\ e.op = "add" /\ e.wallet = edit[c].wallet
          /\ e.found = edit[c].found /\ e.shared = edit[c].shared
          /\ edit' = [edit EXCEPT ![c] = e] /\ edit'[c] = e
      BY <2>1, <2>5, GotoIs
    <3> HIDE DEF e
    <3>2. HoldsTold(secret)'
      BY <2>1, <2>2, <2>5 DEF HoldsTold
    <3>3. EditOK(c)'
      BY <2>1, <2>5, <3>1 DEF EditOK, AddingOK, Holding, HoldsTold, Extended, Named
    <3> QED BY <1>0, <1>s, <2>1, <2>2, <2>3, <2>5, <3>1, <3>2, <3>3, WriteStays DEF Named
  <2> QED BY <1>3, <2>4, <2>5 DEF StoreSecret
<1>4. CASE NameWallet(c)
  <2>1. /\ edit[c].op = "add" /\ edit[c].pc = "naming" /\ edit[c].wallet \in All /\ recorded
        /\ (~edit[c].shared => secret = Extended(c))
        /\ meta' = edit[c].wallet /\ UNCHANGED <<secret, open, recorded>> /\ Report(c)
        /\ marred' = (marred \/ edit[c].shared)
    BY <1>0, <1>4 DEF NameWallet, Spoils, At, EditOK, AddingOK, Holding
  <2>2. ~edit[c].shared => edit[c].wallet \in ToSet(secret)
    BY <1>0, <2>1, LongerList DEF Extended
  <2>3. HoldsTold(secret)'
    BY <1>0, <2>1, <2>2, ReportIs DEF HoldsTold
  <2> QED BY <1>0, <1>e, <1>s, <2>1, <2>2, <2>3, ReportIs, NoEditIs, WriteStays
<1>5. CASE AddFails(c)
  <2>1. /\ edit[c].op = "add" /\ edit[c].pc \in {"reading", "setting", "naming"}
        /\ UNCHANGED <<secret, meta, known, told, open, recorded, marred>>
    BY <1>5 DEF AddFails
  <2>2. CASE Ends(c)
    BY <2>1, <2>2, EndStays
  <2>3. CASE recorded /\ edit[c].pc # "reading" /\ Goto(c, "undoing")
    <3> DEFINE e == [edit[c] EXCEPT !.pc = "undoing"]
    <3>1. /\ e \in WalletCalls /\ e.pc = "undoing" /\ e.op = "add" /\ e.wallet = edit[c].wallet
          /\ e.found = edit[c].found /\ e.shared = edit[c].shared
          /\ edit' = [edit EXCEPT ![c] = e] /\ edit'[c] = e
      BY <2>1, <2>3, GotoIs
    <3> HIDE DEF e
    <3>2. ~e.shared /\ ~marred /\ Named => meta \in ToSet(e.found)
      BY <1>0, <1>r, <2>1, <2>3, <3>1 DEF EditOK, AddingOK, Named
    <3>3. EditOK(c)'
      BY <1>0, <2>1, <2>3, <3>1, <3>2 DEF EditOK, AddingOK, Holding, HoldsTold, Named
    <3> QED BY <2>1, <3>1, <3>3, WaitStays
  <2> QED BY <1>5, <2>2, <2>3 DEF AddFails
<1>6. CASE Undo(c)
  <2>1. /\ edit[c].op = "add" /\ edit[c].pc = "undoing" /\ HoldsTold(edit[c].found)
        /\ ~edit[c].shared /\ ~marred /\ Named => meta \in ToSet(edit[c].found)
        /\ secret' \in {edit[c].found, secret} /\ edit' = [edit EXCEPT ![c] = NoEdit]
        /\ UNCHANGED <<meta, known, told, open, recorded>>
        /\ marred' = (marred \/ edit[c].shared)
    BY <1>0, <1>6 DEF Undo, Undone, Ends, Spoils, At, EditOK, AddingOK, Holding
  <2>2. HoldsTold(secret)'
    BY <1>0, <2>1 DEF HoldsTold
  <2>3. ~marred' /\ Named' => meta' \in ToSet(secret')
    BY <1>r, <2>1 DEF Named
  <2> QED BY <1>0, <1>e, <1>s, <2>1, <2>2, <2>3, NoEditIs, WriteStays DEF Named
<1> QED BY <1>1, <1>2, <1>3, <1>4, <1>5, <1>6 DEF Adding

\* A list goes on to a clearing, or is at its end.
LEMMA ListedStays ==
    ASSUME WalletsInv, NEW c \in Edits, edit[c].op # "add", edit[c].pc # "unnaming", Listed(c),
           UNCHANGED <<secret, meta, known, told, open, recorded, marred>>
    PROVE  WalletsInv'
<1>1. CASE Ends(c)
  BY <1>1, EndStays
<1>2. CASE edit[c].op = "clear" /\ Goto(c, "clearing")
  <2> DEFINE e == [edit[c] EXCEPT !.pc = "clearing"]
  <2>1. /\ e \in WalletCalls /\ e.pc = "clearing" /\ e.op = "clear" /\ e.shared = edit[c].shared
        /\ edit' = [edit EXCEPT ![c] = e] /\ edit'[c] = e
    BY <1>2, GotoIs
  <2> HIDE DEF e
  <2>2. EditOK(c)'
    BY <2>1 DEF EditOK, ListingOK
  <2> QED BY <1>2, <2>1, <2>2, WaitStays
<1> QED BY <1>1, <1>2 DEF Listed

\* The first wallet becomes the one the record names; an edit beside this call
\* is known to it.
LEMMA PrimaryStep ==
    ASSUME WalletsInv, NEW c \in Edits, NamePrimary(c)
    PROVE  WalletsInv'
<1>0. /\ secret \in Lists /\ meta \in All \cup {NoWallet} /\ edit \in [Edits -> WalletCalls]
      /\ edit[c] \in WalletCalls /\ EditOK(c) /\ HoldsTold(secret)
      /\ edit[c].shared \in BOOLEAN /\ marred \in BOOLEAN
  BY DEF WalletsInv, WalletsTypeOK, WalletCalls
<1>1. /\ edit[c].op # "add" /\ edit[c].pc = "naming" /\ recorded /\ edit[c].wallet \in All
      /\ meta' = edit[c].wallet /\ UNCHANGED <<secret, known, told, open, recorded>>
      /\ ~edit[c].shared => edit[c].wallet \in ToSet(secret)
      /\ marred' = (marred \/ edit[c].shared)
  BY <1>0 DEF NamePrimary, Spoils, EditOK, ListingOK
<1>2. edit[c] # NoEdit /\ edit[c].op # "none"
  BY <1>0, <1>1, NoEditIs DEF EditOK
<1> DEFINE g == [edit[c] EXCEPT !.pc = "clearing"]
<1>3. PICK e \in {g, NoEdit} : /\ edit' = [edit EXCEPT ![c] = e]
                               /\ e = g => edit[c].op = "clear"
  <2>1. CASE edit[c].op = "clear" /\ Goto(c, "clearing")
    BY <2>1, GotoIs
  <2>2. CASE edit' = [edit EXCEPT ![c] = NoEdit]
    <3>1. NoEdit = g => edit[c].op = "clear"
      BY <1>2, NoEditIs, GotoIs
    <3> QED BY <2>2, <3>1
  <2> QED BY <2>1, <2>2 DEF NamePrimary, Listed, Ends
<1>4. /\ g \in WalletCalls /\ g.pc = "clearing" /\ g.op = edit[c].op
      /\ g.shared = edit[c].shared
  BY GotoIs
<1>5. e \in WalletCalls /\ (e = NoEdit \/ (e.op = "clear" /\ e.pc = "clearing"
      /\ edit[c].op = "clear" /\ e.shared = edit[c].shared))
  BY <1>3, <1>4, NoEditIs
<1> HIDE DEF g
<1>6. /\ edit' \in [Edits -> WalletCalls] /\ edit'[c] = e
      /\ \A d \in Edits \ {c} : edit'[d] = edit[d]
      /\ EditsApart'
  BY <1>3, <1>5, OneGoesOn
<1>7. WalletsTypeOK'
  BY <1>0, <1>1, <1>6 DEF WalletsInv, WalletsTypeOK
<1>8. ASSUME NEW d \in Edits PROVE EditOK(d)'
  <2>1. CASE d = c
    BY <1>5, <1>6, <2>1, NoEditIs DEF EditOK, ListingOK
  <2>2. CASE d # c
    <3>1. EditOK(d) /\ edit'[d] = edit[d]
      BY <1>6, <2>2 DEF WalletsInv
    <3>2. edit[d].op = "add" => marred'
      BY <1>1, <1>2, <2>2 DEF WalletsInv, EditsApart, InFlight, Editing
    <3> QED BY <1>1, <3>1, <3>2, EditStays
  <2> QED BY <2>1, <2>2
<1> QED BY <1>0, <1>1, <1>6, <1>7, <1>8 DEF WalletsInv, HoldsTold

LEMMA ClearStep ==
    ASSUME WalletsInv, NEW c \in Edits, Clearing(c)
    PROVE  WalletsInv'
<1>0. /\ secret \in Lists /\ meta \in All \cup {NoWallet} /\ edit \in [Edits -> WalletCalls]
      /\ known \subseteq All /\ told \in [All -> {"no", "alone", "shared"}]
      /\ recorded \in BOOLEAN /\ marred \in BOOLEAN
      /\ edit[c] \in WalletCalls /\ edit[c].op \in {"none", "add", "list", "clear"}
      /\ edit[c].shared \in BOOLEAN /\ EditOK(c) /\ HoldsTold(secret)
      /\ ~recorded => ~Named
  BY DEF WalletsInv, WalletsTypeOK, WalletCalls
<1>n. edit[c].pc # "idle" => edit[c].op # "none"
  BY <1>0, NoEditIs DEF EditOK
<1>1. CASE List(c) \/ Clear(c)
  BY <1>1, BeginStep DEF List, Clear
<1>2. CASE ReadPrimary(c)
  <2>1. /\ edit[c].op \notin {"none", "add"} /\ edit[c].pc = "reading"
        /\ UNCHANGED <<secret, meta, known, told, open, recorded, marred>>
    BY <1>n, <1>2 DEF ReadPrimary
  <2>2. CASE Listed(c)
    BY <2>1, <2>2, ListedStays
  <2>3. CASE /\ recorded /\ secret # <<>>
             /\ edit' = [edit EXCEPT ![c].pc = "listing", ![c].wallet = secret[1]]
    <3> DEFINE e == [edit[c] EXCEPT !.pc = "listing", !.wallet = secret[1]]
    <3>1. secret[1] \in All /\ secret[1] \in ToSet(secret)
      BY <1>0, <2>3, ListHolds
    <3>2. /\ e \in WalletCalls /\ e.pc = "listing" /\ e.op = edit[c].op
          /\ e.wallet = secret[1] /\ e.shared = edit[c].shared
      BY <1>0, <3>1 DEF WalletCalls
    <3>3. edit' = [edit EXCEPT ![c] = e] /\ edit'[c] = e
      BY <1>0, <2>3
    <3> HIDE DEF e
    <3>4. EditOK(c)'
      BY <2>1, <2>3, <3>1, <3>2, <3>3 DEF EditOK, ListingOK
    <3> QED BY <2>1, <3>2, <3>3, <3>4, WaitStays
  <2> QED BY <1>2, <2>2, <2>3 DEF ReadPrimary
<1>3. CASE FindRecord(c)
  <2>1. /\ edit[c].pc = "listing" /\ edit[c].op \notin {"none", "add"} /\ ListingOK(c)
        /\ UNCHANGED <<secret, meta, known, told, open, recorded, marred>>
    BY <1>0, <1>n, <1>3 DEF FindRecord, EditOK, AddingOK, Holding
  <2>2. CASE Listed(c)
    BY <2>1, <2>2, ListedStays
  <2>3. CASE Goto(c, "naming")
    <3> DEFINE e == [edit[c] EXCEPT !.pc = "naming"]
    <3>1. /\ e \in WalletCalls /\ e.pc = "naming" /\ e.op = edit[c].op /\ e.wallet = edit[c].wallet
          /\ e.shared = edit[c].shared /\ edit' = [edit EXCEPT ![c] = e] /\ edit'[c] = e
      BY <2>3, GotoIs
    <3> HIDE DEF e
    <3>2. EditOK(c)'
      BY <2>1, <3>1 DEF EditOK, ListingOK
    <3> QED BY <2>1, <3>1, <3>2, WaitStays
  <2> QED BY <1>3, <2>2, <2>3 DEF FindRecord
<1>4. CASE NamePrimary(c)
  BY <1>4, PrimaryStep
<1>5. CASE ListFails(c)
  <2>1. /\ edit[c].pc # "unnaming" /\ Ends(c)
        /\ UNCHANGED <<secret, meta, known, told, open, recorded, marred>>
    BY <1>5 DEF ListFails
  <2> QED BY <2>1, EndStays
<1>e. ASSUME edit' = [edit EXCEPT ![c] = NoEdit] PROVE EditOK(c)'
  BY <1>0, <1>e, NoEditIs DEF EditOK, ListingOK
\* The two writes of a clearing.
<1>c. ASSUME edit[c].pc \in {"clearing", "unnaming"}
      PROVE  edit[c].op = "clear" /\ Editing(c) /\ ListingOK(c)
  BY <1>0, <1>c DEF EditOK, AddingOK, Holding, ListingOK, Editing
<1>6. CASE ClearSecret(c)
  <2>1. /\ edit[c].pc = "clearing" /\ secret' = <<>> /\ told' = [w \in All |-> "no"]
        /\ UNCHANGED <<meta, known, open, recorded>>
        /\ marred' = (marred \/ edit[c].shared)
    BY <1>6 DEF ClearSecret, Spoils
  <2>2. secret' \in Lists /\ HoldsTold(secret)'
        /\ told' \in [All -> {"no", "alone", "shared"}] /\ \A w \in All : told'[w] # "alone"
    BY <2>1, EmptyList DEF HoldsTold
  <2>3. CASE ~recorded /\ Ends(c)
    <3>1. edit' = [edit EXCEPT ![c] = NoEdit] /\ ~Named'
      BY <1>0, <2>1, <2>3 DEF Ends, Named
    <3> QED BY <1>0, <1>c, <1>e, <2>1, <2>2, <3>1, NoEditIs, WriteStays
  <2>4. CASE recorded /\ Goto(c, "unnaming")
    <3> DEFINE e == [edit[c] EXCEPT !.pc = "unnaming"]
    <3>1. /\ e \in WalletCalls /\ e.pc = "unnaming" /\ e.op = "clear"
          /\ e.shared = edit[c].shared /\ edit' = [edit EXCEPT ![c] = e] /\ edit'[c] = e
      BY <1>c, <2>1, <2>4, GotoIs
    <3> HIDE DEF e
    <3>2. EditOK(c)'
      BY <2>1, <2>4, <3>1 DEF EditOK, ListingOK
    <3> QED BY <1>0, <1>c, <2>1, <2>2, <2>4, <3>1, <3>2, WriteStays
  <2> QED BY <1>6, <2>3, <2>4 DEF ClearSecret
<1>7. CASE ClearMeta(c)
  <2>1. /\ edit[c].pc = "unnaming" /\ meta' = NoWallet /\ edit' = [edit EXCEPT ![c] = NoEdit]
        /\ marred' = edit[c].shared /\ UNCHANGED <<secret, known, told, open, recorded>>
    BY <1>7 DEF ClearMeta, Ends
  <2>2. ~Named' /\ HoldsTold(secret)'
    BY <1>0, <2>1 DEF Named, HoldsTold
  <2> QED BY <1>0, <1>c, <1>e, <2>1, <2>2, NoEditIs, WriteStays
<1>8. CASE ClearMetaFails(c)
  <2>1. /\ edit[c].pc = "unnaming" /\ edit' = [edit EXCEPT ![c] = NoEdit]
        /\ marred' = TRUE /\ UNCHANGED <<secret, meta, known, told, open, recorded>>
    BY <1>8 DEF ClearMetaFails, Ends
  <2>2. HoldsTold(secret)' /\ (~recorded' => ~Named')
    BY <1>0, <2>1 DEF Named, HoldsTold
  <2> QED BY <1>0, <1>c, <1>e, <2>1, <2>2, NoEditIs, WriteStays
<1> QED BY <1>1, <1>2, <1>3, <1>4, <1>5, <1>6, <1>7, <1>8 DEF Clearing

LEMMA WalletsStep == WalletsInv /\ [WalletsNext]_walletVars => WalletsInv'
<1> SUFFICES ASSUME WalletsInv, [WalletsNext]_walletVars PROVE WalletsInv'
  OBVIOUS
<1>1. ASSUME NEW c \in Edits, Adding(c) PROVE WalletsInv'
  BY <1>1, AddStep
<1>2. ASSUME NEW c \in Edits, Clearing(c) PROVE WalletsInv'
  BY <1>2, ClearStep
\* With the calls as they are, or all of them ended.
<1>a. ASSUME edit' \in [Edits -> WalletCalls], EditsApart', \A c \in Edits : EditOK(c)',
             UNCHANGED <<secret, meta, known, told, recorded>>,
             open' \in BOOLEAN, marred' \in BOOLEAN,
             ~marred' => ~marred /\ (Unnaming => Unnaming')
      PROVE  WalletsInv'
  BY <1>a DEF WalletsInv, WalletsTypeOK, HoldsTold, Named
<1>b. ASSUME UNCHANGED <<secret, meta, edit, known, told, recorded, marred>>, open' \in BOOLEAN
      PROVE  WalletsInv'
  <2>1. EditsApart' /\ Unnaming' = Unnaming
    BY <1>b DEF WalletsInv, EditsApart, InFlight, Editing, Unnaming
  <2>2. \A c \in Edits : EditOK(c)'
    BY <1>b DEF WalletsInv, EditOK, AddingOK, ListingOK, HoldsTold, Extended, Named
  <2> QED BY <1>a, <1>b, <2>1, <2>2 DEF WalletsInv, WalletsTypeOK
<1>3. CASE LockWallets \/ UnlockWallets
  BY <1>3, <1>b DEF LockWallets, UnlockWallets
<1>4. CASE Crash
  <2>1. /\ edit' \in [Edits -> WalletCalls] /\ \A c \in Edits : edit'[c] = NoEdit
        /\ marred' = (marred \/ \E c \in Edits : Editing(c)) /\ open' = FALSE
        /\ UNCHANGED <<secret, meta, known, told, recorded>>
    BY <1>4, NoEditIs DEF Crash
  <2>2. EditsApart' /\ \A c \in Edits : EditOK(c)'
    BY <2>1, NoEditIs DEF EditsApart, InFlight, EditOK, ListingOK
  <2>3. Unnaming => \E c \in Edits : Editing(c)
    <3> SUFFICES ASSUME NEW c \in Edits, edit[c].pc = "unnaming" PROVE Editing(c)
      BY DEF Unnaming
    <3>1. EditOK(c)
      BY DEF WalletsInv
    <3> QED BY <3>1 DEF EditOK, AddingOK, Holding, ListingOK, Editing
  <2>4. marred' \in BOOLEAN
    BY <2>1 DEF WalletsInv, WalletsTypeOK
  <2> QED BY <1>a, <2>1, <2>2, <2>3, <2>4
<1>5. CASE UNCHANGED walletVars
  BY <1>5, <1>b DEF walletVars, WalletsInv, WalletsTypeOK
<1> QED BY <1>1, <1>2, <1>3, <1>4, <1>5 DEF WalletsNext

LEMMA WalletsInvariant == WalletsSpec => []WalletsInv
BY WalletsStart, WalletsStep, PTL DEF WalletsSpec

\* The lists of the vault stay lists of different wallets, within the limit,
\* whichever calls overlap.
THEOREM WalletsTypeCorrect == WalletsSpec => []WalletsTypeOK
<1>1. WalletsInv => WalletsTypeOK
  BY DEF WalletsInv
<1> QED BY <1>1, WalletsInvariant, PTL

\* However many calls overlap: a wallet the user was told of, by an addition
\* that no other edit overlapped, stays in the vault until the wallets are
\* cleared, whichever write of a later call fails or follows from an old list.
\* And with no edit in flight no record names a wallet that is gone, unless an
\* edit that another call overlapped wrote, or one ended half-way, since the
\* wallets were last cleared.
THEOREM WalletsCorrect == WalletsSpec => []WalletsAgree
<1>1. ASSUME WalletsInv PROVE WalletsAgree
  <2>1. ToldAreStored
    BY <1>1 DEF WalletsInv, HoldsTold, ToldAreStored
  <2>2. ASSUME NEW c \in Edits, edit[c].pc = "unnaming" PROVE Editing(c)
    <3>1. EditOK(c)
      BY <1>1 DEF WalletsInv
    <3> QED BY <2>2, <3>1 DEF EditOK, AddingOK, Holding, ListingOK, Editing
  <2>3. RecordNamesOurs
    BY <1>1, <2>2 DEF WalletsInv, Unnaming, RecordNamesOurs
  <2> QED BY <2>1, <2>3 DEF WalletsAgree
<1> QED BY <1>1, WalletsInvariant, PTL

-----------------------------------------------------------------------------
(* The four of them as they are explored together *)

LEMMA DesktopHasParts == DesktopSpec => AuthSpec /\ VaultSpec /\ WalletsSpec /\ LaunchSpec
<1>1. DesktopInit => AuthInit /\ VaultInit /\ WalletsInit /\ LaunchInit
  BY DEF DesktopInit
<1>2. [DesktopNext]_<<authVars, vaultVars, walletVars, launchVars>> =>
        /\ [AuthNext]_authVars /\ [VaultNext]_vaultVars
        /\ [WalletsNext]_walletVars /\ [LaunchNext]_launchVars
  BY DEF DesktopNext, AuthorityOnly, VaultOnly, WalletsOnly, LaunchOnly
<1> QED BY <1>1, <1>2, PTL DEF DesktopSpec, AuthSpec, VaultSpec, WalletsSpec, LaunchSpec

(* The state of the desktop's stores stays in its types.                    *)
THEOREM DesktopTypeCorrect == DesktopSpec => []DesktopTypeOK
<1>1. AuthTypeOK /\ VaultTypeOK /\ WalletsTypeOK /\ LaunchTypeOK => DesktopTypeOK
  BY DEF DesktopTypeOK
<1> QED BY <1>1, DesktopHasParts, AuthTypeCorrect, VaultTypeCorrect, WalletsTypeCorrect,
           LaunchTypeCorrect, PTL
=============================================================================
