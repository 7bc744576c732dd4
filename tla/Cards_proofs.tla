---------------------------- MODULE Cards_proofs ----------------------------
(* Theorems about the two cards of the desktop's window, for every set of   *)
(* simulations, swaps, preflights and calls in flight. Limit orders: the    *)
(* types, that a transaction is sent once, and that no receipt contradicts  *)
(* the chain, whichever old copy is written back. EVM swaps: the types, the *)
(* receipts, the promise of an approval, and that a proposal is swapped     *)
(* once, by the card as by a Full Access run.                               *)
EXTENDS MCCards, FiniteSetTheorems, TLAPS

-----------------------------------------------------------------------------
(* Types *)

Entries == [sim : MaybeSims, receipt : OrderReceipts]
Outcomes == {"done", "failed", "unknown"}

LEMMA NewMessageType == NoReceipt \in OrderReceipts /\ NewMessage \in LimitMessages
BY DEF NoReceipt, OrderReceipts, NewMessage, LimitMessages, MaybeSims

LEMMA NoWorkType == NoWork \in LimitWork
BY NewMessageType DEF NoWork, LimitWork, Stages, Legs, MaybeSims

LEMMA WithSimType ==
    ASSUME NEW m \in LimitMessages, NEW l \in Legs, NEW s \in MaybeSims
    PROVE  WithSim(m, l, s) \in LimitMessages
BY DEF WithSim, LimitMessages

LEMMA WithReceiptType ==
    ASSUME NEW m \in LimitMessages, NEW l \in Legs, NEW r \in OrderReceipts
    PROVE  WithReceipt(m, l, r) \in LimitMessages
BY DEF WithReceipt, LimitMessages

LEMMA EntryType ==
    ASSUME NEW m \in LimitMessages, NEW l \in Legs
    PROVE  m[l].sim \in MaybeSims /\ m[l].receipt \in OrderReceipts
BY DEF LimitMessages

LEMMA StatusIs ==
    ASSUME NEW r \in OrderReceipts, NEW status \in Outcomes
    PROVE  /\ [r EXCEPT !.status = status] \in OrderReceipts
           /\ [r EXCEPT !.status = status].status = status
           /\ [r EXCEPT !.status = status].tx = r.tx
BY DEF OrderReceipts, Outcomes

MessagesTyped == record \in LimitMessages /\ card \in LimitMessages
WorkTyped == work \in [Workers -> LimitWork]
OutsideTyped ==
    /\ prepared \subseteq Sims
    /\ sent \in [Sims -> 0..2]
    /\ fate \in [Sims -> {"none", "pending", "landed", "failed"}]
    /\ vaultOpen \in BOOLEAN

LEMMA TypeParts == LimitTypeOK <=> MessagesTyped /\ WorkTyped /\ OutsideTyped
BY DEF LimitTypeOK, MessagesTyped, WorkTyped, OutsideTyped

LEMMA WorkFields ==
    ASSUME WorkTyped, NEW t \in Workers
    PROVE  /\ work[t].leg \in Legs /\ work[t].sim \in MaybeSims
           /\ work[t].view \in LimitMessages /\ work[t].copy \in LimitMessages
           /\ work[t].receipt \in OrderReceipts /\ work[t].todo \in SUBSET Legs
BY DEF WorkTyped, LimitWork

LEMMA EndType ==
    ASSUME WorkTyped, NEW t \in Workers, EndWork(t)
    PROVE  WorkTyped'
BY NoWorkType DEF WorkTyped, EndWork

LEMMA ReplaceType ==
    ASSUME MessagesTyped, NEW m \in LimitMessages, Replace(m)
    PROVE  record' \in LimitMessages
BY DEF Replace, MessagesTyped

LEMMA ReplaceBothType ==
    ASSUME MessagesTyped, NEW m \in LimitMessages, ReplaceBoth(m)
    PROVE  MessagesTyped'
BY DEF ReplaceBoth, MessagesTyped, messages

LEMMA LimitInitType == LimitInit => LimitTypeOK
BY NewMessageType, NoWorkType DEF LimitInit, LimitTypeOK

LEMMA LimitStepType == LimitTypeOK /\ [LimitNext]_limitVars => LimitTypeOK'
<1> SUFFICES ASSUME LimitTypeOK, [LimitNext]_limitVars PROVE LimitTypeOK'
  OBVIOUS
<1>0. MessagesTyped /\ WorkTyped /\ OutsideTyped
  BY TypeParts
<1>a. ASSUME MessagesTyped', WorkTyped', OutsideTyped' PROVE LimitTypeOK'
  BY <1>a DEF LimitTypeOK, MessagesTyped, WorkTyped, OutsideTyped
<1>b. ASSUME UNCHANGED messages PROVE MessagesTyped'
  BY <1>0, <1>b DEF messages, MessagesTyped
<1>c. ASSUME UNCHANGED <<prepared, outside, vaultOpen>> PROVE OutsideTyped'
  BY <1>0, <1>c DEF outside, OutsideTyped
<1>d. ASSUME UNCHANGED work PROVE WorkTyped'
  BY <1>0, <1>d DEF WorkTyped
<1>1. ASSUME NEW t \in Workers, NEW l \in Legs, Simulate(t, l) PROVE LimitTypeOK'
  <2>1. WorkTyped'
    <3>1. StartWork(t, [NoWork EXCEPT !.pc = "simulating", !.leg = l, !.view = card])
      BY <1>1 DEF Simulate
    <3>2. [NoWork EXCEPT !.pc = "simulating", !.leg = l, !.view = card] \in LimitWork
      BY <1>0, NoWorkType DEF MessagesTyped, LimitWork, Stages
    <3> QED BY <1>0, <3>1, <3>2 DEF StartWork, WorkTyped
  <2> QED BY <1>1, <1>a, <1>b, <1>c, <2>1 DEF Simulate
<1>2. ASSUME NEW t \in Workers, NEW l \in Legs, Authorize(t, l) PROVE LimitTypeOK'
  <2>1. WorkTyped'
    <3>1. StartWork(t, [NoWork EXCEPT !.pc = "authorizing", !.leg = l,
                                      !.sim = card[l].sim, !.view = card])
      BY <1>2 DEF Authorize
    <3>2. [NoWork EXCEPT !.pc = "authorizing", !.leg = l, !.sim = card[l].sim,
                         !.view = card] \in LimitWork
      BY <1>0, NoWorkType, EntryType DEF MessagesTyped, LimitWork, Stages
    <3> QED BY <1>0, <3>1, <3>2 DEF StartWork, WorkTyped
  <2> QED BY <1>2, <1>a, <1>b, <1>c, <2>1 DEF Authorize
<1>3. ASSUME NEW t \in Workers, NEW l \in Legs, Verify(t, l) PROVE LimitTypeOK'
  <2>1. WorkTyped'
    <3>1. StartWork(t, [NoWork EXCEPT !.pc = "verifying", !.leg = l, !.copy = record])
      BY <1>3 DEF Verify
    <3>2. [NoWork EXCEPT !.pc = "verifying", !.leg = l, !.copy = record] \in LimitWork
      BY <1>0, NoWorkType DEF MessagesTyped, LimitWork, Stages
    <3> QED BY <1>0, <3>1, <3>2 DEF StartWork, WorkTyped
  <2> QED BY <1>3, <1>a, <1>b, <1>c, <2>1 DEF Verify
<1>4. ASSUME NEW t \in Workers, ListSessions(t) PROVE LimitTypeOK'
  <2> DEFINE pending == {l \in Legs : Unsettled(record, l)}
  <2> DEFINE listing == [NoWork EXCEPT !.pc = "reconciling", !.copy = record, !.todo = pending]
  <2>1. listing \in LimitWork
    BY <1>0, NoWorkType DEF MessagesTyped, LimitWork, Stages
  <2>2. StartWork(t, listing) \/ UNCHANGED work
    BY <1>4 DEF ListSessions
  <2> HIDE DEF listing
  <2>3. WorkTyped'
    BY <1>0, <2>1, <2>2 DEF StartWork, WorkTyped
  <2>4. MessagesTyped'
    BY <1>0, <1>4 DEF ListSessions, MessagesTyped
  <2> QED BY <1>4, <1>a, <1>c, <2>3, <2>4 DEF ListSessions
<1>5. ASSUME NEW t \in Workers,
             (\E s \in Sims : SimulationPasses(t, s)) \/ SimulationBlocked(t)
      PROVE  LimitTypeOK'
  <2>1. WorkTyped'
    BY <1>0, <1>5, EndType DEF SimulationPasses, SimulationBlocked
  <2>2. OutsideTyped'
    BY <1>0, <1>5 DEF SimulationPasses, SimulationBlocked, OutsideTyped, outside
  <2>3. PICK s \in MaybeSims : ReplaceBoth(WithSim(work[t].view, work[t].leg, s))
    BY <1>5 DEF SimulationPasses, SimulationBlocked, MaybeSims
  <2>4. WithSim(work[t].view, work[t].leg, s) \in LimitMessages
    BY <1>0, WorkFields, WithSimType
  <2> QED BY <1>0, <1>a, <2>1, <2>2, <2>3, <2>4, ReplaceBothType
<1>6. ASSUME NEW t \in Workers, Take(t) \/ Refuse(t) PROVE LimitTypeOK'
  <2>1. WorkTyped'
    <3>1. CASE Refuse(t)
      BY <1>0, <3>1, EndType DEF Refuse
    <3>2. CASE Take(t)
      BY <1>0, <3>2, ZenonT(60) DEF Take, WorkTyped, MessagesTyped, LimitWork, Stages
    <3> QED BY <1>6, <3>1, <3>2
  <2>2. OutsideTyped'
    BY <1>0, <1>6 DEF Take, Refuse, LeftPrepared, OutsideTyped, outside
  <2> QED BY <1>6, <1>a, <1>b, <2>1, <2>2 DEF Take, Refuse
<1>7. ASSUME NEW t \in Workers, NEW arrives \in BOOLEAN, NEW answered \in BOOLEAN,
             SendOrder(t, arrives, answered)
      PROVE  LimitTypeOK'
  <2>1. work[t].sim \in MaybeSims
    BY <1>0, WorkFields
  <2>2. SentReceipt(work[t].sim, answered) \in OrderReceipts
    BY <2>1 DEF SentReceipt, OrderReceipts, MaybeSims
  <2>3. WorkTyped'
    <3>1. PICK r \in OrderReceipts : work' = [work EXCEPT ![t].pc = "ordered", ![t].receipt = r]
      BY <1>7, <2>2 DEF SendOrder
    <3> QED BY <1>0, <3>1, ZenonT(60) DEF WorkTyped, LimitWork, Stages
  <2>4. sent' \in [Sims -> 0..2] /\ fate' \in [Sims -> {"none", "pending", "landed", "failed"}]
    <3>1. sent[work[t].sim] < 2
      BY <1>7 DEF SendOrder
    <3>2. \/ UNCHANGED outside
          \/ /\ sent' = [sent EXCEPT ![work[t].sim] = @ + 1]
             /\ fate' = [fate EXCEPT ![work[t].sim] = IF @ = "none" THEN "pending" ELSE @]
      BY <1>7 DEF SendOrder
    <3>3. ASSUME sent' = [sent EXCEPT ![work[t].sim] = @ + 1] PROVE sent' \in [Sims -> 0..2]
      <4>1. work[t].sim \in Sims => sent[work[t].sim] + 1 \in 0..2
        BY <1>0, <3>1 DEF OutsideTyped
      <4> QED BY <1>0, <3>3, <4>1 DEF OutsideTyped
    <3>4. ASSUME fate' = [fate EXCEPT ![work[t].sim] = IF @ = "none" THEN "pending" ELSE @]
          PROVE  fate' \in [Sims -> {"none", "pending", "landed", "failed"}]
      BY <1>0, <3>4 DEF OutsideTyped
    <3> QED BY <1>0, <3>2, <3>3, <3>4 DEF OutsideTyped, outside
  <2> QED BY <1>0, <1>7, <1>a, <1>b, <2>3, <2>4 DEF SendOrder, OutsideTyped
<1>8. ASSUME NEW t \in Workers, NEW confirmed \in BOOLEAN, StoreReceipt(t, confirmed)
      PROVE  LimitTypeOK'
  <2>1. PICK new \in OrderReceipts :
          /\ Replace(WithReceipt(work[t].copy, work[t].leg, new))
          /\ \/ work' = [work EXCEPT ![t].pc = "showing", ![t].receipt = new]
             \/ EndWork(t)
    <3>1. work[t].receipt \in OrderReceipts /\ "done" \in Outcomes
      BY <1>0, WorkFields DEF Outcomes
    <3>2. [work[t].receipt EXCEPT !.status = "done"] \in OrderReceipts
      BY <3>1, StatusIs
    <3> QED BY <1>8, <3>1, <3>2 DEF StoreReceipt
  <2>2. WithReceipt(work[t].copy, work[t].leg, new) \in LimitMessages
    BY <1>0, WorkFields, WithReceiptType
  <2>3. MessagesTyped'
    BY <1>0, <1>8, <2>1, <2>2, ReplaceType DEF StoreReceipt, MessagesTyped
  <2>4. WorkTyped'
    <3>1. ASSUME work' = [work EXCEPT ![t].pc = "showing", ![t].receipt = new]
          PROVE  WorkTyped'
      BY <1>0, <3>1, ZenonT(60) DEF WorkTyped, LimitWork, Stages
    <3> QED BY <1>0, <2>1, <3>1, EndType
  <2> QED BY <1>8, <1>a, <1>c, <2>3, <2>4 DEF StoreReceipt
<1>9. ASSUME NEW t \in Workers, ShowReceipt(t) PROVE LimitTypeOK'
  <2>1. WithReceipt(work[t].view, work[t].leg, work[t].receipt) \in LimitMessages
    BY <1>0, WorkFields, WithReceiptType
  <2> QED BY <1>0, <1>9, <1>a, <1>c, <2>1, EndType, ReplaceBothType DEF ShowReceipt
<1>10. ASSUME NEW t \in Workers, NEW verdict \in Outcomes, Verified(t, verdict)
       PROVE  LimitTypeOK'
  <2>1. PICK new \in OrderReceipts, l \in Legs :
          /\ Replace(WithReceipt(work[t].copy, l, new))
          /\ card' = IF vaultOpen THEN WithReceipt(card, l, new) ELSE card
    <3>1. [work[t].copy[work[t].leg].receipt EXCEPT !.status = verdict] \in OrderReceipts
      BY <1>0, WorkFields, EntryType, StatusIs
    <3> QED BY <1>0, <1>10, <3>1, WorkFields DEF Verified
  <2>2. WithReceipt(work[t].copy, l, new) \in LimitMessages
        /\ WithReceipt(card, l, new) \in LimitMessages
    BY <1>0, WorkFields, WithReceiptType DEF MessagesTyped
  <2>3. MessagesTyped'
    BY <1>0, <2>1, <2>2, ReplaceType DEF MessagesTyped
  <2> QED BY <1>0, <1>10, <1>a, <1>c, <2>3, EndType DEF Verified
<1>11. ASSUME NEW t \in Workers, NEW l \in Legs, NEW verdict \in Outcomes,
              Reconcile(t, l, verdict)
       PROVE  LimitTypeOK'
  <2>1. work' = [work EXCEPT ![t].todo = @ \ {l}, ![t].copy[l].receipt.status = verdict]
    BY <1>11 DEF Reconcile
  <2> DEFINE settled == [work[t].copy EXCEPT ![l].receipt.status = verdict]
  <2>3. settled \in LimitMessages
    <3>1. work[t].copy \in LimitMessages
      BY <1>0, WorkFields
    <3> QED BY <3>1 DEF LimitMessages, OrderReceipts, Outcomes
  <2>4. work' = [work EXCEPT ![t].todo = @ \ {l}, ![t].copy = settled]
    BY <2>1
  <2> HIDE DEF settled
  <2>2. WorkTyped'
    BY <1>0, <2>3, <2>4 DEF WorkTyped, LimitWork
  <2> QED BY <1>11, <1>a, <1>b, <1>c, <2>2 DEF Reconcile
<1>12. ASSUME NEW t \in Workers, Reconciled(t) PROVE LimitTypeOK'
  <2>1. MessagesTyped'
    BY <1>0, <1>12, WorkFields, ReplaceType DEF Reconciled, MessagesTyped
  <2> QED BY <1>0, <1>12, <1>a, <1>c, <2>1, EndType DEF Reconciled
<1>13. ASSUME NEW s \in Sims,
              SimulationExpires(s) \/ \E outcome \in {"landed", "failed"} : Settle(s, outcome)
       PROVE  LimitTypeOK'
  <2>1. OutsideTyped'
    BY <1>0, <1>13 DEF SimulationExpires, Settle, OutsideTyped, outside
  <2> QED BY <1>13, <1>a, <1>b, <1>d, <2>1 DEF SimulationExpires, Settle
<1>14. CASE LockLimits \/ UnlockLimits
  <2>1. OutsideTyped' /\ MessagesTyped'
    BY <1>0, <1>14
       DEF LockLimits, UnlockLimits, OutsideTyped, MessagesTyped, outside, messages
  <2> QED BY <1>14, <1>a, <1>d, <2>1 DEF LockLimits, UnlockLimits
<1>15. CASE RestartLimits
  <2>1. OutsideTyped' /\ WorkTyped'
    BY <1>0, <1>15, NoWorkType DEF RestartLimits, OutsideTyped, WorkTyped, outside
  <2> QED BY <1>15, <1>a, <1>b, <2>1 DEF RestartLimits
<1>16. CASE UNCHANGED limitVars
  BY <1>16, <1>a, <1>b, <1>c, <1>d DEF limitVars
<1> QED BY <1>1, <1>2, <1>3, <1>4, <1>5, <1>6, <1>7, <1>8, <1>9, <1>10, <1>11, <1>12, <1>13,
           <1>14, <1>15, <1>16 DEF LimitNext, Outcomes

\* Type correctness of the messages, the simulations and the calls in flight.
THEOREM LimitTypeCorrect == LimitSpec => []LimitTypeOK
BY LimitInitType, LimitStepType, PTL DEF LimitSpec

-----------------------------------------------------------------------------
(* A transaction is sent once *)

\* Calls that have taken a simulation and have yet to send its transaction.
Ordering(s) == {t \in Workers : work[t].pc = "ordering" /\ work[t].sim = s}

Once(s) ==
    /\ sent[s] <= 1
    /\ fate[s] = "none" => sent[s] = 0
    /\ s \in prepared => sent[s] = 0 /\ Ordering(s) = {}
    /\ Ordering(s) # {} => sent[s] = 0
    /\ \A t, q \in Ordering(s) : t = q

OnceInv == LimitTypeOK /\ \A s \in Sims : Once(s)

LEMMA OnceKept ==
    ASSUME OnceInv, NEW s \in Sims, UNCHANGED sent, fate'[s] = "none" => fate[s] = "none",
           prepared' \subseteq prepared, Ordering(s)' \subseteq Ordering(s)
    PROVE  Once(s)'
BY DEF OnceInv, Once

\* One call moves, and not to where it holds a simulation it has taken.
Apart(t) ==
    /\ \A q \in Workers : q # t => work'[q] = work[q]
    /\ work'[t].pc # "ordering"

LEMMA ApartOrdering ==
    ASSUME NEW t \in Workers, Apart(t), NEW s
    PROVE  Ordering(s)' \subseteq Ordering(s) \ {t}
BY DEF Apart, Ordering

LEMMA StartApart ==
    ASSUME WorkTyped, NEW t \in Workers, NEW r, StartWork(t, r), r.pc # "ordering"
    PROVE  Apart(t)
BY DEF StartWork, WorkTyped, Apart

LEMMA EndApart ==
    ASSUME WorkTyped, NEW t \in Workers, EndWork(t)
    PROVE  Apart(t)
BY DEF EndWork, NoWork, WorkTyped, Apart

LEMMA OnceStep == OnceInv /\ [LimitNext]_limitVars => OnceInv'
<1> SUFFICES ASSUME OnceInv, [LimitNext]_limitVars, NEW s \in Sims PROVE Once(s)'
  BY LimitStepType DEF OnceInv
<1>0. WorkTyped /\ OutsideTyped
  BY TypeParts DEF OnceInv
<1>a. ASSUME NEW t \in Workers, Apart(t), UNCHANGED <<prepared, outside>> PROVE Once(s)'
  BY <1>a, ApartOrdering, OnceKept DEF outside
<1>1. ASSUME NEW t \in Workers, NEW l \in Legs,
             Simulate(t, l) \/ Authorize(t, l) \/ Verify(t, l)
      PROVE  Once(s)'
  <2>1. CASE Simulate(t, l)
    <3>1. StartWork(t, [NoWork EXCEPT !.pc = "simulating", !.leg = l, !.view = card])
      BY <2>1 DEF Simulate
    <3> QED BY <1>0, <1>a, <2>1, <3>1, StartApart DEF NoWork, Simulate
  <2>2. CASE Authorize(t, l)
    <3>1. StartWork(t, [NoWork EXCEPT !.pc = "authorizing", !.leg = l,
                                      !.sim = card[l].sim, !.view = card])
      BY <2>2 DEF Authorize
    <3> QED BY <1>0, <1>a, <2>2, <3>1, StartApart DEF NoWork, Authorize
  <2>3. CASE Verify(t, l)
    <3>1. StartWork(t, [NoWork EXCEPT !.pc = "verifying", !.leg = l, !.copy = record])
      BY <2>3 DEF Verify
    <3> QED BY <1>0, <1>a, <2>3, <3>1, StartApart DEF NoWork, Verify
  <2> QED BY <1>1, <2>1, <2>2, <2>3
<1>2. ASSUME NEW t \in Workers, ListSessions(t) PROVE Once(s)'
  <2>1. UNCHANGED <<prepared, outside>>
    BY <1>2 DEF ListSessions
  <2>2. CASE UNCHANGED work
    BY <2>1, <2>2, OnceKept DEF Ordering, outside
  <2>3. CASE work' # work
    <3>1. PICK D : StartWork(t, [NoWork EXCEPT !.pc = "reconciling", !.copy = record, !.todo = D])
      BY <1>2, <2>3 DEF ListSessions
    <3> QED BY <1>0, <1>a, <2>1, <3>1, StartApart DEF NoWork
  <2> QED BY <2>2, <2>3
<1>3. ASSUME NEW t \in Workers, NEW x \in Sims, SimulationPasses(t, x) PROVE Once(s)'
  <2>1. Apart(t) /\ UNCHANGED outside
    BY <1>0, <1>3, EndApart DEF SimulationPasses
  <2>2. CASE s = x
    <3>1. sent[s] = 0 /\ Ordering(s) = {}
      BY <1>3, <2>2 DEF SimulationPasses, OnceInv, Once, Ordering
    <3>2. Ordering(s)' = {}
      BY <2>1, <3>1, ApartOrdering
    <3> QED BY <2>1, <3>1, <3>2 DEF Once, outside
  <2>3. CASE s # x
    <3>1. s \in prepared' => s \in prepared
      BY <1>3, <2>3 DEF SimulationPasses
    <3>2. Ordering(s)' \subseteq Ordering(s)
      BY <2>1, ApartOrdering
    <3> QED BY <2>1, <3>1, <3>2 DEF OnceInv, Once, outside
  <2> QED BY <2>2, <2>3
<1>4. ASSUME NEW t \in Workers, SimulationBlocked(t) PROVE Once(s)'
  BY <1>0, <1>4, <1>a, EndApart DEF SimulationBlocked
<1>5. ASSUME NEW t \in Workers, Refuse(t) PROVE Once(s)'
  BY <1>0, <1>5, <1>a, EndApart DEF Refuse
<1>6. ASSUME NEW t \in Workers, Take(t) PROVE Once(s)'
  <2>1. work[t].sim \in prepared /\ prepared' = prepared \ {work[t].sim} /\ UNCHANGED outside
    BY <1>6 DEF Take, LeftPrepared
  <2>2. work' = [work EXCEPT ![t].pc = "ordering", ![t].copy = record]
    BY <1>6 DEF Take
  <2>3. /\ \A q \in Workers : q # t => work'[q] = work[q]
        /\ work'[t].sim = work[t].sim
    BY <1>0, <2>2 DEF WorkTyped, LimitWork
  <2>4. CASE s = work[t].sim
    <3>1. sent[s] = 0 /\ Ordering(s) = {}
      BY <2>1, <2>4 DEF OnceInv, Once
    <3>2. Ordering(s)' \subseteq {t}
      BY <2>3, <3>1 DEF Ordering
    <3> QED BY <2>1, <2>4, <3>1, <3>2 DEF Once, outside
  <2>5. CASE s # work[t].sim
    <3>1. Ordering(s)' \subseteq Ordering(s)
      BY <2>3, <2>5 DEF Ordering
    <3> QED BY <2>1, <3>1, OnceKept DEF outside
  <2> QED BY <2>4, <2>5
<1>7. ASSUME NEW t \in Workers, NEW arrives \in BOOLEAN, NEW answered \in BOOLEAN,
             SendOrder(t, arrives, answered)
      PROVE  Once(s)'
  <2>1. PICK r : work' = [work EXCEPT ![t].pc = "ordered", ![t].receipt = r]
    BY <1>7 DEF SendOrder
  <2>2. Apart(t)
    BY <1>0, <2>1 DEF WorkTyped, LimitWork, Apart
  <2>3. prepared' = prepared /\ Ordering(s)' \subseteq Ordering(s) \ {t}
    BY <1>7, <2>2, ApartOrdering DEF SendOrder
  <2>4. \/ UNCHANGED outside
        \/ /\ sent' = [sent EXCEPT ![work[t].sim] = @ + 1]
           /\ fate' = [fate EXCEPT ![work[t].sim] = IF @ = "none" THEN "pending" ELSE @]
    BY <1>7 DEF SendOrder
  <2>5. CASE s = work[t].sim
    <3>1. t \in Ordering(s)
      BY <1>7, <2>5 DEF SendOrder, Ordering
    <3>2. sent[s] = 0 /\ s \notin prepared /\ Ordering(s) = {t}
      BY <3>1 DEF OnceInv, Once
    <3>3. Ordering(s)' = {}
      BY <2>3, <3>2
    <3>4. CASE UNCHANGED outside
      BY <2>3, <3>4, OnceKept DEF outside
    <3>5. CASE /\ sent' = [sent EXCEPT ![work[t].sim] = @ + 1]
               /\ fate' = [fate EXCEPT ![work[t].sim] = IF @ = "none" THEN "pending" ELSE @]
      <4>1. sent'[s] = 0 + 1
        BY <1>0, <2>5, <3>2, <3>5 DEF OutsideTyped
      <4>2. fate'[s] # "none"
        BY <1>0, <2>5, <3>5 DEF OutsideTyped
      <4> QED BY <2>3, <3>2, <3>3, <4>1, <4>2 DEF Once
    <3> QED BY <2>4, <3>4, <3>5
  <2>6. CASE s # work[t].sim
    <3>1. sent'[s] = sent[s] /\ fate'[s] = fate[s]
      BY <1>0, <2>4, <2>6 DEF OutsideTyped, outside
    <3> QED BY <2>3, <3>1 DEF OnceInv, Once
  <2> QED BY <2>5, <2>6
<1>8. ASSUME NEW t \in Workers, NEW confirmed \in BOOLEAN, StoreReceipt(t, confirmed)
      PROVE  Once(s)'
  <2>1. UNCHANGED <<prepared, outside>>
    BY <1>8 DEF StoreReceipt
  <2>2. EndWork(t) \/ \E r : work' = [work EXCEPT ![t].pc = "showing", ![t].receipt = r]
    BY <1>8 DEF StoreReceipt
  <2>3. Apart(t)
    BY <1>0, <2>2, EndApart DEF WorkTyped, LimitWork, Apart
  <2> QED BY <1>a, <2>1, <2>3
<1>9. ASSUME NEW t \in Workers,
             ShowReceipt(t) \/ Reconciled(t) \/ \E v \in Outcomes : Verified(t, v)
      PROVE  Once(s)'
  <2>1. EndWork(t) /\ UNCHANGED <<prepared, outside>>
    BY <1>9 DEF ShowReceipt, Reconciled, Verified
  <2> QED BY <1>0, <1>a, <2>1, EndApart
<1>10. ASSUME NEW t \in Workers, NEW l \in Legs, NEW v \in Outcomes, Reconcile(t, l, v)
       PROVE  Once(s)'
  <2>1. UNCHANGED <<prepared, outside>> /\ work[t].pc = "reconciling"
        /\ work' = [work EXCEPT ![t].todo = @ \ {l}, ![t].copy[l].receipt.status = v]
    BY <1>10 DEF Reconcile
  <2>2. Apart(t)
    BY <1>0, <2>1 DEF WorkTyped, LimitWork, Apart
  <2> QED BY <1>a, <2>1, <2>2
<1>11. ASSUME NEW x \in Sims,
              SimulationExpires(x) \/ \E outcome \in {"landed", "failed"} : Settle(x, outcome)
       PROVE  Once(s)'
  <2>1. UNCHANGED <<work, sent>> /\ prepared' \subseteq prepared
    BY <1>11 DEF SimulationExpires, Settle, outside
  <2>2. fate'[s] = "none" => fate[s] = "none"
    BY <1>0, <1>11 DEF SimulationExpires, Settle, OutsideTyped, outside
  <2> QED BY <2>1, <2>2, OnceKept DEF Ordering
<1>12. CASE LockLimits \/ UnlockLimits
  BY <1>12, OnceKept DEF LockLimits, UnlockLimits, Ordering, outside
<1>13. CASE RestartLimits
  <2>1. Ordering(s)' = {}
    BY <1>13 DEF RestartLimits, Ordering, NoWork
  <2> QED BY <1>13, <2>1, OnceKept DEF RestartLimits, outside
<1>14. CASE UNCHANGED limitVars
  BY <1>14, OnceKept DEF limitVars, Ordering, outside
<1> QED BY <1>1, <1>2, <1>3, <1>4, <1>5, <1>6, <1>7, <1>8, <1>9, <1>10, <1>11, <1>12, <1>13,
           <1>14 DEF LimitNext, Outcomes

\* The exact cached transaction is signed and sent once, however calls overlap
\* and whatever copy of the session they go by.
THEOREM SentCorrect == LimitSpec => []SentOnce
<1>1. LimitInit => OnceInv
  BY LimitInitType DEF LimitInit, OnceInv, Once, Ordering, NoWork
<1>2. OnceInv => SentOnce
  BY DEF OnceInv, Once, SentOnce
<1> QED BY <1>1, <1>2, OnceStep, PTL DEF LimitSpec

-----------------------------------------------------------------------------
(* Receipts agree with the chain *)

TrueReceipt(r, f) ==
    /\ r.status = "done" => r.tx \in Sims /\ f[r.tx] = "landed"
    /\ r.status = "failed" => r.tx \in Sims /\ f[r.tx] = "failed"
TrueMessage(m, f) == \A l \in Legs : TrueReceipt(m[l].receipt, f)

\* Every copy a call holds is as true as the record, and what it verifies is a
\* transaction.
TrueWork(w, f) ==
    /\ TrueMessage(w.view, f) /\ TrueMessage(w.copy, f) /\ TrueReceipt(w.receipt, f)
    /\ w.pc = "verifying" => w.copy[w.leg].receipt.tx \in Sims
    /\ w.pc = "reconciling" => \A l \in w.todo : w.copy[l].receipt.tx \in Sims

TrueInv ==
    /\ LimitTypeOK
    /\ TrueMessage(record, fate) /\ TrueMessage(card, fate)
    /\ \A t \in Workers : TrueWork(work[t], fate)

\* What a transaction came to is final.
FateKept == \A s \in Sims : fate[s] \in {"landed", "failed"} => fate'[s] = fate[s]

LEMMA FateStep == LimitTypeOK /\ [LimitNext]_limitVars => FateKept
<1> SUFFICES ASSUME LimitTypeOK, [LimitNext]_limitVars PROVE FateKept
  OBVIOUS
<1>0. OutsideTyped
  BY TypeParts
<1>1. CASE UNCHANGED fate
  BY <1>1 DEF FateKept
<1>2. ASSUME NEW t \in Workers, NEW arrives \in BOOLEAN, NEW answered \in BOOLEAN,
             SendOrder(t, arrives, answered)
      PROVE  FateKept
  <2>1. \/ UNCHANGED fate
        \/ fate' = [fate EXCEPT ![work[t].sim] = IF @ = "none" THEN "pending" ELSE @]
    BY <1>2 DEF SendOrder, outside
  <2> QED BY <1>0, <2>1 DEF FateKept, OutsideTyped
<1>3. ASSUME NEW s \in Sims, NEW outcome \in {"landed", "failed"}, Settle(s, outcome)
      PROVE  FateKept
  BY <1>0, <1>3 DEF Settle, FateKept, OutsideTyped
<1>4. ASSUME NEW t \in Workers,
             \/ \E l \in Legs : Simulate(t, l) \/ Authorize(t, l) \/ Verify(t, l)
             \/ \E s \in Sims : SimulationPasses(t, s)
             \/ \E confirmed \in BOOLEAN : StoreReceipt(t, confirmed)
             \/ \E v \in Outcomes : Verified(t, v) \/ \E l \in Legs : Reconcile(t, l, v)
             \/ SimulationBlocked(t) \/ Take(t) \/ Refuse(t) \/ ShowReceipt(t)
             \/ ListSessions(t) \/ Reconciled(t)
      PROVE  UNCHANGED fate
  BY <1>4 DEF Simulate, Authorize, Verify, SimulationPasses, StoreReceipt, Verified, Reconcile,
              SimulationBlocked, Take, Refuse, ShowReceipt, ListSessions, Reconciled, outside
<1>5. CASE \/ \E s \in Sims : SimulationExpires(s)
           \/ LockLimits \/ UnlockLimits \/ RestartLimits \/ UNCHANGED limitVars
  BY <1>1, <1>5
     DEF SimulationExpires, LockLimits, UnlockLimits, RestartLimits, limitVars, outside
<1> QED BY <1>1, <1>2, <1>3, <1>4, <1>5 DEF LimitNext, Outcomes

LEMMA MessageStaysTrue ==
    ASSUME FateKept, NEW m, TrueMessage(m, fate)
    PROVE  TrueMessage(m, fate')
BY DEF FateKept, TrueMessage, TrueReceipt

LEMMA WorkStaysTrue ==
    ASSUME FateKept, NEW w, TrueWork(w, fate)
    PROVE  TrueWork(w, fate')
BY DEF FateKept, TrueWork, TrueMessage, TrueReceipt

LEMMA NothingIsTrue == \A f : TrueMessage(NewMessage, f) /\ TrueReceipt(NoReceipt, f)
BY DEF TrueMessage, TrueReceipt, NewMessage, NoReceipt

LEMMA NoWorkIsTrue == \A f : TrueWork(NoWork, f)
BY NothingIsTrue DEF TrueWork, NoWork

\* A true receipt written into a true message leaves it true.
LEMMA WithReceiptIsTrue ==
    ASSUME NEW f, NEW m \in LimitMessages, NEW l \in Legs, NEW r,
           TrueMessage(m, f), TrueReceipt(r, f)
    PROVE  TrueMessage(WithReceipt(m, l, r), f)
BY DEF TrueMessage, WithReceipt, LimitMessages

LEMMA WithSimIsTrue ==
    ASSUME NEW f, NEW m \in LimitMessages, NEW l \in Legs, NEW s, TrueMessage(m, f)
    PROVE  TrueMessage(WithSim(m, l, s), f)
BY DEF TrueMessage, WithSim, LimitMessages

LEMMA VerdictIsTrue ==
    ASSUME OutsideTyped, NEW r \in OrderReceipts, r.tx \in Sims, NEW v \in Outcomes,
           v \in Verdicts(r.tx)
    PROVE  TrueReceipt([r EXCEPT !.status = v], fate)
<1>1. v = "done" => fate[r.tx] = "landed"
  BY DEF Verdicts, OutsideTyped
<1>2. v = "failed" => fate[r.tx] = "failed"
  BY DEF Verdicts, OutsideTyped
<1> QED BY <1>1, <1>2, StatusIs DEF TrueReceipt

LEMMA EndIsTrue ==
    ASSUME TrueInv, FateKept, NEW t \in Workers, EndWork(t)
    PROVE  \A q \in Workers : TrueWork(work'[q], fate')
<1>1. \A q \in Workers : work'[q] = work[q] \/ work'[q] = NoWork
  BY DEF EndWork, TrueInv, LimitTypeOK
<1> QED BY <1>1, NoWorkIsTrue, WorkStaysTrue DEF TrueInv

\* One call becomes w.
LEMMA WorkBecomes ==
    ASSUME TrueInv, FateKept, NEW t \in Workers, NEW w, work' = [work EXCEPT ![t] = w],
           TrueWork(w, fate')
    PROVE  \A q \in Workers : TrueWork(work'[q], fate')
<1>1. \A q \in Workers : work'[q] = work[q] \/ work'[q] = w
  BY DEF TrueInv, LimitTypeOK
<1> QED BY <1>1, WorkStaysTrue DEF TrueInv

LEMMA TrueStep == TrueInv /\ [LimitNext]_limitVars => TrueInv'
<1> SUFFICES ASSUME TrueInv, [LimitNext]_limitVars PROVE TrueInv'
  OBVIOUS
<1>0. LimitTypeOK /\ LimitTypeOK' /\ FateKept
  BY LimitStepType, FateStep DEF TrueInv
<1>t. MessagesTyped /\ WorkTyped /\ OutsideTyped
  BY <1>0, TypeParts
<1>m. TrueMessage(record, fate') /\ TrueMessage(card, fate')
  BY <1>0, MessageStaysTrue DEF TrueInv
<1>w. ASSUME NEW t \in Workers
      PROVE  /\ TrueMessage(work[t].view, fate') /\ TrueMessage(work[t].copy, fate')
             /\ TrueReceipt(work[t].receipt, fate')
  BY <1>0, WorkStaysTrue DEF TrueInv, TrueWork
<1>a. ASSUME TrueMessage(record', fate'), TrueMessage(card', fate'),
             \A q \in Workers : TrueWork(work'[q], fate')
      PROVE  TrueInv'
  BY <1>0, <1>a DEF TrueInv
<1>b. ASSUME UNCHANGED messages, \A q \in Workers : TrueWork(work'[q], fate') PROVE TrueInv'
  BY <1>a, <1>b, <1>m DEF messages
<1>c. ASSUME NEW t \in Workers, EndWork(t), NEW m, TrueMessage(m, fate'),
             ReplaceBoth(m) \/ (Replace(m) /\ UNCHANGED card)
      PROVE  TrueInv'
  BY <1>0, <1>a, <1>c, <1>m, EndIsTrue DEF Replace, ReplaceBoth, messages
<1>1. ASSUME NEW t \in Workers, NEW l \in Legs,
             Simulate(t, l) \/ Authorize(t, l) \/ Verify(t, l)
      PROVE  TrueInv'
  <2>1. CASE Simulate(t, l)
    <3> DEFINE w == [NoWork EXCEPT !.pc = "simulating", !.leg = l, !.view = card]
    <3>1. TrueWork(w, fate')
      BY <1>m, NoWorkIsTrue DEF NoWork, TrueWork
    <3>2. work' = [work EXCEPT ![t] = w]
      BY <2>1 DEF Simulate, StartWork
    <3> HIDE DEF w
    <3> QED BY <1>0, <1>b, <2>1, <3>1, <3>2, WorkBecomes DEF Simulate
  <2>2. CASE Authorize(t, l)
    <3> DEFINE w == [NoWork EXCEPT !.pc = "authorizing", !.leg = l, !.sim = card[l].sim,
                                   !.view = card]
    <3>1. TrueWork(w, fate')
      BY <1>m, NoWorkIsTrue DEF NoWork, TrueWork
    <3>2. work' = [work EXCEPT ![t] = w]
      BY <2>2 DEF Authorize, StartWork
    <3> HIDE DEF w
    <3> QED BY <1>0, <1>b, <2>2, <3>1, <3>2, WorkBecomes DEF Authorize
  <2>3. CASE Verify(t, l)
    <3> DEFINE w == [NoWork EXCEPT !.pc = "verifying", !.leg = l, !.copy = record]
    <3>1. card[l].receipt.tx \in MaybeSims
      BY <1>t, EntryType DEF MessagesTyped, OrderReceipts
    <3>2. record[l].receipt.tx \in Sims
      BY <2>3, <3>1 DEF Verify, Unsettled, MaybeSims
    <3>3. TrueWork(w, fate')
      BY <1>m, <3>2, NoWorkIsTrue DEF NoWork, TrueWork
    <3>4. work' = [work EXCEPT ![t] = w]
      BY <2>3 DEF Verify, StartWork
    <3> HIDE DEF w
    <3> QED BY <1>0, <1>b, <2>3, <3>3, <3>4, WorkBecomes DEF Verify
  <2> QED BY <1>1, <2>1, <2>2, <2>3
<1>2. ASSUME NEW t \in Workers, ListSessions(t) PROVE TrueInv'
  <2> DEFINE pending == {l \in Legs : Unsettled(record, l)}
  <2> DEFINE w == [NoWork EXCEPT !.pc = "reconciling", !.copy = record, !.todo = pending]
  <2>1. TrueMessage(record', fate') /\ TrueMessage(card', fate')
    BY <1>2, <1>m DEF ListSessions
  <2>2. \A l \in Legs : record[l].receipt.tx \in MaybeSims
    BY <1>t, EntryType DEF MessagesTyped, OrderReceipts
  <2>3. \A l \in pending : record[l].receipt.tx \in Sims
    BY <2>2 DEF Unsettled, MaybeSims
  <2>4. TrueWork(w, fate')
    BY <1>m, <2>3, NoWorkIsTrue DEF NoWork, TrueWork
  <2>5. UNCHANGED work \/ work' = [work EXCEPT ![t] = w]
    BY <1>2 DEF ListSessions, StartWork
  <2> HIDE DEF w
  <2>6. \A q \in Workers : TrueWork(work'[q], fate')
    BY <1>0, <2>4, <2>5, WorkBecomes, WorkStaysTrue DEF TrueInv
  <2> QED BY <1>a, <2>1, <2>6
<1>3. ASSUME NEW t \in Workers,
             (\E s \in Sims : SimulationPasses(t, s)) \/ SimulationBlocked(t)
      PROVE  TrueInv'
  <2>1. PICK s : ReplaceBoth(WithSim(work[t].view, work[t].leg, s))
    BY <1>3 DEF SimulationPasses, SimulationBlocked
  <2>2. EndWork(t)
    BY <1>3 DEF SimulationPasses, SimulationBlocked
  <2>3. work[t].view \in LimitMessages /\ work[t].leg \in Legs
    BY <1>t, WorkFields
  <2>4. TrueMessage(WithSim(work[t].view, work[t].leg, s), fate')
    BY <1>w, <2>3, WithSimIsTrue
  <2> QED BY <1>c, <2>1, <2>2, <2>4
<1>4. ASSUME NEW t \in Workers, Take(t) PROVE TrueInv'
  <2> DEFINE w == [work[t] EXCEPT !.pc = "ordering", !.copy = record]
  <2>1. work' = [work EXCEPT ![t] = w]
    BY <1>4 DEF Take
  <2>2. TrueWork(w, fate')
    BY <1>t, <1>m, <1>w DEF TrueWork, WorkTyped, LimitWork
  <2> HIDE DEF w
  <2> QED BY <1>0, <1>b, <1>4, <2>1, <2>2, WorkBecomes DEF Take
<1>5. ASSUME NEW t \in Workers, Refuse(t) PROVE TrueInv'
  BY <1>0, <1>b, <1>5, EndIsTrue DEF Refuse
<1>6. ASSUME NEW t \in Workers, NEW arrives \in BOOLEAN, NEW answered \in BOOLEAN,
             SendOrder(t, arrives, answered)
      PROVE  TrueInv'
  <2> DEFINE r == SentReceipt(work[t].sim, answered)
  <2> DEFINE w == [work[t] EXCEPT !.pc = "ordered", !.receipt = r]
  <2>1. work' = [work EXCEPT ![t] = w]
    BY <1>6 DEF SendOrder
  <2>2. TrueReceipt(r, fate')
    BY DEF SentReceipt, TrueReceipt
  <2> HIDE DEF r
  <2>3. TrueWork(w, fate')
    BY <1>t, <1>w, <2>2 DEF TrueWork, WorkTyped, LimitWork
  <2> HIDE DEF w
  <2> QED BY <1>0, <1>b, <1>6, <2>1, <2>3, WorkBecomes DEF SendOrder
<1>7. ASSUME NEW t \in Workers, NEW confirmed \in BOOLEAN, StoreReceipt(t, confirmed)
      PROVE  TrueInv'
  <2> DEFINE r == work[t].receipt
  <2>1. PICK new : /\ new = IF confirmed THEN [r EXCEPT !.status = "done"] ELSE r
                   /\ Replace(WithReceipt(work[t].copy, work[t].leg, new))
                   /\ \/ work' = [work EXCEPT ![t].pc = "showing", ![t].receipt = new]
                      \/ EndWork(t)
    BY <1>7 DEF StoreReceipt
  <2>2. UNCHANGED <<card, fate>> /\ (confirmed => r.tx # NoSim /\ fate[r.tx] = "landed")
    BY <1>7 DEF StoreReceipt, outside
  <2>3. r \in OrderReceipts /\ work[t].copy \in LimitMessages /\ work[t].leg \in Legs
    BY <1>t, WorkFields
  <2>4. TrueReceipt(new, fate')
    <3>1. CASE ~confirmed
      BY <1>w, <2>1, <3>1
    <3>2. CASE confirmed
      <4>1. r.tx \in Sims
        BY <2>2, <2>3, <3>2 DEF OrderReceipts, MaybeSims
      <4>2. new.status = "done" /\ new.tx = r.tx
        BY <2>1, <2>3, <3>2, StatusIs DEF Outcomes
      <4> QED BY <2>2, <3>2, <4>1, <4>2 DEF TrueReceipt
    <3> QED BY <3>1, <3>2
  <2>5. TrueMessage(WithReceipt(work[t].copy, work[t].leg, new), fate')
    BY <1>w, <2>3, <2>4, WithReceiptIsTrue
  <2>6. \A q \in Workers : TrueWork(work'[q], fate')
    <3>1. CASE EndWork(t)
      BY <1>0, <3>1, EndIsTrue
    <3>2. CASE work' = [work EXCEPT ![t].pc = "showing", ![t].receipt = new]
      <4> DEFINE w == [work[t] EXCEPT !.pc = "showing", !.receipt = new]
      <4>1. work' = [work EXCEPT ![t] = w]
        BY <3>2
      <4>2. TrueWork(w, fate')
        BY <1>t, <1>w, <2>4 DEF TrueWork, WorkTyped, LimitWork
      <4> HIDE DEF w
      <4> QED BY <1>0, <4>1, <4>2, WorkBecomes
    <3> QED BY <2>1, <3>1, <3>2
  <2> QED BY <1>a, <1>m, <2>1, <2>2, <2>5, <2>6 DEF Replace
<1>8. ASSUME NEW t \in Workers, ShowReceipt(t) PROVE TrueInv'
  <2>1. TrueMessage(WithReceipt(work[t].view, work[t].leg, work[t].receipt), fate')
    BY <1>t, <1>w, WorkFields, WithReceiptIsTrue
  <2> QED BY <1>8, <1>c, <2>1 DEF ShowReceipt
<1>9. ASSUME NEW t \in Workers, NEW v \in Outcomes, Verified(t, v) PROVE TrueInv'
  <2> DEFINE old == work[t].copy[work[t].leg].receipt
  <2> DEFINE new == [old EXCEPT !.status = v]
  <2>1. work[t].pc = "verifying" /\ v \in Verdicts(new.tx) /\ UNCHANGED fate /\ EndWork(t)
        /\ Replace(WithReceipt(work[t].copy, work[t].leg, new))
        /\ card' = IF vaultOpen THEN WithReceipt(card, work[t].leg, new) ELSE card
    BY <1>9 DEF Verified, outside
  <2>2. /\ work[t].copy \in LimitMessages /\ work[t].leg \in Legs /\ card \in LimitMessages
        /\ old \in OrderReceipts /\ old.tx \in Sims
    BY <1>t, <2>1, WorkFields, EntryType DEF MessagesTyped, TrueInv, TrueWork
  <2>3. new.tx = old.tx
    BY <2>2, StatusIs
  <2>4. TrueReceipt(new, fate)
    BY <1>t, <2>1, <2>2, <2>3, VerdictIsTrue
  <2> HIDE DEF old, new
  <2>5. TrueMessage(WithReceipt(work[t].copy, work[t].leg, new), fate')
        /\ TrueMessage(WithReceipt(card, work[t].leg, new), fate')
    BY <1>w, <1>m, <2>1, <2>2, <2>4, WithReceiptIsTrue
  <2>6. \A q \in Workers : TrueWork(work'[q], fate')
    BY <1>0, <2>1, EndIsTrue
  <2> QED BY <1>a, <1>m, <2>1, <2>5, <2>6 DEF Replace
<1>10. ASSUME NEW t \in Workers, NEW l \in Legs, NEW v \in Outcomes, Reconcile(t, l, v)
       PROVE  TrueInv'
  <2> DEFINE old == work[t].copy[l].receipt
  <2> DEFINE new == [old EXCEPT !.status = v]
  <2> DEFINE copied == [work[t].copy EXCEPT ![l].receipt.status = v]
  <2> DEFINE w == [work[t] EXCEPT !.todo = @ \ {l}, !.copy = copied]
  <2>1. /\ work[t].pc = "reconciling" /\ l \in work[t].todo /\ v \in Verdicts(old.tx)
        /\ UNCHANGED <<messages, fate>>
    BY <1>10 DEF Reconcile, outside
  <2>2. work' = [work EXCEPT ![t] = w]
    BY <1>10 DEF Reconcile
  <2>3. work[t].copy \in LimitMessages /\ old \in OrderReceipts /\ old.tx \in Sims
    BY <1>t, <2>1, WorkFields, EntryType DEF TrueInv, TrueWork
  <2>4. TrueReceipt(new, fate) /\ new.tx = old.tx
    BY <1>t, <2>1, <2>3, VerdictIsTrue, StatusIs
  <2>5. /\ copied[l].receipt = new
        /\ \A k \in Legs : k # l => copied[k] = work[t].copy[k]
    BY <2>3 DEF LimitMessages
  <2> HIDE DEF copied, new
  <2>6. TrueMessage(copied, fate')
    BY <1>w, <2>1, <2>4, <2>5 DEF TrueMessage
  <2>7. \A k \in work[t].todo : copied[k].receipt.tx \in Sims
    <3>1. \A k \in work[t].todo : k \in Legs /\ work[t].copy[k].receipt.tx \in Sims
      BY <1>t, <2>1, WorkFields DEF TrueInv, TrueWork
    <3> QED BY <2>3, <2>4, <2>5, <3>1
  <2>8. TrueWork(w, fate')
    BY <1>t, <1>w, <2>1, <2>6, <2>7 DEF TrueWork, WorkTyped, LimitWork
  <2> HIDE DEF w
  <2> QED BY <1>0, <1>b, <2>1, <2>2, <2>8, WorkBecomes
<1>11. ASSUME NEW t \in Workers, Reconciled(t) PROVE TrueInv'
  BY <1>11, <1>c, <1>w DEF Reconciled
<1>12. ASSUME UNCHANGED <<messages, work>> PROVE TrueInv'
  BY <1>0, <1>b, <1>12, WorkStaysTrue DEF TrueInv
<1>13. CASE \E s \in Sims : SimulationExpires(s) \/ \E o \in {"landed", "failed"} : Settle(s, o)
  BY <1>12, <1>13 DEF SimulationExpires, Settle
<1>14. CASE LockLimits
  BY <1>12, <1>14 DEF LockLimits
<1>15. CASE UnlockLimits
  <2>1. \A q \in Workers : TrueWork(work'[q], fate')
    BY <1>0, <1>15, WorkStaysTrue DEF UnlockLimits, TrueInv
  <2> QED BY <1>15, <1>a, <1>m, <2>1 DEF UnlockLimits
<1>16. CASE RestartLimits
  BY <1>16, <1>b, NoWorkIsTrue DEF RestartLimits
<1>17. CASE UNCHANGED limitVars
  BY <1>12, <1>17 DEF limitVars
<1> QED BY <1>1, <1>2, <1>3, <1>4, <1>5, <1>6, <1>7, <1>8, <1>9, <1>10, <1>11, <1>13, <1>14,
           <1>15, <1>16, <1>17 DEF LimitNext, Outcomes

\* No receipt of the window or of the record contradicts the chain, whichever
\* old copy was written back.
THEOREM ReceiptsCorrect == LimitSpec => []LimitReceiptsTrue
<1>1. LimitInit => TrueInv
  BY LimitInitType, NothingIsTrue, NoWorkIsTrue DEF LimitInit, TrueInv
<1>2. TrueInv => LimitReceiptsTrue
  BY LimitAssumption DEF TrueInv, TrueMessage, TrueReceipt, LimitReceiptsTrue
<1> QED BY <1>1, <1>2, TrueStep, PTL DEF LimitSpec

-----------------------------------------------------------------------------
(* EVM swaps: the inductive invariant *)

Execution == {"verifying", "starting", "checking", "saving", "waiting"}

\* The steps of an execution that has taken its preflight from the map.
Taken == {"checking", "saving", "waiting"}

CallOK(t, pf) ==
    /\ t.pc # "idle" => t.swap \in Swaps
    /\ t.pc \in Execution => t.of \in Preflights /\ pf[t.of].swap = t.swap

TakenOK(t, pf, ch, rc) == t.pc \in Taken =>
    /\ ~pf[t.of].kept
    /\ t.pc = "checking" <=> ch[t.of] = "unsent"
    /\ t.pc = "waiting" <=> rc[t.of] # "none"

TakenOnce(tk) == \A i, j \in Slots :
    tk[i].pc \in Taken /\ tk[j].pc \in Taken /\ tk[i].of = tk[j].of => i = j

PreflightOK(f, c, r) ==
    /\ f.swap = None <=> f.action = "none"
    /\ f.swap = None => c = "unsent"
    /\ f.kept => f.swap # None /\ c = "unsent"
    /\ r # "none" => c # "unsent"
    /\ r = "confirmed" => c = "success"
    /\ r = "reverted" => c = "reverted"

\* A message names preflights of its own swap, and receipts of preflights that exist.
CopyOK(m, s, pf) ==
    /\ m.card # None => pf[m.card].swap = s
    /\ \A n \in DOMAIN m.receipts : pf[m.receipts[n].of].swap # None

CopiesOK(c, pf) == \A s \in Swaps : CopyOK(c[s], s, pf)

LaneInv == \A p \in Preflights : PreflightOK(preflight[p], chain[p], receipts[p])
CallsInv == \A i \in Slots : CallOK(task[i], preflight)
TakenInv == /\ TakenOnce(task)
            /\ \A i \in Slots : TakenOK(task[i], preflight, chain, receipts)
WindowInv ==
    /\ CopiesOK(shown, preflight) /\ CopiesOK(stored, preflight)
    /\ chat # None => CopiesOK(chat, preflight)
    /\ modal # None => preflight[modal].swap # None
ReconInv == \A p \in recon : receipts[p] # "none"

SwapInv == SwapTypeOK /\ LaneInv /\ CallsInv /\ TakenInv /\ WindowInv /\ ReconInv

-----------------------------------------------------------------------------
(* EVM swaps: what a Full Access run and the card add to it *)

Sent(p) == chain[p] # "unsent"
Of(p, s, action) == preflight[p].swap = s /\ preflight[p].action = action
Runs(i) == task[i].pc # "idle"

\* The preflights of s other than p: at most one, an approval that has landed.
Prior(p, s) ==
    /\ \A q \in Preflights : preflight[q].swap = s /\ q # p =>
         preflight[q].action = "approval" /\ chain[q] = "success"
    /\ \A q, r \in Preflights :
         preflight[q].swap = s /\ preflight[r].swap = s /\ q # p /\ r # p => q = r

BroadcastsOK(s) ==
    /\ \A a \in {"approval", "swap"} : \A p, q \in Preflights :
         Of(p, s, a) /\ Of(q, s, a) /\ Sent(p) /\ Sent(q) => p = q
    /\ \A p, q \in Preflights :
         Of(p, s, "swap") /\ Sent(p) /\ Of(q, s, "approval") /\ Sent(q) => chain[q] = "success"

\* The first round prepares the only preflight of its swap; the second starts
\* from an approval that has landed, and executes nothing but a swap.
RoundOK(pc, s, p, round) ==
    \/ /\ round = 1 /\ pc = "building"
       /\ \A q \in Preflights : preflight[q].swap # s
    \/ /\ round = 1 /\ pc \in Execution
       /\ \A q \in Preflights : preflight[q].swap = s => q = p
    \/ /\ round = 2 /\ pc = "building"
       /\ Prior(None, s)
    \/ /\ round = 2 /\ pc \in Execution
       /\ preflight[p].action = "swap" /\ Prior(p, s)

RunOK(i) == Runs(i) => RoundOK(task[i].pc, task[i].swap, task[i].of, task[i].round)
OneRun == \A i, j \in Slots : Runs(i) /\ Runs(j) /\ task[i].swap = task[j].swap => i = j

RunInv == kind.full =>
    /\ modal = None
    /\ \A i \in Slots : RunOK(i)
    /\ OneRun
    /\ \A s \in Swaps : BroadcastsOK(s)

\* The card says the swap is confirmed; the card lets an action be prepared.
Done(m, pf) == \E n \in DOMAIN m.receipts :
    m.receipts[n].status = "confirmed" /\ pf[m.receipts[n].of].action = "swap"
Open(m, pf) == m.card = None /\ ~LatestUnknown(m) /\ ~Done(m, pf)

\* A message that lets nothing but p be executed, and nothing be prepared.
Blocked(m, p, pf) == m.card \in {p, None} /\ ~Open(m, pf)
Live(p) == chain[p] \in {"pending", "success"} /\ preflight[p].action = "swap"

\* A call whose answer the window awaits, and one that may still send.
Seen(i) == Runs(i) /\ task[i].seen
MaySend(i) == \/ task[i].pc = "checking"
              \/ task[i].pc \in {"verifying", "starting"} /\ preflight[task[i].of].kept

CopiesMeet == chat = None /\ (unlocked => stored = shown)
NoRounds == \A i \in Slots : Runs(i) => task[i].round = 0
DialogOK == modal # None =>
    /\ shown[preflight[modal].swap].card = modal
    /\ \A i \in Slots : Seen(i) => task[i].swap # preflight[modal].swap
OneSeen == \A i, j \in Slots : Seen(i) /\ Seen(j) /\ task[i].swap = task[j].swap => i = j
SeenOK(i) == Seen(i) =>
    /\ task[i].pc = "building" => Open(shown[task[i].swap], preflight)
    /\ task[i].pc \in Execution => shown[task[i].swap].card = task[i].of
SendOK(i) == MaySend(i) =>
    /\ shown[task[i].swap].card = task[i].of
    /\ stored[task[i].swap].card = task[i].of
CardOK(s) ==
    /\ \A p \in Preflights : Live(p) /\ preflight[p].swap = s =>
         Blocked(shown[s], p, preflight) /\ Blocked(stored[s], p, preflight)
    /\ \A p, q \in Preflights :
         Live(p) /\ Live(q) /\ preflight[p].swap = s /\ preflight[q].swap = s => p = q

CardMode == ~kind.full /\ ~kind.chatty
CardInv == CardMode =>
    /\ CopiesMeet /\ NoRounds /\ DialogOK /\ OneSeen
    /\ \A i \in Slots : SeenOK(i) /\ SendOK(i)
    /\ \A s \in Swaps : CardOK(s)

-----------------------------------------------------------------------------
(* EVM swaps: calls, messages and preflights *)

MovesTo(i, t) == task' = [task EXCEPT ![i] = t]

LEMMA IdleType ==
    /\ Idle \in Tasks /\ Blank \in Messages
    /\ Idle.pc = "idle" /\ Idle.swap = None /\ Idle.of = None /\ Idle.round = 0 /\ Idle.seen = TRUE
BY DEF Idle, Tasks, Steps, Blank, Messages

LEMMA CallFields ==
    ASSUME SwapInv, NEW i \in Slots
    PROVE  /\ task[i] \in Tasks
           /\ task[i].pc # "idle" => task[i].swap \in Swaps
           /\ task[i].pc \in Execution => /\ task[i].of \in Preflights
                                          /\ preflight[task[i].of].swap = task[i].swap
BY DEF SwapInv, SwapTypeOK, CallsInv, CallOK

LEMMA BeginType ==
    ASSUME NEW s \in Swaps, NEW n \in 0..2
    PROVE  LET t == [Idle EXCEPT !.pc = "building", !.swap = s, !.round = n] IN
           t \in Tasks /\ t.pc = "building" /\ t.swap = s /\ t.seen /\ t.round = n
BY IdleType DEF Tasks, Steps

LEMMA ResumeType ==
    ASSUME NEW t \in Tasks, NEW n \in 0..2
    PROVE  LET r == [t EXCEPT !.pc = "building", !.of = None, !.round = n] IN
           r \in Tasks /\ r.pc = "building" /\ r.swap = t.swap /\ r.seen = t.seen /\ r.round = n
BY DEF Tasks, Steps

LEMMA MessageFields ==
    ASSUME NEW m \in Messages
    PROVE  m.card \in Preflights \cup {None} /\ m.receipts \in Seq(Receipts)
BY DEF Messages

LEMMA CardType ==
    ASSUME NEW m \in Messages, NEW p \in Preflights
    PROVE  /\ [m EXCEPT !.card = p] \in Messages
           /\ [m EXCEPT !.card = p].card = p
           /\ [m EXCEPT !.card = p].receipts = m.receipts
BY DEF Messages

\* The message that keeps an answered receipt and drops the preflight.
Answered(m, p, status) ==
    [card |-> None, receipts |-> Append(m.receipts, [of |-> p, status |-> status])]

LEMMA AnsweredType ==
    ASSUME NEW m \in Messages, NEW p \in Preflights, NEW status \in Decisions
    PROVE  Answered(m, p, status) \in Messages
<1>1. [of |-> p, status |-> status] \in Receipts
  BY DEF Receipts
<1>2. m.receipts \in Seq(Receipts)
  BY DEF Messages
<1> QED BY <1>1, <1>2 DEF Answered, Messages

LEMMA AnsweredFields ==
    ASSUME NEW m \in Messages, NEW p \in Preflights, NEW status \in Decisions
    PROVE  LET r == Answered(m, p, status).receipts IN
           /\ DOMAIN r = 1..(Len(m.receipts) + 1)
           /\ DOMAIN m.receipts = 1..Len(m.receipts)
           /\ Len(r) = Len(m.receipts) + 1
           /\ Len(m.receipts) \in Nat
           /\ \A n \in DOMAIN m.receipts : r[n] = m.receipts[n]
           /\ r[Len(r)] = [of |-> p, status |-> status]
           /\ r # <<>>
<1>1. [of |-> p, status |-> status] \in Receipts
  BY DEF Receipts
<1>2. m.receipts \in Seq(Receipts)
  BY DEF Messages
<1>3. Answered(m, p, status).receipts = Append(m.receipts, [of |-> p, status |-> status])
  BY DEF Answered
<1> QED BY <1>1, <1>2, <1>3

LEMMA TaskMoved ==
    ASSUME task \in [Slots -> Tasks], NEW i \in Slots, NEW t \in Tasks, MovesTo(i, t)
    PROVE  task' \in [Slots -> Tasks] /\ task'[i] = t /\ \A j \in Slots \ {i} : task'[j] = task[j]
BY DEF MovesTo

LEMMA ConsumeType ==
    ASSUME SwapTypeOK, NEW p \in Preflights, Consume(p)
    PROVE  /\ preflight' \in [Preflights -> [swap : Swaps \cup {None}, kept : BOOLEAN,
                                             action : {"none", "approval", "swap"}]]
           /\ \A q \in Preflights : /\ preflight'[q].swap = preflight[q].swap
                                    /\ preflight'[q].action = preflight[q].action
                                    /\ preflight'[q].kept <=> preflight[q].kept /\ q # p
BY ZenonT(60) DEF Consume, SwapTypeOK

-----------------------------------------------------------------------------
(* EVM swaps: what a step does to each part of the state *)

Handles(i) ==
    \/ \E s \in Swaps : RequestPrepare(i, s) \/ StartFullAccess(i, s)
    \/ \E p \in Preflights : PrepareDone(i, p)
    \/ PrepareFails(i) \/ SubmitDialog(i) \/ PasswordVerified(i)
    \/ StartUnattended(i) \/ ExecutionRefused(i) \/ Send(i)
    \/ SavePending(i) \/ ReceiptArrives(i) \/ ReceiptMissed(i)

Takes(i) == PasswordVerified(i) \/ StartUnattended(i)
Answers(i) == ReceiptArrives(i) \/ ReceiptMissed(i)

\* What a handler leaves its call at.
Moved(i) ==
    \/ task' = task
    \/ task'[i].pc = "idle"
    \/ /\ \E s \in Swaps : (RequestPrepare(i, s) \/ StartFullAccess(i, s)) /\ task'[i].swap = s
       /\ task'[i].pc = "building" /\ task'[i].seen
       /\ task'[i].round = IF kind.full THEN 1 ELSE 0
    \/ /\ SubmitDialog(i)
       /\ task'[i] = [Idle EXCEPT !.pc = "verifying", !.of = modal, !.swap = preflight[modal].swap]
    \/ \E p \in Preflights :
         /\ PrepareDone(i, p) /\ Proceeds(task[i].round, preflight'[p].action)
         /\ task'[i] = [task[i] EXCEPT !.pc = "starting", !.of = p]
    \/ /\ Takes(i) /\ preflight[task[i].of].kept
       /\ task'[i] = [task[i] EXCEPT !.pc = "checking"]
    \/ Send(i) /\ task'[i] = [task[i] EXCEPT !.pc = "saving"]
    \/ SavePending(i) /\ unlocked /\ task'[i] = [task[i] EXCEPT !.pc = "waiting"]
    \/ /\ Answers(i) /\ task[i].round = 1
       /\ chain[task[i].of] = "success" /\ preflight[task[i].of].action = "approval"
       /\ task'[i] = [task[i] EXCEPT !.pc = "building", !.of = None, !.round = 2]

CallsMoveOnly(i) ==
    /\ task' \in [Slots -> Tasks]
    /\ \A j \in Slots \ {i} : task'[j] = task[j]
    /\ Moved(i)

LEMMA EndMoves ==
    ASSUME SwapTypeOK, NEW i \in Slots, End(i)
    PROVE  CallsMoveOnly(i) /\ task'[i].pc = "idle"
<1>1. MovesTo(i, Idle)
  BY DEF End, MovesTo
<1> QED BY <1>1, IdleType, TaskMoved DEF SwapTypeOK, CallsMoveOnly, Moved

LEMMA GotoIs ==
    ASSUME SwapTypeOK, NEW i \in Slots, NEW pc \in Steps, Goto(i, pc)
    PROVE  /\ task' \in [Slots -> Tasks]
           /\ \A j \in Slots \ {i} : task'[j] = task[j]
           /\ task'[i] = [task[i] EXCEPT !.pc = pc]
<1>1. [task[i] EXCEPT !.pc = pc] \in Tasks
  BY DEF SwapTypeOK, Tasks
<1>2. MovesTo(i, [task[i] EXCEPT !.pc = pc])
  BY DEF Goto, MovesTo
<1> QED BY <1>1, <1>2, TaskMoved DEF SwapTypeOK

LEMMA HandlerMoves ==
    ASSUME SwapInv, NEW i \in Slots, Handles(i)
    PROVE  CallsMoveOnly(i)
<1>0. SwapTypeOK /\ task \in [Slots -> Tasks] /\ kind \in [full : BOOLEAN, chatty : BOOLEAN]
  BY EvmSwapAssumption DEF SwapInv, SwapTypeOK
<1>1. ASSUME NEW s \in Swaps, RequestPrepare(i, s) PROVE CallsMoveOnly(i)
  <2> DEFINE t == [Idle EXCEPT !.pc = "building", !.swap = s]
  <2>1. t \in Tasks /\ t.pc = "building" /\ t.swap = s /\ t.seen /\ t.round = 0
    BY IdleType DEF Tasks, Steps
  <2>2. MovesTo(i, t) /\ ~kind.full
    BY <1>1 DEF RequestPrepare, MovesTo
  <2> HIDE DEF t
  <2> QED BY <1>0, <1>1, <2>1, <2>2, TaskMoved, ZenonT(60) DEF CallsMoveOnly, Moved
<1>2. ASSUME NEW s \in Swaps, StartFullAccess(i, s) PROVE CallsMoveOnly(i)
  <2> DEFINE t == [Idle EXCEPT !.pc = "building", !.swap = s, !.round = 1]
  <2>1. t \in Tasks /\ t.pc = "building" /\ t.swap = s /\ t.seen /\ t.round = 1
    <3>1. 1 \in 0..2
      OBVIOUS
    <3> QED BY <3>1, BeginType, Zenon
  <2>2. MovesTo(i, t) /\ kind.full
    BY <1>2 DEF StartFullAccess, MovesTo
  <2> HIDE DEF t
  <2> QED BY <1>0, <1>2, <2>1, <2>2, TaskMoved, ZenonT(60) DEF CallsMoveOnly, Moved
<1>3. ASSUME NEW p \in Preflights, PrepareDone(i, p) PROVE CallsMoveOnly(i)
  <2> DEFINE t == [task[i] EXCEPT !.pc = "starting", !.of = p]
  <2>1. t \in Tasks
    BY <1>0 DEF Tasks, Steps
  <2>2. (MovesTo(i, t) /\ Proceeds(task[i].round, preflight'[p].action)) \/ End(i)
    <3>1. PICK action \in NeededActions(task[i].swap) :
            /\ preflight' = [preflight EXCEPT ![p] = [swap |-> task[i].swap, action |-> action, kept |-> TRUE]]
            /\ IF Proceeds(task[i].round, action)
               THEN task' = [task EXCEPT ![i].pc = "starting", ![i].of = p]
               ELSE End(i)
      BY <1>3 DEF PrepareDone
    <3>2. preflight'[p].action = action
      BY <1>0, <3>1 DEF SwapTypeOK
    <3> QED BY <3>1, <3>2 DEF MovesTo
  <2>3. ASSUME MovesTo(i, t), Proceeds(task[i].round, preflight'[p].action) PROVE CallsMoveOnly(i)
    <3> HIDE DEF t
    <3>1. task' \in [Slots -> Tasks] /\ task'[i] = t /\ \A j \in Slots \ {i} : task'[j] = task[j]
      BY <1>0, <2>1, <2>3, TaskMoved
    <3>2. Moved(i)
      BY <1>3, <2>3, <3>1 DEF Moved, t
    <3> QED BY <3>1, <3>2 DEF CallsMoveOnly
  <2> QED BY <1>0, <2>2, <2>3, EndMoves
<1>4. CASE PrepareFails(i) \/ ExecutionRefused(i)
  BY <1>0, <1>4, EndMoves DEF PrepareFails, ExecutionRefused
<1>5. CASE SubmitDialog(i)
  <2> DEFINE t == [Idle EXCEPT !.pc = "verifying", !.of = modal, !.swap = preflight[modal].swap]
  <2>1. MovesTo(i, t) \/ task' = task
    BY <1>5 DEF SubmitDialog, MovesTo
  <2>2. t \in Tasks
    <3>1. modal \in Preflights
      BY <1>0, <1>5 DEF SubmitDialog, SwapTypeOK
    <3>2. preflight[modal].swap \in Swaps \cup {None}
      BY <1>0, <3>1 DEF SwapTypeOK
    <3> QED BY <3>1, <3>2, IdleType DEF Tasks, Steps
  <2>3. ASSUME MovesTo(i, t) PROVE CallsMoveOnly(i)
    <3> HIDE DEF t
    <3>1. task' \in [Slots -> Tasks] /\ task'[i] = t /\ \A j \in Slots \ {i} : task'[j] = task[j]
      BY <1>0, <2>2, <2>3, TaskMoved
    <3>2. Moved(i)
      BY <1>5, <3>1 DEF Moved, t
    <3> QED BY <3>1, <3>2 DEF CallsMoveOnly
  <2> QED BY <1>0, <2>1, <2>3 DEF CallsMoveOnly, Moved
<1>6. CASE Takes(i)
  <2>1. (preflight[task[i].of].kept /\ Goto(i, "checking")) \/ End(i)
    BY <1>6 DEF Takes, PasswordVerified, StartUnattended
  <2>2. ASSUME preflight[task[i].of].kept, Goto(i, "checking") PROVE CallsMoveOnly(i)
    BY <1>0, <1>6, <2>2, GotoIs DEF CallsMoveOnly, Moved, Steps
  <2> QED BY <1>0, <2>1, <2>2, EndMoves
<1>7. CASE Send(i)
  <2>1. Goto(i, "saving") \/ End(i)
    BY <1>7 DEF Send
  <2> QED BY <1>0, <1>7, <2>1, EndMoves, GotoIs DEF CallsMoveOnly, Moved, Steps
<1>8. CASE SavePending(i)
  <2>1. (unlocked /\ Goto(i, "waiting")) \/ End(i)
    BY <1>8 DEF SavePending
  <2> QED BY <1>0, <1>8, <2>1, EndMoves, GotoIs DEF CallsMoveOnly, Moved, Steps
<1>9. CASE Answers(i)
  <2> DEFINE t == [task[i] EXCEPT !.pc = "building", !.of = None, !.round = 2]
  <2>1. t \in Tasks
    <3>1. task[i] \in Tasks
      BY <1>0
    <3>2. 2 \in 0..2
      OBVIOUS
    <3> QED BY <3>1, <3>2, ResumeType, Zenon
  <2>2. \/ /\ task[i].round = 1 /\ MovesTo(i, t)
           /\ chain[task[i].of] = "success" /\ preflight[task[i].of].action = "approval"
        \/ End(i)
    <3>1. ASSUME NEW status, Answer(i, status)
          PROVE  \/ /\ task[i].round = 1 /\ MovesTo(i, t)
                    /\ status = "confirmed" /\ preflight[task[i].of].action = "approval"
                 \/ End(i)
      BY <3>1 DEF Answer, MovesTo
    <3>2. CASE ReceiptMissed(i)
      BY <3>1, <3>2 DEF ReceiptMissed
    <3>3. CASE ReceiptArrives(i)
      BY <3>1, <3>3 DEF ReceiptArrives, Outcome
    <3> QED BY <1>9, <3>2, <3>3 DEF Answers
  <2>3. ASSUME task[i].round = 1, MovesTo(i, t),
               chain[task[i].of] = "success", preflight[task[i].of].action = "approval"
        PROVE  CallsMoveOnly(i)
    <3> HIDE DEF t
    <3>1. task' \in [Slots -> Tasks] /\ task'[i] = t /\ \A j \in Slots \ {i} : task'[j] = task[j]
      BY <1>0, <2>1, <2>3, TaskMoved
    <3>2. Moved(i)
      BY <1>9, <2>3, <3>1 DEF Moved, t
    <3> QED BY <3>1, <3>2 DEF CallsMoveOnly
  <2> QED BY <1>0, <2>2, <2>3, EndMoves
<1> QED BY <1>1, <1>2, <1>3, <1>4, <1>5, <1>6, <1>7, <1>8, <1>9 DEF Handles, Takes, Answers

LEMMA WhoMoves ==
    ASSUME [SwapNext]_swapVars
    PROVE  \/ \E i \in Slots : Handles(i)
           \/ /\ task' = task
              /\ ~Unlock /\ ~Restart
           \/ Unlock \/ Restart
BY DEF SwapNext, Handles, OpenDialog, CloseDialog, ReconcileList, ReconcileOne, ReconcileSkips,
       ChatSend, ChatAnswer, Lock, SaveSession, Engage, Release, Expire, Mine, swapVars

LEMMA WhoPrepares ==
    ASSUME [SwapNext]_swapVars
    PROVE  \/ preflight' = preflight
           \/ \E i \in Slots, p \in Preflights : PrepareDone(i, p)
           \/ \E i \in Slots : Takes(i)
           \/ \E p \in Preflights : Consume(p)
           \/ Restart
BY DEF SwapNext, RequestPrepare, StartFullAccess, PrepareFails, SubmitDialog, ExecutionRefused,
       Send, SavePending, ReceiptArrives, ReceiptMissed, OpenDialog, CloseDialog, ReconcileList,
       ReconcileOne, ReconcileSkips, ChatSend, ChatAnswer, Lock, Unlock, SaveSession, Engage,
       Release, Expire, Mine, Takes, lane, swapVars

LEMMA WhoSends ==
    ASSUME [SwapNext]_swapVars
    PROVE  \/ chain' = chain
           \/ \E i \in Slots : Send(i)
           \/ \E p \in Preflights : Mine(p)
BY DEF SwapNext, RequestPrepare, StartFullAccess, PrepareDone, PrepareFails, SubmitDialog,
       PasswordVerified, StartUnattended, ExecutionRefused,
       SavePending, ReceiptArrives, ReceiptMissed, OpenDialog, CloseDialog, ReconcileList,
       ReconcileOne, ReconcileSkips, ChatSend, ChatAnswer, Lock, Unlock, SaveSession, Engage,
       Release, Expire, Restart, network, swapVars

LEMMA WhoSaves ==
    ASSUME [SwapNext]_swapVars
    PROVE  \/ receipts' = receipts
           \/ \E i \in Slots : SavePending(i) /\ unlocked
           \/ \E i \in Slots : ReceiptArrives(i)
           \/ \E p \in Preflights : ReconcileOne(p)
BY DEF SwapNext, RequestPrepare, StartFullAccess, PrepareDone, PrepareFails, SubmitDialog,
       PasswordVerified, StartUnattended, ExecutionRefused, Send, SavePending,
       ReceiptMissed, OpenDialog, CloseDialog, ReconcileList,
       ReconcileSkips, ChatSend, ChatAnswer, Lock, Unlock, SaveSession, Engage,
       Release, Expire, Restart, Mine, lane, swapVars

\* A preflight keeps its swap and its action, and once taken stays taken.
PreflightMoves(p) ==
    \/ /\ preflight'[p].swap = preflight[p].swap /\ preflight'[p].action = preflight[p].action
       /\ preflight'[p].kept => preflight[p].kept
    \/ /\ preflight[p].swap = None
       /\ preflight'[p].swap \in Swaps
       /\ preflight'[p].action \in {"approval", "swap"}
       /\ \E i \in Slots : PrepareDone(i, p) /\ preflight'[p].swap = task[i].swap

PreflightType ==
    [swap : Swaps \cup {None}, kept : BOOLEAN, action : {"none", "approval", "swap"}]

LEMMA PreparedIs ==
    ASSUME SwapInv, NEW i \in Slots, NEW p \in Preflights, PrepareDone(i, p)
    PROVE  /\ preflight' \in [Preflights -> PreflightType]
           /\ preflight[p].swap = None
           /\ task[i].pc = "building" /\ task[i].swap \in Swaps
           /\ preflight'[p].swap = task[i].swap /\ preflight'[p].kept
           /\ preflight'[p].action \in {"approval", "swap"}
           /\ \A q \in Preflights \ {p} : preflight'[q] = preflight[q]
<1>1. task[i].pc = "building" /\ task[i].swap \in Swaps
  BY CallFields DEF PrepareDone, At
<1>2. PICK action \in NeededActions(task[i].swap) :
        preflight' = [preflight EXCEPT ![p] = [swap |-> task[i].swap, action |-> action, kept |-> TRUE]]
  BY DEF PrepareDone
<1>3. action \in {"approval", "swap"}
  BY <1>2 DEF NeededActions
<1>4. preflight \in [Preflights -> PreflightType]
  BY DEF SwapInv, SwapTypeOK, PreflightType
<1>5. preflight[p].swap = None
  BY DEF PrepareDone
<1>6. [swap |-> task[i].swap, action |-> action, kept |-> TRUE] \in PreflightType
  BY <1>1, <1>3 DEF PreflightType
<1> QED BY <1>1, <1>2, <1>3, <1>4, <1>5, <1>6

LEMMA TakesIs ==
    ASSUME SwapInv, NEW i \in Slots, Takes(i)
    PROVE  /\ task[i].of \in Preflights /\ Consume(task[i].of)
           /\ task[i].pc \in {"verifying", "starting"}
           /\ task[i].swap \in Swaps /\ preflight[task[i].of].swap = task[i].swap
BY CallFields DEF Takes, PasswordVerified, StartUnattended, At, Execution

LEMMA PreflightsMove ==
    ASSUME SwapInv, [SwapNext]_swapVars
    PROVE  /\ preflight' \in [Preflights -> PreflightType]
           /\ \A p \in Preflights : PreflightMoves(p)
<1>1. SwapTypeOK /\ preflight \in [Preflights -> PreflightType]
  BY DEF SwapInv, SwapTypeOK, PreflightType
<1>2. ASSUME NEW i \in Slots, NEW p \in Preflights, PrepareDone(i, p)
      PROVE  preflight' \in [Preflights -> PreflightType] /\ \A q \in Preflights : PreflightMoves(q)
  BY <1>2, PreparedIs DEF PreflightMoves
<1>3. ASSUME NEW p \in Preflights, Consume(p)
      PROVE  preflight' \in [Preflights -> PreflightType] /\ \A q \in Preflights : PreflightMoves(q)
  BY <1>1, <1>3, ConsumeType DEF PreflightMoves, PreflightType
<1>4. CASE Restart
  BY <1>1, <1>4 DEF Restart, PreflightMoves, PreflightType
<1>5. CASE preflight' = preflight
  BY <1>1, <1>5 DEF PreflightMoves
<1> QED BY <1>2, <1>3, <1>4, <1>5, WhoPrepares, TakesIs

\* A transaction is sent by the call that has taken it, and decided once.
ChainMoves(p) ==
    \/ chain'[p] = chain[p]
    \/ chain[p] = "pending" /\ chain'[p] \in {"success", "reverted"}
    \/ /\ chain[p] = "unsent" /\ chain'[p] = "pending"
       /\ \E i \in Slots : Send(i) /\ task[i].pc = "checking" /\ task[i].of = p

ChainType == {"unsent", "pending", "success", "reverted"}

LEMMA ChainMove ==
    ASSUME SwapInv, [SwapNext]_swapVars
    PROVE  /\ chain' \in [Preflights -> ChainType]
           /\ \A p \in Preflights : ChainMoves(p)
<1>1. chain \in [Preflights -> ChainType]
  BY DEF SwapInv, SwapTypeOK, ChainType
<1>2. CASE \E i \in Slots : Send(i)
  <2>1. PICK i \in Slots : Send(i)
    BY <1>2
  <2>2. task[i].pc = "checking" /\ task[i].of \in Preflights
    BY <2>1, CallFields DEF Send, At, Execution
  <2>3. chain[task[i].of] = "unsent"
    BY <2>2 DEF SwapInv, TakenInv, TakenOK, Taken
  <2>4. chain' = [chain EXCEPT ![task[i].of] = "pending"]
    BY <2>1 DEF Send
  <2> QED BY <1>1, <2>1, <2>2, <2>3, <2>4 DEF ChainMoves, ChainType
<1>3. CASE \E p \in Preflights : Mine(p)
  <2>1. PICK p \in Preflights : Mine(p)
    BY <1>3
  <2>2. /\ chain[p] = "pending"
        /\ \/ chain' = [chain EXCEPT ![p] = "success"]
           \/ chain' = [chain EXCEPT ![p] = "reverted"]
    BY <2>1 DEF Mine
  <2> QED BY <1>1, <2>2 DEF ChainMoves, ChainType
<1>4. CASE chain' = chain
  BY <1>1, <1>4 DEF ChainMoves
<1> QED BY <1>2, <1>3, <1>4, WhoSends

\* A receipt is made for a broadcast, and then says what the chain says.
ReceiptMoves(p) ==
    \/ receipts'[p] = receipts[p]
    \/ receipts[p] # "none" /\ Decided(p) /\ receipts'[p] = Outcome(p)
    \/ /\ receipts[p] = "none" /\ receipts'[p] = "unknown" /\ chain[p] # "unsent"
       /\ \E i \in Slots : SavePending(i) /\ unlocked /\ task[i].pc = "saving" /\ task[i].of = p

LEMMA ReceiptsMove ==
    ASSUME SwapInv, [SwapNext]_swapVars
    PROVE  /\ receipts' \in [Preflights -> Decisions \cup {"none"}]
           /\ \A p \in Preflights : ReceiptMoves(p)
<1>1. receipts \in [Preflights -> Decisions \cup {"none"}]
  BY DEF SwapInv, SwapTypeOK
<1>2. CASE \E i \in Slots : SavePending(i) /\ unlocked
  <2>1. PICK i \in Slots : SavePending(i) /\ unlocked
    BY <1>2
  <2>2. task[i].pc = "saving" /\ task[i].of \in Preflights
    BY <2>1, CallFields DEF SavePending, At, Execution
  <2>3. chain[task[i].of] # "unsent" /\ receipts[task[i].of] = "none"
    BY <2>2 DEF SwapInv, TakenInv, TakenOK, Taken
  <2>4. receipts' = [receipts EXCEPT ![task[i].of] = "unknown"]
    BY <2>1 DEF SavePending
  <2> QED BY <1>1, <2>1, <2>2, <2>3, <2>4 DEF ReceiptMoves, Decisions
<1>3. CASE \E i \in Slots : ReceiptArrives(i)
  <2>1. PICK i \in Slots : ReceiptArrives(i)
    BY <1>3
  <2>2. task[i].pc = "waiting" /\ task[i].of \in Preflights
    BY <2>1, CallFields DEF ReceiptArrives, At, Execution
  <2>3. receipts[task[i].of] # "none"
    BY <2>2 DEF SwapInv, TakenInv, TakenOK, Taken
  <2>4. Decided(task[i].of) /\ receipts' = [receipts EXCEPT ![task[i].of] = Outcome(task[i].of)]
    BY <2>1 DEF ReceiptArrives
  <2>5. Outcome(task[i].of) \in Decisions
    BY DEF Outcome, Decisions
  <2> QED BY <1>1, <2>2, <2>3, <2>4, <2>5 DEF ReceiptMoves
<1>4. CASE \E p \in Preflights : ReconcileOne(p)
  <2>1. PICK p \in Preflights : ReconcileOne(p)
    BY <1>4
  <2>2. /\ receipts[p] # "none" /\ Decided(p)
        /\ receipts' = [receipts EXCEPT ![p] = Outcome(p)]
    BY <2>1 DEF ReconcileOne, SwapInv, ReconInv
  <2>3. Outcome(p) \in Decisions
    BY DEF Outcome, Decisions
  <2> QED BY <1>1, <2>2, <2>3 DEF ReceiptMoves
<1>5. CASE receipts' = receipts
  BY <1>1, <1>5 DEF ReceiptMoves
<1> QED BY <1>2, <1>3, <1>4, <1>5, WhoSaves

LEMMA LaneStep == SwapInv /\ [SwapNext]_swapVars => LaneInv'
<1> SUFFICES ASSUME SwapInv, [SwapNext]_swapVars, NEW p \in Preflights
             PROVE  PreflightOK(preflight'[p], chain'[p], receipts'[p])
  BY DEF LaneInv
<1>1. /\ PreflightMoves(p) /\ ChainMoves(p) /\ ReceiptMoves(p)
      /\ PreflightOK(preflight[p], chain[p], receipts[p])
      /\ chain[p] \in ChainType /\ None \notin Swaps
  BY PreflightsMove, ChainMove, ReceiptsMove, EvmSwapAssumption
     DEF SwapInv, LaneInv, SwapTypeOK, ChainType
<1>2. ASSUME NEW i \in Slots, task[i].pc = "checking", task[i].of = p
      PROVE  ~preflight[p].kept /\ preflight[p].swap # None
  BY <1>2, <1>1, CallFields DEF SwapInv, TakenInv, TakenOK, Taken, Execution
<1>4. /\ preflight'[p].swap = None <=> preflight'[p].action = "none"
      /\ preflight'[p].kept => preflight'[p].swap # None
  BY <1>1 DEF PreflightMoves, PreflightOK
<1>5. preflight'[p].swap = None => chain'[p] = "unsent"
  BY <1>1, <1>2 DEF PreflightMoves, PreflightOK, ChainMoves
<1>6. preflight'[p].kept => chain'[p] = "unsent"
  BY <1>1, <1>2 DEF PreflightMoves, PreflightOK, ChainMoves
<1>7. /\ receipts'[p] # "none" => chain'[p] # "unsent"
      /\ receipts'[p] = "confirmed" => chain'[p] = "success"
      /\ receipts'[p] = "reverted" => chain'[p] = "reverted"
  BY <1>1 DEF ReceiptMoves, PreflightOK, ChainMoves, ChainType, Decided, Outcome
<1> QED BY <1>4, <1>5, <1>6, <1>7 DEF PreflightOK

-----------------------------------------------------------------------------
(* EVM swaps: the calls *)

\* A preflight with a swap keeps it, so a call that keeps its own stays right.
LEMMA PreflightKeeps ==
    ASSUME SwapInv, [SwapNext]_swapVars, NEW p \in Preflights, preflight[p].swap # None
    PROVE  preflight'[p].swap = preflight[p].swap /\ preflight'[p].action = preflight[p].action
           /\ (preflight'[p].kept => preflight[p].kept)
BY PreflightsMove DEF PreflightMoves

LEMMA SameCall ==
    ASSUME SwapInv, [SwapNext]_swapVars, NEW i \in Slots, NEW t,
           t.pc = task[i].pc, t.swap = task[i].swap, t.of = task[i].of
    PROVE  CallOK(t, preflight')
<1>1. CallOK(task[i], preflight) /\ None \notin Swaps
  BY EvmSwapAssumption DEF SwapInv, CallsInv
<1>2. t.pc \in Execution => preflight'[t.of].swap = t.swap
  <2>1. t.pc \in Execution => /\ t.of \in Preflights /\ preflight[t.of].swap = t.swap
                              /\ preflight[t.of].swap # None
    BY <1>1 DEF CallOK, Execution
  <2> QED BY <2>1, PreflightKeeps
<1> QED BY <1>1, <1>2 DEF CallOK

\* What of a call can change: it ends, begins, takes its preflight, or goes on with it.
LEMMA CallsMove ==
    ASSUME SwapInv, [SwapNext]_swapVars, NEW i \in Slots
    PROVE  /\ task' \in [Slots -> Tasks]
           /\ \/ task'[i] = task[i]
              \/ Handles(i) /\ CallsMoveOnly(i)
              \/ Restart /\ task'[i] = Idle
              \/ Unlock /\ task'[i] = IF task[i].pc = "idle" THEN Idle
                                      ELSE [task[i] EXCEPT !.seen = FALSE]
<1>1. task \in [Slots -> Tasks]
  BY DEF SwapInv, SwapTypeOK
<1>2. CASE \E j \in Slots : Handles(j)
  <2>1. PICK j \in Slots : Handles(j) /\ CallsMoveOnly(j)
    BY <1>2, HandlerMoves
  <2> QED BY <2>1 DEF CallsMoveOnly
<1>3. CASE Restart
  BY <1>3, IdleType DEF Restart
<1>4. CASE Unlock
  <2>1. task' = [j \in Slots |-> IF task[j].pc = "idle" THEN Idle
                                 ELSE [task[j] EXCEPT !.seen = FALSE]]
    BY <1>4 DEF Unlock, At
  <2>2. \A j \in Slots : [task[j] EXCEPT !.seen = FALSE] \in Tasks
    BY <1>1 DEF Tasks
  <2> QED BY <1>4, <2>1, <2>2, IdleType
<1>5. CASE task' = task
  BY <1>1, <1>5
<1> QED BY <1>2, <1>3, <1>4, <1>5, WhoMoves

LEMMA SubmittedIs ==
    ASSUME SwapInv, NEW i \in Slots, SubmitDialog(i)
    PROVE  /\ modal \in Preflights /\ preflight[modal].swap \in Swaps
           /\ task[i].pc = "idle" /\ unlocked' = unlocked
           /\ UNCHANGED <<preflight, shown, stored, chat>> /\ modal' = None
           /\ LET t == [Idle EXCEPT !.pc = "verifying", !.of = modal, !.swap = preflight[modal].swap]
              IN  /\ t.pc = "verifying" /\ t.of = modal /\ t.swap = preflight[modal].swap
                  /\ t.round = 0 /\ t.seen
<1>1. modal \in Preflights
  BY DEF SubmitDialog, SwapInv, SwapTypeOK
<1>2. preflight[modal].swap \in Swaps
  BY <1>1 DEF SubmitDialog, SwapInv, SwapTypeOK, WindowInv
<1>3. task[i].pc = "idle" /\ UNCHANGED <<preflight, shown, stored, chat, unlocked>> /\ modal' = None
  BY DEF SubmitDialog, At, lane, gates
<1> QED BY <1>1, <1>2, <1>3, IdleType DEF Tasks

LEMMA CallsStep == SwapInv /\ [SwapNext]_swapVars => CallsInv'
<1> SUFFICES ASSUME SwapInv, [SwapNext]_swapVars, NEW i \in Slots
             PROVE  CallOK(task'[i], preflight')
  BY DEF CallsInv
<1>1. task[i] \in Tasks /\ task' \in [Slots -> Tasks] /\ None \notin Swaps
  BY CallFields, CallsMove, EvmSwapAssumption
<1>2. CASE task'[i].pc = "idle"
  BY <1>2 DEF CallOK, Execution
<1>3. CASE Handles(i) /\ Moved(i) /\ task'[i].pc # "idle" /\ task'[i] # task[i]
  <2>1. CASE \E s \in Swaps : task'[i].swap = s /\ task'[i].pc = "building"
    BY <2>1 DEF CallOK, Execution
  <2>2. CASE SubmitDialog(i) /\ task'[i] = [Idle EXCEPT !.pc = "verifying", !.of = modal,
                                                       !.swap = preflight[modal].swap]
    BY <2>2, SubmittedIs DEF CallOK, Execution
  <2>3. ASSUME NEW p \in Preflights, PrepareDone(i, p),
               task'[i] = [task[i] EXCEPT !.pc = "starting", !.of = p]
        PROVE  CallOK(task'[i], preflight')
    <3>1. task'[i].pc = "starting" /\ task'[i].of = p /\ task'[i].swap = task[i].swap
      BY <1>1, <2>3 DEF Tasks
    <3> QED BY <2>3, <3>1, PreparedIs DEF CallOK, Execution
  <2>4. ASSUME NEW pc, task[i].pc \in Execution, task'[i] = [task[i] EXCEPT !.pc = pc]
        PROVE  CallOK(task'[i], preflight')
    <3>1. task'[i].of = task[i].of /\ task'[i].swap = task[i].swap
      BY <1>1, <2>4 DEF Tasks
    <3>2. /\ task[i].of \in Preflights /\ task[i].swap \in Swaps
          /\ preflight[task[i].of].swap = task[i].swap
      BY <2>4, CallFields DEF Execution
    <3> QED BY <1>1, <3>1, <3>2, PreflightKeeps DEF CallOK
  <2>5. CASE /\ Answers(i)
             /\ task'[i] = [task[i] EXCEPT !.pc = "building", !.of = None, !.round = 2]
    <3>1. task[i].swap \in Swaps
      BY <2>5, CallFields DEF Answers, ReceiptArrives, ReceiptMissed, At
    <3>2. task'[i].pc = "building" /\ task'[i].swap = task[i].swap
      BY <1>1, <2>5 DEF Tasks
    <3> QED BY <3>1, <3>2 DEF CallOK, Execution
  <2>6. Takes(i) \/ Send(i) \/ SavePending(i) => task[i].pc \in Execution
    BY DEF Takes, PasswordVerified, StartUnattended, Send, SavePending, At, Execution
  <2> QED BY <1>3, <2>1, <2>2, <2>3, <2>4, <2>5, <2>6 DEF Moved
<1>4. CASE task'[i].pc = task[i].pc /\ task'[i].swap = task[i].swap /\ task'[i].of = task[i].of
  BY <1>4, SameCall
<1>5. CASE Unlock /\ task'[i] = [task[i] EXCEPT !.seen = FALSE]
  <2>1. task'[i].pc = task[i].pc /\ task'[i].swap = task[i].swap /\ task'[i].of = task[i].of
    BY <1>1, <1>5 DEF Tasks
  <2> QED BY <1>4, <2>1
<1> QED BY <1>2, <1>3, <1>4, <1>5, CallsMove, IdleType DEF CallsMoveOnly, Moved

-----------------------------------------------------------------------------
(* EVM swaps: a preflight is taken once *)

Bears(i) == task[i].pc \in Taken

\* Who bears a preflight after a step bore it before, or has taken it now.
LEMMA BearsMoves ==
    ASSUME SwapInv, [SwapNext]_swapVars, NEW i \in Slots, Bears(i)'
    PROVE  /\ task'[i].of = task[i].of
           /\ \/ Bears(i) /\ task'[i].pc = task[i].pc
              \/ /\ Takes(i) /\ task'[i].pc = "checking"
                 /\ preflight[task[i].of].kept /\ Consume(task[i].of)
              \/ task[i].pc = "checking" /\ Send(i) /\ task'[i].pc = "saving"
              \/ task[i].pc = "saving" /\ SavePending(i) /\ unlocked /\ task'[i].pc = "waiting"
<1>1. task[i] \in Tasks /\ task'[i].pc \in Taken
  BY CallFields DEF Bears
<1>2. CASE Handles(i) /\ Moved(i) /\ task'[i] # task[i]
  <2>1. CASE SubmitDialog(i) /\ task'[i] = [Idle EXCEPT !.pc = "verifying", !.of = modal,
                                                       !.swap = preflight[modal].swap]
    BY <1>1, <2>1, SubmittedIs DEF Taken
  <2>2. ASSUME NEW p \in Preflights, task'[i] = [task[i] EXCEPT !.pc = "starting", !.of = p]
        PROVE  FALSE
    BY <1>1, <2>2 DEF Taken, Tasks
  <2>3. CASE Takes(i) /\ preflight[task[i].of].kept /\ task'[i] = [task[i] EXCEPT !.pc = "checking"]
    BY <1>1, <2>3, TakesIs DEF Tasks
  <2>4. CASE Send(i) /\ task'[i] = [task[i] EXCEPT !.pc = "saving"]
    BY <1>1, <2>4 DEF Tasks, Send, At
  <2>5. CASE SavePending(i) /\ unlocked /\ task'[i] = [task[i] EXCEPT !.pc = "waiting"]
    BY <1>1, <2>5 DEF Tasks, SavePending, At
  <2>6. ASSUME task'[i] = [task[i] EXCEPT !.pc = "building", !.of = None, !.round = 2]
        PROVE  FALSE
    <3>1. task'[i].pc = "building"
      BY <1>1, <2>6 DEF Tasks
    <3> QED BY <1>1, <3>1 DEF Taken
  <2>7. task'[i].pc # "idle" /\ task'[i].pc # "building"
    BY <1>1 DEF Taken
  <2> QED BY <1>2, <2>1, <2>2, <2>3, <2>4, <2>5, <2>6, <2>7 DEF Moved
<1>3. CASE task'[i] = task[i]
  BY <1>1, <1>3 DEF Bears
<1>4. CASE Unlock /\ task'[i] = [task[i] EXCEPT !.seen = FALSE]
  BY <1>1, <1>4 DEF Tasks, Bears
<1>5. Idle.pc \notin Taken
  BY IdleType DEF Taken
<1> QED BY <1>1, <1>2, <1>3, <1>4, <1>5, CallsMove DEF CallsMoveOnly

LEMMA TakenStep == SwapInv /\ [SwapNext]_swapVars => TakenInv'
<1> SUFFICES ASSUME SwapInv, [SwapNext]_swapVars PROVE TakenInv'
  OBVIOUS
<1>1. TakenOnce(task) /\ None \notin Swaps
  BY EvmSwapAssumption DEF SwapInv, TakenInv
<1>2. ASSUME NEW i \in Slots, Bears(i)
      PROVE  /\ task[i].of \in Preflights /\ preflight[task[i].of].swap # None
             /\ TakenOK(task[i], preflight, chain, receipts)
  BY <1>1, <1>2, CallFields DEF Bears, Taken, Execution, SwapInv, TakenInv
<1>3. ASSUME NEW i \in Slots, Takes(i), preflight[task[i].of].kept
      PROVE  /\ task[i].of \in Preflights /\ preflight[task[i].of].swap # None
             /\ chain[task[i].of] = "unsent" /\ receipts[task[i].of] = "none"
             /\ \A j \in Slots : Bears(j) => task[j].of # task[i].of
             /\ UNCHANGED <<chain, receipts>> /\ ~preflight'[task[i].of].kept
  <2>1. /\ task[i].of \in Preflights /\ preflight[task[i].of].swap # None
        /\ Consume(task[i].of)
    BY <1>1, <1>3, TakesIs
  <2>2. PreflightOK(preflight[task[i].of], chain[task[i].of], receipts[task[i].of])
    BY <2>1 DEF SwapInv, LaneInv
  <2>3. UNCHANGED <<chain, receipts>>
    BY <1>3 DEF Takes, PasswordVerified, StartUnattended, network
  <2>4. ~preflight'[task[i].of].kept
    BY <2>1, ConsumeType DEF SwapInv
  <2> QED BY <1>2, <1>3, <2>1, <2>2, <2>3, <2>4 DEF PreflightOK, TakenOK, Bears
<1>4. TakenOnce(task')
  <2> SUFFICES ASSUME NEW i \in Slots, NEW j \in Slots, Bears(i)', Bears(j)',
                      task'[i].of = task'[j].of, i # j
               PROVE  FALSE
    BY DEF TakenOnce, Bears
  <2>1. task[i].of = task[j].of
    BY BearsMoves
  <2>2. CASE Bears(i) /\ Bears(j)
    BY <1>1, <2>1, <2>2 DEF TakenOnce, Bears
  <2>3. ASSUME NEW k \in Slots, NEW l \in Slots, k # l, Bears(k)', Bears(l)', ~Bears(k),
               task[k].of = task[l].of
        PROVE  FALSE
    <3>1. Takes(k) /\ preflight[task[k].of].kept
      BY <2>3, BearsMoves DEF Bears, Taken
    <3>2. ~Bears(l)
      BY <1>3, <2>3, <3>1
    <3>3. Takes(l) /\ task'[l].pc = "checking" /\ task[l].pc \in {"verifying", "starting"}
      BY <2>3, <3>2, BearsMoves, TakesIs DEF Bears, Taken
    <3>4. Handles(k) /\ CallsMoveOnly(k)
      BY <3>1, HandlerMoves DEF Handles, Takes
    <3> QED BY <2>3, <3>3, <3>4 DEF CallsMoveOnly
  <2> QED BY <2>1, <2>2, <2>3
<1>5. ASSUME NEW i \in Slots PROVE TakenOK(task'[i], preflight', chain', receipts')
  <2> SUFFICES ASSUME Bears(i)' PROVE TakenOK(task'[i], preflight', chain', receipts')
    BY DEF TakenOK, Bears
  <2> DEFINE p == task[i].of
  <2>0. task'[i].of = p
    BY BearsMoves
  <2>1. CASE Takes(i) /\ task'[i].pc = "checking" /\ preflight[p].kept
    BY <1>3, <2>0, <2>1 DEF TakenOK
  <2>2. CASE Bears(i)
    <3>1. /\ p \in Preflights /\ preflight[p].swap # None
          /\ TakenOK(task[i], preflight, chain, receipts)
      BY <1>2, <2>2
    <3>2. ~preflight'[p].kept
      BY <2>2, <3>1, PreflightKeeps DEF TakenOK, Bears
    <3>3. ASSUME NEW j \in Slots, Bears(j), task[j].of = p PROVE j = i
      BY <1>1, <2>2, <3>3 DEF TakenOnce, Bears
    <3>4. ChainMoves(p) /\ ReceiptMoves(p)
      BY <3>1, ChainMove, ReceiptsMove
    <3>5. /\ Send(i) => chain'[p] = "pending"
          /\ SavePending(i) /\ unlocked => receipts'[p] = "unknown"
      BY <3>1 DEF Send, SavePending, SwapInv, SwapTypeOK
    <3>6. (chain'[p] # "unsent" /\ chain[p] = "unsent") => Send(i)
      BY <3>3, <3>4 DEF ChainMoves, Bears, Taken
    <3>7. (receipts'[p] # "none" /\ receipts[p] = "none") => SavePending(i) /\ unlocked
      BY <3>3, <3>4 DEF ReceiptMoves, Bears, Taken
    <3>8. (chain'[p] = "unsent" => chain[p] = "unsent") /\ (receipts'[p] = "none" => receipts[p] = "none")
      BY <3>4 DEF ChainMoves, ReceiptMoves, Outcome
    <3>9. Send(i) => task'[i].pc = "saving"
      <4> SUFFICES ASSUME Send(i) PROVE task'[i].pc = "saving"
        OBVIOUS
      <4>1. Goto(i, "saving") \/ End(i)
        BY DEF Send
      <4> QED BY <4>1, EndMoves, GotoIs, CallFields, ZenonT(60) DEF SwapInv, Bears, Taken, Steps, Tasks
    <3>10. SavePending(i) /\ unlocked => task'[i].pc = "waiting"
      BY GotoIs, CallFields DEF SavePending, SwapInv, Steps, Tasks
    <3> QED BY <2>0, <2>2, <3>1, <3>2, <3>5, <3>6, <3>7, <3>8, <3>9, <3>10, BearsMoves
            DEF TakenOK, Bears, Send, SavePending, At
  <2> QED BY <2>1, <2>2, BearsMoves DEF Bears, Taken
<1> QED BY <1>4, <1>5 DEF TakenInv

-----------------------------------------------------------------------------
(* EVM swaps: the window *)

Copies == [Swaps -> Messages]

LEMMA WhoShows ==
    ASSUME [SwapNext]_swapVars
    PROVE  \/ UNCHANGED <<shown, stored>>
           \/ \E i \in Slots, p \in Preflights : PrepareDone(i, p)
           \/ \E i \in Slots : Answers(i)
           \/ ChatAnswer \/ Unlock \/ Restart
BY ZenonT(60) DEF SwapNext, RequestPrepare, StartFullAccess, PrepareFails, SubmitDialog,
       PasswordVerified, StartUnattended, ExecutionRefused, Send, SavePending, Report,
       OpenDialog, CloseDialog, ReconcileList, ReconcileOne, Answers,
       ReconcileSkips, ChatSend, Lock, SaveSession, Engage,
       Release, Expire, Mine, window, swapVars

LEMMA WhoOpens ==
    ASSUME [SwapNext]_swapVars
    PROVE  \/ modal' = modal
           \/ modal' = None
           \/ \E s \in Swaps : OpenDialog(s)
BY ZenonT(60) DEF SwapNext, RequestPrepare, StartFullAccess, PrepareDone, PrepareFails, SubmitDialog,
       PasswordVerified, StartUnattended, ExecutionRefused, Send, SavePending, Report,
       ReceiptArrives, ReceiptMissed, Answer,
       CloseDialog, ReconcileList, ReconcileOne, ReconcileSkips, ChatSend, ChatAnswer, Lock,
       Unlock, SaveSession, Engage, Release, Expire, Restart, Mine, window, swapVars

LEMMA WhoChats ==
    ASSUME [SwapNext]_swapVars
    PROVE  \/ chat' = chat
           \/ chat' = None
           \/ ChatSend
BY ZenonT(60) DEF SwapNext, RequestPrepare, StartFullAccess, PrepareDone, PrepareFails, SubmitDialog,
       PasswordVerified, StartUnattended, ExecutionRefused, Send, SavePending, Report,
       ReceiptArrives, ReceiptMissed, Answer, OpenDialog,
       CloseDialog, ReconcileList, ReconcileOne, ReconcileSkips, ChatAnswer, Lock,
       Unlock, SaveSession, Engage, Release, Expire, Restart, Mine, window, swapVars

LEMMA CopyKeeps ==
    ASSUME SwapInv, [SwapNext]_swapVars, NEW m \in Messages, NEW s \in Swaps,
           CopyOK(m, s, preflight)
    PROVE  CopyOK(m, s, preflight')
<1>1. None \notin Swaps /\ m.card \in Preflights \cup {None} /\ m.receipts \in Seq(Receipts)
  BY EvmSwapAssumption, MessageFields
<1>2. \A n \in DOMAIN m.receipts : m.receipts[n] \in Receipts
  BY <1>1
<1>3. m.card # None => preflight'[m.card].swap = s
  BY <1>1, PreflightKeeps DEF CopyOK
<1>4. ASSUME NEW n \in DOMAIN m.receipts PROVE preflight'[m.receipts[n].of].swap # None
  BY <1>2, PreflightKeeps DEF CopyOK, Receipts
<1> QED BY <1>3, <1>4 DEF CopyOK

LEMMA CopiesKeep ==
    ASSUME SwapInv, [SwapNext]_swapVars, NEW c \in Copies, CopiesOK(c, preflight)
    PROVE  CopiesOK(c, preflight')
BY CopyKeeps DEF Copies, CopiesOK

\* What a card becomes: prepared, or answered.
ShownBy(i, m) ==
    \/ \E p \in Preflights : PrepareDone(i, p) /\ m = [shown[task[i].swap] EXCEPT !.card = p]
    \/ ReceiptMissed(i) /\ m = Answered(shown[task[i].swap], task[i].of, "unknown")
    \/ ReceiptArrives(i) /\ m = Answered(shown[task[i].swap], task[i].of, Outcome(task[i].of))

LEMMA ShowIs ==
    ASSUME SwapInv, [SwapNext]_swapVars, NEW i \in Slots,
           (\E p \in Preflights : PrepareDone(i, p)) \/ Answers(i)
    PROVE  \E m \in Messages :
             /\ ShownBy(i, m) /\ Show(i, m) /\ CopyOK(m, task[i].swap, preflight')
             /\ task[i].swap \in Swaps /\ UNCHANGED <<modal, chat>>
<1>0. shown \in Copies /\ stored \in Copies
  BY DEF SwapInv, SwapTypeOK, Copies
<1>1. ASSUME NEW p \in Preflights, PrepareDone(i, p)
      PROVE  \E m \in Messages :
               /\ ShownBy(i, m) /\ Show(i, m) /\ CopyOK(m, task[i].swap, preflight')
               /\ task[i].swap \in Swaps /\ UNCHANGED <<modal, chat>>
  <2> DEFINE s == task[i].swap
             m == [shown[s] EXCEPT !.card = p]
  <2>1. /\ s \in Swaps /\ preflight'[p].swap = s
        /\ Show(i, m) /\ UNCHANGED <<modal, chat>>
    BY <1>1, PreparedIs DEF PrepareDone
  <2>2. shown[s] \in Messages
    BY <1>0, <2>1 DEF Copies
  <2>3. m \in Messages /\ m.card = p /\ m.receipts = shown[s].receipts
    BY <2>2, CardType
  <2>4. CopyOK(shown[s], s, preflight')
    BY <2>1, <2>2, CopyKeeps DEF SwapInv, WindowInv, CopiesOK
  <2>5. ShownBy(i, m)
    BY <1>1 DEF ShownBy
  <2> HIDE DEF m
  <2>6. CopyOK(m, s, preflight')
    BY <2>1, <2>3, <2>4 DEF CopyOK
  <2> QED BY <2>1, <2>3, <2>5, <2>6
<1>2. CASE Answers(i)
  <2> DEFINE s == task[i].swap
             p == task[i].of
  <2>1. task[i].pc = "waiting" /\ s \in Swaps /\ p \in Preflights /\ preflight[p].swap = s
    BY <1>2, CallFields DEF Answers, ReceiptArrives, ReceiptMissed, At, Execution
  <2>2. shown[s] \in Messages /\ CopyOK(shown[s], s, preflight')
    <3>1. shown[s] \in Messages
      BY <1>0, <2>1 DEF Copies
    <3> QED BY <2>1, <3>1, CopyKeeps DEF SwapInv, WindowInv, CopiesOK
  <2>3. preflight'[p].swap # None
    BY <2>1, PreflightKeeps, EvmSwapAssumption
  <2>4. ASSUME NEW status \in Decisions, Answer(i, status)
        PROVE  LET m == Answered(shown[s], p, status) IN
               /\ m \in Messages /\ Show(i, m) /\ CopyOK(m, s, preflight')
               /\ UNCHANGED <<modal, chat>>
    <3> DEFINE m == Answered(shown[s], p, status)
    <3>1. m \in Messages
      BY <2>1, <2>2, AnsweredType
    <3>2. Show(i, m) /\ UNCHANGED <<modal, chat>>
      BY <2>4 DEF Answer, Answered
    <3>3. m.card = None
      BY DEF Answered
    <3>4. ASSUME NEW n \in DOMAIN m.receipts PROVE preflight'[m.receipts[n].of].swap # None
      <4>1. /\ DOMAIN m.receipts = 1..(Len(shown[s].receipts) + 1)
            /\ DOMAIN shown[s].receipts = 1..Len(shown[s].receipts)
            /\ Len(m.receipts) = Len(shown[s].receipts) + 1
            /\ Len(shown[s].receipts) \in Nat
            /\ \A k \in DOMAIN shown[s].receipts : m.receipts[k] = shown[s].receipts[k]
            /\ m.receipts[Len(m.receipts)] = [of |-> p, status |-> status]
        BY <2>1, <2>2, AnsweredFields, SMTT(60)
      <4> HIDE DEF m
      <4>2. CASE n = Len(m.receipts)
        BY <2>3, <4>1, <4>2, SMTT(60)
      <4>3. CASE n # Len(m.receipts)
        <5>1. n \in DOMAIN shown[s].receipts
          BY <3>4, <4>1, <4>3
        <5> QED BY <2>2, <4>1, <5>1 DEF CopyOK
      <4> QED BY <4>2, <4>3
    <3> QED BY <3>1, <3>2, <3>3, <3>4 DEF CopyOK
  <2>5. CASE ReceiptMissed(i)
    <3>1. Answer(i, "unknown") /\ "unknown" \in Decisions
      BY <2>5 DEF ReceiptMissed, Decisions
    <3>2. ShownBy(i, Answered(shown[s], p, "unknown"))
      BY <2>5 DEF ShownBy
    <3> QED BY <2>1, <2>4, <3>1, <3>2
  <2>6. CASE ReceiptArrives(i)
    <3>1. Answer(i, Outcome(p)) /\ Outcome(p) \in Decisions
      BY <2>6 DEF ReceiptArrives, Decisions, Outcome
    <3>2. ShownBy(i, Answered(shown[s], p, Outcome(p)))
      BY <2>6 DEF ShownBy
    <3> QED BY <2>1, <2>4, <3>1, <3>2
  <2> QED BY <1>2, <2>5, <2>6 DEF Answers
<1> QED BY <1>1, <1>2

LEMMA ShowKeeps ==
    ASSUME SwapInv, NEW i \in Slots, NEW m \in Messages, NEW s \in Swaps, NEW pf,
           task[i].swap = s, Show(i, m), CopyOK(m, s, pf),
           CopiesOK(shown, pf), CopiesOK(stored, pf)
    PROVE  /\ shown' \in Copies /\ stored' \in Copies
           /\ CopiesOK(shown', pf) /\ CopiesOK(stored', pf)
<1>1. shown \in Copies /\ stored \in Copies
  BY DEF SwapInv, SwapTypeOK, Copies
<1>2. ASSUME NEW c \in Copies, CopiesOK(c, pf)
      PROVE  [c EXCEPT ![s] = m] \in Copies /\ CopiesOK([c EXCEPT ![s] = m], pf)
  BY <1>2 DEF Copies, CopiesOK
<1> QED BY <1>1, <1>2 DEF Show

LEMMA CopiesStep ==
    ASSUME SwapInv, [SwapNext]_swapVars
    PROVE  /\ shown' \in Copies /\ stored' \in Copies
           /\ CopiesOK(shown', preflight') /\ CopiesOK(stored', preflight')
<1>1. /\ shown \in Copies /\ CopiesOK(shown, preflight')
      /\ stored \in Copies /\ CopiesOK(stored, preflight')
  BY CopiesKeep DEF SwapInv, SwapTypeOK, Copies, WindowInv
<1>2. CASE UNCHANGED <<shown, stored>>
  BY <1>1, <1>2
<1>3. CASE \E i \in Slots : Answers(i) \/ \E p \in Preflights : PrepareDone(i, p)
  BY <1>1, <1>3, ShowIs, ShowKeeps
<1>4. CASE ChatAnswer
  <2>1. chat \in Copies /\ CopiesOK(chat, preflight')
    BY <1>4, CopiesKeep DEF ChatAnswer, SwapInv, SwapTypeOK, WindowInv, Copies
  <2> QED BY <1>4, <2>1 DEF ChatAnswer
<1>5. CASE Unlock \/ Restart
  BY <1>1, <1>5 DEF Unlock, Restart
<1> QED BY <1>2, <1>3, <1>4, <1>5, WhoShows

LEMMA WindowStep == SwapInv /\ [SwapNext]_swapVars => WindowInv'
<1> SUFFICES ASSUME SwapInv, [SwapNext]_swapVars PROVE WindowInv'
  OBVIOUS
<1>1. /\ shown \in Copies /\ modal \in Preflights \cup {None} /\ chat \in Copies \cup {None}
      /\ None \notin Preflights \cup Swaps
  BY EvmSwapAssumption DEF SwapInv, SwapTypeOK, Copies
<1>2. modal' # None => preflight'[modal'].swap # None
  <2>1. CASE modal' = modal
    BY <1>1, <2>1, PreflightKeeps DEF SwapInv, WindowInv
  <2>2. CASE \E s \in Swaps : OpenDialog(s)
    <3>1. PICK s \in Swaps : OpenDialog(s)
      BY <2>2
    <3>2. shown[s].card # None /\ modal' = shown[s].card /\ shown[s] \in Messages
      BY <1>1, <3>1 DEF OpenDialog, Copies
    <3>3. shown[s].card \in Preflights /\ preflight[shown[s].card].swap = s
      BY <3>2, MessageFields DEF SwapInv, WindowInv, CopiesOK, CopyOK
    <3> QED BY <1>1, <3>2, <3>3, PreflightKeeps
  <2> QED BY <2>1, <2>2, WhoOpens
<1>3. chat' # None => CopiesOK(chat', preflight')
  <2>1. CASE chat' = chat
    BY <1>1, <2>1, CopiesKeep DEF SwapInv, WindowInv
  <2>2. CASE ChatSend
    BY <1>1, <2>2, CopiesKeep DEF ChatSend, SwapInv, WindowInv
  <2> QED BY <2>1, <2>2, WhoChats
<1> QED BY <1>2, <1>3, CopiesStep DEF WindowInv

LEMMA ReconStep == SwapInv /\ [SwapNext]_swapVars => ReconInv'
<1> SUFFICES ASSUME SwapInv, [SwapNext]_swapVars, NEW p \in recon' PROVE receipts'[p] # "none"
  BY DEF ReconInv
<1>1. recon' \subseteq recon \/ ReconcileList
  BY DEF SwapNext, RequestPrepare, StartFullAccess, PrepareDone, PrepareFails, SubmitDialog,
       PasswordVerified, StartUnattended, ExecutionRefused, Send, SavePending,
       ReceiptArrives, ReceiptMissed, OpenDialog,
       CloseDialog, ReconcileOne, ReconcileSkips, ChatSend, ChatAnswer, Lock,
       Unlock, SaveSession, Engage, Release, Expire, Restart, Mine, swapVars
<1>2. p \in Preflights /\ receipts[p] # "none"
  BY <1>1 DEF ReconcileList, SwapInv, SwapTypeOK, ReconInv
<1> QED BY <1>2, ReceiptsMove DEF ReceiptMoves, Outcome

LEMMA SwapTypeStep == SwapInv /\ [SwapNext]_swapVars => SwapTypeOK'
<1> SUFFICES ASSUME SwapInv, [SwapNext]_swapVars PROVE SwapTypeOK'
  OBVIOUS
<1>1. preflight' \in [Preflights -> PreflightType] /\ chain' \in [Preflights -> ChainType]
      /\ receipts' \in [Preflights -> Decisions \cup {"none"}]
  BY PreflightsMove, ChainMove, ReceiptsMove
<1>2. task' \in [Slots -> Tasks]
  <2>1. CASE Slots = {}
    <3>1. UNCHANGED task \/ Unlock \/ Restart
      BY <2>1, WhoMoves
    <3> QED BY <2>1, <3>1 DEF Unlock, Restart, SwapInv, SwapTypeOK
  <2> QED BY <2>1, CallsMove
<1>3. shown' \in Copies /\ stored' \in Copies
  BY CopiesStep
<1>4. chat' \in Copies \cup {None}
  BY WhoChats DEF ChatSend, SwapInv, SwapTypeOK, Copies
<1>5. modal' \in Preflights \cup {None}
  BY WhoOpens, MessageFields DEF OpenDialog, SwapInv, SwapTypeOK
<1>6. kind' = kind
  BY ZenonT(60) DEF SwapNext, RequestPrepare, StartFullAccess, PrepareDone, PrepareFails, SubmitDialog,
       PasswordVerified, StartUnattended, ExecutionRefused, Send, SavePending,
       ReceiptArrives, ReceiptMissed, OpenDialog, ReconcileList,
       CloseDialog, ReconcileOne, ReconcileSkips, ChatSend, ChatAnswer, Lock,
       Unlock, SaveSession, Engage, Release, Expire, Restart, Mine, gates, swapVars
<1>7. unlocked' \in BOOLEAN /\ signing' \in BOOLEAN /\ stop' \in BOOLEAN
  <2>1. unlocked \in BOOLEAN /\ signing \in BOOLEAN /\ stop \in BOOLEAN /\ kind.full \in BOOLEAN
    BY EvmSwapAssumption DEF SwapInv, SwapTypeOK
  <2>2. \/ UNCHANGED <<unlocked, signing, stop>>
        \/ Lock \/ Unlock \/ SaveSession \/ Engage \/ Release \/ Restart
    BY ZenonT(60) DEF SwapNext, RequestPrepare, StartFullAccess, PrepareDone, PrepareFails, SubmitDialog,
       PasswordVerified, StartUnattended, ExecutionRefused, Send, SavePending,
       ReceiptArrives, ReceiptMissed, OpenDialog, ReconcileList,
       CloseDialog, ReconcileOne, ReconcileSkips, ChatSend, ChatAnswer,
       Expire, Mine, gates, swapVars
  <2>3. CASE UNCHANGED <<unlocked, signing, stop>>
    BY <2>1, <2>3
  <2>4. CASE Lock \/ Unlock \/ Restart
    BY <2>1, <2>4 DEF Lock, Unlock, Restart
  <2>5. CASE SaveSession \/ Engage \/ Release
    BY <2>1, <2>5 DEF SaveSession, Engage, Release
  <2> QED BY <2>2, <2>3, <2>4, <2>5
<1>8. told' \subseteq Preflights
  <2>1. \/ told' = told
        \/ \E i \in Slots :
             /\ Takes(i) \/ ExecutionRefused(i) \/ Send(i) \/ SavePending(i)
             /\ told' \subseteq told \cup {task[i].of}
        \/ modal # None /\ told' = told \cup {modal}
    BY ZenonT(60) DEF SwapNext, RequestPrepare, StartFullAccess, PrepareDone, PrepareFails, SubmitDialog,
       PasswordVerified, StartUnattended, ExecutionRefused, Send, SavePending, Report, Takes,
       ReceiptArrives, ReceiptMissed, Answer, OpenDialog, ReconcileList,
       CloseDialog, ReconcileOne, ReconcileSkips, ChatSend, ChatAnswer, Lock,
       Unlock, SaveSession, Engage, Release, Expire, Restart, Mine, window, swapVars
  <2>2. ASSUME NEW i \in Slots, Takes(i) \/ ExecutionRefused(i) \/ Send(i) \/ SavePending(i)
        PROVE  task[i].of \in Preflights
    BY <2>2, CallFields DEF Takes, PasswordVerified, StartUnattended, ExecutionRefused, Send,
                            SavePending, At, Execution
  <2> QED BY <2>1, <2>2 DEF SwapInv, SwapTypeOK
<1>9. quote' \subseteq Swaps
  <2>1. quote' \subseteq quote
    BY ZenonT(60) DEF SwapNext, RequestPrepare, StartFullAccess, PrepareDone, PrepareFails, SubmitDialog,
       PasswordVerified, StartUnattended, ExecutionRefused, Send, SavePending,
       ReceiptArrives, ReceiptMissed, OpenDialog, ReconcileList, QuoteAfterBuild,
       CloseDialog, ReconcileOne, ReconcileSkips, ChatSend, ChatAnswer, Lock,
       Unlock, SaveSession, Engage, Release, Expire, Restart, Mine, lane, swapVars
  <2> QED BY <2>1 DEF SwapInv, SwapTypeOK
<1>10. allowed' \subseteq Swaps
  <2>1. \/ allowed' = allowed
        \/ \E p \in Preflights : chain[p] = "pending" /\ allowed' \subseteq allowed \cup {preflight[p].swap}
    BY DEF SwapNext, RequestPrepare, StartFullAccess, PrepareDone, PrepareFails, SubmitDialog,
       PasswordVerified, StartUnattended, ExecutionRefused, Send, SavePending,
       ReceiptArrives, ReceiptMissed, OpenDialog, ReconcileList,
       CloseDialog, ReconcileOne, ReconcileSkips, ChatSend, ChatAnswer, Lock,
       Unlock, SaveSession, Engage, Release, Expire, Restart, Mine, network, swapVars
  <2> QED BY <2>1 DEF SwapInv, SwapTypeOK, LaneInv, PreflightOK
<1>11. recon' \subseteq Preflights
  BY ZenonT(60) DEF SwapNext, RequestPrepare, StartFullAccess, PrepareDone, PrepareFails, SubmitDialog,
       PasswordVerified, StartUnattended, ExecutionRefused, Send, SavePending,
       ReceiptArrives, ReceiptMissed, OpenDialog, ReconcileList, SwapInv, SwapTypeOK,
       CloseDialog, ReconcileOne, ReconcileSkips, ChatSend, ChatAnswer, Lock,
       Unlock, SaveSession, Engage, Release, Expire, Restart, Mine, swapVars
<1>12. kind \in Kinds
  BY DEF SwapInv, SwapTypeOK
<1> QED BY <1>1, <1>2, <1>3, <1>4, <1>5, <1>6, <1>7, <1>8, <1>9, <1>10, <1>11, <1>12
        DEF SwapTypeOK, PreflightType, ChainType, Copies

LEMMA SwapInitInv == SwapInit => SwapInv
<1> SUFFICES ASSUME SwapInit PROVE SwapInv
  OBVIOUS
<1>1. Idle \in Tasks /\ Idle.pc = "idle" /\ Blank \in Messages /\ Blank.card = None
      /\ DOMAIN Blank.receipts = {} /\ kind.full \in BOOLEAN
  BY IdleType, EvmSwapAssumption DEF Blank, SwapInit
<1>2. SwapTypeOK
  BY <1>1, EvmSwapAssumption DEF SwapInit, SwapTypeOK
<1>3. LaneInv
  BY DEF SwapInit, LaneInv, PreflightOK
<1>4. CallsInv /\ TakenInv
  BY <1>1 DEF SwapInit, CallsInv, CallOK, Execution, TakenInv, TakenOnce, TakenOK, Taken
<1>5. WindowInv /\ ReconInv
  BY <1>1 DEF SwapInit, WindowInv, CopiesOK, CopyOK, ReconInv
<1> QED BY <1>2, <1>3, <1>4, <1>5 DEF SwapInv

LEMMA SwapStep == SwapInv /\ [SwapNext]_swapVars => SwapInv'
BY SwapTypeStep, LaneStep, CallsStep, TakenStep, WindowStep, ReconStep DEF SwapInv

LEMMA SwapAlways == SwapSpec => []SwapInv
BY SwapInitInv, SwapStep, PTL DEF SwapSpec

\* Type correctness of quotes, preflights, receipts, messages and calls.
THEOREM SwapTypeCorrect == SwapSpec => []SwapTypeOK
<1>1. SwapInv => SwapTypeOK
  BY DEF SwapInv
<1> QED BY <1>1, SwapAlways, PTL

\* No receipt of the encrypted store contradicts the chain, although the
\* execution and the reconciliation save the same record side by side.
THEOREM ReceiptsTrue == SwapSpec => []ReceiptsAgree
<1>1. SwapInv => ReceiptsAgree
  BY DEF SwapInv, LaneInv, PreflightOK, ReceiptsAgree
<1> QED BY <1>1, SwapAlways, PTL

\* A decided receipt is not turned back and the receipt of a broadcast is
\* not lost, whichever of execution and reconciliation saves last.
THEOREM DecidedCorrect == SwapSpec => DecidedStays
<1> DEFINE Stays == \A p \in Preflights :
      /\ receipts[p] \in {"confirmed", "reverted"} => receipts'[p] = receipts[p]
      /\ receipts[p] # "none" => receipts'[p] # "none"
<1>1. SwapInv /\ [SwapNext]_swapVars => Stays
  <2> SUFFICES ASSUME SwapInv, [SwapNext]_swapVars, NEW p \in Preflights
               PROVE  /\ receipts[p] \in {"confirmed", "reverted"} => receipts'[p] = receipts[p]
                      /\ receipts[p] # "none" => receipts'[p] # "none"
    OBVIOUS
  <2>1. PreflightOK(preflight[p], chain[p], receipts[p]) /\ ReceiptMoves(p)
    BY ReceiptsMove DEF SwapInv, LaneInv
  <2> QED BY <2>1 DEF PreflightOK, ReceiptMoves, Outcome
<1> QED BY <1>1, SwapAlways, PTL DEF SwapSpec, DecidedStays

-----------------------------------------------------------------------------
(* EVM swaps: the promise of an approval *)

LEMMA ApprovalIs ==
    /\ DOMAIN Approval = Preflights
    /\ \A p \in Preflights :
         Approval[p] = IF preflight[p].swap = None THEN "none"
                       ELSE IF Held(p) THEN "granted" ELSE "over"
    /\ \A p \in Preflights :
         Approval'[p] = IF preflight'[p].swap = None THEN "none"
                        ELSE IF Held(p)' THEN "granted" ELSE "over"
    /\ Approval = [p \in Preflights |-> Approval[p]]
    /\ Approval' = [p \in Preflights |-> Approval'[p]]
BY DEF Approval

LEMMA SpendsIs ==
    /\ DOMAIN Spends = Preflights
    /\ \A p \in Preflights : Spends[p] = IF chain[p] = "unsent" THEN 0 ELSE 1
    /\ Spends = [p \in Preflights |-> Spends[p]]
BY DEF Spends

HeldBy(i, p) == task[i].pc = "checking" /\ task[i].of = p

LEMMA HeldIs ==
    ASSUME NEW p
    PROVE  Held(p) <=> preflight[p].kept \/ \E i \in Slots : HeldBy(i, p)
BY DEF Held, HeldBy, At

\* A preflight is newly held only by a preparation; execution passes it on.
LEMMA HeldMoves ==
    ASSUME SwapInv, [SwapNext]_swapVars, NEW p \in Preflights, Held(p)'
    PROVE  Held(p) \/ \E i \in Slots : PrepareDone(i, p)
<1>1. Held(p)' <=> preflight'[p].kept \/ \E i \in Slots : HeldBy(i, p)'
  BY DEF Held, HeldBy, At
<1>2. CASE preflight'[p].kept
  BY <1>2, PreflightsMove, HeldIs DEF PreflightMoves
<1>3. CASE \E i \in Slots : HeldBy(i, p)'
  <2>1. PICK i \in Slots : HeldBy(i, p)'
    BY <1>3
  <2>2. Bears(i)' /\ task'[i].pc = "checking" /\ task'[i].of = p
    BY <2>1 DEF HeldBy, Bears, Taken
  <2>3. task[i].of = p /\ (task[i].pc = "checking" \/ preflight[p].kept)
    BY <2>2, BearsMoves
  <2> QED BY <2>3, HeldIs DEF HeldBy
<1> QED BY <1>1, <1>2, <1>3

\* What was sent is no longer held: the one call that had taken it has moved on.
LEMMA HeldUnsent ==
    ASSUME SwapInv, NEW p \in Preflights, Held(p)
    PROVE  preflight[p].swap # None /\ chain[p] = "unsent"
<1>1. PreflightOK(preflight[p], chain[p], receipts[p]) /\ None \notin Swaps
  BY EvmSwapAssumption DEF SwapInv, LaneInv
<1>2. ASSUME NEW i \in Slots, HeldBy(i, p) PROVE preflight[p].swap # None /\ chain[p] = "unsent"
  BY <1>1, <1>2, CallFields DEF HeldBy, SwapInv, TakenInv, TakenOK, Taken, Execution
<1> QED BY <1>1, <1>2, HeldIs DEF PreflightOK

LEMMA WithdrawStep ==
    ASSUME SwapInv, [SwapNext]_swapVars, \A p \in Preflights : preflight'[p].swap = preflight[p].swap,
           UNCHANGED <<Spends, Landed, Counted>>, \A p \in Preflights : Held(p)' => Held(p)
    PROVE  Promised!ApprovalNext
<1> DEFINE B == {p \in Preflights : Held(p) /\ ~Held(p)'}
<1>1. \A p \in B : Approval[p] = "granted"
  BY ApprovalIs, HeldUnsent
<1>2. \A p \in Preflights : Approval'[p] = IF p \in B THEN "over" ELSE Approval[p]
  BY ApprovalIs, HeldUnsent
<1>3. Approval' = [p \in Preflights |-> IF p \in B THEN "over" ELSE Approval[p]]
  BY <1>2, ApprovalIs
<1>4. B \in SUBSET Preflights
  OBVIOUS
<1> HIDE DEF B
<1>5. Promised!Withdraw(B)
  BY <1>1, <1>3 DEF Promised!Withdraw
<1> QED BY <1>4, <1>5 DEF Promised!ApprovalNext

LEMMA GrantStep ==
    ASSUME SwapInv, SwapInv', [SwapNext]_swapVars, NEW i \in Slots, NEW p \in Preflights,
           PrepareDone(i, p)
    PROVE  Promised!ApprovalNext
<1>1. /\ preflight[p].swap = None /\ preflight'[p].swap # None /\ preflight'[p].kept
      /\ \A q \in Preflights \ {p} : preflight'[q] = preflight[q]
      /\ None \notin Swaps
  BY PreparedIs, EvmSwapAssumption
<1>2. UNCHANGED <<Spends, Landed, Counted>>
  <2>1. UNCHANGED <<chain, receipts>>
    BY DEF PrepareDone, network
  <2> QED BY <2>1 DEF Spends, Landed, Counted
<1>3. Held(p)' /\ ~Held(p)
  <2>1. Held(p)'
    BY <1>1 DEF Held
  <2> QED BY <1>1, <2>1, HeldUnsent
<1>4. \A q \in Preflights \ {p} : Held(q)' <=> Held(q)
  <2> SUFFICES ASSUME NEW q \in Preflights \ {p} PROVE Held(q)' <=> Held(q)
    OBVIOUS
  <2>1. task[i].pc = "building" /\ (task'[i].pc = "starting" \/ task'[i].pc = "idle")
        /\ \A j \in Slots \ {i} : task'[j] = task[j]
    <3>1. CallsMoveOnly(i) /\ task[i] \in Tasks
      BY HandlerMoves, CallFields DEF Handles
    <3>2. (task' = [task EXCEPT ![i].pc = "starting", ![i].of = p]) \/ End(i)
      BY DEF PrepareDone
    <3>3. task \in [Slots -> Tasks]
      BY DEF SwapInv, SwapTypeOK
    <3> QED BY <3>1, <3>2, <3>3, EndMoves, PreparedIs DEF CallsMoveOnly, SwapInv, Tasks
  <2>2. \A j \in Slots : HeldBy(j, q)' <=> HeldBy(j, q)
    BY <2>1 DEF HeldBy
  <2>3. Held(q)' <=> preflight'[q].kept \/ \E j \in Slots : HeldBy(j, q)'
    BY DEF Held, HeldBy, At
  <2> QED BY <1>1, <2>2, <2>3, HeldIs
<1>5. Approval[p] = "none"
  BY <1>1, ApprovalIs
<1>6. \A q \in Preflights : Approval'[q] = IF q = p THEN "granted" ELSE Approval[q]
  BY <1>1, <1>3, <1>4, ApprovalIs
<1>7. Approval' = [q \in Preflights |-> CASE q = p -> "granted"
                                          [] q \in {} -> "over"
                                          [] OTHER -> Approval[q]]
  <2>1. Approval' = [q \in Preflights |-> IF q = p THEN "granted" ELSE Approval[q]]
    BY <1>6, ApprovalIs
  <2>2. \A q \in Preflights : (IF q = p THEN "granted" ELSE Approval[q])
                              = CASE q = p -> "granted"
                                  [] q \in {} -> "over"
                                  [] OTHER -> Approval[q]
    OBVIOUS
  <2> QED BY <2>1, <2>2
<1>8. Promised!Grant(p, {})
  BY <1>2, <1>5, <1>7 DEF Promised!Grant
<1>9. {} \in SUBSET Preflights
  OBVIOUS
<1> QED BY <1>8, <1>9 DEF Promised!ApprovalNext

LEMMA SpendStep ==
    ASSUME SwapInv, SwapInv', [SwapNext]_swapVars, NEW i \in Slots, Send(i)
    PROVE  Promised!ApprovalNext
<1>0. PICK p \in Preflights : p = task[i].of
  BY CallFields DEF Send, At, Execution
<1>1. task[i].pc = "checking" /\ p \in Preflights
  BY DEF Send, At
<1>2. Held(p) /\ preflight[p].swap # None /\ chain[p] = "unsent"
  <2>1. Held(p)
    BY <1>0, <1>1, HeldIs DEF HeldBy
  <2> QED BY <1>1, <2>1, HeldUnsent
<1>3. chain' = [chain EXCEPT ![p] = "pending"] /\ UNCHANGED <<preflight, receipts>>
  BY <1>0 DEF Send, lane
<1>4. chain'[p] = "pending" /\ \A q \in Preflights \ {p} : chain'[q] = chain[q]
  BY <1>1, <1>3 DEF SwapInv, SwapTypeOK
<1>5. Spends' = [Spends EXCEPT ![p] = 1] /\ Spends[p] = 0
  BY <1>1, <1>2, <1>4 DEF Spends
<1>6. UNCHANGED <<Landed, Counted>>
  BY <1>2, <1>3, <1>4 DEF Landed, Counted
<1>7. ~Held(p)'
  <2>1. ~preflight'[p].kept
    BY <1>1, <1>4 DEF SwapInv, LaneInv, PreflightOK
  <2>2. ASSUME NEW j \in Slots, HeldBy(j, p)' PROVE FALSE
    BY <1>4, <2>2 DEF HeldBy, SwapInv, TakenInv, TakenOK, Taken
  <2>3. Held(p)' <=> preflight'[p].kept \/ \E j \in Slots : HeldBy(j, p)'
    BY DEF Held, HeldBy, At
  <2> QED BY <2>1, <2>2, <2>3
<1>8. \A q \in Preflights \ {p} : Held(q)' <=> Held(q)
  <2> SUFFICES ASSUME NEW q \in Preflights \ {p} PROVE Held(q)' <=> Held(q)
    OBVIOUS
  <2>1. \A j \in Slots \ {i} : task'[j] = task[j]
    BY HandlerMoves DEF Handles, CallsMoveOnly
  <2>2. ~HeldBy(i, q) /\ ~HeldBy(i, q)'
    <3>1. Bears(i)' => task'[i].of = p
      BY <1>0, BearsMoves
    <3> QED BY <1>0, <3>1 DEF HeldBy, Bears, Taken
  <2>3. \A j \in Slots : HeldBy(j, q)' <=> HeldBy(j, q)
    BY <2>1, <2>2 DEF HeldBy
  <2>4. Held(q)' <=> preflight'[q].kept \/ \E j \in Slots : HeldBy(j, q)'
    BY DEF Held, HeldBy, At
  <2> QED BY <1>3, <2>3, <2>4, HeldIs
<1>9. Approval[p] = "granted" /\ \A q \in Preflights : Approval'[q] = IF q = p THEN "over" ELSE Approval[q]
  BY <1>1, <1>2, <1>3, <1>7, <1>8, ApprovalIs
<1>10. Approval' = [Approval EXCEPT ![p] = "over"]
  <2>1. Approval' = [q \in Preflights |-> IF q = p THEN "over" ELSE Approval[q]]
    <3>1. Approval' = [q \in Preflights |-> Approval'[q]]
      BY ApprovalIs
    <3> QED BY <1>9, <3>1
  <2>2. [Approval EXCEPT ![p] = "over"] = [q \in Preflights |-> IF q = p THEN "over" ELSE Approval[q]]
    <3>1. DOMAIN Approval = Preflights
      BY ApprovalIs
    <3> QED BY <3>1
  <2> QED BY <2>1, <2>2
<1>11. Promised!Spend(p)
  BY <1>5, <1>6, <1>9, <1>10 DEF Promised!Spend
<1> QED BY <1>1, <1>11 DEF Promised!ApprovalNext

LEMMA SameApproval ==
    ASSUME UNCHANGED <<preflight, task>>
    PROVE  Approval' = Approval
BY DEF Approval, Held, At

LEMMA LandStep ==
    ASSUME SwapInv, [SwapNext]_swapVars, NEW p \in Preflights, Mine(p)
    PROVE  Promised!ApprovalNext \/ UNCHANGED Promised!approvalVars
<1>1. chain[p] = "pending" /\ UNCHANGED <<preflight, task, receipts>>
  BY DEF Mine, lane
<1>2. chain \in [Preflights -> ChainType]
  BY DEF SwapInv, SwapTypeOK, ChainType
<1>3. PICK outcome \in {"success", "reverted"} : chain' = [chain EXCEPT ![p] = outcome]
  BY DEF Mine
<1>4. Approval' = Approval /\ Counted' = Counted /\ Spends' = Spends /\ Spends[p] = 1
  <2>1. Counted' = Counted
    BY <1>1 DEF Counted
  <2>2. Spends' = Spends /\ Spends[p] = 1
    BY <1>1, <1>2, <1>3 DEF Spends
  <2> QED BY <1>1, <2>1, <2>2, SameApproval
<1>5. CASE outcome = "success"
  <2>1. Landed' = Landed \cup {p} /\ p \notin Landed
    BY <1>1, <1>2, <1>3, <1>5 DEF Landed
  <2>2. Promised!Land(p)
    BY <1>4, <2>1 DEF Promised!Land
  <2> QED BY <2>2 DEF Promised!ApprovalNext
<1>6. CASE outcome = "reverted"
  <2>1. Landed' = Landed
    BY <1>1, <1>2, <1>3, <1>6 DEF Landed
  <2> QED BY <1>4, <2>1 DEF Promised!approvalVars
<1> QED BY <1>5, <1>6

LEMMA CountStep ==
    ASSUME SwapInv, [SwapNext]_swapVars, NEW p \in Preflights,
           receipts' = [receipts EXCEPT ![p] = Outcome(p)], Decided(p), chain' = chain,
           Approval' = Approval
    PROVE  Promised!ApprovalNext \/ UNCHANGED Promised!approvalVars
<1>1. /\ receipts \in [Preflights -> Decisions \cup {"none"}]
      /\ PreflightOK(preflight[p], chain[p], receipts[p])
  BY DEF SwapInv, SwapTypeOK, LaneInv
<1>2. Spends' = Spends /\ Landed' = Landed
  BY DEF Spends, Landed
<1>3. CASE chain[p] = "success" /\ receipts[p] # "confirmed"
  <2>1. p \in Landed \ Counted
    BY <1>3 DEF Landed, Counted
  <2>2. Counted' = Counted \cup {p}
    BY <1>1, <1>3 DEF Counted, Outcome
  <2>3. Promised!Count(p)
    BY <1>2, <2>1, <2>2 DEF Promised!Count
  <2> QED BY <2>3 DEF Promised!ApprovalNext
<1>4. CASE ~(chain[p] = "success" /\ receipts[p] # "confirmed")
  <2>1. Counted' = Counted
    BY <1>1, <1>4 DEF Counted, Outcome, PreflightOK
  <2> QED BY <1>2, <2>1 DEF Promised!approvalVars
<1> QED BY <1>3, <1>4

LEMMA PromiseStep ==
    ASSUME SwapInv, SwapInv', [SwapNext]_swapVars
    PROVE  Promised!ApprovalNext \/ UNCHANGED Promised!approvalVars
<1>1. CASE \E i \in Slots : Send(i) \/ \E p \in Preflights : PrepareDone(i, p)
  BY <1>1, GrantStep, SpendStep
<1>2. CASE \E p \in Preflights : Mine(p)
  BY <1>2, LandStep
<1>3. CASE \E p \in Preflights : ReconcileOne(p)
  <2>1. PICK p \in Preflights : ReconcileOne(p)
    BY <1>3
  <2>2. /\ Decided(p) /\ receipts' = [receipts EXCEPT ![p] = Outcome(p)]
        /\ UNCHANGED <<preflight, task, chain>>
    BY <2>1 DEF ReconcileOne, network
  <2> QED BY <2>2, SameApproval, CountStep
<1>4. CASE \E i \in Slots : ReceiptArrives(i)
  <2>1. PICK i \in Slots : ReceiptArrives(i)
    BY <1>4
  <2>2. /\ Decided(task[i].of) /\ receipts' = [receipts EXCEPT ![task[i].of] = Outcome(task[i].of)]
        /\ UNCHANGED <<preflight, chain>>
    BY <2>1 DEF ReceiptArrives, network
  <2>3. task[i].pc = "waiting" /\ task[i].of \in Preflights
    BY <2>1, CallFields DEF ReceiptArrives, At, Execution
  <2>4. CallsMoveOnly(i) /\ task'[i].pc # "checking"
    <3>1. CallsMoveOnly(i)
      BY <2>1, HandlerMoves DEF Handles
    <3>2. Bears(i)' => task'[i].pc \in {"waiting", "checking", "saving"} /\ task'[i].pc # "checking"
      BY <2>3, BearsMoves, TakesIs DEF Bears, Taken
    <3> QED BY <3>1, <3>2 DEF Bears, Taken
  <2>5. \A p \in Preflights : Held(p)' <=> Held(p)
    <3> SUFFICES ASSUME NEW p \in Preflights PROVE Held(p)' <=> Held(p)
      OBVIOUS
    <3>1. \A j \in Slots : HeldBy(j, p)' <=> HeldBy(j, p)
      BY <2>3, <2>4 DEF HeldBy, CallsMoveOnly
    <3>2. Held(p)' <=> preflight'[p].kept \/ \E j \in Slots : HeldBy(j, p)'
      BY DEF Held, HeldBy, At
    <3> QED BY <2>2, <3>1, <3>2, HeldIs
  <2>6. Approval' = Approval
    BY <2>2, <2>5, ApprovalIs
  <2> QED BY <2>2, <2>3, <2>6, CountStep
<1>5. CASE /\ ~\E i \in Slots : Send(i) \/ ReceiptArrives(i) \/ \E p \in Preflights : PrepareDone(i, p)
           /\ ~\E p \in Preflights : Mine(p) \/ ReconcileOne(p)
  <2>1. chain' = chain /\ \A p \in Preflights : receipts'[p] = "confirmed" <=> receipts[p] = "confirmed"
    <3>1. chain' = chain
      BY <1>5, WhoSends
    <3>2. receipts' = receipts \/ \E i \in Slots : SavePending(i) /\ unlocked
      BY <1>5, WhoSaves
    <3>3. ASSUME NEW i \in Slots, SavePending(i), unlocked
          PROVE  \A p \in Preflights : receipts'[p] = "confirmed" <=> receipts[p] = "confirmed"
      <4>1. task[i].pc = "saving" /\ task[i].of \in Preflights
        BY <3>3, CallFields DEF SavePending, At, Execution
      <4>2. receipts[task[i].of] = "none" /\ receipts' = [receipts EXCEPT ![task[i].of] = "unknown"]
        BY <3>3, <4>1 DEF SavePending, SwapInv, TakenInv, TakenOK, Taken
      <4> QED BY <4>2 DEF SwapInv, SwapTypeOK
    <3> QED BY <3>1, <3>2, <3>3
  <2>2. UNCHANGED <<Spends, Landed, Counted>>
    <3>1. Spends' = Spends /\ Landed' = Landed
      BY <2>1 DEF Spends, Landed
    <3>2. Counted' = Counted
      BY <2>1 DEF Counted
    <3> QED BY <3>1, <3>2
  <2>3. \A p \in Preflights : preflight'[p].swap = preflight[p].swap
    BY <1>5, PreflightsMove DEF PreflightMoves
  <2>4. \A p \in Preflights : Held(p)' => Held(p)
    BY <1>5, HeldMoves
  <2> QED BY <2>2, <2>3, <2>4, WithdrawStep
<1> QED BY <1>1, <1>2, <1>3, <1>4, <1>5

LEMMA PromiseInit == SwapInit => Promised!ApprovalInit
<1> SUFFICES ASSUME SwapInit PROVE Promised!ApprovalInit
  OBVIOUS
<1>1. Approval = [p \in Preflights |-> "none"]
  BY DEF SwapInit, Approval
<1>2. Spends = [p \in Preflights |-> 0]
  BY DEF SwapInit, Spends
<1>3. Landed = {} /\ Counted = {}
  BY DEF SwapInit, Landed, Counted
<1> QED BY <1>1, <1>2, <1>3 DEF Promised!ApprovalInit

\* Everything the lane does to preflights, the network and the receipts is a
\* behaviour of Approvals: an approval is spent at most once and only while it
\* stands, and a confirmed receipt is of a transaction that landed.
THEOREM SwapPromiseKept == SwapSpec => KeepsPromise
<1>1. SwapInv /\ SwapInv' /\ [SwapNext]_swapVars
      => [Promised!ApprovalNext]_(Promised!approvalVars)
  BY PromiseStep
<1> QED BY <1>1, PromiseInit, SwapAlways, PTL
        DEF SwapSpec, KeepsPromise, Promised!ApprovalSpec

-----------------------------------------------------------------------------
(* EVM swaps: a Full Access run spends one approval and one swap *)

LEMMA KindStays ==
    ASSUME [SwapNext]_swapVars
    PROVE  kind' = kind
BY DEF SwapNext, RequestPrepare, StartFullAccess, PrepareDone, PrepareFails, SubmitDialog,
       PasswordVerified, StartUnattended, ExecutionRefused, Send, SavePending,
       ReceiptArrives, ReceiptMissed, OpenDialog, ReconcileList,
       CloseDialog, ReconcileOne, ReconcileSkips, ChatSend, ChatAnswer, Lock,
       Unlock, SaveSession, Engage, Release, Expire, Restart, Mine, gates, swapVars

\* The step prepares nothing for s.
Unprepared(s) == \A p \in Preflights :
    /\ preflight[p].swap = s <=> preflight'[p].swap = s
    /\ preflight[p].swap = s => preflight'[p].action = preflight[p].action

LEMMA UnpreparedIs ==
    ASSUME SwapInv, [SwapNext]_swapVars, NEW s \in Swaps,
           \A i \in Slots, p \in Preflights : PrepareDone(i, p) => task[i].swap # s
    PROVE  Unprepared(s)
<1>1. None \notin Swaps
  BY EvmSwapAssumption
<1> QED BY <1>1, PreflightsMove DEF Unprepared, PreflightMoves

LEMMA PriorKeeps ==
    ASSUME SwapInv, [SwapNext]_swapVars, NEW s \in Swaps, NEW p, Unprepared(s), Prior(p, s)
    PROVE  Prior(p, s)'
<1>1. \A q \in Preflights : chain[q] = "success" => chain'[q] = "success"
  BY ChainMove DEF ChainMoves
<1>2. \A q \in Preflights : preflight'[q].swap = s /\ q # p =>
        preflight'[q].action = "approval" /\ chain'[q] = "success"
  BY <1>1 DEF Unprepared, Prior
<1>3. \A q, r \in Preflights :
        preflight'[q].swap = s /\ preflight'[r].swap = s /\ q # p /\ r # p => q = r
  BY DEF Unprepared, Prior
<1> QED BY <1>2, <1>3 DEF Prior

LEMMA RoundKeeps ==
    ASSUME SwapInv, [SwapNext]_swapVars, NEW s \in Swaps, NEW p, NEW pc, NEW to, NEW n,
           Unprepared(s), RoundOK(pc, s, p, n),
           to = pc \/ (pc \in Execution /\ to \in Execution),
           pc \in Execution => p \in Preflights /\ preflight[p].swap = s
    PROVE  RoundOK(to, s, p, n)'
<1>1. "building" \notin Execution
  BY DEF Execution
<1>2. CASE n = 1 /\ pc = "building" /\ \A q \in Preflights : preflight[q].swap # s
  BY <1>1, <1>2 DEF Unprepared, RoundOK
<1>3. CASE n = 1 /\ pc \in Execution /\ \A q \in Preflights : preflight[q].swap = s => q = p
  BY <1>1, <1>3 DEF Unprepared, RoundOK
<1>4. CASE n = 2 /\ pc = "building" /\ Prior(None, s)
  BY <1>1, <1>4, PriorKeeps DEF RoundOK
<1>5. CASE n = 2 /\ pc \in Execution /\ preflight[p].action = "swap" /\ Prior(p, s)
  <2>1. preflight'[p].action = "swap"
    BY <1>5 DEF Unprepared
  <2> QED BY <1>1, <1>5, <2>1, PriorKeeps DEF RoundOK
<1> QED BY <1>2, <1>3, <1>4, <1>5 DEF RoundOK

LEMMA RunMoves ==
    ASSUME SwapInv, RunInv, kind.full, [SwapNext]_swapVars, NEW i \in Slots, Runs(i)'
    PROVE  \/ /\ task'[i].swap = task[i].swap /\ task'[i].of = task[i].of
              /\ task'[i].round = task[i].round /\ Runs(i)
              /\ \/ task'[i].pc = task[i].pc
                 \/ task[i].pc \in Execution /\ task'[i].pc \in Execution
           \/ \E s \in Swaps : /\ StartFullAccess(i, s)
                               /\ task'[i].swap = s /\ task'[i].pc = "building" /\ task'[i].round = 1
           \/ \E p \in Preflights :
                /\ PrepareDone(i, p) /\ Proceeds(task[i].round, preflight'[p].action)
                /\ task'[i].pc = "starting" /\ task'[i].of = p
                /\ task'[i].swap = task[i].swap /\ task'[i].round = task[i].round
           \/ /\ Answers(i) /\ task[i].round = 1
              /\ chain[task[i].of] = "success" /\ preflight[task[i].of].action = "approval"
              /\ task'[i].pc = "building" /\ task'[i].swap = task[i].swap /\ task'[i].round = 2
<1>1. task[i] \in Tasks /\ task' \in [Slots -> Tasks]
  BY CallFields, CallsMove
<1>2. CASE Handles(i) /\ Moved(i) /\ task' # task
  <2>1. CASE /\ \E s \in Swaps : (RequestPrepare(i, s) \/ StartFullAccess(i, s)) /\ task'[i].swap = s
             /\ task'[i].pc = "building" /\ task'[i].seen
             /\ task'[i].round = IF kind.full THEN 1 ELSE 0
    BY <2>1 DEF RequestPrepare
  <2>2. ~SubmitDialog(i)
    BY DEF SubmitDialog, RunInv
  <2>3. CASE \E p \in Preflights :
               /\ PrepareDone(i, p) /\ Proceeds(task[i].round, preflight'[p].action)
               /\ task'[i] = [task[i] EXCEPT !.pc = "starting", !.of = p]
    BY <1>1, <2>3 DEF Tasks
  <2>4. ASSUME NEW pc \in Execution, task[i].pc \in Execution, task'[i] = [task[i] EXCEPT !.pc = pc]
        PROVE  /\ task'[i].swap = task[i].swap /\ task'[i].of = task[i].of
               /\ task'[i].round = task[i].round /\ Runs(i)
               /\ task[i].pc \in Execution /\ task'[i].pc \in Execution
    BY <1>1, <2>4 DEF Tasks, Runs, Execution
  <2>5. Takes(i) \/ Send(i) \/ SavePending(i) => task[i].pc \in Execution
    BY DEF Takes, PasswordVerified, StartUnattended, Send, SavePending, At, Execution
  <2>6. CASE /\ Answers(i) /\ task[i].round = 1
             /\ chain[task[i].of] = "success" /\ preflight[task[i].of].action = "approval"
             /\ task'[i] = [task[i] EXCEPT !.pc = "building", !.of = None, !.round = 2]
    <3>1. 2 \in 0..2
      OBVIOUS
    <3> DEFINE r == [task[i] EXCEPT !.pc = "building", !.of = None, !.round = 2]
    <3>2. r.pc = "building" /\ r.swap = task[i].swap /\ r.round = 2
      <4>1. task[i] \in Tasks
        BY <1>1
      <4> QED BY <3>1, <4>1, ResumeType, Zenon
    <3>3. task'[i] = r
      BY <2>6
    <3> HIDE DEF r
    <3> QED BY <2>6, <3>2, <3>3
  <2>7. {"checking", "saving", "waiting"} \subseteq Execution /\ task'[i].pc # "idle"
    BY DEF Execution, Runs
  <2> QED BY <1>2, <2>1, <2>2, <2>3, <2>4, <2>5, <2>6, <2>7 DEF Moved
<1>3. CASE task'[i] = task[i]
  BY <1>3 DEF Runs
<1>4. CASE Unlock /\ task'[i] = [task[i] EXCEPT !.seen = FALSE] /\ task[i].pc # "idle"
  BY <1>1, <1>4 DEF Tasks, Runs
<1>5. task'[i] # Idle
  BY IdleType DEF Runs
<1> QED BY <1>2, <1>3, <1>4, <1>5, CallsMove DEF CallsMoveOnly

LEMMA RunStep == SwapInv /\ RunInv /\ [SwapNext]_swapVars => RunInv'
<1> SUFFICES ASSUME SwapInv, RunInv, [SwapNext]_swapVars, kind.full
             PROVE  /\ modal' = None
                    /\ \A i \in Slots : RunOK(i)'
                    /\ OneRun'
                    /\ \A s \in Swaps : BroadcastsOK(s)'
  BY KindStays DEF RunInv
<1>0. /\ modal = None /\ OneRun /\ None \notin Swaps \cup Preflights
      /\ \A i \in Slots : RunOK(i)
      /\ \A s \in Swaps : BroadcastsOK(s)
  BY EvmSwapAssumption DEF RunInv
<1>1. modal' = None
  BY <1>0, WhoOpens DEF OpenDialog
<1>2. OneRun'
  <2> SUFFICES ASSUME NEW i \in Slots, NEW j \in Slots, Runs(i)', Runs(j)',
                      task'[i].swap = task'[j].swap, i # j
               PROVE  FALSE
    BY DEF OneRun
  <2>1. ASSUME NEW k \in Slots, Runs(k)'
        PROVE  \/ Runs(k) /\ task'[k].swap = task[k].swap
               \/ \E s \in Swaps : StartFullAccess(k, s) /\ task'[k].swap = s
    BY <2>1, RunMoves DEF PrepareDone, Answers, ReceiptArrives, ReceiptMissed, At, Runs
  <2>2. ASSUME NEW k \in Slots, NEW l \in Slots, k # l, NEW s \in Swaps, StartFullAccess(k, s),
               task'[k].swap = s, task'[l].swap = s
        PROVE  FALSE
    <3>1. task'[l] = task[l] /\ task[l].swap # s
      <4>1. CallsMoveOnly(k)
        BY <2>2, HandlerMoves DEF Handles
      <4> QED BY <2>2, <4>1 DEF StartFullAccess, CallsMoveOnly
    <3> QED BY <2>2, <3>1
  <2> QED BY <1>0, <2>1, <2>2 DEF OneRun
<1>3. ASSUME NEW i \in Slots, Runs(i)' PROVE RoundOK(task[i].pc, task[i].swap, task[i].of, task[i].round)'
  <2>1. CASE /\ task'[i].swap = task[i].swap /\ task'[i].of = task[i].of
             /\ task'[i].round = task[i].round /\ Runs(i)
             /\ \/ task'[i].pc = task[i].pc
                \/ task[i].pc \in Execution /\ task'[i].pc \in Execution
    <3>1. PICK s \in Swaps, p \in {task[i].of}, pc \in {task[i].pc}, n \in {task[i].round},
               to \in {task'[i].pc} :
            /\ s = task[i].swap /\ p = task[i].of /\ pc = task[i].pc /\ n = task[i].round
            /\ to = task'[i].pc
      BY <2>1, CallFields DEF Runs
    <3>2. ASSUME NEW j \in Slots, NEW q \in Preflights, PrepareDone(j, q), task[j].swap = s
          PROVE  FALSE
      <4>1. j = i
        BY <1>0, <2>1, <3>1, <3>2, PreparedIs DEF OneRun, Runs
      <4>2. task'[i].pc \in {"idle", "starting"} /\ task[i].pc = "building"
        <5>1. (task' = [task EXCEPT ![i].pc = "starting", ![i].of = q]) \/ End(i)
          BY <3>2, <4>1 DEF PrepareDone
        <5> QED BY <3>2, <4>1, <5>1, EndMoves, PreparedIs DEF SwapInv, SwapTypeOK, Tasks
      <4> QED BY <2>1, <4>2 DEF Runs, Execution
    <3>3. Unprepared(s)
      BY <3>2, UnpreparedIs
    <3>4. RoundOK(pc, s, p, n)
      BY <1>0, <2>1, <3>1 DEF RunOK
    <3>5. RoundOK(to, s, p, n)'
      <4>1. pc \in Execution => p \in Preflights /\ preflight[p].swap = s
        BY <3>1, CallFields
      <4> QED BY <2>1, <3>1, <3>3, <3>4, <4>1, RoundKeeps
    <3> QED BY <2>1, <3>1, <3>5
  <2>2. ASSUME NEW s \in Swaps, StartFullAccess(i, s),
               task'[i].swap = s, task'[i].pc = "building", task'[i].round = 1
        PROVE  RoundOK(task[i].pc, task[i].swap, task[i].of, task[i].round)'
    BY <2>2 DEF RoundOK, StartFullAccess, lane
  <2>3. ASSUME NEW p \in Preflights, PrepareDone(i, p), Proceeds(task[i].round, preflight'[p].action),
               task'[i].pc = "starting", task'[i].of = p,
               task'[i].swap = task[i].swap, task'[i].round = task[i].round
        PROVE  RoundOK(task[i].pc, task[i].swap, task[i].of, task[i].round)'
    <3>1. /\ task[i].pc = "building" /\ Runs(i) /\ chain' = chain
          /\ \A q \in Preflights \ {p} : preflight'[q] = preflight[q]
      BY <2>3, PreparedIs DEF Runs, PrepareDone, network
    <3>2. RoundOK("building", task[i].swap, task[i].of, task[i].round)
      BY <1>0, <3>1 DEF RunOK
    <3>3. CASE task[i].round = 1 /\ \A q \in Preflights : preflight[q].swap # task[i].swap
      BY <2>3, <3>1, <3>3 DEF RoundOK, Execution
    <3>4. CASE task[i].round = 2 /\ Prior(None, task[i].swap)
      <4>1. preflight'[p].action = "swap"
        BY <2>3, <3>4 DEF Proceeds
      <4>2. Prior(task[i].of, task[i].swap)'
        <5>1. \A q \in Preflights : preflight'[q].swap = task[i].swap /\ q # p =>
                preflight'[q].action = "approval" /\ chain'[q] = "success"
          BY <1>0, <3>1, <3>4 DEF Prior
        <5>2. \A q, r \in Preflights :
                preflight'[q].swap = task[i].swap /\ preflight'[r].swap = task[i].swap /\ q # p /\ r # p
                => q = r
          BY <1>0, <3>1, <3>4 DEF Prior
        <5> QED BY <2>3, <5>1, <5>2 DEF Prior
      <4> QED BY <2>3, <3>4, <4>1, <4>2 DEF RoundOK, Execution
    <3> QED BY <3>2, <3>3, <3>4 DEF RoundOK, Execution
  <2>4. CASE /\ Answers(i) /\ task[i].round = 1
             /\ chain[task[i].of] = "success" /\ preflight[task[i].of].action = "approval"
             /\ task'[i].pc = "building" /\ task'[i].swap = task[i].swap /\ task'[i].round = 2
    <3>1. task[i].pc = "waiting" /\ UNCHANGED <<preflight, chain>>
      BY <2>4 DEF Answers, ReceiptArrives, ReceiptMissed, At, lane, network
    <3>2. RoundOK("waiting", task[i].swap, task[i].of, 1)
      BY <1>0, <2>4, <3>1 DEF RunOK, Runs
    <3>3. \A q \in Preflights : preflight[q].swap = task[i].swap => q = task[i].of
      BY <3>2 DEF RoundOK
    <3>4. Prior(None, task[i].swap)
      BY <2>4, <3>3 DEF Prior
    <3>5. Prior(None, task[i].swap)'
      BY <2>4, <3>1, <3>4 DEF Prior
    <3> QED BY <2>4, <3>5 DEF RoundOK
  <2> QED BY <1>3, <2>1, <2>2, <2>3, <2>4, RunMoves
<1>4. ASSUME NEW s \in Swaps PROVE BroadcastsOK(s)'
  <2>0. BroadcastsOK(s)
    BY <1>0
  <2>1. CASE \E i \in Slots : Send(i) /\ task[i].swap = s
    <3>1. PICK i \in Slots : Send(i) /\ task[i].swap = s
      BY <2>1
    <3>2. PICK p \in Preflights : p = task[i].of /\ preflight[p].swap = s /\ task[i].pc = "checking"
      BY <3>1, CallFields DEF Send, At, Execution
    <3>3. RoundOK("checking", s, p, task[i].round) /\ UNCHANGED preflight
      BY <1>0, <3>1, <3>2 DEF RunOK, Runs, Send, lane
    <3>4. chain' = [chain EXCEPT ![p] = "pending"] /\ chain \in [Preflights -> ChainType]
      BY <3>1, <3>2 DEF Send, SwapInv, SwapTypeOK, ChainType
    <3>5. \A q \in Preflights : preflight[q].swap = s => q = p
          \/ (preflight[p].action = "swap" /\ preflight[q].action = "approval" /\ chain[q] = "success")
      BY <3>3 DEF RoundOK, Prior
    <3>6. \A q, r \in Preflights :
            preflight[q].swap = s /\ preflight[r].swap = s /\ q # p /\ r # p => q = r
      BY <3>3 DEF RoundOK, Prior
    <3>7. \A q, r \in Preflights : \A a \in {"approval", "swap"} :
            Of(q, s, a) /\ Of(r, s, a) => q = r
      BY <3>5, <3>6 DEF Of
    <3>8. \A q, r \in Preflights : Of(q, s, "swap") /\ Of(r, s, "approval") => chain'[r] = "success" \/ chain'[q] = "unsent"
      BY <3>4, <3>5 DEF Of
    <3> QED BY <3>3, <3>7, <3>8 DEF BroadcastsOK, Of, Sent
  <2>2. CASE ~\E i \in Slots : Send(i) /\ task[i].swap = s
    <3>1. ASSUME NEW p \in Preflights, preflight'[p].swap = s, chain'[p] # "unsent"
          PROVE  /\ preflight[p].swap = s /\ preflight'[p].action = preflight[p].action
                 /\ chain[p] # "unsent" /\ (chain[p] = "success" => chain'[p] = "success")
      <4>1. ChainMoves(p) /\ PreflightMoves(p) /\ PreflightOK(preflight[p], chain[p], receipts[p])
        BY ChainMove, PreflightsMove DEF SwapInv, LaneInv
      <4>2. ASSUME NEW i \in Slots, Send(i), task[i].pc = "checking", task[i].of = p
            PROVE  task[i].swap = preflight[p].swap /\ preflight'[p].swap = preflight[p].swap
        <5>1. task[i].swap = preflight[p].swap
          BY <4>2, CallFields DEF Execution
        <5> QED BY <4>2, <5>1 DEF Send, lane
      <4>3. chain[p] # "unsent"
        BY <2>2, <3>1, <4>1, <4>2 DEF ChainMoves
      <4> QED BY <3>1, <4>1, <4>3 DEF ChainMoves, PreflightMoves, PreflightOK
    <3> QED BY <2>0, <3>1 DEF BroadcastsOK, Of, Sent
  <2> QED BY <2>1, <2>2
<1> QED BY <1>1, <1>2, <1>3, <1>4 DEF RunOK

LEMMA RunInit == SwapInit => RunInv
BY IdleType DEF SwapInit, RunInv, RunOK, Runs, OneRun, BroadcastsOK, Of, Sent

LEMMA RunAlways == SwapSpec => []RunInv
BY RunInit, RunStep, SwapAlways, PTL DEF SwapSpec

LEMMA AtMostOne ==
    ASSUME NEW S, \A x, y \in S : x = y
    PROVE  Cardinality(S) <= 1
<1>1. CASE S = {}
  BY <1>1, FS_EmptySet
<1>2. CASE S # {}
  <2>1. PICK x \in S : S = {x}
    BY <1>2
  <2> QED BY <2>1, FS_Singleton
<1> QED BY <1>1, <1>2

\* A Full Access run of a proposal sends at most one approval and one swap,
\* and the swap only after its approval has landed, whatever is refused,
\* locked, restarted or missed on the way.
THEOREM RunCorrect == SwapSpec => []RunIsBounded
<1>1. RunInv => RunIsBounded
  <2> SUFFICES ASSUME RunInv, kind.full, NEW s \in Swaps
               PROVE  /\ Cardinality(Broadcast(s, "approval")) <= 1
                      /\ Cardinality(Broadcast(s, "swap")) <= 1
                      /\ Broadcast(s, "swap") # {} =>
                           \A p \in Broadcast(s, "approval") : chain[p] = "success"
    BY DEF RunIsBounded
  <2>1. BroadcastsOK(s)
    BY DEF RunInv
  <2>2. \A p, q \in Broadcast(s, "approval") : p = q
    BY <2>1 DEF BroadcastsOK, Broadcast, Of, Sent
  <2>3. \A p, q \in Broadcast(s, "swap") : p = q
    BY <2>1 DEF BroadcastsOK, Broadcast, Of, Sent
  <2>4. Broadcast(s, "swap") # {} => \A p \in Broadcast(s, "approval") : chain[p] = "success"
    BY <2>1 DEF BroadcastsOK, Broadcast, Of, Sent
  <2> QED BY <2>2, <2>3, <2>4, AtMostOne
<1> QED BY <1>1, RunAlways, PTL

-----------------------------------------------------------------------------
(* EVM swaps: a card swaps once *)

\* What the cards are proved from, in a session without Full Access or chat.
CardParts ==
    /\ CardMode /\ CopiesMeet /\ NoRounds /\ DialogOK /\ OneSeen
    /\ \A i \in Slots : SeenOK(i) /\ SendOK(i)
    /\ \A s \in Swaps : CardOK(s)

LEMMA DoneIs ==
    ASSUME NEW m
    PROVE  SwapConfirmed(m) <=> Done(m, preflight)
BY DEF SwapConfirmed, Done

LEMMA DoneKeeps ==
    ASSUME SwapInv, [SwapNext]_swapVars, NEW m \in Messages, NEW s \in Swaps,
           CopyOK(m, s, preflight)
    PROVE  /\ Done(m, preflight') <=> Done(m, preflight)
           /\ Open(m, preflight') <=> Open(m, preflight)
<1>1. \A n \in DOMAIN m.receipts :
        /\ m.receipts[n].of \in Preflights
        /\ preflight[m.receipts[n].of].swap # None
  <2>1. m.receipts \in Seq(Receipts)
    BY MessageFields
  <2>2. \A n \in DOMAIN m.receipts : m.receipts[n] \in Receipts
    BY <2>1
  <2> QED BY <2>2 DEF CopyOK, Receipts
<1>2. \A n \in DOMAIN m.receipts :
        preflight'[m.receipts[n].of].action = preflight[m.receipts[n].of].action
  BY <1>1, PreflightKeeps
<1>3. Done(m, preflight') <=> Done(m, preflight)
  BY <1>2 DEF Done
<1> QED BY <1>3 DEF Open

LEMMA CopyTypes ==
    ASSUME SwapInv, NEW s \in Swaps
    PROVE  /\ shown[s] \in Messages /\ CopyOK(shown[s], s, preflight)
           /\ stored[s] \in Messages /\ CopyOK(stored[s], s, preflight)
BY DEF SwapInv, SwapTypeOK, WindowInv, CopiesOK

LEMMA WhoUnlocks ==
    ASSUME [SwapNext]_swapVars
    PROVE  \/ unlocked' = unlocked
           \/ unlocked' = FALSE
           \/ Unlock
BY ZenonT(60) DEF SwapNext, RequestPrepare, StartFullAccess, PrepareDone, PrepareFails, SubmitDialog,
       PasswordVerified, StartUnattended, ExecutionRefused, Send, SavePending,
       ReceiptArrives, ReceiptMissed, OpenDialog, ReconcileList, CloseDialog,
       ReconcileOne, ReconcileSkips, ChatSend, ChatAnswer, Lock,
       SaveSession, Engage, Release, Expire, Restart, Mine, gates, swapVars

LEMMA AnswerEnds ==
    ASSUME SwapInv, CardParts, NEW i \in Slots,
           (\E p \in Preflights : PrepareDone(i, p)) \/ Answers(i)
    PROVE  /\ ~Runs(i)' /\ unlocked' = unlocked
           /\ task[i].pc \in {"building", "waiting"}
           /\ Answers(i) => task[i].pc = "waiting"
           /\ (\E p \in Preflights : PrepareDone(i, p)) => task[i].pc = "building"
           /\ Runs(i) /\ task[i].swap \in Swaps
<1>1. /\ task[i].pc \in {"building", "waiting"} /\ unlocked' = unlocked
      /\ Answers(i) => task[i].pc = "waiting"
      /\ (\E p \in Preflights : PrepareDone(i, p)) => task[i].pc = "building"
  BY DEF PrepareDone, Answers, ReceiptArrives, ReceiptMissed, At, gates
<1>2. Runs(i) /\ task[i].swap \in Swaps
  BY <1>1, CallFields DEF Runs
<1>3. task[i].round = 0
  BY <1>2 DEF CardParts, NoRounds
<1>4. End(i)
  <2>1. CASE \E p \in Preflights : PrepareDone(i, p)
    BY <1>3, <2>1 DEF PrepareDone, Proceeds
  <2>2. CASE Answers(i)
    BY <1>3, <2>2, SMTT(60) DEF Answers, ReceiptArrives, ReceiptMissed, Answer
  <2> QED BY <2>1, <2>2
<1>5. task'[i].pc = "idle"
  BY <1>4, EndMoves DEF SwapInv
<1> QED BY <1>1, <1>2, <1>5 DEF Runs

LEMMA CardMoves ==
    ASSUME SwapInv, CardParts, [SwapNext]_swapVars, NEW i \in Slots, Runs(i)'
    PROVE  \/ /\ task'[i].swap = task[i].swap /\ task'[i].of = task[i].of
              /\ task'[i].round = task[i].round /\ Runs(i)
              /\ task'[i].seen => task[i].seen
              /\ MaySend(i)' => MaySend(i)
              /\ \/ task'[i].pc = task[i].pc
                 \/ task[i].pc \in Execution /\ task'[i].pc \in Execution
           \/ \E s \in Swaps : /\ RequestPrepare(i, s)
                               /\ task'[i].swap = s /\ task'[i].pc = "building" /\ task'[i].round = 0
           \/ /\ SubmitDialog(i) /\ unlocked
              /\ task'[i].pc = "verifying" /\ task'[i].of = modal
              /\ task'[i].swap = preflight[modal].swap /\ task'[i].round = 0
<1>1. task[i] \in Tasks /\ task' \in [Slots -> Tasks] /\ None \notin Swaps
  BY CallFields, CallsMove, EvmSwapAssumption
<1>2. task'[i].pc # "idle" /\ task'[i] # Idle /\ ~kind.full
  BY IdleType DEF Runs, CardParts, CardMode
<1>3. CASE /\ task'[i].pc = task[i].pc /\ task'[i].swap = task[i].swap /\ task'[i].of = task[i].of
           /\ task'[i].round = task[i].round
           /\ task'[i].seen => task[i].seen
  <2>1. Runs(i)
    BY <1>2, <1>3 DEF Runs
  <2>2. task[i].pc \in {"verifying", "starting"} /\ preflight'[task[i].of].kept
        => preflight[task[i].of].kept
    <3>1. task[i].pc \in {"verifying", "starting"} => task[i].of \in Preflights
          /\ preflight[task[i].of].swap # None
      BY <1>1, CallFields DEF Execution
    <3> QED BY <3>1, PreflightKeeps
  <2>3. MaySend(i)' => MaySend(i)
    BY <1>3, <2>2 DEF MaySend
  <2> QED BY <1>3, <2>1, <2>3
<1>4. CASE Handles(i) /\ Moved(i) /\ task' # task
  <2>1. CASE /\ \E s \in Swaps : (RequestPrepare(i, s) \/ StartFullAccess(i, s)) /\ task'[i].swap = s
             /\ task'[i].pc = "building" /\ task'[i].seen
             /\ task'[i].round = IF kind.full THEN 1 ELSE 0
    BY <1>2, <2>1 DEF StartFullAccess
  <2>2. CASE /\ SubmitDialog(i)
             /\ task'[i] = [Idle EXCEPT !.pc = "verifying", !.of = modal,
                                        !.swap = preflight[modal].swap]
    <3>1. unlocked
      BY <1>4, <2>2 DEF SubmitDialog
    <3> QED BY <2>2, <3>1, SubmittedIs
  <2>3. ~\E p \in Preflights : PrepareDone(i, p)
    BY AnswerEnds
  <2>4. ~Answers(i)
    BY AnswerEnds
  <2>5. ASSUME NEW pc \in Execution, task[i].pc \in Execution, task'[i] = [task[i] EXCEPT !.pc = pc],
               pc = "checking" => MaySend(i), pc \in Taken
        PROVE  /\ task'[i].swap = task[i].swap /\ task'[i].of = task[i].of
               /\ task'[i].round = task[i].round /\ Runs(i)
               /\ task'[i].seen => task[i].seen
               /\ MaySend(i)' => MaySend(i)
               /\ task[i].pc \in Execution /\ task'[i].pc \in Execution
    <3>1. /\ task'[i].pc = pc /\ task'[i].swap = task[i].swap /\ task'[i].of = task[i].of
          /\ task'[i].round = task[i].round /\ task'[i].seen = task[i].seen
      BY <1>1, <2>5 DEF Tasks
    <3>2. MaySend(i)' => MaySend(i)
      BY <2>5, <3>1 DEF MaySend, Taken
    <3> QED BY <2>5, <3>1, <3>2 DEF Runs, Execution
  <2>6. CASE Takes(i) /\ preflight[task[i].of].kept /\ task'[i] = [task[i] EXCEPT !.pc = "checking"]
    <3>1. MaySend(i) /\ task[i].pc \in Execution
      BY <2>6, TakesIs DEF MaySend, Execution
    <3> QED BY <2>5, <2>6, <3>1 DEF Execution, Taken
  <2>7. CASE Send(i) /\ task'[i] = [task[i] EXCEPT !.pc = "saving"]
    BY <2>5, <2>7 DEF Send, At, Execution, Taken
  <2>8. CASE SavePending(i) /\ unlocked /\ task'[i] = [task[i] EXCEPT !.pc = "waiting"]
    BY <2>5, <2>8 DEF SavePending, At, Execution, Taken
  <2> QED BY <1>2, <1>4, <2>1, <2>2, <2>3, <2>4, <2>6, <2>7, <2>8 DEF Moved
<1>5. CASE task'[i] = task[i]
  BY <1>3, <1>5
<1>6. CASE Unlock /\ task'[i] = [task[i] EXCEPT !.seen = FALSE]
  <2>1. /\ task'[i].pc = task[i].pc /\ task'[i].swap = task[i].swap /\ task'[i].of = task[i].of
        /\ task'[i].round = task[i].round /\ task'[i].seen = FALSE
    BY <1>1, <1>6 DEF Tasks
  <2> QED BY <1>3, <2>1
<1> QED BY <1>2, <1>4, <1>5, <1>6, CallsMove DEF CallsMoveOnly

\* The copy of the message of s: as it was, changed by a call the window
\* waits for, or read from the session again.
Unmoved(s) == shown'[s] = shown[s] /\ stored'[s] = stored[s]
MovedBy(k, m, s) ==
    /\ Seen(k) /\ task[k].swap = s /\ ShownBy(k, m) /\ ~Runs(k)'
    /\ shown'[s] = m /\ stored'[s] \in {m, stored[s]}
Reread(s) == (Unlock \/ Restart) /\ shown'[s] = stored[s] /\ stored'[s] = stored[s]

LEMMA CopyMoves ==
    ASSUME SwapInv, CardParts, [SwapNext]_swapVars, NEW s \in Swaps
    PROVE  \/ Unmoved(s)
           \/ \E k \in Slots : \E m \in Messages : MovedBy(k, m, s)
           \/ Reread(s)
<1>1. CASE UNCHANGED <<shown, stored>>
  BY <1>1 DEF Unmoved
<1>2. CASE ChatAnswer
  BY <1>2 DEF ChatAnswer, CardParts, CopiesMeet
<1>3. CASE Unlock \/ Restart
  BY <1>3 DEF Unlock, Restart, Reread
<1>4. CASE \E k \in Slots : Answers(k) \/ \E p \in Preflights : PrepareDone(k, p)
  <2>1. PICK k \in Slots : Answers(k) \/ \E p \in Preflights : PrepareDone(k, p)
    BY <1>4
  <2>2. PICK m \in Messages : ShownBy(k, m) /\ Show(k, m)
    BY <2>1, ShowIs
  <2>3. ~Runs(k)' /\ Runs(k)
    BY <2>1, AnswerEnds
  <2>4. shown \in Copies /\ stored \in Copies
    BY DEF SwapInv, SwapTypeOK, Copies
  <2>5. CASE task[k].swap = s /\ task[k].seen
    <3>1. shown' = [shown EXCEPT ![s] = m]
      BY <2>2, <2>5 DEF Show
    <3>2. stored' = [stored EXCEPT ![s] = m] \/ stored' = stored
      BY <2>2, <2>5 DEF Show
    <3> QED BY <2>2, <2>3, <2>4, <2>5, <3>1, <3>2 DEF MovedBy, Seen, Copies
  <2>6. CASE task[k].swap # s \/ ~task[k].seen
    <3>1. shown'[s] = shown[s]
      BY <2>2, <2>4, <2>6 DEF Show, Copies
    <3>2. stored'[s] = stored[s]
      BY <2>2, <2>4, <2>6 DEF Show, Copies
    <3> QED BY <3>1, <3>2 DEF Unmoved
  <2> QED BY <2>5, <2>6
<1> QED BY <1>1, <1>2, <1>3, <1>4, WhoShows

LEMMA MeetStep == SwapInv /\ CardParts /\ [SwapNext]_swapVars => CopiesMeet'
<1> SUFFICES ASSUME SwapInv, CardParts, [SwapNext]_swapVars PROVE CopiesMeet'
  OBVIOUS
<1>0. chat = None /\ (unlocked => stored = shown) /\ ~kind.chatty
  BY DEF CardParts, CopiesMeet, CardMode
<1>1. chat' = None
  BY <1>0, WhoChats DEF ChatSend
<1>2. ASSUME unlocked' PROVE stored' = shown'
  <2>1. unlocked \/ Unlock
    BY <1>2, WhoUnlocks
  <2>2. CASE UNCHANGED <<shown, stored>>
    BY <1>0, <2>1, <2>2 DEF Unlock
  <2>3. CASE \E k \in Slots : Answers(k) \/ \E p \in Preflights : PrepareDone(k, p)
    <3>1. PICK k \in Slots : Answers(k) \/ \E p \in Preflights : PrepareDone(k, p)
      BY <2>3
    <3>2. PICK m \in Messages : Show(k, m)
      BY <3>1, ShowIs
    <3>3. unlocked
      BY <1>2, <3>1, AnswerEnds
    <3>4. stored = shown
      BY <1>0, <3>3
    <3> QED BY <3>2, <3>3, <3>4 DEF Show
  <2>4. CASE ChatAnswer \/ Unlock \/ Restart
    BY <1>2, <2>4 DEF ChatAnswer, Unlock, Restart
  <2> QED BY <2>2, <2>3, <2>4, WhoShows
<1> QED BY <1>1, <1>2 DEF CopiesMeet

LEMMA RoundsStep == SwapInv /\ CardParts /\ [SwapNext]_swapVars => NoRounds'
<1> SUFFICES ASSUME SwapInv, CardParts, [SwapNext]_swapVars, NEW i \in Slots, Runs(i)'
             PROVE  task'[i].round = 0
  BY DEF NoRounds
<1>1. Runs(i) => task[i].round = 0
  BY DEF CardParts, NoRounds
<1> QED BY <1>1, CardMoves

\* A call that joins joins a swap the window waits for no other call of.
Joins(i) == (\E s \in Swaps : RequestPrepare(i, s) /\ task'[i].swap = s) \/ SubmitDialog(i)

LEMMA JoinsAlone ==
    ASSUME SwapInv, CardParts, NEW i \in Slots, Joins(i),
           SubmitDialog(i) => task'[i].swap = preflight[modal].swap
    PROVE  \A j \in Slots \ {i} : Seen(j)' => task'[j].swap # task'[i].swap
<1>1. \A j \in Slots \ {i} : task'[j] = task[j]
  BY HandlerMoves DEF Joins, Handles, CallsMoveOnly
<1>2. CASE SubmitDialog(i)
  <2>1. \A j \in Slots : Seen(j) => task[j].swap # preflight[modal].swap
    BY <1>2 DEF SubmitDialog, CardParts, DialogOK
  <2> QED BY <1>1, <1>2, <2>1 DEF Seen, Runs
<1>3. ASSUME NEW s \in Swaps, RequestPrepare(i, s), task'[i].swap = s,
             NEW j \in Slots \ {i}, Seen(j), task[j].swap = s
      PROVE  FALSE
  <2>1. task[j].pc # "building" /\ shown[s].card = None
    BY <1>3 DEF RequestPrepare, Preparing, Shows, At, Seen
  <2>2. task[j].pc \in Execution
    BY <1>3, <2>1, CallFields DEF Seen, Runs, Tasks, Steps, Execution
  <2>3. task[j].of \in Preflights /\ None \notin Preflights
    BY <2>2, CallFields, EvmSwapAssumption
  <2>4. shown[s].card = task[j].of
    BY <1>3, <2>2 DEF CardParts, SeenOK
  <2> QED BY <2>1, <2>3, <2>4
<1> QED BY <1>1, <1>2, <1>3 DEF Joins, Seen, Runs

LEMMA OneSeenStep == SwapInv /\ CardParts /\ [SwapNext]_swapVars => OneSeen'
<1> SUFFICES ASSUME SwapInv, CardParts, [SwapNext]_swapVars,
                    NEW i \in Slots, NEW j \in Slots, Seen(i)', Seen(j)',
                    task'[i].swap = task'[j].swap, i # j
             PROVE  FALSE
  BY DEF OneSeen
<1>1. ASSUME NEW k \in Slots, Seen(k)'
      PROVE  \/ Seen(k) /\ task'[k].swap = task[k].swap
             \/ Joins(k) /\ (SubmitDialog(k) => task'[k].swap = preflight[modal].swap)
  <2>1. Runs(k)' /\ task'[k].seen
    BY <1>1 DEF Seen
  <2>2. CASE Runs(k) /\ task'[k].swap = task[k].swap /\ (task'[k].seen => task[k].seen)
    BY <2>1, <2>2 DEF Seen
  <2>3. CASE \E s \in Swaps : RequestPrepare(k, s) /\ task'[k].swap = s
    BY <2>3 DEF Joins, RequestPrepare, SubmitDialog, window
  <2>4. CASE SubmitDialog(k) /\ task'[k].swap = preflight[modal].swap
    BY <2>4 DEF Joins
  <2> QED BY <2>1, <2>2, <2>3, <2>4, CardMoves
<1>2. ~Joins(i) \/ ~(SubmitDialog(i) => task'[i].swap = preflight[modal].swap)
  BY JoinsAlone
<1>3. ~Joins(j) \/ ~(SubmitDialog(j) => task'[j].swap = preflight[modal].swap)
  BY JoinsAlone
<1> QED BY <1>1, <1>2, <1>3 DEF CardParts, OneSeen

LEMMA UnmovedOpen ==
    ASSUME SwapInv, [SwapNext]_swapVars, NEW s \in Swaps, Unmoved(s)
    PROVE  /\ shown'[s].card = shown[s].card /\ stored'[s].card = stored[s].card
           /\ Open(shown[s], preflight)' <=> Open(shown[s], preflight)
           /\ Open(stored[s], preflight)' <=> Open(stored[s], preflight)
<1>1. PICK m \in Messages : m = shown[s] /\ CopyOK(m, s, preflight)
  BY CopyTypes
<1>2. PICK n \in Messages : n = stored[s] /\ CopyOK(n, s, preflight)
  BY CopyTypes
<1>3. /\ Open(m, preflight') <=> Open(m, preflight)
      /\ Open(n, preflight') <=> Open(n, preflight)
  BY <1>1, <1>2, DoneKeeps
<1> QED BY <1>1, <1>2, <1>3 DEF Unmoved

LEMMA DialogStep == SwapInv /\ CardParts /\ [SwapNext]_swapVars => DialogOK'
<1> SUFFICES ASSUME SwapInv, CardParts, [SwapNext]_swapVars, modal' # None PROVE DialogOK'
  BY DEF DialogOK
<1>0. None \notin Preflights \cup Swaps
  BY EvmSwapAssumption
<1>1. CASE modal' = modal
  <2>1. PICK q \in Preflights, s \in Swaps : q = modal /\ q = modal' /\ s = preflight[q].swap
    BY <1>1 DEF SwapInv, SwapTypeOK, WindowInv
  <2>2. preflight'[q].swap = s
    BY <1>0, <2>1, PreflightKeeps
  <2>3. shown[s].card = q /\ \A i \in Slots : Seen(i) => task[i].swap # s
    BY <1>0, <2>1 DEF CardParts, DialogOK
  <2>4. Unmoved(s)
    BY <1>0, <2>1, <2>3, CopyMoves DEF MovedBy, Reread, Unlock, Restart
  <2>5. ASSUME NEW i \in Slots, Seen(i)' PROVE task'[i].swap # s
    <3>1. Runs(i)' /\ task'[i].seen
      BY <2>5 DEF Seen
    <3>2. CASE Runs(i) /\ task'[i].swap = task[i].swap /\ (task'[i].seen => task[i].seen)
      BY <2>3, <3>1, <3>2 DEF Seen
    <3>3. ASSUME NEW t \in Swaps, RequestPrepare(i, t), task'[i].swap = t PROVE t # s
      BY <1>0, <2>1, <2>3, <3>3 DEF RequestPrepare
    <3>4. CASE SubmitDialog(i)
      BY <3>4 DEF SubmitDialog
    <3> QED BY <3>1, <3>2, <3>3, <3>4, CardMoves
  <2> QED BY <2>1, <2>2, <2>3, <2>4, <2>5 DEF DialogOK, Unmoved
<1>2. CASE \E s \in Swaps : OpenDialog(s)
  <2>1. PICK s \in Swaps : OpenDialog(s)
    BY <1>2
  <2>2. PICK q \in Preflights : q = shown[s].card /\ q = modal' /\ preflight[q].swap = s
    BY <1>0, <2>1, CopyTypes, MessageFields DEF OpenDialog, CopyOK
  <2>3. UNCHANGED <<shown, task, preflight>>
    BY <2>1 DEF OpenDialog, lane
  <2>4. ASSUME NEW i \in Slots, Seen(i), task[i].swap = s PROVE FALSE
    <3>1. task[i].pc = "building"
      BY <2>1, <2>4 DEF OpenDialog, Executing, Shows, At, Seen, Runs
    <3> QED BY <1>0, <2>2, <2>4, <3>1 DEF CardParts, SeenOK, Open
  <2> QED BY <2>2, <2>3, <2>4 DEF DialogOK, Seen, Runs
<1> QED BY <1>1, <1>2, WhoOpens

LEMMA SeenStep ==
    ASSUME SwapInv, CardParts, [SwapNext]_swapVars, NEW i \in Slots
    PROVE  SeenOK(i)'
<1> SUFFICES ASSUME Seen(i)'
             PROVE  /\ task'[i].pc = "building" => Open(shown[task[i].swap], preflight)'
                    /\ task'[i].pc \in Execution => shown'[task'[i].swap].card = task'[i].of
  BY DEF SeenOK
<1>0. None \notin Preflights \cup Swaps /\ Runs(i)' /\ task'[i].seen
  BY EvmSwapAssumption DEF Seen
<1>1. CASE /\ task'[i].swap = task[i].swap /\ task'[i].of = task[i].of /\ Runs(i) /\ task[i].seen
           /\ \/ task'[i].pc = task[i].pc
              \/ task[i].pc \in Execution /\ task'[i].pc \in Execution
  <2>1. PICK s \in Swaps : s = task[i].swap /\ s = task'[i].swap
    BY <1>1, CallFields DEF Runs
  <2>2. /\ task[i].pc = "building" => Open(shown[s], preflight)
        /\ task[i].pc \in Execution => shown[s].card = task[i].of
    BY <1>1, <2>1 DEF CardParts, SeenOK, Seen
  <2>3. Unmoved(s)
    <3>1. ASSUME NEW k \in Slots, NEW m \in Messages, MovedBy(k, m, s) PROVE FALSE
      <4>1. k = i
        BY <1>1, <2>1, <3>1 DEF CardParts, OneSeen, MovedBy, Seen
      <4> QED BY <1>0, <3>1, <4>1 DEF MovedBy
    <3>2. ~Reread(s)
      <4>1. ~Restart
        BY <1>0, IdleType DEF Restart, Runs
      <4>2. ~Unlock
        <5> SUFFICES ASSUME Unlock PROVE FALSE
          OBVIOUS
        <5>1. task'[i] = [task[i] EXCEPT !.seen = FALSE]
          BY <1>1 DEF Unlock, At, Runs
        <5> QED BY <1>0, <5>1, CallFields DEF Tasks
      <4> QED BY <4>1, <4>2 DEF Reread
    <3> QED BY <3>1, <3>2, CopyMoves
  <2>4. shown'[s].card = shown[s].card
    BY <2>3 DEF Unmoved
  <2>5. Open(shown[s], preflight)' <=> Open(shown[s], preflight)
    BY <2>3, UnmovedOpen
  <2>6. "building" \notin Execution
    BY DEF Execution
  <2>7. task'[i].pc = "building" => Open(shown[task[i].swap], preflight)'
    BY <1>1, <2>1, <2>2, <2>5, <2>6
  <2>8. task'[i].pc \in Execution => shown'[task'[i].swap].card = task'[i].of
    BY <1>1, <2>1, <2>2, <2>4
  <2> QED BY <2>7, <2>8
<1>2. ASSUME NEW s \in Swaps, RequestPrepare(i, s), task'[i].swap = s, task'[i].pc = "building"
      PROVE  /\ task'[i].pc = "building" => Open(shown[task[i].swap], preflight)'
             /\ task'[i].pc \in Execution => shown'[task'[i].swap].card = task'[i].of
  <2>1. Open(shown[s], preflight)
    BY <1>2, DoneIs DEF RequestPrepare, Open
  <2>2. UNCHANGED <<shown, preflight>>
    BY <1>2 DEF RequestPrepare, lane, window
  <2>3. Open(shown[task[i].swap], preflight)'
    BY <1>2, <2>1, <2>2
  <2> QED BY <1>2, <2>3 DEF Execution
<1>3. CASE SubmitDialog(i) /\ task'[i].pc = "verifying" /\ task'[i].of = modal
           /\ task'[i].swap = preflight[modal].swap
  <2>1. shown[preflight[modal].swap].card = modal
    BY <1>3 DEF SubmitDialog, CardParts, DialogOK
  <2>2. shown' = shown
    BY <1>3, SubmittedIs
  <2> QED BY <1>3, <2>1, <2>2
<1> QED BY <1>0, <1>1, <1>2, <1>3, CardMoves

\* Nobody answers for the preflight of a call that may still send it.
LEMMA SendStep ==
    ASSUME SwapInv, CardParts, [SwapNext]_swapVars, NEW i \in Slots
    PROVE  SendOK(i)'
<1> SUFFICES ASSUME MaySend(i)'
             PROVE  /\ shown'[task'[i].swap].card = task'[i].of
                    /\ stored'[task'[i].swap].card = task'[i].of
  BY DEF SendOK
<1>0. None \notin Preflights \cup Swaps /\ Runs(i)' /\ task'[i].pc # "building"
  BY EvmSwapAssumption DEF MaySend, Runs
<1>1. CASE /\ task'[i].swap = task[i].swap /\ task'[i].of = task[i].of /\ Runs(i) /\ MaySend(i)
  <2>1. PICK s \in Swaps, p \in Preflights :
          /\ s = task[i].swap /\ s = task'[i].swap /\ p = task[i].of /\ p = task'[i].of
    BY <1>1, CallFields DEF MaySend, Execution
  <2>2. shown[s].card = p /\ stored[s].card = p
    BY <1>1, <2>1 DEF CardParts, SendOK
  <2>3. ASSUME NEW k \in Slots, NEW m \in Messages, MovedBy(k, m, s) PROVE FALSE
    <3>1. (\E q \in Preflights : PrepareDone(k, q)) \/ Answers(k)
      BY <2>3 DEF MovedBy, ShownBy, Answers
    <3>2. task[k].pc # "building"
      BY <1>0, <2>2, <2>3 DEF MovedBy, CardParts, SeenOK, Open
    <3>3. task[k].pc = "waiting"
      BY <3>1, <3>2, AnswerEnds
    <3>4. task[k].of = p
      BY <2>2, <2>3, <3>3 DEF MovedBy, CardParts, SeenOK, Execution
    <3>5. ~preflight[p].kept
      BY <3>3, <3>4 DEF SwapInv, TakenInv, TakenOK, Taken
    <3>6. task[i].pc = "checking"
      BY <1>1, <2>1, <3>5 DEF MaySend
    <3>7. i = k
      BY <2>1, <3>3, <3>4, <3>6 DEF SwapInv, TakenInv, TakenOnce, Taken
    <3> QED BY <3>3, <3>6, <3>7
  <2>4. shown'[s].card = p /\ stored'[s].card = p
    BY <2>2, <2>3, CopyMoves DEF Unmoved, Reread
  <2> QED BY <2>1, <2>4
<1>2. CASE SubmitDialog(i) /\ unlocked /\ task'[i].pc = "verifying" /\ task'[i].of = modal
           /\ task'[i].swap = preflight[modal].swap
  <2>1. shown[preflight[modal].swap].card = modal
    BY <1>2 DEF SubmitDialog, CardParts, DialogOK
  <2>2. UNCHANGED <<shown, stored>> /\ stored = shown
    BY <1>2, SubmittedIs DEF CardParts, CopiesMeet
  <2> QED BY <1>2, <2>1, <2>2
<1> QED BY <1>0, <1>1, <1>2, CardMoves

\* What a live preflight of s finds in a message: the preflight itself on the
\* card, or an answer that lets nothing more be prepared.
LEMMA AnsweredBlocks ==
    ASSUME SwapInv, [SwapNext]_swapVars, NEW m \in Messages, NEW p \in Preflights,
           NEW status \in {"unknown", "confirmed"}, Live(p), preflight[p].swap # None
    PROVE  Blocked(Answered(m, p, status), p, preflight')
<1>1. status \in Decisions
  BY DEF Decisions
<1>2. preflight'[p].action = "swap"
  BY PreflightKeeps DEF Live
<1>3. PICK r \in {Answered(m, p, status)} : r = Answered(m, p, status)
  OBVIOUS
<1>4. /\ Len(r.receipts) \in DOMAIN r.receipts /\ r.receipts # <<>>
      /\ r.receipts[Len(r.receipts)] = [of |-> p, status |-> status]
  BY <1>1, <1>3, AnsweredFields
<1>5. r.card = None
  BY <1>3 DEF Answered
<1>6. CASE status = "unknown"
  BY <1>4, <1>5, <1>6 DEF Blocked, Open, LatestUnknown
<1>7. CASE status = "confirmed"
  <2>1. Done(r, preflight')
    BY <1>2, <1>4, <1>7 DEF Done
  <2> QED BY <1>5, <2>1 DEF Blocked, Open
<1>8. Blocked(r, p, preflight')
  BY <1>1, <1>6, <1>7
<1> QED BY <1>3, <1>8

\* A preflight becomes live when it is sent from the card that shows it.
LEMMA LiveMoves ==
    ASSUME SwapInv, CardParts, [SwapNext]_swapVars, NEW p \in Preflights, NEW s \in Swaps,
           Live(p)', preflight'[p].swap = s
    PROVE  /\ preflight[p].swap = s
           /\ \/ Live(p)
              \/ /\ shown[s].card = p /\ stored[s].card = p
                 /\ UNCHANGED <<shown, stored, preflight>>
<1>0. None \notin Swaps /\ ChainMoves(p) /\ PreflightOK(preflight[p], chain[p], receipts[p])
  BY EvmSwapAssumption, ChainMove DEF SwapInv, LaneInv
<1>1. CASE chain[p] # "unsent"
  <2>1. preflight[p].swap # None
    BY <1>0, <1>1 DEF PreflightOK
  <2>2. preflight[p].swap = s /\ preflight[p].action = "swap"
    BY <2>1, PreflightKeeps DEF Live
  <2>3. chain[p] \in {"pending", "success"}
    BY <1>0, <1>1 DEF Live, ChainMoves
  <2> QED BY <2>2, <2>3 DEF Live
<1>2. CASE chain[p] = "unsent"
  <2>1. PICK i \in Slots : Send(i) /\ task[i].pc = "checking" /\ task[i].of = p
    BY <1>0, <1>2 DEF Live, ChainMoves
  <2>2. UNCHANGED <<shown, stored, preflight>>
    BY <2>1 DEF Send, Report, lane, window
  <2>3. task[i].swap = s
    BY <2>1, <2>2, CallFields DEF Execution
  <2>4. shown[s].card = p /\ stored[s].card = p
    BY <2>1, <2>3 DEF CardParts, SendOK, MaySend
  <2> QED BY <2>2, <2>4
<1> QED BY <1>1, <1>2

LEMMA BlockedKeeps ==
    ASSUME SwapInv, [SwapNext]_swapVars, NEW m \in Messages, NEW s \in Swaps,
           CopyOK(m, s, preflight), NEW p, Blocked(m, p, preflight)
    PROVE  Blocked(m, p, preflight')
BY DoneKeeps DEF Blocked

LEMMA BlockedStep ==
    ASSUME SwapInv, CardParts, [SwapNext]_swapVars, NEW p \in Preflights, NEW s \in Swaps,
           Live(p)', preflight'[p].swap = s
    PROVE  Blocked(shown'[s], p, preflight') /\ Blocked(stored'[s], p, preflight')
<1>0. None \notin Preflights \cup Swaps /\ preflight[p].swap = s
  BY EvmSwapAssumption, LiveMoves
<1>1. CASE shown[s].card = p /\ stored[s].card = p /\ UNCHANGED <<shown, stored, preflight>>
  BY <1>0, <1>1 DEF Blocked, Open
<1>2. CASE Live(p)
  <2>1. PICK m \in Messages, n \in Messages : m = shown[s] /\ n = stored[s]
    BY CopyTypes
  <2>2. Blocked(m, p, preflight) /\ Blocked(n, p, preflight)
    BY <1>0, <1>2, <2>1 DEF CardParts, CardOK
  <2>3. CopyOK(m, s, preflight) /\ CopyOK(n, s, preflight)
    BY <2>1, CopyTypes
  <2>4. Blocked(m, p, preflight') /\ Blocked(n, p, preflight')
    BY <2>2, <2>3, BlockedKeeps
  <2>5. CASE Unmoved(s)
    BY <2>1, <2>4, <2>5 DEF Unmoved
  <2>6. CASE Reread(s)
    BY <2>1, <2>4, <2>6 DEF Reread
  <2>7. ASSUME NEW k \in Slots, NEW r \in Messages, MovedBy(k, r, s)
        PROVE  Blocked(shown'[s], p, preflight') /\ Blocked(stored'[s], p, preflight')
    <3>1. ~Open(m, preflight) /\ m.card \in {p, None}
      BY <2>2 DEF Blocked
    <3>2. task[k].pc # "building"
      BY <2>1, <2>7, <3>1 DEF MovedBy, CardParts, SeenOK
    <3>3. Answers(k) /\ task[k].pc = "waiting"
      BY <2>7, <3>2, AnswerEnds DEF MovedBy, ShownBy, Answers
    <3>4. task[k].of = p
      <4>1. m.card = task[k].of
        BY <2>1, <2>7, <3>3 DEF MovedBy, CardParts, SeenOK, Execution
      <4>2. task[k].of \in Preflights
        BY <3>3, CallFields DEF Execution
      <4> QED BY <1>0, <3>1, <4>1, <4>2
    <3>5. \/ ReceiptMissed(k) /\ r = Answered(m, p, "unknown")
          \/ ReceiptArrives(k) /\ r = Answered(m, p, Outcome(p))
      BY <2>1, <2>7, <3>2, <3>4, AnswerEnds DEF MovedBy, ShownBy
    <3>6. Blocked(r, p, preflight')
      <4>1. CASE r = Answered(m, p, "unknown")
        BY <1>0, <1>2, <4>1, AnsweredBlocks
      <4>2. CASE ReceiptArrives(k) /\ r = Answered(m, p, Outcome(p))
        <5>1. Outcome(p) = "confirmed"
          BY <1>2, <3>4, <4>2 DEF ReceiptArrives, Decided, Outcome, Live
        <5> QED BY <1>0, <1>2, <4>2, <5>1, AnsweredBlocks
      <4> QED BY <3>5, <4>1, <4>2
    <3>7. shown'[s] = r /\ stored'[s] \in {r, n}
      BY <2>1, <2>7 DEF MovedBy
    <3> QED BY <2>4, <3>6, <3>7
  <2> QED BY <2>5, <2>6, <2>7, CopyMoves
<1> QED BY <1>1, <1>2, LiveMoves

LEMMA CardOKStep ==
    ASSUME SwapInv, CardParts, [SwapNext]_swapVars, NEW s \in Swaps
    PROVE  CardOK(s)'
<1>1. \A p \in Preflights : Live(p)' /\ preflight'[p].swap = s =>
        Blocked(shown'[s], p, preflight') /\ Blocked(stored'[s], p, preflight')
  BY BlockedStep
<1>2. ASSUME NEW p \in Preflights, NEW q \in Preflights, Live(p)', Live(q)',
             preflight'[p].swap = s, preflight'[q].swap = s
      PROVE  p = q
  <2>0. None \notin Preflights
    BY EvmSwapAssumption
  <2>1. \A r \in Preflights : Live(r) /\ preflight[r].swap = s => shown[s].card \in {r, None}
    BY DEF CardParts, CardOK, Blocked
  <2>2. CASE Live(p) /\ Live(q)
    BY <1>2, <2>2, LiveMoves DEF CardParts, CardOK
  <2>3. CASE shown[s].card = p \/ shown[s].card = q
    BY <1>2, <2>0, <2>1, <2>3, LiveMoves
  <2> QED BY <1>2, <2>2, <2>3, LiveMoves
<1> QED BY <1>1, <1>2 DEF CardOK

LEMMA CardStep == SwapInv /\ CardInv /\ [SwapNext]_swapVars => CardInv'
<1> SUFFICES ASSUME SwapInv, CardInv, [SwapNext]_swapVars, CardMode PROVE CardParts'
  BY KindStays DEF CardInv, CardParts, CardMode
<1>1. CardParts
  BY DEF CardInv, CardParts
<1>2. CardMode'
  BY KindStays DEF CardMode
<1> QED BY <1>1, <1>2, MeetStep, RoundsStep, DialogStep, OneSeenStep, SeenStep, SendStep, CardOKStep
        DEF CardParts

LEMMA CardInit == SwapInit => CardInv
<1> SUFFICES ASSUME SwapInit, CardMode
             PROVE  /\ CopiesMeet /\ NoRounds /\ DialogOK /\ OneSeen
                    /\ \A i \in Slots : SeenOK(i) /\ SendOK(i)
                    /\ \A s \in Swaps : CardOK(s)
  BY DEF CardInv
<1>1. \A i \in Slots : ~Runs(i) /\ ~MaySend(i)
  BY IdleType DEF SwapInit, Runs, MaySend
<1>2. \A p \in Preflights : ~Live(p)
  BY DEF SwapInit, Live
<1>3. CopiesMeet /\ DialogOK
  BY DEF SwapInit, CopiesMeet, DialogOK
<1> QED BY <1>1, <1>2, <1>3 DEF NoRounds, OneSeen, SeenOK, SendOK, CardOK, Seen

LEMMA CardAlways == SwapSpec => []CardInv
BY CardInit, CardStep, SwapAlways, PTL DEF SwapSpec

\* A proposal is swapped at most once, whatever the window was told about its
\* broadcasts and however often it was locked, restarted or mounted anew: a
\* second swap is sent only after the first reverted.
THEOREM SwappedOnce == SwapSpec => []OneSwap
<1>1. RunInv /\ CardInv /\ SwapInv => OneSwap
  <2> SUFFICES ASSUME RunInv, CardInv, SwapInv, ~kind.chatty, NEW s \in Swaps,
                      NEW p \in {r \in Broadcast(s, "swap") : chain[r] # "reverted"},
                      NEW q \in {r \in Broadcast(s, "swap") : chain[r] # "reverted"}
               PROVE  p = q
    BY AtMostOne DEF OneSwap
  <2>1. CASE kind.full
    BY <2>1 DEF RunInv, BroadcastsOK, Broadcast, Of, Sent
  <2>2. CASE ~kind.full
    <3>1. CardOK(s)
      BY <2>2 DEF CardInv, CardMode
    <3>2. Live(p) /\ Live(q)
      BY DEF Live, Broadcast, SwapInv, SwapTypeOK
    <3> QED BY <3>1, <3>2 DEF CardOK, Broadcast
  <2> QED BY <2>1, <2>2
<1> QED BY <1>1, RunAlways, CardAlways, SwapAlways, PTL

-----------------------------------------------------------------------------
(* Both cards as they are explored together *)

LEMMA CardsHaveParts == CardsSpec => SwapSpec /\ LimitSpec
<1>1. CardsInit => SwapInit /\ LimitInit
  BY DEF CardsInit
<1>2. [CardsNext]_<<swapVars, limitVars>> => [SwapNext]_swapVars /\ [LimitNext]_limitVars
  BY DEF CardsNext
<1> QED BY <1>1, <1>2, PTL DEF CardsSpec, SwapSpec, LimitSpec

\* The state of the two cards, of their calls and of what they have sent stays
\* in its types.
THEOREM CardsTypeCorrect == CardsSpec => []CardsTypeOK
<1>1. SwapTypeOK /\ LimitTypeOK => CardsTypeOK
  BY DEF CardsTypeOK
<1> QED BY <1>1, CardsHaveParts, SwapTypeCorrect, LimitTypeCorrect, PTL
=============================================================================
