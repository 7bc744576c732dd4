--------------------------- MODULE Launch_proofs ---------------------------
(* Theorems about the token launch, for every set of mints and calls.       *)
EXTENDS Launch, TLAPS

-----------------------------------------------------------------------------
(* The invariant. Its parts take the state they speak of as parameters:     *)
(* mints made (mk), keys held (h), outcomes (o), submissions (sub), mints   *)
(* on record (k).                                                           *)

OnRecord == lost \cup {saved.mint}

Known(d, mk) == {d.preflight, d.review, d.mint} \subseteq mk \cup {NoMint}

\* Final checks whose key is still in memory are those of the preflight shown.
Paired(d, h) == d.review \in h => d.review = d.preflight

Landed(m, st, o) == st = "finalized" => m # NoMint /\ o[m] = "landed"

GoodDraft(d, mk, h, o) ==
    d \in Drafts /\ Known(d, mk) /\ Paired(d, h) /\ Landed(d.mint, d.status, o)

\* What a call knows by where it is.
Signs(r, mk, h, sub, k) ==
    /\ r.mint \in (mk \ h) \cap k /\ sub[r.mint] = 0
    /\ r.kind = "execute" /\ r.view.preflight = r.mint

Shows(r, h, o) ==
    /\ r.kind = "preflight" => (r.view.review \in h => r.view.review = r.mint)
    /\ r.kind = "review" => r.mint \in {NoMint, r.view.preflight}
    /\ Landed(r.mint, r.status, o)

GoodClick(r, mk, h, o, sub, k) ==
    /\ r \in ClickRecords /\ r.mint \in mk \cup {NoMint}
    /\ GoodDraft(r.read, mk, h, o) /\ GoodDraft(r.view, mk, h, o)
    /\ r.pc = "preflighting" => r.kind = "preflight"
    /\ r.pc = "reviewing" => /\ r.kind = "review" /\ r.mint \in mk
                             /\ r.read.preflight = r.mint /\ r.view.preflight = r.mint
    /\ r.pc = "password" => r.kind = "execute"
    /\ r.pc = "signed" => Signs(r, mk, h, sub, k)
    /\ r.pc \in {"sent", "checking", "height"} =>
         r.kind \in {"execute", "verify", "recover"} /\ r.mint \in mk
    /\ r.pc = "showing" => Shows(r, h, o)

GoodSaved == GoodDraft(saved, made, held, outcome)
GoodShown == GoodDraft(shown, made, held, outcome)
GoodCall(r) == GoodClick(r, made, held, outcome, submitted, OnRecord)
GoodCalls == \A c \in Clicks : GoodCall(click[c])

SignedApart == \A c, d \in Clicks :
    On(c, "signed") /\ On(d, "signed") /\ click[c].mint = click[d].mint => c = d

WellSent(m) ==
    submitted[m] = 1 /\ approved[m] = m /\ m \in made \ held /\ m \in OnRecord
AllWellSent == \A m \in Mints : submitted[m] = 0 \/ WellSent(m)

LaunchInv ==
    /\ LaunchTypeOK /\ GoodSaved /\ GoodShown /\ GoodCalls /\ SignedApart /\ AllWellSent

-----------------------------------------------------------------------------
(* How the state may change without breaking what was known. *)

Grows ==
    /\ made \subseteq made' /\ made' \subseteq Mints
    /\ held' \subseteq made' /\ held' \subseteq held \cup (made' \ made)
    /\ \A m \in Mints : outcome[m] = "landed" => outcome'[m] = "landed"

RecordGrows == OnRecord \ {NoMint} \subseteq OnRecord'

LEMMA DraftStays ==
    ASSUME Grows PROVE \A d : GoodDraft(d, made, held, outcome) =>
                               GoodDraft(d, made', held', outcome')
<1> SUFFICES ASSUME NEW d, GoodDraft(d, made, held, outcome)
             PROVE  GoodDraft(d, made', held', outcome')
  OBVIOUS
<1>1. Known(d, made') /\ Paired(d, held')
  BY LaunchAssumption DEF Grows, GoodDraft, Known, Paired
<1>2. d.mint \in MaybeMint
  BY DEF GoodDraft, Drafts
<1>3. Landed(d.mint, d.status, outcome')
  BY <1>2 DEF Grows, GoodDraft, Landed, MaybeMint
<1> QED BY <1>1, <1>3 DEF GoodDraft

LEMMA ClickStays ==
    ASSUME Grows, RecordGrows
    PROVE  \A r : /\ GoodCall(r)
                  /\ r.pc = "signed" => submitted'[r.mint] = submitted[r.mint]
                  => GoodClick(r, made', held', outcome', submitted', OnRecord')
<1> SUFFICES ASSUME NEW r, GoodCall(r),
                    r.pc = "signed" => submitted'[r.mint] = submitted[r.mint]
             PROVE  GoodClick(r, made', held', outcome', submitted', OnRecord')
  OBVIOUS
<1> USE DEF GoodCall, GoodClick
<1>0. r.mint \in MaybeMint
  BY DEF ClickRecords
<1>1. GoodDraft(r.read, made', held', outcome') /\ GoodDraft(r.view, made', held', outcome')
  BY DraftStays
<1>2. r.mint \in made' \cup {NoMint}
  BY DEF Grows
<1>3. r.pc = "signed" => Signs(r, made', held', submitted', OnRecord')
  BY <1>0, LaunchAssumption DEF Signs, Grows, RecordGrows, MaybeMint
<1>4. r.pc = "showing" => Shows(r, held', outcome')
  <2> SUFFICES ASSUME r.pc = "showing" PROVE Shows(r, held', outcome')
    OBVIOUS
  <2>1. Landed(r.mint, r.status, outcome')
    BY <1>0 DEF Shows, Landed, Grows, MaybeMint
  <2>2. r.view.review \in held' => r.view.review \in held
    BY LaunchAssumption DEF GoodDraft, Known, Grows
  <2> QED BY <2>1, <2>2 DEF Shows
<1> QED BY <1>1, <1>2, <1>3, <1>4 DEF Grows

LEMMA NewDraftIsGood == ASSUME LaunchInv PROVE GoodDraft(NewDraft, made, held, outcome)
<1>1. NewDraft \in Drafts
  BY DEF NewDraft, Drafts, MaybeMint, LaunchStatus
<1> QED BY <1>1 DEF NewDraft, GoodDraft, Known, Paired, Landed

LEMMA NoClickIsGood ==
    ASSUME LaunchInv, Grows
    PROVE  GoodClick(NoClick, made', held', outcome', submitted', OnRecord')
<1>1. GoodDraft(NewDraft, made', held', outcome')
  BY NewDraftIsGood, DraftStays
<1>2. NewDraft \in Drafts
  BY <1>1 DEF GoodDraft
<1>3. NoClick \in ClickRecords
  BY <1>2 DEF NoClick, ClickRecords, ClickSteps, ClickKinds, LaunchStatus, MaybeMint
<1> QED BY <1>1, <1>3 DEF NoClick, GoodClick

\* Whatever good message is written, what was on record stays so.
LEMMA WriteKeeps ==
    ASSUME LaunchInv, Grows, NEW d, GoodDraft(d, made', held', outcome'), Write(d)
    PROVE  GoodSaved' /\ lost' \subseteq made' /\ RecordGrows
<1>0. GoodDraft(saved, made', held', outcome')
  BY DraftStays DEF LaunchInv, GoodSaved
<1>1. GoodSaved'
  BY <1>0 DEF Write, GoodSaved
<1>2. saved.mint \in made \cup {NoMint} /\ lost \subseteq made
  BY DEF LaunchInv, GoodSaved, GoodDraft, Known, LaunchTypeOK
<1>3. lost' \subseteq made'
  BY <1>2 DEF Write, Grows
<1>4. RecordGrows
  BY DEF Write, RecordGrows, OnRecord
<1> QED BY <1>1, <1>3, <1>4

\* The part of the invariant that is not about calls.
Quiet ==
    /\ GoodSaved' /\ GoodShown' /\ lost' \subseteq made' /\ RecordGrows
    /\ reviews' \cup consumed' \subseteq made'
    /\ outcome' \in [Mints -> {"unsent", "pending", "landed", "reverted", "never"}]
    /\ vaultFree' \in BOOLEAN
    /\ UNCHANGED <<submitted, approved>>

LEMMA OnlyCalls ==
    ASSUME LaunchInv, Grows, Quiet, GoodCalls', SignedApart', click' \in [Clicks -> ClickRecords]
    PROVE  LaunchInv'
<1>1. {saved', shown'} \subseteq Drafts
  BY DEF Quiet, GoodSaved, GoodShown, GoodDraft
<1>2. LaunchTypeOK'
  BY <1>1 DEF LaunchInv, LaunchTypeOK, Grows, Quiet
<1>3. AllWellSent'
  <2> SUFFICES ASSUME NEW m \in Mints PROVE (submitted[m] = 0 \/ WellSent(m))'
    BY DEF AllWellSent
  <2>1. submitted'[m] = submitted[m] /\ approved'[m] = approved[m]
    BY DEF Quiet
  <2>2. WellSent(m) => WellSent(m)'
    BY <2>1, LaunchAssumption DEF WellSent, Grows, Quiet, RecordGrows
  <2> QED BY <2>1, <2>2 DEF LaunchInv, AllWellSent
<1> QED BY <1>2, <1>3 DEF LaunchInv, Quiet

LEMMA OneCallChanges ==
    ASSUME LaunchInv, Grows, Quiet, NEW c \in Clicks, NEW r,
           GoodClick(r, made', held', outcome', submitted', OnRecord'),
           r.pc = "signed" => r.mint \in held,
           click' = [click EXCEPT ![c] = r]
    PROVE  LaunchInv'
<1>0. click \in [Clicks -> ClickRecords] /\ r \in ClickRecords
  BY DEF LaunchInv, LaunchTypeOK, GoodClick
<1>1. click' \in [Clicks -> ClickRecords]
  BY <1>0
<1>2. click'[c] = r /\ \A d \in Clicks \ {c} : click'[d] = click[d]
  BY <1>0
<1>3. \A d \in Clicks : GoodClick(click[d], made', held', outcome', submitted', OnRecord')
  BY ClickStays DEF LaunchInv, GoodCalls, Quiet
<1>4. GoodCalls'
  BY <1>2, <1>3 DEF GoodCalls, GoodCall
<1>5. \A d \in Clicks : On(d, "signed") => click[d].mint \notin held
  BY DEF LaunchInv, GoodCalls, GoodCall, GoodClick, Signs, On
<1>6. SignedApart'
  BY <1>2, <1>5 DEF LaunchInv, SignedApart, On
<1> QED BY <1>1, <1>4, <1>6, OnlyCalls

LEMMA CallsAsTheyWere ==
    ASSUME LaunchInv, Grows, Quiet, UNCHANGED click
    PROVE  LaunchInv'
<1>1. GoodCalls'
  BY ClickStays DEF LaunchInv, GoodCalls, GoodCall, Quiet
<1>2. SignedApart' /\ click' \in [Clicks -> ClickRecords]
  BY DEF LaunchInv, SignedApart, On, LaunchTypeOK
<1> QED BY <1>1, <1>2, OnlyCalls

-----------------------------------------------------------------------------
(* What the actions have in common. *)

Outcomes == {"unsent", "pending", "landed", "reverted", "never"}

Rest ==
    /\ reviews' \cup consumed' \subseteq made'
    /\ outcome' \in [Mints -> Outcomes] /\ vaultFree' \in BOOLEAN
    /\ UNCHANGED <<submitted, approved>>

LEMMA MemoryStays ==
    ASSUME LaunchInv, UNCHANGED <<memory, wire, vaultFree>>
    PROVE  Grows /\ Rest
BY DEF LaunchInv, LaunchTypeOK, memory, wire, Grows, Rest, Outcomes

LEMMA QuietWrite ==
    ASSUME LaunchInv, Grows, Rest, NEW d, GoodDraft(d, made', held', outcome'), Write(d),
           shown' \in {shown, d} \/ GoodShown'
    PROVE  Quiet
<1>1. GoodDraft(shown, made', held', outcome')
  BY DraftStays DEF LaunchInv, GoodShown
<1>2. GoodShown'
  BY <1>1 DEF GoodShown
<1> QED BY <1>2, WriteKeeps DEF Quiet, Rest, Outcomes

LEMMA NothingWritten ==
    ASSUME LaunchInv, Grows, Rest, UNCHANGED <<saved, lost>>, shown' \in {shown, saved}
    PROVE  Quiet
<1>1. GoodDraft(shown, made', held', outcome') /\ GoodDraft(saved, made', held', outcome')
  BY DraftStays DEF LaunchInv, GoodShown, GoodSaved
<1>2. GoodShown' /\ GoodSaved'
  BY <1>1 DEF GoodShown, GoodSaved
<1>3. lost' \subseteq made' /\ RecordGrows
  BY DEF LaunchInv, LaunchTypeOK, Grows, RecordGrows, OnRecord
<1> QED BY <1>2, <1>3 DEF Quiet, Rest, Outcomes

LEMMA ExecutionIsGood ==
    ASSUME NEW d, NEW mk, NEW h, NEW o, GoodDraft(d, mk, h, o), mk \subseteq Mints,
           NEW m \in mk \cup {NoMint}, NEW st \in LaunchStatus, Landed(m, st, o)
    PROVE  GoodDraft(WithExecution(d, m, st), mk, h, o)
<1> DEFINE e == WithExecution(d, m, st)
<1>1. e \in Drafts
  BY DEF WithExecution, GoodDraft, Drafts, MaybeMint
<1>2. e.preflight = d.preflight /\ e.review = d.review /\ e.mint = m /\ e.status = st
  BY DEF WithExecution, GoodDraft, Drafts
<1> HIDE DEF e
<1>3. GoodDraft(e, mk, h, o)
  BY <1>1, <1>2 DEF GoodDraft, Known, Paired
<1> QED BY <1>3 DEF e

LEMMA CallEnds ==
    ASSUME LaunchInv, Grows, Quiet, NEW c \in Clicks, EndClick(c)
    PROVE  LaunchInv'
<1>1. NoClick.pc # "signed"
  BY DEF NoClick
<1> QED BY <1>1, NoClickIsGood, OneCallChanges DEF EndClick

LEMMA CallAnswers ==
    ASSUME LaunchInv, Grows, Quiet, NEW c \in Clicks, NEW m \in made' \cup {NoMint},
           NEW st \in LaunchStatus, Answer(c, m, st), Landed(m, st, outcome'),
           click[c].kind = "preflight" =>
             (click[c].view.review \in held' => click[c].view.review = m),
           click[c].kind = "review" => m \in {NoMint, click[c].view.preflight}
    PROVE  LaunchInv'
<1> DEFINE r == [click[c] EXCEPT !.pc = "showing", !.mint = m, !.status = st]
<1>1. click' = [click EXCEPT ![c] = r]
  BY DEF Answer
<1>2. GoodCall(click[c])
  BY DEF LaunchInv, GoodCalls
<1>3. GoodDraft(click[c].read, made', held', outcome') /\ GoodDraft(click[c].view, made', held', outcome')
  BY <1>2, DraftStays DEF GoodCall, GoodClick
<1>4. click[c] \in ClickRecords /\ m \in MaybeMint
  BY <1>2 DEF GoodCall, GoodClick, Grows, MaybeMint
<1>5. r \in ClickRecords
  BY <1>4 DEF ClickRecords, ClickSteps
<1>6. /\ r.pc = "showing" /\ r.kind = click[c].kind /\ r.read = click[c].read
      /\ r.view = click[c].view /\ r.mint = m /\ r.status = st
  BY <1>4 DEF ClickRecords
<1> HIDE DEF r
<1>7. GoodClick(r, made', held', outcome', submitted', OnRecord')
  BY <1>3, <1>5, <1>6 DEF GoodClick, Shows
<1> QED BY <1>1, <1>6, <1>7, OneCallChanges

LEMMA CallConcludes ==
    ASSUME LaunchInv, Grows, Rest, NEW c \in Clicks, UNCHANGED shown,
           click[c].pc \in {"checking", "height"},
           NEW st \in LaunchStatus, Landed(click[c].mint, st, outcome'), Conclude(c, st)
    PROVE  LaunchInv'
<1>1. /\ click[c].kind \in {"execute", "verify", "recover"}
      /\ click[c].mint \in made' /\ made' \subseteq Mints
  BY DEF LaunchInv, GoodCalls, GoodCall, GoodClick, Grows
<1>2. GoodDraft(saved, made', held', outcome')
  BY DraftStays DEF LaunchInv, GoodSaved
<1>3. GoodDraft(WithExecution(saved, click[c].mint, st), made', held', outcome')
  BY <1>1, <1>2, ExecutionIsGood
<1>4. Quiet
  BY <1>3, QuietWrite DEF Conclude, Persist
<1>5. EndClick(c) \/ Answer(c, click[c].mint, st)
  BY <1>1 DEF Conclude, AnswerIfSaved
<1> QED BY <1>1, <1>4, <1>5, CallEnds, CallAnswers

\* A call that goes on with another copy, mint or step.
LEMMA CallGoesOn ==
    ASSUME LaunchInv, Grows, Quiet, NEW c \in Clicks, NEW r, GoodCall(r),
           r.pc # "signed", click' = [click EXCEPT ![c] = r]
    PROVE  LaunchInv'
<1>1. GoodClick(r, made', held', outcome', submitted', OnRecord')
  BY ClickStays DEF Quiet
<1> QED BY <1>1, OneCallChanges

-----------------------------------------------------------------------------
(* The steps: the window, the checks, the execution, what comes after it. *)

\* What a call may use of its own record.
LEMMA CallFields ==
    ASSUME LaunchInv, NEW c \in Clicks
    PROVE  /\ click \in [Clicks -> ClickRecords]
           /\ click[c] \in ClickRecords /\ GoodCall(click[c])
           /\ GoodDraft(click[c].read, made, held, outcome)
           /\ GoodDraft(click[c].view, made, held, outcome)
           /\ click[c].mint \in made \cup {NoMint} /\ made \subseteq Mints
           /\ click[c].status \in LaunchStatus
BY DEF LaunchInv, LaunchTypeOK, GoodCalls, GoodCall, GoodClick, ClickRecords

LEMMA AnsweredIsGood ==
    ASSUME LaunchInv, NEW c \in Clicks, On(c, "showing")
    PROVE  GoodDraft(Answered(c), made, held, outcome)
<1> DEFINE v == click[c].view  m == click[c].mint
<1>1. /\ GoodDraft(v, made, held, outcome) /\ m \in made \cup {NoMint}
      /\ made \subseteq Mints /\ click[c].status \in LaunchStatus
      /\ Shows(click[c], held, outcome)
  BY CallFields DEF GoodCall, GoodClick, On
<1>2. NoMint \notin held
  BY LaunchAssumption DEF LaunchInv, LaunchTypeOK
<1>3. CASE click[c].kind = "preflight"
  <2> DEFINE d == [v EXCEPT !.preflight = m]
  <2>1. /\ d \in Drafts /\ d.preflight = m /\ d.review = v.review
        /\ d.mint = v.mint /\ d.status = v.status
    BY <1>1 DEF GoodDraft, Drafts, MaybeMint
  <2>2. v.review \in held => v.review = m
    BY <1>1, <1>3 DEF Shows
  <2>3. Answered(c) = d
    BY <1>3 DEF Answered
  <2> HIDE DEF d
  <2> QED BY <1>1, <2>1, <2>2, <2>3 DEF GoodDraft, Known, Paired
<1>4. CASE click[c].kind = "review"
  <2> DEFINE d == [v EXCEPT !.review = m]
  <2>1. /\ d \in Drafts /\ d.preflight = v.preflight /\ d.review = m
        /\ d.mint = v.mint /\ d.status = v.status
    BY <1>1 DEF GoodDraft, Drafts, MaybeMint
  <2>2. m \in {NoMint, v.preflight}
    BY <1>1, <1>4 DEF Shows
  <2>3. Answered(c) = d
    BY <1>4 DEF Answered
  <2> HIDE DEF d
  <2> QED BY <1>1, <1>2, <2>1, <2>2, <2>3 DEF GoodDraft, Known, Paired
<1>5. CASE click[c].kind \notin {"preflight", "review"}
  <2>1. Answered(c) = WithExecution(v, m, click[c].status)
    BY <1>5 DEF Answered
  <2>2. Landed(m, click[c].status, outcome)
    BY <1>1 DEF Shows
  <2> QED BY <1>1, <2>1, <2>2, ExecutionIsGood
<1> QED BY <1>3, <1>4, <1>5

LEMMA ShowStep == ASSUME LaunchInv, NEW c \in Clicks, Show(c) PROVE LaunchInv'
<1> DEFINE d == Answered(c)
<1>1. Grows /\ Rest
  BY MemoryStays DEF Show
<1>2. GoodDraft(d, made', held', outcome')
  BY AnsweredIsGood, <1>1, DraftStays DEF Show
<1> HIDE DEF d
<1>3. Quiet
  BY <1>1, <1>2, QuietWrite DEF Show, d
<1> QED BY <1>1, <1>3, CallEnds DEF Show

LEMMA ChatSteps ==
    ASSUME LaunchInv, NEW c \in Clicks, Chat(c) \/ ChatEnds(c) PROVE LaunchInv'
<1>1. Grows /\ Rest
  BY MemoryStays DEF Chat, ChatEnds
<1>2. CASE Chat(c)
  <2> DEFINE r == [NoClick EXCEPT !.pc = "chatting", !.view = shown]
  <2>1. GoodDraft(shown, made, held, outcome) /\ GoodDraft(shown, made', held', outcome')
    BY <1>1, DraftStays DEF LaunchInv, GoodShown
  <2>2. Quiet
    BY <1>1, <1>2, <2>1, QuietWrite DEF Chat
  <2>3. /\ r.pc = "chatting" /\ r.read = NewDraft /\ r.view = shown /\ r.mint = NoMint
        /\ r \in ClickRecords
    BY <2>1, NewDraftIsGood
       DEF NoClick, ClickRecords, ClickSteps, ClickKinds, LaunchStatus, MaybeMint, GoodDraft
  <2>4. click' = [click EXCEPT ![c] = r]
    BY <1>2 DEF Chat, Begin
  <2> HIDE DEF r
  <2>5. GoodCall(r)
    BY <2>1, <2>3, NewDraftIsGood DEF GoodCall, GoodClick
  <2> QED BY <1>1, <2>2, <2>3, <2>4, <2>5, CallGoesOn
<1>3. CASE ChatEnds(c)
  <2>1. GoodDraft(click[c].view, made', held', outcome')
    BY <1>1, CallFields, DraftStays
  <2>2. Quiet
    BY <1>1, <1>3, <2>1, QuietWrite DEF ChatEnds
  <2> QED BY <1>1, <1>3, <2>2, CallEnds DEF ChatEnds
<1> QED BY <1>2, <1>3

\* The calls that begin without changing anything else.
LEMMA BeginSteps ==
    ASSUME LaunchInv, NEW c \in Clicks,
           Preflight(c) \/ Revalidate(c) \/ Execute(c) \/ Verify(c)
    PROVE  LaunchInv'
<1>1. UNCHANGED <<drafts, memory, wire, vaultFree>>
  BY DEF Preflight, Revalidate, Execute, Verify
<1>2. Grows /\ Rest
  BY <1>1, MemoryStays
<1>3. Quiet
  BY <1>1, <1>2, NothingWritten DEF drafts
<1>4. /\ GoodDraft(saved, made, held, outcome) /\ GoodDraft(shown, made, held, outcome)
      /\ GoodDraft(NewDraft, made, held, outcome) /\ made \subseteq Mints
      /\ held \subseteq made /\ NoMint \notin Mints
  BY NewDraftIsGood, LaunchAssumption DEF LaunchInv, GoodSaved, GoodShown, LaunchTypeOK
<1>5. SUFFICES \E r : GoodCall(r) /\ r.pc # "signed" /\ click' = [click EXCEPT ![c] = r]
  BY <1>2, <1>3, CallGoesOn
<1> USE DEF NoClick, ClickRecords, ClickSteps, ClickKinds, LaunchStatus, MaybeMint
<1>6. CASE Preflight(c)
  <2> DEFINE r == [NoClick EXCEPT !.pc = "preflighting", !.kind = "preflight",
                                  !.read = saved, !.view = shown]
  <2>1. /\ r.pc = "preflighting" /\ r.kind = "preflight" /\ r.read = saved /\ r.view = shown
        /\ r.mint = NoMint /\ r \in ClickRecords
    BY <1>4 DEF GoodDraft
  <2>2. click' = [click EXCEPT ![c] = r]
    BY <1>6 DEF Preflight, Begin
  <2> HIDE DEF r
  <2> QED BY <1>4, <2>1, <2>2 DEF GoodCall, GoodClick
<1>7. CASE Revalidate(c)
  <2> DEFINE m == shown.preflight
             r == [NoClick EXCEPT !.pc = "reviewing", !.kind = "review", !.mint = m,
                                  !.read = saved, !.view = shown]
  <2>1. m \in held /\ saved.preflight = m /\ click' = [click EXCEPT ![c] = r]
    BY <1>7 DEF Revalidate, Begin
  <2>2. /\ r.pc = "reviewing" /\ r.kind = "review" /\ r.read = saved /\ r.view = shown
        /\ r.mint = m /\ r \in ClickRecords
    BY <1>4, <2>1 DEF GoodDraft
  <2> HIDE DEF r
  <2> QED BY <1>4, <2>1, <2>2 DEF GoodCall, GoodClick
<1>8. CASE Execute(c)
  <2> DEFINE r == [NoClick EXCEPT !.pc = "password", !.kind = "execute", !.view = shown]
  <2>1. /\ r.pc = "password" /\ r.kind = "execute" /\ r.read = NewDraft /\ r.view = shown
        /\ r.mint = NoMint /\ r \in ClickRecords
    BY <1>4 DEF GoodDraft
  <2>2. click' = [click EXCEPT ![c] = r]
    BY <1>8 DEF Execute, Begin
  <2> HIDE DEF r
  <2> QED BY <1>4, <2>1, <2>2 DEF GoodCall, GoodClick
<1>9. CASE Verify(c)
  <2>0. /\ saved \in Drafts /\ saved.mint \in made \cup {NoMint}
        /\ saved.mint = shown.mint /\ shown.mint # NoMint
        /\ Landed(saved.mint, saved.status, outcome)
    BY <1>4, <1>9 DEF Verify, Open, GoodDraft, Known
  <2> DEFINE r == [NoClick EXCEPT !.pc = "checking", !.kind = "verify",
                                  !.mint = saved.mint, !.view = shown]
             q == [NoClick EXCEPT !.pc = "showing", !.kind = "verify", !.mint = saved.mint,
                                  !.status = saved.status, !.view = shown]
  <2>1. /\ r.pc = "checking" /\ r.kind = "verify" /\ r.read = NewDraft /\ r.view = shown
        /\ r.mint = saved.mint /\ r \in ClickRecords
    BY <1>4, <2>0, ZenonT(60) DEF GoodDraft, Drafts
  <2>2. /\ q.pc = "showing" /\ q.kind = "verify" /\ q.read = NewDraft /\ q.view = shown
        /\ q.mint = saved.mint /\ q.status = saved.status /\ q \in ClickRecords
    BY <1>4, <2>0, ZenonT(60) DEF GoodDraft, Drafts
  <2>3. click' = [click EXCEPT ![c] = r] \/ click' = [click EXCEPT ![c] = q]
    BY <1>9 DEF Verify, Begin
  <2> HIDE DEF r, q
  <2>4. GoodCall(r)
    BY <1>4, <2>0, <2>1 DEF GoodCall, GoodClick
  <2>5. GoodCall(q)
    BY <1>4, <2>0, <2>2 DEF GoodCall, GoodClick, Shows
  <2> QED BY <2>1, <2>2, <2>3, <2>4, <2>5
<1> QED BY <1>6, <1>7, <1>8, <1>9

LEMMA PreflightStep ==
    ASSUME LaunchInv, NEW c \in Clicks, NEW m \in Mints, PreflightPasses(c, m) PROVE LaunchInv'
<1> DEFINE b == click[c].read
           d == [b EXCEPT !.preflight = m]
<1>1. /\ GoodDraft(b, made, held, outcome) /\ click[c].view.review \in made \cup {NoMint}
      /\ click[c].kind = "preflight" /\ NoMint # m
  BY CallFields, LaunchAssumption DEF PreflightPasses, GoodCall, GoodClick, GoodDraft, Known, On
<1>2. /\ m \notin made /\ made' = made \cup {m} /\ held' = {m} /\ Write(d)
      /\ UNCHANGED <<shown, reviews, consumed, wire, vaultFree>>
  BY DEF PreflightPasses, Replaced
<1>3. Grows /\ Rest
  BY <1>2 DEF LaunchInv, LaunchTypeOK, Grows, Rest, Outcomes, wire
<1>4. GoodDraft(b, made', held', outcome')
  BY <1>1, <1>3, DraftStays
<1>5. /\ d \in Drafts /\ d.preflight = m /\ d.review = b.review
      /\ d.mint = b.mint /\ d.status = b.status
  BY <1>1 DEF GoodDraft, Drafts, MaybeMint
<1> HIDE DEF d
<1>6. b.review \notin held'
  BY <1>1, <1>2 DEF GoodDraft, Known
<1>7. GoodDraft(d, made', held', outcome')
  BY <1>2, <1>4, <1>5, <1>6 DEF GoodDraft, Known, Paired
<1>8. Quiet
  BY <1>2, <1>3, <1>7, QuietWrite
<1>9. CASE EndClick(c)
  BY <1>3, <1>8, <1>9, CallEnds
<1>10. CASE Answer(c, m, "none")
  <2>1. Landed(m, "none", outcome') /\ "none" \in LaunchStatus
    BY DEF Landed, LaunchStatus
  <2> QED BY <1>1, <1>2, <1>3, <1>8, <1>10, <2>1, CallAnswers
<1> QED BY <1>9, <1>10 DEF PreflightPasses, AnswerIfSaved

\* A final check passes with the mint it was asked for, or leaves none.
LEMMA ReviewSteps ==
    ASSUME LaunchInv, NEW c \in Clicks, RevalidatePasses(c) \/ RevalidateBlocks(c)
    PROVE  LaunchInv'
<1> DEFINE b == click[c].read
<1>1. PICK m \in {click[c].mint, NoMint} :
         Write([b EXCEPT !.review = m]) /\ AnswerIfSaved(c, m, "none")
  BY DEF RevalidatePasses, RevalidateBlocks
<1> DEFINE d == [b EXCEPT !.review = m]
<1>2. /\ GoodDraft(b, made, held, outcome) /\ click[c].mint \in made /\ made \subseteq Mints
      /\ b.preflight = click[c].mint /\ click[c].view.preflight = click[c].mint
      /\ click[c].kind = "review"
  BY CallFields DEF RevalidatePasses, RevalidateBlocks, GoodCall, GoodClick, On
<1>3. Grows /\ Rest
  BY <1>2 DEF LaunchInv, LaunchTypeOK, RevalidatePasses, RevalidateBlocks, memory, wire,
             Grows, Rest, Outcomes
<1>4. GoodDraft(b, made', held', outcome')
  BY <1>2, <1>3, DraftStays
<1>5. /\ d \in Drafts /\ d.preflight = b.preflight /\ d.review = m
      /\ d.mint = b.mint /\ d.status = b.status
  BY <1>2 DEF GoodDraft, Drafts, MaybeMint
<1> HIDE DEF d
<1>6. NoMint \notin held' /\ m \in made' \cup {NoMint}
  BY <1>2, <1>3, LaunchAssumption DEF Grows
<1>7. GoodDraft(d, made', held', outcome')
  BY <1>2, <1>4, <1>5, <1>6 DEF GoodDraft, Known, Paired
<1>8. Quiet
  BY <1>1, <1>3, <1>7, QuietWrite DEF d, RevalidatePasses, RevalidateBlocks
<1>9. CASE EndClick(c)
  BY <1>3, <1>8, <1>9, CallEnds
<1>10. CASE Answer(c, m, "none")
  <2>1. Landed(m, "none", outcome') /\ "none" \in LaunchStatus
    BY DEF Landed, LaunchStatus
  <2> QED BY <1>2, <1>3, <1>6, <1>8, <1>10, <2>1, CallAnswers
<1> QED BY <1>1, <1>9, <1>10 DEF AnswerIfSaved

\* What ends or answers a call without a write.
LEMMA RefuseSteps ==
    ASSUME LaunchInv, NEW c \in Clicks, Refuse(c) \/ PersistFails(c) \/ AlreadyLaunched(c)
    PROVE  LaunchInv'
<1>1. UNCHANGED <<drafts, memory, wire, vaultFree>>
  BY DEF Refuse, PersistFails, AlreadyLaunched
<1>2. Grows /\ Rest
  BY <1>1, MemoryStays
<1>3. Quiet
  BY <1>1, <1>2, NothingWritten DEF drafts
<1>4. CASE Refuse(c) \/ PersistFails(c)
  BY <1>2, <1>3, <1>4, CallEnds DEF Refuse, PersistFails
<1>5. CASE AlreadyLaunched(c)
  <2>1. click[c].kind = "execute"
    BY <1>5, CallFields DEF AlreadyLaunched, GoodCall, GoodClick, On
  <2>2. /\ saved.mint \in made \cup {NoMint} /\ saved.status \in LaunchStatus
        /\ Landed(saved.mint, saved.status, outcome)
    BY DEF LaunchInv, GoodSaved, GoodDraft, Known, Drafts
  <2>3. saved.mint \in made' \cup {NoMint} /\ Landed(saved.mint, saved.status, outcome')
    BY <1>1, <2>2 DEF memory, wire
  <2> QED BY <1>2, <1>3, <1>5, <2>1, <2>2, <2>3, CallAnswers DEF AlreadyLaunched
<1> QED BY <1>4, <1>5

LEMMA ExpireStep == ASSUME LaunchInv, NEW m \in Mints, Expire(m) PROVE LaunchInv'
<1>1. Grows /\ Rest
  BY DEF LaunchInv, LaunchTypeOK, Expire, wire, Grows, Rest, Outcomes
<1>2. Quiet
  BY <1>1, NothingWritten DEF Expire, drafts
<1> QED BY <1>1, <1>2, CallsAsTheyWere DEF Expire

\* The card's password signs the mint of its final checks, once: its key goes.
LEMMA SignStep == ASSUME LaunchInv, NEW c \in Clicks, Sign(c) PROVE LaunchInv'
<1> DEFINE v == click[c].view
           m == v.review
           r == [click[c] EXCEPT !.pc = "signed", !.mint = m]
<1>1. /\ m \in reviews /\ m \in held /\ vaultFree /\ held' = held \ {m} /\ made' = made
      /\ consumed' = consumed \cup {m} /\ reviews' = reviews \ {m}
      /\ Write(WithExecution(saved, m, "signed")) /\ UNCHANGED <<shown, wire, vaultFree>>
  BY DEF Sign, MaySignMint, UseUp, Persist
<1>2. /\ GoodCall(click[c]) /\ click[c] \in ClickRecords /\ click[c].kind = "execute"
      /\ GoodDraft(v, made, held, outcome)
  BY CallFields DEF Sign, MaySignMint, GoodCall, GoodClick, On
<1>3. m \in made /\ made \subseteq Mints /\ m \in Mints
  BY <1>1 DEF LaunchInv, LaunchTypeOK
<1>4. v.preflight = m
  BY <1>1, <1>2 DEF GoodDraft, Paired
<1>5. submitted[m] = 0
  BY <1>1, <1>3 DEF LaunchInv, AllWellSent, WellSent
<1>6. Grows /\ Rest
  BY <1>1, <1>3 DEF LaunchInv, LaunchTypeOK, wire, Grows, Rest, Outcomes
<1>7. GoodDraft(saved, made', held', outcome')
  BY <1>6, DraftStays DEF LaunchInv, GoodSaved
<1>8. GoodDraft(WithExecution(saved, m, "signed"), made', held', outcome')
  <2>1. "signed" \in LaunchStatus /\ Landed(m, "signed", outcome')
    BY DEF LaunchStatus, Landed
  <2> QED BY <1>1, <1>3, <1>7, <2>1, ExecutionIsGood
<1>9. Quiet
  BY <1>1, <1>6, <1>8, QuietWrite
<1>10. m \in OnRecord'
  <2>1. saved' = WithExecution(saved, m, "signed")
    BY <1>1 DEF Write
  <2>2. saved'.mint = m
    BY <2>1, <1>7 DEF WithExecution, GoodDraft, Drafts
  <2> QED BY <2>2 DEF OnRecord
<1>11. click' = [click EXCEPT ![c] = r]
  BY DEF Sign
<1>12. /\ r \in ClickRecords /\ r.pc = "signed" /\ r.kind = "execute" /\ r.mint = m
       /\ r.view = v /\ r.read = click[c].read
  BY <1>2, <1>3 DEF ClickRecords, ClickSteps, MaybeMint
<1>13. submitted'[m] = 0 /\ m \in made' \ held'
  BY <1>1, <1>3, <1>5 DEF wire
<1>14. GoodDraft(v, made', held', outcome') /\ GoodDraft(click[c].read, made', held', outcome')
  BY <1>2, <1>6, CallFields, DraftStays
<1> HIDE DEF r
<1>15. GoodClick(r, made', held', outcome', submitted', OnRecord')
  BY <1>4, <1>10, <1>12, <1>13, <1>14 DEF GoodClick, Signs
<1> QED BY <1>1, <1>6, <1>9, <1>11, <1>12, <1>15, OneCallChanges

LEMMA SignFailsStep == ASSUME LaunchInv, NEW c \in Clicks, SignFails(c) PROVE LaunchInv'
<1>1. Grows /\ Rest
  BY DEF LaunchInv, LaunchTypeOK, SignFails, MaySignMint, UseUp, wire, Grows, Rest, Outcomes
<1>2. Quiet
  BY <1>1, NothingWritten DEF SignFails, drafts
<1> QED BY <1>1, <1>2, CallEnds DEF SignFails

\* Only the call that signed a mint sends it, and once.
LEMMA SendStep ==
    ASSUME LaunchInv, NEW c \in Clicks, NEW arrives \in BOOLEAN, Send(c, arrives)
    PROVE  LaunchInv'
<1> DEFINE m == click[c].mint
           r == [click[c] EXCEPT !.pc = "sent"]
<1>1. /\ click \in [Clicks -> ClickRecords] /\ click[c] \in ClickRecords /\ GoodCall(click[c])
      /\ On(c, "signed") /\ Signs(click[c], made, held, submitted, OnRecord)
      /\ made \subseteq Mints /\ m \in Mints
  BY CallFields DEF Send, GoodCall, GoodClick, Signs, On
<1>2. /\ m \in made \ held /\ submitted[m] = 0 /\ click[c].view.preflight = m
      /\ click[c].kind = "execute"
  BY <1>1 DEF Signs
<1>3. /\ vaultFree /\ Write(WithExecution(saved, m, "unknown"))
      /\ UNCHANGED <<shown, memory, vaultFree>>
      /\ submitted' = [submitted EXCEPT ![m] = 1] /\ approved' = [approved EXCEPT ![m] = m]
      /\ click' = [click EXCEPT ![c] = r]
  BY <1>1, <1>2 DEF Send, Persist, Step, LaunchInv, LaunchTypeOK
<1>4. /\ submitted \in [Mints -> 0..2] /\ approved \in [Mints -> MaybeMint]
      /\ outcome \in [Mints -> Outcomes]
  BY DEF LaunchInv, LaunchTypeOK, Outcomes
<1>5. /\ submitted' \in [Mints -> 0..2] /\ approved' \in [Mints -> MaybeMint]
      /\ submitted'[m] = 1 /\ approved'[m] = m
      /\ \A n \in Mints \ {m} : submitted'[n] = submitted[n] /\ approved'[n] = approved[n]
  BY <1>1, <1>3, <1>4 DEF MaybeMint
<1>6. Grows /\ outcome' \in [Mints -> Outcomes]
  BY <1>1, <1>3, <1>4 DEF LaunchInv, LaunchTypeOK, Send, memory, Grows, Outcomes
<1>7. GoodDraft(saved, made', held', outcome') /\ GoodDraft(shown, made', held', outcome')
  BY <1>6, DraftStays DEF LaunchInv, GoodSaved, GoodShown
<1>8. GoodDraft(WithExecution(saved, m, "unknown"), made', held', outcome')
  <2>1. "unknown" \in LaunchStatus /\ Landed(m, "unknown", outcome')
    BY DEF LaunchStatus, Landed
  <2> QED BY <1>1, <1>2, <1>3, <1>7, <2>1, ExecutionIsGood DEF memory
<1>9. GoodSaved' /\ GoodShown' /\ lost' \subseteq made' /\ RecordGrows
  BY <1>3, <1>6, <1>7, <1>8, WriteKeeps DEF GoodShown
<1>10. m \in OnRecord'
  <2>1. saved' = WithExecution(saved, m, "unknown")
    BY <1>3 DEF Write
  <2>2. saved'.mint = m
    BY <2>1, <1>7 DEF WithExecution, GoodDraft, Drafts
  <2> QED BY <2>2 DEF OnRecord
<1>11. /\ r.pc = "sent" /\ r.mint = m /\ r.kind = "execute" /\ r \in ClickRecords
       /\ r.view = click[c].view /\ r.read = click[c].read
  BY <1>1, <1>2 DEF ClickRecords, ClickSteps
<1> HIDE DEF r
<1>12. GoodClick(r, made', held', outcome', submitted', OnRecord')
  <2>1. GoodDraft(r.read, made', held', outcome') /\ GoodDraft(r.view, made', held', outcome')
    BY <1>6, <1>11, CallFields, DraftStays
  <2> QED BY <1>2, <1>3, <1>11, <2>1 DEF GoodClick, memory
<1>13. click'[c] = r /\ \A d \in Clicks \ {c} : click'[d] = click[d]
  BY <1>1, <1>3
<1>14. ASSUME NEW d \in Clicks \ {c}
       PROVE  GoodClick(click[d], made', held', outcome', submitted', OnRecord')
  <2>1. GoodCall(click[d])
    BY CallFields
  <2>2. click[d].pc = "signed" => click[d].mint # m /\ click[d].mint \in Mints
    BY <1>1, <2>1 DEF LaunchInv, SignedApart, On, GoodCall, GoodClick, Signs
  <2>3. click[d].pc = "signed" => submitted'[click[d].mint] = submitted[click[d].mint]
    BY <1>5, <2>2
  <2> QED BY <1>6, <1>9, <2>1, <2>3, ClickStays
<1>15. GoodCalls' /\ SignedApart' /\ click' \in [Clicks -> ClickRecords]
  <2>1. GoodCalls'
    BY <1>12, <1>13, <1>14 DEF GoodCalls, GoodCall
  <2>2. SignedApart'
    BY <1>11, <1>13 DEF LaunchInv, SignedApart, On
  <2> QED BY <1>1, <1>3, <1>11, <2>1, <2>2
<1>16. AllWellSent'
  <2> SUFFICES ASSUME NEW n \in Mints PROVE (submitted[n] = 0 \/ WellSent(n))'
    BY DEF AllWellSent
  <2>1. CASE n = m
    BY <1>2, <1>3, <1>5, <1>10, <2>1 DEF WellSent, memory
  <2>2. CASE n # m
    <3>1. submitted'[n] = submitted[n] /\ approved'[n] = approved[n]
      BY <1>5, <2>2
    <3>2. WellSent(n) => WellSent(n)'
      BY <1>3, <1>9, <3>1, LaunchAssumption DEF WellSent, RecordGrows, memory
    <3> QED BY <3>1, <3>2 DEF LaunchInv, AllWellSent
  <2> QED BY <2>1, <2>2
<1>17. LaunchTypeOK'
  <2>1. {saved', shown'} \subseteq Drafts
    BY <1>9 DEF GoodSaved, GoodShown, GoodDraft
  <2> QED BY <1>3, <1>5, <1>6, <1>9, <1>15, <2>1
          DEF LaunchInv, LaunchTypeOK, memory, Outcomes
<1> QED BY <1>9, <1>15, <1>16, <1>17 DEF LaunchInv

LEMMA SentStep ==
    ASSUME LaunchInv, NEW c \in Clicks, NEW accepted \in BOOLEAN, Sent(c, accepted)
    PROVE  LaunchInv'
<1> DEFINE m == click[c].mint
           r == [click[c] EXCEPT !.pc = "checking"]
<1>1. /\ click[c] \in ClickRecords /\ GoodCall(click[c]) /\ m \in made /\ made \subseteq Mints
      /\ click[c].kind \in {"execute", "verify", "recover"}
  BY CallFields DEF Sent, GoodCall, GoodClick, On
<1>2. Grows /\ Rest /\ made' = made
  BY MemoryStays DEF Sent, memory
<1>3. "unknown" \in LaunchStatus /\ Landed(m, "unknown", outcome')
  BY DEF LaunchStatus, Landed
<1>4. GoodDraft(saved, made', held', outcome')
  BY <1>2, DraftStays DEF LaunchInv, GoodSaved
<1>5. GoodDraft(WithExecution(saved, m, "unknown"), made', held', outcome')
  BY <1>1, <1>2, <1>3, <1>4, ExecutionIsGood
<1>6. Quiet
  BY <1>2, <1>5, QuietWrite DEF Sent, Persist
<1>7. CASE click' = [click EXCEPT ![c] = r]
  <2>1. /\ r.pc = "checking" /\ r.kind = click[c].kind /\ r.mint = m /\ r \in ClickRecords
        /\ r.view = click[c].view /\ r.read = click[c].read
    BY <1>1 DEF ClickRecords, ClickSteps
  <2> HIDE DEF r
  <2>2. GoodCall(r)
    BY <1>1, <2>1 DEF GoodCall, GoodClick
  <2> QED BY <1>2, <1>6, <1>7, <2>1, <2>2, CallGoesOn
<1>8. CASE Answer(c, m, "unknown")
  BY <1>1, <1>2, <1>3, <1>6, <1>8, CallAnswers
<1> QED BY <1>7, <1>8 DEF Sent, Step

LEMMA ListStep == ASSUME LaunchInv, NEW c \in Clicks, ListSessions(c) PROVE LaunchInv'
<1>1. Grows /\ Rest
  BY MemoryStays DEF ListSessions
<1>2. Quiet
  BY <1>1, NothingWritten DEF ListSessions
<1>3. CASE UNCHANGED click
  BY <1>1, <1>2, <1>3, CallsAsTheyWere
<1> DEFINE r == [NoClick EXCEPT !.pc = "checking", !.kind = "recover", !.mint = saved.mint]
<1>4. CASE Open(saved) /\ click' = [click EXCEPT ![c] = r]
  <2>1. /\ saved.mint \in made /\ made \subseteq Mints
        /\ GoodDraft(NewDraft, made, held, outcome)
    BY <1>4, NewDraftIsGood
       DEF Open, LaunchInv, GoodSaved, GoodDraft, Known, LaunchTypeOK
  <2>2. /\ r.pc = "checking" /\ r.kind = "recover" /\ r.mint = saved.mint
        /\ r.read = NewDraft /\ r.view = NewDraft /\ r \in ClickRecords
    BY <2>1 DEF NoClick, ClickRecords, ClickSteps, ClickKinds, LaunchStatus, MaybeMint, GoodDraft
  <2> HIDE DEF r
  <2>3. GoodCall(r)
    BY <2>1, <2>2 DEF GoodCall, GoodClick
  <2> QED BY <1>1, <1>2, <1>4, <2>2, <2>3, CallGoesOn
<1> QED BY <1>3, <1>4 DEF ListSessions, Begin

\* A result is final only when the transaction has landed.
LEMMA CheckSteps ==
    ASSUME LaunchInv, NEW c \in Clicks, CheckStatus(c) \/ CheckHeight(c) \/ CheckFails(c)
    PROVE  LaunchInv'
<1> DEFINE m == click[c].mint
<1>1. /\ click[c].pc \in {"checking", "height"} /\ GoodCall(click[c])
      /\ click[c] \in ClickRecords /\ m \in made /\ made \subseteq Mints
      /\ click[c].kind \in {"execute", "verify", "recover"}
  BY CallFields DEF CheckStatus, CheckHeight, CheckFails, GoodCall, GoodClick, On
<1>2. Grows /\ Rest /\ UNCHANGED shown
  BY <1>1 DEF LaunchInv, LaunchTypeOK, CheckStatus, CheckHeight, CheckFails, memory, wire,
             StillOpen, Grows, Rest, Outcomes
<1>3. {"finalized", "failed", "unknown"} \subseteq LaunchStatus
  BY DEF LaunchStatus
<1>4. \A st \in {"failed", "unknown"} : Landed(m, st, outcome')
  BY DEF Landed
<1>5. CASE \E st \in {"failed", "unknown"} : Conclude(c, st)
  BY <1>1, <1>2, <1>3, <1>4, <1>5, CallConcludes
<1>6. CASE outcome[m] = "landed" /\ Conclude(c, "finalized")
  <2>1. Landed(m, "finalized", outcome')
    BY <1>1, <1>2, <1>6, LaunchAssumption DEF Landed, Grows
  <2> QED BY <1>1, <1>2, <1>3, <1>6, <2>1, CallConcludes
<1>7. CASE UNCHANGED <<saved, lost>>
  <2>1. Quiet
    BY <1>2, <1>7, NothingWritten
  <2>2. CASE Step(c, "height")
    <3> DEFINE r == [click[c] EXCEPT !.pc = "height"]
    <3>1. /\ r.pc = "height" /\ r.kind = click[c].kind /\ r.mint = m /\ r \in ClickRecords
          /\ r.view = click[c].view /\ r.read = click[c].read
      BY <1>1 DEF ClickRecords, ClickSteps
    <3>2. click' = [click EXCEPT ![c] = r]
      BY <2>2 DEF Step
    <3> HIDE DEF r
    <3>3. GoodCall(r)
      BY <1>1, <3>1 DEF GoodCall, GoodClick
    <3> QED BY <1>2, <2>1, <3>1, <3>2, <3>3, CallGoesOn
  <2>3. CASE EndClick(c)
    BY <1>2, <2>1, <2>3, CallEnds
  <2>4. CASE Answer(c, m, "unknown")
    BY <1>1, <1>2, <1>3, <1>4, <2>1, <2>4, CallAnswers DEF Grows
  <2>5. CASE \E st \in {"failed", "unknown"} : Conclude(c, st)
    BY <1>5, <2>5
  <2>6. CASE outcome[m] = "landed" /\ Conclude(c, "finalized")
    BY <1>6, <2>6
  <2> QED BY <2>2, <2>3, <2>4, <2>5, <2>6 DEF CheckStatus, CheckHeight, CheckFails
<1> QED BY <1>5, <1>6, <1>7 DEF CheckStatus, CheckHeight, CheckFails

\* The chain, the lock and the process.
LEMMA WorldSteps ==
    ASSUME LaunchInv,
           \/ \E m \in Mints, how \in {"landed", "reverted"} : Land(m, how)
           \/ CloseWindow \/ LockKeystore \/ UnlockKeystore \/ Quit
    PROVE  LaunchInv'
<1>1. Grows /\ Rest /\ UNCHANGED <<saved, lost>> /\ shown' \in {shown, saved}
  BY DEF LaunchInv, LaunchTypeOK, Land, CloseWindow, LockKeystore, UnlockKeystore, Quit,
         Forget, drafts, memory, wire, Grows, Rest, Outcomes
<1>2. Quiet
  BY <1>1, NothingWritten
<1>3. CASE UNCHANGED click
  BY <1>1, <1>2, <1>3, CallsAsTheyWere
<1>4. CASE click' = [c \in Clicks |-> NoClick]
  <2>1. \A c \in Clicks : click'[c] = NoClick
    BY <1>4
  <2>2. GoodClick(NoClick, made', held', outcome', submitted', OnRecord')
    BY <1>1, NoClickIsGood
  <2>3. NoClick.pc # "signed" /\ NoClick \in ClickRecords
    BY <2>2 DEF NoClick, GoodClick
  <2>4. GoodCalls' /\ SignedApart' /\ click' \in [Clicks -> ClickRecords]
    BY <1>4, <2>1, <2>2, <2>3 DEF GoodCalls, GoodCall, SignedApart, On
  <2> QED BY <1>1, <1>2, <2>4, OnlyCalls
<1> QED BY <1>3, <1>4 DEF Land, CloseWindow, LockKeystore, UnlockKeystore, Quit

-----------------------------------------------------------------------------
(* The theorems *)

LEMMA LaunchStarts == ASSUME LaunchInit PROVE LaunchInv
<1> USE DEF LaunchInit
<1>1. NewDraft \in Drafts
  BY DEF NewDraft, Drafts, MaybeMint, LaunchStatus
<1>2. GoodDraft(NewDraft, made, held, outcome)
  BY <1>1 DEF NewDraft, GoodDraft, Known, Paired, Landed
<1>3. NoClick \in ClickRecords
  BY <1>1 DEF NoClick, ClickRecords, ClickSteps, ClickKinds, LaunchStatus, MaybeMint
<1>4. \A c \in Clicks : click[c] = NoClick
  OBVIOUS
<1>5. GoodCall(NoClick)
  BY <1>2, <1>3 DEF NoClick, GoodCall, GoodClick
<1>6. GoodCalls /\ SignedApart
  BY <1>4, <1>5 DEF GoodCalls, SignedApart, On, NoClick
<1>7. LaunchTypeOK
  BY <1>1, <1>3 DEF LaunchTypeOK, MaybeMint
<1> QED BY <1>2, <1>6, <1>7 DEF LaunchInv, GoodSaved, GoodShown, AllWellSent

LEMMA LaunchStep == LaunchInv /\ [LaunchNext]_launchVars => LaunchInv'
<1> SUFFICES ASSUME LaunchInv, [LaunchNext]_launchVars PROVE LaunchInv'
  OBVIOUS
<1>1. CASE UNCHANGED launchVars
  <2>1. Grows /\ Rest
    BY <1>1, MemoryStays DEF launchVars
  <2>2. Quiet
    BY <1>1, <2>1, NothingWritten DEF launchVars, drafts
  <2> QED BY <1>1, <2>1, <2>2, CallsAsTheyWere DEF launchVars
<1>2. ASSUME NEW c \in Clicks,
             \/ Chat(c) \/ ChatEnds(c) \/ Show(c)
             \/ Preflight(c) \/ Revalidate(c) \/ RevalidatePasses(c) \/ RevalidateBlocks(c)
             \/ Refuse(c) \/ Execute(c) \/ AlreadyLaunched(c) \/ Sign(c) \/ SignFails(c)
             \/ PersistFails(c) \/ Verify(c) \/ ListSessions(c)
             \/ CheckStatus(c) \/ CheckHeight(c) \/ CheckFails(c)
             \/ \E m \in Mints : PreflightPasses(c, m)
             \/ \E yes \in BOOLEAN : Send(c, yes) \/ Sent(c, yes)
      PROVE  LaunchInv'
  BY <1>2, ShowStep, ChatSteps, BeginSteps, PreflightStep, ReviewSteps, RefuseSteps,
     SignStep, SignFailsStep, SendStep, SentStep, ListStep, CheckSteps
<1>3. CASE \E m \in Mints : Expire(m)
  BY <1>3, ExpireStep
<1>4. CASE \/ \E m \in Mints, how \in {"landed", "reverted"} : Land(m, how)
           \/ CloseWindow \/ LockKeystore \/ UnlockKeystore \/ Quit
  BY <1>4, WorldSteps
<1> QED BY <1>1, <1>2, <1>3, <1>4 DEF LaunchNext

LEMMA LaunchInvariant == LaunchSpec => []LaunchInv
BY LaunchStarts, LaunchStep, PTL DEF LaunchSpec

(* The state of the launch lane stays in its types: what is consumed,       *)
(* reviewed, held or lost was made.                                         *)
THEOREM LaunchTypeCorrect == LaunchSpec => []LaunchTypeOK
<1>1. LaunchInv => LaunchTypeOK
  BY DEF LaunchInv
<1> QED BY <1>1, LaunchInvariant, PTL

(* A mint is broadcast at most once, is the one the card showed when the    *)
(* password was given, and is on record unless an older copy of the         *)
(* session was written over it; a record or a card that says finalized has  *)
(* its mint on chain (signPrepared, #replacePrepared, the upserts of the    *)
(* session and the reconciliation).                                         *)
THEOREM LaunchCorrect == LaunchSpec => []LaunchedAsApproved
<1>1. ASSUME LaunchInv PROVE LaunchedAsApproved
  <2>1. \A d \in {saved, shown} : LandedIfFinalized(d)
    BY <1>1 DEF LaunchInv, GoodSaved, GoodShown, GoodDraft, Landed, LandedIfFinalized
  <2>2. ASSUME NEW m \in Mints PROVE SentAtMostOnce(m) /\ SentAsShown(m) /\ SentOnRecord(m)
    BY <1>1 DEF LaunchInv, AllWellSent, WellSent, OnRecord,
                SentAtMostOnce, SentAsShown, SentOnRecord
  <2> QED BY <2>1, <2>2 DEF LaunchedAsApproved
<1> QED BY <1>1, LaunchInvariant, PTL
=============================================================================
