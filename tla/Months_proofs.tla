----------------------------- MODULE Months_proofs ----------------------------
(***************************************************************************)
(* What a closed month is worth: for every number of churches, records,    *)
(* requests and failures, every length of the year and both machines.  And *)
(* that the two reports agree, whatever the figures and the currencies.    *)
(***************************************************************************)
EXTENDS MonthReports, SequenceTheorems, FiniteSetTheorems,
        WellFoundedInduction, TLAPS

Pending == {"checked", "voiding"}

(* Closing, the closing job and the stored results.                        *)
Calendar ==
  /\ \A p \in Period : Closed(p) => p \in shut
  /\ \A p \in shut \ opened : Closed(p)
  /\ \A p \in Period : dre[p] # <<>> => p \in shut
  /\ \A c \in night.at : <<c, Target>> \in shut

(* What may still be written in a closed month is known to be late; no     *)
(* purchase is refused without a cause.                                    *)
Entries ==
  /\ \A e \in Entry :
       PeriodOf[e] \in shut \ opened /\ stage[e] \in Pending => e \in late
  /\ \A e \in Purchase : stage[e] # "new" => Found(PeriodOf[e])
  /\ \A e \in Purchase :
       stage[e] = "refused" => PeriodOf[e] \in shut \/ e \in lost

Kept == TypeOK /\ Calendar /\ Entries /\ DreMatchesRecords

MonthStep ==
  MonthRequest \/ CloseStep \/ NightGenerates \/ CloseInterrupted \/ Tick
EntryStep == PurchaseStep \/ RecordStep
-----------------------------------------------------------------------------
LEMMA Division ==
  ASSUME NEW x \in Nat
  PROVE  /\ x \div MonthsPerYear \in Nat
         /\ (x % MonthsPerYear) \in 0..(MonthsPerYear - 1)
         /\ x = MonthsPerYear * (x \div MonthsPerYear) + (x % MonthsPerYear)
BY SMT, YearAssumption

LEMMA TimeReaches ==
  /\ YearEnd \in Nat /\ MaxTime <= YearEnd
  /\ 0 % MonthsPerYear = 0
<1>. DEFINE q == MaxTime \div MonthsPerYear
            r == MaxTime % MonthsPerYear
<1>1. /\ q \in Nat /\ r \in 0..(MonthsPerYear - 1)
      /\ MaxTime = MonthsPerYear * q + r
  BY Division, YearAssumption
<1>2. YearEnd = (q + 2) * MonthsPerYear - 1 BY DEF YearEnd
<1>. HIDE DEF q, r
<1>3. YearEnd \in Nat /\ MaxTime <= YearEnd
  BY <1>1, <1>2, YearAssumption, SMT
<1>4. 0 % MonthsPerYear = 0 BY SMT, YearAssumption
<1>5. QED BY <1>3, <1>4

LEMMA TargetInPeriod ==
  ASSUME TypeOK, ~ NothingToClose, NEW c \in Church
  PROVE  <<c, Target>> \in Period
<1>1. clock \in 0..MaxTime /\ ahead \in {0, 1} BY DEF TypeOK
<1>2. clock + ahead # 0 BY TimeReaches DEF NothingToClose, LocalMonth
<1>3. Target \in 0..MaxTime
  BY <1>1, <1>2, YearAssumption DEF Target, LocalMonth
<1>4. QED BY <1>3, TimeReaches, YearAssumption DEF Period, Time

(* A document that was found is replaced in its place.                     *)
LEMMA WithFlagFacts ==
  ASSUME TypeOK, NEW p \in Period, Found(p), NEW closed \in BOOLEAN
  PROVE  /\ WithFlag(p, closed) \in [Period -> Seq(BOOLEAN)]
         /\ WithFlag(p, closed)[p] # <<>>
         /\ Head(WithFlag(p, closed)[p]) = closed
         /\ \A q \in Period \ {p} : WithFlag(p, closed)[q] = month[q]
<1>1. month \in [Period -> Seq(BOOLEAN)] BY DEF TypeOK
<1>2. month[p] \in Seq(BOOLEAN) /\ month[p] # <<>> BY <1>1 DEF Found
<1>3. 1 \in 1..Len(month[p]) BY <1>2, EmptySeq, LenProperties
<1>. DEFINE new == [month[p] EXCEPT ![1] = closed]
<1>4. new \in Seq(BOOLEAN) /\ Len(new) = Len(month[p]) /\ new[1] = closed
  BY <1>2, <1>3, ExceptSeq
<1>5. WithFlag(p, closed) = [month EXCEPT ![p] = new] BY DEF WithFlag
<1>. HIDE DEF new
<1>6. new # <<>> /\ Head(new) = closed BY <1>3, <1>4
<1>7. QED BY <1>1, <1>4, <1>5, <1>6

(* A month generated again keeps its first document.                       *)
LEMMA GeneratedFacts ==
  ASSUME TypeOK, NEW churches, NEW year
  PROVE  /\ Generated(churches, year) \in [Period -> Seq(BOOLEAN)]
         /\ \A p \in Period :
              LET new == Generated(churches, year)[p] IN
              /\ month[p] # <<>> => new # <<>> /\ Head(new) = Head(month[p])
              /\ month[p] = <<>> => new = <<>> \/ Head(new) = FALSE
<1>1. month \in [Period -> Seq(BOOLEAN)] BY DEF TypeOK
<1>2. ASSUME NEW p \in Period
      PROVE  /\ Append(month[p], FALSE) \in Seq(BOOLEAN)
             /\ Append(month[p], FALSE) # <<>>
             /\ Head(Append(month[p], FALSE)) =
                  IF month[p] = <<>> THEN FALSE ELSE Head(month[p])
  <2>1. month[p] \in Seq(BOOLEAN) /\ FALSE \in BOOLEAN BY <1>1
  <2>2. Append(month[p], FALSE) \in Seq(BOOLEAN) /\ Append(month[p], FALSE) # <<>>
    BY <2>1, AppendProperties
  <2>3. Head(Append(month[p], FALSE)) =
          IF month[p] = <<>> THEN FALSE ELSE Head(month[p])
    BY <2>1, HeadTailAppend
  <2>4. QED BY <2>2, <2>3
<1>. DEFINE new == Generated(churches, year)
<1>3. new = [p \in Period |->
               IF p[1] \in churches /\ p[2] \div MonthsPerYear = year
               THEN Append(month[p], FALSE) ELSE month[p]]
  BY DEF Generated
<1>. HIDE DEF new
<1>4. \A p \in Period : new[p] = month[p] \/ new[p] = Append(month[p], FALSE)
  BY <1>3
<1>5. new \in [Period -> Seq(BOOLEAN)] BY <1>1, <1>2, <1>3
<1>6. QED BY <1>1, <1>2, <1>4, <1>5 DEF new
-----------------------------------------------------------------------------
(* What a step on the months leaves alone, and how it changes the rest.    *)
LEMMA MonthFrame ==
  ASSUME MonthStep
  PROVE  UNCHANGED <<stage, purchase, lost>>
<1>1. CASE MonthRequest
  BY <1>1 DEF MonthRequest, UpdateFinancialMonth, Generate, history
<1>2. CASE CloseStep
  BY <1>2 DEF CloseStep, CloseStart, CloseMonth, SaveDre, CloseEnd, history
<1>3. CASE NightGenerates BY <1>3 DEF NightGenerates, history
<1>4. CASE CloseInterrupted BY <1>4 DEF CloseInterrupted, history
<1>5. CASE Tick BY <1>5 DEF Tick, history
<1>6. QED BY <1>1, <1>2, <1>3, <1>4, <1>5 DEF MonthStep

(* What a step on the months does to a period: its documents stay; it is   *)
(* opened by a user alone; when it closes, what is pending is late.        *)
Moves(p) ==
  /\ Found(p) => Found(p)'
  /\ Closed(p) /\ ~ Closed(p)' => p \in opened'
  /\ Closed(p)' /\ ~ Closed(p) => p \in shut'
  /\ p \in shut' \ shut =>
       /\ Closed(p)'
       /\ \A e \in Entry : PeriodOf[e] = p /\ stage[e] \in Pending => e \in late'

Grow ==
  /\ late \subseteq late' /\ late' \subseteq Entry
  /\ shut \subseteq shut' /\ shut' \subseteq Period
  /\ opened \subseteq opened' /\ opened' \subseteq Period
  /\ month' \in [Period -> Seq(BOOLEAN)]

LEMMA GeneratedMoves ==
  ASSUME TypeOK, NEW churches, NEW year, month' = Generated(churches, year),
         UNCHANGED <<late, shut, opened>>
  PROVE  Grow /\ \A p \in Period : Moves(p)
BY GeneratedFacts DEF Moves, Grow, Found, Closed, TypeOK

LEMMA ClosingMoves ==
  ASSUME TypeOK, NEW p \in Period, Found(p), month' = WithFlag(p, TRUE),
         Overtaken(p), shut' = shut \union {p}, opened' = opened
  PROVE  Grow /\ \A q \in Period : Moves(q)
<1>1. Grow BY WithFlagFacts DEF Grow, Overtaken, TypeOK
<1>2. Moves(p)
  BY WithFlagFacts DEF Moves, Found, Closed, Overtaken, Pending
<1>3. ASSUME NEW q \in Period \ {p} PROVE Moves(q)
  BY WithFlagFacts DEF Moves, Found, Closed
<1>4. QED BY <1>1, <1>2, <1>3

LEMMA MonthMoves ==
  ASSUME TypeOK, MonthStep
  PROVE  Grow /\ \A p \in Period : Moves(p)
<1>1. ASSUME NEW p \in UserPeriod, NEW closed \in BOOLEAN,
             UpdateFinancialMonth(p, closed)
      PROVE  Grow /\ \A q \in Period : Moves(q)
  <2>1. p \in Period BY EntryAssumption
  <2>2. CASE closed
    BY <1>1, <2>1, <2>2, ClosingMoves DEF UpdateFinancialMonth
  <2>3. CASE ~ closed
    <3>1. /\ Found(p) /\ month' = WithFlag(p, FALSE)
          /\ opened' = opened \union {p} /\ UNCHANGED <<late, shut>>
      BY <1>1, <2>3 DEF UpdateFinancialMonth
    <3>2. Grow BY <2>1, <3>1, WithFlagFacts DEF Grow, TypeOK
    <3>3. \A q \in Period : Moves(q)
      BY <2>1, <3>1, WithFlagFacts DEF Moves, Found, Closed
    <3>4. QED BY <3>2, <3>3
  <2>4. QED BY <2>2, <2>3
<1>2. CASE \E churches \in SUBSET Church :
             Generate(churches, clock \div MonthsPerYear)
  BY <1>2, GeneratedMoves DEF Generate, history
<1>3. ASSUME UNCHANGED <<month, late, shut, opened>>
      PROVE  Grow /\ \A p \in Period : Moves(p)
  BY <1>3 DEF Grow, Moves, Found, Closed, TypeOK
<1>4. CASE CloseStart BY <1>3, <1>4 DEF CloseStart, history
<1>5. ASSUME NEW c \in Church, CloseMonth(c)
      PROVE  Grow /\ \A p \in Period : Moves(p)
  <2>1. CASE Aborts(c) BY <1>3, <1>5, <2>1 DEF CloseMonth
  <2>2. CASE ~ Aborts(c)
    <3>1. <<c, Target>> \in Period /\ Found(<<c, Target>>)
      BY <2>2, TargetInPeriod DEF Aborts
    <3>2. QED BY <1>5, <2>2, <3>1, ClosingMoves DEF CloseMonth
  <2>3. QED BY <2>1, <2>2
<1>6. ASSUME NEW c \in Church, SaveDre(c)
      PROVE  Grow /\ \A p \in Period : Moves(p)
  BY <1>3, <1>6 DEF SaveDre, history
<1>7. CASE CloseEnd
  <2>1. UNCHANGED <<late, shut, opened>> BY <1>7 DEF CloseEnd, history
  <2>2. CASE IsDecember
    BY <1>7, <2>1, <2>2, GeneratedMoves DEF CloseEnd
  <2>3. CASE ~ IsDecember BY <1>3, <1>7, <2>1, <2>3 DEF CloseEnd
  <2>4. QED BY <2>2, <2>3
<1>8. CASE NightGenerates
  BY <1>8, GeneratedMoves DEF NightGenerates, history
<1>9. CASE CloseInterrupted BY <1>3, <1>9 DEF CloseInterrupted
<1>10. CASE Tick BY <1>3, <1>10 DEF Tick, history
<1>11. QED
  BY <1>1, <1>2, <1>4, <1>5, <1>6, <1>7, <1>8, <1>9, <1>10
     DEF MonthStep, MonthRequest, CloseStep
-----------------------------------------------------------------------------
(* What a step on an entry leaves alone, and how far the entry may go.     *)
EntryFrame ==
  /\ UNCHANGED <<ahead, clock, month, dre, night, late, shut, opened, disturbed>>
  /\ lost \subseteq lost' /\ lost' \subseteq Entry

Goes(e) ==
  /\ Realized(e)' # Realized(e) => stage[e] \in Pending
  /\ stage'[e] \in Pending => stage'[e] = stage[e] \/ Open(PeriodOf[e])
  /\ stage'[e] = "refused" =>
       \/ stage[e] = "refused" \/ e \in lost'
       \/ stage[e] = "queued" /\ ~ Open(PeriodOf[e])
  /\ e \in Purchase /\ stage'[e] # "new" => stage[e] # "new" \/ Open(PeriodOf[e])

EntryGoes ==
  /\ EntryFrame
  /\ stage' \in [Entry -> Stage] /\ \A e \in Entry : Goes(e)

(* A step that moves one entry as Goes allows.                             *)
LEMMA OneMoves ==
  ASSUME TypeOK, NEW e \in Entry, NEW s \in Stage, Move(e, s), EntryFrame,
         s \in {"stored", "cancelled", "voiding", "stuck"} <=>
           \/ stage[e] \in {"stored", "cancelled", "voiding", "stuck"}
                /\ s # "void"
           \/ stage[e] = "checked" /\ s = "stored",
         s = "void" => stage[e] = "voiding",
         s \in Pending => Open(PeriodOf[e]),
         s = "refused" => stage[e] = "queued" /\ ~ Open(PeriodOf[e]),
         e \in Purchase /\ s # "new" => stage[e] # "new" \/ Open(PeriodOf[e])
  PROVE  EntryGoes
<1>1. /\ stage \in [Entry -> Stage] /\ stage' = [stage EXCEPT ![e] = s]
      /\ stage'[e] = s
  BY DEF TypeOK, Move
<1>2. stage' \in [Entry -> Stage] BY <1>1
<1>3. Goes(e) BY <1>1 DEF Goes, Realized, Pending
<1>4. ASSUME NEW o \in Entry \ {e} PROVE Goes(o)
  BY <1>1, <1>4 DEF Goes, Realized
<1>5. QED BY <1>2, <1>3, <1>4 DEF EntryGoes

LEMMA Losing ==
  ASSUME TypeOK, NEW e \in Entry, Move(e, "refused"), EntryFrame, e \in lost',
         stage[e] \in {"saved", "queued", "checked"}
  PROVE  EntryGoes
<1>1. /\ stage \in [Entry -> Stage] /\ stage' = [stage EXCEPT ![e] = "refused"]
      /\ stage'[e] = "refused"
  BY DEF TypeOK, Move
<1>2. stage' \in [Entry -> Stage] BY <1>1 DEF Stage
<1>3. Goes(e) BY <1>1 DEF Goes, Realized, Pending
<1>4. ASSUME NEW o \in Entry \ {e} PROVE Goes(o)
  BY <1>1, <1>4 DEF Goes, Realized
<1>5. QED BY <1>2, <1>3, <1>4 DEF EntryGoes

LEMMA Keeping ==
  ASSUME TypeOK, EntryFrame, UNCHANGED stage
  PROVE  EntryGoes
BY DEF TypeOK, EntryGoes, Goes, Realized

LEMMA PurchaseMoves ==
  ASSUME TypeOK, PurchaseStep
  PROVE  EntryGoes /\ purchase' \in [Purchase -> Document]
<1>1. PICK e \in Purchase :
        \/ PurchaseCheck(e) \/ PurchaseSave(e) \/ PurchaseDispatch(e)
        \/ PurchaseFails(e) \/ DeleteInvoice(e) \/ DeletePurchase(e)
  BY DEF PurchaseStep
<1>2. e \in Entry BY EntryAssumption
<1>3. EntryFrame
  BY <1>1, <1>2 DEF EntryFrame, PurchaseCheck, PurchaseSave, PurchaseDispatch,
     PurchaseFails, Lose, DeleteInvoice, DeletePurchase, system, history, TypeOK
<1>4. purchase' \in [Purchase -> Document]
  BY <1>1 DEF PurchaseCheck, PurchaseSave, PurchaseDispatch, PurchaseFails,
     DeleteInvoice, DeletePurchase, TypeOK, Document
<1>5. CASE PurchaseCheck(e)
  BY <1>2, <1>3, <1>4, <1>5, OneMoves DEF PurchaseCheck, Stage, Pending
<1>6. CASE PurchaseSave(e)
  BY <1>2, <1>3, <1>4, <1>6, OneMoves DEF PurchaseSave, Stage, Pending
<1>7. CASE PurchaseDispatch(e)
  BY <1>2, <1>3, <1>4, <1>7, OneMoves DEF PurchaseDispatch, Stage, Pending
<1>8. CASE PurchaseFails(e)
  <2>1. Move(e, "refused") /\ e \in lost' /\ stage[e] = "saved"
    BY <1>8 DEF PurchaseFails, Lose
  <2>2. QED BY <1>2, <1>3, <1>4, <2>1, Losing
<1>9. CASE DeleteInvoice(e) \/ DeletePurchase(e)
  BY <1>3, <1>4, <1>9, Keeping DEF DeleteInvoice, DeletePurchase
<1>10. QED BY <1>1, <1>4, <1>5, <1>6, <1>7, <1>8, <1>9

LEMMA RecordMoves ==
  ASSUME TypeOK, RecordStep
  PROVE  EntryGoes /\ purchase' \in [Purchase -> Document]
<1>1. PICK e \in Entry :
        \/ e \notin Purchase /\ Dispatch(e)
        \/ CreateCheck(e) \/ CreateStore(e) \/ CreateLost(e)
        \/ Cancel(e) \/ VoidCheck(e) \/ VoidStore(e) \/ VoidLost(e)
  BY DEF RecordStep
<1>2. EntryFrame
  BY <1>1 DEF EntryFrame, Dispatch, CreateCheck, CreateStore, CreateLost, Cancel,
     VoidCheck, VoidStore, VoidLost, Lose, system, history, TypeOK
<1>3. purchase' \in [Purchase -> Document]
  BY <1>1 DEF Dispatch, CreateCheck, CreateStore, CreateLost, Cancel, VoidCheck,
     VoidStore, VoidLost, TypeOK
<1>4. CASE e \notin Purchase /\ Dispatch(e)
  BY <1>2, <1>3, <1>4, OneMoves DEF Dispatch, Stage, Pending
<1>5. CASE CreateCheck(e)
  <2>1. CASE Open(PeriodOf[e])
    BY <1>2, <1>3, <1>5, <2>1, OneMoves DEF CreateCheck, Stage, Pending
  <2>2. CASE ~ Open(PeriodOf[e])
    BY <1>2, <1>3, <1>5, <2>2, OneMoves DEF CreateCheck, Stage, Pending
  <2>3. QED BY <2>1, <2>2
<1>6. CASE CreateStore(e)
  BY <1>2, <1>3, <1>6, OneMoves DEF CreateStore, Stage, Pending
<1>7. CASE CreateLost(e)
  <2>1. Move(e, "refused") /\ e \in lost' /\ stage[e] \in {"queued", "checked"}
    BY <1>7 DEF CreateLost, Lose
  <2>2. QED BY <1>2, <1>3, <2>1, Losing
<1>8. CASE Cancel(e)
  BY <1>2, <1>3, <1>8, OneMoves DEF Cancel, Stage, Pending
<1>9. CASE VoidCheck(e)
  <2>1. CASE Open(PeriodOf[e])
    BY <1>2, <1>3, <1>9, <2>1, OneMoves DEF VoidCheck, Stage, Pending
  <2>2. CASE ~ Open(PeriodOf[e])
    BY <1>2, <1>3, <1>9, <2>2, OneMoves DEF VoidCheck, Stage, Pending
  <2>3. QED BY <2>1, <2>2
<1>10. CASE VoidStore(e)
  BY <1>2, <1>3, <1>10, OneMoves DEF VoidStore, Stage, Pending
<1>11. CASE VoidLost(e)
  BY <1>2, <1>3, <1>11, OneMoves DEF VoidLost, Stage, Pending
<1>12. QED
  BY <1>1, <1>3, <1>4, <1>5, <1>6, <1>7, <1>8, <1>9, <1>10, <1>11

LEMMA EntryMoves ==
  ASSUME TypeOK, EntryStep
  PROVE  EntryGoes /\ purchase' \in [Purchase -> Document]
BY PurchaseMoves, RecordMoves DEF EntryStep
-----------------------------------------------------------------------------
LEMMA UsedStep ==
  ASSUME TypeOK, Next
  PROVE  used' \in [requests : 0..MaxRequests, troubles : 0..MaxTroubles]
<1>1. CASE Request
  BY <1>1, BoundAssumption DEF TypeOK, Request, Spend
<1>2. CASE Trouble
  BY <1>2, BoundAssumption DEF TypeOK, Trouble, Spend
<1>3. UNCHANGED used \/ Request \/ Trouble
  BY DEF Next, MonthRequest, UpdateFinancialMonth, Generate, CloseStep,
     CloseStart, CloseMonth, SaveDre, CloseEnd, NightGenerates,
     CloseInterrupted, Tick, PurchaseStep, PurchaseCheck, PurchaseSave,
     PurchaseDispatch, PurchaseFails, DeleteInvoice, DeletePurchase,
     RecordStep, Dispatch, CreateCheck, CreateStore, CreateLost, Cancel,
     VoidCheck, VoidStore, VoidLost
<1>4. QED BY <1>1, <1>2, <1>3 DEF TypeOK

(* The job and its results.                                                *)
JobTyped ==
  /\ ahead \in {0, 1} /\ clock \in 0..MaxTime /\ disturbed \in BOOLEAN
  /\ dre \in [Period -> Seq(Dre)]
  /\ night \in Night
  /\ IF night.phase = "reporting" THEN \E c \in Church : night.at = {c}
                                  ELSE night.at = {}

LEMMA JobStep ==
  ASSUME TypeOK, MonthStep
  PROVE  JobTyped'
<1>1. JobTyped BY DEF TypeOK, JobTyped
<1>2. ASSUME UNCHANGED <<ahead, clock, disturbed, dre, night>> PROVE JobTyped'
  BY <1>1, <1>2 DEF JobTyped
<1>3. CASE MonthRequest \/ NightGenerates
  BY <1>2, <1>3
     DEF MonthRequest, UpdateFinancialMonth, Generate, NightGenerates, history
<1>4. Waiting \in Night /\ Ended \in Night BY DEF Waiting, Ended, Night, Phase
<1>5. CASE CloseStart
  <2>1. night' \in Night /\ night'.phase = "closing" /\ night'.at = {}
    BY <1>5 DEF CloseStart, Night, Phase
  <2>2. UNCHANGED <<ahead, clock, disturbed, dre>>
    BY <1>5 DEF CloseStart, history
  <2>3. QED BY <1>1, <2>1, <2>2 DEF JobTyped
<1>6. ASSUME NEW c \in Church, CloseMonth(c) PROVE JobTyped'
  <2>1. UNCHANGED <<ahead, clock, disturbed, dre>> BY <1>6 DEF CloseMonth
  <2>2. \/ night' = Ended
        \/ night' = [phase |-> "reporting", todo |-> night.todo \ {c}, at |-> {c}]
    BY <1>6 DEF CloseMonth
  <2>3. night' \in Night
    BY <1>1, <1>4, <2>2 DEF JobTyped, Night, Phase
  <2>4. IF night'.phase = "reporting" THEN \E o \in Church : night'.at = {o}
                                      ELSE night'.at = {}
    BY <2>2 DEF Ended
  <2>5. QED BY <1>1, <2>1, <2>3, <2>4 DEF JobTyped
<1>7. ASSUME NEW c \in Church, SaveDre(c) PROVE JobTyped'
  <2>. DEFINE p == <<c, Target>>
  <2>1. UNCHANGED <<ahead, clock, disturbed>> BY <1>7 DEF SaveDre, history
  <2>2. /\ night' \in Night /\ night'.phase = "closing" /\ night'.at = {}
    BY <1>1, <1>7 DEF SaveDre, JobTyped, Night, Phase
  <2>3. dre' = [dre EXCEPT ![p] = Append(dre[p], Statement(p))]
    BY <1>7 DEF SaveDre
  <2>4. Statement(p) \in Dre BY DEF Statement, Dre
  <2>. HIDE DEF p
  <2>5. p \in Period => Append(dre[p], Statement(p)) \in Seq(Dre)
    BY <1>1, <2>4, AppendProperties DEF JobTyped
  <2>6. dre' \in [Period -> Seq(Dre)] BY <1>1, <2>3, <2>5 DEF JobTyped
  <2>7. QED BY <1>1, <2>1, <2>2, <2>6 DEF JobTyped
<1>8. CASE CloseEnd
  <2>1. UNCHANGED <<ahead, clock, disturbed, dre>> /\ night' = Ended
    BY <1>8 DEF CloseEnd, history
  <2>2. night'.phase = "done" /\ night'.at = {} BY <2>1 DEF Ended
  <2>3. QED BY <1>1, <1>4, <2>1, <2>2 DEF JobTyped
<1>9. CASE CloseInterrupted
  <2>1. UNCHANGED <<ahead, clock, dre>> /\ disturbed' = TRUE
        /\ night' \in {Waiting, Ended}
    BY <1>9 DEF CloseInterrupted
  <2>2. night'.phase # "reporting" /\ night'.at = {}
    BY <2>1 DEF Waiting, Ended
  <2>3. QED BY <1>1, <1>4, <2>1, <2>2 DEF JobTyped
<1>10. CASE Tick
  <2>1. UNCHANGED <<ahead, disturbed, dre>> /\ clock' = clock + 1
        /\ clock < MaxTime /\ night' = Waiting
    BY <1>10 DEF Tick, history
  <2>2. clock' \in 0..MaxTime BY <1>1, <2>1, YearAssumption DEF JobTyped
  <2>3. night'.phase = "waiting" /\ night'.at = {} BY <2>1 DEF Waiting
  <2>4. QED BY <1>1, <1>4, <2>1, <2>2, <2>3 DEF JobTyped
<1>11. QED
  BY <1>3, <1>5, <1>6, <1>7, <1>8, <1>9, <1>10 DEF MonthStep, CloseStep
-----------------------------------------------------------------------------
LEMMA NextSteps == Next <=> MonthStep \/ EntryStep
BY DEF Next, MonthStep, EntryStep

LEMMA TypeInit == Init => TypeOK
<1>. SUFFICES ASSUME Init PROVE TypeOK OBVIOUS
<1>1. month \in [Period -> Seq(BOOLEAN)]
  <2>1. PICK ready \in SUBSET Church :
          month = [p \in Period |->
                     IF p[1] \in ready /\ p[2] < MonthsPerYear
                     THEN <<FALSE>> ELSE <<>>]
    BY DEF Init
  <2>2. <<FALSE>> \in Seq(BOOLEAN) /\ <<>> \in Seq(BOOLEAN) OBVIOUS
  <2>3. QED BY <2>1, <2>2
<1>2. dre \in [Period -> Seq(Dre)] BY DEF Init
<1>3. ahead \in {0, 1} /\ clock \in 0..MaxTime BY YearAssumption DEF Init
<1>4. night \in Night /\ night.phase = "waiting" /\ night.at = {}
  BY DEF Init, Waiting, Night, Phase
<1>5. used \in [requests : 0..MaxRequests, troubles : 0..MaxTroubles]
  BY BoundAssumption DEF Init
<1>6. /\ stage \in [Entry -> Stage] /\ purchase \in [Purchase -> Document]
      /\ late = {} /\ lost = {} /\ shut = {} /\ opened = {}
      /\ disturbed = FALSE
  BY DEF Init, Stage, Document
<1>7. disturbed \in BOOLEAN BY <1>6
<1>8. QED BY <1>1, <1>2, <1>3, <1>4, <1>5, <1>6, <1>7 DEF TypeOK

LEMMA TypeStep ==
  ASSUME TypeOK, [Next]_vars
  PROVE  TypeOK'
<1>1. CASE MonthStep
  <2>1. JobTyped' BY <1>1, JobStep
  <2>2. Grow BY <1>1, MonthMoves
  <2>3. UNCHANGED <<stage, purchase, lost>> BY <1>1, MonthFrame
  <2>4. used' \in [requests : 0..MaxRequests, troubles : 0..MaxTroubles]
    BY <1>1, NextSteps, UsedStep
  <2>5. QED BY <2>1, <2>2, <2>3, <2>4 DEF TypeOK, JobTyped, Grow
<1>2. CASE EntryStep
  <2>1. EntryGoes /\ purchase' \in [Purchase -> Document] BY <1>2, EntryMoves
  <2>2. used' \in [requests : 0..MaxRequests, troubles : 0..MaxTroubles]
    BY <1>2, NextSteps, UsedStep
  <2>3. QED BY <2>1, <2>2 DEF TypeOK, EntryGoes, EntryFrame
<1>3. CASE UNCHANGED vars
  BY <1>3 DEF vars, system, history, TypeOK
<1>4. QED BY <1>1, <1>2, <1>3, NextSteps
-----------------------------------------------------------------------------
LEMMA KeptInit == Init => Kept
<1>. SUFFICES ASSUME Init PROVE Kept OBVIOUS
<1>1. TypeOK BY TypeInit
<1>2. \A p \in Period : ~ Closed(p)
  <2>1. PICK ready \in SUBSET Church :
          month = [p \in Period |->
                     IF p[1] \in ready /\ p[2] < MonthsPerYear
                     THEN <<FALSE>> ELSE <<>>]
    BY DEF Init
  <2>2. ASSUME NEW x PROVE Head(<<x>>) = x OBVIOUS
  <2>3. QED BY <2>1, <2>2 DEF Closed, Found
<1>3. \A p \in Period : dre[p] = <<>> BY DEF Init
<1>4. /\ late = {} /\ shut = {} /\ night.at = {}
      /\ \A e \in Entry : stage[e] = "new"
  BY DEF Init, Waiting
<1>5. Calendar BY <1>2, <1>3, <1>4 DEF Calendar
<1>6. Entries BY <1>4, EntryAssumption DEF Entries, Pending
<1>7. DreMatchesRecords BY <1>3 DEF DreMatchesRecords
<1>8. QED BY <1>1, <1>5, <1>6, <1>7 DEF Kept

(* What the stored results become: the result of a closed month, behind    *)
(* those it already has.                                                   *)
Results(p) ==
  \/ dre'[p] = dre[p]
  \/ /\ p \in shut
     /\ dre'[p] # <<>>
     /\ Head(dre'[p]) = IF dre[p] = <<>> THEN Statement(p) ELSE Head(dre[p])

LEMMA ResultsStored ==
  ASSUME TypeOK, Calendar, MonthStep, NEW p \in Period
  PROVE  Results(p)
<1>1. CASE \E c \in Church : SaveDre(c)
  <2>1. PICK c \in Church : SaveDre(c) BY <1>1
  <2>. DEFINE t == <<c, Target>>
  <2>2. t \in shut /\ dre' = [dre EXCEPT ![t] = Append(dre[t], Statement(t))]
    BY <2>1 DEF SaveDre, Calendar
  <2>. HIDE DEF t
  <2>3. CASE p = t
    <3>1. dre[p] \in Seq(Dre) /\ Statement(p) \in Dre
      BY DEF TypeOK, Statement, Dre
    <3>2. dre'[p] = Append(dre[p], Statement(p))
      BY <2>2, <2>3 DEF TypeOK
    <3>3. dre'[p] # <<>> BY <3>1, <3>2, AppendProperties
    <3>4. Head(dre'[p]) = IF dre[p] = <<>> THEN Statement(p) ELSE Head(dre[p])
      BY <3>1, <3>2, HeadTailAppend
    <3>5. QED BY <2>2, <2>3, <3>3, <3>4 DEF Results
  <2>4. CASE p # t BY <2>2, <2>4 DEF TypeOK, Results
  <2>5. QED BY <2>3, <2>4
<1>2. CASE ~ \E c \in Church : SaveDre(c)
  <2>1. UNCHANGED dre
    BY <1>2 DEF MonthStep, MonthRequest, UpdateFinancialMonth, Generate,
       CloseStep, CloseStart, CloseMonth, CloseEnd, NightGenerates,
       CloseInterrupted, Tick
  <2>2. QED BY <2>1 DEF Results
<1>3. QED BY <1>1, <1>2

LEMMA CalendarMonth ==
  ASSUME Kept, MonthStep
  PROVE  Calendar'
<1>. USE DEF Kept
<1>1. /\ Grow /\ \A p \in Period : Moves(p)
      /\ \A p \in Period : Results(p)
  BY MonthMoves, ResultsStored
<1>2. \A p \in Period : Closed(p)' => p \in shut'
  BY <1>1 DEF Grow, Moves, Calendar
<1>3. \A p \in shut' \ opened' : Closed(p)'
  BY <1>1 DEF Grow, Moves, Calendar, TypeOK
<1>4. \A p \in Period : dre'[p] # <<>> => p \in shut'
  BY <1>1 DEF Grow, Results, Calendar
<1>5. \A c \in night'.at : <<c, Target'>> \in shut'
  <2>1. CASE \E c \in Church : CloseMonth(c)
    <3>1. PICK c \in Church : CloseMonth(c) BY <2>1
    <3>2. Target' = Target BY <3>1 DEF CloseMonth, Target, LocalMonth
    <3>3. CASE Aborts(c) BY <3>1, <3>3 DEF CloseMonth, Ended
    <3>4. CASE ~ Aborts(c)
      BY <3>1, <3>2, <3>4 DEF CloseMonth
    <3>5. QED BY <3>3, <3>4
  <2>2. CASE ~ \E c \in Church : CloseMonth(c)
    <3>1. night'.at = {} \/ UNCHANGED <<clock, ahead, night>>
      <4>1. CASE \E c \in Church : SaveDre(c)
        BY <4>1 DEF SaveDre, TypeOK, Night
      <4>2. CASE CloseStart BY <4>2 DEF CloseStart
      <4>3. CASE CloseEnd \/ CloseInterrupted \/ Tick
        BY <4>3 DEF CloseEnd, CloseInterrupted, Tick, Waiting, Ended
      <4>4. CASE MonthRequest \/ NightGenerates
        BY <4>4 DEF MonthRequest, UpdateFinancialMonth, Generate, NightGenerates
      <4>5. QED BY <2>2, <4>1, <4>2, <4>3, <4>4 DEF MonthStep, CloseStep
    <3>2. shut \subseteq shut' BY <1>1 DEF Grow
    <3>3. QED BY <3>1, <3>2 DEF Calendar, Target, LocalMonth
  <2>3. QED BY <2>1, <2>2
<1>6. QED BY <1>2, <1>3, <1>4, <1>5 DEF Calendar

LEMMA EntriesMonth ==
  ASSUME Kept, MonthStep
  PROVE  Entries' /\ DreMatchesRecords'
<1>. USE DEF Kept
<1>1. /\ Grow /\ \A p \in Period : Moves(p)
      /\ \A p \in Period : Results(p)
  BY MonthMoves, ResultsStored
<1>2. UNCHANGED <<stage, purchase, lost>> BY MonthFrame
<1>3. \A e \in Entry : PeriodOf[e] \in Period BY EntryAssumption
<1>4. ASSUME NEW e \in Entry, PeriodOf[e] \in shut' \ opened',
             stage'[e] \in Pending
      PROVE  e \in late'
  <2>1. CASE PeriodOf[e] \in shut
    BY <1>1, <1>2, <1>4, <2>1 DEF Grow, Entries
  <2>2. CASE PeriodOf[e] \notin shut
    BY <1>1, <1>2, <1>3, <1>4, <2>2 DEF Moves
  <2>3. QED BY <2>1, <2>2
<1>5. ASSUME NEW e \in Purchase
      PROVE  /\ stage'[e] # "new" => Found(PeriodOf[e])'
             /\ stage'[e] = "refused" => PeriodOf[e] \in shut' \/ e \in lost'
  <2>1. e \in Entry BY EntryAssumption
  <2>2. QED BY <1>1, <1>2, <1>3, <2>1 DEF Moves, Grow, Entries, Found
<1>6. Entries' BY <1>4, <1>5 DEF Entries
<1>7. ASSUME NEW p \in Period \ opened', dre'[p] # <<>>
      PROVE  Head(dre'[p]) \ late' = Statement(p)' \ late'
  <2>1. Statement(p)' = Statement(p) BY <1>2 DEF Statement, Realized
  <2>2. p \in Period \ opened /\ late \subseteq late' BY <1>1, <1>7 DEF Grow
  <2>3. dre[p] # <<>> => Head(dre[p]) \ late = Statement(p) \ late
    BY <2>2 DEF DreMatchesRecords
  <2>4. Head(dre'[p]) = IF dre[p] = <<>> THEN Statement(p) ELSE Head(dre[p])
    BY <1>1, <1>7 DEF Results
  <2>5. QED BY <2>1, <2>2, <2>3, <2>4
<1>8. QED BY <1>6, <1>7 DEF DreMatchesRecords

LEMMA KeptEntry ==
  ASSUME Kept, EntryStep
  PROVE  Calendar' /\ Entries' /\ DreMatchesRecords'
<1>. USE DEF Kept
<1>1. EntryFrame /\ \A e \in Entry : Goes(e) BY EntryMoves DEF EntryGoes
<1>2. Calendar'
  BY <1>1 DEF EntryFrame, Calendar, Closed, Found, Target, LocalMonth
<1>3. \A e \in Entry : PeriodOf[e] \in Period BY EntryAssumption
<1>4. \A e \in Entry :
        PeriodOf[e] \in shut \ opened /\ stage'[e] \in Pending => e \in late
  BY <1>1 DEF Goes, Entries, Calendar, Open
<1>5. ASSUME NEW e \in Purchase
      PROVE  /\ stage'[e] # "new" => Found(PeriodOf[e])
             /\ stage'[e] = "refused" => PeriodOf[e] \in shut \/ e \in lost'
  <2>1. e \in Entry /\ Goes(e) BY <1>1, EntryAssumption
  <2>2. lost \subseteq lost' BY <1>1 DEF EntryFrame
  <2>3. QED BY <1>3, <2>1, <2>2 DEF Goes, Entries, Calendar, Open
<1>6. Entries' BY <1>1, <1>4, <1>5 DEF Entries, EntryFrame, Found
<1>7. ASSUME NEW p \in Period \ opened, dre[p] # <<>>
      PROVE  Head(dre[p]) \ late = Statement(p)' \ late
  <2>1. p \in shut \ opened BY <1>7 DEF Calendar
  <2>2. \A e \in Entry : PeriodOf[e] = p /\ Realized(e)' # Realized(e) => e \in late
    BY <1>1, <2>1 DEF Goes, Entries
  <2>3. Statement(p)' \ late = Statement(p) \ late BY <2>2 DEF Statement
  <2>4. QED BY <1>7, <2>3 DEF DreMatchesRecords
<1>8. DreMatchesRecords' BY <1>1, <1>7 DEF DreMatchesRecords, EntryFrame
<1>9. QED BY <1>2, <1>6, <1>8

LEMMA KeptStep ==
  ASSUME Kept, [Next]_vars
  PROVE  Kept'
<1>1. TypeOK' BY TypeStep DEF Kept
<1>2. CASE MonthStep
  BY <1>1, <1>2, CalendarMonth, EntriesMonth DEF Kept
<1>3. CASE EntryStep BY <1>1, <1>3, KeptEntry DEF Kept
<1>4. CASE UNCHANGED vars
  BY <1>1, <1>4 DEF vars, system, history, Kept, Calendar, Entries, Closed,
     Found, Target, LocalMonth, DreMatchesRecords, Statement, Realized
<1>5. QED BY <1>2, <1>3, <1>4, NextSteps

LEMMA KeptAlways == Spec => []Kept
<1>1. Init => Kept BY KeptInit
<1>2. Kept /\ [Next]_vars => Kept' BY KeptStep
<1>3. QED BY <1>1, <1>2, PTL DEF Spec
-----------------------------------------------------------------------------
(* The variables keep their types: a job that reports has one church, and  *)
(* no document of a month lies outside the years of the clock.             *)
THEOREM TypeCorrect == Spec => []TypeOK
<1>1. Kept => TypeOK BY DEF Kept
<1>2. QED BY <1>1, KeptAlways, PTL

(* Neither the closing job, run twice or not, nor months generated again   *)
(* open a closed month (CloseFinancialMonth, GenerateFinancialMonths).     *)
THEOREM OpenedByUserOnlyHolds == Spec => OpenedByUserOnly
<1>1. Kept /\ [Next]_vars =>
        [\A p \in Period : Closed(p) /\ ~Closed(p)' => p \in opened']_vars
  <2>. SUFFICES ASSUME Kept, Next, NEW p \in Period, Closed(p), ~ Closed(p)'
                PROVE  p \in opened'
    OBVIOUS
  <2>1. CASE MonthStep BY <2>1, MonthMoves DEF Kept, Moves
  <2>2. CASE EntryStep
    BY <2>2, EntryMoves DEF Kept, EntryGoes, EntryFrame, Closed, Found
  <2>3. QED BY <2>1, <2>2, NextSteps
<1>2. QED BY <1>1, KeptAlways, PTL DEF Spec, OpenedByUserOnly

(* The result stored for a month is what its records say as long as it is  *)
(* closed (DRE.generateAndSaveDRE), but for those validated too early.     *)
THEOREM DreMatchesRecordsHolds == Spec => []DreMatchesRecords
<1>1. Kept => DreMatchesRecords BY DEF Kept
<1>2. QED BY <1>1, KeptAlways, PTL

(* A stored purchase without a record has a cause: its month closed after  *)
(* PurchaseController.record had validated it, or something was lost.      *)
THEOREM PurchaseExplainedHolds == Spec => []PurchaseExplained
<1>1. Kept => PurchaseExplained
  BY DEF Kept, Entries, PurchaseExplained
<1>2. QED BY <1>1, KeptAlways, PTL
-----------------------------------------------------------------------------
(***************************************************************************)
(* Sums over finite sets.                                                  *)
(***************************************************************************)
SumOf(g, S) == SumFunctionOnSet(g, S)

Solves(F, S, g) ==
  F = [s \in SUBSET S |-> IF s = {} THEN 0
                          ELSE LET x == CHOOSE x \in s : TRUE
                               IN  g[x] + F[s \ {x}]]

(* A set of numbers has a least element; a set of finite sets one that     *)
(* contains no other of them.                                              *)
LEMMA NatMin ==
  ASSUME NEW T, T \subseteq Nat, T # {}
  PROVE  \E n \in T : \A m \in T : n =< m
<1>1. PICK n \in T : \A m \in T : ~ (<<m, n>> \in OpToRel(<, Nat))
  BY NatLessThanWellFounded, WFMin
<1>2. \A m \in T : ~ (m < n) BY <1>1 DEF OpToRel
<1>3. QED BY <1>2

(* a finite set with a subset that fails has a smallest one  *)
LEMMA Smallest ==
  ASSUME NEW S, IsFiniteSet(S), NEW Bad, Bad \subseteq SUBSET S, Bad # {}
  PROVE  \E T \in Bad : \A U \in Bad : ~(U \subseteq T /\ U # T)
<1> DEFINE Sizes == {Cardinality(T) : T \in Bad}
<1>1. \A T \in Bad : IsFiniteSet(T) /\ Cardinality(T) \in Nat
  BY FS_Subset, FS_CardinalityType
<1>2. PICK n \in Sizes : \A m \in Sizes : n =< m
  <2>1. Sizes \subseteq Nat /\ Sizes # {} BY <1>1
  <2> HIDE DEF Sizes
  <2>2. QED BY <2>1, NatMin
<1>3. PICK T \in Bad : n = Cardinality(T) OBVIOUS
<1>4. ASSUME NEW U \in Bad, U \subseteq T, U # T PROVE FALSE
  <2>1. Cardinality(U) =< Cardinality(T) /\ Cardinality(U) # Cardinality(T)
    BY <1>1, <1>4, FS_Subset
  <2>2. Cardinality(T) =< Cardinality(U) BY <1>2, <1>3
  <2>3. QED BY <1>1, <2>1, <2>2
<1>5. QED BY <1>4

(* The equation at one set; it has one solution at most, and one at least. *)
LEMMA SolvesAt ==
  ASSUME NEW S, NEW g, NEW F, Solves(F, S, g), NEW s \in SUBSET S
  PROVE  /\ s = {} => F[s] = 0
         /\ s # {} => \E x \in s : x = (CHOOSE y \in s : TRUE) /\ F[s] = g[x] + F[s \ {x}]
<1>1. F[s] = IF s = {} THEN 0 ELSE LET x == CHOOSE x \in s : TRUE IN g[x] + F[s \ {x}]
  BY DEF Solves
<1>2. s # {} => (CHOOSE y \in s : TRUE) \in s OBVIOUS
<1>3. QED BY <1>1, <1>2

LEMMA SolvesUnique ==
  ASSUME NEW S, NEW g, NEW F, Solves(F, S, g),
         NEW T, NEW h, NEW G, Solves(G, T, h),
         NEW U, IsFiniteSet(U), U \subseteq S, U \subseteq T,
         \A x \in U : g[x] = h[x]
  PROVE  F[U] = G[U]
<1> DEFINE Bad == {s \in SUBSET U : F[s] # G[s]}
<1>1. SUFFICES ASSUME Bad # {} PROVE FALSE OBVIOUS
<1>2. PICK s \in Bad : \A u \in Bad : ~(u \subseteq s /\ u # s)
  <2>1. Bad \subseteq SUBSET U OBVIOUS
  <2> HIDE DEF Bad
  <2>2. QED BY <1>1, <2>1, Smallest
<1>3. s \in SUBSET S /\ s \in SUBSET T /\ F[s] # G[s] OBVIOUS
<1>4. s # {} BY <1>3, SolvesAt
<1>5. PICK x \in s : x = (CHOOSE y \in s : TRUE) /\ F[s] = g[x] + F[s \ {x}]
  BY <1>3, <1>4, SolvesAt
<1>6. G[s] = h[x] + G[s \ {x}]
  <2>1. PICK y \in s : y = (CHOOSE z \in s : TRUE) /\ G[s] = h[y] + G[s \ {y}]
    BY <1>3, <1>4, SolvesAt
  <2>2. QED BY <1>5, <2>1
<1>7. F[s \ {x}] = G[s \ {x}] BY <1>2
<1>8. QED BY <1>3, <1>5, <1>6, <1>7

LEMMA SolvesExists ==
  ASSUME NEW S, IsFiniteSet(S), NEW g
  PROVE  \E F : Solves(F, S, g)
<1> DEFINE Bad == {T \in SUBSET S : \A F : ~Solves(F, T, g)}
<1>1. SUFFICES ASSUME Bad # {} PROVE FALSE OBVIOUS
<1>2. PICK T \in Bad : \A U \in Bad : ~(U \subseteq T /\ U # T)
  <2>1. Bad \subseteq SUBSET S OBVIOUS
  <2> HIDE DEF Bad
  <2>2. QED BY <1>1, <2>1, Smallest
<1> DEFINE Of(U) == CHOOSE F : Solves(F, U, g)
           F == [s \in SUBSET T |-> IF s = {} THEN 0
                   ELSE LET x == CHOOSE x \in s : TRUE
                        IN  g[x] + Of(s \ {x})[s \ {x}]]
<1>3. ASSUME NEW U \in SUBSET T, U # T PROVE Solves(Of(U), U, g)
  <2>1. U \notin Bad BY <1>2, <1>3
  <2>2. \E G : Solves(G, U, g) BY <2>1
  <2>3. QED BY <2>2
<1> HIDE DEF Of
<1>4. ASSUME NEW s \in SUBSET T, s # T PROVE F[s] = Of(s)[s]
  <2>1. Solves(Of(s), s, g) BY <1>3, <1>4
  <2>2. CASE s = {} BY <2>1, <2>2, SolvesAt
  <2>3. CASE s # {}
    <3>1. PICK x \in s : x = (CHOOSE y \in s : TRUE)
                         /\ Of(s)[s] = g[x] + Of(s)[s \ {x}]
      BY <2>1, <2>3, SolvesAt
    <3>2. s \ {x} # T /\ s \ {x} \in SUBSET T OBVIOUS
    <3>3. Solves(Of(s \ {x}), s \ {x}, g) BY <1>3, <3>2
    <3>4. IsFiniteSet(s \ {x}) BY FS_Subset
    <3>5. Of(s)[s \ {x}] = Of(s \ {x})[s \ {x}]
      BY <2>1, <3>3, <3>4, SolvesUnique
    <3>6. F[s] = g[x] + Of(s \ {x})[s \ {x}] BY <2>3, <3>1
    <3>7. QED BY <3>1, <3>5, <3>6
  <2>4. QED BY <2>2, <2>3
<1>5. ASSUME NEW s \in SUBSET T, s # {}
      PROVE  LET x == CHOOSE x \in s : TRUE
             IN  g[x] + Of(s \ {x})[s \ {x}] = g[x] + F[s \ {x}]
  <2>1. (CHOOSE x \in s : TRUE) \in s BY <1>5
  <2> DEFINE u == s \ {CHOOSE x \in s : TRUE}
  <2>2. u \in SUBSET T /\ u # T BY <2>1
  <2> HIDE DEF u, F
  <2>3. F[u] = Of(u)[u] BY <1>4, <2>2
  <2>4. QED BY <2>3 DEF u
<1>6. Solves(F, T, g)
  <2>1. ASSUME NEW s \in SUBSET T
        PROVE  F[s] = IF s = {} THEN 0
                      ELSE LET x == CHOOSE x \in s : TRUE
                           IN  g[x] + F[s \ {x}]
    <3>1. F[s] = IF s = {} THEN 0
                 ELSE LET x == CHOOSE x \in s : TRUE
                      IN  g[x] + Of(s \ {x})[s \ {x}]
      OBVIOUS
    <3> HIDE DEF F
    <3>2. QED BY <1>5, <3>1
  <2>2. F = [s \in SUBSET T |-> F[s]] OBVIOUS
  <2> HIDE DEF F
  <2>3. QED BY <2>1, <2>2 DEF Solves
<1>7. QED BY <1>6

(* SumFunctionOnSet is the solution of the equation.                          *)
LEMMA SumIs ==
  ASSUME NEW S, IsFiniteSet(S), NEW g
  PROVE  \E F : Solves(F, S, g) /\ SumOf(g, S) = F[S]
<1> DEFINE Eq(F) == F = [s \in SUBSET S |-> IF s = {} THEN 0
                          ELSE LET x == CHOOSE x \in s : TRUE
                               IN  g[x] + F[s \ {x}]]
           G == CHOOSE F : Eq(F)
<1>1. PICK F : Eq(F)
  <2>1. PICK H : Solves(H, S, g) BY SolvesExists
  <2>2. Eq(H) BY <2>1 DEF Solves
  <2> HIDE DEF Eq
  <2>3. QED BY <2>2
<1>2. Eq(G) BY <1>1
<1>3. SumOf(g, S) = G[S] BY <1>2 DEF SumOf, SumFunctionOnSet, FoldFunctionOnSet, MapThenFoldSet
<1> HIDE DEF G
<1>4. Solves(G, S, g) BY <1>2 DEF Solves
<1>5. QED BY <1>3, <1>4

(* The sum over no element, and over what two functions agree on.          *)
LEMMA SumEmpty == \A g : SumOf(g, {}) = 0
<1> SUFFICES ASSUME NEW g PROVE SumOf(g, {}) = 0 OBVIOUS
<1>1. IsFiniteSet({}) BY FS_EmptySet
<1>2. PICK F : Solves(F, {}, g) /\ SumOf(g, {}) = F[{}] BY <1>1, SumIs
<1>3. QED BY <1>2, SolvesAt

LEMMA SumStep ==
  ASSUME NEW S, IsFiniteSet(S), S # {}, NEW g
  PROVE  \E x \in S : /\ x = (CHOOSE y \in S : TRUE)
                     /\ SumOf(g, S) = g[x] + SumOf(g, S \ {x})
<1>1. PICK F : Solves(F, S, g) /\ SumOf(g, S) = F[S] BY SumIs
<1>2. PICK x \in S : /\ x = (CHOOSE y \in S : TRUE)
                    /\ F[S] = g[x] + F[S \ {x}]
  BY <1>1, SolvesAt
<1>3. IsFiniteSet(S \ {x}) BY FS_RemoveElement
<1>4. PICK G : Solves(G, S \ {x}, g) /\ SumOf(g, S \ {x}) = G[S \ {x}]
  BY <1>3, SumIs
<1>5. F[S \ {x}] = G[S \ {x}] BY <1>1, <1>3, <1>4, SolvesUnique
<1>6. QED BY <1>1, <1>2, <1>4, <1>5

(* A sum of integers is an integer.                                        *)
LEMMA SumType ==
  ASSUME NEW S, IsFiniteSet(S), NEW g, \A x \in S : g[x] \in Int
  PROVE  SumOf(g, S) \in Int
<1> DEFINE Bad == {T \in SUBSET S : SumOf(g, T) \notin Int}
<1>1. SUFFICES ASSUME Bad # {} PROVE FALSE OBVIOUS
<1>2. PICK T \in Bad : \A U \in Bad : ~(U \subseteq T /\ U # T)
  <2>1. Bad \subseteq SUBSET S OBVIOUS
  <2> HIDE DEF Bad
  <2>2. QED BY <1>1, <2>1, Smallest
<1>3. T # {} BY SumEmpty
<1>4. IsFiniteSet(T) BY FS_Subset
<1>5. PICK x \in T : SumOf(g, T) = g[x] + SumOf(g, T \ {x}) BY <1>3, <1>4, SumStep
<1>6. SumOf(g, T \ {x}) \in Int BY <1>2
<1>7. QED BY <1>5, <1>6

(* The sum of a difference is the difference of the sums.                  *)
LEMMA SumMinus ==
  ASSUME NEW S, IsFiniteSet(S), NEW f, NEW g, NEW h,
         \A x \in S : f[x] \in Int /\ g[x] \in Int /\ h[x] = f[x] - g[x]
  PROVE  SumOf(h, S) = SumOf(f, S) - SumOf(g, S)
<1> DEFINE Bad == {T \in SUBSET S : SumOf(h, T) # SumOf(f, T) - SumOf(g, T)}
<1>1. SUFFICES ASSUME Bad # {} PROVE FALSE OBVIOUS
<1>2. PICK T \in Bad : \A U \in Bad : ~(U \subseteq T /\ U # T)
  <2>1. Bad \subseteq SUBSET S OBVIOUS
  <2> HIDE DEF Bad
  <2>2. QED BY <1>1, <2>1, Smallest
<1>3. SumOf(f, {}) = 0 /\ SumOf(g, {}) = 0 /\ SumOf(h, {}) = 0 BY SumEmpty
<1>4. T # {} BY <1>3
<1>5. IsFiniteSet(T) BY FS_Subset
<1> DEFINE x == CHOOSE y \in T : TRUE
<1>6. /\ SumOf(f, T) = f[x] + SumOf(f, T \ {x})
      /\ SumOf(g, T) = g[x] + SumOf(g, T \ {x})
      /\ SumOf(h, T) = h[x] + SumOf(h, T \ {x})
      /\ x \in T
  BY <1>4, <1>5, SumStep
<1>7. T \ {x} \in SUBSET S /\ T \ {x} # T BY <1>6
<1>8. SumOf(h, T \ {x}) = SumOf(f, T \ {x}) - SumOf(g, T \ {x})
  BY <1>2, <1>7
<1>9. SumOf(f, T \ {x}) \in Int /\ SumOf(g, T \ {x}) \in Int
  <2>1. IsFiniteSet(T \ {x}) BY <1>5, FS_RemoveElement
  <2>2. QED BY <2>1, SumType
<1>10. x \in S /\ SumOf(h, T) # SumOf(f, T) - SumOf(g, T) BY <1>6
<1> HIDE DEF x, Bad
<1>11. f[x] \in Int /\ g[x] \in Int /\ h[x] = f[x] - g[x] BY <1>10
<1>12. QED BY <1>6, <1>8, <1>9, <1>10, <1>11
-----------------------------------------------------------------------------
(* The figures of a statement are numbers, and so is each line of the DRE. *)
LEMMA FiguresAreNumbers ==
  ASSUME NEW st \in Statements, NEW s \in Symbol, NEW c \in StatementCategory
  PROVE  /\ st[<<c, s>>].income \in Int /\ st[<<c, s>>].expenses \in Int
         /\ st[<<c, s>>].reversal \in Int
<1>1. st \in [Heading -> Figures] BY StatementsAssumption
<1>2. <<c, s>> \in Heading BY DEF Heading
<1>3. st[<<c, s>>] \in Figures BY <1>1, <1>2
<1>4. QED BY <1>3 DEF Figures

LEMMA CurrencyAgrees ==
  ASSUME NEW st \in Statements, NEW s \in Symbol
  PROVE  /\ SameResult(st, s) /\ BreakdownAddsUp(st, s)
         /\ \A k \in Line : Accumulator(st, s)[k] \in Int
<1>1. \A c \in StatementCategory :
        /\ st[<<c, s>>].income \in Int /\ st[<<c, s>>].expenses \in Int
        /\ st[<<c, s>>].reversal \in Int
  BY FiguresAreNumbers
<1> DEFINE in(c)  == st[<<c, s>>].income
           out(c) == st[<<c, s>>].expenses
           rev(c) == st[<<c, s>>].reversal
<1>2. /\ in("REVENUE") \in Int /\ out("REVENUE") \in Int /\ rev("REVENUE") \in Int
      /\ in("COGS") \in Int /\ out("COGS") \in Int /\ rev("COGS") \in Int
      /\ in("OPEX") \in Int /\ out("OPEX") \in Int /\ rev("OPEX") \in Int
      /\ in("MINISTRY_TRANSFERS") \in Int /\ out("MINISTRY_TRANSFERS") \in Int
      /\ rev("MINISTRY_TRANSFERS") \in Int
      /\ in("CAPEX") \in Int /\ out("CAPEX") \in Int /\ rev("CAPEX") \in Int
      /\ in("OTHER") \in Int /\ out("OTHER") \in Int /\ rev("OTHER") \in Int
  BY <1>1 DEF StatementCategory
<1>3. NetResult(Accumulator(st, s))
        = in("REVENUE") - out("REVENUE") - (out("COGS") - in("COGS"))
          - (out("OPEX") - in("OPEX"))
          - (out("MINISTRY_TRANSFERS") - in("MINISTRY_TRANSFERS"))
          + (in("OTHER") - out("OTHER")) - out("CAPEX")
  BY DEF NetResult, OperationalResult, Accumulator, Net, Cost
<1>4. TotalIncome(st, s) =
        in("REVENUE") - rev("REVENUE") + (in("COGS") - rev("COGS"))
        + (in("OPEX") - rev("OPEX"))
        + (in("MINISTRY_TRANSFERS") - rev("MINISTRY_TRANSFERS"))
        + (in("CAPEX") - rev("CAPEX")) + (in("OTHER") - rev("OTHER"))
  BY DEF TotalIncome, SumCategories
<1>5. TotalExpenses(st, s) =
        out("REVENUE") + out("COGS") + out("OPEX") + out("MINISTRY_TRANSFERS")
        + out("CAPEX") + out("OTHER")
  BY DEF TotalExpenses, SumCategories
<1>6. Reversals(st, s) =
        rev("REVENUE") + rev("COGS") + rev("OPEX") + rev("MINISTRY_TRANSFERS")
        + rev("CAPEX") + rev("OTHER")
  BY DEF Reversals, SumCategories
<1>7. SumCategories(LAMBDA c : CategoryNet(st, c, s)) =
        in("REVENUE") - rev("REVENUE") - out("REVENUE")
        + (in("COGS") - rev("COGS") - out("COGS"))
        + (in("OPEX") - rev("OPEX") - out("OPEX"))
        + (in("MINISTRY_TRANSFERS") - rev("MINISTRY_TRANSFERS")
             - out("MINISTRY_TRANSFERS"))
        + (in("CAPEX") - rev("CAPEX") - out("CAPEX"))
        + (in("OTHER") - rev("OTHER") - out("OTHER"))
  BY DEF SumCategories, CategoryNet
<1>8. \A k \in Line : Accumulator(st, s)[k] \in Int
  BY <1>2 DEF Line, Accumulator, Net, Cost
<1>9. st[<<"CAPEX", s>>].income = in("CAPEX") OBVIOUS
<1> HIDE DEF in, out, rev
<1>10. SameResult(st, s)
  BY <1>2, <1>3, <1>4, <1>5, <1>6, <1>9 DEF SameResult, NetIncome
<1>11. BreakdownAddsUp(st, s)
  BY <1>2, <1>4, <1>5, <1>7 DEF BreakdownAddsUp, NetIncome
<1>12. QED BY <1>8, <1>10, <1>11

(* The result is a difference five times over.                             *)
LEMMA CurrenciesAddUp ==
  ASSUME NEW st \in Statements
  PROVE  GlobalAddsUp(st)
<1> DEFINE L(k) == [s \in Symbol |-> Accumulator(st, s)[k]]
           a == L("grossRevenue")
           b == L("directCosts")
           c == L("operationalExpenses")
           d == L("ministryTransfers")
           e == L("extraordinaryResults")
           f == L("capexInvestments")
           ab == [s \in Symbol |-> a[s] - b[s]]
           abc == [s \in Symbol |-> ab[s] - c[s]]
           abcd == [s \in Symbol |-> abc[s] - d[s]]
           abcde == [s \in Symbol |-> abcd[s] + e[s]]
           all == [s \in Symbol |-> abcde[s] - f[s]]
           net == [s \in Symbol |-> NetResult(Accumulator(st, s))]
<1>1. \A s \in Symbol : /\ a[s] \in Int /\ b[s] \in Int /\ c[s] \in Int
                        /\ d[s] \in Int /\ e[s] \in Int /\ f[s] \in Int
  BY CurrencyAgrees DEF Line
<1>2. net = all
  <2>1. ASSUME NEW s \in Symbol PROVE net[s] = all[s]
    <3> DEFINE acc == Accumulator(st, s)
    <3>1. /\ a[s] = acc.grossRevenue /\ b[s] = acc.directCosts
          /\ c[s] = acc.operationalExpenses /\ d[s] = acc.ministryTransfers
          /\ e[s] = acc.extraordinaryResults /\ f[s] = acc.capexInvestments
      OBVIOUS
    <3>2. net[s] = NetResult(acc) OBVIOUS
    <3> HIDE DEF acc, a, b, c, d, e, f, net
    <3>3. all[s] = a[s] - b[s] - c[s] - d[s] + e[s] - f[s]
      <4>1. /\ ab[s] = a[s] - b[s] /\ abc[s] = ab[s] - c[s]
            /\ abcd[s] = abc[s] - d[s] /\ abcde[s] = abcd[s] + e[s]
            /\ all[s] = abcde[s] - f[s]
        OBVIOUS
      <4> HIDE DEF ab, abc, abcd, abcde, all
      <4>2. QED BY <1>1, <4>1
    <3>4. QED BY <3>1, <3>2, <3>3 DEF NetResult, OperationalResult
  <2>2. QED BY <2>1
<1> DEFINE Tot(g) == SumOf(g, Symbol)
<1>3. \A k \in Line : GlobalAccumulator(st)[k] = Tot(L(k))
  BY DEF GlobalAccumulator, SumFunction, SumOf
<1>4. NetResult(GlobalAccumulator(st))
        = Tot(a) - Tot(b) - Tot(c) - Tot(d) + Tot(e) - Tot(f)
  BY <1>3 DEF Line, NetResult, OperationalResult
<1>5. SumFunction(net) = Tot(net) BY DEF SumFunction, SumOf
<1> HIDE DEF L, a, b, c, d, e, f
<1>6. /\ \A s \in Symbol : ab[s] \in Int /\ ab[s] = a[s] - b[s]
      /\ \A s \in Symbol : abc[s] \in Int /\ abc[s] = ab[s] - c[s]
      /\ \A s \in Symbol : abcd[s] \in Int /\ abcd[s] = abc[s] - d[s]
      /\ \A s \in Symbol : abcde[s] \in Int /\ e[s] = abcde[s] - abcd[s]
      /\ \A s \in Symbol : all[s] \in Int /\ all[s] = abcde[s] - f[s]
  BY <1>1
<1> HIDE DEF ab, abc, abcd, abcde, all, net
<1>7. /\ SumOf(ab, Symbol) = SumOf(a, Symbol) - SumOf(b, Symbol)
      /\ SumOf(abc, Symbol) = SumOf(ab, Symbol) - SumOf(c, Symbol)
      /\ SumOf(abcd, Symbol) = SumOf(abc, Symbol) - SumOf(d, Symbol)
      /\ SumOf(e, Symbol) = SumOf(abcde, Symbol) - SumOf(abcd, Symbol)
      /\ SumOf(all, Symbol) = SumOf(abcde, Symbol) - SumOf(f, Symbol)
  BY <1>1, <1>6, SumMinus, SymbolAssumption
<1>8. /\ Tot(a) \in Int /\ Tot(b) \in Int /\ Tot(c) \in Int
      /\ Tot(d) \in Int /\ Tot(e) \in Int /\ Tot(f) \in Int
      /\ Tot(abcd) \in Int /\ Tot(abcde) \in Int
  BY <1>1, <1>6, SumType, SymbolAssumption
<1>9. Tot(all) = Tot(a) - Tot(b) - Tot(c) - Tot(d) + Tot(e) - Tot(f)
  BY <1>7, <1>8
<1>10. NetResult(GlobalAccumulator(st)) = SumFunction(net)
  BY <1>2, <1>4, <1>5, <1>9
<1>11. QED BY <1>10 DEF GlobalAddsUp, net

(* DRE.generateDRE and IncomeStatement.execute agree on every statement,   *)
(* whatever its figures and for any number of currencies, up to reversals  *)
(* and what comes in under CAPEX; the currencies and the categories add up.*)
THEOREM ReportsAlwaysAgree == ReportsReconcile /\ (Spec => []ReportsAgree)
<1>1. ReportsReconcile
  BY CurrencyAgrees, CurrenciesAddUp DEF ReportsReconcile
<1>2. ReportsAgree BY <1>1 DEF ReportsAgree
<1>3. QED BY <1>1, <1>2, PTL
===============================================================================
