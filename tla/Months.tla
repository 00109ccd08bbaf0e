-------------------------------- MODULE Months --------------------------------
(***************************************************************************)
(* The financial months: who may still write in a month, the job that      *)
(* closes it and stores its result (the DRE), and the purchases and the    *)
(* records that look at the month before they are stored.                  *)
(*                                                                         *)
(* Months are counted from 0 in January of the first year.  The closing    *)
(* job runs at 23:30 in Sao Paulo, but asks the machine for the month: a   *)
(* machine that keeps UTC is then already in the next one (`ahead').       *)
(***************************************************************************)
EXTENDS Integers, Sequences

CONSTANTS
  Church,         \* the churches
  Entry,          \* records that may be entered
  Purchase,       \* those that come from a purchase
  PeriodOf,       \* church and month of an entry's date
  MonthsPerYear,  \* 12; fewer in small instances
  MaxTime,        \* bound: the last month of the clock
  UserPeriod,     \* bound: the periods that users close and open
  MaxRequests,    \* bound: months closed, opened or generated by users, or
                  \* generated on the other nights of December
  MaxTroubles     \* bound: lost dispatches, crashes, database errors

YearEnd == (MaxTime \div MonthsPerYear + 2) * MonthsPerYear - 1
Time    == 0..YearEnd
Period  == Church \X Time

ASSUME YearAssumption ==
  /\ MonthsPerYear \in Nat \ {0}
  /\ MaxTime \in Nat
ASSUME EntryAssumption ==
  /\ Purchase \subseteq Entry
  /\ PeriodOf \in [Entry -> Period]
  /\ UserPeriod \subseteq Period
ASSUME BoundAssumption == {MaxRequests, MaxTroubles} \subseteq Nat

(* How far an entry is: a purchase is seen and saved before the job of its *)
(* record is queued; the record is checked against its month, stored, and  *)
(* perhaps cancelled, which a second job completes or fails to (`stuck').  *)
Stage == {"new", "seen", "saved", "queued", "checked", "stored",
          "cancelled", "voiding", "void", "stuck", "refused"}

(* A purchase is `bare' once its invoice is deleted from the storage.      *)
Document == {"none", "kept", "bare", "deleted"}

(* DREMaster: the entries that the stored result counts.                   *)
Dre == SUBSET Entry

VARIABLES
  ahead,    \* 1 if the machine's clock is a month ahead at 23:30
  clock,    \* the month in Sao Paulo
  month,    \* financial_months: per period, the documents' `closed' flags
  dre,      \* dre_masters: per period, the entries each document counts
  night,    \* the job of the last night of the month
  stage,    \* how far each entry is
  purchase, \* purchases and their invoices
  late,     \* history: entries validated before their month closed and not
            \* written yet
  shut,     \* history: periods that were closed at some time
  opened,   \* history: periods that a user opened
  lost,     \* history: entries lost by a failed request, dispatch or job
  disturbed,\* history: a closing job failed or ran twice
  used      \* how much of each bound is spent

system  == <<ahead, clock, month, dre, night>>
history == <<late, shut, opened, lost, disturbed>>
vars == <<system, stage, purchase, history, used>>

(* The job of the last night: the churches left and the one whose month is *)
(* closed and not reported yet.                                            *)
Phase == {"waiting", "closing", "reporting", "done"}
Night == [phase : Phase, todo : SUBSET Church, at : SUBSET Church]
Waiting == [phase |-> "waiting", todo |-> {}, at |-> {}]
Ended   == [phase |-> "done", todo |-> {}, at |-> {}]

TypeOK ==
  /\ ahead \in {0, 1}
  /\ clock \in 0..MaxTime
  /\ month \in [Period -> Seq(BOOLEAN)]
  /\ dre \in [Period -> Seq(Dre)]
  /\ night \in Night
  /\ IF night.phase = "reporting" THEN \E c \in Church : night.at = {c}
                                  ELSE night.at = {}
  /\ stage \in [Entry -> Stage]
  /\ purchase \in [Purchase -> Document]
  /\ late \subseteq Entry /\ lost \subseteq Entry
  /\ shut \subseteq Period /\ opened \subseteq Period
  /\ disturbed \in BOOLEAN
  /\ used \in [requests : 0..MaxRequests, troubles : 0..MaxTroubles]

Init ==
  /\ ahead \in {0, 1}
  /\ clock = 0
  /\ \E ready \in SUBSET Church :
       month = [p \in Period |->
                  IF p[1] \in ready /\ p[2] < MonthsPerYear
                  THEN <<FALSE>> ELSE <<>>]
  /\ dre = [p \in Period |-> <<>>]
  /\ night = Waiting
  /\ stage = [e \in Entry |-> "new"]
  /\ purchase = [e \in Purchase |-> "none"]
  /\ late = {} /\ lost = {} /\ shut = {} /\ opened = {}
  /\ disturbed = FALSE
  /\ used = [requests |-> 0, troubles |-> 0]
-----------------------------------------------------------------------------
(* FinancialYearMongoRepository.one: the first of the documents.           *)
Found(p)  == month[p] # <<>>
Closed(p) == Found(p) /\ Head(month[p])

(* Variant with a bug: the validator only looks for the month.             *)
OpenOrClosed(p) == Found(p)

(* FinancialMonthValidator.                                                *)
Open(p) == Found(p) /\ ~Closed(p)

(* UpdateFinancialMonth: the document that was found is replaced.          *)
WithFlag(p, closed) == [month EXCEPT ![p][1] = closed]

(* Variant with a bug: an upsert by financialMonthId.                      *)
GeneratedAnew(churches, year) ==
  [p \in Period |->
     IF p[1] \in churches /\ p[2] \div MonthsPerYear = year
     THEN <<FALSE>> ELSE month[p]]

(* GenerateFinancialMonths: create gives no database id, so every upsert   *)
(* inserts a document, behind those of the same month.                     *)
Generated(churches, year) ==
  [p \in Period |->
     IF p[1] \in churches /\ p[2] \div MonthsPerYear = year
     THEN Append(month[p], FALSE) ELSE month[p]]
Realized(e) == stage[e] \in {"stored", "cancelled", "voiding", "stuck"}

(* fetchStatementCategories: what the aggregation of a month counts.       *)
Statement(p) == {e \in Entry : PeriodOf[e] = p /\ Realized(e)}

Spend(kind) ==
  used' = [used EXCEPT ![kind] = @ + 1]

Request ==
  /\ used.requests < MaxRequests
  /\ Spend("requests")

Trouble ==
  /\ used.troubles < MaxTroubles
  /\ Spend("troubles")

Move(e, s) == stage' = [stage EXCEPT ![e] = s]

(* What is validated and not written yet when a month closes.              *)
Overtaken(p) ==
  late' = late \union
            {e \in Entry : PeriodOf[e] = p /\ stage[e] \in {"checked", "voiding"}}
-----------------------------------------------------------------------------
(* FinancialMonthController: a user closes or opens a month, or generates  *)
(* the months of a year for all churches; the loop may fail half-way.      *)
UpdateFinancialMonth(p, closed) ==
  /\ Request
  /\ Found(p)
  /\ month' = WithFlag(p, closed)
  /\ IF closed THEN Overtaken(p) /\ shut' = shut \union {p} /\ UNCHANGED opened
               ELSE opened' = opened \union {p} /\ UNCHANGED <<late, shut>>
  /\ UNCHANGED <<ahead, clock, dre, night, stage, purchase, lost, disturbed>>

Generate(churches, year) ==
  /\ Request
  /\ month' = Generated(churches, year)
  /\ UNCHANGED <<ahead, clock, dre, night, stage, purchase, history>>

MonthRequest ==
  \/ \E p \in UserPeriod, closed \in BOOLEAN : UpdateFinancialMonth(p, closed)
  \/ \E churches \in SUBSET Church : Generate(churches, clock \div MonthsPerYear)
-----------------------------------------------------------------------------
(* CloseFinancialMonth, at the last night of the month.  Both getMonth()   *)
(* and the month to close are taken from the machine; getMonth() counts    *)
(* from 0, months from 1, so the month closed is the one before, and none  *)
(* in January.                                                             *)
LocalMonth == clock + ahead
NothingToClose == LocalMonth % MonthsPerYear = 0
Target == LocalMonth - 1

IsDecember == LocalMonth % MonthsPerYear = MonthsPerYear - 1
NextYear   == LocalMonth \div MonthsPerYear + 1

CloseStart ==
  /\ night.phase = "waiting"
  /\ night' = [phase |-> "closing", todo |-> Church, at |-> {}]
  /\ UNCHANGED <<ahead, clock, month, dre, stage, purchase, history, used>>

(* Variant with a bug: closing a month that is closed throws as well.      *)
AbortsIfClosed(c) ==
  NothingToClose \/ ~Found(<<c, Target>>) \/ Closed(<<c, Target>>)

(* CloseFinancialMonthService: a missing month throws and ends the job,    *)
(* the other churches and December's generation included.                  *)
Aborts(c) == NothingToClose \/ ~Found(<<c, Target>>)

CloseMonth(c) ==
  /\ night.phase = "closing" /\ c \in night.todo
  /\ IF Aborts(c)
     THEN /\ night' = Ended
          /\ UNCHANGED <<month, shut, late>>
     ELSE /\ month' = WithFlag(<<c, Target>>, TRUE)
          /\ shut' = shut \union {<<c, Target>>}
          /\ Overtaken(<<c, Target>>)
          /\ night' = [phase |-> "reporting", todo |-> night.todo \ {c},
                       at |-> {c}]
  /\ UNCHANGED <<ahead, clock, dre, stage, purchase, opened, lost, disturbed,
                 used>>

(* DRE.generateAndSaveDRE: the document has no database id, so it is added *)
(* to those the month already has.                                         *)
SaveDre(c) ==
  /\ night.phase = "reporting" /\ c \in night.at
  /\ dre' = [dre EXCEPT ![<<c, Target>>] = Append(@, Statement(<<c, Target>>))]
  /\ night' = [night EXCEPT !.phase = "closing", !.at = {}]
  /\ UNCHANGED <<ahead, clock, month, stage, purchase, history, used>>

(* All churches are closed: in December the months of the next year are    *)
(* generated, as on every other night of December (NightGenerates).        *)
CloseEnd ==
  /\ night.phase = "closing" /\ night.todo = {}
  /\ night' = Ended
  /\ month' = IF IsDecember THEN Generated(Church, NextYear) ELSE month
  /\ UNCHANGED <<ahead, clock, dre, stage, purchase, history, used>>

NightGenerates ==
  /\ clock % MonthsPerYear = MonthsPerYear - 1 /\ night.phase = "waiting"
  /\ Request
  /\ month' = Generated(Church, clock \div MonthsPerYear + 1)
  /\ UNCHANGED <<ahead, clock, dre, night, stage, purchase, history>>

(* The process dies while the job runs and the queue gives it out again,   *)
(* or the database fails and it is not tried again.                        *)
CloseInterrupted ==
  /\ night.phase \in {"closing", "reporting"}
  /\ Trouble
  /\ night' \in {Waiting, Ended}
  /\ disturbed' = TRUE
  /\ UNCHANGED <<ahead, clock, month, dre, stage, purchase, late, shut, opened,
                 lost>>

CloseStep ==
  \/ CloseStart
  \/ \E c \in Church : CloseMonth(c) \/ SaveDre(c)
  \/ CloseEnd

(* The half hour from 23:30 is enough for the job.                         *)
Tick ==
  /\ clock < MaxTime /\ night.phase = "done"
  /\ clock' = clock + 1
  /\ night' = Waiting
  /\ UNCHANGED <<ahead, month, dre, stage, purchase, history, used>>
-----------------------------------------------------------------------------
(* Variant with a bug: the controller leaves the month to the job.         *)
PurchaseCheckBlind(e) ==
  /\ stage[e] = "new"
  /\ Move(e, "seen")
  /\ UNCHANGED <<system, purchase, history, used>>

(* PurchaseController.record: the month is validated and the invoice       *)
(* uploaded, the purchase is stored, and the job of its record dispatched. *)
(* A failure after the upsert deletes the invoice of the stored purchase.  *)
PurchaseCheck(e) ==
  /\ stage[e] = "new"
  /\ Open(PeriodOf[e])
  /\ Move(e, "seen")
  /\ UNCHANGED <<system, purchase, history, used>>

PurchaseSave(e) ==
  /\ stage[e] = "seen"
  /\ Move(e, "saved")
  /\ purchase' = [purchase EXCEPT ![e] = "kept"]
  /\ UNCHANGED <<system, history, used>>

PurchaseDispatch(e) ==
  /\ stage[e] = "saved"
  /\ Move(e, "queued")
  /\ UNCHANGED <<system, purchase, history, used>>

Lose(e) ==
  /\ Move(e, "refused")
  /\ lost' = lost \union {e}
  /\ UNCHANGED <<late, shut, opened, disturbed>>

PurchaseFails(e) ==
  /\ stage[e] = "saved"
  /\ Trouble
  /\ Lose(e)
  /\ purchase' = [purchase EXCEPT ![e] = "bare"]
  /\ UNCHANGED system

(* Any other record: its job is dispatched.                                *)
Dispatch(e) ==
  /\ stage[e] = "new"
  /\ Move(e, "queued")
  /\ UNCHANGED <<system, purchase, history, used>>

(* CreateFinancialRecordJob, one at a time: the month is validated again;  *)
(* a missing or closed month fails the job, which is not tried again.      *)
CreateCheck(e) ==
  /\ stage[e] = "queued"
  /\ \A o \in Entry : stage[o] # "checked"
  /\ Move(e, IF Open(PeriodOf[e]) THEN "checked" ELSE "refused")
  /\ UNCHANGED <<system, purchase, history, used>>

CreateStore(e) ==
  /\ stage[e] = "checked"
  /\ Move(e, "stored")
  /\ UNCHANGED <<system, purchase, history, used>>

(* A dispatch that does not reach the queue, a job that the database       *)
(* fails: nothing is tried again.                                          *)
CreateLost(e) ==
  /\ stage[e] \in {"queued", "checked"}
  /\ Trouble
  /\ Lose(e)
  /\ UNCHANGED <<system, purchase>>

(* CancelFinancialRecord validates the month and leaves VOID to a job that *)
(* validates it again, and the purchase to a job that deletes it.          *)
Cancel(e) ==
  /\ stage[e] = "stored"
  /\ Open(PeriodOf[e])
  /\ Move(e, "cancelled")
  /\ UNCHANGED <<system, purchase, history, used>>

VoidCheck(e) ==
  /\ stage[e] = "cancelled"
  /\ \A o \in Entry : stage[o] # "voiding"
  /\ Move(e, IF Open(PeriodOf[e]) THEN "voiding" ELSE "stuck")
  /\ UNCHANGED <<system, purchase, history, used>>

VoidStore(e) ==
  /\ stage[e] = "voiding"
  /\ Move(e, "void")
  /\ UNCHANGED <<system, purchase, history, used>>

VoidLost(e) ==
  /\ stage[e] \in {"cancelled", "voiding"}
  /\ Trouble
  /\ Move(e, "stuck")
  /\ UNCHANGED <<system, purchase, history>>

(* DeletePurchasesJob: the invoice, then the purchase.                     *)
DeleteInvoice(e) ==
  /\ stage[e] \in {"cancelled", "voiding", "void", "stuck"}
  /\ purchase[e] = "kept"
  /\ purchase' = [purchase EXCEPT ![e] = "bare"]
  /\ UNCHANGED <<system, stage, history, used>>

DeletePurchase(e) ==
  /\ stage[e] \in {"cancelled", "voiding", "void", "stuck"}
  /\ purchase[e] = "bare"
  /\ purchase' = [purchase EXCEPT ![e] = "deleted"]
  /\ UNCHANGED <<system, stage, history, used>>

PurchaseStep ==
  \E e \in Purchase :
    \/ PurchaseCheck(e) \/ PurchaseSave(e) \/ PurchaseDispatch(e)
    \/ PurchaseFails(e) \/ DeleteInvoice(e) \/ DeletePurchase(e)

RecordStep ==
  \/ \E e \in Entry \ Purchase : Dispatch(e)
  \/ \E e \in Entry :
       \/ CreateCheck(e) \/ CreateStore(e) \/ CreateLost(e)
       \/ Cancel(e) \/ VoidCheck(e) \/ VoidStore(e) \/ VoidLost(e)

Next ==
  \/ MonthRequest
  \/ CloseStep \/ NightGenerates \/ CloseInterrupted \/ Tick
  \/ PurchaseStep \/ RecordStep

(* The scheduler runs the job, and time passes.                            *)
Spec == Init /\ [][Next]_vars /\ WF_vars(CloseStep) /\ WF_vars(Tick)
-----------------------------------------------------------------------------
(* A closed month is opened only by a user: neither the closing job, run   *)
(* twice or not, nor the months generated again for the same year open it. *)
OpenedByUserOnly ==
  [][\A p \in Period : Closed(p) /\ ~Closed(p)' => p \in opened']_vars

(* The result stored for a month is what its records say, for as long as   *)
(* the month is closed: the records that differ are those whose month was  *)
(* open when it was validated and closed when they were written.  A month  *)
(* that a user opened again may differ: the DRE is not computed anew.      *)
DreMatchesRecords ==
  \A p \in Period \ opened :
    dre[p] # <<>> =>
      Head(dre[p]) \ late = Statement(p) \ late

(* A purchase always has its record, or one on its way; or the record was  *)
(* cancelled, or its month closed after the controller had validated it,   *)
(* or the request, its dispatch or its job failed.                         *)
PurchaseExplained ==
  \A e \in Purchase :
    purchase[e] # "none" =>
      \/ stage[e] # "refused"
      \/ PeriodOf[e] \in shut
      \/ e \in lost

(* A month that all churches have when the clock reaches it is closed for  *)
(* all of them, a month later at most; not December, and not if a job was  *)
(* interrupted.                                                            *)
MonthsGetClosed ==
  \A t \in 0..(MaxTime - 1) :
    (clock = t /\ night.phase = "waiting" /\ (t + 1) % MonthsPerYear # 0
       /\ \A c \in Church : Found(<<c, t>>))
      ~> (disturbed \/ \A c \in Church : <<c, t>> \in shut)
==============================================================================
