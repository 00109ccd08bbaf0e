----------------------------- MODULE Ledger_proofs ----------------------------
(***************************************************************************)
(* Machine-checked proofs about the Ledger, for every number of records,   *)
(* requests, accounts, cost centres, months and faults:                    *)
(*   - types, and the documents: what no later write changes;              *)
(*   - the way of the money: every record is posted at most once, and the  *)
(*     Ledger implements Books;                                            *)
(*   - sums over finite sets;                                              *)
(*   - the books: balances, masters, statuses and cost centres add up.     *)
(***************************************************************************)
EXTENDS LedgerBooks, FiniteSetTheorems, SequenceTheorems, TLAPS

(***************************************************************************)
(* Operators of the model.                                                 *)
(***************************************************************************)

(* setStatus gives a record the status asked for and touches nothing else  *)
(* but the stamps.                                                         *)
LEMMA SetStatusFacts ==
  ASSUME NEW row \in Original, NEW status \in Status
  PROVE  /\ SetStatus(row, status) \in Original
         /\ SetStatus(row, status).status = status
         /\ SameMoney(row, SetStatus(row, status))
BY DEF SetStatus, Original, SameMoney, Realized

(* create returns a document with the fields and the status it was given.  *)
LEMMA NewRowFacts ==
  ASSUME NEW type, NEW amount, NEW account, NEW costCenter, NEW month,
         NEW status \in Status, NEW of
  PROVE  LET row == NewRow(type, amount, account, costCenter, month, status, of)
         IN  row = [type |-> type,
                    amount |-> IF type = "REVERSAL" THEN -amount ELSE amount,
                    account |-> account, costCenter |-> costCenter,
                    month |-> month, status |-> status,
                    cleared |-> row.cleared, reconciled |-> row.reconciled,
                    of |-> of]
             /\ row.cleared \in BOOLEAN /\ row.reconciled \in BOOLEAN
<1> DEFINE blank == [type |-> type,
                     amount |-> IF type = "REVERSAL" THEN -amount ELSE amount,
                     account |-> account, costCenter |-> costCenter,
                     month |-> month, status |-> "UNSET",
                     cleared |-> FALSE, reconciled |-> FALSE, of |-> of]
           first == IF account \in CashAccount THEN "RECONCILED" ELSE status
           once  == SetStatus(blank, first)
<1>1. first \in Status /\ first # "UNSET" /\ blank.status = "UNSET"
  BY DEF Status, Realized
<1>2. once = [blank EXCEPT !.status = first, !.cleared = first \in Realized,
                           !.reconciled = first = "RECONCILED"]
  BY <1>1 DEF SetStatus
<1>3. QED BY <1>1, <1>2, ZenonT(40) DEF NewRow, SetStatus, Realized

LEMMA NewRowsAreOriginal == NewRows \subseteq Original
<1>1. ASSUME NEW t \in {"INCOME", "PURCHASE"}, NEW n \in Amount,
             NEW a \in Account, NEW m \in Month, NEW s \in CreateStatus
      PROVE  NewRow(t, n, a, NoCostCenter, m, s, NoRec) \in Original
  <2>1. s \in Status /\ n \in Nat \ {0}
    BY StatusAssumption, AmountAssumption
  <2>2. QED BY <2>1, NewRowFacts DEF Original, Postable, Cancellable
<1>2. ASSUME NEW n \in Amount, NEW a \in Account, NEW c \in CostCenter,
             NEW m \in Month, NEW s \in CreateStatus
      PROVE  NewRow("OUTGO", n, a, c, m, s, NoRec) \in Original
  <2>1. s \in Status /\ n \in Nat \ {0}
    BY StatusAssumption, AmountAssumption
  <2>2. QED BY <2>1, NewRowFacts DEF Original, Postable, Cancellable
<1>3. ASSUME NEW n \in Loan, NEW a \in Account
      PROVE  NewRow("OUTGO", n, a, NoCostCenter, CurrentMonth, "CLEARED", NoRec)
               \in Original
  <2>1. "CLEARED" \in Status /\ n \in Nat \ {0} /\ CurrentMonth \in Month
    BY LoanAssumption, AmountAssumption, MonthAssumption DEF Status, Realized
  <2>2. QED BY <2>1, NewRowFacts DEF Original, Postable, Cancellable
<1>4. QED BY <1>1, <1>2, <1>3 DEF NewRows, LoanRows

LEMMA NewRowsStatus ==
  \A row \in NewRows : row.status \in CreateStatus \union {"CLEARED"}
                       /\ row.status # "VOID"
<1>1. ASSUME NEW t, NEW n, NEW a, NEW c, NEW m,
             NEW s \in CreateStatus \union {"CLEARED"}
      PROVE  LET status == NewRow(t, n, a, c, m, s, NoRec).status
             IN  status \in CreateStatus \union {"CLEARED"} /\ status # "VOID"
  <2>1. s \in Status /\ s # "VOID" BY StatusAssumption DEF Status, Realized
  <2>2. QED BY <2>1, NewRowFacts
<1>2. QED BY <1>1 DEF NewRows, LoanRows

(* The reversal of an original is a reversal of it, of the same amount.    *)
LEMMA ReversalRowFacts ==
  ASSUME NEW row \in Original, NEW r \in Rec
  PROVE  /\ ReversalRow(row, r) \in Reversal
         /\ ReversalRow(row, r).of = r
         /\ ReversalRow(row, r).amount = -row.amount
         /\ ReversalRow(row, r).account = row.account
<1>1. "VOID" \in Status BY DEF Status
<1>2. row.amount \in Nat \ {0} /\ row.account \in Account BY DEF Original
<1>3. QED
  BY <1>1, <1>2, NewRowFacts, MonthAssumption DEF ReversalRow, Reversal

LEMMA RowsAreDisjoint ==
  ASSUME NEW row \in Original
  PROVE  row \notin Reversal /\ row # NoRow
         /\ row.type # "REVERSAL" /\ row.of = NoRec
BY RowAssumption, RecAssumption DEF Original, Reversal, Postable, Cancellable

LEMMA LostIsFinite ==
  ASSUME NEW lost, lost \in SUBSET {"balance", "status", "center"}
  PROVE  Cardinality(lost) \in Nat
<1>1. IsFiniteSet({"balance", "status", "center"})
  <2>1. IsFiniteSet({}) BY FS_EmptySet
  <2>2. IsFiniteSet({} \union {"balance"}) BY <2>1, FS_AddElement
  <2>3. IsFiniteSet(({} \union {"balance"}) \union {"status"})
    BY <2>2, FS_AddElement
  <2>4. IsFiniteSet((({} \union {"balance"}) \union {"status"})
                      \union {"center"})
    BY <2>3, FS_AddElement
  <2>5. {"balance", "status", "center"}
          = (({} \union {"balance"}) \union {"status"}) \union {"center"}
    OBVIOUS
  <2>6. QED BY <2>4, <2>5
<1>2. IsFiniteSet(lost) BY <1>1, FS_Subset
<1>3. QED BY <1>2, FS_CardinalityType

(* Enqueue appends a job or leaves the queue alone; dropping the head of a *)
(* queue brings nothing new into it.                                       *)
LEMMA EnqueueType ==
  ASSUME NEW S, NEW q \in Seq(S), NEW e \in S, NEW lost
  PROVE  Enqueue(q, e, lost) \in Seq(S)
BY AppendProperties DEF Enqueue

LEMMA EnqueueNonEmpty ==
  ASSUME NEW S, NEW q \in Seq(S), NEW e \in S, NEW lost, q # <<>>
  PROVE  Enqueue(q, e, lost) # <<>>
BY AppendProperties DEF Enqueue

LEMMA TailType ==
  ASSUME NEW S, NEW q \in Seq(S), q # <<>>
  PROVE  Tail(q) \in Seq(S) /\ Head(q) \in S
BY HeadTailProperties

LEMMA IdleIsSession == Idle \in Session
BY DEF Idle, Session, Steps
-----------------------------------------------------------------------------
(***************************************************************************)
(* Types.  A worker is busy only while its job is still in the queue, so   *)
(* that Head and Tail mean something; with that, TypeOK is inductive.      *)
(***************************************************************************)
WorkersBusy ==
  /\ statusW # "idle" => statusQ # <<>>
  /\ balanceW.step # "idle" => balanceQ # <<>>

Typed == TypeOK /\ WorkersBusy

LEMMA TypedInit == Init => Typed
<1> SUFFICES ASSUME Init PROVE Typed OBVIOUS
<1>1. statusQ \in Seq(StatusJob) /\ balanceQ \in Seq(BalanceJob)
      /\ centerQ \in Seq(CenterJob)
  BY EmptySeq DEF Init
<1>2. req \in [Request -> Session] BY IdleIsSession DEF Init
<1>3. QED BY <1>1, <1>2 DEF Init, Typed, TypeOK, WorkersBusy, IdleBal, IdleEdit, Spent

LEMMA StartType ==
  ASSUME Typed, NEW q \in Request, NEW new \in Session, Start(q, new)
  PROVE  req' \in [Request -> Session] /\ used' \in Spent
<1>1. req \in [Request -> Session] /\ used \in Spent BY DEF Typed, TypeOK
<1>2. used.requests + 1 \in Nat BY <1>1 DEF Spent
<1>3. QED BY <1>1, <1>2 DEF Start, Spent

LEMMA LoseType ==
  ASSUME Typed, NEW lost \in SUBSET {"balance", "status", "center"}, Lose(lost)
  PROVE  used' \in Spent
<1>1. used \in Spent BY DEF Typed, TypeOK
<1>2. Cardinality(lost) \in Nat BY LostIsFinite
<1>3. used.losses + Cardinality(lost) \in Nat BY <1>1, <1>2 DEF Spent
<1>4. QED BY <1>1, <1>3 DEF Lose, Spent

LEMMA SpendType ==
  ASSUME Typed
  PROVE  /\ [used EXCEPT !.flips = @ + 1] \in Spent
         /\ [used EXCEPT !.crashes = @ + 1] \in Spent
         /\ [used EXCEPT !.edits = @ + 1] \in Spent
         /\ [used EXCEPT !.fails = @ + 1] \in Spent
<1>1. used \in Spent BY DEF Typed, TypeOK
<1>2. QED BY <1>1 DEF Spent

LEMMA TypedBegin ==
  ASSUME Typed, NEW q \in Request, Begin(q)
  PROVE  Typed'
<1> USE DEF stores, queues, workers, history
<1>1. CASE CreateStart(q)
  <2>1. PICK row \in NewRows :
          Start(q, [Idle EXCEPT !.step = "creating", !.row = row])
    BY <1>1 DEF CreateStart
  <2>2. row \in Original BY NewRowsAreOriginal
  <2>3. [Idle EXCEPT !.step = "creating", !.row = row] \in Session
    BY <2>2 DEF Idle, Session, Steps
  <2>4. QED BY <1>1, <2>1, <2>3, StartType
            DEF CreateStart, Typed, TypeOK, WorkersBusy
<1>2. ASSUME NEW r \in Rec, rec[r] # NoRow, rec[r].type # "REVERSAL",
             NEW step \in {"cancelRead", "matching", "linking"},
             Start(q, [Idle EXCEPT !.step = step, !.id = r, !.row = rec[r]]),
             UNCHANGED <<stores, queues, workers, editor, history>>
      PROVE  Typed'
  <2>1. rec[r] \in Original BY <1>2 DEF Typed, TypeOK, Reversal
  <2>2. [Idle EXCEPT !.step = step, !.id = r, !.row = rec[r]] \in Session
    BY <2>1 DEF Idle, Session, Steps
  <2>3. QED BY <1>2, <2>2, StartType DEF Typed, TypeOK, WorkersBusy
<1>3. CASE CancelRead(q) BY <1>2, <1>3 DEF CancelRead
<1>4. CASE MatchRead(q)
  BY <1>2, <1>4 DEF MatchRead, Postable, Cancellable
<1>5. CASE LinkRead(q) BY <1>2, <1>5 DEF LinkRead
<1>6. QED BY <1>1, <1>3, <1>4, <1>5 DEF Begin

LEMMA JobTypes ==
  ASSUME NEW row \in Original, NEW r \in Rec
  PROVE  /\ PostJob(r, row) \in BalanceJob
         /\ ReverseJob(r, row) \in BalanceJob
         /\ \A o \in {"add", "subtract"} :
              CenterJobOf(row, o) \in CenterJob
BY DEF PostJob, ReverseJob, CenterJobOf, BalanceJob, CenterJob, Original,
       Operation, Opposite

(* A request that has read its record holds a snapshot of it.              *)
LEMMA SessionFacts ==
  ASSUME Typed, NEW q \in Request, req[q].step # "idle"
  PROVE  /\ req[q] \in Session
         /\ req[q].row \in Original
         /\ req[q].step # "creating" => req[q].id \in Rec
         /\ req[q].step = "reversed" => req[q].rev \in Rec
BY DEF Typed, TypeOK, Session

LEMMA BecomesIdle ==
  ASSUME Typed, NEW q \in Request
  PROVE  [req EXCEPT ![q] = Idle] \in [Request -> Session]
BY IdleIsSession DEF Typed, TypeOK

LEMMA TypedCreate ==
  ASSUME Typed, NEW q \in Request, CreateStore(q) \/ CreateCommit(q)
  PROVE  Typed'
<1> USE DEF stores, queues, workers, history
<1>1. CASE CreateStore(q)
  <2>1. PICK r \in Rec :
          /\ rec' = [rec EXCEPT ![r] = req[q].row]
          /\ req' = [req EXCEPT ![q].step = "created", ![q].id = r]
    BY <1>1 DEF CreateStore
  <2>2. req[q] \in Session /\ req[q].row \in Original
    BY <1>1, SessionFacts DEF CreateStore
  <2>3. [req[q] EXCEPT !.step = "created", !.id = r] \in Session
    BY <2>2 DEF Session, Steps
  <2>4. req' \in [Request -> Session] BY <2>1, <2>3 DEF Typed, TypeOK
  <2>5. rec' \in [Rec -> {NoRow} \union Original \union Reversal]
    BY <2>1, <2>2 DEF Typed, TypeOK
  <2>6. QED BY <1>1, <2>4, <2>5 DEF CreateStore, Typed, TypeOK, WorkersBusy
<1>2. CASE CreateCommit(q)
  <2>1. PICK lost \in SUBSET {"balance", "center"} : CreateCommit(q)!(lost)
    BY <1>2 DEF CreateCommit
  <2>2. req[q].row \in Original /\ req[q].id \in Rec
    BY <2>1, SessionFacts
  <2>3. used' \in Spent BY <2>1, LoseType
  <2>4. balanceQ' \in Seq(BalanceJob)
    BY <2>1, <2>2, JobTypes, EnqueueType DEF Typed, TypeOK
  <2>5. centerQ' \in Seq(CenterJob)
    BY <2>1, <2>2, JobTypes, EnqueueType DEF Typed, TypeOK
  <2>6. balanceQ # <<>> => balanceQ' # <<>>
    BY <2>1, <2>2, JobTypes, AppendProperties DEF Enqueue, Typed, TypeOK
  <2>7. req' \in [Request -> Session] BY <2>1, BecomesIdle
  <2>8. incidents' \subseteq Incident
    BY <2>1 DEF Typed, TypeOK, Noted, Incident
  <2>9. QED BY <2>1, <2>3, <2>4, <2>5, <2>6, <2>7, <2>8
            DEF Typed, TypeOK, WorkersBusy
<1>3. QED BY <1>1, <1>2

LEMMA TypedCancel ==
  ASSUME Typed, NEW q \in Request,
         \/ CancelValidate(q) \/ CancelStore(q) \/ CancelCommit(q)
         \/ CancelFail(q)
  PROVE  Typed'
<1> USE DEF stores, queues, workers, history
<1>1. CASE CancelValidate(q)
  <2>1. req[q] \in Session BY <1>1, SessionFacts DEF CancelValidate
  <2>2. req[q].row.type \in Cancellable =>
          [req[q] EXCEPT !.step = "cancelling"] \in Session
    BY <1>1, <2>1 DEF Session, Steps, CancelValidate
  <2>3. req' \in [Request -> Session]
    BY <1>1, <2>2, BecomesIdle DEF CancelValidate, Typed, TypeOK
  <2>4. QED BY <1>1, <2>3 DEF CancelValidate, Typed, TypeOK, WorkersBusy
<1>2. CASE CancelStore(q)
  <2>1. PICK v \in Rec : CancelStore(q)!(v) BY <1>2 DEF CancelStore
  <2>2. req[q] \in Session /\ req[q].row \in Original /\ req[q].id \in Rec
    BY <2>1, SessionFacts
  <2>3. [req[q] EXCEPT !.step = "reversed", !.rev = v] \in Session
    BY <2>1, <2>2 DEF Session, Steps
  <2>4. req' \in [Request -> Session] BY <2>1, <2>3 DEF Typed, TypeOK
  <2>5. rec' \in [Rec -> {NoRow} \union Original \union Reversal]
    BY <2>1, <2>2, ReversalRowFacts DEF Typed, TypeOK
  <2>6. incidents' \subseteq Incident
    BY <2>1 DEF Typed, TypeOK, Noted, Incident
  <2>7. QED BY <2>1, <2>4, <2>5, <2>6 DEF Typed, TypeOK, WorkersBusy
<1>3. CASE CancelCommit(q)
  <2>1. PICK lost \in SUBSET {"balance", "status", "center"} :
          CancelCommit(q)!(lost)
    BY <1>3 DEF CancelCommit
  <2>2. req[q].row \in Original /\ req[q].id \in Rec /\ req[q].rev \in Rec
    BY <2>1, SessionFacts
  <2>3. used' \in Spent BY <2>1, LoseType
  <2>4. balanceQ' \in Seq(BalanceJob)
    BY <2>1, <2>2, JobTypes, EnqueueType DEF Typed, TypeOK
  <2>5. [id |-> req[q].id, row |-> req[q].row, to |-> "VOID",
         withId |-> TRUE] \in StatusJob
    BY <2>2 DEF StatusJob
  <2>6. statusQ' \in Seq(StatusJob)
    BY <2>1, <2>5, EnqueueType DEF Typed, TypeOK
  <2>7. centerQ' \in Seq(CenterJob)
    BY <2>1, <2>2, JobTypes, EnqueueType DEF Typed, TypeOK
  <2>8. /\ balanceQ # <<>> => balanceQ' # <<>>
        /\ statusQ # <<>> => statusQ' # <<>>
    <3>1. /\ balanceQ \in Seq(BalanceJob) /\ statusQ \in Seq(StatusJob)
          /\ ReverseJob(req[q].rev, req[q].row) \in BalanceJob
      BY <2>2, JobTypes DEF Typed, TypeOK
    <3>2. QED BY <2>1, <2>5, <3>1, EnqueueNonEmpty
  <2>9. req' \in [Request -> Session] BY <2>1, BecomesIdle
  <2>10. incidents' \subseteq Incident
    BY <2>1 DEF Typed, TypeOK, Noted, Incident
  <2>11. QED BY <2>1, <2>3, <2>4, <2>6, <2>7, <2>8, <2>9, <2>10
             DEF Typed, TypeOK, WorkersBusy
<1>4. CASE CancelFail(q)
  <2>1. req[q].row \in Original /\ req[q].id \in Rec
    BY <1>4, SessionFacts DEF CancelFail
  <2>2. rec' \in [Rec -> {NoRow} \union Original \union Reversal]
    BY <1>4, <2>1 DEF CancelFail, Typed, TypeOK
  <2>3. req' \in [Request -> Session] BY <1>4, BecomesIdle DEF CancelFail
  <2>4. used' \in Spent BY <1>4, SpendType DEF CancelFail
  <2>5. incidents' \subseteq Incident
    BY <1>4 DEF CancelFail, Typed, TypeOK, Noted, Incident
  <2>6. QED BY <1>4, <2>2, <2>3, <2>4, <2>5
            DEF CancelFail, Typed, TypeOK, WorkersBusy
<1>5. QED BY <1>1, <1>2, <1>3, <1>4

LEMMA TypedReconcile ==
  ASSUME Typed, NEW q \in Request, ReconcileDispatch(q)
  PROVE  Typed'
<1> USE DEF stores, queues, workers, history
<1>1. PICK lost \in SUBSET {"status"} : ReconcileDispatch(q)!(lost)
  BY DEF ReconcileDispatch
<1>2. req[q].row \in Original /\ req[q].id \in Rec BY <1>1, SessionFacts
<1>3. used' \in Spent BY <1>1, LoseType
<1> DEFINE job == [id |-> req[q].id, row |-> req[q].row, to |-> "RECONCILED",
                   withId |-> req[q].step = "matching"]
<1>4. job \in StatusJob BY <1>2 DEF StatusJob
<1>5. statusQ' = Enqueue(statusQ, job, "status" \in lost) BY <1>1
<1> HIDE DEF job
<1>6. statusQ' \in Seq(StatusJob) BY <1>4, <1>5, EnqueueType DEF Typed, TypeOK
<1>7. statusQ # <<>> => statusQ' # <<>>
  BY <1>4, <1>5, AppendProperties DEF Enqueue, Typed, TypeOK
<1>8. req' \in [Request -> Session] BY <1>1, BecomesIdle
<1>9. incidents' \subseteq Incident
  BY <1>1 DEF Typed, TypeOK, Noted, Incident
<1>10. QED BY <1>1, <1>3, <1>6, <1>7, <1>8, <1>9 DEF Typed, TypeOK, WorkersBusy

(* What the worker of the status queue holds in its hands.                 *)
LEMMA HeadStatusJob ==
  ASSUME Typed, statusQ # <<>>
  PROVE  /\ Head(statusQ) \in StatusJob
         /\ Head(statusQ).id \in Rec
         /\ Head(statusQ).row \in Original
         /\ Head(statusQ).to \in Status
         /\ Tail(statusQ) \in Seq(StatusJob)
<1>1. Head(statusQ) \in StatusJob /\ Tail(statusQ) \in Seq(StatusJob)
  BY TailType DEF Typed, TypeOK
<1>2. QED BY <1>1 DEF StatusJob, Status, Realized

LEMMA TypedStatus == ASSUME Typed, StatusWorker PROVE Typed'
<1> USE DEF stores, queues, workers, history
<1>1. CASE StatusValidate
  BY <1>1, HeadStatusJob DEF StatusValidate, Typed, TypeOK, WorkersBusy, Incident
<1>2. CASE StatusStore
  <2>1. statusQ # <<>> BY <1>2 DEF StatusStore, Typed, WorkersBusy
  <2>2. SetStatus(Head(statusQ).row, Head(statusQ).to) \in Original
    BY <2>1, HeadStatusJob, SetStatusFacts
  <2>3. rec' \in [Rec -> {NoRow} \union Original \union Reversal]
    BY <1>2, <2>1, <2>2, HeadStatusJob DEF StatusStore, Typed, TypeOK
  <2>4. incidents' \subseteq Incident
    BY <1>2 DEF StatusStore, Typed, TypeOK, Noted, Incident
  <2>5. /\ statusQ' \in Seq(StatusJob)
        /\ statusW' \in {"idle", "validated", "stored"}
        /\ statusW' # "idle" => statusQ' # <<>>
    BY <1>2, <2>1, HeadStatusJob DEF StatusStore, Typed, TypeOK
  <2>6. QED BY <1>2, <2>3, <2>4, <2>5
            DEF StatusStore, Typed, TypeOK, WorkersBusy
<1>3. CASE StatusDispatch
  <2>1. statusQ # <<>>
    BY <1>3 DEF StatusDispatch, Typed, WorkersBusy
  <2>2. PICK lost \in SUBSET {"balance", "center"} : StatusDispatch!(lost)
    BY <1>3 DEF StatusDispatch
  <2>3. Head(statusQ).row \in Original /\ Head(statusQ).id \in Rec
    BY <2>1, HeadStatusJob
  <2>4. used' \in Spent BY <2>2, LoseType
  <2>5. balanceQ' \in Seq(BalanceJob)
    BY <2>2, <2>3, JobTypes, EnqueueType DEF Typed, TypeOK
  <2>6. centerQ' \in Seq(CenterJob)
    BY <2>2, <2>3, JobTypes, EnqueueType DEF Typed, TypeOK
  <2>7. balanceQ # <<>> => balanceQ' # <<>>
    BY <2>2, <2>3, JobTypes, AppendProperties DEF Enqueue, Typed, TypeOK
  <2>8. statusQ' \in Seq(StatusJob) BY <2>1, <2>2, HeadStatusJob
  <2>9. incidents' \subseteq Incident
    BY <2>2 DEF Typed, TypeOK, Noted, Incident
  <2>10. QED BY <2>2, <2>4, <2>5, <2>6, <2>7, <2>8, <2>9
             DEF Typed, TypeOK, WorkersBusy
<1>4. QED BY <1>1, <1>2, <1>3 DEF StatusWorker

LEMMA HeadBalanceJob ==
  ASSUME Typed, balanceQ # <<>>
  PROVE  /\ Head(balanceQ) \in BalanceJob
         /\ Head(balanceQ).account \in Account
         /\ Head(balanceQ).amount \in Nat \ {0}
         /\ Head(balanceQ).src \in Rec
         /\ Tail(balanceQ) \in Seq(BalanceJob)
<1>1. Head(balanceQ) \in BalanceJob /\ Tail(balanceQ) \in Seq(BalanceJob)
  BY TailType DEF Typed, TypeOK
<1>2. QED BY <1>1 DEF BalanceJob

LEMMA TypedBalance == ASSUME Typed, BalanceWorker \/ CenterUpdate PROVE Typed'
<1> USE DEF stores, queues, workers, history
<1>1. CASE BalanceRead
  <2>1. balanceQ # <<>> /\ balance[Head(balanceQ).account] \in Int
    BY <1>1, HeadBalanceJob DEF BalanceRead, Typed, TypeOK
  <2>2. QED BY <1>1, <2>1 DEF BalanceRead, Typed, TypeOK, WorkersBusy
<1>2. CASE BalanceWrite
  <2>1. balanceQ # <<>> /\ balanceW.seen \in Int
    BY <1>2 DEF BalanceWrite, Typed, TypeOK, WorkersBusy
  <2> DEFINE job   == Head(balanceQ)
             value == IF job.operation = "MONEY_IN"
                      THEN balanceW.seen + job.amount
                      ELSE balanceW.seen - job.amount
  <2>a. job.account \in Account /\ job.amount \in Nat /\ job.src \in Rec
    BY <2>1, HeadBalanceJob
  <2>b. value \in Int BY <2>1, <2>a
  <2>c. /\ balance' = [balance EXCEPT ![job.account] = value]
        /\ posted' = [posted EXCEPT ![job.src] = @ + 1]
    BY <1>2 DEF BalanceWrite
  <2>d. balance \in [Account -> Int] /\ posted \in [Rec -> Nat]
    BY DEF Typed, TypeOK
  <2> HIDE DEF job, value
  <2>2. balance' \in [Account -> Int] BY <2>a, <2>b, <2>c, <2>d
  <2>3. posted' \in [Rec -> Nat] BY <2>a, <2>c, <2>d
  <2>4. balanceW' \in [step : {"idle", "read", "written"}, seen : Int]
    BY <1>2 DEF BalanceWrite, Typed, TypeOK
  <2>5. QED BY <1>2, <2>1, <2>2, <2>3, <2>4
            DEF BalanceWrite, Typed, TypeOK, WorkersBusy
<1>3. CASE MasterUpdate
  <2>1. balanceQ # <<>> BY <1>3 DEF MasterUpdate, Typed, WorkersBusy
  <2>2. master' \in [Account -> [input : Nat, output : Nat]]
    <3> DEFINE job == Head(balanceQ)
    <3>1. job.account \in Account /\ job.amount \in Nat
      BY <2>1, HeadBalanceJob
    <3>2. master[job.account] \in [input : Nat, output : Nat]
      BY <3>1 DEF Typed, TypeOK
    <3>3. /\ [master[job.account] EXCEPT !.input = @ + job.amount]
               \in [input : Nat, output : Nat]
          /\ [master[job.account] EXCEPT !.output = @ + job.amount]
               \in [input : Nat, output : Nat]
      BY <3>1, <3>2
    <3>4. \/ master' = [master EXCEPT ![job.account] =
                          [master[job.account] EXCEPT !.input = @ + job.amount]]
          \/ master' = [master EXCEPT ![job.account] =
                          [master[job.account] EXCEPT !.output = @ + job.amount]]
      BY <1>3 DEF MasterUpdate
    <3>5. master \in [Account -> [input : Nat, output : Nat]]
      BY DEF Typed, TypeOK
    <3> HIDE DEF job
    <3>6. QED BY <3>3, <3>4, <3>5
  <2>3. balanceQ' \in Seq(BalanceJob) /\ balanceW' = IdleBal
    BY <1>3, <2>1, HeadBalanceJob DEF MasterUpdate
  <2>4. UNCHANGED <<rec, monthOpen, balance, ccTotal, statusQ, centerQ,
                    statusW, req, editor, posted, incidents, used>>
    BY <1>3 DEF MasterUpdate
  <2>5. TypeOK' BY <2>2, <2>3, <2>4 DEF Typed, TypeOK, IdleBal
  <2>6. WorkersBusy' BY <2>3, <2>4 DEF Typed, WorkersBusy, IdleBal
  <2>7. QED BY <2>5, <2>6 DEF Typed
<1>4. CASE CenterUpdate
  <2>1. Head(centerQ) \in CenterJob /\ Tail(centerQ) \in Seq(CenterJob)
    BY <1>4, TailType DEF CenterUpdate, Typed, TypeOK
  <2>2. ccTotal' \in [CostCenter -> Int]
    BY <1>4, <2>1 DEF CenterUpdate, CenterJob, Typed, TypeOK
  <2>3. QED BY <1>4, <2>1, <2>2 DEF CenterUpdate, Typed, TypeOK, WorkersBusy
<1>5. QED BY <1>1, <1>2, <1>3, <1>4 DEF BalanceWorker

LEMMA TypedEnvironment ==
  ASSUME Typed,
         \/ JobFails \/ Crash
         \/ \E a \in Account : EditRead(a) \/ EditWrite(a)
         \/ \E m \in Month : FlipMonth(m)
  PROVE  Typed'
<1> USE DEF stores, queues, workers, history
<1>1. CASE JobFails
  <2>1. used' \in Spent /\ incidents' \subseteq Incident
    BY <1>1, SpendType DEF JobFails, Typed, TypeOK, Incident
  <2>2. CASE statusW # "idle" /\ statusQ' = Tail(statusQ) /\ statusW' = "idle"
             /\ UNCHANGED <<balanceQ, centerQ, balanceW>>
    BY <1>1, <2>1, <2>2, HeadStatusJob
       DEF JobFails, Typed, TypeOK, WorkersBusy
  <2>3. CASE balanceW.step # "idle" /\ balanceQ' = Tail(balanceQ)
             /\ balanceW' = IdleBal /\ UNCHANGED <<statusQ, centerQ, statusW>>
    <3>1. UNCHANGED <<rec, monthOpen, balance, master, ccTotal, req, editor,
                      posted>>
      BY <1>1 DEF JobFails
    <3>2. balanceQ' \in Seq(BalanceJob)
      BY <2>3, HeadBalanceJob DEF Typed, WorkersBusy
    <3>3. TypeOK' BY <2>1, <2>3, <3>1, <3>2 DEF Typed, TypeOK, IdleBal
    <3>4. WorkersBusy' BY <2>3 DEF Typed, WorkersBusy, IdleBal
    <3>5. QED BY <3>3, <3>4 DEF Typed
  <2>4. CASE centerQ # <<>> /\ centerQ' = Tail(centerQ)
             /\ UNCHANGED <<statusQ, balanceQ, workers>>
    BY <1>1, <2>1, <2>4, TailType DEF JobFails, Typed, TypeOK, WorkersBusy
  <2>5. QED BY <1>1, <2>2, <2>3, <2>4 DEF JobFails
<1>2. CASE Crash
  <2>1. /\ req' \in [Request -> Session]
        /\ editor' \in [Account -> [busy : BOOLEAN, seen : Int]]
    BY <1>2, IdleIsSession DEF Crash, IdleEdit
  <2>2. used' \in Spent /\ incidents' \subseteq Incident
    BY <1>2, SpendType DEF Crash, Typed, TypeOK, Incident
  <2>3. QED BY <1>2, <2>1, <2>2
            DEF Crash, Typed, TypeOK, WorkersBusy, IdleBal
<1>3. ASSUME NEW a \in Account, EditRead(a) PROVE Typed'
  <2>1. used' \in Spent BY <1>3, SpendType DEF EditRead
  <2>2. editor' \in [Account -> [busy : BOOLEAN, seen : Int]]
    BY <1>3 DEF EditRead, Typed, TypeOK
  <2>3. QED BY <1>3, <2>1, <2>2 DEF EditRead, Typed, TypeOK, WorkersBusy
<1>4. ASSUME NEW a \in Account, EditWrite(a) PROVE Typed'
  <2>1. balance' \in [Account -> Int]
    BY <1>4 DEF EditWrite, Typed, TypeOK
  <2>2. editor' \in [Account -> [busy : BOOLEAN, seen : Int]]
    BY <1>4 DEF EditWrite, Typed, TypeOK, IdleEdit
  <2>3. incidents' \subseteq Incident
    BY <1>4 DEF EditWrite, Typed, TypeOK, Noted, Incident
  <2>4. QED BY <1>4, <2>1, <2>2, <2>3
            DEF EditWrite, Typed, TypeOK, WorkersBusy
<1>5. ASSUME NEW m \in Month, FlipMonth(m) PROVE Typed'
  <2>1. used' \in Spent BY <1>5, SpendType DEF FlipMonth
  <2>2. monthOpen' \in [Month -> BOOLEAN]
    BY <1>5 DEF FlipMonth, Typed, TypeOK
  <2>3. QED BY <1>5, <2>1, <2>2 DEF FlipMonth, Typed, TypeOK, WorkersBusy
<1>6. QED BY <1>1, <1>2, <1>3, <1>4, <1>5

LEMMA TypedNext == ASSUME Typed, [Next]_vars PROVE Typed'
<1>1. CASE UNCHANGED vars
  BY <1>1 DEF vars, stores, queues, workers, history, Typed, TypeOK, WorkersBusy
<1>2. ASSUME NEW q \in Request, Begin(q) \/ Finish(q) \/ CancelFail(q)
      PROVE  Typed'
  BY <1>2, TypedBegin, TypedCreate, TypedCancel, TypedReconcile DEF Finish
<1>3. CASE StatusWorker BY <1>3, TypedStatus
<1>4. CASE BalanceWorker \/ CenterUpdate BY <1>4, TypedBalance
<1>5. CASE \/ JobFails \/ Crash
           \/ \E a \in Account : EditRead(a) \/ EditWrite(a)
           \/ \E m \in Month : FlipMonth(m)
  BY <1>5, TypedEnvironment
<1>6. QED BY <1>1, <1>2, <1>3, <1>4, <1>5 DEF Next

(* Every variable keeps its type: no step gives the ledger a document, a   *)
(* job or a request of a shape that the handlers do not expect.            *)
THEOREM TypeCorrect == Spec => []TypeOK
<1>1. Init => Typed BY TypedInit
<1>2. Typed /\ [Next]_vars => Typed' BY TypedNext
<1>3. Typed => TypeOK BY DEF Typed
<1>4. QED BY <1>1, <1>2, <1>3, PTL DEF Spec
-----------------------------------------------------------------------------
(***************************************************************************)
(* Snapshots.  Requests and status jobs carry copies of documents, taken   *)
(* at a time that is past.  The copies differ from the document at most in *)
(* its status and stamps, and a copy that is void, or a job that will make *)
(* its record void, has a reversal behind it.  That is why writing an old  *)
(* copy back can confuse a status but never the money or the audit trail.  *)
(***************************************************************************)
ReversedIn(docs, r) == \E v \in Rec : docs[v] # NoRow /\ docs[v].of = r

Snapshot(docs, r, row) ==
  /\ r \in Rec /\ docs[r] # NoRow
  /\ SameMoney(docs[r], row)
  /\ row.status = "VOID" => ReversedIn(docs, r)

(* Where no request creates pending records, none is ever seen.            *)
Born(row) == CreateStatus \subseteq Realized => row.status # "PENDING"

SessionOK(docs, s) ==
  /\ s.step # "idle" => Born(s.row)
  /\ s.step \notin {"idle", "creating"} => Snapshot(docs, s.id, s.row)
  /\ s.step \in {"creating", "created"} => s.row.status # "VOID"
  /\ s.step = "matching" => s.row.status # "VOID"
  /\ s.step = "reversed" =>
       s.rev \in Rec /\ docs[s.rev] # NoRow /\ docs[s.rev].of = s.id

JobOK(docs, j) ==
  /\ Born(j.row)
  /\ Snapshot(docs, j.id, j.row)
  /\ j.to = "VOID" => ReversedIn(docs, j.id)
  /\ j.to = "RECONCILED" /\ j.withId => j.row.status # "VOID"

AllBorn(docs) == \A r \in Rec : docs[r] # NoRow => Born(docs[r])

Faithful ==
  /\ \A q \in Request : SessionOK(rec, req[q])
  /\ \A i \in 1..Len(statusQ) : JobOK(rec, statusQ[i])
  /\ ReversalMirrors
  /\ AuditTrail
  /\ AllBorn(rec)

(* What a step may do to the documents: from old to new ones.              *)
Kept(old, new) ==
  \A r \in Rec : old[r] # NoRow =>
    new[r] # NoRow /\ SameMoney(old[r], new[r])

LEMMA KeptReversed ==
  ASSUME NEW old, NEW new, Kept(old, new), NEW r, ReversedIn(old, r)
  PROVE  ReversedIn(new, r)
BY DEF Kept, ReversedIn, SameMoney

LEMMA KeptSnapshot ==
  ASSUME NEW old, NEW new, Kept(old, new), NEW r, NEW row,
         Snapshot(old, r, row)
  PROVE  Snapshot(new, r, row)
BY KeptReversed DEF Kept, Snapshot, SameMoney

LEMMA KeptSession ==
  ASSUME NEW old, NEW new, Kept(old, new), NEW s, SessionOK(old, s)
  PROVE  SessionOK(new, s)
<1>1. s.step \notin {"idle", "creating"} => Snapshot(new, s.id, s.row)
  BY KeptSnapshot DEF SessionOK
<1>2. s.step = "reversed" =>
        s.rev \in Rec /\ new[s.rev] # NoRow /\ new[s.rev].of = s.id
  BY DEF SessionOK, Kept, SameMoney
<1>3. QED BY <1>1, <1>2 DEF SessionOK

LEMMA KeptJob ==
  ASSUME NEW old, NEW new, Kept(old, new), NEW j, JobOK(old, j)
  PROVE  JobOK(new, j)
<1>1. Snapshot(new, j.id, j.row) BY KeptSnapshot DEF JobOK
<1>2. j.to = "VOID" => ReversedIn(new, j.id) BY KeptReversed DEF JobOK
<1>3. QED BY <1>1, <1>2 DEF JobOK

LEMMA SameRecords ==
  ASSUME Faithful, rec' = rec
  PROVE  Kept(rec, rec') /\ ReversalMirrors' /\ AuditTrail' /\ AllBorn(rec')
BY DEF Faithful, Kept, ReversalMirrors, AuditTrail, AllBorn, Reversed, Stored,
       SameMoney

(* The documents, the requests and the status queue are all that Faithful  *)
(* speaks of: a step preserves it if what is new in them is sound.         *)
LEMMA FaithfulStep ==
  ASSUME Faithful, Kept(rec, rec'), ReversalMirrors', AuditTrail',
         AllBorn(rec'),
         \A q \in Request : req'[q] = req[q] \/ SessionOK(rec', req'[q]),
         \A i \in 1..Len(statusQ') :
           \/ \E j \in 1..Len(statusQ) : statusQ'[i] = statusQ[j]
           \/ JobOK(rec', statusQ'[i])
  PROVE  Faithful' /\ Kept(rec, rec')
<1>1. \A q \in Request : SessionOK(rec', req'[q])
  BY KeptSession DEF Faithful
<1>2. \A i \in 1..Len(statusQ') : JobOK(rec', statusQ'[i])
  BY KeptJob DEF Faithful
<1>3. QED BY <1>1, <1>2 DEF Faithful

LEMMA SameStatusQueue ==
  ASSUME statusQ' = statusQ
  PROVE  \A i \in 1..Len(statusQ') :
           \E j \in 1..Len(statusQ) : statusQ'[i] = statusQ[j]
OBVIOUS

LEMMA TailElements ==
  ASSUME NEW S, NEW q \in Seq(S), q # <<>>
  PROVE  \A i \in 1..Len(Tail(q)) :
           \E j \in 1..Len(q) : Tail(q)[i] = q[j]
<1>1. /\ Len(Tail(q)) = Len(q) - 1 /\ Len(q) \in Nat
      /\ \A i \in 1..Len(Tail(q)) : Tail(q)[i] = q[i + 1]
  BY HeadTailProperties, LenProperties
<1>2. QED BY <1>1

LEMMA EnqueueElements ==
  ASSUME NEW S, NEW q \in Seq(S), NEW e \in S, NEW lost
  PROVE  \A i \in 1..Len(Enqueue(q, e, lost)) :
           \/ \E j \in 1..Len(q) : Enqueue(q, e, lost)[i] = q[j]
           \/ Enqueue(q, e, lost)[i] = e
<1>1. /\ Len(Append(q, e)) = Len(q) + 1 /\ Len(q) \in Nat
      /\ \A i \in 1..Len(q) : Append(q, e)[i] = q[i]
      /\ Append(q, e)[Len(q) + 1] = e
  BY AppendProperties, LenProperties
<1>2. QED BY <1>1 DEF Enqueue

LEMMA IdleOK == \A docs : SessionOK(docs, Idle)
BY DEF SessionOK, Idle

(* A copy of a stored original, as a request reads it.                     *)
LEMMA ReadSnapshot ==
  ASSUME Faithful, NEW r \in Rec, rec[r] # NoRow, rec[r].type # "REVERSAL"
  PROVE  Snapshot(rec, r, rec[r])
BY DEF Faithful, AuditTrail, Reversed, ReversedIn, Snapshot, Stored, SameMoney

(* Writing a sound copy over its document.                                 *)
LEMMA Overwrite ==
  ASSUME Typed, Faithful, NEW r \in Rec, NEW row \in Original,
         Snapshot(rec, r, row), Born(row), rec' = [rec EXCEPT ![r] = row]
  PROVE  Kept(rec, rec') /\ ReversalMirrors' /\ AuditTrail' /\ AllBorn(rec')
<1>1. row # NoRow /\ row.type # "REVERSAL" BY RowsAreDisjoint
<1>2. rec'[r] = row /\ \A s \in Rec : s # r => rec'[s] = rec[s]
  BY DEF Typed, TypeOK
<1>3. Kept(rec, rec') BY <1>1, <1>2 DEF Kept, Snapshot, SameMoney
<1>4. Stored' = Stored BY <1>1, <1>2 DEF Stored, Snapshot
<1>5. ReversalMirrors'
  BY <1>1, <1>2, <1>4 DEF Faithful, ReversalMirrors, Stored, Snapshot, SameMoney
<1>6. ASSUME NEW s \in Stored', rec'[s].status = "VOID",
             rec'[s].type # "REVERSAL"
      PROVE  Reversed(s)'
  <2>1. ReversedIn(rec, s)
    BY <1>1, <1>2, <1>4, <1>6
       DEF Faithful, AuditTrail, Reversed, ReversedIn, Snapshot, Stored
  <2>2. ReversedIn(rec', s) BY <1>3, <2>1, KeptReversed
  <2>3. QED BY <2>2 DEF Reversed, ReversedIn, Stored
<1>7. AllBorn(rec') BY <1>2, <1>4 DEF AllBorn, Faithful, Stored
<1>8. QED BY <1>3, <1>5, <1>6, <1>7 DEF AuditTrail

(* Storing a new document: an original that is not void, or the reversal   *)
(* of a stored original.                                                   *)
LEMMA Insert ==
  ASSUME Typed, Faithful, NEW r \in Rec, rec[r] = NoRow,
         NEW row, row # NoRow, Born(row), rec' = [rec EXCEPT ![r] = row],
         \/ row \in Original /\ row.status # "VOID"
         \/ /\ row \in Reversal /\ row.of \in Stored
            /\ rec[row.of].type \in Cancellable
            /\ rec[row.of].amount = -row.amount
            /\ rec[row.of].account = row.account
  PROVE  Kept(rec, rec') /\ ReversalMirrors' /\ AuditTrail' /\ AllBorn(rec')
<1>1. rec'[r] = row /\ \A s \in Rec : s # r => rec'[s] = rec[s]
  BY DEF Typed, TypeOK
<1>2. Kept(rec, rec') BY <1>1 DEF Kept, SameMoney
<1>3. Stored' = Stored \union {r} /\ r \notin Stored BY <1>1 DEF Stored
<1>4. row \in Original => row.type # "REVERSAL" BY RowsAreDisjoint
<1>5. row \in Reversal => row.type = "REVERSAL" BY DEF Reversal
<1>6. ASSUME NEW v \in Stored', rec'[v].type = "REVERSAL"
      PROVE  /\ rec'[v].of \in Stored'
             /\ rec'[rec'[v].of].type \in Cancellable
             /\ rec'[rec'[v].of].amount = -rec'[v].amount
             /\ rec'[rec'[v].of].account = rec'[v].account
  <2>1. CASE v = r
    <3>1. row \in Reversal BY <2>1, <1>1, <1>4, <1>6
    <3>2. row.of \in Stored /\ row.of # r BY <3>1, <1>3, <1>4, <1>5
    <3>3. rec'[row.of] = rec[row.of] BY <3>2, <1>1 DEF Stored
    <3>4. QED BY <2>1, <3>1, <3>2, <3>3, <1>1, <1>3, <1>4, <1>5
  <2>2. CASE v # r
    <3>1. v \in Stored /\ rec'[v] = rec[v] BY <2>2, <1>1, <1>3 DEF Stored
    <3>2. /\ rec[v].of \in Stored
          /\ rec[rec[v].of].type \in Cancellable
          /\ rec[rec[v].of].amount = -rec[v].amount
          /\ rec[rec[v].of].account = rec[v].account
      BY <3>1, <1>6 DEF Faithful, ReversalMirrors
    <3>3. rec'[rec[v].of] = rec[rec[v].of] BY <3>2, <1>1, <1>3 DEF Stored
    <3>4. QED BY <3>1, <3>2, <3>3, <1>3
  <2>3. QED BY <2>1, <2>2
<1>7. ASSUME NEW s \in Stored', rec'[s].status = "VOID",
             rec'[s].type # "REVERSAL"
      PROVE  Reversed(s)'
  <2>1. s \in Stored /\ rec'[s] = rec[s]
    BY <1>1, <1>3, <1>4, <1>5, <1>7 DEF Stored
  <2>2. ReversedIn(rec, s)
    BY <2>1, <1>7 DEF Faithful, AuditTrail, Reversed, ReversedIn, Stored
  <2>3. ReversedIn(rec', s) BY <1>2, <2>2, KeptReversed
  <2>4. QED BY <2>3 DEF Reversed, ReversedIn, Stored
<1>8. AllBorn(rec') BY <1>1 DEF AllBorn, Faithful
<1>9. QED BY <1>2, <1>6, <1>7, <1>8 DEF ReversalMirrors, AuditTrail

LEMMA FaithfulInit == Init => Faithful
BY DEF Init, Faithful, SessionOK, AllBorn, Idle, ReversalMirrors, AuditTrail, Stored

LEMMA FaithfulBegin ==
  ASSUME Typed, Faithful, NEW q \in Request, Begin(q)
  PROVE  Faithful' /\ Kept(rec, rec')
<1>1. rec' = rec /\ statusQ' = statusQ
  BY DEF Begin, CreateStart, CancelRead, MatchRead, LinkRead, stores, queues
<1>2. \A p \in Request : p # q => req'[p] = req[p]
  BY DEF Typed, TypeOK, Begin, CreateStart, CancelRead, MatchRead, LinkRead,
         Start
<1>3. SessionOK(rec', req'[q])
  <2>1. CASE CreateStart(q)
    <3>1. PICK row \in NewRows :
            req' = [req EXCEPT ![q] = [Idle EXCEPT !.step = "creating",
                                                   !.row = row]]
      BY <2>1 DEF CreateStart, Start
    <3>2. row.status # "VOID" /\ Born(row) BY NewRowsStatus DEF Born, Realized
    <3>3. req'[q].step = "creating" /\ req'[q].row = row
      BY <3>1 DEF Idle, Typed, TypeOK
    <3>4. QED BY <3>2, <3>3 DEF SessionOK
  <2>2. ASSUME NEW r \in Rec, rec[r] # NoRow, rec[r].type # "REVERSAL",
               NEW step \in {"cancelRead", "matching", "linking"},
               step = "matching" => rec[r].status # "VOID",
               req' = [req EXCEPT ![q] = [Idle EXCEPT !.step = step, !.id = r,
                                                      !.row = rec[r]]]
        PROVE  SessionOK(rec', req'[q])
    <3>1. /\ req'[q].step = step /\ req'[q].id = r /\ req'[q].row = rec[r]
      BY <2>2 DEF Idle, Typed, TypeOK
    <3>2. Snapshot(rec, r, rec[r]) BY <2>2, ReadSnapshot
    <3>3. Born(rec[r]) BY <2>2 DEF Faithful, AllBorn
    <3>4. QED BY <1>1, <2>2, <3>1, <3>2, <3>3 DEF SessionOK
  <2>3. CASE CancelRead(q) BY <2>2, <2>3 DEF CancelRead, Start
  <2>4. CASE MatchRead(q)
    BY <2>2, <2>4 DEF MatchRead, Start, Postable, Cancellable
  <2>5. CASE LinkRead(q) BY <2>2, <2>5 DEF LinkRead, Start
  <2>6. QED BY <2>1, <2>3, <2>4, <2>5 DEF Begin
<1>4. Kept(rec, rec') /\ ReversalMirrors' /\ AuditTrail' /\ AllBorn(rec')
  BY <1>1, SameRecords
<1>5. QED BY <1>1, <1>2, <1>3, <1>4, SameStatusQueue, FaithfulStep

(* Steps that leave the documents and the status queue alone and at most   *)
(* end a request.                                                          *)
LEMMA FaithfulIdle ==
  ASSUME Faithful, rec' = rec, statusQ' = statusQ,
         \A q \in Request : req'[q] = req[q] \/ req'[q] = Idle
  PROVE  Faithful' /\ Kept(rec, rec')
BY SameRecords, SameStatusQueue, IdleOK, FaithfulStep

LEMMA FaithfulCreate ==
  ASSUME Typed, Faithful, NEW q \in Request, CreateStore(q) \/ CreateCommit(q)
  PROVE  Faithful' /\ Kept(rec, rec')
<1>1. CASE CreateStore(q)
  <2>1. PICK r \in Rec : CreateStore(q)!(r) BY <1>1 DEF CreateStore
  <2>2. req[q].row \in Original /\ req[q].row.status # "VOID"
        /\ Born(req[q].row)
    BY <2>1, SessionFacts DEF Faithful, SessionOK
  <2>3. Kept(rec, rec') /\ ReversalMirrors' /\ AuditTrail' /\ AllBorn(rec')
    BY <2>1, <2>2, RowsAreDisjoint, Insert
  <2>4. /\ req'[q].step = "created" /\ req'[q].id = r
        /\ req'[q].row = req[q].row
        /\ \A p \in Request : p # q => req'[p] = req[p]
    BY <2>1, SessionFacts DEF Typed, TypeOK, Session
  <2>5. rec'[r] = req[q].row /\ req[q].row # NoRow
    BY <2>1, <2>2, RowsAreDisjoint DEF Typed, TypeOK
  <2>6. SessionOK(rec', req'[q])
    BY <2>2, <2>4, <2>5 DEF SessionOK, Snapshot, SameMoney
  <2>7. QED BY <2>1, <2>3, <2>4, <2>6, SameStatusQueue, FaithfulStep
               DEF queues
<1>2. CASE CreateCommit(q)
  <2>1. rec' = rec /\ statusQ' = statusQ /\ req' = [req EXCEPT ![q] = Idle]
    BY <1>2 DEF CreateCommit, stores
  <2>2. \A p \in Request : req'[p] = req[p] \/ req'[p] = Idle
    BY <2>1 DEF Typed, TypeOK
  <2>3. QED BY <2>1, <2>2, FaithfulIdle
<1>3. QED BY <1>1, <1>2

LEMMA FaithfulCancel ==
  ASSUME Typed, Faithful, NEW q \in Request,
         \/ CancelValidate(q) \/ CancelStore(q) \/ CancelCommit(q)
         \/ CancelFail(q)
  PROVE  Faithful' /\ Kept(rec, rec')
<1>1. CASE CancelValidate(q)
  <2>1. rec' = rec /\ statusQ' = statusQ
    BY <1>1 DEF CancelValidate, stores, queues
  <2>2. \A p \in Request : p # q => req'[p] = req[p]
    BY <1>1 DEF CancelValidate, Typed, TypeOK
  <2>3. SessionOK(rec', req'[q])
    <3>1. Snapshot(rec, req[q].id, req[q].row) /\ Born(req[q].row)
      BY <1>1 DEF CancelValidate, Faithful, SessionOK
    <3>2. CASE req' = [req EXCEPT ![q].step = "cancelling"]
      <4>1. /\ req'[q].step = "cancelling" /\ req'[q].id = req[q].id
            /\ req'[q].row = req[q].row
        BY <1>1, <3>2, SessionFacts DEF CancelValidate, Session, Typed, TypeOK
      <4>2. QED BY <2>1, <3>1, <4>1 DEF SessionOK
    <3>3. CASE req' = [req EXCEPT ![q] = Idle]
      BY <3>3, IdleOK DEF Typed, TypeOK
    <3>4. QED BY <1>1, <3>2, <3>3 DEF CancelValidate
  <2>4. QED BY <2>1, <2>2, <2>3, SameRecords, SameStatusQueue, FaithfulStep
<1>2. CASE CancelStore(q)
  <2>1. PICK v \in Rec : CancelStore(q)!(v) BY <1>2 DEF CancelStore
  <2>2. req[q] \in Session /\ req[q].row \in Original /\ req[q].id \in Rec
    BY <2>1, SessionFacts
  <2>3. Snapshot(rec, req[q].id, req[q].row)
        /\ Born(req[q].row) /\ req[q].row.type \in Cancellable
    BY <2>1, <2>2 DEF Faithful, SessionOK, Session
  <2> DEFINE new == ReversalRow(req[q].row, req[q].id)
  <2>4. /\ new \in Reversal /\ new.of = req[q].id
        /\ new.amount = -req[q].row.amount
        /\ new.account = req[q].row.account
    BY <2>2, ReversalRowFacts
  <2>5. new # NoRow /\ Born(new)
    BY <2>4, RowAssumption DEF Born, Reversal
  <2>6. rec' = [rec EXCEPT ![v] = new] /\ rec[v] = NoRow BY <2>1
  <2> HIDE DEF new
  <2>7. /\ new.of \in Stored /\ rec[new.of].type \in Cancellable
        /\ rec[new.of].amount = -new.amount
        /\ rec[new.of].account = new.account
    <3>1. req[q].row.amount \in Int BY <2>2 DEF Original
    <3>2. QED BY <2>2, <2>3, <2>4, <3>1 DEF Snapshot, SameMoney, Stored
  <2>8. Kept(rec, rec') /\ ReversalMirrors' /\ AuditTrail' /\ AllBorn(rec')
    BY <2>4, <2>5, <2>6, <2>7, Insert
  <2>9. /\ req'[q].step = "reversed" /\ req'[q].id = req[q].id
        /\ req'[q].row = req[q].row /\ req'[q].rev = v
        /\ \A p \in Request : p # q => req'[p] = req[p]
    BY <2>1, <2>2 DEF Typed, TypeOK, Session
  <2>10. rec'[v] = new BY <2>6 DEF Typed, TypeOK
  <2>11. Snapshot(rec', req[q].id, req[q].row) BY <2>3, <2>8, KeptSnapshot
  <2>12. SessionOK(rec', req'[q])
    BY <2>3, <2>4, <2>5, <2>9, <2>10, <2>11 DEF SessionOK
  <2>13. QED BY <2>1, <2>8, <2>9, <2>12, SameStatusQueue, FaithfulStep
                DEF queues
<1>3. CASE CancelCommit(q)
  <2>1. PICK lost \in SUBSET {"balance", "status", "center"} :
          CancelCommit(q)!(lost)
    BY <1>3 DEF CancelCommit
  <2> DEFINE job == [id |-> req[q].id, row |-> req[q].row, to |-> "VOID",
                     withId |-> TRUE]
  <2>2. /\ rec' = rec /\ req' = [req EXCEPT ![q] = Idle]
        /\ statusQ' = Enqueue(statusQ, job, "status" \in lost)
    BY <2>1 DEF stores
  <2>3. req[q].row \in Original /\ req[q].id \in Rec
    BY <2>1, SessionFacts
  <2>4. job \in StatusJob BY <2>3 DEF StatusJob
  <2>5. JobOK(rec', job)
    <3>1. Snapshot(rec, req[q].id, req[q].row)
          /\ ReversedIn(rec, req[q].id) /\ Born(req[q].row)
      BY <2>1 DEF Faithful, SessionOK, ReversedIn
    <3>2. QED BY <2>2, <3>1 DEF JobOK
  <2> HIDE DEF job
  <2>6. \A i \in 1..Len(statusQ') :
          \/ \E j \in 1..Len(statusQ) : statusQ'[i] = statusQ[j]
          \/ JobOK(rec', statusQ'[i])
    <3>1. statusQ \in Seq(StatusJob) BY DEF Typed, TypeOK
    <3>2. \A i \in 1..Len(Enqueue(statusQ, job, "status" \in lost)) :
            \/ \E j \in 1..Len(statusQ) :
                 Enqueue(statusQ, job, "status" \in lost)[i] = statusQ[j]
            \/ Enqueue(statusQ, job, "status" \in lost)[i] = job
      BY <2>4, <3>1, EnqueueElements
    <3>3. QED BY <2>2, <2>5, <3>2
  <2>7. \A p \in Request : req'[p] = req[p] \/ SessionOK(rec', req'[p])
    BY <2>2, IdleOK DEF Typed, TypeOK
  <2>8. QED BY <2>2, <2>6, <2>7, SameRecords, FaithfulStep
<1>4. CASE CancelFail(q)
  <2>1. req[q].row \in Original /\ req[q].id \in Rec
    BY <1>4, SessionFacts DEF CancelFail
  <2>2. Snapshot(rec, req[q].id, req[q].row) /\ Born(req[q].row)
    BY <1>4 DEF CancelFail, Faithful, SessionOK
  <2>3. rec' = [rec EXCEPT ![req[q].id] = req[q].row] /\ statusQ' = statusQ
    BY <1>4 DEF CancelFail, queues
  <2>4. Kept(rec, rec') /\ ReversalMirrors' /\ AuditTrail' /\ AllBorn(rec')
    BY <2>1, <2>2, <2>3, Overwrite
  <2>5. \A p \in Request : req'[p] = req[p] \/ SessionOK(rec', req'[p])
    BY <1>4, IdleOK DEF CancelFail, Typed, TypeOK
  <2>6. QED BY <2>3, <2>4, <2>5, SameStatusQueue, FaithfulStep
<1>5. QED BY <1>1, <1>2, <1>3, <1>4

LEMMA FaithfulReconcile ==
  ASSUME Typed, Faithful, NEW q \in Request, ReconcileDispatch(q)
  PROVE  Faithful' /\ Kept(rec, rec')
<1>1. PICK lost \in SUBSET {"status"} : ReconcileDispatch(q)!(lost)
  BY DEF ReconcileDispatch
<1> DEFINE job == [id |-> req[q].id, row |-> req[q].row, to |-> "RECONCILED",
                   withId |-> req[q].step = "matching"]
<1>2. /\ rec' = rec /\ req' = [req EXCEPT ![q] = Idle]
      /\ statusQ' = Enqueue(statusQ, job, "status" \in lost)
  BY <1>1 DEF stores
<1>3. req[q].row \in Original /\ req[q].id \in Rec BY <1>1, SessionFacts
<1>4. job \in StatusJob BY <1>3 DEF StatusJob
<1>5. JobOK(rec', job)
  <2>1. /\ Snapshot(rec, req[q].id, req[q].row) /\ Born(req[q].row)
        /\ req[q].step = "matching" => req[q].row.status # "VOID"
    BY <1>1 DEF Faithful, SessionOK
  <2>2. QED BY <1>2, <2>1 DEF JobOK
<1> HIDE DEF job
<1>6. \A i \in 1..Len(statusQ') :
        \/ \E j \in 1..Len(statusQ) : statusQ'[i] = statusQ[j]
        \/ JobOK(rec', statusQ'[i])
  <2>1. statusQ \in Seq(StatusJob) BY DEF Typed, TypeOK
  <2>2. \A i \in 1..Len(Enqueue(statusQ, job, "status" \in lost)) :
          \/ \E j \in 1..Len(statusQ) :
               Enqueue(statusQ, job, "status" \in lost)[i] = statusQ[j]
          \/ Enqueue(statusQ, job, "status" \in lost)[i] = job
    BY <1>4, <2>1, EnqueueElements
  <2>3. QED BY <1>2, <1>5, <2>2
<1>7. \A p \in Request : req'[p] = req[p] \/ SessionOK(rec', req'[p])
  BY <1>2, IdleOK DEF Typed, TypeOK
<1>8. QED BY <1>2, <1>6, <1>7, SameRecords, FaithfulStep

(* Dropping the head of the status queue, the documents unchanged.         *)
LEMMA FaithfulTail ==
  ASSUME Typed, Faithful, rec' = rec, req' = req, statusQ # <<>>,
         statusQ' = Tail(statusQ)
  PROVE  Faithful' /\ Kept(rec, rec')
<1>1. \A i \in 1..Len(statusQ') :
        \E j \in 1..Len(statusQ) : statusQ'[i] = statusQ[j]
  BY TailElements DEF Typed, TypeOK
<1>2. QED BY <1>1, SameRecords, FaithfulStep

LEMMA FaithfulStatus ==
  ASSUME Typed, Faithful, StatusWorker
  PROVE  Faithful' /\ Kept(rec, rec')
<1>1. CASE StatusValidate
  BY <1>1, FaithfulIdle, FaithfulTail DEF StatusValidate, stores
<1>2. CASE StatusStore
  <2>1. statusQ # <<>> BY <1>2 DEF StatusStore, Typed, WorkersBusy
  <2> DEFINE job == Head(statusQ)
             row == SetStatus(job.row, job.to)
  <2>2. CASE job.withId
    <3>1. rec' = [rec EXCEPT ![job.id] = row] /\ statusQ' = statusQ
          /\ req' = req
      BY <1>2, <2>2 DEF StatusStore
    <3>2. /\ job.id \in Rec /\ row \in Original /\ row.status = job.to
          /\ SameMoney(job.row, row)
      BY <2>1, HeadStatusJob, SetStatusFacts
    <3>3. JobOK(rec, job)
      <4>1. job = statusQ[1] /\ 1 \in 1..Len(statusQ)
        BY <2>1, EmptySeq, HeadTailProperties, LenProperties DEF Typed, TypeOK
      <4>2. QED BY <4>1 DEF Faithful
    <3> HIDE DEF job, row
    <3>4. Snapshot(rec, job.id, row)
      BY <3>2, <3>3 DEF JobOK, Snapshot, SameMoney
    <3>a. Born(row) BY <2>1, <3>2, HeadStatusJob DEF Born, job, StatusJob
    <3>5. Kept(rec, rec') /\ ReversalMirrors' /\ AuditTrail' /\ AllBorn(rec')
      BY <3>1, <3>2, <3>4, <3>a, Overwrite
    <3>6. QED BY <3>1, <3>5, SameStatusQueue, FaithfulStep
  <2>3. CASE ~job.withId
    BY <1>2, <2>1, <2>3, FaithfulTail DEF StatusStore
  <2>4. QED BY <2>2, <2>3
<1>3. CASE StatusDispatch
  <2>1. statusQ # <<>> BY <1>3 DEF StatusDispatch, Typed, WorkersBusy
  <2>2. QED BY <1>3, <2>1, FaithfulTail DEF StatusDispatch, stores
<1>4. QED BY <1>1, <1>2, <1>3 DEF StatusWorker

LEMMA FaithfulOthers ==
  ASSUME Typed, Faithful,
         \/ BalanceWorker \/ CenterUpdate \/ JobFails \/ Crash
         \/ \E a \in Account : EditRead(a) \/ EditWrite(a)
         \/ \E m \in Month : FlipMonth(m)
  PROVE  Faithful' /\ Kept(rec, rec')
<1> USE DEF stores, queues
<1>1. CASE BalanceWorker \/ CenterUpdate
  BY <1>1, FaithfulIdle
     DEF BalanceWorker, BalanceRead, BalanceWrite, MasterUpdate, CenterUpdate
<1>2. CASE JobFails
  BY <1>2, FaithfulIdle, FaithfulTail DEF JobFails, Typed, WorkersBusy
<1>3. CASE Crash BY <1>3, FaithfulIdle DEF Crash
<1>4. CASE \/ \E a \in Account : EditRead(a) \/ EditWrite(a)
           \/ \E m \in Month : FlipMonth(m)
  BY <1>4, FaithfulIdle DEF EditRead, EditWrite, FlipMonth
<1>5. QED BY <1>1, <1>2, <1>3, <1>4

LEMMA FaithfulNext ==
  ASSUME Typed, Faithful, [Next]_vars
  PROVE  Faithful' /\ Kept(rec, rec')
<1>1. CASE UNCHANGED vars
  BY <1>1, FaithfulIdle DEF vars, stores, queues
<1>2. ASSUME NEW q \in Request, Begin(q) \/ Finish(q) \/ CancelFail(q)
      PROVE  Faithful' /\ Kept(rec, rec')
  BY <1>2, FaithfulBegin, FaithfulCreate, FaithfulCancel, FaithfulReconcile
     DEF Finish
<1>3. CASE StatusWorker BY <1>3, FaithfulStatus
<1>4. CASE \/ BalanceWorker \/ CenterUpdate \/ JobFails \/ Crash
           \/ \E a \in Account : EditRead(a) \/ EditWrite(a)
           \/ \E m \in Month : FlipMonth(m)
  BY <1>4, FaithfulOthers
<1>5. QED BY <1>1, <1>2, <1>3, <1>4 DEF Next

(* Every copy of a record, in a request or in a queued job, agrees with    *)
(* the stored document in all but status and stamps.                       *)
THEOREM SnapshotsFaithful == Spec => [](Typed /\ Faithful)
<1>1. Init => Typed /\ Faithful BY TypedInit, FaithfulInit
<1>2. (Typed /\ Faithful) /\ [Next]_vars => (Typed /\ Faithful)'
  BY TypedNext, FaithfulNext
<1>3. QED BY <1>1, <1>2, PTL DEF Spec

(* A stored record is never lost, and no copy of it that is written back   *)
(* changes its money, account, cost centre or month.                       *)
THEOREM MoneyNeverRewritten == Spec => MoneyFixed
<1>1. Typed /\ Faithful /\ [Next]_vars =>
        [\A r \in Rec : rec[r] # NoRow =>
           rec'[r] # NoRow /\ SameMoney(rec[r], rec'[r])]_vars
  BY FaithfulNext DEF Kept
<1>2. QED BY <1>1, SnapshotsFaithful, PTL DEF Spec, MoneyFixed

(* No original becomes void without a reversal that explains it.           *)
THEOREM AuditTrailHolds == Spec => []AuditTrail
<1>1. Typed /\ Faithful => AuditTrail BY DEF Faithful
<1>2. QED BY <1>1, SnapshotsFaithful, PTL

(* Every reversal mirrors one existing original that could be cancelled.   *)
THEOREM ReversalsMirror == Spec => []ReversalMirrors
<1>1. Typed /\ Faithful => ReversalMirrors BY DEF Faithful
<1>2. QED BY <1>1, SnapshotsFaithful, PTL
-----------------------------------------------------------------------------
(***************************************************************************)
(* The way of the money.  Every record is posted at most once, short of a  *)
(* crash; and the Ledger implements Books, with closing months, lost       *)
(* dispatches, failing jobs and data base errors at any moment, as long as *)
(* records are created realized (as every caller does), no account is      *)
(* edited and the process does not crash.                                  *)
(***************************************************************************)

(***************************************************************************)
(* The money of a stored record goes one way, once: from the request that  *)
(* stored it (`created' or `reversed') to one job, from there to the       *)
(* balance.                                                                *)
(***************************************************************************)
Carries(s, r) ==
  \/ s.step = "created" /\ s.id = r
  \/ s.step = "reversed" /\ s.rev = r

Fresh(r) ==
  /\ rec[r] # NoRow
  /\ posted[r] = 0
  /\ \A i \in 1..Len(balanceQ) : balanceQ[i].src # r

JobRight(j) ==
  /\ rec[j.src] # NoRow
  /\ j.account = rec[j.src].account
  /\ Signed(j.operation, j.amount) = Worth(j.src)

Waiting(i) == i = 1 => balanceW.step # "written"

OneWay ==
  /\ \A q \in Request, r \in Rec : Carries(req[q], r) => Fresh(r)
  /\ \A p, q \in Request, r \in Rec :
       Carries(req[p], r) /\ Carries(req[q], r) => p = q
  /\ \A i, j \in 1..Len(balanceQ) : balanceQ[i].src = balanceQ[j].src => i = j
  /\ \A i \in 1..Len(balanceQ) :
       JobRight(balanceQ[i]) /\ (Waiting(i) => posted[balanceQ[i].src] = 0)
  /\ \A r \in Rec : rec[r] = NoRow => posted[r] = 0

(* What else the steps rely on: the amounts and the cost centres of new    *)
(* records, a status job that got as far as its dispatch, and the balance  *)
(* the worker has read.                                                    *)
Booked(row) ==
  row.amount \in Amount /\ (row.type # "OUTGO" => row.costCenter = NoCostCenter)

Sound ==
  /\ \A q \in Request : req[q].step = "creating" => Booked(req[q].row)
  /\ statusW = "stored" => Head(statusQ).withId

Seen == balanceW.step = "read" => balanceW.seen = balance[Head(balanceQ).account]

(* Records are created realized, as every caller does, and no worker was   *)
(* stopped half way: the one thing that makes a queue run a job again.     *)
Steady == CreateStatus \subseteq Realized /\ "crash" \notin incidents

Careful ==
  /\ Typed /\ Faithful /\ Sound
  /\ Steady => OneWay
  /\ "staleEdit" \notin incidents => Seen
-----------------------------------------------------------------------------
(***************************************************************************)
(* Records keep their worth.                                               *)
(***************************************************************************)
LEMMA RecordFacts ==
  ASSUME Typed, Faithful, NEW r \in Rec, rec[r] # NoRow
  PROVE  /\ rec[r].account \in Account
         /\ rec[r].of \in Rec \union {NoRec}
         /\ rec[r].of # NoRec =>
              /\ rec[r].of \in Rec /\ rec[rec[r].of] # NoRow
              /\ rec[rec[r].of].of = NoRec
              /\ rec[rec[r].of].account = rec[r].account
         /\ rec[r].of = NoRec => rec[r].amount \in Nat
<1>1. CASE rec[r] \in Original
  BY <1>1 DEF Original
<1>2. CASE rec[r] \in Reversal
  <2>1. rec[r].type = "REVERSAL" /\ rec[r].account \in Account
        /\ rec[r].of \in Rec /\ rec[r].of # NoRec
    BY <1>2, RecAssumption DEF Reversal
  <2>2. /\ rec[r].of \in Stored /\ rec[rec[r].of].type \in Cancellable
        /\ rec[rec[r].of].account = rec[r].account
    BY <2>1 DEF Faithful, ReversalMirrors, Stored
  <2>3. rec[rec[r].of] \in Original
    BY <2>1, <2>2 DEF Typed, TypeOK, Stored, Cancellable, Reversal
  <2>4. QED BY <2>1, <2>2, <2>3, RowsAreDisjoint DEF Stored
<1>3. QED BY <1>1, <1>2 DEF Typed, TypeOK

LEMMA WorthKept ==
  ASSUME Typed, Faithful, Kept(rec, rec'), NEW r \in Rec, rec[r] # NoRow
  PROVE  Worth(r)' = Worth(r)
<1>1. SameMoney(rec[r], rec'[r]) BY DEF Kept
<1>2. rec[r].of # NoRec => SameMoney(rec[rec[r].of], rec'[rec[r].of])
  BY RecordFacts DEF Kept
<1>3. QED BY <1>1, <1>2 DEF Worth, SameMoney

LEMMA JobStaysRight ==
  ASSUME Typed, Faithful, Kept(rec, rec'), NEW j \in BalanceJob, JobRight(j)
  PROVE  JobRight(j)'
<1>1. j.src \in Rec BY DEF BalanceJob
<1>2. rec[j.src] # NoRow BY DEF JobRight
<1>3. Worth(j.src)' = Worth(j.src) BY <1>1, <1>2, WorthKept
<1>4. QED BY <1>1, <1>2, <1>3 DEF JobRight, Kept, SameMoney

(* The job of a request that carries a record is right for that record.    *)
LEMMA PostJobRight ==
  ASSUME Typed, Faithful, NEW q \in Request, req[q].step = "created"
  PROVE  JobRight(PostJob(req[q].id, req[q].row))
<1>1. Snapshot(rec, req[q].id, req[q].row) BY DEF Faithful, SessionOK
<1>2. req[q].row \in Original BY SessionFacts
<1>3. req[q].row.of = NoRec BY <1>2, RowsAreDisjoint
<1>4. QED BY <1>1, <1>3 DEF JobRight, PostJob, Snapshot, SameMoney, Worth

LEMMA ReverseJobRight ==
  ASSUME Typed, Faithful, NEW q \in Request, req[q].step = "reversed"
  PROVE  JobRight(ReverseJob(req[q].rev, req[q].row))
<1>1. Snapshot(rec, req[q].id, req[q].row)
      /\ req[q].rev \in Rec /\ rec[req[q].rev] # NoRow
      /\ rec[req[q].rev].of = req[q].id
  BY DEF Faithful, SessionOK
<1>2. req[q].row \in Original /\ req[q].row.type \in Cancellable
  BY SessionFacts DEF Session
<1>3. req[q].row.of = NoRec /\ req[q].row.amount \in Nat
  BY <1>2, RowsAreDisjoint DEF Original
<1>4. req[q].id # NoRec /\ req[q].id \in Rec BY <1>1, RecAssumption DEF Snapshot
<1>5. rec[req[q].rev].account = rec[req[q].id].account
  BY <1>1, <1>4, RecordFacts
<1>6. /\ rec[req[q].id].type = req[q].row.type
      /\ rec[req[q].id].amount = req[q].row.amount
      /\ rec[req[q].id].account = req[q].row.account
  BY <1>1 DEF Snapshot, SameMoney
<1>7. Worth(req[q].rev)
        = -Signed(Operation(req[q].row.type), req[q].row.amount)
  BY <1>1, <1>4, <1>6 DEF Worth
<1>8. Signed(Opposite(req[q].row.type), req[q].row.amount)
        = -Signed(Operation(req[q].row.type), req[q].row.amount)
  BY <1>2, <1>3 DEF Signed, Opposite, Operation
<1>9. QED BY <1>1, <1>5, <1>6, <1>7, <1>8 DEF JobRight, ReverseJob
-----------------------------------------------------------------------------
(***************************************************************************)
(* One way: the five things a step can do to the money under way.          *)
(***************************************************************************)

(* A step that keeps the queue and lets no request carry anything new.     *)
LEMMA OneWayKept ==
  ASSUME Typed, Faithful, OneWay, Kept(rec, rec'),
         posted' = posted, balanceQ' = balanceQ,
         balanceW.step = "written" => balanceW'.step = "written",
         \A q \in Request, r \in Rec : Carries(req'[q], r) => Carries(req[q], r)
  PROVE  OneWay'
<1>1. \A r \in Rec : rec[r] # NoRow => rec'[r] # NoRow BY DEF Kept
<1>2. \A q \in Request, r \in Rec : Carries(req'[q], r) => Fresh(r)'
  BY <1>1 DEF OneWay, Fresh
<1>3. \A p, q \in Request, r \in Rec :
        Carries(req'[p], r) /\ Carries(req'[q], r) => p = q
  BY DEF OneWay
<1>4. ASSUME NEW i \in 1..Len(balanceQ)
      PROVE  JobRight(balanceQ[i])'
             /\ (Waiting(i)' => posted'[balanceQ'[i].src] = 0)
  <2>1. balanceQ[i] \in BalanceJob
    BY ElementOfSeq DEF Typed, TypeOK
  <2>2. JobRight(balanceQ[i]) BY DEF OneWay
  <2>3. JobRight(balanceQ[i])' BY <2>1, <2>2, JobStaysRight
  <2>4. Waiting(i)' => Waiting(i) BY DEF Waiting
  <2>5. QED BY <2>3, <2>4 DEF OneWay
<1>5. \A r \in Rec : rec'[r] = NoRow => posted'[r] = 0 BY <1>1 DEF OneWay
<1>6. QED BY <1>2, <1>3, <1>4, <1>5 DEF OneWay

(* A request stores a record under a free identifier and carries it.       *)
LEMMA OneWayStore ==
  ASSUME Typed, Faithful, OneWay, Kept(rec, rec'),
         NEW q \in Request, NEW v \in Rec, rec[v] = NoRow, rec'[v] # NoRow,
         \A r \in Rec : r # v => rec'[r] = rec[r],
         posted' = posted, balanceQ' = balanceQ, balanceW' = balanceW,
         \A p \in Request : p # q => req'[p] = req[p],
         \A r \in Rec : Carries(req'[q], r) => r = v
  PROVE  OneWay'
<1>1. posted[v] = 0 BY DEF OneWay
<1>2. ASSUME NEW i \in 1..Len(balanceQ)
      PROVE  balanceQ[i].src # v
  BY <1>2 DEF OneWay, JobRight
<1>3. \A p \in Request : ~Carries(req[p], v) BY DEF OneWay, Fresh
<1>4. \A r \in Rec : Fresh(r) => Fresh(r)' BY DEF Fresh, Kept
<1>5. Fresh(v)' BY <1>1, <1>2 DEF Fresh
<1>6. \A p \in Request, r \in Rec : Carries(req'[p], r) => Fresh(r)'
  BY <1>4, <1>5 DEF OneWay
<1>7. \A p, o \in Request, r \in Rec :
        Carries(req'[p], r) /\ Carries(req'[o], r) => p = o
  BY <1>3 DEF OneWay
<1>8. ASSUME NEW i \in 1..Len(balanceQ)
      PROVE  JobRight(balanceQ[i])'
             /\ (Waiting(i)' => posted'[balanceQ'[i].src] = 0)
  <2>1. balanceQ[i] \in BalanceJob BY ElementOfSeq DEF Typed, TypeOK
  <2>2. JobRight(balanceQ[i])' BY <2>1, JobStaysRight DEF OneWay
  <2>3. QED BY <2>2 DEF OneWay, Waiting
<1>9. \A r \in Rec : rec'[r] = NoRow => posted'[r] = 0 BY DEF OneWay
<1>10. QED BY <1>6, <1>7, <1>8, <1>9 DEF OneWay

(* A request hands what it carries to a job, or the dispatch is lost.      *)
LEMMA OneWayDispatch ==
  ASSUME Typed, Faithful, OneWay, NEW q \in Request, NEW lost,
         NEW job \in BalanceJob, JobRight(job), Carries(req[q], job.src),
         rec' = rec, posted' = posted, balanceW' = balanceW,
         balanceQ' = Enqueue(balanceQ, job, lost),
         req' = [req EXCEPT ![q] = Idle]
  PROVE  OneWay'
<1> DEFINE n == Len(balanceQ)
<1>1. balanceQ \in Seq(BalanceJob) /\ n \in Nat /\ job.src \in Rec
  BY LenProperties DEF Typed, TypeOK, BalanceJob
<1>2. CASE balanceQ' = balanceQ
  <2>1. Kept(rec, rec') BY DEF Kept, SameMoney
  <2>2. \A p \in Request, r \in Rec : Carries(req'[p], r) => Carries(req[p], r)
    BY DEF Typed, TypeOK, Carries, Idle
  <2>3. QED BY <1>2, <2>1, <2>2, OneWayKept
<1>3. CASE balanceQ' = Append(balanceQ, job)
  <2>1. /\ Len(balanceQ') = n + 1 /\ balanceQ'[n + 1] = job
        /\ \A i \in 1..n : balanceQ'[i] = balanceQ[i]
    BY <1>1, <1>3, AppendProperties
  <2>2. Fresh(job.src) BY <1>1 DEF OneWay
  <2>3. ASSUME NEW i \in 1..Len(balanceQ') PROVE i \in 1..n \/ i = n + 1
    BY <1>1, <2>1
  <2>4. ASSUME NEW p \in Request, NEW r \in Rec, Carries(req'[p], r)
        PROVE  p # q /\ Carries(req[p], r) /\ r # job.src
    BY <1>1, <2>4 DEF Typed, TypeOK, Carries, Idle, OneWay
  <2>5. \A p \in Request, r \in Rec : Carries(req'[p], r) => Fresh(r)'
    BY <2>1, <2>3, <2>4 DEF OneWay, Fresh
  <2>6. \A p, o \in Request, r \in Rec :
          Carries(req'[p], r) /\ Carries(req'[o], r) => p = o
    BY <2>4 DEF OneWay
  <2>7. \A i, j \in 1..Len(balanceQ') :
          balanceQ'[i].src = balanceQ'[j].src => i = j
    BY <2>1, <2>2, <2>3 DEF OneWay, Fresh
  <2>8. ASSUME NEW i \in 1..Len(balanceQ')
        PROVE  JobRight(balanceQ[i])'
               /\ (Waiting(i)' => posted'[balanceQ'[i].src] = 0)
    <3>1. \A j : JobRight(j) => JobRight(j)' BY DEF JobRight, Worth
    <3>2. CASE i \in 1..n BY <2>1, <3>1, <3>2 DEF OneWay, Waiting
    <3>3. CASE i = n + 1 BY <2>1, <2>2, <3>1, <3>3 DEF Fresh
    <3>4. QED BY <2>3, <3>2, <3>3
  <2>9. \A r \in Rec : rec'[r] = NoRow => posted'[r] = 0 BY DEF OneWay
  <2>10. QED BY <2>5, <2>6, <2>7, <2>8, <2>9 DEF OneWay
<1>4. QED BY <1>2, <1>3 DEF Enqueue

(* The first job leaves the queue, done or dropped.                        *)
LEMMA OneWayTail ==
  ASSUME Typed, Faithful, OneWay, balanceQ # <<>>, balanceQ' = Tail(balanceQ),
         rec' = rec, req' = req, posted' = posted
  PROVE  OneWay'
<1> DEFINE n == Len(balanceQ)
<1>1. /\ n \in Nat /\ Len(balanceQ') = n - 1
      /\ \A i \in 1..Len(balanceQ') :
           i + 1 \in 1..n /\ balanceQ'[i] = balanceQ[i + 1]
  <2>1. balanceQ \in Seq(BalanceJob) BY DEF Typed, TypeOK
  <2>2. QED BY <2>1, HeadTailProperties, LenProperties
<1>2. \A r \in Rec : Fresh(r) => Fresh(r)' BY <1>1 DEF Fresh
<1>3. \A q \in Request, r \in Rec : Carries(req'[q], r) => Fresh(r)'
  BY <1>2 DEF OneWay
<1>4. \A i, j \in 1..Len(balanceQ') :
        balanceQ'[i].src = balanceQ'[j].src => i = j
  BY <1>1 DEF OneWay
<1>5. ASSUME NEW i \in 1..Len(balanceQ')
      PROVE  JobRight(balanceQ[i])'
             /\ (Waiting(i)' => posted'[balanceQ'[i].src] = 0)
  <2>1. i + 1 \in 1..n /\ i + 1 # 1 BY <1>1
  <2>2. JobRight(balanceQ[i + 1]) /\ posted[balanceQ[i + 1].src] = 0
    BY <2>1 DEF OneWay, Waiting
  <2>3. QED BY <1>1, <2>2 DEF JobRight, Worth
<1>6. QED BY <1>3, <1>4, <1>5 DEF OneWay

(* The worker writes the balance.                                          *)
LEMMA OneWaySettle ==
  ASSUME Typed, Faithful, OneWay, BalanceWrite
  PROVE  OneWay' /\ posted[Head(balanceQ).src] = 0
<1> DEFINE n   == Len(balanceQ)
           job == Head(balanceQ)
<1>1. balanceQ # <<>> /\ balanceW.step = "read"
  BY DEF BalanceWrite, Typed, WorkersBusy
<1>2. n \in Nat /\ 1 \in 1..n /\ job = balanceQ[1] /\ job.src \in Rec
  <2>1. balanceQ \in Seq(BalanceJob) BY DEF Typed, TypeOK
  <2>2. QED BY <1>1, <2>1, EmptySeq, HeadTailProperties, LenProperties,
               HeadBalanceJob
<1>3. Waiting(1) BY <1>1 DEF Waiting
<1>4. posted[job.src] = 0 BY <1>2, <1>3 DEF OneWay
<1>5. /\ rec' = rec /\ req' = req /\ balanceQ' = balanceQ
      /\ balanceW'.step = "written"
      /\ posted'[job.src] = 1
      /\ \A r \in Rec : r # job.src => posted'[r] = posted[r]
  BY <1>2, <1>4 DEF BalanceWrite, queues, Typed, TypeOK
<1>6. \A r \in Rec : Fresh(r) => r # job.src BY <1>2 DEF Fresh
<1>7. \A q \in Request, r \in Rec : Carries(req'[q], r) => Fresh(r)'
  BY <1>5, <1>6 DEF OneWay, Fresh
<1>8. ASSUME NEW i \in 1..n
      PROVE  JobRight(balanceQ[i])'
             /\ (Waiting(i)' => posted'[balanceQ'[i].src] = 0)
  <2>1. JobRight(balanceQ[i])' BY <1>5, <1>8 DEF OneWay, JobRight, Worth
  <2>2. Waiting(i)' => i # 1 BY <1>5 DEF Waiting
  <2>3. i # 1 => balanceQ[i].src # job.src BY <1>2, <1>8 DEF OneWay
  <2>4. balanceQ[i].src \in Rec
    <3>1. balanceQ \in Seq(BalanceJob) BY DEF Typed, TypeOK
    <3>2. balanceQ[i] \in BalanceJob BY <1>8, <3>1, ElementOfSeq
    <3>3. QED BY <3>2 DEF BalanceJob
  <2>5. i # 1 => posted[balanceQ[i].src] = 0 BY <1>8 DEF OneWay, Waiting
  <2>6. QED BY <1>5, <2>1, <2>2, <2>3, <2>4, <2>5
<1>9. \A r \in Rec : rec'[r] = NoRow => posted'[r] = 0
  BY <1>2, <1>5 DEF OneWay, JobRight
<1>10. QED BY <1>4, <1>5, <1>7, <1>8, <1>9 DEF OneWay

(* Every step goes one of these ways.                                      *)
LEMMA SameCarriers ==
  ASSUME req' = req
  PROVE  \A q \in Request, r \in Rec : Carries(req'[q], r) => Carries(req[q], r)
OBVIOUS

LEMMA OneWayBegin ==
  ASSUME Typed, Faithful, OneWay, NEW q \in Request, Begin(q)
  PROVE  OneWay'
<1>1. /\ rec' = rec /\ posted' = posted /\ balanceQ' = balanceQ
      /\ balanceW' = balanceW
  BY DEF Begin, CreateStart, CancelRead, MatchRead, LinkRead, stores, queues,
         workers, history
<1>2. \A p \in Request, r \in Rec : Carries(req'[p], r) => Carries(req[p], r)
  <2> DEFINE Begun == \E new : /\ req' = [req EXCEPT ![q] = new]
                             /\ new.step \notin {"created", "reversed"}
  <2>1. Begun
    <3>1. CASE CreateStart(q)
      <4>1. PICK row \in NewRows :
              Start(q, [Idle EXCEPT !.step = "creating", !.row = row])
        BY <3>1 DEF CreateStart
      <4>2. [Idle EXCEPT !.step = "creating", !.row = row].step = "creating"
        BY DEF Idle
      <4>3. QED BY <4>1, <4>2 DEF Start
    <3>2. ASSUME NEW step \in {"cancelRead", "matching", "linking"}, NEW r \in Rec,
                 Start(q, [Idle EXCEPT !.step = step, !.id = r, !.row = rec[r]])
          PROVE  Begun
      <4>1. [Idle EXCEPT !.step = step, !.id = r, !.row = rec[r]].step = step
        BY DEF Idle
      <4>2. QED BY <3>2, <4>1 DEF Start
    <3> HIDE DEF Begun
    <3>3. QED BY <3>1, <3>2 DEF Begin, CancelRead, MatchRead, LinkRead
  <2>2. QED BY <2>1 DEF Typed, TypeOK, Carries
<1>3. Kept(rec, rec') BY <1>1 DEF Kept, SameMoney
<1>4. QED BY <1>1, <1>2, <1>3, OneWayKept

LEMMA OneWayCreate ==
  ASSUME Typed, Faithful, OneWay, NEW q \in Request,
         CreateStore(q) \/ CreateCommit(q)
  PROVE  OneWay'
<1>0. Kept(rec, rec') BY FaithfulCreate
<1>1. CASE CreateStore(q)
  <2>1. PICK v \in Rec : CreateStore(q)!(v) BY <1>1 DEF CreateStore
  <2>2. req[q] \in Session /\ req[q].row \in Original
    BY <2>1, SessionFacts
  <2>3. req[q].row # NoRow BY <2>2, RowsAreDisjoint
  <2>4. rec'[v] # NoRow /\ \A r \in Rec : r # v => rec'[r] = rec[r]
    BY <2>1, <2>3 DEF Typed, TypeOK
  <2>5. /\ \A p \in Request : p # q => req'[p] = req[p]
        /\ req'[q].step = "created" /\ req'[q].id = v
    BY <2>1, <2>2 DEF Typed, TypeOK, Session
  <2>6. \A r \in Rec : Carries(req'[q], r) => r = v BY <2>5 DEF Carries
  <2>7. QED BY <1>0, <2>1, <2>4, <2>5, <2>6, OneWayStore
               DEF queues, workers, history
<1>2. CASE CreateCommit(q)
  <2>1. PICK lost \in SUBSET {"balance", "center"} : CreateCommit(q)!(lost)
    BY <1>2 DEF CreateCommit
  <2>2. /\ rec' = rec /\ posted' = posted /\ balanceW' = balanceW
        /\ req' = [req EXCEPT ![q] = Idle] /\ req[q].step = "created"
    BY <2>1 DEF stores, workers
  <2> DEFINE job == PostJob(req[q].id, req[q].row)
  <2>3. req[q].row \in Original /\ req[q].id \in Rec
    BY <2>2, SessionFacts
  <2>4. job \in BalanceJob /\ JobRight(job) /\ job.src = req[q].id
    BY <2>2, <2>3, JobTypes, PostJobRight DEF PostJob
  <2>5. Carries(req[q], job.src) BY <2>2, <2>4 DEF Carries
  <2>6. balanceQ' = balanceQ
        \/ balanceQ' = Enqueue(balanceQ, job, "balance" \in lost)
    BY <2>1
  <2> HIDE DEF job
  <2>7. CASE balanceQ' = Enqueue(balanceQ, job, "balance" \in lost)
    BY <2>2, <2>4, <2>5, <2>7, OneWayDispatch
  <2>8. CASE balanceQ' = balanceQ
    <3>1. \A p \in Request, r \in Rec : Carries(req'[p], r) => Carries(req[p], r)
      BY <2>2 DEF Typed, TypeOK, Carries, Idle
    <3>2. QED BY <1>0, <2>2, <2>8, <3>1, OneWayKept
  <2>9. QED BY <2>6, <2>7, <2>8
<1>3. QED BY <1>1, <1>2

LEMMA OneWayCancel ==
  ASSUME Typed, Faithful, OneWay, NEW q \in Request,
         \/ CancelValidate(q) \/ CancelStore(q) \/ CancelCommit(q)
         \/ CancelFail(q)
  PROVE  OneWay'
<1>0. Kept(rec, rec') BY FaithfulCancel
<1>1. CASE CancelValidate(q) \/ CancelFail(q)
  <2>1. /\ posted' = posted /\ balanceQ' = balanceQ /\ balanceW' = balanceW
    BY <1>1 DEF CancelValidate, CancelFail, queues, workers, history
  <2>2. req'[q].step \notin {"created", "reversed"}
    <3>1. req[q] \in Session
      BY <1>1, SessionFacts DEF CancelValidate, CancelFail
    <3>2. \/ req' = [req EXCEPT ![q].step = "cancelling"]
          \/ req' = [req EXCEPT ![q] = Idle]
      BY <1>1 DEF CancelValidate, CancelFail
    <3>3. QED BY <3>1, <3>2 DEF Typed, TypeOK, Session, Idle
  <2>a. \A p \in Request : p # q => req'[p] = req[p]
    BY <1>1 DEF CancelValidate, CancelFail, Typed, TypeOK
  <2>b. \A p \in Request, r \in Rec : Carries(req'[p], r) => Carries(req[p], r)
    BY <2>2, <2>a DEF Carries
  <2>3. QED BY <1>0, <2>1, <2>b, OneWayKept
<1>2. CASE CancelStore(q)
  <2>1. PICK v \in Rec : CancelStore(q)!(v) BY <1>2 DEF CancelStore
  <2>2. req[q] \in Session /\ req[q].row \in Original /\ req[q].id \in Rec
    BY <2>1, SessionFacts
  <2>3. ReversalRow(req[q].row, req[q].id) # NoRow
    BY <2>2, ReversalRowFacts, RowAssumption
  <2>4. rec'[v] # NoRow /\ \A r \in Rec : r # v => rec'[r] = rec[r]
    BY <2>1, <2>3 DEF Typed, TypeOK
  <2>5. /\ \A p \in Request : p # q => req'[p] = req[p]
        /\ req'[q].step = "reversed" /\ req'[q].rev = v
    BY <2>1, <2>2 DEF Typed, TypeOK, Session
  <2>6. \A r \in Rec : Carries(req'[q], r) => r = v BY <2>5 DEF Carries
  <2>7. QED BY <1>0, <2>1, <2>4, <2>5, <2>6, OneWayStore
               DEF queues, workers
<1>3. CASE CancelCommit(q)
  <2>1. PICK lost \in SUBSET {"balance", "status", "center"} :
          CancelCommit(q)!(lost)
    BY <1>3 DEF CancelCommit
  <2>2. /\ rec' = rec /\ posted' = posted /\ balanceW' = balanceW
        /\ req' = [req EXCEPT ![q] = Idle] /\ req[q].step = "reversed"
    BY <2>1 DEF stores, workers
  <2> DEFINE job == ReverseJob(req[q].rev, req[q].row)
  <2>3. req[q].row \in Original /\ req[q].rev \in Rec
    BY <2>2, SessionFacts
  <2>4. job \in BalanceJob /\ JobRight(job) /\ job.src = req[q].rev
    BY <2>2, <2>3, JobTypes, ReverseJobRight DEF ReverseJob
  <2>5. Carries(req[q], job.src) BY <2>2, <2>4 DEF Carries
  <2>6. balanceQ' = Enqueue(balanceQ, job, "balance" \in lost) BY <2>1
  <2> HIDE DEF job
  <2>7. QED BY <2>2, <2>4, <2>5, <2>6, OneWayDispatch
<1>4. QED BY <1>1, <1>2, <1>3

LEMMA OneWayReconcile ==
  ASSUME Typed, Faithful, OneWay, NEW q \in Request, ReconcileDispatch(q)
  PROVE  OneWay'
<1>1. /\ rec' = rec /\ posted' = posted /\ balanceQ' = balanceQ
      /\ balanceW' = balanceW /\ req' = [req EXCEPT ![q] = Idle]
  BY DEF ReconcileDispatch, stores, workers
<1>2. \A p \in Request, r \in Rec : Carries(req'[p], r) => Carries(req[p], r)
  BY <1>1 DEF Typed, TypeOK, Carries, Idle
<1>3. Kept(rec, rec') BY <1>1 DEF Kept, SameMoney
<1>4. QED BY <1>1, <1>2, <1>3, OneWayKept

(* A status job never moves money: what it carries was realized already,   *)
(* or becomes void.                                                        *)
LEMMA NothingRealizes ==
  ASSUME Typed, Faithful, Sound, CreateStatus \subseteq Realized,
         statusW = "stored"
  PROVE  ~Realizes(Head(statusQ).row, Head(statusQ).to)
<1> DEFINE job == Head(statusQ)
<1>1. statusQ # <<>> BY DEF Typed, WorkersBusy
<1>2. job \in StatusJob /\ job.row \in Original BY <1>1, HeadStatusJob
<1>3. job = statusQ[1] /\ 1 \in 1..Len(statusQ)
  BY <1>1, EmptySeq, HeadTailProperties, LenProperties DEF Typed, TypeOK
<1>4. JobOK(rec, job) BY <1>3 DEF Faithful
<1>5. job.row.status # "PENDING" BY <1>4 DEF JobOK, Born
<1>6. job.to = "RECONCILED" => job.row.status # "VOID"
  BY <1>4 DEF JobOK, Sound
<1>7. job.row.status \in Status BY <1>2 DEF Original
<1>8. job.to \in {"RECONCILED", "VOID"} BY <1>2 DEF StatusJob
<1> HIDE DEF job
<1>9. ~Realizes(job.row, job.to)
  BY <1>5, <1>6, <1>7, <1>8 DEF Realizes, IsRealizedStatus, Realized, Status
<1>10. QED BY <1>9 DEF job

LEMMA OneWayStatus ==
  ASSUME Typed, Faithful, OneWay, Sound, CreateStatus \subseteq Realized,
         StatusWorker
  PROVE  OneWay' /\ posted' = posted /\ balance' = balance
<1>0. Kept(rec, rec') BY FaithfulStatus
<1>1. CASE StatusDispatch
  BY <1>0, <1>1, NothingRealizes, SameCarriers, OneWayKept
     DEF StatusDispatch, stores
<1>2. CASE StatusValidate \/ StatusStore
  BY <1>0, <1>2, SameCarriers, OneWayKept DEF StatusValidate, StatusStore, stores
<1>3. QED BY <1>1, <1>2 DEF StatusWorker

LEMMA OneWayOthers ==
  ASSUME Typed, Faithful, OneWay,
         \/ BalanceWorker \/ CenterUpdate \/ JobFails
         \/ \E a \in Account : EditRead(a) \/ EditWrite(a)
         \/ \E m \in Month : FlipMonth(m)
  PROVE  OneWay'
<1> USE DEF stores, queues, workers, history
<1>0. Kept(rec, rec') BY FaithfulOthers
<1>1. CASE BalanceRead
  BY <1>0, <1>1, SameCarriers, OneWayKept DEF BalanceRead
<1>2. CASE BalanceWrite BY <1>2, OneWaySettle
<1>3. CASE MasterUpdate
  BY <1>3, OneWayTail DEF MasterUpdate, Typed, WorkersBusy
<1>4. CASE CenterUpdate
  BY <1>0, <1>4, SameCarriers, OneWayKept DEF CenterUpdate
<1>5. CASE JobFails
  <2>1. CASE balanceQ' = balanceQ /\ balanceW' = balanceW
    BY <1>0, <1>5, <2>1, SameCarriers, OneWayKept DEF JobFails
  <2>2. CASE balanceW.step # "idle" /\ balanceQ' = Tail(balanceQ)
    BY <1>5, <2>2, OneWayTail DEF JobFails, Typed, WorkersBusy
  <2>3. QED BY <1>5, <2>1, <2>2 DEF JobFails
<1>6. CASE \/ \E a \in Account : EditRead(a) \/ EditWrite(a)
           \/ \E m \in Month : FlipMonth(m)
  BY <1>0, <1>6, SameCarriers, OneWayKept DEF EditRead, EditWrite, FlipMonth
<1>7. QED BY <1>1, <1>2, <1>3, <1>4, <1>5, <1>6 DEF BalanceWorker
-----------------------------------------------------------------------------
(***************************************************************************)
(* Sound: amounts of new records, what the workers hold.                   *)
(***************************************************************************)
LEMMA NewRowsMoney ==
  \A row \in NewRows : Booked(row) /\ row.of = NoRec
<1>1. ASSUME NEW t \in Postable, NEW n \in Amount, NEW a, NEW c, NEW m,
             NEW s \in CreateStatus \union {"CLEARED"},
             t # "OUTGO" => c = NoCostCenter
      PROVE  LET row == NewRow(t, n, a, c, m, s, NoRec)
             IN  Booked(row) /\ row.of = NoRec
  <2>1. s \in Status /\ t # "REVERSAL"
    BY StatusAssumption DEF Postable, Cancellable, Status, Realized
  <2>2. QED BY <1>1, <2>1, NewRowFacts DEF Booked
<1>2. QED
  BY <1>1, LoanAssumption DEF NewRows, LoanRows, Postable, Cancellable

LEMMA SoundRequests ==
  ASSUME Typed, Faithful, Sound,
         [Next]_vars
  PROVE  \A q \in Request :
           req'[q].step = "creating" => Booked(req'[q].row)
<1> SUFFICES ASSUME NEW p \in Request, req'[p].step = "creating",
                    req'[p] # req[p]
             PROVE  Booked(req'[p].row)
  BY DEF Sound
<1>1. ASSUME NEW q \in Request, CreateStart(q)
      PROVE  Booked(req'[p].row)
  <2>1. PICK row \in NewRows :
          Start(q, [Idle EXCEPT !.step = "creating", !.row = row])
    BY <1>1 DEF CreateStart
  <2>2. req' = [req EXCEPT ![q] = [Idle EXCEPT !.step = "creating", !.row = row]]
    BY <2>1 DEF Start
  <2>3. p = q /\ req'[q].row = row BY <2>2 DEF Typed, TypeOK, Idle
  <2>4. QED BY <2>3, NewRowsMoney
<1>2. ASSUME NEW q \in Request, NEW r \in Rec,
             NEW step \in {"cancelRead", "matching", "linking"},
             Start(q, [Idle EXCEPT !.step = step, !.id = r, !.row = rec[r]])
      PROVE  FALSE
  <2>1. req' = [req EXCEPT ![q] = [Idle EXCEPT !.step = step, !.id = r, !.row = rec[r]]]
    BY <1>2 DEF Start
  <2>2. [Idle EXCEPT !.step = step, !.id = r, !.row = rec[r]].step = step
    BY DEF Idle
  <2>3. QED BY <2>1, <2>2 DEF Typed, TypeOK
<1>3. ASSUME NEW q \in Request, NEW step \in {"created", "cancelling", "reversed"},
             NEW id, NEW rev, req[q].step # "idle",
             \/ req' = [req EXCEPT ![q].step = step]
             \/ req' = [req EXCEPT ![q].step = step, ![q].id = id]
             \/ req' = [req EXCEPT ![q].step = step, ![q].rev = rev]
      PROVE  FALSE
  <2>1. req[q] \in Session BY <1>3, SessionFacts
  <2>2. QED BY <1>3, <2>1 DEF Typed, TypeOK, Session
<1>4. ASSUME NEW q \in Request, req' = [req EXCEPT ![q] = Idle]
      PROVE  FALSE
  BY <1>4 DEF Typed, TypeOK, Idle
<1>5. ASSUME NEW q \in Request, Begin(q) PROVE Booked(req'[p].row)
  BY <1>1, <1>2, <1>5 DEF Begin, CancelRead, MatchRead, LinkRead
<1>6. ASSUME NEW q \in Request, Finish(q) \/ CancelFail(q) PROVE FALSE
  <2>1. CASE CreateStore(q) \/ CancelStore(q)
    BY <2>1, <1>3 DEF CreateStore, CancelStore
  <2>2. CASE CancelValidate(q) BY <2>2, <1>3, <1>4 DEF CancelValidate
  <2>3. CASE CreateCommit(q) \/ CancelCommit(q) \/ ReconcileDispatch(q)
             \/ CancelFail(q)
    BY <2>3, <1>4 DEF CreateCommit, CancelCommit, ReconcileDispatch, CancelFail
  <2>4. QED BY <1>6, <2>1, <2>2, <2>3 DEF Finish
<1>7. CASE Crash BY <1>7 DEF Crash, Idle
<1>8. CASE \/ StatusWorker \/ BalanceWorker \/ CenterUpdate \/ JobFails
           \/ \E a \in Account : EditRead(a) \/ EditWrite(a)
           \/ \E m \in Month : FlipMonth(m)
           \/ UNCHANGED vars
  BY <1>8 DEF StatusWorker, StatusValidate, StatusStore, StatusDispatch,
     BalanceWorker, BalanceRead, BalanceWrite, MasterUpdate, CenterUpdate,
     JobFails, EditRead, EditWrite, FlipMonth, vars
<1>9. QED BY <1>5, <1>6, <1>7, <1>8 DEF Next

(* A job put into a queue that is not empty leaves its head where it is.   *)
LEMMA EnqueueHead ==
  ASSUME NEW S, NEW queue \in Seq(S), NEW e \in S, NEW lost, queue # <<>>
  PROVE  Head(Enqueue(queue, e, lost)) = Head(queue)
BY AppendProperties DEF Enqueue

(* Requests add to the end of the queues: the workers do not notice.       *)
LEMMA RequestsAppend ==
  ASSUME Typed, NEW q \in Request, Begin(q) \/ Finish(q) \/ CancelFail(q)
  PROVE  /\ UNCHANGED <<balance, posted, statusW, balanceW, editor>>
         /\ balanceQ # <<>> => Head(balanceQ') = Head(balanceQ)
         /\ statusQ # <<>> => Head(statusQ') = Head(statusQ)
<1> USE DEF stores, queues, workers, history
<1>1. CASE \/ Begin(q) \/ CreateStore(q) \/ CancelValidate(q) \/ CancelStore(q)
           \/ CancelFail(q)
  BY <1>1 DEF Begin, CreateStart, CancelRead, MatchRead, LinkRead, CreateStore,
              CancelValidate, CancelStore, CancelFail
<1>2. CASE CreateCommit(q)
  <2>1. PICK lost \in SUBSET {"balance", "center"} : CreateCommit(q)!(lost)
    BY <1>2 DEF CreateCommit
  <2>2. PostJob(req[q].id, req[q].row) \in BalanceJob
    BY <2>1, SessionFacts, JobTypes
  <2>3. balanceQ \in Seq(BalanceJob) BY DEF Typed, TypeOK
  <2>4. balanceQ # <<>> => Head(balanceQ') = Head(balanceQ)
    BY <2>1, <2>2, <2>3, EnqueueHead
  <2>5. QED BY <2>1, <2>4
<1>3. CASE CancelCommit(q)
  <2>1. PICK lost \in SUBSET {"balance", "status", "center"} :
          CancelCommit(q)!(lost)
    BY <1>3 DEF CancelCommit
  <2>2. req[q].row \in Original /\ req[q].id \in Rec /\ req[q].rev \in Rec
    BY <2>1, SessionFacts
  <2>3. ReverseJob(req[q].rev, req[q].row) \in BalanceJob BY <2>2, JobTypes
  <2>4. [id |-> req[q].id, row |-> req[q].row, to |-> "VOID",
         withId |-> TRUE] \in StatusJob
    BY <2>2 DEF StatusJob
  <2>5. balanceQ \in Seq(BalanceJob) /\ statusQ \in Seq(StatusJob)
    BY DEF Typed, TypeOK
  <2>6. balanceQ # <<>> => Head(balanceQ') = Head(balanceQ)
    BY <2>1, <2>3, <2>5, EnqueueHead
  <2>7. statusQ # <<>> => Head(statusQ') = Head(statusQ)
    BY <2>1, <2>4, <2>5, EnqueueHead
  <2>8. QED BY <2>1, <2>6, <2>7
<1>4. CASE ReconcileDispatch(q)
  <2>1. PICK lost \in SUBSET {"status"} : ReconcileDispatch(q)!(lost)
    BY <1>4 DEF ReconcileDispatch
  <2>2. req[q].row \in Original /\ req[q].id \in Rec BY <2>1, SessionFacts
  <2> DEFINE job == [id |-> req[q].id, row |-> req[q].row, to |-> "RECONCILED",
                     withId |-> req[q].step = "matching"]
  <2>3. job \in StatusJob BY <2>2 DEF StatusJob
  <2>4. statusQ' = Enqueue(statusQ, job, "status" \in lost) BY <2>1
  <2> HIDE DEF job
  <2>5. statusQ \in Seq(StatusJob) BY DEF Typed, TypeOK
  <2>6. statusQ # <<>> => Head(statusQ') = Head(statusQ)
    BY <2>3, <2>4, <2>5, EnqueueHead
  <2>7. QED BY <2>1, <2>6
<1>5. QED BY <1>1, <1>2, <1>3, <1>4 DEF Finish

LEMMA SoundNext ==
  ASSUME Typed, Faithful, Sound, [Next]_vars
  PROVE  Sound'
<1>1. \A q \in Request :
        req'[q].step = "creating" => Booked(req'[q].row)
  BY SoundRequests
<1>2. SUFFICES ASSUME statusW' = "stored" PROVE Head(statusQ').withId
  BY <1>1 DEF Sound
<1>3. ASSUME NEW q \in Request, Begin(q) \/ Finish(q) \/ CancelFail(q)
      PROVE  Head(statusQ').withId
  <2>1. statusW = "stored" /\ statusQ # <<>>
    BY <1>2, <1>3, RequestsAppend DEF Typed, WorkersBusy
  <2>2. QED BY <1>3, <2>1, RequestsAppend DEF Sound
<1>4. CASE StatusWorker
  BY <1>2, <1>4 DEF StatusWorker, StatusValidate, StatusStore, StatusDispatch,
                    Sound
<1>5. CASE \/ BalanceWorker \/ CenterUpdate
           \/ \E a \in Account : EditRead(a) \/ EditWrite(a)
           \/ \E m \in Month : FlipMonth(m)
           \/ UNCHANGED vars
  <2>1. statusQ' = statusQ /\ statusW' = statusW
    BY <1>5 DEF BalanceWorker, BalanceRead, BalanceWrite, MasterUpdate,
       CenterUpdate, EditRead, EditWrite, FlipMonth, vars, queues, workers
  <2>2. QED BY <1>2, <2>1 DEF Sound
<1>6. CASE JobFails \/ Crash BY <1>2, <1>6 DEF JobFails, Crash, workers, Sound
<1>7. QED BY <1>3, <1>4, <1>5, <1>6 DEF Next

(* What the balance worker has read stays the balance of the account: only *)
(* an edit that overlaps its job writes another.                           *)
LEMMA SeenNext ==
  ASSUME Typed, Faithful, Seen, [Next]_vars, "staleEdit" \notin incidents'
  PROVE  Seen'
<1> USE DEF stores, queues, workers, history
<1>1. SUFFICES ASSUME balanceW'.step = "read"
               PROVE  balanceW'.seen = balance'[Head(balanceQ').account]
  BY DEF Seen
<1>2. balanceW.step = "read" => balanceQ # <<>> BY DEF Typed, WorkersBusy
<1>3. ASSUME NEW q \in Request, Begin(q) \/ Finish(q) \/ CancelFail(q)
      PROVE  balanceW'.seen = balance'[Head(balanceQ').account]
  BY <1>1, <1>2, <1>3, RequestsAppend DEF Seen
<1>4. CASE StatusValidate \/ StatusStore
  BY <1>1, <1>4 DEF StatusValidate, StatusStore, Seen
<1>5. CASE StatusDispatch
  <2>1. PICK lost \in SUBSET {"balance", "center"} : StatusDispatch!(lost)
    BY <1>5 DEF StatusDispatch
  <2>2. statusQ # <<>> BY <2>1 DEF Typed, WorkersBusy
  <2>3. PostJob(Head(statusQ).id, Head(statusQ).row) \in BalanceJob
    BY <2>2, HeadStatusJob, JobTypes
  <2>4. balanceQ \in Seq(BalanceJob) BY DEF Typed, TypeOK
  <2>5. balanceQ # <<>> => Head(balanceQ') = Head(balanceQ)
    BY <2>1, <2>3, <2>4, EnqueueHead
  <2>6. QED BY <1>1, <1>2, <2>1, <2>5 DEF Seen
<1>6. CASE BalanceWorker
  <2>1. CASE BalanceRead BY <2>1 DEF BalanceRead
  <2>2. CASE BalanceWrite
    BY <1>1, <2>2 DEF BalanceWrite, Typed, TypeOK
  <2>3. CASE MasterUpdate BY <1>1, <2>3 DEF MasterUpdate, IdleBal
  <2>4. QED BY <1>6, <2>1, <2>2, <2>3 DEF BalanceWorker
<1>7. CASE CenterUpdate \/ \E m \in Month : FlipMonth(m)
  BY <1>1, <1>7 DEF CenterUpdate, FlipMonth, Seen
<1>8. CASE JobFails \/ Crash
  BY <1>1, <1>8 DEF JobFails, Crash, IdleBal, Seen
<1>9. ASSUME NEW a \in Account, EditRead(a) \/ EditWrite(a)
      PROVE  balanceW'.seen = balance'[Head(balanceQ').account]
  <2>1. balance' = balance
    BY <1>9 DEF EditRead, EditWrite, Noted, Typed, TypeOK
  <2>2. balanceW' = balanceW /\ balanceQ' = balanceQ
    BY <1>9 DEF EditRead, EditWrite
  <2>3. QED BY <1>1, <2>1, <2>2 DEF Seen
<1>10. CASE UNCHANGED vars BY <1>1, <1>10 DEF vars, Seen
<1>11. QED
  BY <1>3, <1>4, <1>5, <1>6, <1>7, <1>8, <1>9, <1>10 DEF Next, StatusWorker

(* What has happened is never forgotten.                                   *)
LEMMA IncidentsGrow == ASSUME [Next]_vars PROVE incidents \subseteq incidents'
<1> USE DEF history
<1>1. ASSUME NEW q \in Request, Begin(q) \/ Finish(q) \/ CancelFail(q)
      PROVE  incidents \subseteq incidents'
  BY <1>1 DEF Begin, CreateStart, CancelRead, MatchRead, LinkRead, Finish,
     CreateStore, CreateCommit, CancelValidate, CancelStore, CancelCommit,
     CancelFail, ReconcileDispatch
<1>2. CASE StatusWorker
  BY <1>2 DEF StatusWorker, StatusValidate, StatusStore, StatusDispatch
<1>3. CASE BalanceWorker \/ CenterUpdate
  BY <1>3 DEF BalanceWorker, BalanceRead, BalanceWrite, MasterUpdate,
              CenterUpdate
<1>4. CASE \/ JobFails \/ Crash
           \/ \E a \in Account : EditRead(a) \/ EditWrite(a)
           \/ \E m \in Month : FlipMonth(m)
           \/ UNCHANGED vars
  BY <1>4 DEF JobFails, Crash, EditRead, EditWrite, FlipMonth, vars
<1>5. QED BY <1>1, <1>2, <1>3, <1>4 DEF Next

LEMMA CrashNoted == ASSUME Crash PROVE "crash" \in incidents'
BY DEF Crash

LEMMA OneWayNext ==
  ASSUME Typed, Faithful, Sound, OneWay, [Next]_vars, Steady'
  PROVE  OneWay'
<1>1. CreateStatus \subseteq Realized /\ ~Crash BY CrashNoted DEF Steady
<1>2. CASE UNCHANGED vars
  <2>1. Kept(rec, rec') BY <1>2 DEF vars, stores, Kept, SameMoney
  <2>2. QED BY <1>2, <2>1, OneWayKept, SameCarriers
            DEF vars, stores, queues, workers, history
<1>3. ASSUME NEW q \in Request, Begin(q) \/ Finish(q) \/ CancelFail(q)
      PROVE  OneWay'
  BY <1>3, OneWayBegin, OneWayCreate, OneWayCancel, OneWayReconcile DEF Finish
<1>4. CASE StatusWorker BY <1>1, <1>4, OneWayStatus
<1>5. CASE \/ BalanceWorker \/ CenterUpdate \/ JobFails
           \/ \E a \in Account : EditRead(a) \/ EditWrite(a)
           \/ \E m \in Month : FlipMonth(m)
  BY <1>5, OneWayOthers
<1>6. QED BY <1>1, <1>2, <1>3, <1>4, <1>5 DEF Next

(***************************************************************************)
(* The inductive invariant.                                                *)
(***************************************************************************)
LEMMA CarefulInit == Init => Careful
<1> SUFFICES ASSUME Init PROVE Careful OBVIOUS
<1>1. Typed /\ Faithful BY TypedInit, FaithfulInit
<1>2. Len(balanceQ) = 0 BY EmptySeq DEF Init
<1>3. OneWay BY <1>2 DEF Init, OneWay, Carries, Idle
<1>4. Sound /\ Seen BY DEF Init, Sound, Seen, Idle, IdleBal
<1>5. QED BY <1>1, <1>3, <1>4 DEF Careful

LEMMA CarefulNext ==
  ASSUME Careful, [Next]_vars
  PROVE  Careful'
<1> USE DEF Careful
<1>1. incidents \subseteq incidents' BY IncidentsGrow
<1>2. Typed' /\ Faithful' /\ Sound' BY TypedNext, FaithfulNext, SoundNext
<1>3. Steady' => OneWay'
  <2>1. Steady' => Steady BY <1>1 DEF Steady
  <2>2. QED BY <2>1, OneWayNext
<1>4. "staleEdit" \notin incidents' => Seen' BY <1>1, SeenNext
<1>5. QED BY <1>2, <1>3, <1>4

(* The money of a stored record is with one request, in one job or in the  *)
(* balance, never in two of them, wherever nothing crashed.                *)
THEOREM MoneyGoesOneWay == Spec => []Careful
<1>1. Careful /\ [Next]_vars => Careful' BY CarefulNext
<1>2. QED BY <1>1, CarefulInit, PTL DEF Spec

(* Every step but one leaves what has been posted as it is.                *)
LEMMA PostedSame ==
  ASSUME [Next]_vars, ~BalanceWrite
  PROVE  posted' = posted
<1>1. ASSUME NEW q \in Request, Begin(q) \/ Finish(q) \/ CancelFail(q)
      PROVE  posted' = posted
  <2>1. CASE Begin(q)
    BY <2>1 DEF Begin, CreateStart, CancelRead, MatchRead, LinkRead, history
  <2>2. CASE CreateStore(q) \/ CreateCommit(q) \/ ReconcileDispatch(q)
    BY <2>2 DEF CreateStore, CreateCommit, ReconcileDispatch, history
  <2>3. CASE \/ CancelValidate(q) \/ CancelStore(q) \/ CancelCommit(q)
             \/ CancelFail(q)
    BY <2>3 DEF CancelValidate, CancelStore, CancelCommit, CancelFail, history
  <2>4. QED BY <1>1, <2>1, <2>2, <2>3 DEF Finish
<1>2. CASE StatusWorker
  BY <1>2 DEF StatusWorker, StatusValidate, StatusStore, StatusDispatch
<1>3. CASE \/ BalanceRead \/ MasterUpdate \/ CenterUpdate \/ JobFails \/ Crash
           \/ \E a \in Account : EditRead(a) \/ EditWrite(a)
           \/ \E m \in Month : FlipMonth(m)
           \/ UNCHANGED vars
  BY <1>3 DEF BalanceRead, MasterUpdate, CenterUpdate, JobFails, Crash, EditRead,
     EditWrite, FlipMonth, vars, history
<1>4. QED BY <1>1, <1>2, <1>3 DEF Next, BalanceWorker

(* The money of a record reaches its account at most once: whatever        *)
(* happens short of a crash, wherever records are created realized.        *)
THEOREM MoneyReachesOnce == Spec => []PostedOnce
<1> DEFINE Once == Steady => \A r \in Rec : posted[r] =< 1
<1>1. Init => Once BY DEF Init
<1>2. Careful /\ Once /\ [Next]_vars => Once'
  <2> SUFFICES ASSUME Careful, Once, [Next]_vars, Steady'
               PROVE  \A r \in Rec : posted'[r] =< 1
    OBVIOUS
  <2>1. Typed /\ Faithful /\ OneWay /\ \A r \in Rec : posted[r] =< 1
    BY IncidentsGrow DEF Careful, Steady
  <2>2. CASE BalanceWrite
    <3>1. posted[Head(balanceQ).src] = 0 BY <2>1, <2>2, OneWaySettle
    <3>2. QED BY <2>1, <2>2, <3>1 DEF BalanceWrite, Typed, TypeOK
  <2>3. CASE ~BalanceWrite BY <2>1, <2>3, PostedSame
  <2>4. QED BY <2>2, <2>3
<1>3. Once => PostedOnce BY DEF PostedOnce, Steady
<1> HIDE DEF Once
<1>4. QED BY <1>1, <1>2, <1>3, MoneyGoesOneWay, PTL DEF Spec
-----------------------------------------------------------------------------
(***************************************************************************)
(* The journal, as the records change.                                     *)
(***************************************************************************)
LEMMA WorthIsInt ==
  ASSUME Typed, Faithful, NEW r \in Rec, rec[r] # NoRow
  PROVE  Worth(r) \in Int
BY RecordFacts DEF Worth, Signed

LEMMA LineWritten ==
  ASSUME Typed, Faithful, NEW r \in Rec
  PROVE  r \in Promise!Written <=> rec[r] # NoRow
<1>1. ASSUME rec[r] # NoRow PROVE Journal[r] # NoRow
  <2>1. rec[r].account \in Account /\ rec[r].of \in Rec \union {NoRec}
    BY <1>1, RecordFacts
  <2>2. Worth(r) \in Int BY <1>1, WorthIsInt
  <2>3. QED BY <1>1, <2>1, <2>2, JournalAssumption DEF Journal
<1>2. QED BY <1>1 DEF Promise!Written, Journal

LEMMA LineKept ==
  ASSUME Typed, Faithful, Kept(rec, rec'), NEW r \in Rec, rec[r] # NoRow
  PROVE  Journal'[r] = Journal[r]
BY WorthKept DEF Kept, SameMoney, Journal

LEMMA SameJournal ==
  ASSUME Typed, Faithful, Kept(rec, rec'),
         \A r \in Rec : rec[r] = NoRow => rec'[r] = NoRow
  PROVE  Journal' = Journal
<1>1. \A r \in Rec : Journal'[r] = Journal[r]
  BY LineKept DEF Journal
<1>2. QED BY <1>1 DEF Journal

LEMMA OneMoreLine ==
  ASSUME Typed, Faithful, Kept(rec, rec'), NEW v \in Rec, rec[v] = NoRow,
         rec'[v] # NoRow, \A r \in Rec : r # v => rec'[r] = rec[r]
  PROVE  Journal' = [Journal EXCEPT ![v] =
           [account |-> rec'[v].account, worth |-> Worth(v)',
            of |-> rec'[v].of]]
<1>1. \A r \in Rec : r # v => Journal'[r] = Journal[r]
  BY LineKept DEF Journal
<1>2. Journal'[v] = [account |-> rec'[v].account, worth |-> Worth(v)',
                     of |-> rec'[v].of]
  BY DEF Journal
<1>3. QED BY <1>1, <1>2 DEF Journal
-----------------------------------------------------------------------------
(***************************************************************************)
(* Every step of the Ledger is a step of Books, or none.                   *)
(***************************************************************************)
LEMMA BooksInit == Init => Promise!Init
<1> SUFFICES ASSUME Init PROVE Promise!Init OBVIOUS
<1>1. Journal = [r \in Rec |-> NoRow] BY DEF Init, Journal
<1>2. Settled = {} BY DEF Init, Settled
<1>3. QED BY <1>1, <1>2 DEF Init, Promise!Init

LEMMA CreateWrites ==
  ASSUME Careful, NEW q \in Request, CreateStore(q)
  PROVE  \E r \in Rec : Promise!Write(r)
<1> USE DEF Careful
<1>1. PICK v \in Rec : CreateStore(q)!(v) BY DEF CreateStore
<1>2. req[q].row \in Original BY <1>1, SessionFacts
<1>3. /\ rec'[v] = req[q].row /\ rec'[v] # NoRow /\ rec'[v].of = NoRec
      /\ \A r \in Rec : r # v => rec'[r] = rec[r]
  BY <1>1, <1>2, RowsAreDisjoint DEF Typed, TypeOK
<1>4. Kept(rec, rec') BY FaithfulCreate
<1>5. Journal' = [Journal EXCEPT ![v] =
        [account |-> rec'[v].account, worth |-> Worth(v)', of |-> NoRec]]
  BY <1>1, <1>3, <1>4, OneMoreLine
<1>6. rec'[v].account \in Account BY <1>2, <1>3 DEF Original
<1>7. Worth(v)' \in Amount \union {-n : n \in Amount}
  <2>1. rec'[v].amount \in Amount BY <1>1, <1>3 DEF Sound, Booked
  <2>2. Worth(v)' = Signed(Operation(rec'[v].type), rec'[v].amount)
    BY <1>3 DEF Worth
  <2>3. QED BY <2>1, <2>2 DEF Signed
<1>8. v \notin Promise!Written BY <1>1, LineWritten
<1>9. Settled' = Settled /\ balance' = balance BY <1>1 DEF Settled, history
<1>10. Promise!Write(v)
  BY <1>5, <1>6, <1>7, <1>8, <1>9 DEF Promise!Write, Promise!Movement
<1>11. QED BY <1>10

LEMMA CancelReverses ==
  ASSUME Careful, NEW q \in Request, CancelStore(q)
  PROVE  \E r \in Rec : Promise!Reverse(r)
<1> USE DEF Careful
<1>1. PICK v \in Rec : CancelStore(q)!(v) BY DEF CancelStore
<1> DEFINE o == req[q].id
<1>2. req[q].row \in Original /\ o \in Rec BY <1>1, SessionFacts
<1>3. Snapshot(rec, o, req[q].row) BY <1>1 DEF Faithful, SessionOK
<1>4. ReversalRow(req[q].row, o) \in Reversal
      /\ ReversalRow(req[q].row, o).of = o
      /\ ReversalRow(req[q].row, o).account = req[q].row.account
  BY <1>2, ReversalRowFacts
<1>5. /\ rec'[v].of = o /\ rec'[v].account = req[q].row.account
      /\ rec'[v] # NoRow
      /\ \A r \in Rec : r # v => rec'[r] = rec[r]
  BY <1>1, <1>4, RowAssumption DEF Typed, TypeOK
<1>6. rec[o] # NoRow /\ rec[o].of = NoRec
      /\ rec[o].account = req[q].row.account
  BY <1>2, <1>3, RowsAreDisjoint DEF Snapshot, SameMoney
<1>7. Kept(rec, rec') BY FaithfulCancel
<1>8. Journal' = [Journal EXCEPT ![v] =
        [account |-> rec'[v].account, worth |-> Worth(v)', of |-> o]]
  BY <1>1, <1>5, <1>7, OneMoreLine
<1>9. o # NoRec /\ o # v BY <1>1, <1>2, <1>6, RecAssumption
<1>10. Worth(v)' = -Worth(o)
  BY <1>2, <1>5, <1>6, <1>9 DEF Worth
<1>11. /\ Journal[o].of = NoRec /\ Journal[o].account = rec'[v].account
       /\ Journal[o].worth = Worth(o)
  BY <1>2, <1>5, <1>6 DEF Journal
<1>12. v \notin Promise!Written /\ o \in Promise!Written
  BY <1>1, <1>2, <1>6, LineWritten
<1>13. Settled' = Settled /\ balance' = balance BY <1>1 DEF Settled
<1> HIDE DEF o
<1>14. Promise!Reverse(v)
  BY <1>8, <1>10, <1>11, <1>12, <1>13 DEF Promise!Reverse, Promise!Movement
<1>15. QED BY <1>14

LEMMA BalanceSettles ==
  ASSUME Careful, OneWay, Seen, BalanceWrite
  PROVE  \E r \in Rec : Promise!Settle(r)
<1> USE DEF Careful
<1> DEFINE job == Head(balanceQ)
<1>1. balanceW.step = "read" /\ balanceQ # <<>>
  BY DEF BalanceWrite, Typed, WorkersBusy
<1>2. job \in BalanceJob BY <1>1, HeadBalanceJob
<1>3. JobRight(job)
  <2>1. job = balanceQ[1] /\ 1 \in 1..Len(balanceQ)
    BY <1>1, EmptySeq, HeadTailProperties, LenProperties DEF Typed, TypeOK
  <2>2. QED BY <2>1 DEF OneWay
<1>4. job.src \in Rec /\ job.account \in Account BY <1>2 DEF BalanceJob
<1>5. posted[job.src] = 0 BY OneWaySettle
<1>6. Settled' = Settled \union {job.src} /\ job.src \notin Settled
  BY <1>4, <1>5 DEF BalanceWrite, Settled, Typed, TypeOK
<1>7. Kept(rec, rec') /\ rec' = rec BY FaithfulOthers DEF BalanceWrite, BalanceWorker
<1>8. Journal' = Journal BY <1>7, SameJournal
<1>9. Journal[job.src].account = job.account
      /\ Journal[job.src].worth = Signed(job.operation, job.amount)
  BY <1>3, <1>4 DEF JobRight, Journal
<1>10. balanceW.seen = balance[job.account] BY <1>1 DEF Seen
<1>11. balance[job.account] \in Int /\ job.amount \in Nat
  BY <1>2, <1>4 DEF Typed, TypeOK, BalanceJob
<1>12. balance' = [balance EXCEPT ![job.account] =
                     IF job.operation = "MONEY_IN"
                     THEN balanceW.seen + job.amount
                     ELSE balanceW.seen - job.amount]
  BY DEF BalanceWrite
<1> HIDE DEF job
<1>13. balance' = [balance EXCEPT ![Journal[job.src].account] =
                     @ + Journal[job.src].worth]
  BY <1>9, <1>10, <1>11, <1>12 DEF Signed
<1>14. job.src \in Promise!Written BY <1>3, <1>4, LineWritten DEF JobRight
<1>15. Promise!Settle(job.src)
  BY <1>6, <1>8, <1>13, <1>14 DEF Promise!Settle
<1>16. QED BY <1>4, <1>15

(* Whatever else happens to a record leaves its line of the journal.       *)
LEMMA BooksUntouched ==
  ASSUME Careful, Kept(rec, rec'),
         \A r \in Rec : rec[r] = NoRow => rec'[r] = NoRow,
         posted' = posted, balance' = balance
  PROVE  UNCHANGED <<Journal, Settled, balance>>
<1>1. Journal' = Journal BY SameJournal DEF Careful
<1>2. QED BY <1>1 DEF Settled

(* Where the bounds leave no crash and no edit, none happens.              *)
Certain == CreateStatus \subseteq Realized /\ MaxCrashes = 0 /\ MaxEdits = 0

Uneventful ==
  /\ incidents \intersect {"crash", "staleEdit"} = {}
  /\ \A a \in Account : ~editor[a].busy

LEMMA NoEdit ==
  ASSUME Typed, Uneventful, Certain
  PROVE  ~Crash /\ \A a \in Account : ~EditRead(a) /\ ~EditWrite(a)
<1>1. used.crashes \in Nat /\ used.edits \in Nat
  BY DEF Typed, TypeOK, Spent
<1>2. QED BY <1>1 DEF Certain, Crash, EditRead, EditWrite, Uneventful

LEMMA UneventfulNext ==
  ASSUME Certain, Typed, Uneventful, [Next]_vars
  PROVE  Uneventful'
<1> USE DEF history
<1>1. ASSUME NEW q \in Request, Begin(q) \/ Finish(q) \/ CancelFail(q)
      PROVE  Uneventful'
  <2>1. editor' = editor BY <1>1, RequestsAppend
  <2>2. incidents' \intersect {"crash", "staleEdit"}
          \subseteq incidents \intersect {"crash", "staleEdit"}
    BY <1>1 DEF Begin, CreateStart, CancelRead, MatchRead, LinkRead, Finish,
       CreateStore, CreateCommit, CancelValidate, CancelStore, CancelCommit,
       CancelFail, ReconcileDispatch, Noted
  <2>3. QED BY <2>1, <2>2 DEF Uneventful
<1>2. CASE StatusWorker
  BY <1>2 DEF StatusWorker, StatusValidate, StatusStore, StatusDispatch, Noted,
              Uneventful
<1>3. CASE \/ BalanceWorker \/ CenterUpdate \/ JobFails
           \/ \E m \in Month : FlipMonth(m)
           \/ UNCHANGED vars
  BY <1>3 DEF BalanceWorker, BalanceRead, BalanceWrite, MasterUpdate,
              CenterUpdate, JobFails, FlipMonth, vars, Uneventful
<1>4. QED BY <1>1, <1>2, <1>3, NoEdit DEF Next

LEMMA BooksNext ==
  ASSUME Certain, Careful, Uneventful, [Next]_vars
  PROVE  [Promise!Next]_<<Journal, Settled, balance>>
<1> USE DEF Careful
<1>0. Kept(rec, rec') /\ OneWay /\ Seen
  BY FaithfulNext DEF Certain, Steady, Uneventful
<1>1. ASSUME NEW q \in Request, CreateStore(q) PROVE Promise!Next
  BY <1>1, CreateWrites DEF Promise!Next
<1>2. ASSUME NEW q \in Request, CancelStore(q) PROVE Promise!Next
  BY <1>2, CancelReverses DEF Promise!Next
<1>3. CASE BalanceWrite BY <1>0, <1>3, BalanceSettles DEF Promise!Next
<1>4. ASSUME NEW q \in Request,
             \/ Begin(q) \/ CreateCommit(q) \/ CancelValidate(q)
             \/ CancelCommit(q) \/ ReconcileDispatch(q)
      PROVE  UNCHANGED <<Journal, Settled, balance>>
  <2>1. rec' = rec /\ posted' = posted /\ balance' = balance
    BY <1>4 DEF Begin, CreateStart, CancelRead, MatchRead, LinkRead, CreateCommit,
       CancelValidate, CancelCommit, ReconcileDispatch, stores, history
  <2>2. QED BY <1>0, <2>1, BooksUntouched
<1>5. ASSUME NEW q \in Request, CancelFail(q)
      PROVE  UNCHANGED <<Journal, Settled, balance>>
  <2>1. req[q].step = "cancelling" /\ posted' = posted /\ balance' = balance
        /\ rec' = [rec EXCEPT ![req[q].id] = req[q].row]
    BY <1>5 DEF CancelFail
  <2>2. rec[req[q].id] # NoRow
    BY <2>1 DEF Faithful, SessionOK, Snapshot
  <2>3. \A r \in Rec : rec[r] = NoRow => rec'[r] = NoRow
    BY <2>1, <2>2 DEF Typed, TypeOK
  <2>4. QED BY <1>0, <2>1, <2>3, BooksUntouched
<1>6. CASE StatusWorker
  <2>1. posted' = posted /\ balance' = balance
    BY <1>0, <1>6, OneWayStatus DEF Certain
  <2>2. \A r \in Rec : rec[r] = NoRow => rec'[r] = NoRow
    <3>1. CASE StatusValidate \/ StatusDispatch
      BY <3>1 DEF StatusValidate, StatusDispatch, stores
    <3>2. CASE StatusStore
      <4>1. statusQ # <<>> BY <3>2 DEF StatusStore, Typed, WorkersBusy
      <4>2. Head(statusQ) = statusQ[1] /\ 1 \in 1..Len(statusQ)
        BY <4>1, EmptySeq, HeadTailProperties, LenProperties DEF Typed, TypeOK
      <4>3. rec[Head(statusQ).id] # NoRow
        BY <4>2 DEF Faithful, JobOK, Snapshot
      <4>4. QED BY <3>2, <4>3 DEF StatusStore, Typed, TypeOK
    <3>3. QED BY <1>6, <3>1, <3>2 DEF StatusWorker
  <2>3. QED BY <1>0, <2>1, <2>2, BooksUntouched
<1>7. CASE \/ BalanceRead \/ MasterUpdate \/ CenterUpdate \/ JobFails
           \/ \E m \in Month : FlipMonth(m)
           \/ UNCHANGED vars
  <2>1. rec' = rec /\ posted' = posted /\ balance' = balance
    BY <1>7 DEF BalanceRead, MasterUpdate, CenterUpdate, JobFails, FlipMonth,
       vars, stores, history
  <2>2. QED BY <1>0, <2>1, BooksUntouched
<1>8. QED
  BY <1>1, <1>2, <1>3, <1>4, <1>5, <1>6, <1>7, NoEdit
     DEF Next, Finish, BalanceWorker

(***************************************************************************)
(* The Ledger implements Books: whatever the order of requests, jobs,      *)
(* months that close, dispatches that are lost and jobs that fail, the     *)
(* journal only grows, by records and by their exact opposites, and no     *)
(* balance ever contains anything but movements of the journal, each at    *)
(* most once, in its own account and with its own amount.                  *)
(***************************************************************************)
THEOREM LedgerKeepsBooks == ASSUME Certain PROVE Spec => Promise!Spec
<1>1. Init => Promise!Init BY BooksInit
<1>2. Init => Uneventful BY DEF Init, Uneventful, IdleEdit
<1>3. Careful /\ Uneventful /\ [Next]_vars => Uneventful'
  BY UneventfulNext DEF Careful
<1>4. Careful /\ Uneventful /\ [Next]_vars
        => [Promise!Next]_<<Journal, Settled, balance>>
  BY BooksNext
<1>5. QED
  BY <1>1, <1>2, <1>3, <1>4, MoneyGoesOneWay, PTL
     DEF Spec, Promise!Spec, Promise!books
-----------------------------------------------------------------------------
(***************************************************************************)
(* Sums over finite sets.                                                  *)
(***************************************************************************)
(* The sum of a function over a finite set. MapThenSumSet folds over a set *)
(* by choosing its elements one after the other; it is the value at that   *)
(* set of any function that solves its recursive equation.                 *)
Sum(g, S) == MapThenSumSet(LAMBDA x : g[x], S)

Solves(F, S, g) ==
  F = [s \in SUBSET S |-> IF s = {} THEN 0
                          ELSE LET x == CHOOSE x \in s : TRUE
                               IN  g[x] + F[s \ {x}]]

(* A set of numbers has a least element; a set of finite sets one that     *)
(* contains no other of them.                                              *)
LEMMA NatMin ==
  ASSUME NEW T, T \subseteq Nat, T # {}
  PROVE  \E n \in T : \A m \in T : n =< m
<1>1. PICK n \in T : \A m \in T : ~ (<<m, n>> \in OpToRel(<, Nat))
  BY NatLessThanWellFounded, WFMin
<1>2. \A m \in T : ~ (m < n) BY <1>1 DEF OpToRel
<1>3. QED BY <1>2

(* a finite set with a subset that fails has a smallest one  *)
LEMMA Smallest ==
  ASSUME NEW S, IsFiniteSet(S), NEW Bad, Bad \subseteq SUBSET S, Bad # {}
  PROVE  \E T \in Bad : \A U \in Bad : ~(U \subseteq T /\ U # T)
<1> DEFINE Sizes == {Cardinality(T) : T \in Bad}
<1>1. \A T \in Bad : IsFiniteSet(T) /\ Cardinality(T) \in Nat
  BY FS_Subset, FS_CardinalityType
<1>2. PICK n \in Sizes : \A m \in Sizes : n =< m
  <2>1. Sizes \subseteq Nat /\ Sizes # {} BY <1>1
  <2> HIDE DEF Sizes
  <2>2. QED BY <2>1, NatMin
<1>3. PICK T \in Bad : n = Cardinality(T) OBVIOUS
<1>4. ASSUME NEW U \in Bad, U \subseteq T, U # T PROVE FALSE
  <2>1. Cardinality(U) =< Cardinality(T) /\ Cardinality(U) # Cardinality(T)
    BY <1>1, <1>4, FS_Subset
  <2>2. Cardinality(T) =< Cardinality(U) BY <1>2, <1>3
  <2>3. QED BY <1>1, <2>1, <2>2
<1>5. QED BY <1>4

(* The equation at one set; it has one solution at most, and one at least. *)
LEMMA SolvesAt ==
  ASSUME NEW S, NEW g, NEW F, Solves(F, S, g), NEW s \in SUBSET S
  PROVE  /\ s = {} => F[s] = 0
         /\ s # {} => \E x \in s : x = (CHOOSE y \in s : TRUE) /\ F[s] = g[x] + F[s \ {x}]
<1>1. F[s] = IF s = {} THEN 0 ELSE LET x == CHOOSE x \in s : TRUE IN g[x] + F[s \ {x}]
  BY DEF Solves
<1>2. s # {} => (CHOOSE y \in s : TRUE) \in s OBVIOUS
<1>3. QED BY <1>1, <1>2

LEMMA SolvesUnique ==
  ASSUME NEW S, NEW g, NEW F, Solves(F, S, g),
         NEW T, NEW h, NEW G, Solves(G, T, h),
         NEW U, IsFiniteSet(U), U \subseteq S, U \subseteq T,
         \A x \in U : g[x] = h[x]
  PROVE  F[U] = G[U]
<1> DEFINE Bad == {s \in SUBSET U : F[s] # G[s]}
<1>1. SUFFICES ASSUME Bad # {} PROVE FALSE OBVIOUS
<1>2. PICK s \in Bad : \A u \in Bad : ~(u \subseteq s /\ u # s)
  <2>1. Bad \subseteq SUBSET U OBVIOUS
  <2> HIDE DEF Bad
  <2>2. QED BY <1>1, <2>1, Smallest
<1>3. s \in SUBSET S /\ s \in SUBSET T /\ F[s] # G[s] OBVIOUS
<1>4. s # {} BY <1>3, SolvesAt
<1>5. PICK x \in s : x = (CHOOSE y \in s : TRUE) /\ F[s] = g[x] + F[s \ {x}]
  BY <1>3, <1>4, SolvesAt
<1>6. G[s] = h[x] + G[s \ {x}]
  <2>1. PICK y \in s : y = (CHOOSE z \in s : TRUE) /\ G[s] = h[y] + G[s \ {y}]
    BY <1>3, <1>4, SolvesAt
  <2>2. QED BY <1>5, <2>1
<1>7. F[s \ {x}] = G[s \ {x}] BY <1>2
<1>8. QED BY <1>3, <1>5, <1>6, <1>7

LEMMA SolvesExists ==
  ASSUME NEW S, IsFiniteSet(S), NEW g
  PROVE  \E F : Solves(F, S, g)
<1> DEFINE Bad == {T \in SUBSET S : \A F : ~Solves(F, T, g)}
<1>1. SUFFICES ASSUME Bad # {} PROVE FALSE OBVIOUS
<1>2. PICK T \in Bad : \A U \in Bad : ~(U \subseteq T /\ U # T)
  <2>1. Bad \subseteq SUBSET S OBVIOUS
  <2> HIDE DEF Bad
  <2>2. QED BY <1>1, <2>1, Smallest
<1> DEFINE Of(U) == CHOOSE F : Solves(F, U, g)
           F == [s \in SUBSET T |-> IF s = {} THEN 0
                   ELSE LET x == CHOOSE x \in s : TRUE
                        IN  g[x] + Of(s \ {x})[s \ {x}]]
<1>3. ASSUME NEW U \in SUBSET T, U # T PROVE Solves(Of(U), U, g)
  <2>1. U \notin Bad BY <1>2, <1>3
  <2>2. \E G : Solves(G, U, g) BY <2>1
  <2>3. QED BY <2>2
<1> HIDE DEF Of
<1>4. ASSUME NEW s \in SUBSET T, s # T PROVE F[s] = Of(s)[s]
  <2>1. Solves(Of(s), s, g) BY <1>3, <1>4
  <2>2. CASE s = {} BY <2>1, <2>2, SolvesAt
  <2>3. CASE s # {}
    <3>1. PICK x \in s : x = (CHOOSE y \in s : TRUE)
                         /\ Of(s)[s] = g[x] + Of(s)[s \ {x}]
      BY <2>1, <2>3, SolvesAt
    <3>2. s \ {x} # T /\ s \ {x} \in SUBSET T OBVIOUS
    <3>3. Solves(Of(s \ {x}), s \ {x}, g) BY <1>3, <3>2
    <3>4. IsFiniteSet(s \ {x}) BY FS_Subset
    <3>5. Of(s)[s \ {x}] = Of(s \ {x})[s \ {x}]
      BY <2>1, <3>3, <3>4, SolvesUnique
    <3>6. F[s] = g[x] + Of(s \ {x})[s \ {x}] BY <2>3, <3>1
    <3>7. QED BY <3>1, <3>5, <3>6
  <2>4. QED BY <2>2, <2>3
<1>5. ASSUME NEW s \in SUBSET T, s # {}
      PROVE  LET x == CHOOSE x \in s : TRUE
             IN  g[x] + Of(s \ {x})[s \ {x}] = g[x] + F[s \ {x}]
  <2>1. (CHOOSE x \in s : TRUE) \in s BY <1>5
  <2> DEFINE u == s \ {CHOOSE x \in s : TRUE}
  <2>2. u \in SUBSET T /\ u # T BY <2>1
  <2> HIDE DEF u, F
  <2>3. F[u] = Of(u)[u] BY <1>4, <2>2
  <2>4. QED BY <2>3 DEF u
<1>6. Solves(F, T, g)
  <2>1. ASSUME NEW s \in SUBSET T
        PROVE  F[s] = IF s = {} THEN 0
                      ELSE LET x == CHOOSE x \in s : TRUE
                           IN  g[x] + F[s \ {x}]
    <3>1. F[s] = IF s = {} THEN 0
                 ELSE LET x == CHOOSE x \in s : TRUE
                      IN  g[x] + Of(s \ {x})[s \ {x}]
      OBVIOUS
    <3> HIDE DEF F
    <3>2. QED BY <1>5, <3>1
  <2>2. F = [s \in SUBSET T |-> F[s]] OBVIOUS
  <2> HIDE DEF F
  <2>3. QED BY <2>1, <2>2 DEF Solves
<1>7. QED BY <1>6

(* MapThenSumSet is the solution of the equation.                          *)
LEMMA SumIs ==
  ASSUME NEW S, IsFiniteSet(S), NEW g
  PROVE  \E F : Solves(F, S, g) /\ Sum(g, S) = F[S]
<1> DEFINE Eq(F) == F = [s \in SUBSET S |-> IF s = {} THEN 0
                          ELSE LET x == CHOOSE x \in s : TRUE
                               IN  g[x] + F[s \ {x}]]
           G == CHOOSE F : Eq(F)
<1>1. PICK F : Eq(F)
  <2>1. PICK H : Solves(H, S, g) BY SolvesExists
  <2>2. Eq(H) BY <2>1 DEF Solves
  <2> HIDE DEF Eq
  <2>3. QED BY <2>2
<1>2. Eq(G) BY <1>1
<1>3. Sum(g, S) = G[S] BY <1>2 DEF Sum, MapThenSumSet, MapThenFoldSet
<1> HIDE DEF G
<1>4. Solves(G, S, g) BY <1>2 DEF Solves
<1>5. QED BY <1>3, <1>4

(* The sum over no element, and over what two functions agree on.          *)
LEMMA SumEmpty == \A g : Sum(g, {}) = 0
<1> SUFFICES ASSUME NEW g PROVE Sum(g, {}) = 0 OBVIOUS
<1>1. IsFiniteSet({}) BY FS_EmptySet
<1>2. PICK F : Solves(F, {}, g) /\ Sum(g, {}) = F[{}] BY <1>1, SumIs
<1>3. QED BY <1>2, SolvesAt

LEMMA SumExt ==
  ASSUME NEW S, IsFiniteSet(S), NEW g, NEW h, \A x \in S : g[x] = h[x]
  PROVE  Sum(g, S) = Sum(h, S)
<1>1. PICK F : Solves(F, S, g) /\ Sum(g, S) = F[S] BY SumIs
<1>2. PICK G : Solves(G, S, h) /\ Sum(h, S) = G[S] BY SumIs
<1>3. S \subseteq S OBVIOUS
<1>4. Solves(F, S, g) /\ Solves(G, S, h) BY <1>1, <1>2
<1>5. F[S] = G[S] BY <1>3, <1>4, SolvesUnique
<1>6. QED BY <1>1, <1>2, <1>5

(* The sum over a set that is not empty: some element of it comes first.   *)
LEMMA SumStep ==
  ASSUME NEW S, IsFiniteSet(S), S # {}, NEW g
  PROVE  \E x \in S : Sum(g, S) = g[x] + Sum(g, S \ {x})
<1>1. PICK F : Solves(F, S, g) /\ Sum(g, S) = F[S] BY SumIs
<1>2. PICK x \in S : F[S] = g[x] + F[S \ {x}] BY <1>1, SolvesAt
<1>3. IsFiniteSet(S \ {x}) BY FS_RemoveElement
<1>4. PICK G : Solves(G, S \ {x}, g) /\ Sum(g, S \ {x}) = G[S \ {x}]
  BY <1>3, SumIs
<1>5. F[S \ {x}] = G[S \ {x}] BY <1>1, <1>3, <1>4, SolvesUnique
<1>6. QED BY <1>1, <1>2, <1>4, <1>5

(* A sum of integers is an integer.                                        *)
LEMMA SumType ==
  ASSUME NEW S, IsFiniteSet(S), NEW g, \A x \in S : g[x] \in Int
  PROVE  Sum(g, S) \in Int
<1> DEFINE Bad == {T \in SUBSET S : Sum(g, T) \notin Int}
<1>1. SUFFICES ASSUME Bad # {} PROVE FALSE OBVIOUS
<1>2. PICK T \in Bad : \A U \in Bad : ~(U \subseteq T /\ U # T)
  <2>1. Bad \subseteq SUBSET S OBVIOUS
  <2> HIDE DEF Bad
  <2>2. QED BY <1>1, <2>1, Smallest
<1>3. T # {} BY SumEmpty
<1>4. IsFiniteSet(T) BY FS_Subset
<1>5. PICK x \in T : Sum(g, T) = g[x] + Sum(g, T \ {x}) BY <1>3, <1>4, SumStep
<1>6. Sum(g, T \ {x}) \in Int BY <1>2
<1>7. QED BY <1>5, <1>6

(* Any element may come first. *)
LEMMA SumRemove ==
  ASSUME NEW S, IsFiniteSet(S), NEW g, \A x \in S : g[x] \in Int, NEW x \in S
  PROVE  Sum(g, S) = g[x] + Sum(g, S \ {x})
<1> DEFINE Bad == {T \in SUBSET S :
                   \E z \in T : Sum(g, T) # g[z] + Sum(g, T \ {z})}
<1>1. SUFFICES ASSUME Bad # {} PROVE FALSE OBVIOUS
<1>2. PICK T \in Bad : \A U \in Bad : ~(U \subseteq T /\ U # T)
  <2>1. Bad \subseteq SUBSET S OBVIOUS
  <2> HIDE DEF Bad
  <2>2. QED BY <1>1, <2>1, Smallest
<1>3. PICK z \in T : Sum(g, T) # g[z] + Sum(g, T \ {z}) OBVIOUS
<1>4. \A U \in SUBSET S : IsFiniteSet(U) /\ Sum(g, U) \in Int
  BY FS_Subset, SumType
<1>5. PICK y \in T : Sum(g, T) = g[y] + Sum(g, T \ {y}) BY <1>4, SumStep
<1>6. y # z BY <1>3, <1>5
<1>7. \A U \in SUBSET T : U # T => \A u \in U : Sum(g, U) = g[u] + Sum(g, U \ {u})
  BY <1>2
<1>8. Sum(g, T \ {y}) = g[z] + Sum(g, (T \ {y}) \ {z}) BY <1>6, <1>7
<1>9. Sum(g, T \ {z}) = g[y] + Sum(g, (T \ {z}) \ {y}) BY <1>6, <1>7
<1>10. Sum(g, (T \ {y}) \ {z}) = Sum(g, (T \ {z}) \ {y})
  <2>1. (T \ {y}) \ {z} = (T \ {z}) \ {y} OBVIOUS
  <2>2. QED BY <2>1
<1>11. g[y] \in Int /\ g[z] \in Int /\ Sum(g, (T \ {z}) \ {y}) \in Int
  BY <1>4
<1>12. QED BY <1>3, <1>5, <1>8, <1>9, <1>10, <1>11

(* One element more, and two sets that have none in common.                *)
LEMMA SumAdd ==
  ASSUME NEW S, IsFiniteSet(S), NEW g, NEW x, x \notin S,
         \A y \in S \union {x} : g[y] \in Int
  PROVE  Sum(g, S \union {x}) = Sum(g, S) + g[x]
<1>1. IsFiniteSet(S \union {x}) BY FS_AddElement
<1>2. x \in S \union {x} /\ (S \union {x}) \ {x} = S OBVIOUS
<1>3. Sum(g, S \union {x}) = g[x] + Sum(g, (S \union {x}) \ {x})
  BY <1>1, <1>2, SumRemove
<1>4. Sum(g, (S \union {x}) \ {x}) = Sum(g, S) BY <1>2
<1>5. Sum(g, S) \in Int /\ g[x] \in Int BY SumType
<1>6. QED BY <1>3, <1>4, <1>5

LEMMA SumUnion ==
  ASSUME NEW S, IsFiniteSet(S), NEW T, IsFiniteSet(T), S \intersect T = {},
         NEW g, \A x \in S \union T : g[x] \in Int
  PROVE  Sum(g, S \union T) = Sum(g, S) + Sum(g, T)
<1> DEFINE Bad == {U \in SUBSET T : Sum(g, S \union U) # Sum(g, S) + Sum(g, U)}
<1>1. SUFFICES ASSUME Bad # {} PROVE FALSE OBVIOUS
<1>2. PICK U \in Bad : \A V \in Bad : ~(V \subseteq U /\ V # U)
  <2>1. Bad \subseteq SUBSET T OBVIOUS
  <2> HIDE DEF Bad
  <2>2. QED BY <1>1, <2>1, Smallest
<1>3. IsFiniteSet(U) /\ IsFiniteSet(S \union U) /\ Sum(g, S) \in Int
  BY FS_Subset, FS_Union, SumType
<1>4. U # {}
  <2>1. S \union {} = S OBVIOUS
  <2>2. QED BY <1>3, <2>1, SumEmpty
<1>5. PICK x \in U : TRUE BY <1>4
<1>6. Sum(g, U) = g[x] + Sum(g, U \ {x}) BY <1>3, SumRemove
<1>7. Sum(g, S \union U) = g[x] + Sum(g, S \union (U \ {x}))
  <2>1. (S \union U) \ {x} = S \union (U \ {x}) OBVIOUS
  <2>2. x \in S \union U /\ \A y \in S \union U : g[y] \in Int OBVIOUS
  <2>3. QED BY <1>3, <2>1, <2>2, SumRemove
<1>8. Sum(g, S \union (U \ {x})) = Sum(g, S) + Sum(g, U \ {x}) BY <1>2
<1>9. g[x] \in Int /\ Sum(g, U \ {x}) \in Int
  <2>1. IsFiniteSet(U \ {x}) BY <1>3, FS_RemoveElement
  <2>2. QED BY <2>1, SumType
<1>10. Sum(g, S \union U) # Sum(g, S) + Sum(g, U) OBVIOUS
<1> HIDE DEF Bad
<1>11. QED BY <1>3, <1>6, <1>7, <1>8, <1>9, <1>10

(* A sum may be taken along a one-to-one map, and its sign moved out.      *)
LEMMA SumRename ==
  ASSUME NEW S, IsFiniteSet(S), NEW T, NEW m \in [S -> T],
         \A x, y \in S : m[x] = m[y] => x = y, \A z \in T : \E x \in S : m[x] = z,
         NEW g, NEW h, \A x \in S : g[x] = h[m[x]] /\ g[x] \in Int
  PROVE  Sum(g, S) = Sum(h, T) /\ IsFiniteSet(T)
<1> DEFINE Image(U) == {m[x] : x \in U}
           Bad == {U \in SUBSET S : Sum(g, U) # Sum(h, Image(U))}
<1>1. IsFiniteSet(T)
  <2>1. m \in Surjection(S, T) BY DEF Surjection
  <2>2. QED BY <2>1, FS_Surjection
<1>2. Image(S) = T OBVIOUS
<1>3. SUFFICES ASSUME Bad # {} PROVE FALSE BY <1>1, <1>2
<1>4. PICK U \in Bad : \A V \in Bad : ~(V \subseteq U /\ V # U)
  <2>1. Bad \subseteq SUBSET S OBVIOUS
  <2> HIDE DEF Bad
  <2>2. QED BY <1>3, <2>1, Smallest
<1>5. IsFiniteSet(U) /\ IsFiniteSet(Image(U))
  <2>1. Image(U) \subseteq T OBVIOUS
  <2>2. QED BY <1>1, <2>1, FS_Subset
<1>6. U # {}
  <2>1. Image({}) = {} OBVIOUS
  <2>2. QED BY <2>1, SumEmpty
<1>7. PICK x \in U : TRUE BY <1>6
<1>8. Sum(g, U) = g[x] + Sum(g, U \ {x}) BY <1>5, SumRemove
<1>9. Sum(h, Image(U)) = h[m[x]] + Sum(h, Image(U \ {x}))
  <2> DEFINE J == Image(U)
  <2>1. Image(U \ {x}) = J \ {m[x]} OBVIOUS
  <2>2. m[x] \in J /\ (\A y \in J : h[y] \in Int) /\ IsFiniteSet(J)
    BY <1>5
  <2>3. Sum(h, J \ {m[x]}) = Sum(h, Image(U \ {x})) BY <2>1
  <2> HIDE DEF Image, J
  <2>4. Sum(h, J) = h[m[x]] + Sum(h, J \ {m[x]}) BY <2>2, SumRemove
  <2>5. QED BY <2>3, <2>4 DEF J
<1>10. Sum(g, U \ {x}) = Sum(h, Image(U \ {x})) BY <1>4
<1>11. g[x] = h[m[x]] /\ Sum(g, U) # Sum(h, Image(U)) OBVIOUS
<1> HIDE DEF Bad, Image
<1>12. QED BY <1>8, <1>9, <1>10, <1>11

LEMMA SumNegate ==
  ASSUME NEW S, IsFiniteSet(S), NEW g, NEW h,
         \A x \in S : g[x] \in Int /\ h[x] = -g[x]
  PROVE  Sum(h, S) = -Sum(g, S)
<1> DEFINE Bad == {U \in SUBSET S : Sum(h, U) # -Sum(g, U)}
<1>1. SUFFICES ASSUME Bad # {} PROVE FALSE OBVIOUS
<1>2. PICK U \in Bad : \A V \in Bad : ~(V \subseteq U /\ V # U)
  <2>1. Bad \subseteq SUBSET S OBVIOUS
  <2> HIDE DEF Bad
  <2>2. QED BY <1>1, <2>1, Smallest
<1>3. IsFiniteSet(U) BY FS_Subset
<1>4. U # {} BY SumEmpty
<1>5. PICK x \in U : TRUE BY <1>4
<1>6. Sum(g, U) = g[x] + Sum(g, U \ {x}) BY <1>3, SumRemove
<1>7. Sum(h, U) = h[x] + Sum(h, U \ {x}) BY <1>3, SumRemove
<1>8. Sum(h, U \ {x}) = -Sum(g, U \ {x}) BY <1>2
<1>9. /\ g[x] \in Int /\ h[x] = -g[x] /\ Sum(g, U \ {x}) \in Int
      /\ Sum(h, U) # -Sum(g, U)
  <2>1. IsFiniteSet(U \ {x}) BY <1>3, FS_RemoveElement
  <2>2. QED BY <2>1, SumType
<1> HIDE DEF Bad
<1>10. QED BY <1>6, <1>7, <1>8, <1>9

(* The sums over the places of a sequence: one more at its end, one less   *)
(* at its head.                                                            *)
LEMMA SumLast ==
  ASSUME NEW n \in Nat, NEW g, NEW h, \A i \in 1..(n + 1) : h[i] \in Int,
         \A i \in 1..n : g[i] = h[i]
  PROVE  Sum(h, 1..(n + 1)) = Sum(g, 1..n) + h[n + 1]
<1> DEFINE S == 1..n
           x == n + 1
<1>1. IsFiniteSet(S) BY FS_Interval
<1>2. 1..(n + 1) = S \union {x} OBVIOUS
<1>3. x \notin S /\ \A i \in S \union {x} : h[i] \in Int BY <1>2
<1>4. \A i \in S : g[i] = h[i] OBVIOUS
<1> HIDE DEF S, x
<1>5. Sum(h, S \union {x}) = Sum(h, S) + h[x] BY <1>1, <1>3, SumAdd
<1>6. Sum(g, S) = Sum(h, S) BY <1>1, <1>4, SumExt
<1>7. QED BY <1>2, <1>5, <1>6 DEF S, x

LEMMA SumFirst ==
  ASSUME NEW n \in Nat, n # 0, NEW g, NEW h, \A i \in 1..n : g[i] \in Int,
         \A i \in 1..(n - 1) : h[i] = g[i + 1]
  PROVE  Sum(g, 1..n) = g[1] + Sum(h, 1..(n - 1))
<1> DEFINE A == 2..n
           B == 1..(n - 1)
           m == [i \in A |-> i - 1]
<1>1. IsFiniteSet(1..n) BY FS_Interval
<1>2. 1 \in 1..n /\ (1..n) \ {1} = A /\ A \subseteq 1..n OBVIOUS
<1>3. IsFiniteSet(A) BY <1>1, <1>2, FS_Subset
<1>4. m \in [A -> B] /\ \A i, j \in A : m[i] = m[j] => i = j OBVIOUS
<1>5. ASSUME NEW k \in B PROVE \E i \in A : m[i] = k
  <2>1. k + 1 \in A /\ m[k + 1] = k OBVIOUS
  <2>2. QED BY <2>1
<1>6. ASSUME NEW i \in A PROVE g[i] = h[m[i]] /\ g[i] \in Int
  <2>1. m[i] = i - 1 /\ i - 1 \in B /\ (i - 1) + 1 = i /\ i \in 1..n OBVIOUS
  <2>2. h[i - 1] = g[(i - 1) + 1] BY <2>1
  <2>3. QED BY <2>1, <2>2
<1>7. \A i \in 1..n : g[i] \in Int OBVIOUS
<1>8. Sum(g, 1..n) = g[1] + Sum(g, (1..n) \ {1}) BY <1>1, <1>2, <1>7, SumRemove
<1> HIDE DEF A, B, m
<1>9. Sum(g, A) = Sum(h, B) BY <1>3, <1>4, <1>5, <1>6, SumRename
<1>10. QED BY <1>2, <1>8, <1>9 DEF B

(* Terms that are all zero.                                                *)
LEMMA SumZero ==
  ASSUME NEW S, IsFiniteSet(S), NEW g, \A x \in S : g[x] = 0
  PROVE  Sum(g, S) = 0
<1>1. \A x \in S : g[x] \in Int /\ g[x] = -g[x] OBVIOUS
<1>2. Sum(g, S) = -Sum(g, S) BY <1>1, SumNegate
<1>3. Sum(g, S) \in Int BY <1>1, SumType
<1>4. QED BY <1>2, <1>3
-----------------------------------------------------------------------------
(***************************************************************************)
(* The balances.                                                           *)
(***************************************************************************)
(* The assumption of BooksBalance: records are created realized and        *)
(* nothing was lost, failed, crashed or edited.                            *)
Calm == CreateStatus \subseteq Realized /\ Undisturbed

(* Where the money of a stored record is that has not reached the balance: *)
(* with a job of the queue, or with the request that stored it. None is    *)
(* anywhere else.                                                          *)
Queued(r) == \E i \in 1..Len(balanceQ) : balanceQ[i].src = r /\ Waiting(i)

Held(r) == \E q \in Request : Carries(req[q], r)

Accounted ==
  \A r \in Rec : rec[r] # NoRow => posted[r] > 0 \/ Queued(r) \/ Held(r)

(* The functions that the sums of the model add up.                        *)
Worths     == [r \in Rec |-> Worth(r)]
JobWorths  == [i \in DOMAIN balanceQ |-> JobWorth(i)]
LateWorths == [q \in Request |-> LateWorth(q)]

(* And the balance is the worth of the records whose money arrived.        *)
SettledIn(a) == {r \in OfAccount(a) : posted[r] > 0}

Balanced == \A a \in Account : balance[a] = Sum(Worths, SettledIn(a))

Even ==
  /\ IsFiniteSet(Stored)
  /\ Calm => Accounted /\ Balanced
-----------------------------------------------------------------------------
(* The totals of the model are sums, as the lemmas take them.              *)
LEMMA BridgeWorth ==
  ASSUME NEW T \in SUBSET Rec, IsFiniteSet(T)
  PROVE  TotalWorth(T) = Sum(Worths, T)
<1> DEFINE Eq(F) == F = [s \in SUBSET T |-> IF s = {} THEN 0
                          ELSE LET x == CHOOSE x \in s : TRUE
                               IN  Worth(x) + F[s \ {x}]]
           G == CHOOSE F : Eq(F)
<1>1. \A s \in SUBSET T : s # {} => (CHOOSE x \in s : TRUE) \in Rec
                    /\ Worth(CHOOSE x \in s : TRUE) = Worths[CHOOSE x \in s : TRUE]
  BY DEF Worths
<1>2. \A F : Eq(F) <=> Solves(F, T, Worths) BY <1>1 DEF Solves
<1>3. PICK F : Solves(F, T, Worths) /\ Sum(Worths, T) = F[T] BY SumIs
<1>4. Eq(F) BY <1>2, <1>3
<1>5. Eq(G) BY <1>4
<1>6. TotalWorth(T) = G[T]
  BY <1>5 DEF TotalWorth, MapThenSumSet, MapThenFoldSet
<1> HIDE DEF G, Eq
<1>7. G[T] = F[T] BY <1>2, <1>3, <1>5, SolvesUnique
<1>8. QED BY <1>3, <1>6, <1>7

LEMMA BridgeQueued ==
  ASSUME NEW a, IsFiniteSet(QueuedIn(a))
  PROVE  TotalQueued(a) = Sum(JobWorths, QueuedIn(a))
<1> DEFINE T == QueuedIn(a)
           Eq(F) == F = [s \in SUBSET T |-> IF s = {} THEN 0
                          ELSE LET x == CHOOSE x \in s : TRUE
                               IN  JobWorth(x) + F[s \ {x}]]
           G == CHOOSE F : Eq(F)
<1>1. \A s \in SUBSET T : s # {} =>
        JobWorth(CHOOSE x \in s : TRUE) = JobWorths[CHOOSE x \in s : TRUE]
  BY DEF JobWorths, QueuedIn
<1>2. \A F : Eq(F) <=> Solves(F, T, JobWorths) BY <1>1 DEF Solves
<1>3. PICK F : Solves(F, T, JobWorths) /\ Sum(JobWorths, T) = F[T] BY SumIs
<1>4. Eq(F) BY <1>2, <1>3
<1>5. Eq(G) BY <1>4
<1>6. TotalQueued(a) = G[T]
  BY <1>5 DEF TotalQueued, MapThenSumSet, MapThenFoldSet
<1> HIDE DEF G, Eq
<1>7. G[T] = F[T] BY <1>2, <1>3, <1>5, SolvesUnique
<1>8. QED BY <1>3, <1>6, <1>7

LEMMA BridgeLate ==
  ASSUME NEW a, IsFiniteSet(LateIn(a))
  PROVE  TotalLate(a) = Sum(LateWorths, LateIn(a))
<1> DEFINE T == LateIn(a)
           Eq(F) == F = [s \in SUBSET T |-> IF s = {} THEN 0
                          ELSE LET x == CHOOSE x \in s : TRUE
                               IN  LateWorth(x) + F[s \ {x}]]
           G == CHOOSE F : Eq(F)
<1>1. \A s \in SUBSET T : s # {} =>
        LateWorth(CHOOSE x \in s : TRUE) = LateWorths[CHOOSE x \in s : TRUE]
  BY DEF LateWorths, LateIn
<1>2. \A F : Eq(F) <=> Solves(F, T, LateWorths) BY <1>1 DEF Solves
<1>3. PICK F : Solves(F, T, LateWorths) /\ Sum(LateWorths, T) = F[T] BY SumIs
<1>4. Eq(F) BY <1>2, <1>3
<1>5. Eq(G) BY <1>4
<1>6. TotalLate(a) = G[T]
  BY <1>5 DEF TotalLate, MapThenSumSet, MapThenFoldSet
<1> HIDE DEF G, Eq
<1>7. G[T] = F[T] BY <1>2, <1>3, <1>5, SolvesUnique
<1>8. QED BY <1>3, <1>6, <1>7
-----------------------------------------------------------------------------
(* Only the two requests that store a document add one.                    *)
LEMMA OnlyStoresAdd ==
  ASSUME Typed, Faithful, [Next]_vars,
         \A q \in Request : ~CreateStore(q) /\ ~CancelStore(q)
  PROVE  \A r \in Rec : rec[r] = NoRow => rec'[r] = NoRow
<1> USE DEF stores
<1>1. ASSUME NEW q \in Request,
             \/ Begin(q) \/ CreateCommit(q) \/ CancelValidate(q)
             \/ CancelCommit(q) \/ ReconcileDispatch(q)
      PROVE  rec' = rec
  BY <1>1 DEF Begin, CreateStart, CancelRead, MatchRead, LinkRead, CreateCommit,
              CancelValidate, CancelCommit, ReconcileDispatch
<1>2. ASSUME NEW q \in Request, CancelFail(q)
      PROVE  \A r \in Rec : rec[r] = NoRow => rec'[r] = NoRow
  <2>1. /\ req[q].step = "cancelling"
        /\ rec' = [rec EXCEPT ![req[q].id] = req[q].row]
    BY <1>2 DEF CancelFail
  <2>2. rec[req[q].id] # NoRow BY <2>1 DEF Faithful, SessionOK, Snapshot
  <2>3. QED BY <2>1, <2>2 DEF Typed, TypeOK
<1>3. CASE StatusWorker
  <2>1. CASE StatusValidate \/ StatusDispatch
    BY <2>1 DEF StatusValidate, StatusDispatch
  <2>2. CASE StatusStore
    <3>1. statusQ # <<>> BY <2>2 DEF StatusStore, Typed, WorkersBusy
    <3>2. Head(statusQ) = statusQ[1] /\ 1 \in 1..Len(statusQ)
      BY <3>1, EmptySeq, HeadTailProperties, LenProperties DEF Typed, TypeOK
    <3>3. rec[Head(statusQ).id] # NoRow
      BY <3>2 DEF Faithful, JobOK, Snapshot
    <3>4. QED BY <2>2, <3>3 DEF StatusStore, Typed, TypeOK
  <2>3. QED BY <1>3, <2>1, <2>2 DEF StatusWorker
<1>4. CASE \/ BalanceWorker \/ CenterUpdate \/ JobFails \/ Crash
           \/ \E a \in Account : EditRead(a) \/ EditWrite(a)
           \/ \E m \in Month : FlipMonth(m)
           \/ UNCHANGED vars
  BY <1>4 DEF BalanceWorker, BalanceRead, BalanceWrite, MasterUpdate,
     CenterUpdate, JobFails, Crash, EditRead, EditWrite, FlipMonth, vars
<1>5. QED BY <1>1, <1>2, <1>3, <1>4 DEF Next, Finish

LEMMA OneStored ==
  ASSUME Typed, NEW q \in Request, CreateStore(q) \/ CancelStore(q)
  PROVE  \E v \in Rec :
           /\ rec[v] = NoRow /\ rec'[v] # NoRow /\ Carries(req'[q], v)
           /\ \A r \in Rec : r # v => rec'[r] = rec[r]
           /\ \A p \in Request : p # q => req'[p] = req[p]
           /\ \A r \in Rec : ~Carries(req[q], r)
           /\ UNCHANGED <<posted, balance, balanceQ, balanceW>>
<1>1. CASE CreateStore(q)
  <2>1. PICK v \in Rec : CreateStore(q)!(v) BY <1>1 DEF CreateStore
  <2>2. req[q] \in Session /\ req[q].row \in Original
    BY <2>1, SessionFacts
  <2>3. rec'[v] # NoRow /\ \A r \in Rec : r # v => rec'[r] = rec[r]
    BY <2>1, <2>2, RowsAreDisjoint DEF Typed, TypeOK
  <2>4. /\ \A p \in Request : p # q => req'[p] = req[p]
        /\ req'[q].step = "created" /\ req'[q].id = v
    BY <2>1, <2>2 DEF Typed, TypeOK, Session
  <2>5. QED BY <2>1, <2>3, <2>4 DEF Carries, queues, workers, history
<1>2. CASE CancelStore(q)
  <2>1. PICK v \in Rec : CancelStore(q)!(v) BY <1>2 DEF CancelStore
  <2>2. req[q] \in Session /\ req[q].row \in Original /\ req[q].id \in Rec
    BY <2>1, SessionFacts
  <2>3. ReversalRow(req[q].row, req[q].id) # NoRow
    BY <2>2, ReversalRowFacts, RowAssumption
  <2>4. rec'[v] # NoRow /\ \A r \in Rec : r # v => rec'[r] = rec[r]
    BY <2>1, <2>3 DEF Typed, TypeOK
  <2>5. /\ \A p \in Request : p # q => req'[p] = req[p]
        /\ req'[q].step = "reversed" /\ req'[q].rev = v
    BY <2>1, <2>2 DEF Typed, TypeOK, Session
  <2>6. QED BY <2>1, <2>4, <2>5 DEF Carries, queues, workers
<1>3. QED BY <1>1, <1>2

(* The journal stays finite.                                               *)
LEMMA StoredFinite ==
  ASSUME Typed, Faithful, IsFiniteSet(Stored), [Next]_vars
  PROVE  IsFiniteSet(Stored)'
<1>0. Kept(rec, rec') BY FaithfulNext
<1>1. CASE \A q \in Request : ~CreateStore(q) /\ ~CancelStore(q)
  <2>1. Stored' = Stored BY <1>0, <1>1, OnlyStoresAdd DEF Stored, Kept
  <2>2. QED BY <2>1
<1>2. ASSUME NEW q \in Request, CreateStore(q) \/ CancelStore(q)
      PROVE  IsFiniteSet(Stored)'
  <2>1. PICK v \in Rec : rec'[v] # NoRow
                         /\ \A r \in Rec : r # v => rec'[r] = rec[r]
    BY <1>2, OneStored
  <2>2. Stored' = Stored \union {v} BY <2>1 DEF Stored
  <2>3. QED BY <2>2, FS_AddElement
<1>3. QED BY <1>1, <1>2
-----------------------------------------------------------------------------
(* Nothing is forgotten: the steps.                                        *)
LEMMA AccountedKept ==
  ASSUME Accounted, \A r \in Rec : rec[r] = NoRow => rec'[r] = NoRow,
         posted' = posted, balanceQ' = balanceQ,
         balanceW'.step = "written" => balanceW.step = "written",
         \A q \in Request, r \in Rec : Carries(req[q], r) => Carries(req'[q], r)
  PROVE  Accounted'
<1>1. \A r \in Rec : Queued(r) => Queued(r)' BY DEF Queued, Waiting
<1>2. \A r \in Rec : Held(r) => Held(r)' BY DEF Held
<1>3. QED BY <1>1, <1>2 DEF Accounted

LEMMA AccountedStore ==
  ASSUME Typed, Accounted, NEW q \in Request, CreateStore(q) \/ CancelStore(q)
  PROVE  Accounted'
<1>1. PICK v \in Rec :
        /\ Carries(req'[q], v)
        /\ \A r \in Rec : r # v => rec'[r] = rec[r]
        /\ \A p \in Request : p # q => req'[p] = req[p]
        /\ \A r \in Rec : ~Carries(req[q], r)
        /\ UNCHANGED <<posted, balance, balanceQ, balanceW>>
  BY OneStored
<1>2. Held(v)' BY <1>1 DEF Held
<1>3. \A r \in Rec : Queued(r) => Queued(r)' BY <1>1 DEF Queued, Waiting
<1>4. \A r \in Rec : Held(r) => Held(r)' BY <1>1 DEF Held
<1>5. QED BY <1>1, <1>2, <1>3, <1>4 DEF Accounted

LEMMA AccountedDispatch ==
  ASSUME Typed, Accounted, NEW q \in Request, NEW job \in BalanceJob,
         \A r \in Rec : Carries(req[q], r) => r = job.src,
         rec' = rec, posted' = posted, balanceW' = balanceW,
         balanceQ' = Append(balanceQ, job),
         req' = [req EXCEPT ![q] = Idle]
  PROVE  Accounted'
<1> DEFINE n == Len(balanceQ)
<1>1. balanceQ \in Seq(BalanceJob) /\ n \in Nat
  BY LenProperties DEF Typed, TypeOK
<1>2. /\ Len(balanceQ') = n + 1 /\ balanceQ'[n + 1] = job
      /\ \A i \in 1..n : balanceQ'[i] = balanceQ[i] /\ i \in 1..(n + 1)
  BY <1>1, AppendProperties
<1>3. \A r \in Rec : Queued(r) => Queued(r)'
  BY <1>2 DEF Queued, Waiting
<1>4. Queued(job.src)'
  <2>1. n + 1 = 1 => balanceW.step # "written"
    <3>1. n = 0 => balanceQ = <<>> BY <1>1, EmptySeq
    <3>2. QED BY <1>1, <3>1 DEF Typed, WorkersBusy
  <2>2. n + 1 \in 1..Len(balanceQ') BY <1>1, <1>2
  <2>3. QED BY <1>2, <2>1, <2>2 DEF Queued, Waiting
<1>5. \A r \in Rec : Held(r) => r = job.src \/ Held(r)'
  BY DEF Held, Typed, TypeOK
<1>6. QED BY <1>3, <1>4, <1>5 DEF Accounted

LEMMA AccountedMaster ==
  ASSUME Typed, Accounted, MasterUpdate
  PROVE  Accounted'
<1> DEFINE n == Len(balanceQ)
<1>1. /\ balanceW.step = "written" /\ balanceQ # <<>>
      /\ balanceQ' = Tail(balanceQ) /\ balanceW'.step = "idle"
      /\ rec' = rec /\ req' = req /\ posted' = posted
  BY DEF MasterUpdate, Typed, WorkersBusy, IdleBal, history
<1>2. /\ n \in Nat /\ Len(balanceQ') = n - 1
      /\ \A i \in 1..n : i # 1 => i - 1 \in 1..Len(balanceQ')
                                /\ balanceQ'[i - 1] = balanceQ[i]
  <2>1. balanceQ \in Seq(BalanceJob) BY DEF Typed, TypeOK
  <2>2. /\ n \in Nat /\ Len(balanceQ') = n - 1
        /\ \A i \in 1..Len(balanceQ') : balanceQ'[i] = balanceQ[i + 1]
    BY <1>1, <2>1, HeadTailProperties, LenProperties
  <2>3. QED BY <2>2
<1>3. ASSUME NEW r \in Rec, Queued(r) PROVE Queued(r)'
  <2>1. PICK i \in 1..n : balanceQ[i].src = r /\ i # 1
    BY <1>1, <1>3 DEF Queued, Waiting
  <2>2. QED BY <1>1, <1>2, <2>1 DEF Queued, Waiting
<1>4. \A r \in Rec : Held(r) => Held(r)' BY <1>1 DEF Held
<1>5. QED BY <1>1, <1>3, <1>4 DEF Accounted

LEMMA AccountedSettle ==
  ASSUME Typed, Faithful, OneWay, Accounted, BalanceWrite
  PROVE  Accounted'
<1> DEFINE job == Head(balanceQ)
<1>1. balanceQ # <<>> BY DEF BalanceWrite, Typed, WorkersBusy
<1>2. job = balanceQ[1] /\ job.src \in Rec /\ Len(balanceQ) \in Nat
  <2>1. balanceQ \in Seq(BalanceJob) BY DEF Typed, TypeOK
  <2>2. QED BY <1>1, <2>1, EmptySeq, HeadTailProperties, LenProperties,
               HeadBalanceJob
<1>3. /\ rec' = rec /\ req' = req /\ balanceQ' = balanceQ
      /\ posted' = [posted EXCEPT ![job.src] = @ + 1]
  BY DEF BalanceWrite, queues
<1>4. posted[job.src] = 0 BY OneWaySettle
<1>5. \A r \in Rec : posted[r] > 0 \/ r = job.src => posted'[r] > 0
  BY <1>2, <1>3, <1>4 DEF Typed, TypeOK
<1>6. \A r \in Rec : Queued(r) => r = job.src \/ Queued(r)'
  BY <1>2, <1>3 DEF Queued, Waiting
<1>7. \A r \in Rec : Held(r) => Held(r)' BY <1>3 DEF Held
<1>8. QED BY <1>3, <1>5, <1>6, <1>7 DEF Accounted

LEMMA AccountedRequest ==
  ASSUME Typed, Faithful, Accounted, Calm', NEW q \in Request,
         \/ Begin(q) \/ CreateCommit(q) \/ CancelValidate(q)
         \/ CancelCommit(q) \/ ReconcileDispatch(q) \/ CancelFail(q),
         \A r \in Rec : rec[r] = NoRow => rec'[r] = NoRow
  PROVE  Accounted'
<1> USE DEF stores, queues, workers, history
<1>0. "lost" \notin incidents' /\ CreateStatus \subseteq Realized
  BY DEF Calm, Undisturbed
<1>1. CASE Begin(q) \/ CancelValidate(q) \/ ReconcileDispatch(q) \/ CancelFail(q)
  <2>1. /\ posted' = posted /\ balanceQ' = balanceQ /\ balanceW' = balanceW
    BY <1>1 DEF Begin, CreateStart, CancelRead, MatchRead, LinkRead,
       CancelValidate, ReconcileDispatch, CancelFail
  <2>2. req[q].step \notin {"created", "reversed"}
    <3>1. Idle.step = "idle" BY DEF Idle
    <3>2. CASE Begin(q)
      BY <3>1, <3>2 DEF Begin, CreateStart, CancelRead, MatchRead, LinkRead, Start
    <3>3. CASE CancelValidate(q) \/ ReconcileDispatch(q) \/ CancelFail(q)
      BY <3>3 DEF CancelValidate, ReconcileDispatch, CancelFail
    <3>4. QED BY <1>1, <3>2, <3>3
  <2>3. \A p \in Request : p # q => req'[p] = req[p]
    BY <1>1 DEF Begin, CreateStart, CancelRead, MatchRead, LinkRead, Start,
       CancelValidate, ReconcileDispatch, CancelFail, Typed, TypeOK
  <2>4. \A p \in Request, r \in Rec : Carries(req[p], r) => Carries(req'[p], r)
    BY <2>2, <2>3 DEF Carries
  <2>5. QED BY <2>1, <2>4, AccountedKept
<1>2. CASE CreateCommit(q)
  <2>1. PICK lost \in SUBSET {"balance", "center"} : CreateCommit(q)!(lost)
    BY <1>2 DEF CreateCommit
  <2> DEFINE job == PostJob(req[q].id, req[q].row)
  <2>2. req[q].row \in Original /\ req[q].id \in Rec
    BY <2>1, SessionFacts
  <2>3. job \in BalanceJob /\ job.src = req[q].id
    BY <2>2, JobTypes DEF PostJob
  <2>4. IsRealizedStatus(req[q].row.status)
    <3>1. req[q].row.status \notin {"VOID", "PENDING"}
      BY <1>0, <2>1 DEF Faithful, SessionOK, Born
    <3>2. QED BY <2>2, <3>1 DEF IsRealizedStatus, Original, Status
  <2>5. lost = {} BY <1>0, <2>1 DEF Noted
  <2>6. balanceQ' = Append(balanceQ, job) BY <2>1, <2>4, <2>5 DEF Enqueue
  <2>7. \A r \in Rec : Carries(req[q], r) => r = job.src
    BY <2>1, <2>3 DEF Carries
  <2>8. /\ rec' = rec /\ posted' = posted /\ balanceW' = balanceW
        /\ req' = [req EXCEPT ![q] = Idle]
    BY <2>1
  <2> HIDE DEF job
  <2>9. QED BY <2>3, <2>6, <2>7, <2>8, AccountedDispatch
<1>3. CASE CancelCommit(q)
  <2>1. PICK lost \in SUBSET {"balance", "status", "center"} :
          CancelCommit(q)!(lost)
    BY <1>3 DEF CancelCommit
  <2> DEFINE job == ReverseJob(req[q].rev, req[q].row)
  <2>2. req[q].row \in Original /\ req[q].rev \in Rec
    BY <2>1, SessionFacts
  <2>3. job \in BalanceJob /\ job.src = req[q].rev
    BY <2>2, JobTypes DEF ReverseJob
  <2>4. lost = {} BY <1>0, <2>1 DEF Noted
  <2>5. balanceQ' = Append(balanceQ, job) BY <2>1, <2>4 DEF Enqueue
  <2>6. \A r \in Rec : Carries(req[q], r) => r = job.src
    BY <2>1, <2>3 DEF Carries
  <2>7. /\ rec' = rec /\ posted' = posted /\ balanceW' = balanceW
        /\ req' = [req EXCEPT ![q] = Idle]
    BY <2>1
  <2> HIDE DEF job
  <2>8. QED BY <2>3, <2>5, <2>6, <2>7, AccountedDispatch
<1>4. QED BY <1>1, <1>2, <1>3

LEMMA AccountedNext ==
  ASSUME Typed, Faithful, Sound, OneWay, Accounted, Calm', [Next]_vars
  PROVE  Accounted'
<1> USE DEF stores, queues, workers, history
<1>1. ASSUME NEW q \in Request, CreateStore(q) \/ CancelStore(q)
      PROVE  Accounted'
  BY <1>1, AccountedStore
<1>2. SUFFICES ASSUME \A q \in Request : ~CreateStore(q) /\ ~CancelStore(q)
               PROVE  Accounted'
  BY <1>1
<1>3. \A r \in Rec : rec[r] = NoRow => rec'[r] = NoRow
  BY <1>2, OnlyStoresAdd
<1>4. CreateStatus \subseteq Realized BY DEF Calm
<1>5. ASSUME NEW q \in Request, Begin(q) \/ Finish(q) \/ CancelFail(q)
      PROVE  Accounted'
  BY <1>2, <1>3, <1>5, AccountedRequest DEF Finish
<1>6. \A q \in Request, r \in Rec :
        req' = req /\ Carries(req[q], r) => Carries(req'[q], r)
  OBVIOUS
<1>7. CASE StatusWorker
  <2>1. balanceQ' = balanceQ
    BY <1>4, <1>7, NothingRealizes
       DEF StatusWorker, StatusValidate, StatusStore, StatusDispatch
  <2>2. posted' = posted /\ req' = req /\ balanceW' = balanceW
    BY <1>7 DEF StatusWorker, StatusValidate, StatusStore, StatusDispatch
  <2>3. QED BY <1>3, <1>6, <2>1, <2>2, AccountedKept
<1>8. CASE \/ BalanceRead \/ CenterUpdate
           \/ \E a \in Account : EditRead(a) \/ EditWrite(a)
           \/ \E m \in Month : FlipMonth(m)
           \/ UNCHANGED vars
  <2>1. /\ posted' = posted /\ req' = req /\ balanceQ' = balanceQ
        /\ balanceW'.step = "written" => balanceW.step = "written"
    BY <1>8 DEF BalanceRead, CenterUpdate, EditRead, EditWrite, FlipMonth, vars
  <2>2. QED BY <1>3, <1>6, <2>1, AccountedKept
<1>9. CASE BalanceWrite BY <1>9, AccountedSettle
<1>10. CASE MasterUpdate BY <1>10, AccountedMaster
<1>11. ~JobFails /\ ~Crash BY DEF JobFails, Crash, Calm, Undisturbed
<1>12. QED
  BY <1>5, <1>7, <1>8, <1>9, <1>10, <1>11 DEF Next, BalanceWorker
-----------------------------------------------------------------------------
(* The balance and what is settled.                                        *)
LEMMA SettledFinite ==
  ASSUME IsFiniteSet(Stored), NEW a
  PROVE  IsFiniteSet(OfAccount(a)) /\ IsFiniteSet(SettledIn(a))
BY FS_Subset DEF OfAccount, SettledIn

LEMMA BalancedKept ==
  ASSUME Typed, Faithful, OneWay, IsFiniteSet(Stored), Balanced,
         Kept(rec, rec'), posted' = posted, balance' = balance
  PROVE  Balanced'
<1> SUFFICES ASSUME NEW a \in Account
             PROVE  balance[a] = Sum(Worths', SettledIn(a)')
  BY DEF Balanced
<1>1. SettledIn(a)' = SettledIn(a)
  BY DEF SettledIn, OfAccount, Stored, OneWay, Kept, SameMoney, Typed, TypeOK
<1>2. IsFiniteSet(SettledIn(a)) BY SettledFinite
<1>3. \A r \in SettledIn(a) : Worths[r] = Worths'[r]
  BY WorthKept DEF SettledIn, OfAccount, Stored, Worths
<1>4. Sum(Worths, SettledIn(a)) = Sum(Worths', SettledIn(a))
  BY <1>2, <1>3, SumExt
<1>5. QED BY <1>1, <1>4 DEF Balanced

LEMMA BalancedSettle ==
  ASSUME Typed, Faithful, OneWay, Seen, IsFiniteSet(Stored), Balanced,
         BalanceWrite
  PROVE  Balanced'
<1> DEFINE job == Head(balanceQ)
           v   == job.src
<1>1. balanceW.step = "read" /\ balanceQ # <<>>
  BY DEF BalanceWrite, Typed, WorkersBusy
<1>2. job \in BalanceJob BY <1>1, HeadBalanceJob
<1>3. JobRight(job)
  <2>1. job = balanceQ[1] /\ 1 \in 1..Len(balanceQ)
    BY <1>1, EmptySeq, HeadTailProperties, LenProperties DEF Typed, TypeOK
  <2>2. QED BY <2>1 DEF OneWay
<1>4. /\ v \in Rec /\ job.account \in Account /\ job.amount \in Nat
      /\ rec[v] # NoRow /\ rec[v].account = job.account
      /\ Signed(job.operation, job.amount) = Worth(v)
  BY <1>2, <1>3 DEF BalanceJob, JobRight
<1>5. posted[v] = 0 BY OneWaySettle
<1>6. rec' = rec /\ posted' = [posted EXCEPT ![v] = @ + 1]
  BY DEF BalanceWrite
<1>7. balance' = [balance EXCEPT ![job.account] = @ + Worth(v)]
  <2>1. balanceW.seen = balance[job.account] BY <1>1 DEF Seen
  <2>2. balance[job.account] \in Int BY <1>4 DEF Typed, TypeOK
  <2>3. QED BY <1>4, <2>1, <2>2 DEF BalanceWrite, Signed
<1> HIDE DEF v, job
<1>8. Worths' = Worths BY <1>6 DEF Worths, Worth
<1>9. ASSUME NEW a \in Account
      PROVE  balance'[a] = Sum(Worths', SettledIn(a)')
  <2>1. CASE a = job.account
    <3>1. SettledIn(a)' = SettledIn(a) \union {v} /\ v \notin SettledIn(a)
      BY <1>4, <1>5, <1>6, <2>1
         DEF SettledIn, OfAccount, Stored, Typed, TypeOK
    <3>2. IsFiniteSet(SettledIn(a)) BY SettledFinite
    <3>3. \A r \in SettledIn(a) \union {v} : Worths[r] \in Int
      BY <1>4, WorthIsInt DEF SettledIn, OfAccount, Stored, Worths
    <3>4. Sum(Worths, SettledIn(a) \union {v})
            = Sum(Worths, SettledIn(a)) + Worths[v]
      BY <3>1, <3>2, <3>3, SumAdd
    <3>5. balance'[a] = balance[a] + Worths[v]
      BY <1>4, <1>7, <2>1 DEF Typed, TypeOK, Worths
    <3>6. QED BY <1>8, <3>1, <3>4, <3>5 DEF Balanced
  <2>2. CASE a # job.account
    <3>1. SettledIn(a)' = SettledIn(a)
      BY <1>4, <1>6, <2>2 DEF SettledIn, OfAccount, Stored, Typed, TypeOK
    <3>2. balance'[a] = balance[a] BY <1>4, <1>7, <2>2 DEF Typed, TypeOK
    <3>3. QED BY <1>8, <3>1, <3>2 DEF Balanced
  <2>3. QED BY <2>1, <2>2
<1>10. QED BY <1>9 DEF Balanced

LEMMA BalanceSame ==
  ASSUME Typed, [Next]_vars, ~BalanceWrite, "staleEdit" \notin incidents'
  PROVE  balance' = balance
<1> USE DEF stores
<1>1. ASSUME NEW q \in Request, Begin(q) \/ Finish(q) \/ CancelFail(q)
      PROVE  balance' = balance
  BY <1>1, RequestsAppend
<1>2. CASE \/ StatusWorker \/ BalanceRead \/ MasterUpdate \/ CenterUpdate
           \/ JobFails \/ Crash \/ \E m \in Month : FlipMonth(m)
           \/ UNCHANGED vars
  BY <1>2 DEF StatusWorker, StatusValidate, StatusStore, StatusDispatch,
     BalanceRead, MasterUpdate, CenterUpdate, JobFails, Crash, FlipMonth, vars
<1>3. ASSUME NEW a \in Account, EditRead(a) \/ EditWrite(a)
      PROVE  balance' = balance
  BY <1>3 DEF EditRead, EditWrite, Noted, Typed, TypeOK
<1>4. QED BY <1>1, <1>2, <1>3 DEF Next, BalanceWorker

LEMMA EvenInit == Init => Even
<1> SUFFICES ASSUME Init PROVE Even OBVIOUS
<1>1. Stored = {} BY DEF Init, Stored
<1>2. \A a : SettledIn(a) = {} BY <1>1 DEF SettledIn, OfAccount
<1>3. Accounted BY DEF Init, Accounted
<1>4. Balanced BY <1>2, SumEmpty DEF Init, Balanced
<1>5. QED BY <1>1, <1>3, <1>4, FS_EmptySet DEF Even

LEMMA EvenNext ==
  ASSUME Careful, Even, [Next]_vars
  PROVE  Even'
<1> USE DEF Careful
<1>1. IsFiniteSet(Stored)' BY StoredFinite DEF Even
<1> SUFFICES ASSUME Calm' PROVE Accounted' /\ Balanced'
  BY <1>1 DEF Even
<1>3. Calm /\ OneWay /\ Seen /\ "staleEdit" \notin incidents'
  BY IncidentsGrow DEF Calm, Undisturbed, Steady
<1>4. Accounted' BY <1>3, AccountedNext DEF Even
<1>5. CASE BalanceWrite BY <1>3, <1>4, <1>5, BalancedSettle DEF Even
<1>6. CASE ~BalanceWrite
  BY <1>3, <1>4, <1>6, FaithfulNext, PostedSame, BalanceSame, BalancedKept DEF Even
<1>7. QED BY <1>4, <1>5, <1>6
-----------------------------------------------------------------------------
(* The records of an account whose money is in the queue, or with a request. *)
InQueue(a) == {r \in Rec : \E i \in QueuedIn(a) : balanceQ[i].src = r}
InLate(a)  == {r \in Rec : \E q \in LateIn(a) : Carries(req[q], r)}

LEMMA CarriedFacts ==
  ASSUME Typed, Faithful, NEW q \in Request, req[q].step \in {"created", "reversed"}
  PROVE  LET r == IF req[q].step = "created" THEN req[q].id ELSE req[q].rev
         IN  /\ r \in Rec /\ rec[r] # NoRow
             /\ rec[r].account = req[q].row.account
             /\ Carries(req[q], r)
             /\ \A v : Carries(req[q], v) => v = r
<1>1. CASE req[q].step = "created"
  <2>1. JobRight(PostJob(req[q].id, req[q].row)) BY <1>1, PostJobRight
  <2>2. req[q].id \in Rec BY <1>1, SessionFacts
  <2>3. QED BY <1>1, <2>1, <2>2 DEF JobRight, PostJob, Carries
<1>2. CASE req[q].step = "reversed"
  <2>1. JobRight(ReverseJob(req[q].rev, req[q].row)) BY <1>2, ReverseJobRight
  <2>2. req[q].rev \in Rec BY <1>2, SessionFacts
  <2>3. QED BY <1>2, <2>1, <2>2 DEF JobRight, ReverseJob, Carries
<1>3. QED BY <1>1, <1>2

(* The stored records of an account are the settled ones, the queued ones  *)
(* and the late ones, and no record is two of these.                       *)
LEMMA WhereMoneyIs ==
  ASSUME Typed, Faithful, OneWay, Accounted, NEW a \in Account
  PROVE  /\ OfAccount(a) = (SettledIn(a) \union InQueue(a)) \union InLate(a)
         /\ SettledIn(a) \intersect InQueue(a) = {}
         /\ (SettledIn(a) \union InQueue(a)) \intersect InLate(a) = {}
<1>1. DOMAIN balanceQ = 1..Len(balanceQ) BY LenProperties DEF Typed, TypeOK
<1>2. ASSUME NEW r \in InQueue(a)
      PROVE  r \in OfAccount(a) /\ posted[r] = 0
             /\ \A q \in Request : ~Carries(req[q], r)
  <2>1. PICK i \in 1..Len(balanceQ) :
          balanceQ[i].src = r /\ balanceQ[i].account = a /\ Waiting(i)
    BY <1>1, <1>2 DEF InQueue, QueuedIn, Waiting
  <2>2. JobRight(balanceQ[i]) /\ posted[r] = 0 BY <2>1 DEF OneWay
  <2>3. r \in Rec BY <1>2 DEF InQueue
  <2>4. QED BY <2>1, <2>2, <2>3 DEF OneWay, Fresh, JobRight, OfAccount, Stored
<1>3. ASSUME NEW r \in InLate(a)
      PROVE  r \in OfAccount(a) /\ posted[r] = 0
  <2>1. PICK q \in Request : q \in LateIn(a) /\ Carries(req[q], r)
    BY <1>3 DEF InLate, LateIn
  <2>2. r \in Rec /\ Fresh(r) BY <1>3, <2>1 DEF InLate, OneWay
  <2>3. rec[r].account = a BY <2>1, CarriedFacts DEF LateIn
  <2>4. QED BY <2>2, <2>3 DEF OfAccount, Stored, Fresh
<1>4. ASSUME NEW r \in OfAccount(a)
      PROVE  r \in SettledIn(a) \/ r \in InQueue(a) \/ r \in InLate(a)
  <2>1. r \in Rec /\ rec[r] # NoRow /\ rec[r].account = a
    BY <1>4 DEF OfAccount, Stored
  <2>2. CASE posted[r] > 0 BY <1>4, <2>2 DEF SettledIn
  <2>3. CASE Queued(r)
    <3>1. PICK i \in 1..Len(balanceQ) : balanceQ[i].src = r /\ Waiting(i)
      BY <2>3 DEF Queued
    <3>2. balanceQ[i].account = a BY <2>1, <3>1 DEF OneWay, JobRight
    <3>3. QED BY <1>1, <2>1, <3>1, <3>2 DEF InQueue, QueuedIn, Waiting
  <2>4. CASE Held(r)
    <3>1. PICK q \in Request : Carries(req[q], r) BY <2>4 DEF Held
    <3>2. req[q].step \in {"created", "reversed"} BY <3>1 DEF Carries
    <3>3. req[q].row.account = a BY <2>1, <3>1, <3>2, CarriedFacts
    <3>4. QED BY <2>1, <3>1, <3>2, <3>3 DEF InLate, LateIn
  <2>5. QED BY <2>1, <2>2, <2>3, <2>4 DEF Accounted
<1>5. SettledIn(a) \subseteq OfAccount(a) BY DEF SettledIn
<1>6. \A r \in InQueue(a) : r \notin InLate(a) BY <1>2 DEF InLate, LateIn
<1>7. \A r \in SettledIn(a) : r \notin InQueue(a) /\ r \notin InLate(a)
  BY <1>2, <1>3 DEF SettledIn
<1>8. QED BY <1>2, <1>3, <1>4, <1>5, <1>6, <1>7

(* The jobs of an account, and the requests, carry the worth of these      *)
(* records.                                                                *)
LEMMA QueuedSum ==
  ASSUME Typed, Faithful, OneWay, NEW a \in Account
  PROVE  TotalQueued(a) = Sum(Worths, InQueue(a))
<1> DEFINE m == [i \in QueuedIn(a) |-> balanceQ[i].src]
<1>1. /\ DOMAIN balanceQ = 1..Len(balanceQ) /\ Len(balanceQ) \in Nat
      /\ \A i \in DOMAIN balanceQ : balanceQ[i] \in BalanceJob
  BY LenProperties, ElementOfSeq DEF Typed, TypeOK
<1>2. IsFiniteSet(QueuedIn(a))
  <2>1. IsFiniteSet(1..Len(balanceQ)) BY <1>1, FS_Interval
  <2>2. QueuedIn(a) \subseteq 1..Len(balanceQ) BY <1>1 DEF QueuedIn
  <2>3. QED BY <2>1, <2>2, FS_Subset
<1>3. m \in [QueuedIn(a) -> InQueue(a)]
  BY <1>1 DEF QueuedIn, InQueue, BalanceJob
<1>4. \A i, j \in QueuedIn(a) : m[i] = m[j] => i = j
  BY <1>1 DEF OneWay, QueuedIn
<1>5. \A r \in InQueue(a) : \E i \in QueuedIn(a) : m[i] = r BY DEF InQueue
<1>6. ASSUME NEW i \in QueuedIn(a)
      PROVE  JobWorths[i] = Worths[m[i]] /\ JobWorths[i] \in Int
  <2>1. i \in DOMAIN balanceQ /\ m[i] = balanceQ[i].src BY DEF QueuedIn
  <2>2. balanceQ[i].src \in Rec /\ balanceQ[i].amount \in Nat
    BY <1>1, <2>1 DEF BalanceJob
  <2>3. JobRight(balanceQ[i]) BY <1>1, <2>1 DEF OneWay
  <2>4. QED BY <2>1, <2>2, <2>3 DEF JobRight, JobWorths, JobWorth, Worths, Signed
<1> HIDE DEF m
<1>7. Sum(JobWorths, QueuedIn(a)) = Sum(Worths, InQueue(a))
  BY <1>2, <1>3, <1>4, <1>5, <1>6, SumRename
<1>8. QED BY <1>2, <1>7, BridgeQueued

LEMMA LateSum ==
  ASSUME Typed, Faithful, OneWay, IsFiniteSet(Stored), NEW a \in Account
  PROVE  TotalLate(a) = Sum(Worths, InLate(a))
<1> DEFINE m == [r \in InLate(a) |-> CHOOSE q \in LateIn(a) : Carries(req[q], r)]
<1>1. \A r \in InLate(a) : r \in Rec /\ rec[r] # NoRow
                          /\ m[r] \in LateIn(a) /\ Carries(req[m[r]], r)
  <2>1. \A r \in InLate(a) : \E q \in LateIn(a) : Carries(req[q], r)
    BY DEF InLate
  <2>2. \A r \in InLate(a) : m[r] \in LateIn(a) /\ Carries(req[m[r]], r)
    BY <2>1
  <2>3. QED BY <2>2 DEF InLate, LateIn, OneWay, Fresh
<1>2. \A q \in LateIn(a) : q \in Request /\ req[q].step \in {"created", "reversed"}
  BY DEF LateIn
<1>3. m \in [InLate(a) -> LateIn(a)] BY <1>1
<1> HIDE DEF m
<1>4. IsFiniteSet(InLate(a))
  <2>1. InLate(a) \subseteq Stored BY <1>1 DEF Stored
  <2>2. QED BY <2>1, FS_Subset
<1>5. \A r, v \in InLate(a) : m[r] = m[v] => r = v
  BY <1>1, <1>2, CarriedFacts
<1>6. ASSUME NEW q \in LateIn(a) PROVE \E r \in InLate(a) : m[r] = q
  <2>1. PICK r \in Rec : Carries(req[q], r) BY <1>2, CarriedFacts
  <2>2. r \in InLate(a) BY <2>1 DEF InLate
  <2>3. m[r] = q BY <1>1, <1>2, <2>1, <2>2 DEF OneWay
  <2>4. QED BY <2>2, <2>3
<1>7. ASSUME NEW r \in InLate(a)
      PROVE  Worths[r] = LateWorths[m[r]] /\ Worths[r] \in Int
  <2>1. r = IF req[m[r]].step = "created" THEN req[m[r]].id ELSE req[m[r]].rev
    BY <1>1, <1>2, CarriedFacts
  <2>2. Worth(r) \in Int BY <1>1, WorthIsInt
  <2>3. QED BY <1>1, <1>2, <2>1, <2>2 DEF Worths, LateWorths, LateWorth
<1>8. /\ Sum(Worths, InLate(a)) = Sum(LateWorths, LateIn(a))
      /\ IsFiniteSet(LateIn(a))
  BY <1>3, <1>4, <1>5, <1>6, <1>7, SumRename
<1>9. QED BY <1>8, BridgeLate

LEMMA BooksAddUp == Careful /\ Even => BooksBalance
<1> SUFFICES ASSUME Careful, Even, CreateStatus \subseteq Realized, Undisturbed,
                    NEW a \in Account
             PROVE  balance[a] + TotalQueued(a) + TotalLate(a)
                      = TotalWorth(OfAccount(a))
  BY DEF BooksBalance
<1>1. /\ Typed /\ Faithful /\ OneWay
      /\ IsFiniteSet(Stored) /\ Accounted /\ Balanced
  BY DEF Careful, Even, Calm, Undisturbed, Steady
<1> DEFINE done == SettledIn(a)
           way  == InQueue(a)
           late == InLate(a)
<1>2. /\ OfAccount(a) = (done \union way) \union late
      /\ done \intersect way = {} /\ (done \union way) \intersect late = {}
  BY <1>1, WhereMoneyIs
<1>3. IsFiniteSet(OfAccount(a)) /\ OfAccount(a) \in SUBSET Rec
  BY <1>1, SettledFinite DEF OfAccount, Stored
<1>4. IsFiniteSet(done) /\ IsFiniteSet(way) /\ IsFiniteSet(done \union way)
      /\ IsFiniteSet(late)
  BY <1>2, <1>3, FS_Subset
<1>5. \A r \in OfAccount(a) : Worths[r] \in Int
  BY <1>1, WorthIsInt DEF OfAccount, Stored, Worths
<1>6. Sum(Worths, done) \in Int /\ Sum(Worths, way) \in Int
      /\ Sum(Worths, late) \in Int
  BY <1>2, <1>4, <1>5, SumType
<1>7. Sum(Worths, done \union way) = Sum(Worths, done) + Sum(Worths, way)
  BY <1>2, <1>4, <1>5, SumUnion
<1>8. Sum(Worths, OfAccount(a)) = Sum(Worths, done \union way) + Sum(Worths, late)
  BY <1>2, <1>4, <1>5, SumUnion
<1>9. TotalWorth(OfAccount(a)) = Sum(Worths, OfAccount(a)) BY <1>3, BridgeWorth
<1>10. TotalQueued(a) = Sum(Worths, way) BY <1>1, QueuedSum
<1>11. TotalLate(a) = Sum(Worths, late) BY <1>1, LateSum
<1>12. balance[a] = Sum(Worths, done) BY <1>1 DEF Balanced
<1> HIDE DEF done, way, late
<1>13. QED BY <1>6, <1>7, <1>8, <1>9, <1>10, <1>11, <1>12

(* BooksBalance: at every moment the balance of each account and the money *)
(* under way add up to the journal, for any number of records, requests    *)
(* and accounts. The invariant Even says where the money of each record    *)
(* is; OneWay, that it is there once.                                      *)
THEOREM TheBooksBalance == Spec => []BooksBalance
<1>1. Init => Careful /\ Even BY CarefulInit, EvenInit
<1>2. Careful /\ Even /\ [Next]_vars => (Careful /\ Even)'
  BY CarefulNext, EvenNext
<1>3. QED BY <1>1, <1>2, BooksAddUp, PTL DEF Spec
-----------------------------------------------------------------------------
(***************************************************************************)
(* The monthly masters.                                                    *)
(***************************************************************************)
(* The monthly masters. What the balance holds and the master does not     *)
(* yet: the job between its two writes.                                    *)
UnderWay(a) ==
  IF balanceW.step = "written" /\ Head(balanceQ).account = a
  THEN Signed(Head(balanceQ).operation, Head(balanceQ).amount) ELSE 0

(* Nothing but the worker itself takes the job it is at.                   *)
LEMMA SameJob ==
  ASSUME Typed, [Next]_vars, balanceW.step # "idle",
         ~MasterUpdate, ~JobFails
  PROVE  balanceQ # <<>> /\ Head(balanceQ') = Head(balanceQ)
<1> USE DEF stores, queues, workers, history
<1>1. balanceQ # <<>> /\ balanceQ \in Seq(BalanceJob)
  BY DEF Typed, WorkersBusy, TypeOK
<1>2. ASSUME NEW q \in Request, Begin(q) \/ Finish(q) \/ CancelFail(q)
      PROVE  Head(balanceQ') = Head(balanceQ)
  BY <1>1, <1>2, RequestsAppend
<1>3. CASE StatusDispatch
  <2>1. PICK lost \in SUBSET {"balance", "center"} : StatusDispatch!(lost)
    BY <1>3 DEF StatusDispatch
  <2>2. statusQ # <<>> BY <2>1 DEF Typed, WorkersBusy
  <2>3. PostJob(Head(statusQ).id, Head(statusQ).row) \in BalanceJob
    BY <2>2, HeadStatusJob, JobTypes
  <2>4. QED BY <1>1, <2>1, <2>3, EnqueueHead
<1>4. CASE \/ StatusValidate \/ StatusStore \/ BalanceRead \/ BalanceWrite
           \/ CenterUpdate \/ Crash
           \/ \E a \in Account : EditRead(a) \/ EditWrite(a)
           \/ \E m \in Month : FlipMonth(m)
           \/ UNCHANGED vars
  BY <1>1, <1>4 DEF StatusValidate, StatusStore, BalanceRead, BalanceWrite,
     CenterUpdate, Crash, EditRead, EditWrite, FlipMonth, vars
<1>5. QED
  BY <1>1, <1>2, <1>3, <1>4 DEF Next, StatusWorker, BalanceWorker

(* The steps that leave masters and worker alone, and those that do not.   *)
LEMMA MasterSame ==
  ASSUME Typed, [Next]_vars, ~MasterUpdate, ~BalanceWorker, ~JobFails, ~Crash
  PROVE  master' = master /\ balanceW' = balanceW
<1> USE DEF stores, queues, workers, history
<1>1. ASSUME NEW q \in Request, Begin(q) \/ Finish(q) \/ CancelFail(q)
      PROVE  master' = master
  BY <1>1 DEF Begin, Finish, CreateStart, CancelRead, MatchRead, LinkRead, CreateStore,
              CreateCommit, CancelValidate, CancelStore, CancelCommit,
              ReconcileDispatch, CancelFail
<1>2. CASE \/ StatusWorker \/ CenterUpdate
           \/ \E a \in Account : EditRead(a) \/ EditWrite(a)
           \/ \E m \in Month : FlipMonth(m)
           \/ UNCHANGED vars
  BY <1>2 DEF StatusWorker, StatusValidate, StatusStore, StatusDispatch,
     CenterUpdate, EditRead, EditWrite, FlipMonth, vars
<1>3. QED BY <1>1, <1>2, RequestsAppend DEF Next

LEMMA MasterNext ==
  ASSUME Careful, MasterFollows, [Next]_vars
  PROVE  MasterFollows'
<1> USE DEF Careful, stores, queues, workers, history
<1> SUFFICES ASSUME Undisturbed', NEW a \in Account
             PROVE  master'[a].input - master'[a].output
                      = balance'[a] - UnderWay(a)'
  BY DEF MasterFollows, UnderWay
<1>1. /\ Undisturbed /\ "staleEdit" \notin incidents /\ "staleEdit" \notin incidents'
      /\ ~JobFails /\ ~Crash
  BY IncidentsGrow DEF Undisturbed, JobFails, Crash
<1>2. master[a].input - master[a].output = balance[a] - UnderWay(a)
  BY <1>1 DEF MasterFollows, UnderWay
<1>3. /\ master \in [Account -> [input : Nat, output : Nat]]
      /\ balance \in [Account -> Int]
  BY DEF Typed, TypeOK
<1>4. CASE BalanceRead
  BY <1>2, <1>4 DEF BalanceRead, UnderWay
<1>5. CASE BalanceWrite \/ MasterUpdate
  <2> DEFINE job == Head(balanceQ)
  <2>1. balanceQ # <<>> BY <1>5 DEF BalanceWrite, MasterUpdate, Typed, WorkersBusy
  <2>2. job \in BalanceJob BY <2>1, HeadBalanceJob
  <2>3. job.account \in Account /\ job.amount \in Nat BY <2>2 DEF BalanceJob
  <2>4. CASE BalanceWrite
    <3>1. balanceW.step = "read" /\ balanceW.seen = balance[job.account]
      BY <1>1, <2>4 DEF BalanceWrite, Seen
    <3>2. /\ master' = master /\ balanceQ' = balanceQ
          /\ balanceW'.step = "written"
          /\ balance' = [balance EXCEPT ![job.account] =
                          @ + Signed(job.operation, job.amount)]
      BY <1>3, <2>3, <2>4, <3>1 DEF BalanceWrite, Signed, Typed, TypeOK
    <3>3. UnderWay(a) = 0 BY <3>1 DEF UnderWay
    <3>4. UnderWay(a)' = IF a = job.account
                         THEN Signed(job.operation, job.amount) ELSE 0
      BY <3>2 DEF UnderWay
    <3>5. balance'[a] = IF a = job.account
                        THEN balance[a] + Signed(job.operation, job.amount)
                        ELSE balance[a]
      BY <1>3, <3>2
    <3>6. Signed(job.operation, job.amount) \in Int BY <2>3 DEF Signed
    <3> HIDE DEF job
    <3>7. QED BY <1>2, <1>3, <3>2, <3>3, <3>4, <3>5, <3>6
  <2>5. CASE MasterUpdate
    <3>1. balance' = balance /\ balanceW'.step = "idle" /\ balanceW.step = "written"
      BY <2>5 DEF MasterUpdate, IdleBal
    <3>2. UnderWay(a)' = 0 BY <3>1 DEF UnderWay
    <3>3. UnderWay(a) = IF a = job.account
                        THEN Signed(job.operation, job.amount) ELSE 0
      BY <3>1 DEF UnderWay
    <3>4. master'[a].input - master'[a].output
            = master[a].input - master[a].output
              + (IF a = job.account THEN Signed(job.operation, job.amount) ELSE 0)
      BY <1>3, <2>3, <2>5 DEF MasterUpdate, Signed
    <3>5. Signed(job.operation, job.amount) \in Int BY <2>3 DEF Signed
    <3> HIDE DEF job
    <3>6. QED BY <1>2, <1>3, <3>1, <3>2, <3>3, <3>4, <3>5
  <2>6. QED BY <1>5, <2>4, <2>5
<1>6. CASE ~BalanceRead /\ ~BalanceWrite /\ ~MasterUpdate
  <2>1. master' = master /\ balanceW' = balanceW
    BY <1>1, <1>6, MasterSame DEF BalanceWorker
  <2>2. balance' = balance BY <1>1, <1>6, BalanceSame
  <2>3. balanceW.step = "written" => Head(balanceQ') = Head(balanceQ)
    BY <1>1, <1>6, SameJob
  <2>4. QED BY <1>2, <2>1, <2>2, <2>3 DEF UnderWay
<1>7. QED BY <1>4, <1>5, <1>6

(* MasterFollows: input less output of the monthly master follows the      *)
(* balance of its account, job after job.                                  *)
THEOREM TheMasterFollows == Spec => []MasterFollows
<1>1. Init => MasterFollows BY DEF Init, MasterFollows, IdleBal
<1>2. QED BY <1>1, CarefulInit, CarefulNext, MasterNext, PTL DEF Spec
-----------------------------------------------------------------------------
(***************************************************************************)
(* The statuses of a quiet ledger.                                         *)
(***************************************************************************)
(* The statuses. A record has one reversal, short of a second cancellation *)
(* that overlapped the first.                                              *)
Single ==
  \A v, w \in Rec :
    rec[v] # NoRow /\ rec[w] # NoRow /\ rec[v].of = rec[w].of
      /\ rec[v].of # NoRec => v = w

(* A reversed record is void already, or a job will make it so, or the     *)
(* request that stored the reversal will dispatch that job.                *)
Owed(r) ==
  \E i \in 1..Len(statusQ) :
    /\ statusQ[i].id = r /\ statusQ[i].to = "VOID" /\ statusQ[i].withId
    /\ i = 1 => statusW # "stored"

Promised(v) == \E q \in Request : req[q].step = "reversed" /\ req[q].rev = v

VoidOnWay ==
  \A v \in Rec : rec[v] # NoRow /\ rec[v].of # NoRec =>
    rec[rec[v].of].status = "VOID" \/ Owed(rec[v].of) \/ Promised(v)

Orderly ==
  /\ "secondReversal" \notin incidents => Single
  /\ incidents = {} => VoidOnWay
-----------------------------------------------------------------------------
(* Which rows a step adds: those of CreateStore and of CancelStore.        *)
LEMMA SingleNext ==
  ASSUME Typed, Faithful, Single, [Next]_vars, "secondReversal" \notin incidents'
  PROVE  Single'
<1>0. Kept(rec, rec') BY FaithfulNext
<1>1. \A r \in Rec : rec[r] # NoRow => rec'[r] # NoRow /\ rec'[r].of = rec[r].of
  BY <1>0 DEF Kept, SameMoney
<1>2. CASE \A q \in Request : ~CreateStore(q) /\ ~CancelStore(q)
  <2>1. \A r \in Rec : rec[r] = NoRow => rec'[r] = NoRow
    BY <1>2, OnlyStoresAdd
  <2>2. QED BY <1>1, <2>1 DEF Single
<1>3. ASSUME NEW q \in Request, CreateStore(q) PROVE Single'
  <2>1. PICK v \in Rec : CreateStore(q)!(v) BY <1>3 DEF CreateStore
  <2>2. req[q].row \in Original BY <2>1, SessionFacts
  <2>3. rec'[v].of = NoRec /\ \A r \in Rec : r # v => rec'[r] = rec[r]
    BY <2>1, <2>2, RowsAreDisjoint DEF Typed, TypeOK
  <2>4. QED BY <1>1, <2>3 DEF Single
<1>4. ASSUME NEW q \in Request, CancelStore(q) PROVE Single'
  <2>1. PICK v \in Rec : CancelStore(q)!(v) BY <1>4 DEF CancelStore
  <2>2. req[q].row \in Original /\ req[q].id \in Rec BY <2>1, SessionFacts
  <2>3. rec'[v].of = req[q].id /\ \A r \in Rec : r # v => rec'[r] = rec[r]
    BY <2>1, <2>2, ReversalRowFacts DEF Typed, TypeOK
  <2>4. \A w \in Rec : rec[w] # NoRow => rec[w].of # req[q].id
    BY <2>1 DEF Noted
  <2>5. QED BY <1>1, <2>1, <2>3, <2>4 DEF Single
<1>5. QED BY <1>2, <1>3, <1>4

(* What a step must leave alone for VoidOnWay to hold after it.            *)
LEMMA VoidStep ==
  ASSUME Typed, Faithful, VoidOnWay, Kept(rec, rec'),
         \A r \in Rec : rec[r] # NoRow /\ rec[r].status = "VOID"
                          => rec'[r].status = "VOID",
         \A v \in Rec : rec[v] = NoRow /\ rec'[v] # NoRow /\ rec'[v].of # NoRec
                          => Promised(v)',
         \A r \in Rec : Owed(r) => rec'[r].status = "VOID" \/ Owed(r)',
         \A v \in Rec : Promised(v) => Promised(v)' \/ Owed(rec[v].of)'
  PROVE  VoidOnWay'
<1> SUFFICES ASSUME NEW v \in Rec, rec'[v] # NoRow, rec'[v].of # NoRec
             PROVE  (\/ rec[rec[v].of].status = "VOID"
                     \/ Owed(rec[v].of) \/ Promised(v))'
  BY DEF VoidOnWay
<1>1. CASE rec[v] = NoRow BY <1>1
<1>2. CASE rec[v] # NoRow
  <2>1. rec'[v].of = rec[v].of BY <1>2 DEF Kept, SameMoney
  <2>2. rec[v].of \in Rec /\ rec[rec[v].of] # NoRow BY <1>2, <2>1, RecordFacts
  <2>3. \/ rec[rec[v].of].status = "VOID" \/ Owed(rec[v].of) \/ Promised(v)
    BY <1>2, <2>1 DEF VoidOnWay
  <2>4. QED BY <2>1, <2>2, <2>3
<1>3. QED BY <1>1, <1>2

(* A job for another record leaves the queue, or one joins it.             *)
LEMMA OwedTail ==
  ASSUME Typed, statusQ # <<>>, statusQ' = Tail(statusQ), statusW' = "idle",
         NEW r, Owed(r),
         statusW = "stored" \/ ~Head(statusQ).withId \/ Head(statusQ).id # r
  PROVE  Owed(r)'
<1>1. /\ Len(statusQ) \in Nat /\ Len(statusQ') = Len(statusQ) - 1
      /\ \A i \in 1..Len(statusQ') : statusQ'[i] = statusQ[i + 1]
      /\ Head(statusQ) = statusQ[1]
  BY EmptySeq, HeadTailProperties, LenProperties DEF Typed, TypeOK
<1>2. PICK i \in 1..Len(statusQ) :
        /\ statusQ[i].id = r /\ statusQ[i].to = "VOID" /\ statusQ[i].withId
        /\ i = 1 => statusW # "stored"
  BY DEF Owed
<1>3. i # 1 BY <1>1, <1>2
<1>4. i - 1 \in 1..Len(statusQ') /\ statusQ'[i - 1] = statusQ[i]
  BY <1>1, <1>2, <1>3
<1>5. QED BY <1>2, <1>4 DEF Owed

LEMMA OwedAppend ==
  ASSUME Typed, NEW job \in StatusJob, statusQ' = Append(statusQ, job),
         statusW' = statusW
  PROVE  /\ \A r : Owed(r) => Owed(r)'
         /\ job.to = "VOID" /\ job.withId => Owed(job.id)'
<1> DEFINE n == Len(statusQ)
<1>1. statusQ \in Seq(StatusJob) /\ n \in Nat
  BY LenProperties DEF Typed, TypeOK
<1>2. /\ Len(statusQ') = n + 1 /\ statusQ'[n + 1] = job
      /\ \A i \in 1..n : statusQ'[i] = statusQ[i] /\ i \in 1..(n + 1)
  BY <1>1, AppendProperties
<1>3. \A r : Owed(r) => Owed(r)' BY <1>2 DEF Owed
<1>4. n + 1 = 1 => statusW' # "stored"
  <2>1. n = 0 => statusQ = <<>> BY <1>1, EmptySeq
  <2>2. QED BY <1>1, <2>1 DEF Typed, WorkersBusy
<1>5. n + 1 \in 1..Len(statusQ') BY <1>1, <1>2
<1> HIDE DEF n
<1>6. QED BY <1>2, <1>3, <1>4, <1>5 DEF Owed

(* The worker's steps, the requests', and all.                             *)
LEMMA VoidStatus ==
  ASSUME Typed, Faithful, VoidOnWay, StatusWorker, incidents' = {}
  PROVE  VoidOnWay'
<1> USE DEF stores, queues, workers, history
<1>0. Kept(rec, rec') BY FaithfulStatus
<1>1. \A v \in Rec : Promised(v) => Promised(v)'
  BY DEF StatusWorker, StatusValidate, StatusStore, StatusDispatch, Promised
<1>2. CASE StatusValidate
  <2>1. rec' = rec /\ statusQ' = statusQ /\ statusW' = "validated"
    BY <1>2 DEF StatusValidate
  <2>2. \A r \in Rec : Owed(r) => Owed(r)' BY <2>1 DEF Owed
  <2>3. QED BY <1>0, <1>1, <2>1, <2>2, VoidStep
<1>3. CASE StatusStore
  <2> DEFINE job == Head(statusQ)
  <2>1. statusQ # <<>> BY <1>3 DEF StatusStore, Typed, WorkersBusy
  <2>2. job \in StatusJob /\ job.row \in Original /\ job.id \in Rec
        /\ job.to \in Status
    BY <2>1, HeadStatusJob
  <2>3. job = statusQ[1] /\ 1 \in 1..Len(statusQ)
    BY <2>1, EmptySeq, HeadTailProperties, LenProperties DEF Typed, TypeOK
  <2>4. JobOK(rec, job) BY <2>3 DEF Faithful
  <2>5. CASE job.withId
    <3>1. /\ rec' = [rec EXCEPT ![job.id] = SetStatus(job.row, job.to)]
          /\ statusW' = "stored" /\ statusQ' = statusQ
          /\ rec[job.id].status = job.row.status
      BY <1>3, <2>5 DEF StatusStore, Noted
    <3>2. /\ rec'[job.id] = SetStatus(job.row, job.to)
          /\ \A r \in Rec : r # job.id => rec'[r] = rec[r]
      BY <2>2, <3>1 DEF Typed, TypeOK
    <3>3. rec'[job.id].status = job.to /\ rec[job.id] # NoRow
      BY <2>2, <2>4, <3>2, SetStatusFacts DEF JobOK, Snapshot
    <3>4. job.to \in {"RECONCILED", "VOID"} BY <2>2 DEF StatusJob
    <3>5. rec[job.id].status = "VOID" => job.to = "VOID"
      BY <2>4, <2>5, <3>1, <3>4 DEF JobOK
    <3>6. \A r \in Rec : Owed(r) => rec'[r].status = "VOID" \/ Owed(r)'
      BY <2>3, <3>1, <3>2, <3>3 DEF Owed
    <3> HIDE DEF job
    <3>7. QED BY <1>0, <1>1, <3>2, <3>3, <3>5, <3>6, VoidStep
  <2>6. CASE ~job.withId
    <3>1. rec' = rec /\ statusQ' = Tail(statusQ) /\ statusW' = "idle"
      BY <1>3, <2>6 DEF StatusStore
    <3>2. \A r \in Rec : Owed(r) => Owed(r)' BY <2>1, <2>6, <3>1, OwedTail
    <3>3. QED BY <1>0, <1>1, <3>1, <3>2, VoidStep
  <2>7. QED BY <2>5, <2>6
<1>4. CASE StatusDispatch
  <2>1. /\ rec' = rec /\ statusQ' = Tail(statusQ) /\ statusW' = "idle"
        /\ statusW = "stored"
    BY <1>4 DEF StatusDispatch
  <2>2. statusQ # <<>> BY <2>1 DEF Typed, WorkersBusy
  <2>3. \A r \in Rec : Owed(r) => Owed(r)' BY <2>1, <2>2, OwedTail
  <2>4. QED BY <1>0, <1>1, <2>1, <2>3, VoidStep
<1>5. QED BY <1>2, <1>3, <1>4 DEF StatusWorker

LEMMA VoidRequest ==
  ASSUME Typed, Faithful, VoidOnWay, incidents' = {}, NEW q \in Request,
         Begin(q) \/ Finish(q) \/ CancelFail(q), Kept(rec, rec')
  PROVE  VoidOnWay'
<1> USE DEF stores, queues, workers, history
<1>1. \A p \in Request : p # q => req'[p] = req[p]
  BY DEF Begin, Finish, CreateStart, CancelRead, MatchRead, LinkRead, Start,
         CreateStore, CreateCommit, CancelValidate, CancelStore, CancelCommit,
         ReconcileDispatch, CancelFail, Typed, TypeOK
<1>2. req[q].step # "reversed" => \A v \in Rec : Promised(v) => Promised(v)'
  BY <1>1 DEF Promised
<1>3. CASE Begin(q) \/ CreateCommit(q) \/ CancelValidate(q)
  <2>1. rec' = rec /\ statusQ' = statusQ /\ statusW' = statusW
    BY <1>3 DEF Begin, CreateStart, CancelRead, MatchRead, LinkRead,
                CreateCommit, CancelValidate
  <2>2. req[q].step # "reversed"
    <3>1. Idle.step = "idle" BY DEF Idle
    <3>2. CASE Begin(q)
      BY <3>1, <3>2 DEF Begin, CreateStart, CancelRead, MatchRead, LinkRead, Start
    <3>3. CASE CreateCommit(q) \/ CancelValidate(q)
      BY <3>3 DEF CreateCommit, CancelValidate
    <3>4. QED BY <1>3, <3>2, <3>3
  <2>3. \A r \in Rec : Owed(r) => Owed(r)' BY <2>1 DEF Owed
  <2>4. QED BY <1>2, <2>1, <2>2, <2>3, VoidStep
<1>4. CASE CreateStore(q)
  <2>1. PICK v \in Rec : CreateStore(q)!(v) BY <1>4 DEF CreateStore
  <2>2. req[q].row \in Original BY <2>1, SessionFacts
  <2>3. rec'[v].of = NoRec /\ \A r \in Rec : r # v => rec'[r] = rec[r]
    BY <2>1, <2>2, RowsAreDisjoint DEF Typed, TypeOK
  <2>4. \A r \in Rec : Owed(r) => Owed(r)' BY <2>1 DEF Owed
  <2>5. QED BY <1>2, <2>1, <2>3, <2>4, VoidStep
<1>5. CASE CancelStore(q)
  <2>1. PICK v \in Rec : CancelStore(q)!(v) BY <1>5 DEF CancelStore
  <2>2. \A r \in Rec : r # v => rec'[r] = rec[r]
    BY <2>1 DEF Typed, TypeOK
  <2>3. Promised(v)'
    <3>1. req[q] \in Session BY <2>1, SessionFacts
    <3>2. req'[q].step = "reversed" /\ req'[q].rev = v
      BY <2>1, <3>1 DEF Typed, TypeOK, Session
    <3>3. QED BY <3>2 DEF Promised
  <2>4. \A r \in Rec : Owed(r) => Owed(r)' BY <2>1 DEF Owed
  <2>5. QED BY <1>2, <2>1, <2>2, <2>3, <2>4, VoidStep
<1>6. CASE CancelCommit(q)
  <2>1. PICK lost \in SUBSET {"balance", "status", "center"} :
          CancelCommit(q)!(lost)
    BY <1>6 DEF CancelCommit
  <2> DEFINE job == [id |-> req[q].id, row |-> req[q].row, to |-> "VOID",
                     withId |-> TRUE]
  <2>2. req[q].row \in Original /\ req[q].id \in Rec /\ req[q].rev \in Rec
    BY <2>1, SessionFacts
  <2>3. job \in StatusJob BY <2>2 DEF StatusJob
  <2>4. lost = {} BY <2>1 DEF Noted
  <2>5. statusQ' = Append(statusQ, job) /\ statusW' = statusW /\ rec' = rec
    BY <2>1, <2>4 DEF Enqueue
  <2>6. job.to = "VOID" /\ job.withId /\ job.id = req[q].id OBVIOUS
  <2> HIDE DEF job
  <2>7. \A r : Owed(r) \/ r = req[q].id => Owed(r)'
    BY <2>3, <2>5, <2>6, OwedAppend
  <2>8. rec[req[q].rev].of = req[q].id BY <2>1 DEF Faithful, SessionOK
  <2>9. \A v \in Rec : Promised(v) => Promised(v)' \/ Owed(rec[v].of)'
    <3>1. ASSUME NEW v \in Rec, NEW p \in Request,
                 req[p].step = "reversed", req[p].rev = v
          PROVE  Promised(v)' \/ Owed(rec[v].of)'
      <4>1. CASE p # q BY <1>1, <3>1, <4>1 DEF Promised
      <4>2. CASE p = q BY <2>5, <2>7, <2>8, <3>1, <4>2
      <4>3. QED BY <4>1, <4>2
    <3>2. QED BY <3>1 DEF Promised
  <2>10. QED BY <2>5, <2>7, <2>9, VoidStep
<1>7. CASE ReconcileDispatch(q)
  <2>1. PICK lost \in SUBSET {"status"} : ReconcileDispatch(q)!(lost)
    BY <1>7 DEF ReconcileDispatch
  <2> DEFINE job == [id |-> req[q].id, row |-> req[q].row, to |-> "RECONCILED",
                     withId |-> req[q].step = "matching"]
  <2>2. req[q].row \in Original /\ req[q].id \in Rec /\ req[q].step # "reversed"
    BY <2>1, SessionFacts
  <2>3. job \in StatusJob BY <2>2 DEF StatusJob
  <2>4. lost = {} BY <2>1 DEF Noted
  <2>5. statusQ' = Append(statusQ, job) /\ statusW' = statusW /\ rec' = rec
    BY <2>1, <2>4 DEF Enqueue
  <2> HIDE DEF job
  <2>6. \A r : Owed(r) => Owed(r)' BY <2>3, <2>5, OwedAppend
  <2>7. QED BY <1>2, <2>2, <2>5, <2>6, VoidStep
<1>8. CASE CancelFail(q)
  <2>1. /\ req[q].step = "cancelling"
        /\ rec' = [rec EXCEPT ![req[q].id] = req[q].row]
        /\ rec[req[q].id].status = req[q].row.status
        /\ statusQ' = statusQ /\ statusW' = statusW
    BY <1>8 DEF CancelFail, Noted
  <2>2. req[q].id \in Rec /\ rec[req[q].id] # NoRow
    BY <2>1 DEF Faithful, SessionOK, Snapshot
  <2>3. \A r \in Rec : rec[r] # NoRow => rec'[r].status = rec[r].status
    BY <2>1, <2>2 DEF Typed, TypeOK
  <2>4. \A r \in Rec : rec[r] = NoRow => rec'[r] = NoRow
    BY <2>1, <2>2 DEF Typed, TypeOK
  <2>5. \A r \in Rec : Owed(r) => Owed(r)' BY <2>1 DEF Owed
  <2>6. QED BY <1>2, <2>1, <2>3, <2>4, <2>5, VoidStep
<1>9. QED BY <1>3, <1>4, <1>5, <1>6, <1>7, <1>8 DEF Finish

LEMMA OrderlyNext ==
  ASSUME Typed, Faithful, Orderly, [Next]_vars
  PROVE  Orderly'
<1> USE DEF stores, queues, workers, history
<1>1. "secondReversal" \notin incidents' => Single'
  BY IncidentsGrow, SingleNext DEF Orderly
<1>2. SUFFICES ASSUME incidents' = {} PROVE VoidOnWay'
  BY <1>1 DEF Orderly
<1>3. VoidOnWay BY <1>2, IncidentsGrow DEF Orderly
<1>4. ASSUME NEW q \in Request, Begin(q) \/ Finish(q) \/ CancelFail(q)
      PROVE  VoidOnWay'
  BY <1>2, <1>3, <1>4, FaithfulNext, VoidRequest
<1>5. CASE StatusWorker BY <1>2, <1>3, <1>5, VoidStatus
<1>6. CASE \/ BalanceWorker \/ CenterUpdate
           \/ \E a \in Account : EditRead(a) \/ EditWrite(a)
           \/ \E m \in Month : FlipMonth(m)
           \/ UNCHANGED vars
  <2>1. rec' = rec /\ req' = req /\ statusQ' = statusQ /\ statusW' = statusW
    BY <1>6 DEF BalanceWorker, BalanceRead, BalanceWrite, MasterUpdate,
       CenterUpdate, EditRead, EditWrite, FlipMonth, vars
  <2>2. QED BY <1>3, <2>1 DEF VoidOnWay, Owed, Promised
<1>7. ~JobFails /\ ~Crash BY <1>2 DEF JobFails, Crash
<1>8. QED BY <1>4, <1>5, <1>6, <1>7 DEF Next
-----------------------------------------------------------------------------
(* Cancelled records and their reversals add up to nothing, by any measure *)
(* that counts a reversal as the opposite of its original.                 *)
LEMMA VoidsCancel ==
  ASSUME Typed, Faithful, Orderly, incidents = {}, Quiet,
         CreateStatus \subseteq Realized,
         NEW T \in SUBSET Stored, IsFiniteSet(T),
         \A v \in Stored : rec[v].of # NoRec => (v \in T <=> rec[v].of \in T),
         NEW w, \A r \in T : w[r] \in Int,
         \A v \in T : rec[v].of # NoRec => w[v] = -w[rec[v].of]
  PROVE  Sum(w, {r \in T : rec[r].status \notin Realized}) = 0
<1> DEFINE Voids  == {r \in T : rec[r].status \notin Realized}
           Owners == {r \in Voids : rec[r].of = NoRec}
           Backs  == {r \in Voids : rec[r].of # NoRec}
           m == [v \in Backs |-> rec[v].of]
           g == [v \in Backs |-> w[rec[v].of]]
<1>1. Single /\ VoidOnWay BY DEF Orderly
<1>2. Voids = Owners \union Backs /\ Owners \intersect Backs = {}
      /\ IsFiniteSet(Owners) /\ IsFiniteSet(Backs)
  <2>1. Owners \subseteq T /\ Backs \subseteq T OBVIOUS
  <2>2. IsFiniteSet(Owners) /\ IsFiniteSet(Backs) BY <2>1, FS_Subset
  <2>3. QED BY <2>2
<1>3. \A r \in Voids : r \in Rec /\ rec[r] # NoRow /\ rec[r].status = "VOID"
  <2>1. \A r \in Voids : r \in Rec /\ rec[r] # NoRow BY DEF Stored
  <2>2. \A r \in Voids : rec[r].status # "PENDING" /\ rec[r].status \in Status
    BY <2>1 DEF Faithful, AllBorn, Born, Typed, TypeOK, Original, Reversal, Status
  <2>3. QED BY <2>1, <2>2 DEF Status
<1>4. ASSUME NEW v \in Backs
      PROVE  /\ rec[v].of \in Owners
             /\ w[v] = -w[rec[v].of] /\ w[v] \in Int /\ w[rec[v].of] \in Int
  <2>1. v \in Voids /\ v \in T /\ v \in Stored /\ rec[v].of # NoRec OBVIOUS
  <2>2. /\ v \in Rec /\ rec[v] # NoRow
        /\ rec[v].of \in Rec /\ rec[rec[v].of] # NoRow
        /\ rec[rec[v].of].of = NoRec /\ rec[v].of \in T
    BY <1>3, <2>1, RecordFacts
  <2>3. ~Owed(rec[v].of) /\ ~Promised(v)
    <3>1. Len(statusQ) = 0 BY EmptySeq DEF Quiet
    <3>2. \A q \in Request : req[q].step = "idle" BY DEF Quiet, Idle
    <3>3. QED BY <3>1, <3>2 DEF Owed, Promised
  <2>4. rec[rec[v].of].status = "VOID" BY <1>1, <2>1, <2>2, <2>3 DEF VoidOnWay
  <2>5. rec[v].of \in Owners BY <2>2, <2>4 DEF Realized
  <2>6. QED BY <2>1, <2>2, <2>5
<1>5. m \in [Backs -> Owners] BY <1>4
<1>6. ASSUME NEW v \in Backs, NEW u \in Backs, m[v] = m[u] PROVE v = u
  <2>1. /\ rec[v].of = rec[u].of /\ rec[v].of # NoRec /\ v \in Voids /\ u \in Voids
    BY <1>6
  <2>2. QED BY <1>1, <1>3, <2>1 DEF Single
<1>7. ASSUME NEW r \in Owners PROVE \E v \in Backs : m[v] = r
  <2>1. r \in T /\ r \in Stored /\ rec[r].status = "VOID" /\ rec[r].of = NoRec
    BY <1>3 DEF Stored
  <2>2. rec[r].type # "REVERSAL"
    <3>1. rec[r] \in Original \union Reversal /\ rec[r] \notin Reversal
      BY <2>1, RecAssumption DEF Typed, TypeOK, Stored, Reversal
    <3>2. QED BY <3>1, RowsAreDisjoint
  <2>3. PICK v \in Stored : rec[v].of = r
    BY <2>1, <2>2 DEF Faithful, AuditTrail, Reversed
  <2>4. r \in Rec /\ rec[v].of # NoRec /\ v \in Rec /\ rec[v] # NoRow
    BY <2>1, <2>3, RecAssumption DEF Stored
  <2>5. v \in T BY <2>1, <2>3, <2>4
  <2>6. rec[v] \in Reversal
    BY <2>4, RowsAreDisjoint DEF Typed, TypeOK
  <2>7. rec[v].status \notin Realized BY <2>6 DEF Reversal, Realized
  <2>8. v \in Backs BY <2>4, <2>5, <2>7
  <2>9. QED BY <2>3, <2>8
<1>8. \A v \in Backs : g[v] = w[m[v]] /\ g[v] \in Int /\ w[v] = -g[v]
  BY <1>4
<1>9. \A r \in Owners \union Backs : w[r] \in Int OBVIOUS
<1> HIDE DEF m, g, Owners, Backs, Voids
<1>10. Sum(g, Backs) = Sum(w, Owners)
  BY <1>2, <1>5, <1>6, <1>7, <1>8, SumRename
<1>11. Sum(w, Backs) = -Sum(g, Backs) BY <1>2, <1>8, SumNegate
<1>12. Sum(w, Owners \union Backs) = Sum(w, Owners) + Sum(w, Backs)
  BY <1>2, <1>9, SumUnion
<1>13. Sum(w, Owners) \in Int BY <1>2, <1>9, SumType
<1>14. Sum(w, Voids) = 0 BY <1>2, <1>10, <1>11, <1>12, <1>13
<1>15. QED BY <1>14 DEF Voids

(* A reversal is worth the opposite of its original, in its account.       *)
LEMMA ReversalWorth ==
  ASSUME Typed, Faithful, NEW v \in Stored, rec[v].of # NoRec
  PROVE  /\ rec[v].of \in Stored /\ rec[rec[v].of].account = rec[v].account
         /\ Worths[v] = -Worths[rec[v].of]
<1>1. /\ v \in Rec /\ rec[v].of \in Rec /\ rec[rec[v].of] # NoRow
      /\ rec[rec[v].of].of = NoRec /\ rec[rec[v].of].account = rec[v].account
  BY RecordFacts DEF Stored
<1>2. QED BY <1>1 DEF Worths, Worth, Stored

LEMMA StatusesAgree ==
  ASSUME Careful, Even, Orderly, CreateStatus \subseteq Realized
  PROVE  StatusAgrees
<1> SUFFICES ASSUME Quiet, incidents = {}, NEW a \in Account
             PROVE  balance[a] = TotalWorth({r \in OfAccount(a) :
                                               rec[r].status \in Realized})
  BY DEF StatusAgrees
<1>1. /\ Typed /\ Faithful /\ OneWay
      /\ IsFiniteSet(Stored) /\ Accounted /\ Balanced
  BY DEF Careful, Even, Calm, Undisturbed, Steady
<1> DEFINE good == {r \in OfAccount(a) : rec[r].status \in Realized}
           void == {r \in OfAccount(a) : rec[r].status \notin Realized}
<1>2. InQueue(a) = {} /\ InLate(a) = {}
  <2>1. DOMAIN balanceQ = {} BY DEF Quiet
  <2>2. \A q \in Request : req[q].step = "idle" BY DEF Quiet, Idle
  <2>3. QED BY <2>1, <2>2 DEF InQueue, QueuedIn, InLate, LateIn
<1>3. SettledIn(a) = OfAccount(a) BY <1>1, <1>2, WhereMoneyIs
<1>4. /\ IsFiniteSet(OfAccount(a)) /\ good \subseteq OfAccount(a)
      /\ void \subseteq OfAccount(a)
      /\ good \union void = OfAccount(a) /\ good \intersect void = {}
  BY <1>1, SettledFinite
<1>5. IsFiniteSet(good) /\ IsFiniteSet(void) BY <1>4, FS_Subset
<1>6. \A r \in OfAccount(a) : r \in Rec /\ Worths[r] \in Int
  BY <1>1, WorthIsInt DEF OfAccount, Stored, Worths
<1>7. Sum(Worths, void) = 0
  <2>1. OfAccount(a) \in SUBSET Stored BY DEF OfAccount
  <2>2. \A v \in Stored : rec[v].of # NoRec =>
          /\ v \in OfAccount(a) <=> rec[v].of \in OfAccount(a)
          /\ Worths[v] = -Worths[rec[v].of]
    BY <1>1, ReversalWorth DEF OfAccount
  <2>3. QED BY <1>1, <1>4, <1>6, <2>1, <2>2, VoidsCancel
<1>8. balance[a] = Sum(Worths, OfAccount(a)) BY <1>1, <1>3 DEF Balanced
<1> HIDE DEF good, void
<1>9. Sum(Worths, OfAccount(a)) = Sum(Worths, good) + Sum(Worths, void)
  BY <1>4, <1>5, <1>6, SumUnion
<1>10. Sum(Worths, good) \in Int BY <1>4, <1>5, <1>6, SumType
<1>11. TotalWorth(good) = Sum(Worths, good) BY <1>4, <1>5, <1>6, BridgeWorth
<1>12. balance[a] = TotalWorth(good) BY <1>7, <1>8, <1>9, <1>10, <1>11
<1>13. QED BY <1>12 DEF good

(* StatusAgrees: when all work is done and no anomaly has happened, each   *)
(* balance is the sum of the records that are cleared or reconciled. It    *)
(* follows from BooksBalance, from what is not realized cancelling out,    *)
(* and from records being created realized, as every caller of             *)
(* CreateFinancialRecord does.                                             *)
THEOREM TheStatusesAgree ==
  ASSUME CreateStatus \subseteq Realized PROVE Spec => []StatusAgrees
<1>1. Init => Careful /\ Even /\ Orderly
  <2>1. Init => Orderly
    BY DEF Init, Orderly, Single, VoidOnWay
  <2>2. QED BY <2>1, CarefulInit, EvenInit
<1>2. Careful /\ Even /\ Orderly /\ [Next]_vars
        => (Careful /\ Even /\ Orderly)'
  BY CarefulNext, EvenNext, OrderlyNext DEF Careful
<1>3. Careful /\ Even /\ Orderly => StatusAgrees BY StatusesAgree
<1>4. QED BY <1>1, <1>2, <1>3, PTL DEF Spec
-----------------------------------------------------------------------------
(***************************************************************************)
(* The cost centres.                                                       *)
(***************************************************************************)
(* The cost centres. What a job adds to the total of a centre, and a       *)
(* record, by way of its job: an original its amount, a reversal the       *)
(* opposite.                                                               *)
CostOf(j, c) ==
  IF j.costCenter # c THEN 0
  ELSE IF j.operation = "subtract" THEN -j.amount ELSE j.amount

JobCosts(queue, c) == [i \in 1..Len(queue) |-> CostOf(queue[i], c)]
QueueCost(queue, c) == Sum(JobCosts(queue, c), 1..Len(queue))

CostTo(r, c) ==
  LET origin == IF rec[r].of = NoRec THEN rec[r] ELSE rec[rec[r].of]
  IN  IF origin.costCenter # c THEN 0
      ELSE IF rec[r].of = NoRec THEN origin.amount ELSE -origin.amount

CostsTo(c) == [r \in Rec |-> CostTo(r, c)]

(* The records whose dispatch is done; only an outgo has a centre.         *)
Committed == {r \in Stored : ~Held(r)}

Costed ==
  \A r \in Rec : rec[r] # NoRow /\ rec[r].type # "OUTGO"
                   => rec[r].costCenter = NoCostCenter

(* The total of a centre and the jobs on their way to it are what the      *)
(* committed records cost.                                                 *)
Centered ==
  \A c \in CostCenter :
    ccTotal[c] + QueueCost(centerQ, c) = Sum(CostsTo(c), Committed)
-----------------------------------------------------------------------------
(* A job joins the queue, or leaves it.                                    *)
LEMMA QueueCostType ==
  ASSUME NEW queue \in Seq(CenterJob), NEW c
  PROVE  /\ Len(queue) \in Nat /\ IsFiniteSet(1..Len(queue))
         /\ \A i \in 1..Len(queue) : JobCosts(queue, c)[i] \in Int
         /\ QueueCost(queue, c) \in Int
<1>1. Len(queue) \in Nat /\ \A i \in 1..Len(queue) : queue[i] \in CenterJob
  BY LenProperties, ElementOfSeq
<1>2. IsFiniteSet(1..Len(queue)) BY <1>1, FS_Interval
<1>3. \A i \in 1..Len(queue) : JobCosts(queue, c)[i] \in Int
  BY <1>1 DEF JobCosts, CostOf, CenterJob
<1>4. QED BY <1>1, <1>2, <1>3, SumType DEF QueueCost

LEMMA QueueCostAppend ==
  ASSUME NEW queue \in Seq(CenterJob), NEW job \in CenterJob, NEW c
  PROVE  QueueCost(Append(queue, job), c) = QueueCost(queue, c) + CostOf(job, c)
<1> DEFINE n    == Len(queue)
           more == Append(queue, job)
           g    == JobCosts(queue, c)
           h    == JobCosts(more, c)
<1>1. more \in Seq(CenterJob) /\ Len(more) = n + 1 /\ more[n + 1] = job
      /\ \A i \in 1..n : more[i] = queue[i]
  BY AppendProperties
<1>2. n \in Nat /\ \A i \in 1..(n + 1) : h[i] \in Int BY <1>1, QueueCostType
<1>3. h[n + 1] = CostOf(job, c) /\ \A i \in 1..n : g[i] = h[i]
  BY <1>1, <1>2 DEF JobCosts
<1> HIDE DEF g, h, more, n
<1>4. Sum(h, 1..(n + 1)) = Sum(g, 1..n) + h[n + 1] BY <1>2, <1>3, SumLast
<1>5. QED BY <1>1, <1>3, <1>4 DEF QueueCost, g, h, more, n

LEMMA QueueCostTail ==
  ASSUME NEW queue \in Seq(CenterJob), queue # <<>>, NEW c
  PROVE  QueueCost(queue, c) = CostOf(Head(queue), c) + QueueCost(Tail(queue), c)
<1> DEFINE n    == Len(queue)
           rest == Tail(queue)
           g    == JobCosts(queue, c)
           h    == JobCosts(rest, c)
<1>1. n \in Nat /\ (\A i \in 1..n : g[i] \in Int) /\ n # 0
  BY QueueCostType, EmptySeq
<1>2. rest \in Seq(CenterJob) /\ Len(rest) = n - 1 /\ Head(queue) = queue[1]
      /\ \A i \in 1..(n - 1) : rest[i] = queue[i + 1]
  BY HeadTailProperties
<1>3. g[1] = CostOf(Head(queue), c) BY <1>1, <1>2 DEF JobCosts
<1>4. ASSUME NEW i \in 1..(n - 1) PROVE h[i] = g[i + 1]
  <2>1. i \in 1..(n - 1) /\ i + 1 \in 1..n BY <1>1
  <2>2. QED BY <1>2, <2>1 DEF JobCosts
<1> HIDE DEF g, h, n, rest
<1>5. Sum(g, 1..n) = g[1] + Sum(h, 1..(n - 1)) BY <1>1, <1>4, SumFirst
<1>6. QED BY <1>2, <1>3, <1>5 DEF QueueCost, g, h, n, rest
-----------------------------------------------------------------------------
(* Steps that commit no record; the dispatch that commits one; the job.    *)
LEMMA CostKept ==
  ASSUME Typed, Faithful, Kept(rec, rec'), NEW r \in Rec, rec[r] # NoRow, NEW c
  PROVE  CostTo(r, c)' = CostTo(r, c) /\ CostTo(r, c) \in Int
<1>1. SameMoney(rec[r], rec'[r]) BY DEF Kept
<1>2. rec[r].of # NoRec => SameMoney(rec[rec[r].of], rec'[rec[r].of])
  BY RecordFacts DEF Kept
<1>3. CostTo(r, c)' = CostTo(r, c) BY <1>1, <1>2 DEF CostTo, SameMoney
<1>4. CostTo(r, c) \in Int BY RecordFacts DEF CostTo
<1>5. QED BY <1>3, <1>4

LEMMA CenteredKept ==
  ASSUME Typed, Faithful, IsFiniteSet(Stored), Centered, Kept(rec, rec'),
         \A r \in Rec : rec[r] = NoRow /\ rec'[r] # NoRow => Held(r)',
         \A r \in Rec : rec[r] # NoRow => (Held(r)' <=> Held(r)),
         centerQ' = centerQ, ccTotal' = ccTotal
  PROVE  Centered'
<1> SUFFICES ASSUME NEW c \in CostCenter
             PROVE  ccTotal[c] + QueueCost(centerQ, c)
                      = Sum(CostsTo(c)', Committed')
  BY DEF Centered
<1>1. Committed' = Committed BY DEF Committed, Stored, Kept
<1>2. IsFiniteSet(Committed)
  <2>1. Committed \subseteq Stored BY DEF Committed
  <2>2. QED BY <2>1, FS_Subset
<1>3. \A r \in Committed : CostsTo(c)[r] = CostsTo(c)'[r]
  BY CostKept DEF Committed, Stored, CostsTo
<1>4. Sum(CostsTo(c), Committed) = Sum(CostsTo(c)', Committed)
  BY <1>2, <1>3, SumExt
<1>5. QED BY <1>1, <1>4 DEF Centered

LEMMA CenteredDispatch ==
  ASSUME Typed, Faithful, IsFiniteSet(Stored), Centered, NEW r \in Rec,
         rec[r] # NoRow, rec' = rec, ccTotal' = ccTotal,
         Held(r), ~Held(r)', \A s \in Rec : s # r => (Held(s)' <=> Held(s)),
         NEW job \in CenterJob,
         \/ /\ centerQ' = Append(centerQ, job)
            /\ \A c \in CostCenter : CostOf(job, c) = CostTo(r, c)
         \/ /\ centerQ' = centerQ
            /\ \A c \in CostCenter : CostTo(r, c) = 0
  PROVE  Centered'
<1> SUFFICES ASSUME NEW c \in CostCenter
             PROVE  ccTotal[c] + QueueCost(centerQ', c)
                      = Sum(CostsTo(c)', Committed')
  BY DEF Centered
<1>0. Kept(rec, rec') BY DEF Kept, SameMoney
<1>1. Committed' = Committed \union {r} /\ r \notin Committed
  BY DEF Committed, Stored
<1>2. CostsTo(c)' = CostsTo(c) BY DEF CostsTo, CostTo
<1>3. IsFiniteSet(Committed)
  <2>1. Committed \subseteq Stored BY DEF Committed
  <2>2. QED BY <2>1, FS_Subset
<1>4. \A s \in Committed \union {r} : CostsTo(c)[s] \in Int
  BY <1>0, CostKept DEF Committed, Stored, CostsTo
<1>5. Sum(CostsTo(c), Committed \union {r})
        = Sum(CostsTo(c), Committed) + CostsTo(c)[r]
  BY <1>1, <1>3, <1>4, SumAdd
<1>6. CostsTo(c)[r] = CostTo(r, c) BY DEF CostsTo
<1>7. centerQ \in Seq(CenterJob) /\ ccTotal[c] \in Int BY DEF Typed, TypeOK
<1>8. QueueCost(centerQ, c) \in Int /\ CostTo(r, c) \in Int
  BY <1>4, <1>6, <1>7, QueueCostType
<1>9. QueueCost(centerQ', c) = QueueCost(centerQ, c) + CostTo(r, c)
  <2>1. QueueCost(Append(centerQ, job), c)
          = QueueCost(centerQ, c) + CostOf(job, c)
    BY <1>7, QueueCostAppend
  <2>2. CASE centerQ' = Append(centerQ, job) /\ CostOf(job, c) = CostTo(r, c)
    BY <2>1, <2>2
  <2>3. CASE centerQ' = centerQ /\ CostTo(r, c) = 0 BY <1>8, <2>3
  <2>4. QED BY <2>2, <2>3
<1>10. Sum(CostsTo(c)', Committed') = Sum(CostsTo(c), Committed) + CostTo(r, c)
  BY <1>1, <1>2, <1>5, <1>6
<1>11. ccTotal[c] + QueueCost(centerQ, c) = Sum(CostsTo(c), Committed)
  BY DEF Centered
<1>12. QED BY <1>7, <1>8, <1>9, <1>10, <1>11

LEMMA CenteredUpdate ==
  ASSUME Typed, Faithful, Centered, CenterUpdate
  PROVE  Centered'
<1> USE DEF stores, queues, workers, history
<1>1. /\ centerQ # <<>> /\ centerQ' = Tail(centerQ)
      /\ rec' = rec /\ req' = req
  BY DEF CenterUpdate
<1>2. centerQ \in Seq(CenterJob) /\ Head(centerQ) \in CenterJob
      /\ Tail(centerQ) \in Seq(CenterJob)
  BY <1>1, TailType DEF Typed, TypeOK
<1> SUFFICES ASSUME NEW c \in CostCenter
             PROVE  ccTotal'[c] + QueueCost(centerQ', c)
                      = Sum(CostsTo(c)', Committed')
  BY DEF Centered
<1>3. CostsTo(c)' = CostsTo(c) /\ Committed' = Committed
  BY <1>1 DEF CostsTo, CostTo, Committed, Stored, Held
<1>4. ccTotal'[c] = ccTotal[c] + CostOf(Head(centerQ), c)
  <2> DEFINE job == Head(centerQ)
  <2>1. ccTotal \in [CostCenter -> Int] /\ job.amount \in Nat
        /\ c # NoCostCenter
    BY <1>2, CenterAssumption DEF Typed, TypeOK, CenterJob
  <2>2. CASE job.costCenter = NoCostCenter
    BY <2>1, <2>2 DEF CenterUpdate, CostOf
  <2>3. CASE job.costCenter # NoCostCenter
    <3>1. ccTotal' = [ccTotal EXCEPT ![job.costCenter] =
                        IF job.operation = "subtract" THEN @ - job.amount
                                                      ELSE @ + job.amount]
      BY <2>3 DEF CenterUpdate
    <3> HIDE DEF job
    <3>2. job.costCenter = c => ccTotal'[c] = ccTotal[c] + CostOf(job, c)
      BY <2>1, <3>1 DEF CostOf
    <3>3. job.costCenter # c => ccTotal'[c] = ccTotal[c] + CostOf(job, c)
      BY <2>1, <3>1 DEF CostOf
    <3>4. QED BY <3>2, <3>3 DEF job
  <2>4. QED BY <2>2, <2>3
<1>5. QueueCost(centerQ, c)
        = CostOf(Head(centerQ), c) + QueueCost(centerQ', c)
  BY <1>1, <1>2, QueueCostTail
<1>6. QueueCost(centerQ', c) \in Int /\ ccTotal[c] \in Int
      /\ CostOf(Head(centerQ), c) \in Int
  <2>1. QueueCost(centerQ', c) \in Int BY <1>1, <1>2, QueueCostType
  <2>2. CostOf(Head(centerQ), c) \in Int BY <1>2 DEF CostOf, CenterJob
  <2>3. QED BY <2>1, <2>2 DEF Typed, TypeOK
<1>7. ccTotal[c] + QueueCost(centerQ, c) = Sum(CostsTo(c), Committed)
  BY DEF Centered
<1>8. QED BY <1>3, <1>4, <1>5, <1>6, <1>7

(* Only outgoes have a centre.                                             *)
LEMMA CostedNext ==
  ASSUME Typed, Faithful, Sound, Costed, [Next]_vars
  PROVE  Costed'
<1>0. Kept(rec, rec') BY FaithfulNext
<1>1. \A r \in Rec : rec[r] # NoRow /\ rec'[r].type # "OUTGO"
                       => rec'[r].costCenter = NoCostCenter
  BY <1>0 DEF Costed, Kept, SameMoney
<1>2. CASE \A q \in Request : ~CreateStore(q) /\ ~CancelStore(q)
  BY <1>1, <1>2, OnlyStoresAdd DEF Costed
<1>3. ASSUME NEW q \in Request, CreateStore(q) PROVE Costed'
  <2>1. PICK v \in Rec : CreateStore(q)!(v) BY <1>3 DEF CreateStore
  <2>2. Booked(req[q].row) BY <2>1 DEF Sound
  <2>3. rec'[v] = req[q].row /\ \A r \in Rec : r # v => rec'[r] = rec[r]
    BY <2>1 DEF Typed, TypeOK
  <2>4. QED BY <1>1, <2>2, <2>3 DEF Costed, Booked
<1>4. ASSUME NEW q \in Request, CancelStore(q) PROVE Costed'
  <2>1. PICK v \in Rec : CancelStore(q)!(v) BY <1>4 DEF CancelStore
  <2>2. ReversalRow(req[q].row, req[q].id) \in Reversal
    BY <2>1, SessionFacts, ReversalRowFacts
  <2>3. /\ rec'[v] = ReversalRow(req[q].row, req[q].id)
        /\ \A r \in Rec : r # v => rec'[r] = rec[r]
    BY <2>1 DEF Typed, TypeOK
  <2>4. rec'[v].costCenter = NoCostCenter BY <2>2, <2>3 DEF Reversal
  <2>5. QED BY <1>1, <2>3, <2>4 DEF Costed
<1>5. QED BY <1>2, <1>3, <1>4

(* A request that has dispatched its jobs holds its record no longer.      *)
LEMMA HeldDrop ==
  ASSUME Typed, OneWay, NEW q \in Request, NEW r \in Rec, Carries(req[q], r),
         \A v : Carries(req[q], v) => v = r, req' = [req EXCEPT ![q] = Idle]
  PROVE  /\ Held(r) /\ ~Held(r)'
         /\ \A s \in Rec : s # r => (Held(s)' <=> Held(s))
<1>1. \A p \in Request : p # q => req'[p] = req[p] BY DEF Typed, TypeOK
<1>2. \A v : ~Carries(req'[q], v) BY DEF Typed, TypeOK, Carries, Idle
<1>3. \A p \in Request : p # q => ~Carries(req[p], r) BY DEF OneWay
<1>4. QED BY <1>1, <1>2, <1>3 DEF Held

(* The commits, which dispatch a job for the centre if there is one.       *)
LEMMA CenteredCreate ==
  ASSUME Typed, Faithful, Sound, OneWay, Costed, IsFiniteSet(Stored), Centered,
         Calm', NEW q \in Request, CreateCommit(q)
  PROVE  Centered'
<1> USE DEF stores, queues, workers, history
<1>1. PICK lost \in SUBSET {"balance", "center"} : CreateCommit(q)!(lost)
  BY DEF CreateCommit
<1>r. PICK r \in Rec : r = req[q].id BY <1>1, SessionFacts
<1> DEFINE row == req[q].row
           job == CenterJobOf(row, "add")
<1>2. row \in Original /\ row.of = NoRec /\ job \in CenterJob
  BY <1>1, SessionFacts, RowsAreDisjoint, JobTypes
<1>3. /\ r \in Rec /\ rec[r] # NoRow /\ Carries(req[q], r)
      /\ \A v : Carries(req[q], v) => v = r
  BY <1>1, <1>r, CarriedFacts
<1>4. SameMoney(rec[r], row)
  BY <1>1, <1>r DEF Faithful, SessionOK, Snapshot
<1>5. lost = {} BY <1>1 DEF Calm, Undisturbed, Noted
<1>6. IsRealizedStatus(row.status)
  <2>1. row.status \notin {"VOID", "PENDING"}
    BY <1>1 DEF Calm, Faithful, SessionOK, Born
  <2>2. QED BY <1>2, <2>1 DEF IsRealizedStatus, Original, Status
<1>7. centerQ' = IF row.costCenter = NoCostCenter THEN centerQ
                 ELSE Append(centerQ, job)
  BY <1>1, <1>5, <1>6 DEF Enqueue
<1>8. /\ rec' = rec /\ ccTotal' = ccTotal
      /\ req' = [req EXCEPT ![q] = Idle]
  BY <1>1
<1>9. /\ rec[r].of = NoRec /\ rec[r].amount = row.amount
      /\ rec[r].costCenter = row.costCenter
  BY <1>2, <1>4 DEF SameMoney
<1>10. ASSUME NEW c \in CostCenter
       PROVE  /\ CostTo(r, c) = CostOf(job, c)
              /\ row.costCenter = NoCostCenter => CostTo(r, c) = 0
  BY <1>9, CenterAssumption DEF CostTo, CostOf, CenterJobOf
<1> HIDE DEF row, job
<1>11. /\ Held(r) /\ ~Held(r)'
       /\ \A s \in Rec : s # r => (Held(s)' <=> Held(s))
  BY <1>3, <1>8, HeldDrop
<1>12. \/ /\ centerQ' = Append(centerQ, job)
          /\ \A c \in CostCenter : CostOf(job, c) = CostTo(r, c)
       \/ /\ centerQ' = centerQ
          /\ \A c \in CostCenter : CostTo(r, c) = 0
  BY <1>7, <1>10
<1>13. QED BY <1>2, <1>3, <1>8, <1>11, <1>12, CenteredDispatch

LEMMA CenteredCancel ==
  ASSUME Typed, Faithful, Sound, OneWay, Costed, IsFiniteSet(Stored), Centered,
         Calm', NEW q \in Request, CancelCommit(q)
  PROVE  Centered'
<1> USE DEF stores, queues, workers, history
<1>1. PICK lost \in SUBSET {"balance", "status", "center"} :
        CancelCommit(q)!(lost)
  BY DEF CancelCommit
<1>r. PICK r \in Rec : r = req[q].rev BY <1>1, SessionFacts
<1> DEFINE row == req[q].row
           job == CenterJobOf(row, "subtract")
<1>2. row \in Original /\ job \in CenterJob
  BY <1>1, SessionFacts, JobTypes
<1>3. /\ r \in Rec /\ rec[r] # NoRow /\ Carries(req[q], r)
      /\ \A v : Carries(req[q], v) => v = r
  BY <1>1, <1>r, CarriedFacts
<1>4. /\ Snapshot(rec, req[q].id, row) /\ rec[r].of = req[q].id
      /\ req[q].id # NoRec
  BY <1>1, <1>r, RecAssumption DEF Faithful, SessionOK, Snapshot
<1>5. lost = {} BY <1>1 DEF Calm, Undisturbed, Noted
<1>6. centerQ' = IF row.type # "OUTGO" THEN centerQ ELSE Append(centerQ, job)
  BY <1>1, <1>5 DEF Enqueue
<1>7. /\ rec' = rec /\ ccTotal' = ccTotal
      /\ req' = [req EXCEPT ![q] = Idle]
  BY <1>1
<1>8. /\ rec[req[q].id].amount = row.amount
      /\ rec[req[q].id].costCenter = row.costCenter
      /\ row.type # "OUTGO" => row.costCenter = NoCostCenter
  BY <1>4 DEF Snapshot, SameMoney, Costed
<1>9. ASSUME NEW c \in CostCenter
      PROVE  /\ CostTo(r, c) = CostOf(job, c)
             /\ row.type # "OUTGO" => CostTo(r, c) = 0
  BY <1>4, <1>8, CenterAssumption DEF CostTo, CostOf, CenterJobOf
<1> HIDE DEF row, job
<1>10. /\ Held(r) /\ ~Held(r)'
       /\ \A s \in Rec : s # r => (Held(s)' <=> Held(s))
  BY <1>3, <1>7, HeldDrop
<1>11. \/ /\ centerQ' = Append(centerQ, job)
          /\ \A c \in CostCenter : CostOf(job, c) = CostTo(r, c)
       \/ /\ centerQ' = centerQ
          /\ \A c \in CostCenter : CostTo(r, c) = 0
  BY <1>6, <1>9
<1>12. QED BY <1>2, <1>3, <1>7, <1>10, <1>11, CenteredDispatch

(* The other steps of a request.                                           *)
LEMMA CenteredRequest ==
  ASSUME Typed, Faithful, IsFiniteSet(Stored), Centered, NEW q \in Request,
         Begin(q) \/ CancelValidate(q) \/ ReconcileDispatch(q) \/ CancelFail(q),
         \A r \in Rec : rec[r] = NoRow => rec'[r] = NoRow, Kept(rec, rec')
  PROVE  Centered'
<1> USE DEF stores, queues, workers, history
<1>1. centerQ' = centerQ /\ ccTotal' = ccTotal
  BY DEF Begin, CreateStart, CancelRead, MatchRead, LinkRead,
         CancelValidate, ReconcileDispatch, CancelFail
<1>2. \A p \in Request : p # q => req'[p] = req[p]
  BY DEF Begin, CreateStart, CancelRead, MatchRead, LinkRead, Start,
         CancelValidate, ReconcileDispatch, CancelFail, Typed, TypeOK
<1>3. req[q].step \notin {"created", "reversed"}
      /\ req'[q].step \notin {"created", "reversed"}
  <2>1. Idle.step = "idle" BY DEF Idle
  <2>2. req \in [Request -> Session] BY DEF Typed, TypeOK
  <2>3. CASE CreateStart(q)
    <3>1. PICK row \in NewRows :
            Start(q, [Idle EXCEPT !.step = "creating", !.row = row])
      BY <2>3 DEF CreateStart
    <3>2. QED BY <2>1, <2>2, <3>1 DEF Start, Idle
  <2>4. ASSUME NEW r \in Rec, NEW step \in {"cancelRead", "matching", "linking"},
               Start(q, [Idle EXCEPT !.step = step, !.id = r, !.row = rec[r]])
        PROVE  req[q].step = "idle" /\ req'[q].step = step
    BY <2>1, <2>2, <2>4 DEF Start, Idle
  <2>5. CASE CancelRead(q) \/ MatchRead(q) \/ LinkRead(q)
    BY <2>4, <2>5 DEF CancelRead, MatchRead, LinkRead
  <2>6. CASE CancelValidate(q)
    <3>1. req[q] \in Session /\ req[q].step = "cancelRead"
      BY <2>2, <2>6 DEF CancelValidate
    <3>2. QED BY <2>1, <2>2, <2>6, <3>1 DEF CancelValidate, Session
  <2>7. CASE ReconcileDispatch(q) \/ CancelFail(q)
    BY <2>1, <2>2, <2>7 DEF ReconcileDispatch, CancelFail
  <2>8. QED BY <2>3, <2>5, <2>6, <2>7 DEF Begin
<1>4. \A r \in Rec : Held(r)' <=> Held(r) BY <1>2, <1>3 DEF Held, Carries
<1>5. QED BY <1>1, <1>4, CenteredKept

LEMMA CenteredStore ==
  ASSUME Typed, Faithful, IsFiniteSet(Stored), Centered, NEW q \in Request,
         CreateStore(q) \/ CancelStore(q), Kept(rec, rec')
  PROVE  Centered'
<1>1. centerQ' = centerQ /\ ccTotal' = ccTotal
  BY DEF CreateStore, CancelStore, queues
<1>2. PICK v \in Rec :
        /\ rec[v] = NoRow /\ Carries(req'[q], v)
        /\ \A r \in Rec : r # v => rec'[r] = rec[r]
        /\ \A p \in Request : p # q => req'[p] = req[p]
        /\ \A r \in Rec : ~Carries(req[q], r)
  BY OneStored
<1>3. \A r \in Rec : Carries(req'[q], r) => r = v BY <1>2 DEF Carries
<1>4. Held(v)' BY <1>2 DEF Held
<1>5. \A r \in Rec : r # v => (Held(r)' <=> Held(r)) BY <1>2, <1>3 DEF Held
<1>6. QED BY <1>1, <1>2, <1>4, <1>5, CenteredKept

LEMMA CenteredNext ==
  ASSUME Typed, Faithful, Sound, OneWay, Costed, IsFiniteSet(Stored), Centered,
         Calm', [Next]_vars
  PROVE  Centered'
<1> USE DEF stores, queues, workers, history
<1>0. Kept(rec, rec') BY FaithfulNext
<1>1. ASSUME NEW q \in Request, CreateStore(q) \/ CancelStore(q)
      PROVE  Centered'
  BY <1>0, <1>1, CenteredStore
<1>2. SUFFICES ASSUME \A q \in Request : ~CreateStore(q) /\ ~CancelStore(q)
               PROVE  Centered'
  BY <1>1
<1>3. \A r \in Rec : rec[r] = NoRow => rec'[r] = NoRow
  BY <1>2, OnlyStoresAdd
<1>4. ASSUME NEW q \in Request, Begin(q) \/ Finish(q) \/ CancelFail(q)
      PROVE  Centered'
  BY <1>0, <1>2, <1>3, <1>4, CenteredCreate, CenteredCancel, CenteredRequest
     DEF Finish
<1>5. CASE StatusWorker
  <2>1. centerQ' = centerQ
    BY <1>5, NothingRealizes
       DEF Calm, StatusWorker, StatusValidate, StatusStore, StatusDispatch
  <2>2. ccTotal' = ccTotal /\ req' = req
    BY <1>5 DEF StatusWorker, StatusValidate, StatusStore, StatusDispatch
  <2>3. \A r \in Rec : Held(r)' <=> Held(r) BY <2>2 DEF Held
  <2>4. QED BY <1>0, <1>3, <2>1, <2>2, <2>3, CenteredKept
<1>6. CASE \/ BalanceWorker
           \/ \E a \in Account : EditRead(a) \/ EditWrite(a)
           \/ \E m \in Month : FlipMonth(m)
           \/ UNCHANGED vars
  <2>1. centerQ' = centerQ /\ ccTotal' = ccTotal /\ req' = req
    BY <1>6 DEF BalanceWorker, BalanceRead, BalanceWrite, MasterUpdate,
       EditRead, EditWrite, FlipMonth, vars
  <2>2. \A r \in Rec : Held(r)' <=> Held(r) BY <2>1 DEF Held
  <2>3. QED BY <1>0, <1>3, <2>1, <2>2, CenteredKept
<1>7. CASE CenterUpdate BY <1>7, CenteredUpdate
<1>8. ~JobFails /\ ~Crash BY DEF JobFails, Crash, Calm, Undisturbed
<1>9. QED BY <1>4, <1>5, <1>6, <1>7, <1>8 DEF Next
-----------------------------------------------------------------------------
(* Both parts, as one invariant.                                           *)
Allotted == Costed /\ (Calm => Centered)

LEMMA AllottedInit == Init => Allotted
<1> SUFFICES ASSUME Init PROVE Allotted OBVIOUS
<1>1. Costed BY DEF Init, Costed
<1>2. Stored = {} BY DEF Init, Stored
<1>3. Committed = {} BY <1>2 DEF Committed
<1>4. ASSUME NEW c \in CostCenter
      PROVE  ccTotal[c] + QueueCost(centerQ, c) = Sum(CostsTo(c), Committed)
  <2>1. Len(centerQ) = 0 BY EmptySeq DEF Init
  <2>2. 1..Len(centerQ) = {} BY <2>1
  <2>3. QueueCost(centerQ, c) = 0 BY <2>2, SumEmpty DEF QueueCost
  <2>4. ccTotal[c] = 0 BY DEF Init
  <2>5. Sum(CostsTo(c), Committed) = 0 BY <1>3, SumEmpty
  <2>6. QED BY <2>3, <2>4, <2>5
<1>5. QED BY <1>1, <1>4 DEF Allotted, Centered

LEMMA AllottedNext ==
  ASSUME Careful, Even, Allotted, [Next]_vars
  PROVE  Allotted'
<1>1. Typed /\ Faithful /\ Sound /\ IsFiniteSet(Stored) /\ Costed
  BY DEF Careful, Even, Allotted
<1>2. Costed' BY <1>1, CostedNext
<1>3. ASSUME Calm' PROVE Centered'
  <2>1. Calm /\ OneWay
    BY <1>3, IncidentsGrow DEF Calm, Undisturbed, Careful, Steady
  <2>2. QED BY <1>1, <1>3, <2>1, CenteredNext DEF Allotted
<1>4. QED BY <1>2, <1>3 DEF Allotted

(* The total of the model is a sum; a reversal costs the opposite.         *)
LEMMA BridgeCost ==
  ASSUME NEW T \in SUBSET Rec, IsFiniteSet(T), NEW g, \A r \in T : g[r] = Cost(r)
  PROVE  TotalCost(T) = Sum(g, T)
<1> DEFINE Eq(F) == F = [s \in SUBSET T |-> IF s = {} THEN 0
                          ELSE LET x == CHOOSE x \in s : TRUE
                               IN  Cost(x) + F[s \ {x}]]
           G == CHOOSE F : Eq(F)
<1>1. \A s \in SUBSET T : s # {} =>
        Cost(CHOOSE x \in s : TRUE) = g[CHOOSE x \in s : TRUE]
  OBVIOUS
<1>2. \A F : Eq(F) <=> Solves(F, T, g) BY <1>1 DEF Solves
<1>3. PICK F : Solves(F, T, g) /\ Sum(g, T) = F[T] BY SumIs
<1>4. Eq(F) BY <1>2, <1>3
<1>5. Eq(G) BY <1>4
<1>6. TotalCost(T) = G[T]
  BY <1>5 DEF TotalCost, MapThenSumSet, MapThenFoldSet
<1> HIDE DEF G, Eq
<1>7. G[T] = F[T] BY <1>2, <1>3, <1>5, SolvesUnique
<1>8. QED BY <1>3, <1>6, <1>7

LEMMA CostsCancel ==
  ASSUME Typed, Faithful, NEW v \in Stored, rec[v].of # NoRec, NEW c
  PROVE  rec[v].of \in Stored /\ CostsTo(c)[v] = -CostsTo(c)[rec[v].of]
<1>1. /\ v \in Rec /\ rec[v].of \in Rec /\ rec[rec[v].of] # NoRow
      /\ rec[rec[v].of].of = NoRec /\ rec[rec[v].of].amount \in Nat
  <2>1. v \in Rec /\ rec[v] # NoRow BY DEF Stored
  <2>2. QED BY <2>1, RecordFacts
<1>2. CostTo(v, c) = -CostTo(rec[v].of, c) BY <1>1 DEF CostTo
<1>3. QED BY <1>1, <1>2 DEF CostsTo, Stored

LEMMA CentersFollow ==
  ASSUME Careful, Even, Orderly, Allotted, CreateStatus \subseteq Realized
  PROVE  CentersAgree
<1> SUFFICES ASSUME Quiet, incidents = {}, NEW c \in CostCenter
             PROVE  ccTotal[c] = TotalCost({r \in Stored :
                      rec[r].costCenter = c /\ rec[r].status \in Realized})
  BY DEF CentersAgree
<1>1. Typed /\ Faithful /\ IsFiniteSet(Stored) /\ Centered
  BY DEF Careful, Even, Allotted, Calm, Undisturbed
<1> DEFINE g    == CostsTo(c)
           mine == {r \in Stored : rec[r].costCenter = c /\ rec[r].status \in Realized}
           rest == {r \in Stored : rec[r].costCenter # c /\ rec[r].status \in Realized}
           void == {r \in Stored : rec[r].status \notin Realized}
<1>2. Committed = Stored
  <2>1. \A q \in Request : req[q].step = "idle" BY DEF Quiet, Idle
  <2>2. QED BY <2>1 DEF Committed, Held, Carries
<1>3. QueueCost(centerQ, c) = 0
  <2>1. Len(centerQ) = 0 BY EmptySeq DEF Quiet
  <2>2. 1..Len(centerQ) = {} BY <2>1
  <2>3. QED BY <2>2, SumEmpty DEF QueueCost
<1>4. ccTotal[c] = Sum(g, Stored)
  BY <1>1, <1>2, <1>3 DEF Centered, Typed, TypeOK
<1>5. /\ IsFiniteSet(mine) /\ IsFiniteSet(rest) /\ IsFiniteSet(void)
      /\ IsFiniteSet(mine \union rest)
  <2>1. /\ mine \subseteq Stored /\ rest \subseteq Stored /\ void \subseteq Stored
        /\ mine \union rest \subseteq Stored
    OBVIOUS
  <2>2. QED BY <1>1, <2>1, FS_Subset
<1>6. /\ Stored = (mine \union rest) \union void
      /\ mine \intersect rest = {} /\ (mine \union rest) \intersect void = {}
  OBVIOUS
<1>7. \A r \in Stored : r \in Rec /\ g[r] \in Int
  <2>1. Kept(rec, rec) BY DEF Kept, SameMoney
  <2>2. \A r \in Stored : CostTo(r, c) \in Int
    BY <1>1, RecordFacts DEF CostTo, Stored
  <2>3. QED BY <2>2 DEF CostsTo, Stored
<1>8. \A r \in Stored : rec[r].status \in Realized => rec[r].of = NoRec
  BY <1>1 DEF Typed, TypeOK, Stored, Original, Reversal, Realized
<1>9. \A r \in mine : g[r] = Cost(r) BY <1>7, <1>8 DEF CostsTo, CostTo, Cost
<1>10. \A r \in rest : g[r] = 0 BY <1>7, <1>8 DEF CostsTo, CostTo
<1>11. Sum(g, void) = 0
  <2>1. \A v \in Stored : rec[v].of # NoRec =>
          (v \in Stored <=> rec[v].of \in Stored) /\ g[v] = -g[rec[v].of]
    BY <1>1, CostsCancel
  <2>2. QED BY <1>1, <1>7, <2>1, VoidsCancel DEF Orderly
<1>12. TotalCost(mine) = Sum(g, mine)
  <2>1. mine \in SUBSET Rec BY <1>7
  <2>2. QED BY <1>5, <1>9, <2>1, BridgeCost
<1> HIDE DEF g, mine, rest, void
<1>13. Sum(g, rest) = 0 BY <1>5, <1>10, SumZero
<1>14. Sum(g, mine \union rest) = Sum(g, mine) + Sum(g, rest)
  BY <1>5, <1>6, <1>7, SumUnion
<1>15. Sum(g, (mine \union rest) \union void)
         = Sum(g, mine \union rest) + Sum(g, void)
  BY <1>5, <1>6, <1>7, SumUnion
<1>16. Sum(g, mine) \in Int BY <1>5, <1>6, <1>7, SumType
<1>17. ccTotal[c] = TotalCost(mine)
  BY <1>4, <1>6, <1>11, <1>12, <1>13, <1>14, <1>15, <1>16
<1>18. QED BY <1>17 DEF mine

(* CentersAgree: when all work is done and no anomaly has happened, the    *)
(* total of each cost centre is what its realized records cost, with       *)
(* records created realized.                                               *)
THEOREM TheCentersAgree ==
  ASSUME CreateStatus \subseteq Realized PROVE Spec => []CentersAgree
<1>1. Init => Careful /\ Even /\ Orderly /\ Allotted
  <2>1. Init => Orderly
    BY DEF Init, Orderly, Single, VoidOnWay
  <2>2. QED BY <2>1, CarefulInit, EvenInit, AllottedInit
<1>2. Careful /\ Even /\ Orderly /\ Allotted /\ [Next]_vars
        => (Careful /\ Even /\ Orderly /\ Allotted)'
  BY CarefulNext, EvenNext, OrderlyNext, AllottedNext DEF Careful
<1>3. Careful /\ Even /\ Orderly /\ Allotted => CentersAgree BY CentersFollow
<1>4. QED BY <1>1, <1>2, <1>3, PTL DEF Spec
===============================================================================
