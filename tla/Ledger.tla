-------------------------------- MODULE Ledger --------------------------------
(***************************************************************************)
(* The money core of the API: the documents of `financial_records', the    *)
(* balance of every availability account, the monthly master of every      *)
(* account and of every cost centre, and the programs that write them.     *)
(*                                                                         *)
(*   - HTTP requests (elements of Request): POST of a record, which runs   *)
(*     CreateFinancialRecordJob in line; PATCH cancel, which runs          *)
(*     CancelFinancialRecord; the bank reconciliation, automatic           *)
(*     (BankStatementReconciler) and manual (LinkBankStatement...).  A job *)
(*     of the create queue does what a POST does, and is a request here.   *)
(*   - Three queue workers, each one job at a time: UpdateFinancialRecord, *)
(*     UpdateAvailabilityAccountBalance and UpdateCostCenterMaster.        *)
(*   - An administrator who edits an account, and one who closes and       *)
(*     reopens financial months.                                           *)
(*                                                                         *)
(* A step ends at an await on the database or on a queue, since the other  *)
(* programs run there.  A job stays at the head of its queue until its     *)
(* handler returns or throws: a crash makes BullMQ run it again, an        *)
(* exception drops it (no `attempts' is configured).                       *)
(***************************************************************************)
EXTENDS Integers, Sequences, FiniteSets

CONSTANTS
  Rec,            \* identifiers of financial records
  NoRec,          \* no record
  NoRow,          \* the document does not exist
  Account,        \* availability accounts
  CashAccount,    \* those of type CASH
  CostCenter,     \* cost centres
  NoCostCenter,   \* the record has no cost centre
  Month,          \* financial months
  CurrentMonth,   \* the month of "today", where a reversal is dated
  Amount,         \* amounts a request may carry
  Loan,           \* those of them that are lent
  CreateStatus,   \* statuses a request may create a record with
  Request,        \* concurrent requests
  MaxRequests,    \* bound: requests started
  MaxFlips,       \* bound: months closed or reopened
  MaxLosses,      \* bound: dispatches that do not reach Redis
  MaxCrashes,     \* bound: crashes of the process
  MaxEdits,       \* bound: edits of an account
  MaxFails        \* bound: database errors

Realized    == {"CLEARED", "RECONCILED"}
Status      == Realized \union {"PENDING", "VOID"}
Cancellable == {"INCOME", "OUTGO"}
Postable    == Cancellable \union {"PURCHASE"}

ASSUME RecAssumption     == NoRec \notin Rec
ASSUME AccountAssumption == CashAccount \subseteq Account
ASSUME CenterAssumption  == NoCostCenter \notin CostCenter
ASSUME MonthAssumption   == CurrentMonth \in Month
ASSUME AmountAssumption  == Amount \subseteq Nat \ {0}
ASSUME LoanAssumption    == Loan \subseteq Amount
ASSUME StatusAssumption  == CreateStatus \subseteq Status \ {"VOID"}

(* A document of financial_records.  The stamps clearedAt and reconciledAt *)
(* are kept as "has one"; `of' is the record that a reversal names in its  *)
(* description; a reversal is born void, with a negative amount.           *)
Original ==
  [type : Postable, amount : Nat \ {0}, account : Account,
   costCenter : CostCenter \union {NoCostCenter}, month : Month,
   status : Status, cleared : BOOLEAN, reconciled : BOOLEAN, of : {NoRec}]

Reversal ==
  [type : {"REVERSAL"}, amount : {n \in Int : n < 0}, account : Account,
   costCenter : {NoCostCenter}, month : Month, status : {"VOID"},
   cleared : BOOLEAN, reconciled : BOOLEAN, of : Rec]

ASSUME RowAssumption == NoRow \notin Original \union Reversal

(* A job of UpdateFinancialRecordJob carries a whole document; withId says *)
(* whether the Mongo _id came along with it.                               *)
StatusJob  == [id : Rec, row : Original, to : {"RECONCILED", "VOID"},
               withId : BOOLEAN]

(* A job of UpdateAvailabilityAccountBalanceJob.  `src' is not in the      *)
(* payload: it is the record whose money the job moves.                    *)
BalanceJob == [account : Account, amount : Nat \ {0},
               operation : {"MONEY_IN", "MONEY_OUT"}, src : Rec]

CenterJob  == [costCenter : CostCenter \union {NoCostCenter},
               amount : Nat \ {0}, operation : {"add", "subtract"}]

VARIABLES
  rec,        \* financial_records, by identifier
  monthOpen,  \* financial months that accept movements
  balance,    \* availability accounts: the balance
  master,     \* availability account masters of this month
  ccTotal,    \* cost centre masters of this month
  statusQ,    \* queue of UpdateFinancialRecordJob
  balanceQ,   \* queue of UpdateAvailabilityAccountBalanceJob
  centerQ,    \* queue of UpdateCostCenterMasterJob
  statusW,    \* the worker of statusQ: where it is in its job
  balanceW,   \* the worker of balanceQ: where it is, the balance it read
  req,        \* the requests: step, target, snapshot read, reversal written
  editor,     \* per account: the edit in progress, the balance it read
  posted,     \* history: how often the money of a record reached a balance
  incidents,  \* history: the anomalies that have happened
  used        \* how much of each bound is spent

stores  == <<rec, monthOpen, balance, master, ccTotal>>
queues  == <<statusQ, balanceQ, centerQ>>
workers == <<statusW, balanceW>>
history == <<posted, incidents>>
vars    == <<stores, queues, workers, req, editor, history, used>>

Idle     == [step |-> "idle", id |-> NoRec, row |-> NoRow, rev |-> NoRec]
IdleEdit == [busy |-> FALSE, seen |-> 0]
IdleBal  == [step |-> "idle", seen |-> 0]
Steps    == {"idle", "creating", "created", "cancelRead", "cancelling",
             "reversed", "matching", "linking"}

(* A request: what it is about to do, the record it is about, its snapshot *)
(* of that record, and the reversal it has stored.                         *)
Session ==
  {s \in [step : Steps, id : Rec \union {NoRec}, row : Original \union {NoRow},
          rev : Rec \union {NoRec}] :
     /\ s.step # "idle" => s.row \in Original
     /\ s.step \notin {"idle", "creating"} => s.id \in Rec
     /\ s.step \in {"cancelling", "reversed"} => s.row.type \in Cancellable
     /\ s.step = "reversed" => s.rev \in Rec}

Incident == {"lost", "crash", "failed", "staleEdit", "staleStatus",
             "secondReversal", "unrealizedReversal", "monthClosed"}

Spent == [requests : Nat, flips : Nat, losses : Nat, crashes : Nat,
          edits : Nat, fails : Nat]

TypeOK ==
  /\ rec \in [Rec -> {NoRow} \union Original \union Reversal]
  /\ monthOpen \in [Month -> BOOLEAN]
  /\ balance \in [Account -> Int]
  /\ master \in [Account -> [input : Nat, output : Nat]]
  /\ ccTotal \in [CostCenter -> Int]
  /\ statusQ \in Seq(StatusJob)
  /\ balanceQ \in Seq(BalanceJob)
  /\ centerQ \in Seq(CenterJob)
  /\ statusW \in {"idle", "validated", "stored"}
  /\ balanceW \in [step : {"idle", "read", "written"}, seen : Int]
  /\ req \in [Request -> Session]
  /\ editor \in [Account -> [busy : BOOLEAN, seen : Int]]
  /\ posted \in [Rec -> Nat]
  /\ incidents \subseteq Incident
  /\ used \in Spent

Init ==
  /\ rec = [r \in Rec |-> NoRow]
  /\ monthOpen = [m \in Month |-> TRUE]
  /\ balance = [a \in Account |-> 0]
  /\ master = [a \in Account |-> [input |-> 0, output |-> 0]]
  /\ ccTotal = [c \in CostCenter |-> 0]
  /\ statusQ = <<>> /\ balanceQ = <<>> /\ centerQ = <<>>
  /\ statusW = "idle" /\ balanceW = IdleBal
  /\ req = [q \in Request |-> Idle]
  /\ editor = [a \in Account |-> IdleEdit]
  /\ posted = [r \in Rec |-> 0]
  /\ incidents = {}
  /\ used = [requests |-> 0, flips |-> 0, losses |-> 0, crashes |-> 0,
             edits |-> 0, fails |-> 0]
-----------------------------------------------------------------------------
(* The aggregate FinanceRecord.                                            *)

(* setStatus: nothing happens when the status is already the one asked     *)
(* for; otherwise the stamps follow.                                       *)
\* Variant with a bug: a reconciled record never changes.
SetStatusUnlessClosed(row, status) ==
  IF row.status \in {status, "RECONCILED"} THEN row
  ELSE [row EXCEPT !.status     = status,
                   !.cleared    = @ \/ status \in Realized,
                   !.reconciled = @ \/ status = "RECONCILED"]

SetStatus(row, status) ==
  IF row.status = status THEN row
  ELSE [row EXCEPT !.status     = status,
                   !.cleared    = @ \/ status \in Realized,
                   !.reconciled = @ \/ status = "RECONCILED"]

(* create: a reversal is stored with a negative amount; a CASH account     *)
(* first makes the record RECONCILED, then the requested status is set     *)
(* over it, so that the status is lost and the stamps stay.                *)
NewRow(type, amount, account, costCenter, month, status, of) ==
  LET blank == [type |-> type,
                amount |-> IF type = "REVERSAL" THEN -amount ELSE amount,
                account |-> account, costCenter |-> costCenter,
                month |-> month, status |-> "UNSET",
                cleared |-> FALSE, reconciled |-> FALSE, of |-> of]
      first == IF account \in CashAccount THEN "RECONCILED" ELSE status
  IN  SetStatus(SetStatus(blank, first), status)

(* What a request may ask to create: the controllers of records demand a   *)
(* cost centre for an expense and give none to an income or to a purchase  *)
(* concept; that of accounts receivable enters a loan as an expense of     *)
(* today that is cleared and has none.                                     *)
LoanRows ==
  {NewRow("OUTGO", n, a, NoCostCenter, CurrentMonth, "CLEARED", NoRec) :
     n \in Loan, a \in Account}

NewRows ==
  {NewRow(t, n, a, c, m, s, NoRec) :
     t \in {"INCOME", "PURCHASE"}, n \in Amount, a \in Account,
     c \in {NoCostCenter}, m \in Month, s \in CreateStatus}
  \union
  {NewRow("OUTGO", n, a, c, m, s, NoRec) :
     n \in Amount, a \in Account, c \in CostCenter, m \in Month,
     s \in CreateStatus}
  \union LoanRows

(* The reversal of a record: VOID from birth, dated today.                 *)
ReversalRow(row, of) ==
  NewRow("REVERSAL", row.amount, row.account, NoCostCenter, CurrentMonth,
         "VOID", of)

(* isRealizedStatus, of both jobs: the statuses whose money counts.  A     *)
(* change of status realizes a record if it was not realized before.       *)
IsRealizedStatus(status) == status \in Realized

\* Variant with a bug: the status before is not looked at.
RealizesAgain(row, status) == IsRealizedStatus(status)
Realizes(row, status) ==
  IsRealizedStatus(status) /\ ~IsRealizedStatus(row.status)

Operation(type) == IF type = "INCOME" THEN "MONEY_IN" ELSE "MONEY_OUT"
\* Variant with a bug: a cancelled expense is taken out once more.
OppositeOfIncome(type) == "MONEY_OUT"
Opposite(type)  == IF type = "INCOME" THEN "MONEY_OUT" ELSE "MONEY_IN"

(* The jobs a record's money travels in.                                   *)
PostJob(r, row) ==
  [account |-> row.account, amount |-> row.amount,
   operation |-> Operation(row.type), src |-> r]
ReverseJob(rev, row) ==
  [account |-> row.account, amount |-> row.amount,
   operation |-> Opposite(row.type), src |-> rev]
\* Variant with a bug: the operation is not passed on.
CenterJobAdding(row, operation) ==
  [costCenter |-> row.costCenter, amount |-> row.amount,
   operation |-> "add"]
CenterJobOf(row, operation) ==
  [costCenter |-> row.costCenter, amount |-> row.amount,
   operation |-> operation]
-----------------------------------------------------------------------------
(* QueueDispatcher.dispatch does not wait for Redis and swallows its       *)
(* errors: a dispatch may be lost and its caller does not notice.          *)
Enqueue(queue, job, lost) == IF lost THEN queue ELSE Append(queue, job)

Lose(lost) ==
  /\ used.losses + Cardinality(lost) =< MaxLosses
  /\ used' = [used EXCEPT !.losses = @ + Cardinality(lost)]

Noted(anomaly, happened) == IF happened THEN {anomaly} ELSE {}

Start(q, new) ==
  /\ req[q] = Idle
  /\ used.requests < MaxRequests
  /\ used' = [used EXCEPT !.requests = @ + 1]
  /\ req' = [req EXCEPT ![q] = new]
-----------------------------------------------------------------------------
(* CreateFinancialRecordJob: the month is checked, the document is stored, *)
(* the side effects are dispatched.                                        *)
CreateStart(q) ==
  \E row \in NewRows :
    /\ monthOpen[row.month]
    /\ Start(q, [Idle EXCEPT !.step = "creating", !.row = row])
    /\ UNCHANGED <<stores, queues, workers, editor, history>>

CreateStore(q) ==
  \E r \in Rec :
    /\ req[q].step = "creating"
    /\ rec[r] = NoRow
    /\ rec' = [rec EXCEPT ![r] = req[q].row]
    /\ req' = [req EXCEPT ![q].step = "created", ![q].id = r]
    /\ UNCHANGED <<monthOpen, balance, master, ccTotal, queues, workers,
                   editor, history, used>>

CreateCommit(q) ==
  \E lost \in SUBSET {"balance", "center"} :
    LET row == req[q].row IN
    /\ req[q].step = "created"
    /\ Lose(lost)
    /\ IF IsRealizedStatus(row.status)
         THEN /\ balanceQ' = Enqueue(balanceQ, PostJob(req[q].id, row),
                                     "balance" \in lost)
              /\ centerQ' = IF row.costCenter = NoCostCenter THEN centerQ
                            ELSE Enqueue(centerQ, CenterJobOf(row, "add"),
                                         "center" \in lost)
         ELSE UNCHANGED <<balanceQ, centerQ>>
    /\ req' = [req EXCEPT ![q] = Idle]
    /\ incidents' = incidents \union Noted("lost", lost # {})
    /\ UNCHANGED <<stores, statusQ, workers, editor, posted>>
-----------------------------------------------------------------------------
(* CancelFinancialRecord.  A stored reversal has no financial concept, so  *)
(* reading one throws: a cancellation only ever gets past an original.     *)
CancelRead(q) ==
  \E r \in Rec :
    /\ rec[r] # NoRow
    /\ rec[r].type # "REVERSAL"
    /\ Start(q, [Idle EXCEPT !.step = "cancelRead", !.id = r, !.row = rec[r]])
    /\ UNCHANGED <<stores, queues, workers, editor, history>>

(* The month of the record is checked, then its type.  Its status is not.  *)
\* Variant with a bug: the original is voided before the reversal exists.
CancelVoidsFirst(q) ==
  /\ req[q].step = "cancelRead"
  /\ req' = [req EXCEPT ![q].step = "cancelling"]
  /\ rec' = [rec EXCEPT ![req[q].id] = SetStatus(@, "VOID")]
  /\ UNCHANGED <<monthOpen, balance, master, ccTotal, queues, workers, editor,
                 history, used>>

\* Variant with a bug: the type is not checked.
CancelAnyType(q) ==
  /\ req[q].step = "cancelRead"
  /\ req' = IF monthOpen[req[q].row.month]
            THEN [req EXCEPT ![q].step = "cancelling"]
            ELSE [req EXCEPT ![q] = Idle]
  /\ UNCHANGED <<stores, queues, workers, editor, history, used>>

CancelValidate(q) ==
  /\ req[q].step = "cancelRead"
  /\ req' = IF /\ monthOpen[req[q].row.month]
               /\ req[q].row.type \in Cancellable
            THEN [req EXCEPT ![q].step = "cancelling"]
            ELSE [req EXCEPT ![q] = Idle]
  /\ UNCHANGED <<stores, queues, workers, editor, history, used>>

CancelStore(q) ==
  \E v \in Rec :
    LET row == req[q].row IN
    /\ req[q].step = "cancelling"
    /\ rec[v] = NoRow
    /\ rec' = [rec EXCEPT ![v] = ReversalRow(row, req[q].id)]
    /\ req' = [req EXCEPT ![q].step = "reversed", ![q].rev = v]
    /\ incidents' = incidents
         \union Noted("secondReversal",
                      \E w \in Rec : rec[w] # NoRow /\ rec[w].of = req[q].id)
         \union Noted("unrealizedReversal", row.status = "PENDING")
    /\ UNCHANGED <<monthOpen, balance, master, ccTotal, queues, workers,
                   editor, posted, used>>

(* The post-commit actions, in their order: the balance, the status of the *)
(* original (from the snapshot, with its id), the cost centre.             *)
CancelCommit(q) ==
  \E lost \in SUBSET {"balance", "status", "center"} :
    LET row == req[q].row IN
    /\ req[q].step = "reversed"
    /\ Lose(lost)
    /\ balanceQ' = Enqueue(balanceQ, ReverseJob(req[q].rev, row),
                           "balance" \in lost)
    /\ statusQ' = Enqueue(statusQ, [id |-> req[q].id, row |-> row,
                                    to |-> "VOID", withId |-> TRUE],
                          "status" \in lost)
    /\ centerQ' = IF row.type # "OUTGO" THEN centerQ
                  ELSE Enqueue(centerQ, CenterJobOf(row, "subtract"),
                               "center" \in lost)
    /\ req' = [req EXCEPT ![q] = Idle]
    /\ incidents' = incidents \union Noted("lost", lost # {})
    /\ UNCHANGED <<stores, workers, editor, posted>>

(* Storing the reversal fails: the roll back writes the snapshot over the  *)
(* record, whatever has happened to it meanwhile.                          *)
\* Variant with a bug: the roll back deletes the original.
CancelFailDeletes(q) ==
  /\ req[q].step = "cancelling"
  /\ used.fails < MaxFails
  /\ used' = [used EXCEPT !.fails = @ + 1]
  /\ rec' = [rec EXCEPT ![req[q].id] = NoRow]
  /\ req' = [req EXCEPT ![q] = Idle]
  /\ UNCHANGED <<monthOpen, balance, master, ccTotal, queues, workers, editor,
                 history>>

CancelFail(q) ==
  /\ req[q].step = "cancelling"
  /\ used.fails < MaxFails
  /\ used' = [used EXCEPT !.fails = @ + 1]
  /\ rec' = [rec EXCEPT ![req[q].id] = req[q].row]
  /\ req' = [req EXCEPT ![q] = Idle]
  /\ incidents' = incidents
       \union Noted("staleStatus", rec[req[q].id].status # req[q].row.status)
  /\ UNCHANGED <<monthOpen, balance, master, ccTotal, queues, workers, editor,
                 posted>>
-----------------------------------------------------------------------------
(* BankStatementReconciler: a statement takes a record of its type that is *)
(* not yet reconciled nor void, saves itself, then asks for RECONCILED.    *)
MatchRead(q) ==
  \E r \in Rec :
    /\ rec[r] # NoRow
    /\ rec[r].type \in Postable
    /\ rec[r].status \in {"PENDING", "CLEARED"}
    /\ Start(q, [Idle EXCEPT !.step = "matching", !.id = r, !.row = rec[r]])
    /\ UNCHANGED <<stores, queues, workers, editor, history>>

(* LinkBankStatementToFinancialRecord: any record the user names.          *)
LinkRead(q) ==
  \E r \in Rec :
    /\ rec[r] # NoRow
    /\ rec[r].type # "REVERSAL"
    /\ Start(q, [Idle EXCEPT !.step = "linking", !.id = r, !.row = rec[r]])
    /\ UNCHANGED <<stores, queues, workers, editor, history>>

(* The snapshot of a match carries the id of the document, that of a link  *)
(* does not.                                                               *)
ReconcileDispatch(q) ==
  \E lost \in SUBSET {"status"} :
    /\ req[q].step \in {"matching", "linking"}
    /\ Lose(lost)
    /\ statusQ' = Enqueue(statusQ, [id |-> req[q].id, row |-> req[q].row,
                                    to |-> "RECONCILED",
                                    withId |-> req[q].step = "matching"],
                          "status" \in lost)
    /\ req' = [req EXCEPT ![q] = Idle]
    /\ incidents' = incidents \union Noted("lost", lost # {})
    /\ UNCHANGED <<stores, balanceQ, centerQ, workers, editor, posted>>
-----------------------------------------------------------------------------
(* UpdateFinancialRecordJob.  The month is that of the snapshot.           *)
StatusValidate ==
  /\ statusW = "idle"
  /\ statusQ # <<>>
  /\ IF monthOpen[Head(statusQ).row.month]
       THEN /\ statusW' = "validated"
            /\ UNCHANGED <<statusQ, incidents>>
       ELSE /\ statusQ' = Tail(statusQ)
            /\ incidents' = incidents \union {"monthClosed"}
            /\ UNCHANGED statusW
  /\ UNCHANGED <<stores, balanceQ, centerQ, balanceW, req, editor, posted,
                 used>>

(* The whole snapshot is written over the document.  Without the id the    *)
(* upsert is an insertion, which the unique index on financialRecordId     *)
(* refuses: the job throws.                                                *)
StatusStore ==
  LET job == Head(statusQ) IN
  /\ statusW = "validated"
  /\ IF job.withId
       THEN /\ rec' = [rec EXCEPT ![job.id] = SetStatus(job.row, job.to)]
            /\ statusW' = "stored"
            /\ incidents' = incidents
                 \union Noted("staleStatus",
                              rec[job.id].status # job.row.status)
            /\ UNCHANGED statusQ
       ELSE /\ statusQ' = Tail(statusQ)
            /\ statusW' = "idle"
            /\ UNCHANGED <<rec, incidents>>
  /\ UNCHANGED <<monthOpen, balance, master, ccTotal, balanceQ, centerQ,
                 balanceW, req, editor, posted, used>>

(* dispatchRealizationSideEffects: money moves now if the snapshot was not *)
(* realized and the new status is.                                         *)
StatusDispatch ==
  \E lost \in SUBSET {"balance", "center"} :
    LET job == Head(statusQ)
        row == job.row
    IN
    /\ statusW = "stored"
    /\ Lose(lost)
    /\ IF Realizes(row, job.to)
         THEN /\ balanceQ' = Enqueue(balanceQ, PostJob(job.id, row),
                                     "balance" \in lost)
              /\ centerQ' = IF row.costCenter = NoCostCenter THEN centerQ
                            ELSE Enqueue(centerQ, CenterJobOf(row, "add"),
                                         "center" \in lost)
         ELSE UNCHANGED <<balanceQ, centerQ>>
    /\ statusQ' = Tail(statusQ)
    /\ statusW' = "idle"
    /\ incidents' = incidents \union Noted("lost", lost # {})
    /\ UNCHANGED <<stores, balanceW, req, editor, posted>>
-----------------------------------------------------------------------------
(* UpdateAvailabilityAccountBalanceJob: the account is read, its balance   *)
(* is changed in memory, the whole account is written back; then the       *)
(* master of the month, which this worker alone writes.                    *)
\* Variant with a bug: money out waits until the balance covers it.
BalanceReadCovered ==
  /\ balanceW.step = "idle"
  /\ balanceQ # <<>>
  /\ \/ Head(balanceQ).operation = "MONEY_IN"
     \/ Head(balanceQ).amount =< balance[Head(balanceQ).account]
  /\ balanceW' = [step |-> "read", seen |-> balance[Head(balanceQ).account]]
  /\ UNCHANGED <<stores, queues, statusW, req, editor, history, used>>

BalanceRead ==
  /\ balanceW.step = "idle"
  /\ balanceQ # <<>>
  /\ balanceW' = [step |-> "read", seen |-> balance[Head(balanceQ).account]]
  /\ UNCHANGED <<stores, queues, statusW, req, editor, history, used>>

BalanceWrite ==
  LET job == Head(balanceQ) IN
  /\ balanceW.step = "read"
  /\ balance' = [balance EXCEPT ![job.account] =
                   IF job.operation = "MONEY_IN"
                   THEN balanceW.seen + job.amount
                   ELSE balanceW.seen - job.amount]
  /\ balanceW' = [balanceW EXCEPT !.step = "written"]
  /\ posted' = [posted EXCEPT ![job.src] = @ + 1]
  /\ UNCHANGED <<rec, monthOpen, master, ccTotal, queues, statusW, req,
                 editor, incidents, used>>

\* Variant with a bug: every movement is an input.
MasterInputOnly ==
  /\ balanceW.step = "written"
  /\ master' = [master EXCEPT ![Head(balanceQ).account].input =
                  @ + Head(balanceQ).amount]
  /\ balanceQ' = Tail(balanceQ)
  /\ balanceW' = IdleBal
  /\ UNCHANGED <<rec, monthOpen, balance, ccTotal, statusQ, centerQ, statusW,
                 req, editor, history, used>>

MasterUpdate ==
  LET job == Head(balanceQ) IN
  /\ balanceW.step = "written"
  /\ master' = IF job.operation = "MONEY_IN"
               THEN [master EXCEPT ![job.account].input = @ + job.amount]
               ELSE [master EXCEPT ![job.account].output = @ + job.amount]
  /\ balanceQ' = Tail(balanceQ)
  /\ balanceW' = IdleBal
  /\ UNCHANGED <<rec, monthOpen, balance, ccTotal, statusQ, centerQ, statusW,
                 req, editor, history, used>>

(* UpdateCostCenterMasterJob: nobody else writes the master it reads.  The *)
(* job of a cancelled loan names no cost centre: it throws.                *)
CenterUpdate ==
  LET job == Head(centerQ) IN
  /\ centerQ # <<>>
  /\ IF job.costCenter = NoCostCenter THEN UNCHANGED ccTotal
     ELSE ccTotal' = [ccTotal EXCEPT ![job.costCenter] =
                        IF job.operation = "subtract" THEN @ - job.amount
                                                      ELSE @ + job.amount]
  /\ centerQ' = Tail(centerQ)
  /\ UNCHANGED <<rec, monthOpen, balance, master, statusQ, balanceQ, workers,
                 req, editor, history, used>>
-----------------------------------------------------------------------------
(* A database error inside a handler: the job is dropped where it stands.  *)
JobFails ==
  /\ used.fails < MaxFails
  /\ used' = [used EXCEPT !.fails = @ + 1]
  /\ incidents' = incidents \union {"failed"}
  /\ \/ /\ statusW # "idle"
        /\ statusQ' = Tail(statusQ)
        /\ statusW' = "idle"
        /\ UNCHANGED <<balanceQ, centerQ, balanceW>>
     \/ /\ balanceW.step # "idle"
        /\ balanceQ' = Tail(balanceQ)
        /\ balanceW' = IdleBal
        /\ UNCHANGED <<statusQ, centerQ, statusW>>
     \/ /\ centerQ # <<>>
        /\ centerQ' = Tail(centerQ)
        /\ UNCHANGED <<statusQ, balanceQ, workers>>
  /\ UNCHANGED <<stores, req, editor, posted>>

(* CreateOrUpdateAvailabilityAccount: renaming an account writes back the  *)
(* whole document, with the balance it had when it was read.               *)
EditRead(a) ==
  /\ ~editor[a].busy
  /\ used.edits < MaxEdits
  /\ used' = [used EXCEPT !.edits = @ + 1]
  /\ editor' = [editor EXCEPT ![a] = [busy |-> TRUE, seen |-> balance[a]]]
  /\ UNCHANGED <<stores, queues, workers, req, history>>

\* Variant with a bug: the edited account starts from 0.
EditWriteResets(a) ==
  /\ editor[a].busy
  /\ balance' = [balance EXCEPT ![a] = 0]
  /\ editor' = [editor EXCEPT ![a] = IdleEdit]
  /\ incidents' = incidents
       \union Noted("staleEdit", balance[a] # editor[a].seen)
  /\ UNCHANGED <<rec, monthOpen, master, ccTotal, queues, workers, req, posted,
                 used>>

EditWrite(a) ==
  /\ editor[a].busy
  /\ balance' = [balance EXCEPT ![a] = editor[a].seen]
  /\ editor' = [editor EXCEPT ![a] = IdleEdit]
  /\ incidents' = incidents
       \union Noted("staleEdit", balance[a] # editor[a].seen)
  /\ UNCHANGED <<rec, monthOpen, master, ccTotal, queues, workers, req, posted,
                 used>>

(* UpdateFinancialMonth: a month is closed or reopened.                    *)
FlipMonth(m) ==
  /\ used.flips < MaxFlips
  /\ used' = [used EXCEPT !.flips = @ + 1]
  /\ monthOpen' = [monthOpen EXCEPT ![m] = ~@]
  /\ UNCHANGED <<rec, balance, master, ccTotal, queues, workers, req, editor,
                 history>>

(* The process dies: requests and edits are gone, Mongo and Redis stay.    *)
Crash ==
  /\ used.crashes < MaxCrashes
  /\ used' = [used EXCEPT !.crashes = @ + 1]
  /\ req' = [q \in Request |-> Idle]
  /\ editor' = [a \in Account |-> IdleEdit]
  /\ statusW' = "idle"
  /\ balanceW' = IdleBal
  /\ incidents' = incidents \union {"crash"}
  /\ UNCHANGED <<stores, queues, posted>>
-----------------------------------------------------------------------------
Finish(q) ==
  \/ CreateStore(q) \/ CreateCommit(q)
  \/ CancelValidate(q) \/ CancelStore(q) \/ CancelCommit(q)
  \/ ReconcileDispatch(q)

Begin(q) == CreateStart(q) \/ CancelRead(q) \/ MatchRead(q) \/ LinkRead(q)

StatusWorker  == StatusValidate \/ StatusStore \/ StatusDispatch
BalanceWorker == BalanceRead \/ BalanceWrite \/ MasterUpdate

Next ==
  \/ \E q \in Request : Begin(q) \/ Finish(q) \/ CancelFail(q)
  \/ StatusWorker \/ BalanceWorker \/ CenterUpdate \/ JobFails
  \/ \E a \in Account : EditRead(a) \/ EditWrite(a)
  \/ \E m \in Month : FlipMonth(m)
  \/ Crash

Spec == Init /\ [][Next]_vars

(* A request that was accepted runs to its end, a worker takes the next    *)
(* job while there is one; nobody has to send a request.                   *)
Fairness ==
  /\ \A q \in Request : WF_vars(Finish(q))
  /\ WF_vars(StatusWorker) /\ WF_vars(BalanceWorker) /\ WF_vars(CenterUpdate)

FairSpec == Spec /\ Fairness
===============================================================================
