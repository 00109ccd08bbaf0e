----------------------------- MODULE LedgerBooks ------------------------------
(***************************************************************************)
(* What the books of the Ledger promise: the properties of a single record *)
(* and of its snapshots, the sums over all records, and the mapping under  *)
(* which the Ledger implements Books. Ledger_proofs proves the safety part.*)
(***************************************************************************)
EXTENDS Ledger, FiniteSetsExt

Stored      == {r \in Rec : rec[r] # NoRow}
Reversed(r) == \E v \in Stored : rec[v].of = r

(* The part of a document that no status change may touch.                 *)
SameMoney(a, b) ==
  /\ a.type = b.type /\ a.amount = b.amount
  /\ a.account = b.account /\ a.costCenter = b.costCenter
  /\ a.month = b.month /\ a.of = b.of
-----------------------------------------------------------------------------
(* A stored record is never lost, and whatever stale copy of it is written *)
(* back by a status job (UpdateFinancialRecordJob stores the snapshot it   *)
(* was sent) or by the roll back of a cancellation, its money, account,    *)
(* cost centre and month stay what they were.                              *)
MoneyFixed ==
  [][\A r \in Rec : rec[r] # NoRow =>
       rec'[r] # NoRow /\ SameMoney(rec[r], rec'[r])]_vars

(* Every reversal mirrors one existing original that could be cancelled,   *)
(* in the same account: CancelFinancialRecord builds it from a snapshot,   *)
(* and nothing that is later written over the original orphans it.         *)
ReversalMirrors ==
  \A v \in Stored : rec[v].type = "REVERSAL" =>
    /\ rec[v].of \in Stored
    /\ rec[rec[v].of].type \in Cancellable
    /\ rec[rec[v].of].amount = -rec[v].amount
    /\ rec[rec[v].of].account = rec[v].account

(* No original becomes void without a reversal that explains it, although  *)
(* the status is written by a delayed job and the reversal by the request. *)
AuditTrail ==
  \A r \in Stored : rec[r].status = "VOID" /\ rec[r].type # "REVERSAL"
                      => Reversed(r)

(* The money of a record reaches its account at most once: creation,       *)
(* reconciliation (the realization side effects) and repeated requests     *)
(* never post the same record again, short of a crash, which makes the     *)
(* queue run a half-done job a second time.                                *)
PostedOnce ==
  (CreateStatus \subseteq Realized /\ "crash" \notin incidents) =>
    \A r \in Rec : posted[r] =< 1
-----------------------------------------------------------------------------
Signed(operation, amount) ==
  IF operation = "MONEY_IN" THEN amount ELSE -amount

(* What a record of the journal is worth to its account: an original its   *)
(* signed amount, a reversal the opposite of its original's.               *)
Worth(r) ==
  LET origin == IF rec[r].of = NoRec THEN rec[r] ELSE rec[rec[r].of]
      worth  == Signed(Operation(origin.type), origin.amount)
  IN  IF rec[r].of = NoRec THEN worth ELSE -worth

OfAccount(a)  == {r \in Stored : rec[r].account = a}
TotalWorth(S) == MapThenSumSet(Worth, S)

(* Money that is stored but not yet in the balance: jobs in the queue, and *)
(* requests between their document and their dispatches.                   *)
JobWorth(i)  == Signed(balanceQ[i].operation, balanceQ[i].amount)
LateWorth(q) == Worth(IF req[q].step = "created" THEN req[q].id ELSE req[q].rev)

QueuedIn(a) == {i \in DOMAIN balanceQ : balanceQ[i].account = a
                                        /\ ~(i = 1 /\ balanceW.step = "written")}
LateIn(a)   == {q \in Request : req[q].step \in {"created", "reversed"}
                                /\ req[q].row.account = a}

TotalQueued(a) == MapThenSumSet(JobWorth, QueuedIn(a))
TotalLate(a)   == MapThenSumSet(LateWorth, LateIn(a))

Undisturbed == incidents \intersect {"lost", "crash", "failed", "staleEdit"} = {}

(* At every moment the balance and the money under way add up to the       *)
(* journal, every original and every reversal counted exactly once: two    *)
(* cancellations, two matches, a closed month or any order of the jobs     *)
(* cannot break it; only a lost dispatch, a crash, a failed job or an edit *)
(* of the account that overlaps a job can.                                 *)
BooksBalance ==
  (CreateStatus \subseteq Realized /\ Undisturbed) =>
    \A a \in Account :
      balance[a] + TotalQueued(a) + TotalLate(a) = TotalWorth(OfAccount(a))

Quiet ==
  /\ statusQ = <<>> /\ balanceQ = <<>> /\ centerQ = <<>>
  /\ \A q \in Request : req[q] = Idle

(* When all work is done and no anomaly has happened, the balance of an    *)
(* account is the sum of its cleared and reconciled records: what the      *)
(* reports read from the statuses is what the balance says.                *)
StatusAgrees ==
  (Quiet /\ incidents = {}) =>
    \A a \in Account :
      balance[a] = TotalWorth({r \in OfAccount(a) : rec[r].status \in Realized})

(* The same for the cost centres: their totals of the month are what their *)
(* realized records cost.                                                  *)
Cost(r)      == rec[r].amount
TotalCost(S) == MapThenSumSet(Cost, S)
CentersAgree ==
  (Quiet /\ incidents = {}) =>
    \A c \in CostCenter :
      ccTotal[c] = TotalCost({r \in Stored : rec[r].costCenter = c
                                            /\ rec[r].status \in Realized})

(* The monthly master of an account, input less output, follows its        *)
(* balance but for the job between its two writes.                         *)
MasterFollows ==
  Undisturbed =>
    \A a \in Account :
      master[a].input - master[a].output =
        balance[a] - (IF balanceW.step = "written"
                         /\ Head(balanceQ).account = a
                      THEN Signed(Head(balanceQ).operation,
                                  Head(balanceQ).amount)
                      ELSE 0)
-----------------------------------------------------------------------------
(* A cancelled record ends void, by way of the delayed status job, unless  *)
(* a stale snapshot was written over its document.                         *)
CancelSettles ==
  \A r \in Rec : Reversed(r) ~> \/ r \in Stored /\ rec[r].status = "VOID"
                               \/ "staleStatus" \in incidents

(* The three queues are emptied again and again: no job waits for ever for *)
(* another queue or for a request.                                         *)
JobsDrain == []<>(statusQ = <<>> /\ balanceQ = <<>> /\ centerQ = <<>>)
-----------------------------------------------------------------------------
(* The Ledger implements Books: its journal are the stored records, each   *)
(* with its signed amount, and a record is settled when its money reached  *)
(* the balance.  Requests, queues and workers only make the way there: no  *)
(* order of them writes a movement that has no record, settles one twice,  *)
(* with another amount or in another account, or forgets one.              *)
Journal == [r \in Rec |-> IF rec[r] = NoRow THEN NoRow
                          ELSE [account |-> rec[r].account, worth |-> Worth(r),
                                of |-> rec[r].of]]
Settled == {r \in Rec : posted[r] > 0}

ASSUME JournalAssumption ==
  NoRow \notin [account : Account, worth : Int, of : Rec \union {NoRec}]

Promise == INSTANCE Books WITH
  Entry <- Rec, NoEntry <- NoRec, Blank <- NoRow,
  Value <- Amount \union {-n : n \in Amount},
  journal <- Journal, settled <- Settled

KeepsBooks == Promise!LiveSpec
-----------------------------------------------------------------------------
(* What the documentation says and the code does not do.                   *)

(* docs/financial-record.md: no transition leaves `void'.                  *)
VoidIsFinal ==
  [][\A r \in Stored : rec[r].status = "VOID" => rec'[r].status = "VOID"]_vars
===============================================================================
