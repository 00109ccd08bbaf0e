-------------------------------- MODULE Banking --------------------------------
(***************************************************************************)
(* The bank statements: a file of the bank is uploaded and queued, its job *)
(* stores the lines it does not know yet and matches each with a financial *)
(* record, and a user retries the match or links a record by hand.         *)
(*                                                                         *)
(* Imports run one at a time (one queue, one worker).  Retries and links   *)
(* are requests that run beside it; each step ends where the code awaits   *)
(* the database.  That a record becomes RECONCILED is the business of a    *)
(* delayed job of the Ledger, here one step (`late').                      *)
(***************************************************************************)
EXTENDS Integers, SequencesExt

CONSTANTS
  File,        \* files that may be uploaded: sequences of lines
  Entry,       \* the records that the ledger may hold
  NoRecord,    \* no record
  Worker,      \* the worker of ImportBankStatementJob
  Request,     \* concurrent requests to retry or to link
  MaxUploads,  \* bound: files uploaded
  MaxRequests, \* bound: requests started
  MaxCancels,  \* bound: records cancelled
  MaxTroubles  \* bound: dispatches that do not reach Redis, crashes of the
               \* process, jobs that fail (database error, closed month)

(* A line of the file, as the bank wrote it.  Days are counted in halves,  *)
(* so that a record may be dated within a day; lines are dated at midnight *)
Line == [ref : STRING, day : Int, amount : Int, note : STRING]

(* What the match looks at in a record.                                    *)
Posting == [amount : Nat, day : Int, type : {"INCOME", "OUTGO", "PURCHASE"}]

ASSUME FileAssumption    == File \subseteq Seq(Line)
ASSUME EntryAssumption   == Entry \subseteq [id : Nat, post : Posting]
ASSUME RecordAssumption  == NoRecord \notin Entry
ASSUME RequestAssumption == Worker \notin Request

Agent == Request \union {Worker}

(* PENDING and CLEARED are OPEN: the match does not tell them apart.       *)
RecordStatus    == {"ABSENT", "OPEN", "RECONCILED", "VOID"}
StatementStatus == {"PENDING", "UNMATCHED", "RECONCILED"}

(* BankStatement; `run' is the import that stored it (history).            *)
Statement ==
  [line : Line, status : StatementStatus, record : Entry \union {NoRecord},
   run : Nat]

(* A delayed job carries a snapshot of the record; the manual link forgets *)
(* its database id.                                                        *)
LateJob == [record : Entry, id : BOOLEAN]

VARIABLES
  statement,  \* bank_statements, in the order of their insertion
  record,     \* status of the records
  jobs,       \* the queue of imports; the head is being run
  late,       \* the queue of status jobs
  agent,      \* what the worker and the requests are doing
  finished,   \* history: files whose import ran to its end
  marks,      \* history: records touched by a known anomaly
  disturbed,  \* history: an import was interrupted or failed
  used        \* how much of each bound is spent

history == <<finished, marks, disturbed>>
vars == <<statement, record, jobs, late, agent, history, used>>

Anomaly == {"shared", "hand", "dropped", "unnamed"}

(* `read' is the record that the statement named when it was read.         *)
Idle == [step |-> "idle", todo |-> <<>>, fresh |-> <<>>,
         record |-> NoRecord, read |-> NoRecord]

Session ==
  [step : {"idle", "storing", "finding", "saving", "linking"},
   todo : Seq(Nat), fresh : Seq(Line), record : Entry \union {NoRecord},
   read : Entry \union {NoRecord}]

TypeOK ==
  /\ statement \in Seq(Statement)
  /\ record \in [Entry -> RecordStatus]
  /\ jobs \in Seq([lines : Seq(Line), run : Nat])
  /\ late \in Seq(LateJob)
  /\ agent \in [Agent -> Session]
  /\ \A a \in Agent : \A n \in DOMAIN agent[a].todo :
       agent[a].todo[n] \in DOMAIN statement
  /\ finished \subseteq Seq(Line)
  /\ marks \in [Anomaly -> SUBSET Entry]
  /\ disturbed \in BOOLEAN
  /\ used \in [uploads : Nat, requests : Nat, cancels : Nat,
               troubles : Nat]

Init ==
  /\ statement = <<>>
  /\ record = [e \in Entry |-> "ABSENT"]
  /\ jobs = <<>>
  /\ late = <<>>
  /\ agent = [a \in Agent |-> Idle]
  /\ finished = {}
  /\ marks = [kind \in Anomaly |-> {}]
  /\ disturbed = FALSE
  /\ used = [uploads |-> 0, requests |-> 0, cancels |-> 0, troubles |-> 0]
-----------------------------------------------------------------------------
(* NuBankCsvParser.  The hash leaves out the reference and the sign; lines *)
(* without a reference all have the same fitId.                            *)
Magnitude(line) == IF line.amount < 0 THEN -line.amount ELSE line.amount
Direction(line) == IF line.amount >= 0 THEN "INCOME" ELSE "OUTGO"
FitId(line)     == line.ref
Hash(line)      == <<line.day, Magnitude(line), line.note>>

Create(line, run) ==
  [line |-> line, status |-> "PENDING", record |-> NoRecord, run |-> run]

(* DIRECTION_TO_TYPES.                                                     *)
Types(direction) ==
  IF direction = "INCOME" THEN {"INCOME"} ELSE {"OUTGO", "PURCHASE"}

(* findMatchingFinancialRecord: from the midnight before to the midnight   *)
(* after, in the account of the bank.                                      *)
Fits(line, post) ==
  /\ post.amount = Magnitude(line)
  /\ post.type \in Types(Direction(line))
  /\ post.day \in (line.day - 2)..(line.day + 2)

\* Variant with a bug: a reconciled record matches too.
CandidatesReconciled(line) ==
  {e \in Entry : record[e] \in {"OPEN", "RECONCILED"} /\ Fits(line, e.post)}
Candidates(line) ==
  {e \in Entry : record[e] = "OPEN" /\ Fits(line, e.post)}

Names(e) == {i \in DOMAIN statement : statement[i].record = e}

(* A record is about to be reconciled: its job is queued, or an agent has  *)
(* found it and has not dispatched the job yet.                            *)
Coming(e) ==
  \/ \E n \in DOMAIN late : late[n].record = e
  \/ \E a \in Agent : agent[a].record = e

Mark(kind, entries) == [marks EXCEPT ![kind] = @ \union entries]

Spend(what) == used' = [used EXCEPT ![what] = @ + 1]

Trouble == used.troubles < MaxTroubles /\ Spend("troubles")

Dispatch(job, lost) ==
  IF lost THEN Trouble /\ UNCHANGED late
  ELSE late' = Append(late, job) /\ UNCHANGED used
-----------------------------------------------------------------------------
(* ImportBankStatement: the upload is stored and the job dispatched; the   *)
(* answer is 202 even if the dispatch fails.                               *)
ImportStatement(file) ==
  /\ used.uploads < MaxUploads
  /\ \E lost \in {FALSE, TRUE} :
       /\ lost => used.troubles < MaxTroubles
       /\ jobs' = IF lost THEN jobs
                  ELSE Append(jobs, [lines |-> file, run |-> used.uploads + 1])
       /\ used' = [used EXCEPT !.uploads = @ + 1,
                               !.troubles = @ + IF lost THEN 1 ELSE 0]
  /\ UNCHANGED <<statement, record, late, agent, history>>

(* The job parses the file and keeps the lines of which the database knows *)
(* neither the fitId nor the hash.  Lines are not compared with each other *)
Known(line) ==
  \E i \in DOMAIN statement : \/ FitId(statement[i].line) = FitId(line)
                              \/ Hash(statement[i].line) = Hash(line)

(* The lines at the positions P, in their order.                           *)
Taken(lines, P) ==
  LET rank(n) == Cardinality({m \in P : m =< n})
  IN  [k \in 1..Cardinality(P) |-> lines[CHOOSE n \in P : rank(n) = k]]

\* Variant with a bug: a line is known only by both.
FreshByBoth(lines) ==
  Taken(lines, {n \in DOMAIN lines :
    ~ \E i \in DOMAIN statement : /\ FitId(statement[i].line) = FitId(lines[n])
                                  /\ Hash(statement[i].line) = Hash(lines[n])})
Fresh(lines) == Taken(lines, {n \in DOMAIN lines : ~ Known(lines[n])})

EndJob ==
  /\ jobs' = Tail(jobs)
  /\ agent' = [agent EXCEPT ![Worker] = Idle]

ImportRead ==
  /\ agent[Worker].step = "idle"
  /\ jobs # <<>>
  /\ agent' = [agent EXCEPT ![Worker].step = "storing",
                            ![Worker].fresh = Fresh(Head(jobs).lines)]
  /\ UNCHANGED <<statement, record, jobs, late, history, used>>

(* bulkInsert, then reconcileStatements begins; without a new line the job *)
(* is over.                                                                *)
Inserted(lines) ==
  statement \o [n \in DOMAIN lines |-> Create(lines[n], Head(jobs).run)]

\* Variant with a bug: the last line is not reconciled.
ToReconcileButLast(lines) ==
  [n \in 1..(Len(lines) - 1) |-> Len(statement) + n]
ToReconcile(lines) == [n \in DOMAIN lines |-> Len(statement) + n]

ImportStore ==
  LET fresh == agent[Worker].fresh IN
  /\ agent[Worker].step = "storing"
  /\ statement' = Inserted(fresh)
  /\ IF ToReconcile(fresh) = <<>>
       THEN EndJob /\ finished' = finished \union {Head(jobs).lines}
       ELSE /\ agent' = [agent EXCEPT ![Worker] =
                 [Idle EXCEPT !.step = "finding", !.todo = ToReconcile(fresh)]]
            /\ UNCHANGED <<jobs, finished>>
  /\ UNCHANGED <<record, late, marks, disturbed, used>>
-----------------------------------------------------------------------------
(* BankStatementReconciler, for the worker and for a retry: one record is  *)
(* looked for, the statement is updated, the status job is dispatched.     *)
Find(a) ==
  LET i == Head(agent[a].todo) IN
  /\ agent[a].step = "finding"
  /\ \E e \in IF Candidates(statement[i].line) = {} THEN {NoRecord}
              ELSE Candidates(statement[i].line) :
       /\ agent' = [agent EXCEPT ![a].step = "saving", ![a].record = e]
       /\ marks' = IF e # NoRecord /\ Coming(e) THEN Mark("shared", {e})
                   ELSE marks
  /\ UNCHANGED <<statement, record, jobs, late, finished, disturbed, used>>

(* The worker goes on with the next statement, or cleans up and returns; a *)
(* request returns.                                                        *)
Proceed(a) ==
  IF Tail(agent[a].todo) # <<>>
  THEN /\ agent' = [agent EXCEPT ![a] = [Idle EXCEPT !.step = "finding",
                                           !.todo = Tail(agent[a].todo)]]
       /\ UNCHANGED <<jobs, finished>>
  ELSE IF a = Worker
  THEN EndJob /\ finished' = finished \union {Head(jobs).lines}
  ELSE /\ agent' = [agent EXCEPT ![a] = Idle]
       /\ UNCHANGED <<jobs, finished>>

(* updateStatus overwrites whatever the statement says by now: the record  *)
(* named since it was read loses its statement.                            *)
UpdateStatus(i, e) ==
  /\ statement' = [statement EXCEPT ![i].record = e, ![i].status =
                     IF e = NoRecord THEN "UNMATCHED" ELSE "RECONCILED"]

Renamed(i, e) == {statement[i].record} \ {e, NoRecord}

Since(a, i, e) == Renamed(i, e) \ {agent[a].read}

SaveUnmatched(a) ==
  LET i == Head(agent[a].todo) IN
  /\ agent[a].step = "saving"
  /\ agent[a].record = NoRecord
  /\ UpdateStatus(i, NoRecord)
  /\ marks' = Mark("unnamed", Since(a, i, NoRecord))
  /\ Proceed(a)
  /\ UNCHANGED <<record, late, disturbed, used>>

\* Variant with a bug: the record is not told.
SaveMatchedSilently(a) ==
  LET i == Head(agent[a].todo)
      e == agent[a].record IN
  /\ agent[a].step = "saving"
  /\ e # NoRecord
  /\ UpdateStatus(i, e)
  /\ marks' = Mark("unnamed", Since(a, i, e))
  /\ Proceed(a)
  /\ UNCHANGED <<record, late, disturbed, used>>

SaveMatched(a) ==
  LET i == Head(agent[a].todo)
      e == agent[a].record IN
  /\ agent[a].step = "saving"
  /\ e # NoRecord
  /\ UpdateStatus(i, e)
  /\ \E lost \in {FALSE, TRUE} :
       /\ Dispatch([record |-> e, id |-> TRUE], lost)
       /\ marks' = [marks EXCEPT
            !["unnamed"] = @ \union Since(a, i, e),
            !["dropped"] = @ \union IF lost THEN {e} ELSE {}]
  /\ Proceed(a)
  /\ UNCHANGED <<record, disturbed>>
-----------------------------------------------------------------------------
Begin(q, session) ==
  /\ agent[q] = Idle
  /\ used.requests < MaxRequests
  /\ Spend("requests")
  /\ agent' = [agent EXCEPT ![q] = session]

Reading(i) == [Idle EXCEPT !.step = "finding", !.todo = <<i>>,
                           !.read = statement[i].record]

(* RetryBankStatementReconciliation: a reconciled statement is answered.   *)
\* Variant with a bug: a reconciled statement is matched again.
RetryReadAny(q, i) ==
  /\ Begin(q, Reading(i))
  /\ UNCHANGED <<statement, record, jobs, late, history>>

RetryRead(q, i) ==
  /\ statement[i].status # "RECONCILED"
  /\ Begin(q, Reading(i))
  /\ UNCHANGED <<statement, record, jobs, late, history>>

(* LinkBankStatementToFinancialRecord: any record of the church, whatever  *)
(* its status and whoever names it; the snapshot has no database id.       *)
LinkRead(q, i, e) ==
  /\ record[e] # "ABSENT"
  /\ ~ (statement[i].status = "RECONCILED" /\ statement[i].record = e)
  /\ Begin(q, [Idle EXCEPT !.step = "linking", !.todo = <<i>>, !.record = e])
  /\ UNCHANGED <<statement, record, jobs, late, history>>

LinkSave(q) ==
  LET i == Head(agent[q].todo)
      e == agent[q].record IN
  /\ agent[q].step = "linking"
  /\ UpdateStatus(i, e)
  /\ marks' = [marks EXCEPT !["unnamed"] = @ \union Renamed(i, e),
                            !["hand"] = @ \union {e}]
  /\ \E lost \in {FALSE, TRUE} : Dispatch([record |-> e, id |-> FALSE], lost)
  /\ agent' = [agent EXCEPT ![q] = Idle]
  /\ UNCHANGED <<record, jobs, finished, disturbed>>
-----------------------------------------------------------------------------
(* UpdateFinancialRecordJob upserts the snapshot as RECONCILED.  Without   *)
(* its id the upsert is an insertion, which the unique index refuses.      *)
StatusJob ==
  /\ late # <<>>
  /\ late' = Tail(late)
  /\ record' = IF Head(late).id
               THEN [record EXCEPT ![Head(late).record] = "RECONCILED"]
               ELSE record
  /\ UNCHANGED <<statement, jobs, agent, history, used>>

(* The month has been closed, or the write fails: the job is dropped.      *)
StatusJobFails ==
  /\ late # <<>>
  /\ Trouble
  /\ late' = Tail(late)
  /\ marks' = Mark("dropped", {Head(late).record})
  /\ UNCHANGED <<statement, record, jobs, agent, finished, disturbed>>

(* What the rest of the ledger does: a record is created, or cancelled,    *)
(* whatever its status.                                                    *)
CreateRecord(e) ==
  /\ record[e] = "ABSENT"
  /\ record' = [record EXCEPT ![e] = "OPEN"]
  /\ UNCHANGED <<statement, jobs, late, agent, history, used>>

CancelRecord(e) ==
  /\ record[e] \notin {"ABSENT", "VOID"}
  /\ used.cancels < MaxCancels
  /\ Spend("cancels")
  /\ record' = [record EXCEPT ![e] = "VOID"]
  /\ UNCHANGED <<statement, jobs, late, agent, history>>
-----------------------------------------------------------------------------
(* A database error ends the job, and the file is removed all the same.    *)
ImportFails ==
  /\ agent[Worker].step # "idle"
  /\ Trouble
  /\ EndJob
  /\ disturbed' = TRUE
  /\ UNCHANGED <<statement, record, late, finished, marks>>

(* The process dies.  The job was not acknowledged and runs again from its *)
(* beginning; an insertion in progress may have stored some of its lines.  *)
Crash ==
  /\ Trouble
  /\ \E n \in 0..Len(agent[Worker].fresh) :
       statement' = Inserted(SubSeq(agent[Worker].fresh, 1, n))
  /\ agent' = [a \in Agent |-> Idle]
  /\ disturbed' = (disturbed \/ agent[Worker].step # "idle")
  /\ UNCHANGED <<record, jobs, late, finished, marks>>

Reconcile(a) == Find(a) \/ SaveUnmatched(a) \/ SaveMatched(a)

ImportStep == ImportRead \/ ImportStore \/ Reconcile(Worker)

(* The three operations of BankStatementController that change something.  *)
Import   == \E file \in File : ImportStatement(file)
Retry(q) == \E i \in DOMAIN statement : RetryRead(q, i)
Link(q)  == \E i \in DOMAIN statement, e \in Entry : LinkRead(q, i, e)

Next ==
  \/ Import
  \/ ImportStep
  \/ \E q \in Request : Retry(q) \/ Link(q) \/ LinkSave(q) \/ Reconcile(q)
  \/ StatusJob
  \/ StatusJobFails
  \/ \E e \in Entry : CreateRecord(e) \/ CancelRecord(e)
  \/ ImportFails
  \/ Crash

(* The workers run while the process does, or runs again.                  *)
Spec == Init /\ [][Next]_vars /\ WF_vars(ImportStep) /\ WF_vars(StatusJob)
-----------------------------------------------------------------------------
(* No movement is stored twice by two uploads, nor by a job that runs      *)
(* again after a crash has stored some of its lines: two statements with   *)
(* the fitId or the hash of one another come from one file.                *)
(* And an import that ran to its end, even at the second try, has stored   *)
(* every line of its file or found it known.                               *)
LinesStoredOnce ==
  /\ \A i, j \in DOMAIN statement :
       \/ statement[i].run = statement[j].run
       \/ /\ FitId(statement[i].line) # FitId(statement[j].line)
          /\ Hash(statement[i].line) # Hash(statement[j].line)
  /\ \A lines \in finished : \A line \in Range(lines) : Known(line)

(* A statement still PENDING is about to be reconciled, or its import was  *)
(* interrupted: it will not be tried again by itself, since the import     *)
(* that runs again takes its line for a duplicate.                         *)
PendingExplained ==
  \A i \in DOMAIN statement :
    statement[i].status = "PENDING" =>
      i \in Range(agent[Worker].todo) \/ disturbed

(* A statement that says RECONCILED does not stay alone: its record is     *)
(* reconciled too (or was cancelled later), or its job is queued, unless   *)
(* the job was lost or dropped or the link was made by hand.               *)
RecordFollows ==
  \A i \in DOMAIN statement :
    LET e == statement[i].record IN
    statement[i].status = "RECONCILED" =>
      \/ record[e] \in {"RECONCILED", "VOID"}
      \/ \E n \in DOMAIN late : late[n] = [record |-> e, id |-> TRUE]
      \/ e \in marks["dropped"] \union marks["hand"]

(* And the other way round: a record is RECONCILED only because a          *)
(* statement names it, unless another statement was linked over it or a    *)
(* match that had read the statement earlier overwrote the link.           *)
StatementBehind ==
  \A e \in Entry :
    record[e] = "RECONCILED" => Names(e) # {} \/ e \in marks["unnamed"]

(* Two statements name one record only by hand, after a lost or dropped    *)
(* job, or when the second was matched while the first was on its way.     *)
MatchedOnce ==
  \A e \in Entry :
    Cardinality(Names(e)) > 1 =>
      e \in marks["shared"] \union marks["hand"] \union marks["dropped"]

(* A stored statement does not stay PENDING, and a record that was matched *)
(* ends reconciled or cancelled; see PendingExplained for the exceptions.  *)
ImportsSettle ==
  /\ []<>(disturbed \/ \A i \in DOMAIN statement :
                          statement[i].status # "PENDING")
  /\ \A e \in Entry :
       [](Names(e) # {} => <>(record[e] \in {"RECONCILED", "VOID"}
                        \/ e \in marks["dropped"] \union marks["hand"]))
===============================================================================
