-------------------------------- MODULE Masters --------------------------------
(***************************************************************************)
(* The monthly masters of an availability account: one document per month, *)
(* kept by the job of the balances and rebuilt from the records on demand. *)
(*                                                                         *)
(* Both jobs share one repository object, whose collection name the        *)
(* rebuild switches to read the records and back to write the masters.     *)
(* Each action ends where the code awaits the database.                    *)
(***************************************************************************)
EXTENDS Integers, SequencesExt

CONSTANTS
  Entry,       \* records of the account
  PeriodOf,    \* the month of an entry's date
  MaxTime,     \* bound: the last month of the clock
  MaxRebuilds, \* bound: rebuilds asked for
  MaxTroubles  \* bound: lost dispatches, jobs run twice or not at all

Period == 0..MaxTime

ASSUME PeriodAssumption == MaxTime \in Nat /\ PeriodOf \in [Entry -> Period]
ASSUME BoundAssumption  == {MaxRebuilds, MaxTroubles} \subseteq Nat

Collection == {"masters", "records"}

(* AvailabilityAccountMaster: how often each entry is in the net total.    *)
Master == [Entry -> Int]
Blank  == [e \in Entry |-> 0]

(* An entry is stored before its balance job is dispatched, and realized   *)
(* until the job of its cancellation makes it VOID.                        *)
EntryStatus == {"none", "stored", "realized", "reversed", "void"}

(* UpdateAvailabilityAccountBalanceRequest; no month is ever sent with it. *)
Job == [entry : Entry, sign : {1, -1}]

VARIABLES
  clock,   \* the current month
  entry,   \* status of the records
  jobs,    \* the queue of balance jobs; the head is being run
  worker,  \* the balance job: what it read and where
  rebuild, \* the rebuild job: its step, month and what it aggregated
  name,    \* dbCollectionName of the repository
  stored,  \* per collection and month, the masters in their order
  drift,   \* history: per month, the entries that a known anomaly touched
  crossed, \* history: months that a job wrote while they were rebuilt
  used     \* how much of each bound is spent

vars == <<clock, entry, jobs, worker, rebuild, name, stored, drift, crossed,
          used>>

Reading == [step |-> "read", doc |-> Blank, from |-> "masters", period |-> 0]
Still   == [step |-> "idle", period |-> 0, counted |-> {}, disturbed |-> FALSE]

TypeOK ==
  /\ clock \in Period
  /\ entry \in [Entry -> EntryStatus]
  /\ jobs \in Seq(Job)
  /\ worker \in [step : {"read", "write"}, doc : Master, from : Collection,
                 period : Period]
  /\ worker.step = "write" => jobs # <<>>
  /\ rebuild \in [step : {"idle", "reading", "deleting", "inserting"},
                  period : Period, counted : SUBSET Entry, disturbed : BOOLEAN]
  /\ name \in Collection
  /\ stored \in [Collection -> [Period -> Seq(Master)]]
  /\ drift \in [Period -> SUBSET Entry]
  /\ crossed \subseteq Period
  /\ used \in [rebuilds : 0..MaxRebuilds, troubles : 0..MaxTroubles]

Init ==
  /\ clock = 0
  /\ entry = [e \in Entry |-> "none"]
  /\ jobs = <<>>
  /\ worker = Reading
  /\ rebuild = Still
  /\ name = "masters"
  /\ stored = [c \in Collection |-> [p \in Period |-> <<>>]]
  /\ drift = [p \in Period |-> {}]
  /\ crossed = {}
  /\ used = [rebuilds |-> 0, troubles |-> 0]
-----------------------------------------------------------------------------
Realized(e) == entry[e] \in {"stored", "realized", "reversed"}

Queued(e) == \E n \in DOMAIN jobs : jobs[n].entry = e

Rebuilding(p) ==
  rebuild.step \in {"deleting", "inserting"} /\ rebuild.period = p

Trouble ==
  /\ used.troubles < MaxTroubles
  /\ used' = [used EXCEPT !.troubles = @ + 1]

(* The entry is not to be trusted in any month.                            *)
Drift(e) == drift' = [p \in Period |-> drift[p] \union {e}]

(* None is, in this month.                                                 *)
Spoil(p) == drift' = [drift EXCEPT ![p] = Entry]
-----------------------------------------------------------------------------
(* DispatchUpdateAvailabilityAccountBalance, after a record is stored or   *)
(* cancelled: its job is queued, unless the dispatch does not reach Redis. *)
Enqueue(e, sign) ==
  \/ /\ jobs' = Append(jobs, [entry |-> e, sign |-> sign])
     /\ UNCHANGED <<drift, used>>
  \/ /\ Trouble
     /\ Drift(e)
     /\ UNCHANGED jobs

Store(e) ==
  /\ entry[e] = "none"
  /\ entry' = [entry EXCEPT ![e] = "stored"]
  /\ UNCHANGED <<clock, jobs, worker, rebuild, name, stored, drift, crossed,
                 used>>

Post(e) ==
  /\ entry[e] = "stored"
  /\ entry' = [entry EXCEPT ![e] = "realized"]
  /\ Enqueue(e, 1)
  /\ UNCHANGED <<clock, worker, rebuild, name, stored, crossed>>

Cancel(e) ==
  /\ entry[e] = "realized"
  /\ entry' = [entry EXCEPT ![e] = "reversed"]
  /\ Enqueue(e, -1)
  /\ UNCHANGED <<clock, worker, rebuild, name, stored, crossed>>

Void(e) ==
  /\ entry[e] = "reversed"
  /\ entry' = [entry EXCEPT ![e] = "void"]
  /\ UNCHANGED <<clock, jobs, worker, rebuild, name, stored, drift, crossed,
                 used>>

RecordStep == \E e \in Entry : Store(e) \/ Post(e) \/ Cancel(e) \/ Void(e)

Tick ==
  /\ clock < MaxTime
  /\ clock' = clock + 1
  /\ UNCHANGED <<entry, jobs, worker, rebuild, name, stored, drift, crossed,
                 used>>
-----------------------------------------------------------------------------
(* UpdateAvailabilityAccountMaster: MasterBalanceIdentifier falls back to  *)
(* the current month, whatever the date of the record.                     *)
Identifier(e) == clock

(* one: the first document under the identifier, in the collection that    *)
(* the repository names at that moment.                                    *)
One(p) == IF stored[name][p] = <<>> THEN Blank ELSE Head(stored[name][p])

JobRead ==
  /\ jobs # <<>> /\ worker.step = "read"
  /\ LET p == Identifier(Head(jobs).entry) IN
     worker' = [step |-> "write", doc |-> One(p), from |-> name, period |-> p]
  /\ UNCHANGED <<clock, entry, jobs, rebuild, name, stored, drift, crossed,
                 used>>

(* updateMaster.                                                           *)
Updated(doc, job) == [doc EXCEPT ![job.entry] = @ + job.sign]

(* Variant with a bug: an upsert by the database id, which a new master    *)
(* does not have and fromPrimitives would lose.                            *)
UpsertedById(p, doc) == [stored EXCEPT ![name][p] = Append(@, doc)]

(* upsert: the first document is replaced, or a new one inserted, again in *)
(* the collection named at that moment.                                    *)
Upserted(p, doc) ==
  [stored EXCEPT ![name][p] = IF @ = <<>> THEN <<doc>> ELSE [@ EXCEPT ![1] = doc]]

(* A second master among the records breaks their unique financialRecordId,*)
(* a field that no master has.                                             *)
Insertable(p) ==
  name = "records" => \A q \in Period \ {p} : stored.records[q] = <<>>

(* What can go wrong with the write: the wrong collection was read or      *)
(* written, the month is being rebuilt, or is not the month of the record. *)
Astray(p) == worker.from = "records" \/ name = "records" \/ Rebuilding(p)

JobDrift(e, p) ==
  drift' = [q \in Period |->
              drift[q] \union (IF Astray(p) /\ q = p THEN Entry ELSE {})
                       \union (IF Astray(p) \/ PeriodOf[e] # p THEN {e} ELSE {})]

Crossing(p) ==
  /\ crossed' = IF Rebuilding(p) THEN crossed \union {p} ELSE crossed
  /\ rebuild' = [rebuild EXCEPT !.disturbed = @ \/ Rebuilding(p)]

JobWrite ==
  /\ worker.step = "write"
  /\ LET job == Head(jobs)  p == worker.period IN
     /\ stored' = IF Insertable(p) THEN Upserted(p, Updated(worker.doc, job))
                  ELSE stored
     /\ JobDrift(job.entry, p)
     /\ Crossing(p)
  /\ worker' = Reading
  /\ jobs' = Tail(jobs)
  /\ UNCHANGED <<clock, entry, name, used>>

(* The process dies after the write and the queue gives the job out again; *)
(* or the database fails before it, and the job is not tried again.        *)
JobTwice ==
  /\ worker.step = "write" /\ Insertable(worker.period)
  /\ Trouble
  /\ stored' = Upserted(worker.period, Updated(worker.doc, Head(jobs)))
  /\ drift' = [p \in Period |-> Entry]
  /\ Crossing(worker.period)
  /\ worker' = Reading
  /\ UNCHANGED <<clock, entry, jobs, name>>

JobFails ==
  /\ jobs # <<>>
  /\ Trouble
  /\ Drift(Head(jobs).entry)
  /\ worker' = Reading
  /\ jobs' = Tail(jobs)
  /\ UNCHANGED <<clock, entry, rebuild, name, stored, crossed>>

JobStep == JobRead \/ JobWrite
-----------------------------------------------------------------------------
(* rebuildAvailabilityAccountsMaster, from its queue with one worker: the  *)
(* name is switched and the collection awaited; the realized records of    *)
(* the month are aggregated; if there are none the name stays as it is;    *)
(* the masters of the month are deleted; the new ones inserted.            *)
RebuildStart(p) ==
  /\ rebuild.step = "idle"
  /\ used.rebuilds < MaxRebuilds
  /\ used' = [used EXCEPT !.rebuilds = @ + 1]
  /\ rebuild' = [Still EXCEPT !.step = "reading", !.period = p]
  /\ name' = "records"
  /\ UNCHANGED <<clock, entry, jobs, worker, stored, drift, crossed>>

(* Variant with a bug: the aggregation does not look at the status.        *)
AggregatedAny(p) ==
  IF name = "records" THEN {e \in Entry : PeriodOf[e] = p /\ entry[e] # "none"}
  ELSE {}

Aggregated(p) ==
  IF name = "records" THEN {e \in Entry : PeriodOf[e] = p /\ Realized(e)}
  ELSE {}

(* Entries whose job, or cancellation, is still to come are counted by the *)
(* aggregation and once more afterwards.                                   *)
Pending == {e \in Entry : Queued(e) \/ entry[e] \in {"stored", "reversed"}}

RebuildRead ==
  /\ rebuild.step = "reading"
  /\ LET counted == Aggregated(rebuild.period) IN
     IF counted = {}
     THEN rebuild' = Still /\ UNCHANGED <<name, drift>>
     ELSE /\ name' = "masters"
          /\ drift' = [drift EXCEPT ![rebuild.period] = Pending]
          /\ rebuild' = [rebuild EXCEPT !.step = "deleting", !.counted = counted,
                           !.disturbed = worker.step = "write"]
  /\ UNCHANGED <<clock, entry, jobs, worker, stored, crossed, used>>

RebuildDelete ==
  /\ rebuild.step = "deleting"
  /\ stored' = [stored EXCEPT !.masters[rebuild.period] = <<>>]
  /\ rebuild' = [rebuild EXCEPT !.step = "inserting"]
  /\ UNCHANGED <<clock, entry, jobs, worker, name, drift, crossed, used>>

Rebuilt(counted) == [e \in Entry |-> IF e \in counted THEN 1 ELSE 0]

(* After a rebuild that no job crossed, the month is as the records say.   *)
RebuildInsert ==
  /\ rebuild.step = "inserting"
  /\ stored' = [stored EXCEPT !.masters[rebuild.period] =
                                Append(@, Rebuilt(rebuild.counted))]
  /\ IF rebuild.disturbed \/ worker.step = "write"
     THEN Spoil(rebuild.period) ELSE UNCHANGED drift
  /\ rebuild' = Still
  /\ UNCHANGED <<clock, entry, jobs, worker, name, crossed, used>>

(* The database fails, or the process dies and the job starts over.        *)
RebuildFails ==
  /\ rebuild.step # "idle"
  /\ Trouble
  /\ rebuild' \in {Still, [Still EXCEPT !.step = "reading", !.period = rebuild.period]}
  /\ name' = IF rebuild'.step = "reading" THEN "records" ELSE name
  /\ IF rebuild.step # "reading" THEN Spoil(rebuild.period) ELSE UNCHANGED drift
  /\ UNCHANGED <<clock, entry, jobs, worker, stored, crossed>>

RebuildStep == RebuildRead \/ RebuildDelete \/ RebuildInsert

(* fetchAvailableAccounts, for a report: the name is set back.             *)
FetchAvailableAccounts ==
  /\ name' = "masters"
  /\ UNCHANGED <<clock, entry, jobs, worker, rebuild, stored, drift, crossed,
                 used>>

Next ==
  \/ RecordStep \/ Tick
  \/ JobStep \/ JobTwice \/ JobFails
  \/ \E p \in Period : RebuildStart(p)
  \/ RebuildStep \/ RebuildFails \/ FetchAvailableAccounts

Spec == Init /\ [][Next]_vars
-----------------------------------------------------------------------------
(* How often an entry is in the masters of a month, all documents taken.   *)
Counted(p, e) ==
  LET docs == stored.masters[p]
  IN  SumFunction([n \in DOMAIN docs |-> docs[n][e]])

Quiet ==
  /\ jobs = <<>> /\ rebuild.step = "idle"
  /\ \A e \in Entry : entry[e] \notin {"stored", "reversed"}

(* Once the queues are empty a month's masters count each realized record  *)
(* of the month once and no other: but for records dated in another month  *)
(* than the one their job ran in, jobs that found the repository on the    *)
(* wrong collection, jobs that crossed a rebuild, rebuilds that counted    *)
(* what a queued job counted again, and jobs lost or run twice.            *)
MastersFollow ==
  Quiet =>
    \A p \in Period : \A e \in Entry \ drift[p] :
      Counted(p, e) = IF PeriodOf[e] = p /\ entry[e] = "realized" THEN 1 ELSE 0

(* A month has one master of the account, unless a job wrote it between    *)
(* the delete and the insert of a rebuild: no unique index forbids two.    *)
OneMaster ==
  \A p \in Period : Len(stored.masters[p]) > 1 => p \in crossed
==============================================================================
