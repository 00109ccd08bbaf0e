----------------------------- MODULE Masters_proofs -----------------------------
(***************************************************************************)
(* Masters, for every number of records, months, rebuilds and troubles:    *)
(* every variable keeps its type, a month has one master unless a job      *)
(* wrote it while it was rebuilt, and the masters follow the records.      *)
(***************************************************************************)
EXTENDS Masters, TLAPS, SequenceTheorems

(* What OneMaster rests on: between the delete and the insert of a rebuild *)
(* the month has no master, unless a job crossed it.                       *)
Emptied ==
  rebuild.step = "inserting" =>
    \/ stored.masters[rebuild.period] = <<>>
    \/ rebuild.period \in crossed

Single == TypeOK /\ OneMaster /\ Emptied
-----------------------------------------------------------------------------
LEMMA PeriodFacts == Period \subseteq Int /\ 0 \in Period
BY PeriodAssumption DEF Period

LEMMA BlankIsMaster == Blank \in Master
BY DEF Blank, Master

(* Sequences with an element at the end, without the first, or with        *)
(* another first one.                                                      *)
LEMMA SequenceFacts ==
  ASSUME NEW S, NEW s \in Seq(S), NEW d \in S
  PROVE  /\ Append(s, d) \in Seq(S) /\ Append(s, d) # <<>>
         /\ Len(Append(s, d)) = Len(s) + 1
         /\ Len(s) \in Nat
         /\ <<d>> \in Seq(S) /\ Len(<<d>>) = 1
         /\ s # <<>> => /\ Tail(s) \in Seq(S) /\ Head(s) \in S
                        /\ [s EXCEPT ![1] = d] \in Seq(S)
                        /\ Len([s EXCEPT ![1] = d]) = Len(s)
                        /\ Len(s) >= 1
         /\ s = <<>> => Len(s) = 0
<1>1. Append(s, d) \in Seq(S) /\ Len(Append(s, d)) = Len(s) + 1
  BY AppendProperties
<1>2. Len(s) \in Nat BY LenProperties
<1>3. <<d>> \in Seq(S) /\ Len(<<d>>) = 1 OBVIOUS
<1>4. ASSUME s # <<>>
      PROVE  /\ Tail(s) \in Seq(S) /\ Head(s) \in S /\ Len(s) >= 1
    BY <1>2, <1>4, HeadTailProperties, EmptySeq
<1>5. ASSUME s # <<>>
      PROVE  [s EXCEPT ![1] = d] \in Seq(S) /\ Len([s EXCEPT ![1] = d]) = Len(s)
  BY <1>4, <1>5, ExceptSeq
<1>6. Append(s, d) # <<>> BY <1>1, <1>2, EmptySeq
<1>7. s = <<>> => Len(s) = 0 BY EmptySeq
<1>8. QED BY <1>1, <1>2, <1>3, <1>4, <1>5, <1>6, <1>7
(* A trouble and a rebuild stay within their bounds.                       *)
LEMMA TroubleType ==
  ASSUME TypeOK, Trouble
  PROVE  used' \in [rebuilds : 0..MaxRebuilds, troubles : 0..MaxTroubles]
<1>1. MaxTroubles \in Nat /\ MaxRebuilds \in Nat BY BoundAssumption
<1>2. used.troubles + 1 \in 0..MaxTroubles BY <1>1 DEF TypeOK, Trouble
<1>3. QED BY <1>2 DEF TypeOK, Trouble

LEMMA HeadJob ==
  ASSUME TypeOK, jobs # <<>>
  PROVE  /\ Head(jobs) \in Job /\ Head(jobs).entry \in Entry
         /\ Head(jobs).sign \in Int /\ Tail(jobs) \in Seq(Job)
<1>1. Head(jobs) \in Job /\ Tail(jobs) \in Seq(Job)
  BY HeadTailProperties DEF TypeOK
<1>2. QED BY <1>1 DEF Job

LEMMA OneIsMaster ==
  ASSUME TypeOK, NEW p \in Period
  PROVE  One(p) \in Master
<1>1. stored[name][p] \in Seq(Master) BY DEF TypeOK
<1>2. QED BY <1>1, BlankIsMaster, HeadTailProperties DEF One

(* What a balance job writes: one master if there was none, else as many   *)
(* as before.                                                              *)
LEMMA UpsertedFacts ==
  ASSUME TypeOK, worker.step = "write"
  PROVE  LET p   == worker.period
             new == Upserted(p, Updated(worker.doc, Head(jobs)))
         IN  /\ new \in [Collection -> [Period -> Seq(Master)]]
             /\ \A q \in Period : q # p => new.masters[q] = stored.masters[q]
             /\ \/ new.masters[p] = stored.masters[p]
                \/ Len(new.masters[p]) = 1
                \/ Len(new.masters[p]) = Len(stored.masters[p])
<1> DEFINE p   == worker.period
           doc == Updated(worker.doc, Head(jobs))
           new == Upserted(p, doc)
           old == stored[name][p]
<1>1. p \in Period /\ worker.doc \in Master /\ name \in Collection
      /\ stored \in [Collection -> [Period -> Seq(Master)]]
  BY DEF TypeOK
<1>2. doc \in Master
  <2>1. worker.doc \in [Entry -> Int] BY <1>1 DEF Master
  <2>2. Head(jobs).entry \in Entry /\ Head(jobs).sign \in Int
    BY HeadJob DEF TypeOK
  <2>3. QED BY <2>1, <2>2 DEF Updated, Master
<1>3. old \in Seq(Master) BY <1>1
<1> DEFINE value == IF old = <<>> THEN <<doc>> ELSE [old EXCEPT ![1] = doc]
<1>4. new = [stored EXCEPT ![name][p] = value] BY DEF Upserted
<1> HIDE DEF doc, new
<1>5. /\ value \in Seq(Master)
      /\ Len(value) = 1 \/ Len(value) = Len(old)
  BY <1>2, <1>3, SequenceFacts
<1> HIDE DEF value
<1>6. new \in [Collection -> [Period -> Seq(Master)]] BY <1>1, <1>4, <1>5
<1>7. \A q \in Period : q # p => new.masters[q] = stored.masters[q]
  BY <1>1, <1>4 DEF Collection
<1>8. name = "masters" => new.masters[p] = value
  BY <1>1, <1>4 DEF Collection
<1>9. name # "masters" => new.masters[p] = stored.masters[p]
  BY <1>1, <1>4 DEF Collection
<1>10. QED BY <1>5, <1>6, <1>7, <1>8, <1>9 DEF new, doc

LEMMA TypeInit == Init => TypeOK
<1> SUFFICES ASSUME Init PROVE TypeOK OBVIOUS
<1>1. /\ worker \in [step : {"read", "write"}, doc : Master,
                     from : Collection, period : Period]
      /\ rebuild \in [step : {"idle", "reading", "deleting", "inserting"},
                      period : Period, counted : SUBSET Entry,
                      disturbed : BOOLEAN]
  BY PeriodFacts, BlankIsMaster DEF Init, Reading, Still, Collection
<1>2. used \in [rebuilds : 0..MaxRebuilds, troubles : 0..MaxTroubles]
  BY BoundAssumption DEF Init
<1>3. QED
  BY <1>1, <1>2, PeriodFacts DEF Init, TypeOK, EntryStatus, Collection, Reading

LEMMA TypeRecord == ASSUME TypeOK, RecordStep PROVE TypeOK'
<1>1. ASSUME NEW e \in Entry, Store(e) \/ Void(e) PROVE TypeOK'
  BY <1>1 DEF Store, Void, TypeOK, EntryStatus
<1>2. ASSUME NEW e \in Entry, NEW sign \in {1, -1}, Enqueue(e, sign)
      PROVE  /\ jobs' \in Seq(Job) /\ (jobs # <<>> => jobs' # <<>>)
             /\ drift' \in [Period -> SUBSET Entry]
             /\ used' \in [rebuilds : 0..MaxRebuilds, troubles : 0..MaxTroubles]
  <2>1. [entry |-> e, sign |-> sign] \in Job BY DEF Job
  <2>2. jobs \in Seq(Job) BY DEF TypeOK
  <2>3. Append(jobs, [entry |-> e, sign |-> sign]) \in Seq(Job)
        /\ Append(jobs, [entry |-> e, sign |-> sign]) # <<>>
    BY <2>1, <2>2, SequenceFacts
  <2>4. jobs' \in Seq(Job) /\ (jobs # <<>> => jobs' # <<>>)
    BY <1>2, <2>2, <2>3 DEF Enqueue
  <2>5. drift' \in [Period -> SUBSET Entry]
    BY <1>2 DEF Enqueue, Drift, TypeOK
  <2>6. used' \in [rebuilds : 0..MaxRebuilds, troubles : 0..MaxTroubles]
    BY <1>2, TroubleType DEF Enqueue, TypeOK
  <2>7. QED BY <2>4, <2>5, <2>6
<1>3. ASSUME NEW e \in Entry, Post(e) \/ Cancel(e) PROVE TypeOK'
  <2>1. PICK sign \in {1, -1} : Enqueue(e, sign) BY <1>3 DEF Post, Cancel
  <2>2. QED BY <1>2, <1>3, <2>1 DEF Post, Cancel, TypeOK, EntryStatus
<1>4. QED BY <1>1, <1>3 DEF RecordStep

LEMMA TypeJob == ASSUME TypeOK, JobStep \/ JobTwice \/ JobFails PROVE TypeOK'
<1> DEFINE W == [step : {"read", "write"}, doc : Master, from : Collection,
                 period : Period]
<1>1. Reading \in W BY PeriodFacts, BlankIsMaster DEF Reading, Collection
<1>2. Reading.step # "write" BY DEF Reading
<1>3. CASE JobRead
  <2>1. clock \in Period /\ One(clock) \in Master /\ name \in Collection
    BY OneIsMaster DEF TypeOK
  <2>2. worker' \in W BY <1>3, <2>1 DEF JobRead, Identifier
  <2>3. QED BY <1>3, <2>2 DEF JobRead, TypeOK
<1>4. ASSUME worker.step = "write", Crossing(worker.period)
      PROVE  /\ crossed' \subseteq Period
             /\ rebuild' \in [step : {"idle", "reading", "deleting", "inserting"},
                              period : Period, counted : SUBSET Entry,
                              disturbed : BOOLEAN]
  <2>1. worker.period \in Period BY DEF TypeOK
  <2>2. Rebuilding(worker.period) \in BOOLEAN BY DEF Rebuilding
  <2>3. QED BY <1>4, <2>1, <2>2 DEF Crossing, TypeOK
<1>5. CASE JobWrite
  <2>1. jobs # <<>> /\ worker.step = "write" BY <1>5 DEF JobWrite, TypeOK
  <2>2. stored' \in [Collection -> [Period -> Seq(Master)]]
    BY <1>5, <2>1, UpsertedFacts DEF JobWrite, TypeOK
  <2>3. drift' \in [Period -> SUBSET Entry]
    BY <1>5, <2>1, HeadJob DEF JobWrite, JobDrift, TypeOK
  <2>4. QED BY <1>1, <1>2, <1>4, <1>5, <2>1, <2>2, <2>3, HeadJob
            DEF JobWrite, TypeOK
<1>6. CASE JobTwice
  <2>1. jobs # <<>> /\ worker.step = "write" BY <1>6 DEF JobTwice, TypeOK
  <2>2. stored' \in [Collection -> [Period -> Seq(Master)]]
    BY <1>6, <2>1, UpsertedFacts DEF JobTwice
  <2>3. QED BY <1>1, <1>2, <1>4, <1>6, <2>1, <2>2, TroubleType
            DEF JobTwice, TypeOK
<1>7. CASE JobFails
  <2>1. drift' \in [Period -> SUBSET Entry]
    BY <1>7, HeadJob DEF JobFails, Drift, TypeOK
  <2>2. QED BY <1>1, <1>2, <1>7, <2>1, HeadJob, TroubleType DEF JobFails, TypeOK
<1>8. QED BY <1>3, <1>5, <1>6, <1>7 DEF JobStep

LEMMA TypeRebuild ==
  ASSUME TypeOK,
         \/ \E p \in Period : RebuildStart(p)
         \/ RebuildStep \/ RebuildFails \/ FetchAvailableAccounts
  PROVE  TypeOK'
<1> DEFINE R == [step : {"idle", "reading", "deleting", "inserting"},
                 period : Period, counted : SUBSET Entry, disturbed : BOOLEAN]
<1>0. Still \in R BY PeriodFacts DEF Still
<1>1. ASSUME NEW p \in Period, RebuildStart(p) PROVE TypeOK'
  <2>1. rebuild' \in R BY <1>0, <1>1 DEF RebuildStart
  <2>2. used' \in [rebuilds : 0..MaxRebuilds, troubles : 0..MaxTroubles]
    <3>1. MaxRebuilds \in Nat BY BoundAssumption
    <3>2. used.rebuilds < MaxRebuilds
          /\ used' = [used EXCEPT !.rebuilds = @ + 1]
      BY <1>1 DEF RebuildStart
    <3>3. used \in [rebuilds : 0..MaxRebuilds, troubles : 0..MaxTroubles]
      BY DEF TypeOK
    <3>4. used.rebuilds + 1 \in 0..MaxRebuilds BY <3>1, <3>2, <3>3
    <3>5. QED BY <3>2, <3>3, <3>4
  <2>3. QED BY <1>1, <2>1, <2>2 DEF RebuildStart, TypeOK, Collection
<1>2. CASE RebuildRead
  <2>1. Aggregated(rebuild.period) \subseteq Entry /\ Pending \subseteq Entry
    BY DEF Aggregated, Pending
  <2>2. rebuild' \in R
    <3>1. rebuild' = Still
          \/ rebuild' = [rebuild EXCEPT !.step = "deleting",
                           !.counted = Aggregated(rebuild.period),
                           !.disturbed = worker.step = "write"]
      BY <1>2 DEF RebuildRead
    <3>2. rebuild \in R BY DEF TypeOK
    <3>3. QED BY <1>0, <2>1, <3>1, <3>2
  <2>a. drift' = drift \/ drift' = [drift EXCEPT ![rebuild.period] = Pending]
    BY <1>2 DEF RebuildRead
  <2>b. drift' \in [Period -> SUBSET Entry] BY <2>1, <2>a DEF TypeOK
  <2>3. name' \in Collection
    BY <1>2 DEF RebuildRead, TypeOK, Collection
  <2>4. QED BY <1>2, <2>2, <2>b, <2>3 DEF RebuildRead, TypeOK
<1>3. CASE RebuildDelete
  <2>1. <<>> \in Seq(Master) BY EmptySeq
  <2>2. QED BY <1>3, <2>1 DEF RebuildDelete, TypeOK, Collection
<1>4. CASE RebuildInsert
  <2>1. Rebuilt(rebuild.counted) \in Master BY DEF Rebuilt, Master
  <2>2. stored.masters[rebuild.period] \in Seq(Master)
    BY DEF TypeOK, Collection
  <2>3. Append(stored.masters[rebuild.period], Rebuilt(rebuild.counted))
          \in Seq(Master)
    BY <2>1, <2>2, SequenceFacts
  <2>4. stored' \in [Collection -> [Period -> Seq(Master)]]
    BY <1>4, <2>3 DEF RebuildInsert, TypeOK, Collection
  <2>5. drift' \in [Period -> SUBSET Entry]
    BY <1>4 DEF RebuildInsert, Spoil, TypeOK
  <2>6. QED BY <1>0, <1>4, <2>4, <2>5 DEF RebuildInsert, TypeOK
<1>5. CASE RebuildFails
  <2>1. rebuild' \in R BY <1>0, <1>5 DEF RebuildFails, TypeOK
  <2>a. drift' = drift \/ drift' = [drift EXCEPT ![rebuild.period] = Entry]
    BY <1>5 DEF RebuildFails, Spoil
  <2>b. drift' \in [Period -> SUBSET Entry] BY <2>a DEF TypeOK
  <2>2. name' \in Collection
    BY <1>5 DEF RebuildFails, TypeOK, Collection
  <2>3. QED BY <1>5, <2>1, <2>b, <2>2, TroubleType DEF RebuildFails, TypeOK
<1>6. CASE FetchAvailableAccounts
  BY <1>6 DEF FetchAvailableAccounts, TypeOK, Collection
<1>7. QED BY <1>1, <1>2, <1>3, <1>4, <1>5, <1>6 DEF RebuildStep

LEMMA TypeNext == ASSUME TypeOK, [Next]_vars PROVE TypeOK'
<1>1. CASE Tick
  <2>1. clock' \in Period
    BY <1>1, PeriodAssumption DEF Tick, TypeOK, Period
  <2>2. QED BY <1>1, <2>1 DEF Tick, TypeOK
<1>2. CASE UNCHANGED vars BY <1>2 DEF vars, TypeOK
<1>3. QED BY <1>1, <1>2, TypeRecord, TypeJob, TypeRebuild DEF Next

(* Every variable keeps its type, and a job that is written has its place  *)
(* at the head of the queue.                                               *)
THEOREM TypeCorrect == Spec => []TypeOK
<1>1. TypeOK /\ [Next]_vars => TypeOK' BY TypeNext
<1>2. QED BY <1>1, TypeInit, PTL DEF Spec
-----------------------------------------------------------------------------
(* One master: what every step that writes masters does to their number.   *)
LEMMA MastersAreSequences ==
  ASSUME TypeOK, NEW p \in Period
  PROVE  stored.masters[p] \in Seq(Master) /\ Len(stored.masters[p]) \in Nat
<1>1. stored.masters[p] \in Seq(Master) BY DEF TypeOK, Collection
<1>2. QED BY <1>1, LenProperties

LEMMA SingleInit == Init => Single
<1> SUFFICES ASSUME Init PROVE Single OBVIOUS
<1>1. \A p \in Period : stored.masters[p] = <<>>
  BY DEF Init, Collection
<1>2. OneMaster BY <1>1, EmptySeq DEF OneMaster
<1>3. Emptied BY DEF Init, Emptied, Still
<1>4. QED BY <1>2, <1>3, TypeInit DEF Single

LEMMA SingleKept ==
  ASSUME Single, stored'.masters = stored.masters, crossed' = crossed,
         rebuild'.step = "inserting" => rebuild' = rebuild
  PROVE  OneMaster' /\ Emptied'
<1>1. OneMaster' BY DEF Single, OneMaster
<1>2. Emptied' BY DEF Single, Emptied
<1>3. QED BY <1>1, <1>2

LEMMA SingleJob ==
  ASSUME Single, worker.step = "write", Crossing(worker.period),
         \/ stored' = stored
         \/ stored' = Upserted(worker.period, Updated(worker.doc, Head(jobs)))
  PROVE  OneMaster' /\ Emptied'
<1> USE DEF Single
<1> DEFINE p == worker.period
<1>1. /\ \A q \in Period : q # p => stored'.masters[q] = stored.masters[q]
      /\ \/ stored'.masters[p] = stored.masters[p]
         \/ Len(stored'.masters[p]) = 1
         \/ Len(stored'.masters[p]) = Len(stored.masters[p])
  BY UpsertedFacts
<1>2. /\ crossed \subseteq crossed'
      /\ Rebuilding(p) => p \in crossed'
      /\ rebuild'.step = rebuild.step /\ rebuild'.period = rebuild.period
  BY DEF Crossing, TypeOK
<1>3. p \in Period BY DEF TypeOK
<1>4. ASSUME NEW q \in Period, Len(stored'.masters[q]) > 1
      PROVE  q \in crossed'
  <2>1. Len(stored.masters[q]) > 1
    <3>1. stored'.masters[q] = stored.masters[q]
          \/ Len(stored'.masters[q]) = 1
          \/ Len(stored'.masters[q]) = Len(stored.masters[q])
      BY <1>1
    <3> DEFINE old == stored.masters[q]
               new == stored'.masters[q]
    <3>2. new = old \/ Len(new) = 1 \/ Len(new) = Len(old) BY <3>1
    <3>3. Len(new) > 1 BY <1>4
    <3>4. Len(old) \in Nat BY MastersAreSequences
    <3> HIDE DEF old, new
    <3>5. CASE new = old BY <3>3, <3>5 DEF old
    <3>6. CASE Len(new) = 1 BY <3>3, <3>6
    <3>7. CASE Len(new) = Len(old) BY <3>3, <3>7 DEF old
    <3>8. QED BY <3>2, <3>5, <3>6, <3>7
  <2>2. QED BY <1>2, <2>1 DEF OneMaster
<1>5. Emptied'
  <2>1. SUFFICES ASSUME rebuild.step = "inserting"
                 PROVE  \/ stored'.masters[rebuild.period] = <<>>
                        \/ rebuild.period \in crossed'
    BY <1>2 DEF Emptied
  <2>2. CASE rebuild.period = p BY <1>2, <2>1, <2>2 DEF Rebuilding
  <2>3. CASE rebuild.period # p
    BY <1>1, <1>2, <2>1, <2>3 DEF Emptied, TypeOK
  <2>4. QED BY <2>2, <2>3
<1>6. QED BY <1>4, <1>5 DEF OneMaster

LEMMA SingleNext == ASSUME Single, [Next]_vars PROVE Single'
<1> USE DEF Single
<1>0. TypeOK' BY TypeNext
<1>1. CASE JobWrite \/ JobTwice
  BY <1>0, <1>1, SingleJob DEF JobWrite, JobTwice
<1>2. CASE RebuildDelete
  <2>1. /\ rebuild.period \in Period /\ rebuild'.period = rebuild.period
        /\ crossed' = crossed
        /\ stored'.masters[rebuild.period] = <<>>
        /\ \A q \in Period : q # rebuild.period =>
             stored'.masters[q] = stored.masters[q]
    BY <1>2 DEF RebuildDelete, TypeOK, Collection
  <2>2. OneMaster' BY <2>1, EmptySeq DEF OneMaster
  <2>3. Emptied' BY <2>1 DEF Emptied
  <2>4. QED BY <1>0, <2>2, <2>3
<1>3. CASE RebuildInsert
  <2> DEFINE p == rebuild.period
             d == Rebuilt(rebuild.counted)
  <2>1. /\ p \in Period /\ rebuild.step = "inserting" /\ crossed' = crossed
        /\ rebuild'.step = "idle"
        /\ stored'.masters[p] = Append(stored.masters[p], d)
        /\ \A q \in Period : q # p => stored'.masters[q] = stored.masters[q]
    BY <1>3 DEF RebuildInsert, TypeOK, Collection, Still
  <2>2. d \in Master BY DEF Rebuilt, Master
  <2> HIDE DEF d
  <2>3. Len(stored'.masters[p]) = Len(stored.masters[p]) + 1
    BY <2>1, <2>2, MastersAreSequences, AppendProperties
  <2>4. stored.masters[p] = <<>> => Len(stored.masters[p]) = 0 BY EmptySeq
  <2>5. Len(stored'.masters[p]) > 1 => p \in crossed
    BY <2>1, <2>3, <2>4 DEF Emptied
  <2>6. OneMaster' BY <2>1, <2>5 DEF OneMaster
  <2>7. Emptied' BY <2>1 DEF Emptied
  <2>8. QED BY <1>0, <2>6, <2>7
<1>4. CASE \/ RecordStep \/ Tick \/ JobRead \/ JobFails
           \/ FetchAvailableAccounts \/ UNCHANGED vars
  <2>1. stored' = stored /\ crossed' = crossed /\ rebuild' = rebuild
    BY <1>4 DEF RecordStep, Store, Post, Cancel, Void, Tick, JobRead, JobFails,
       FetchAvailableAccounts, vars
  <2>2. QED BY <1>0, <2>1, SingleKept
<1>5. CASE \/ RebuildRead \/ RebuildFails \/ \E p \in Period : RebuildStart(p)
  <2>1. stored' = stored /\ crossed' = crossed
    BY <1>5 DEF RebuildRead, RebuildFails, RebuildStart
  <2>2. rebuild'.step # "inserting"
    <3>1. Still.step = "idle"
          /\ [Still EXCEPT !.step = "reading", !.period = rebuild.period].step
               = "reading"
      BY DEF Still
    <3>2. CASE RebuildFails BY <3>1, <3>2 DEF RebuildFails
    <3>3. CASE RebuildRead BY <3>1, <3>3 DEF RebuildRead, TypeOK
    <3>4. ASSUME NEW p \in Period, RebuildStart(p)
          PROVE  rebuild'.step # "inserting"
      BY <3>4 DEF RebuildStart, Still
    <3>5. QED BY <1>5, <3>2, <3>3, <3>4
  <2>3. QED BY <1>0, <2>1, <2>2, SingleKept
<1>6. QED BY <1>1, <1>2, <1>3, <1>4, <1>5 DEF Next, JobStep, RebuildStep

(* A month has one master of the account, unless a job wrote it between    *)
(* the delete and the insert of a rebuild.                                 *)
THEOREM OneMasterHolds == Spec => []OneMaster
<1>1. Single /\ [Next]_vars => Single' BY SingleNext
<1>2. Single => OneMaster BY DEF Single
<1>3. QED BY <1>1, <1>2, SingleInit, PTL DEF Spec
-----------------------------------------------------------------------------
(***************************************************************************)
(* MastersFollow.  Of an entry that no anomaly touched in a month, the     *)
(* month's master and the queued jobs together say what the records say.   *)
(***************************************************************************)
JobOf(e, sign) == [entry |-> e, sign |-> sign]

InQueue(js, e, sign) == \E n \in DOMAIN js : js[n] = JobOf(e, sign)

(* What the queued jobs of an entry will still add.                        *)
Net(js, e) == (IF InQueue(js, e, 1) THEN 1 ELSE 0)
              - (IF InQueue(js, e, -1) THEN 1 ELSE 0)

(* What the master of the month has of the entry.                          *)
Due(js, status, p, e) ==
  IF PeriodOf[e] = p
  THEN (IF status = "realized" THEN 1 ELSE 0) - Net(js, e) ELSE 0

First(docs) == IF docs = <<>> THEN Blank ELSE Head(docs)

(* A job is queued once: its record was posted, or reversed, once.         *)
Once(js) == \A m, n \in DOMAIN js : js[m] = js[n] => m = n

Ordered ==
  /\ Once(jobs)
  /\ \A n \in DOMAIN jobs :
       /\ entry[jobs[n].entry] \in {"realized", "reversed", "void"}
       /\ jobs[n].sign = -1 => entry[jobs[n].entry] # "realized"

(* A month that is not being rebuilt.                                      *)
Settled(p) ==
  /\ Len(stored.masters[p]) > 1 => drift[p] = Entry
  /\ \A e \in Entry \ drift[p] :
       First(stored.masters[p])[e] = Due(jobs, entry[e], p, e)

(* A month that is, and that no job has crossed.                           *)
Counting(p) ==
  /\ rebuild.step = "inserting" => stored.masters[p] = <<>>
  /\ \A e \in Entry \ drift[p] :
       Rebuilt(rebuild.counted)[e] = Due(jobs, entry[e], p, e)

InOrder(p) ==
  /\ ~Rebuilding(p) => Settled(p)
  /\ Rebuilding(p) /\ ~rebuild.disturbed => Counting(p)

(* What the job read is still so.                                          *)
Current ==
  LET p == worker.period IN
  worker.step = "write" /\ worker.from = "masters" /\ ~Rebuilding(p)
    /\ drift[p] # Entry
  => worker.doc = First(stored.masters[p])

Follow ==
  /\ TypeOK
  /\ Ordered
  /\ \A p \in Period : InOrder(p)
  /\ Current
-----------------------------------------------------------------------------
(* The queue.                                                              *)
LEMMA AppendQueue ==
  ASSUME NEW js \in Seq(Job), NEW x \in Entry, NEW s \in {1, -1},
         Once(js), ~InQueue(js, x, s)
  PROVE  LET new == Append(js, JobOf(x, s)) IN
         /\ Once(new)
         /\ \A n \in DOMAIN new : new[n] = JobOf(x, s)
                                  \/ (n \in DOMAIN js /\ new[n] = js[n])
         /\ \A e \in Entry :
              Net(new, e) = Net(js, e) + (IF e = x THEN s ELSE 0)
<1> DEFINE job == JobOf(x, s)
           new == Append(js, job)
           l   == Len(js)
<1>1. job \in Job /\ job.entry = x /\ job.sign = s BY DEF JobOf, Job
<1>2. l \in Nat /\ DOMAIN js = 1..l BY LenProperties
<1>3. /\ DOMAIN new = 1..(l + 1) /\ new[l + 1] = job
      /\ \A n \in 1..l : new[n] = js[n]
  <2> HIDE DEF job
  <2>1. /\ new \in Seq(Job) /\ Len(new) = l + 1 /\ new[l + 1] = job
        /\ \A n \in 1..l : new[n] = js[n]
    BY <1>1, AppendProperties
  <2>2. DOMAIN new = 1..Len(new) BY <2>1, LenProperties
  <2>3. QED BY <2>1, <2>2
<1>4. \A n \in 1..l : js[n] # job BY <1>2 DEF InQueue
<1> HIDE DEF new, l
<1>5. Once(new)
  <2> SUFFICES ASSUME NEW m \in DOMAIN new, NEW n \in DOMAIN new,
                      new[m] = new[n]
               PROVE  m = n
    BY DEF Once
  <2> HIDE DEF job
  <2>1. CASE m \in 1..l /\ n \in 1..l BY <1>2, <1>3, <2>1 DEF Once
  <2>2. CASE m = l + 1 \/ n = l + 1 BY <1>2, <1>3, <1>4, <2>2
  <2>3. QED BY <1>2, <1>3, <2>1, <2>2
<1>6. \A n \in DOMAIN new : new[n] = job \/ (n \in DOMAIN js /\ new[n] = js[n])
  BY <1>2, <1>3
<1>7. ASSUME NEW e \in Entry, NEW t \in {1, -1}
      PROVE  InQueue(new, e, t) <=> InQueue(js, e, t) \/ (e = x /\ t = s)
  <2>1. JobOf(e, t) = job <=> e = x /\ t = s BY DEF JobOf
  <2> HIDE DEF job
  <2>2. ASSUME InQueue(new, e, t) PROVE InQueue(js, e, t) \/ (e = x /\ t = s)
    BY <1>6, <2>1, <2>2 DEF InQueue
  <2>3. ASSUME InQueue(js, e, t) PROVE InQueue(new, e, t)
    <3>1. PICK n \in DOMAIN js : js[n] = JobOf(e, t) BY <2>3 DEF InQueue
    <3>2. n \in DOMAIN new /\ new[n] = js[n] BY <1>2, <1>3
    <3>3. QED BY <3>1, <3>2 DEF InQueue
  <2>4. ASSUME e = x, t = s PROVE InQueue(new, e, t)
    <3>1. l + 1 \in DOMAIN new BY <1>2, <1>3
    <3>2. QED BY <1>3, <2>1, <2>4, <3>1 DEF InQueue
  <2>5. QED BY <2>2, <2>3, <2>4
<1>8. ASSUME NEW e \in Entry
      PROVE  Net(new, e) = Net(js, e) + (IF e = x THEN s ELSE 0)
  <2>1. /\ InQueue(new, e, 1) <=> InQueue(js, e, 1) \/ (e = x /\ s = 1)
        /\ InQueue(new, e, -1) <=> InQueue(js, e, -1) \/ (e = x /\ s = -1)
    BY <1>7
  <2>2. ~(e = x /\ s = 1 /\ InQueue(js, e, 1))
        /\ ~(e = x /\ s = -1 /\ InQueue(js, e, -1))
    OBVIOUS
  <2>3. QED BY <2>1, <2>2 DEF Net
<1>9. QED BY <1>5, <1>6, <1>8 DEF new

LEMMA TailQueue ==
  ASSUME NEW js \in Seq(Job), js # <<>>, Once(js)
  PROVE  LET job == Head(js)  new == Tail(js) IN
         /\ Once(new)
         /\ \A n \in DOMAIN new : \E m \in DOMAIN js : new[n] = js[m]
         /\ \A e \in Entry :
              Net(new, e) = Net(js, e) - (IF e = job.entry THEN job.sign ELSE 0)
<1> DEFINE job == Head(js)
           new == Tail(js)
           l   == Len(js)
<1>1. l \in Nat \ {0} /\ DOMAIN js = 1..l
  BY LenProperties, EmptySeq
<1>2. /\ DOMAIN new = 1..(l - 1) /\ job = js[1] /\ job \in Job
      /\ \A n \in 1..(l - 1) : new[n] = js[n + 1]
  <2>1. /\ new \in Seq(Job) /\ Len(new) = l - 1 /\ job \in Job
        /\ \A n \in 1..Len(new) : new[n] = js[n + 1]
    BY HeadTailProperties
  <2>2. DOMAIN new = 1..Len(new) BY <2>1, LenProperties
  <2>3. job = js[1] OBVIOUS
  <2>4. QED BY <2>1, <2>2, <2>3
<1> HIDE DEF job, new, l
<1>3. ASSUME NEW n \in DOMAIN new PROVE n + 1 \in DOMAIN js /\ new[n] = js[n + 1]
  BY <1>1, <1>2
<1>4. Once(new)
  <2> SUFFICES ASSUME NEW m \in DOMAIN new, NEW n \in DOMAIN new,
                      new[m] = new[n]
               PROVE  m = n
    BY DEF Once
  <2>1. m + 1 = n + 1 BY <1>3 DEF Once
  <2>2. QED BY <1>1, <1>2, <2>1
<1>5. \A n \in DOMAIN new : \E m \in DOMAIN js : new[n] = js[m] BY <1>3
<1>6. job = JobOf(job.entry, job.sign) /\ job.sign \in {1, -1}
  BY <1>2 DEF Job, JobOf
<1>7. ASSUME NEW e \in Entry, NEW t \in {1, -1}
      PROVE  InQueue(js, e, t) <=>
               InQueue(new, e, t) \/ (e = job.entry /\ t = job.sign)
  <2>1. JobOf(e, t) = job <=> e = job.entry /\ t = job.sign BY <1>6 DEF JobOf
  <2>2. ASSUME InQueue(new, e, t) PROVE InQueue(js, e, t)
    BY <1>5, <2>2 DEF InQueue
  <2>3. ASSUME InQueue(js, e, t)
        PROVE  InQueue(new, e, t) \/ (e = job.entry /\ t = job.sign)
    <3>1. PICK n \in DOMAIN js : js[n] = JobOf(e, t) BY <2>3 DEF InQueue
    <3>2. CASE n = 1 BY <1>2, <2>1, <3>1, <3>2
    <3>3. CASE n # 1
      <4>1. n - 1 \in DOMAIN new /\ new[n - 1] = js[n]
        <5>1. n - 1 \in 1..(l - 1) /\ (n - 1) + 1 = n BY <1>1, <3>3
        <5>2. QED BY <1>2, <5>1
      <4>2. QED BY <3>1, <4>1 DEF InQueue
    <3>4. QED BY <3>2, <3>3
  <2>4. 1 \in DOMAIN js BY <1>1
  <2>5. QED BY <1>2, <2>1, <2>2, <2>3, <2>4 DEF InQueue
<1>8. ~InQueue(new, job.entry, job.sign)
  <2> SUFFICES ASSUME NEW n \in DOMAIN new, new[n] = job PROVE FALSE
    BY <1>6 DEF InQueue
  <2>1. n + 1 = 1 BY <1>1, <1>2, <1>3 DEF Once
  <2>2. QED BY <1>1, <1>2, <2>1
<1>9. ASSUME NEW e \in Entry
      PROVE  Net(new, e) = Net(js, e) - (IF e = job.entry THEN job.sign ELSE 0)
  <2>1. /\ InQueue(js, e, 1) <=> InQueue(new, e, 1) \/ (e = job.entry /\ job.sign = 1)
        /\ InQueue(js, e, -1) <=>
             InQueue(new, e, -1) \/ (e = job.entry /\ job.sign = -1)
    BY <1>7
  <2>2. /\ ~(e = job.entry /\ job.sign = 1 /\ InQueue(new, e, 1))
        /\ ~(e = job.entry /\ job.sign = -1 /\ InQueue(new, e, -1))
    BY <1>8
  <2>3. QED BY <1>6, <2>1, <2>2 DEF Net
<1>10. QED BY <1>4, <1>5, <1>9 DEF new, job

LEMMA NoJob ==
  ASSUME TypeOK, NEW e \in Entry, ~Queued(e)
  PROVE  Net(jobs, e) = 0 /\ ~InQueue(jobs, e, 1) /\ ~InQueue(jobs, e, -1)
<1>1. ~InQueue(jobs, e, 1) /\ ~InQueue(jobs, e, -1)
  BY DEF Queued, InQueue, JobOf
<1>2. QED BY <1>1 DEF Net
-----------------------------------------------------------------------------
(* What a step leaves in order.  An entry's due is the same when it is     *)
(* dated elsewhere, or when its status and its jobs are.                   *)
SameDue(p) ==
  /\ drift[p] \subseteq drift'[p]
  /\ \A e \in Entry \ drift'[p] :
       Due(jobs', entry'[e], p, e) = Due(jobs, entry[e], p, e)

SameRebuild(p) ==
  /\ Rebuilding(p)' <=> Rebuilding(p)
  /\ Rebuilding(p) => /\ rebuild'.step = rebuild.step
                      /\ rebuild'.counted = rebuild.counted
                      /\ rebuild.disturbed => rebuild'.disturbed

LEMMA JobAt ==
  ASSUME TypeOK, NEW n \in DOMAIN jobs
  PROVE  jobs[n] \in Job /\ jobs[n].entry \in Entry
<1>1. jobs \in Seq(Job) BY DEF TypeOK
<1>2. jobs[n] \in Job BY <1>1, LenProperties, ElementOfSeq
<1>3. QED BY <1>2 DEF Job

LEMMA InOrderKept ==
  ASSUME TypeOK, NEW p \in Period, InOrder(p), SameDue(p), SameRebuild(p),
         stored'.masters[p] = stored.masters[p], drift'[p] \subseteq Entry,
         rebuild'.disturbed \in BOOLEAN
  PROVE  InOrder(p)'
<1> DEFINE m == stored.masters[p]
<1>1. \A e \in Entry \ drift'[p] : e \in Entry \ drift[p] BY DEF SameDue
<1>2. CASE ~Rebuilding(p)
  <2>1. Settled(p) BY <1>2 DEF InOrder
  <2>2. Len(m) > 1 => drift'[p] = Entry BY <2>1 DEF Settled, SameDue
  <2>3. \A e \in Entry \ drift'[p] : First(m)[e] = Due(jobs', entry'[e], p, e)
    BY <1>1, <2>1 DEF Settled, SameDue
  <2>4. Settled(p)'
    <3> HIDE DEF m
    <3>1. stored'.masters[p] = m BY DEF m
    <3>2. QED BY <2>2, <2>3, <3>1 DEF Settled
  <2>5. QED BY <1>2, <2>4 DEF InOrder, SameRebuild
<1>3. CASE Rebuilding(p)
  <2> SUFFICES ASSUME ~rebuild'.disturbed PROVE Counting(p)'
    BY <1>3 DEF InOrder, SameRebuild
  <2>1. Counting(p) BY <1>3 DEF InOrder, SameRebuild, TypeOK
  <2>2. \A e \in Entry \ drift'[p] :
          Rebuilt(rebuild.counted)[e] = Due(jobs', entry'[e], p, e)
    BY <1>1, <2>1 DEF Counting, SameDue
  <2>3. rebuild'.counted = rebuild.counted /\ rebuild'.step = rebuild.step
    BY <1>3 DEF SameRebuild
  <2>4. rebuild'.step = "inserting" => stored'.masters[p] = <<>>
    BY <2>1, <2>3 DEF Counting
  <2>5. QED BY <2>2, <2>3, <2>4 DEF Counting, Rebuilt
<1>4. QED BY <1>2, <1>3

LEMMA FollowInit == Init => Follow
<1> SUFFICES ASSUME Init PROVE Follow OBVIOUS
<1>1. TypeOK BY TypeInit
<1>2. jobs = <<>> /\ DOMAIN jobs = {} BY EmptySeq DEF Init
<1>3. Ordered BY <1>2 DEF Ordered, Once
<1>4. ASSUME NEW p \in Period PROVE InOrder(p)
  <2>1. stored.masters[p] = <<>> BY DEF Init, Collection
  <2>2. \A e \in Entry : Net(jobs, e) = 0 BY <1>2 DEF Net, InQueue
  <2>3. \A e \in Entry : Due(jobs, entry[e], p, e) = 0
    BY <2>2 DEF Due, Init
  <2>4. First(stored.masters[p]) = Blank BY <2>1 DEF First
  <2>5. Len(stored.masters[p]) = 0 BY <2>1, EmptySeq
  <2>6. Settled(p) BY <2>3, <2>4, <2>5 DEF Settled, Blank
  <2>7. ~Rebuilding(p) BY DEF Init, Rebuilding, Still
  <2>8. QED BY <2>6, <2>7 DEF InOrder
<1>5. Current BY DEF Init, Current, Reading
<1>6. QED BY <1>1, <1>3, <1>4, <1>5 DEF Follow

(* Neither the clock nor the name of the collection matter, nor reading.   *)
LEMMA FollowFrame ==
  ASSUME Follow, UNCHANGED <<entry, jobs, stored, rebuild, drift>>
  PROVE  Ordered' /\ \A p \in Period : InOrder(p)'
<1>1. Ordered' BY DEF Follow, Ordered, Once
<1>2. ASSUME NEW p \in Period PROVE InOrder(p)'
  <2>1. SameDue(p) BY DEF SameDue
  <2>2. SameRebuild(p) BY DEF SameRebuild, Rebuilding
  <2>3. QED BY <2>1, <2>2, InOrderKept DEF Follow, TypeOK
<1>3. QED BY <1>1, <1>2

LEMMA FollowRead ==
  ASSUME Follow, Tick \/ FetchAvailableAccounts \/ JobRead \/ UNCHANGED vars
  PROVE  Ordered' /\ (\A p \in Period : InOrder(p)') /\ Current'
<1>1. UNCHANGED <<entry, jobs, stored, rebuild, drift>>
  BY DEF Tick, FetchAvailableAccounts, JobRead, vars
<1>0. TypeOK /\ Current BY DEF Follow
<1>2. ASSUME worker' = worker PROVE Current'
  <2>1. Rebuilding(worker.period)' <=> Rebuilding(worker.period)
    BY <1>1, <1>2 DEF Rebuilding
  <2>2. First(stored'.masters[worker.period])
          = First(stored.masters[worker.period])
    BY <1>1
  <2>3. QED BY <1>0, <1>1, <1>2, <2>1, <2>2 DEF Current
<1>3. CASE JobRead
  <2>1. /\ worker'.doc = One(clock) /\ worker'.from = name
        /\ worker'.period = clock
    BY <1>3 DEF JobRead, Identifier
  <2>2. name = "masters" => One(clock) = First(stored.masters[clock])
    BY DEF One, First
  <2>3. worker'.from = "masters" =>
          worker'.doc = First(stored'.masters[worker'.period])
    BY <1>1, <2>1, <2>2
  <2>4. Current' BY <2>3 DEF Current
  <2>5. QED BY <1>1, <2>4, FollowFrame
<1>4. QED BY <1>1, <1>2, <1>3, FollowFrame
         DEF Tick, FetchAvailableAccounts, vars

(* A record that is posted or cancelled is due as before, with its job; and*)
(* drifts without.                                                         *)
LEMMA FollowEnqueue ==
  ASSUME Follow, NEW x \in Entry, NEW s \in {1, -1}, Enqueue(x, s),
         NEW status \in {"realized", "reversed"},
         entry' = [entry EXCEPT ![x] = status],
         UNCHANGED <<stored, rebuild, worker>>,
         ~InQueue(jobs, x, s),
         \/ s = 1 /\ entry[x] = "stored" /\ status = "realized"
         \/ s = -1 /\ entry[x] = "realized" /\ status = "reversed"
  PROVE  Ordered' /\ (\A p \in Period : InOrder(p)') /\ Current'
<1>1. /\ TypeOK /\ Ordered /\ Current
      /\ entry \in [Entry -> EntryStatus] /\ jobs \in Seq(Job)
      /\ drift \in [Period -> SUBSET Entry]
  BY DEF Follow, TypeOK
<1>2. entry'[x] = status /\ \A e \in Entry \ {x} : entry'[e] = entry[e]
  BY <1>1
<1>3. \A n \in DOMAIN jobs : jobs[n] \in Job /\ jobs[n].entry \in Entry
  BY <1>1, JobAt
<1>4. ASSUME NEW n \in DOMAIN jobs
      PROVE  /\ entry'[jobs[n].entry] \in {"realized", "reversed", "void"}
             /\ jobs[n].sign = -1 => entry'[jobs[n].entry] # "realized"
  <2>1. /\ entry[jobs[n].entry] \in {"realized", "reversed", "void"}
        /\ jobs[n].sign = -1 => entry[jobs[n].entry] # "realized"
    BY <1>1 DEF Ordered
  <2>2. CASE jobs[n].entry = x BY <1>2, <2>1, <2>2
  <2>3. CASE jobs[n].entry # x BY <1>2, <1>3, <2>1, <2>3
  <2>4. QED BY <2>2, <2>3
<1>5. CASE jobs' = Append(jobs, JobOf(x, s)) /\ UNCHANGED drift
  <2>1. /\ Once(jobs')
        /\ \A n \in DOMAIN jobs' : jobs'[n] = JobOf(x, s)
                                   \/ (n \in DOMAIN jobs /\ jobs'[n] = jobs[n])
        /\ \A e \in Entry :
             Net(jobs', e) = Net(jobs, e) + (IF e = x THEN s ELSE 0)
    BY <1>1, <1>5, AppendQueue DEF Ordered
  <2>2. JobOf(x, s).entry = x /\ JobOf(x, s).sign = s BY DEF JobOf
  <2>3. Ordered' BY <1>2, <1>4, <2>1, <2>2 DEF Ordered
  <2>4. ASSUME NEW p \in Period, NEW e \in Entry
        PROVE  Due(jobs', entry'[e], p, e) = Due(jobs, entry[e], p, e)
    <3>1. Net(jobs', e) = Net(jobs, e) + (IF e = x THEN s ELSE 0) BY <2>1
    <3>2. Net(jobs, e) \in Int BY DEF Net
    <3>3. CASE e = x BY <1>2, <3>1, <3>2, <3>3 DEF Due
    <3>4. CASE e # x BY <1>2, <3>1, <3>2, <3>4 DEF Due
    <3>5. QED BY <3>3, <3>4
  <2>5. \A p \in Period : SameDue(p) BY <1>5, <2>4 DEF SameDue
  <2>6. QED BY <1>5, <2>3, <2>5, <1>1, InOrderKept
            DEF SameRebuild, Rebuilding, Follow, Current, TypeOK
<1>6. CASE Drift(x) /\ UNCHANGED jobs
  <2>1. Ordered' BY <1>1, <1>4, <1>6 DEF Ordered, Once
  <2>2. \A p \in Period : drift'[p] = drift[p] \union {x}
    BY <1>6 DEF Drift
  <2>3. \A p \in Period : SameDue(p) BY <1>2, <1>6, <2>2 DEF SameDue
  <2>4. \A p \in Period : drift'[p] \subseteq Entry BY <1>1, <2>2
  <2>5. \A p \in Period : InOrder(p)'
    BY <1>1, <2>3, <2>4, InOrderKept DEF SameRebuild, Rebuilding, Follow, TypeOK
  <2>6. Current'
    <3>1. worker.period \in Period BY <1>1 DEF TypeOK
    <3>2. drift'[worker.period] # Entry => drift[worker.period] # Entry
      <4>1. /\ drift'[worker.period] = drift[worker.period] \union {x}
            /\ x \in Entry
        BY <2>2, <3>1
      <4>2. QED BY <4>1
    <3>3. QED BY <1>1, <3>2 DEF Current, Rebuilding
  <2>7. QED BY <2>1, <2>5, <2>6
<1>7. QED BY <1>5, <1>6 DEF Enqueue, JobOf

LEMMA FollowRecord ==
  ASSUME Follow, RecordStep
  PROVE  Ordered' /\ (\A p \in Period : InOrder(p)') /\ Current'
<1>1. /\ TypeOK /\ Ordered /\ Current
      /\ entry \in [Entry -> EntryStatus]
  BY DEF Follow, TypeOK
<1>2. ASSUME NEW x \in Entry, NEW s \in {1, -1}, InQueue(jobs, x, s)
      PROVE  /\ entry[x] \in {"realized", "reversed", "void"}
             /\ s = -1 => entry[x] # "realized"
  BY <1>1, <1>2 DEF InQueue, JobOf, Ordered
<1>3. ASSUME NEW x \in Entry, Post(x) PROVE
        Ordered' /\ (\A p \in Period : InOrder(p)') /\ Current'
  <2>1. ~InQueue(jobs, x, 1) BY <1>2, <1>3 DEF Post
  <2>2. QED BY <1>3, <2>1, FollowEnqueue DEF Post
<1>4. ASSUME NEW x \in Entry, Cancel(x) PROVE
        Ordered' /\ (\A p \in Period : InOrder(p)') /\ Current'
  <2>1. ~InQueue(jobs, x, -1) BY <1>2, <1>4 DEF Cancel
  <2>2. QED BY <1>4, <2>1, FollowEnqueue DEF Cancel
<1>5. ASSUME NEW x \in Entry, Store(x) \/ Void(x) PROVE
        Ordered' /\ (\A p \in Period : InOrder(p)') /\ Current'
  <2>1. UNCHANGED <<jobs, worker, rebuild, stored, drift>>
    BY <1>5 DEF Store, Void
  <2>2. \A e \in Entry : /\ entry'[e] = "realized" <=> entry[e] = "realized"
                         /\ entry'[e] = entry[e]
                            \/ (entry[e] = "none" /\ entry'[e] = "stored")
                            \/ entry'[e] = "void"
    BY <1>1, <1>5 DEF Store, Void
  <2>3. \A n \in DOMAIN jobs : jobs[n].entry \in Entry
    BY <1>1, JobAt
  <2>4. Ordered'
    <3> SUFFICES ASSUME NEW n \in DOMAIN jobs
                 PROVE  /\ entry'[jobs[n].entry] \in {"realized", "reversed", "void"}
                        /\ jobs[n].sign = -1 => entry'[jobs[n].entry] # "realized"
      BY <1>1, <2>1 DEF Ordered, Once
    <3>1. /\ entry[jobs[n].entry] \in {"realized", "reversed", "void"}
          /\ jobs[n].sign = -1 => entry[jobs[n].entry] # "realized"
      BY <1>1 DEF Ordered
    <3>2. QED BY <2>2, <2>3, <3>1
  <2>5. \A p \in Period : SameDue(p) BY <2>1, <2>2 DEF SameDue, Due
  <2>6. \A p \in Period : InOrder(p)'
    BY <1>1, <2>1, <2>5, InOrderKept DEF SameRebuild, Rebuilding, Follow, TypeOK
  <2>7. Current' BY <1>1, <2>1 DEF Current, Rebuilding
  <2>8. QED BY <2>4, <2>6, <2>7
<1>6. QED BY <1>3, <1>4, <1>5 DEF RecordStep
-----------------------------------------------------------------------------
(* What a balance job writes comes first in its month, if it is written    *)
(* among the masters.                                                      *)
LEMMA UpsertedFirst ==
  ASSUME TypeOK, worker.step = "write", name = "masters"
  PROVE  LET p   == worker.period
             doc == Updated(worker.doc, Head(jobs))
         IN  First(Upserted(p, doc).masters[p]) = doc
<1> DEFINE p   == worker.period
           doc == Updated(worker.doc, Head(jobs))
           old == stored.masters[p]
           value == IF old = <<>> THEN <<doc>> ELSE [old EXCEPT ![1] = doc]
<1>1. p \in Period /\ worker.doc \in Master
      /\ stored \in [Collection -> [Period -> Seq(Master)]]
  BY DEF TypeOK
<1>2. doc \in Master
  <2>1. worker.doc \in [Entry -> Int] BY <1>1 DEF Master
  <2>2. Head(jobs).entry \in Entry /\ Head(jobs).sign \in Int
    BY HeadJob DEF TypeOK
  <2>3. QED BY <2>1, <2>2 DEF Updated, Master
<1>3. old \in Seq(Master) BY <1>1 DEF Collection
<1>4. Upserted(p, doc).masters[p] = value
  <2> HIDE DEF doc
  <2>1. Upserted(p, doc) = [stored EXCEPT !["masters"][p] = value]
    BY DEF Upserted
  <2> HIDE DEF value
  <2>2. QED BY <1>1, <2>1 DEF Collection
<1> HIDE DEF doc
<1>5. CASE old = <<>>
  <2>1. value = <<doc>> /\ value # <<>> BY <1>5
  <2>2. Head(value) = doc BY <2>1
  <2>3. QED BY <1>4, <2>1, <2>2 DEF First, doc
<1>6. CASE old # <<>>
  <2>1. value = [old EXCEPT ![1] = doc] BY <1>6
  <2>2. 1 \in DOMAIN old
    <3>1. Len(old) \in Nat /\ Len(old) # 0 /\ DOMAIN old = 1..Len(old)
      BY <1>3, <1>6, EmptySeq, LenProperties
    <3>2. QED BY <3>1
  <2>3. value[1] = doc BY <2>1, <2>2
  <2>4. value \in Seq(Master) BY <1>2, <1>3, <1>6, <2>1, SequenceFacts
  <2>5. value # <<>>
    <3>1. Len(value) >= 1 BY <1>2, <1>3, <1>6, <2>1, SequenceFacts
    <3> HIDE DEF value
    <3>2. QED BY <3>1, EmptySeq
  <2> HIDE DEF value
  <2>6. Head(value) = doc BY <2>3, <2>4, <2>5
  <2>7. QED BY <1>4, <2>5, <2>6 DEF First, doc
<1>7. QED BY <1>5, <1>6

(* The months that a job does not write, and those it spoils.              *)
LEMMA FollowElsewhere ==
  ASSUME Follow, worker.step = "write", Crossing(worker.period),
         \/ stored' = stored
         \/ stored' = Upserted(worker.period, Updated(worker.doc, Head(jobs))),
         NEW p \in Period, SameDue(p), drift'[p] \subseteq Entry,
         p # worker.period \/ drift'[p] = Entry
  PROVE  InOrder(p)'
<1> DEFINE w == worker.period
<1>1. TypeOK /\ InOrder(p) /\ w \in Period BY DEF Follow, TypeOK
<1>2. /\ rebuild'.step = rebuild.step /\ rebuild'.period = rebuild.period
      /\ rebuild'.counted = rebuild.counted
      /\ rebuild'.disturbed = (rebuild.disturbed \/ Rebuilding(w))
  BY <1>1 DEF Crossing, TypeOK
<1>3. rebuild.disturbed \in BOOLEAN /\ Rebuilding(w) \in BOOLEAN
  BY <1>1 DEF TypeOK, Rebuilding
<1>4. CASE p # w
  <2>1. stored'.masters[p] = stored.masters[p]
    BY <1>1, <1>4, UpsertedFacts
  <2>2. SameRebuild(p) BY <1>2, <1>3 DEF SameRebuild, Rebuilding
  <2>3. QED BY <1>1, <1>2, <1>3, <2>1, <2>2, InOrderKept
<1>5. CASE drift'[p] = Entry /\ p = w
  <2>1. Settled(p)' BY <1>5 DEF Settled
  <2>2. Rebuilding(p)' => rebuild'.disturbed
    BY <1>2, <1>5 DEF Rebuilding
  <2>3. QED BY <2>1, <2>2 DEF InOrder
<1>6. QED BY <1>4, <1>5

LEMMA OrderedTail ==
  ASSUME Follow, jobs # <<>>, jobs' = Tail(jobs), entry' = entry
  PROVE  /\ Ordered'
         /\ \A p \in Period, e \in Entry : e # Head(jobs).entry =>
              Due(jobs', entry'[e], p, e) = Due(jobs, entry[e], p, e)
<1>1. Ordered /\ jobs \in Seq(Job) BY DEF Follow, TypeOK
<1>2. /\ Once(jobs')
      /\ \A n \in DOMAIN jobs' : \E m \in DOMAIN jobs : jobs'[n] = jobs[m]
      /\ \A e \in Entry : Net(jobs', e) = Net(jobs, e)
           - (IF e = Head(jobs).entry THEN Head(jobs).sign ELSE 0)
  BY <1>1, TailQueue DEF Ordered
<1>3. Ordered' BY <1>1, <1>2 DEF Ordered
<1>4. ASSUME NEW p \in Period, NEW e \in Entry, e # Head(jobs).entry
      PROVE  Due(jobs', entry'[e], p, e) = Due(jobs, entry[e], p, e)
  <2>1. Net(jobs, e) \in Int BY DEF Net
  <2>2. Net(jobs', e) = Net(jobs, e) BY <1>2, <1>4, <2>1
  <2>3. QED BY <2>2 DEF Due
<1>5. QED BY <1>3, <1>4

(* A job that reads the masters of its month and writes them adds what it  *)
(* is to add.                                                              *)
LEMMA FollowStraight ==
  ASSUME Follow, JobWrite, NEW p \in Period, p = worker.period, ~Astray(p)
  PROVE  InOrder(p)'
<1> DEFINE job == Head(jobs)
           doc == Updated(worker.doc, job)
<1>1. /\ TypeOK /\ worker.step = "write" /\ jobs # <<>> /\ p \in Period
      /\ Ordered /\ Current /\ InOrder(p)
      /\ jobs' = Tail(jobs) /\ entry' = entry /\ jobs \in Seq(Job)
  BY DEF Follow, TypeOK, JobWrite
<1>2. /\ name = "masters" /\ worker.from = "masters" /\ ~Rebuilding(p)
  BY <1>1 DEF Astray, TypeOK, Collection
<1>3. stored' = Upserted(p, doc)
  BY <1>2 DEF JobWrite, Insertable
<1>4. Settled(p) /\ ~Rebuilding(p)'
  <2>1. rebuild'.step = rebuild.step /\ rebuild'.period = rebuild.period
    BY <1>1 DEF JobWrite, Crossing, TypeOK
  <2>2. QED BY <1>1, <1>2, <2>1 DEF InOrder, Rebuilding
<1>5. /\ drift'[p] = drift[p] \union (IF PeriodOf[job.entry] # p
                                      THEN {job.entry} ELSE {})
      /\ drift[p] \subseteq Entry /\ job.entry \in Entry /\ job.sign \in Int
  <2>1. JobDrift(job.entry, p) /\ ~Astray(p) BY DEF JobWrite
  <2>2. drift[p] \subseteq Entry BY <1>1 DEF TypeOK
  <2> HIDE DEF job
  <2>3. drift'[p] = drift[p] \union {} \union
           (IF PeriodOf[job.entry] # p THEN {job.entry} ELSE {})
    BY <1>1, <2>1 DEF JobDrift
  <2>4. QED BY <1>1, <2>2, <2>3, HeadJob DEF job
<1>6. First(stored'.masters[p]) = doc BY <1>1, <1>2, <1>3, UpsertedFirst
<1>7. Len(stored'.masters[p]) > 1 => drift'[p] = Entry
  <2> DEFINE old == stored.masters[p]
             new == stored'.masters[p]
  <2>1. new = old \/ Len(new) = 1 \/ Len(new) = Len(old)
    BY <1>1, <1>3, UpsertedFacts
  <2>2. Len(old) > 1 => drift[p] = Entry BY <1>4 DEF Settled
  <2>0. Len(old) \in Nat BY <1>1, MastersAreSequences
  <2> HIDE DEF old, new
  <2>3. Len(new) > 1 => Len(old) > 1
    <3>1. CASE new = old BY <3>1
    <3>2. CASE Len(new) = 1 BY <3>2
    <3>3. CASE Len(new) = Len(old) BY <3>3
    <3>4. QED BY <2>1, <3>1, <3>2, <3>3
  <2>4. Len(new) > 1 => drift'[p] = Entry BY <1>5, <2>2, <2>3
  <2>5. QED BY <2>4 DEF new
<1>8. ASSUME NEW e \in Entry \ drift'[p]
      PROVE  doc[e] = Due(jobs', entry'[e], p, e)
  <2>1. e \in Entry /\ e \notin drift[p]
        /\ (e = job.entry => PeriodOf[e] = p)
    BY <1>5
  <2>2. worker.doc = First(stored.masters[p])
    BY <1>1, <1>2, <2>1 DEF Current
  <2>3. worker.doc[e] = Due(jobs, entry[e], p, e)
    BY <1>4, <2>1, <2>2 DEF Settled
  <2>4. worker.doc \in [Entry -> Int] BY <1>1 DEF TypeOK, Master
  <2>5. CASE e # job.entry
    <3>1. doc[e] = worker.doc[e] BY <2>1, <2>4, <2>5 DEF Updated
    <3>2. QED BY <1>1, <2>1, <2>3, <2>5, <3>1, OrderedTail
  <2>6. CASE e = job.entry
    <3>1. doc[e] = worker.doc[e] + job.sign
      BY <2>1, <2>4, <2>6 DEF Updated
    <3>2. Net(jobs', e) = Net(jobs, e) - job.sign
      BY <1>1, <2>1, <2>6, TailQueue DEF Ordered
    <3>3. Net(jobs, e) \in Int BY DEF Net
    <3> HIDE DEF job, doc
    <3>4. QED BY <1>1, <1>5, <2>1, <2>3, <2>6, <3>1, <3>2, <3>3 DEF Due
  <2>7. QED BY <2>5, <2>6
<1>9. Settled(p)'
  <2> HIDE DEF doc
  <2>1. QED BY <1>6, <1>7, <1>8 DEF Settled
<1>10. QED BY <1>4, <1>9 DEF InOrder

LEMMA FollowJob ==
  ASSUME Follow, JobWrite \/ JobTwice \/ JobFails
  PROVE  Ordered' /\ (\A p \in Period : InOrder(p)') /\ Current'
<1> DEFINE w == worker.period
           job == Head(jobs)
<1>1. /\ TypeOK /\ Ordered /\ Current /\ w \in Period
      /\ drift \in [Period -> SUBSET Entry]
      /\ jobs # <<>> /\ job.entry \in Entry
  BY HeadJob DEF Follow, TypeOK, JobWrite, JobTwice, JobFails
<1>2. Current' BY DEF Current, Reading, JobWrite, JobTwice, JobFails
<1>3. CASE JobWrite
  <2>1. /\ worker.step = "write" /\ jobs' = Tail(jobs) /\ entry' = entry
        /\ Crossing(w)
        /\ stored' = stored \/ stored' = Upserted(w, Updated(worker.doc, job))
        /\ drift' = [q \in Period |->
              drift[q] \union (IF Astray(w) /\ q = w THEN Entry ELSE {})
                \union (IF Astray(w) \/ PeriodOf[job.entry] # w
                        THEN {job.entry} ELSE {})]
    BY <1>3 DEF JobWrite, JobDrift
  <2>2. Ordered' BY <1>1, <2>1, OrderedTail
  <2>3. ASSUME NEW p \in Period, p # w \/ Astray(w) PROVE InOrder(p)'
    <3>1. /\ drift'[p] = drift[p]
              \union (IF Astray(w) /\ p = w THEN Entry ELSE {})
              \union (IF Astray(w) \/ PeriodOf[job.entry] # w
                      THEN {job.entry} ELSE {})
          /\ drift[p] \subseteq Entry
      BY <1>1, <2>1
    <3>2. /\ drift[p] \subseteq drift'[p] /\ drift'[p] \subseteq Entry
          /\ p = w => drift'[p] = Entry
          /\ Astray(w) \/ PeriodOf[job.entry] # w => job.entry \in drift'[p]
      <4> HIDE DEF w, job
      <4>1. QED BY <1>1, <2>3, <3>1
    <3>3. ASSUME NEW e \in Entry \ drift'[p]
          PROVE  Due(jobs', entry'[e], p, e) = Due(jobs, entry[e], p, e)
      <4>1. CASE e # job.entry BY <1>1, <2>1, <4>1, OrderedTail
      <4>2. CASE e = job.entry
        <5>1. p # w /\ PeriodOf[e] = w BY <2>3, <3>2, <3>3, <4>2
        <5>2. QED BY <5>1 DEF Due
      <4>3. QED BY <4>1, <4>2
    <3>4. SameDue(p) BY <3>2, <3>3 DEF SameDue
    <3>5. QED BY <2>1, <2>3, <3>2, <3>4, FollowElsewhere
  <2>4. ASSUME NEW p \in Period, p = w, ~Astray(w) PROVE InOrder(p)'
    BY <1>3, <2>4, FollowStraight
  <2>5. QED BY <1>2, <2>2, <2>3, <2>4
<1>4. CASE JobTwice
  <2>1. /\ worker.step = "write" /\ jobs' = jobs /\ entry' = entry
        /\ Crossing(w)
        /\ stored' = Upserted(w, Updated(worker.doc, job))
        /\ drift' = [q \in Period |-> Entry]
    BY <1>4 DEF JobTwice
  <2>2. Ordered' BY <1>1, <2>1 DEF Ordered, Once
  <2>3. ASSUME NEW p \in Period PROVE InOrder(p)'
    <3>1. drift'[p] = Entry /\ drift[p] \subseteq Entry BY <1>1, <2>1
    <3>2. SameDue(p) BY <3>1 DEF SameDue
    <3>3. QED BY <2>1, <3>1, <3>2, FollowElsewhere
  <2>4. QED BY <1>2, <2>2, <2>3
<1>5. CASE JobFails
  <2>1. /\ jobs' = Tail(jobs) /\ entry' = entry
        /\ UNCHANGED <<rebuild, stored>>
        /\ drift' = [q \in Period |-> drift[q] \union {job.entry}]
    BY <1>5 DEF JobFails, Drift
  <2>2. Ordered' BY <1>1, <2>1, OrderedTail
  <2>3. ASSUME NEW p \in Period PROVE InOrder(p)'
    <3>1. drift'[p] = drift[p] \union {job.entry} /\ drift[p] \subseteq Entry
      BY <1>1, <2>1
    <3>2. drift[p] \subseteq drift'[p] /\ drift'[p] \subseteq Entry
      BY <1>1, <3>1
    <3>3. SameDue(p) BY <1>1, <2>1, <3>1, OrderedTail DEF SameDue
    <3>4. SameRebuild(p) BY <2>1 DEF SameRebuild, Rebuilding
    <3>5. QED BY <2>1, <3>2, <3>3, <3>4, InOrderKept DEF Follow, TypeOK
  <2>4. QED BY <1>2, <2>2, <2>3
<1>6. QED BY <1>3, <1>4, <1>5
-----------------------------------------------------------------------------
(* The rebuild.                                                            *)
LEMMA OrderedKept ==
  ASSUME Follow, UNCHANGED <<jobs, entry>>
  PROVE  Ordered'
BY DEF Follow, Ordered, Once

(* Months that are not the one rebuilt.                                    *)
LEMMA FollowOther ==
  ASSUME Follow, UNCHANGED <<jobs, entry>>, NEW p \in Period,
         stored'.masters[p] = stored.masters[p], drift'[p] = drift[p],
         ~Rebuilding(p), ~Rebuilding(p)'
  PROVE  InOrder(p)'
<1>1. Settled(p) BY DEF Follow, InOrder
<1>2. Settled(p)'
  <2> DEFINE m == stored.masters[p]
  <2>1. stored'.masters[p] = m OBVIOUS
  <2>2. /\ Len(m) > 1 => drift'[p] = Entry
        /\ \A e \in Entry \ drift'[p] : First(m)[e] = Due(jobs', entry'[e], p, e)
    BY <1>1 DEF Settled
  <2> HIDE DEF m
  <2>3. QED BY <2>1, <2>2 DEF Settled
<1>3. QED BY <1>2 DEF InOrder

(* What a job has read is still so when only the months that are rebuilt,  *)
(* or spoiled, were written.                                               *)
LEMMA CurrentKept ==
  ASSUME Follow, worker' = worker,
         LET p == worker.period IN
         worker.step = "write" =>
           \/ Rebuilding(p)'
           \/ drift'[p] = Entry
           \/ /\ ~Rebuilding(p) /\ drift'[p] = drift[p]
              /\ stored'.masters[p] = stored.masters[p]
  PROVE  Current'
<1>1. Current BY DEF Follow
<1>2. (Rebuilding(worker.period))' <=>
        (rebuild'.step \in {"deleting", "inserting"}
           /\ rebuild'.period = worker.period)
  BY DEF Rebuilding
<1>3. QED BY <1>1, <1>2 DEF Current

LEMMA FollowStart ==
  ASSUME Follow, NEW q \in Period, RebuildStart(q)
  PROVE  Ordered' /\ (\A p \in Period : InOrder(p)') /\ Current'
<1>1. /\ UNCHANGED <<jobs, entry, stored, drift, worker>>
      /\ rebuild.step = "idle" /\ rebuild'.step = "reading"
  BY DEF RebuildStart, Still
<1>2. \A p \in Period : ~Rebuilding(p) /\ ~Rebuilding(p)'
  BY <1>1 DEF Rebuilding
<1>3. \A p \in Period : InOrder(p)' BY <1>1, <1>2, FollowOther
<1>4. worker.period \in Period BY DEF Follow, TypeOK
<1>5. Current' BY <1>1, <1>2, <1>4, CurrentKept
<1>6. QED BY <1>1, <1>3, <1>5, OrderedKept

LEMMA FollowAggregate ==
  ASSUME Follow, RebuildRead
  PROVE  Ordered' /\ (\A p \in Period : InOrder(p)') /\ Current'
<1> DEFINE q == rebuild.period
<1>1. /\ TypeOK /\ q \in Period /\ worker.period \in Period
      /\ UNCHANGED <<jobs, entry, stored, worker>>
      /\ rebuild.step = "reading" /\ \A p \in Period : ~Rebuilding(p)
      /\ drift \in [Period -> SUBSET Entry]
  BY DEF Follow, TypeOK, RebuildRead, Rebuilding
<1>2. CASE Aggregated(q) = {}
  <2>1. rebuild' = Still /\ drift' = drift BY <1>2 DEF RebuildRead
  <2>2. rebuild'.step = "idle" BY <2>1 DEF Still
  <2>3. \A p \in Period : ~Rebuilding(p)' BY <2>2 DEF Rebuilding
  <2>4. \A p \in Period : InOrder(p)' BY <1>1, <2>1, <2>3, FollowOther
  <2>5. Current' BY <1>1, <2>1, CurrentKept
  <2>6. QED BY <1>1, <2>4, <2>5, OrderedKept
<1>3. CASE Aggregated(q) # {}
  <2>1. /\ name = "records"
        /\ drift' = [drift EXCEPT ![q] = Pending]
        /\ rebuild' = [rebuild EXCEPT !.step = "deleting",
             !.counted = Aggregated(q), !.disturbed = worker.step = "write"]
    BY <1>3 DEF RebuildRead, Aggregated
  <2>2. /\ rebuild'.step = "deleting" /\ rebuild'.period = q
        /\ rebuild'.counted = Aggregated(q)
    BY <1>1, <2>1 DEF TypeOK
  <2>3. /\ drift'[q] = Pending
        /\ \A p \in Period \ {q} : drift'[p] = drift[p] /\ ~Rebuilding(p)'
        /\ \A p \in Period : p = q => Rebuilding(p)'
    BY <1>1, <2>1, <2>2 DEF Rebuilding
  <2>4. ASSUME NEW e \in Entry \ Pending
        PROVE  Rebuilt(Aggregated(q))[e] = Due(jobs, entry[e], q, e)
    <3>1. Net(jobs, e) = 0 BY <1>1, NoJob DEF Pending
    <3>2. /\ entry[e] \in EntryStatus \ {"stored", "reversed"}
      BY <1>1 DEF TypeOK, Pending
    <3>3. e \in Aggregated(q) <=> PeriodOf[e] = q /\ entry[e] = "realized"
      BY <2>1, <3>2 DEF Aggregated, Realized, EntryStatus
    <3> HIDE DEF q
    <3>4. QED BY <3>1, <3>3 DEF Rebuilt, Due
  <2>5. ASSUME NEW p \in Period, p = q PROVE InOrder(p)'
    <3>1. \A e \in Entry \ drift'[p] :
            Rebuilt(rebuild'.counted)[e] = Due(jobs', entry'[e], p, e)
      <4> SUFFICES ASSUME NEW e \in Entry \ drift'[p]
                   PROVE  Rebuilt(rebuild'.counted)[e] = Due(jobs', entry'[e], p, e)
        OBVIOUS
      <4>1. e \in Entry \ Pending BY <2>3, <2>5
      <4>2. Rebuilt(Aggregated(q))[e] = Due(jobs, entry[e], q, e) BY <2>4, <4>1
      <4>3. QED BY <1>1, <2>2, <2>5, <4>2
    <3>2. Counting(p)' BY <2>2, <3>1 DEF Counting, Rebuilt
    <3>3. QED BY <2>3, <2>5, <3>2 DEF InOrder
  <2>6. ASSUME NEW p \in Period, p # q PROVE InOrder(p)'
    BY <1>1, <2>3, <2>6, FollowOther
  <2>7. Current'
    <3>1. (Rebuilding(worker.period))' <=>
        (rebuild'.step \in {"deleting", "inserting"}
           /\ rebuild'.period = worker'.period)
      BY DEF Rebuilding
    <3>2. worker.period = q => (Rebuilding(worker.period))'
      BY <1>1, <2>2, <3>1
    <3>3. worker.period # q => drift'[worker.period] = drift[worker.period]
      BY <1>1, <2>3
    <3>4. QED BY <1>1, <3>2, <3>3, CurrentKept
  <2>8. QED BY <1>1, <2>5, <2>6, <2>7, OrderedKept
<1>4. QED BY <1>2, <1>3

LEMMA FollowDelete ==
  ASSUME Follow, RebuildDelete
  PROVE  Ordered' /\ (\A p \in Period : InOrder(p)') /\ Current'
<1> DEFINE q == rebuild.period
<1>1. /\ TypeOK /\ q \in Period /\ worker.period \in Period
      /\ UNCHANGED <<jobs, entry, drift, worker>>
      /\ rebuild.step = "deleting" /\ rebuild' = [rebuild EXCEPT !.step = "inserting"]
      /\ stored' = [stored EXCEPT !.masters[q] = <<>>]
      /\ stored \in [Collection -> [Period -> Seq(Master)]]
  BY DEF Follow, TypeOK, RebuildDelete
<1>2. /\ rebuild'.step = "inserting" /\ rebuild'.period = q
      /\ rebuild'.counted = rebuild.counted
      /\ rebuild'.disturbed = rebuild.disturbed
      /\ rebuild.disturbed \in BOOLEAN
  BY <1>1 DEF TypeOK
<1>3. /\ stored'.masters[q] = <<>>
      /\ \A p \in Period \ {q} : stored'.masters[p] = stored.masters[p]
  BY <1>1 DEF Collection
<1>4. ASSUME NEW p \in Period, p = q PROVE InOrder(p)'
  <2>1. Rebuilding(p) /\ Rebuilding(p)' BY <1>1, <1>2, <1>4 DEF Rebuilding
  <2> SUFFICES ASSUME ~rebuild.disturbed PROVE Counting(p)'
    BY <1>2, <2>1 DEF InOrder
  <2>2. Counting(p) BY <2>1 DEF Follow, InOrder
  <2>3. \A e \in Entry \ drift'[p] :
          Rebuilt(rebuild.counted)[e] = Due(jobs', entry'[e], p, e)
    BY <1>1, <2>2 DEF Counting
  <2>4. QED BY <1>2, <1>3, <1>4, <2>3 DEF Counting, Rebuilt
<1>5. ASSUME NEW p \in Period, p # q PROVE InOrder(p)'
  <2>1. ~Rebuilding(p) /\ ~Rebuilding(p)' BY <1>2, <1>5 DEF Rebuilding
  <2>2. QED BY <1>1, <1>3, <1>5, <2>1, FollowOther
<1>6. Current'
  <2>1. (Rebuilding(worker.period))' <=>
        (rebuild'.step \in {"deleting", "inserting"}
           /\ rebuild'.period = worker'.period)
    BY DEF Rebuilding
  <2>2. worker.period = q => (Rebuilding(worker.period))'
    BY <1>1, <1>2, <2>1
  <2>3. worker.period # q =>
          /\ stored'.masters[worker.period] = stored.masters[worker.period]
          /\ ~Rebuilding(worker.period)
    BY <1>1, <1>3 DEF Rebuilding
  <2>4. QED BY <1>1, <2>2, <2>3, CurrentKept
<1>7. QED BY <1>1, <1>4, <1>5, <1>6, OrderedKept

LEMMA FollowInsert ==
  ASSUME Follow, RebuildInsert
  PROVE  Ordered' /\ (\A p \in Period : InOrder(p)') /\ Current'
<1> DEFINE q == rebuild.period
           d == Rebuilt(rebuild.counted)
           m == stored.masters[q]
<1>1. /\ TypeOK /\ q \in Period /\ worker.period \in Period
      /\ UNCHANGED <<jobs, entry, worker>>
      /\ rebuild.step = "inserting" /\ rebuild' = Still
      /\ stored' = [stored EXCEPT !.masters[q] = Append(@, d)]
      /\ stored \in [Collection -> [Period -> Seq(Master)]]
      /\ drift \in [Period -> SUBSET Entry]
  BY DEF Follow, TypeOK, RebuildInsert
<1>2. drift' = IF rebuild.disturbed \/ worker.step = "write"
               THEN [drift EXCEPT ![q] = Entry] ELSE drift
  BY DEF RebuildInsert, Spoil
<1>3. rebuild'.step = "idle" BY <1>1 DEF Still
<1>4. \A p : ~Rebuilding(p)' BY <1>3 DEF Rebuilding
<1>5. /\ stored'.masters[q] = Append(m, d)
      /\ \A p \in Period \ {q} : /\ stored'.masters[p] = stored.masters[p]
                                 /\ drift'[p] = drift[p]
  BY <1>1, <1>2 DEF Collection
<1>6. ASSUME NEW p \in Period, p = q PROVE InOrder(p)'
  <2> SUFFICES Settled(p)' BY <1>4 DEF InOrder
  <2>1. CASE rebuild.disturbed \/ worker.step = "write"
    <3>1. drift'[p] = Entry BY <1>1, <1>2, <1>6, <2>1
    <3>2. QED BY <3>1 DEF Settled
  <2>2. CASE ~(rebuild.disturbed \/ worker.step = "write")
    <3>1. Rebuilding(p) BY <1>1, <1>6 DEF Rebuilding
    <3>2. Counting(p) BY <2>2, <3>1 DEF Follow, InOrder
    <3>3. m = <<>> BY <1>1, <1>6, <3>2 DEF Counting
    <3>4. drift' = drift BY <1>2, <2>2
    <3>5. d \in Master BY DEF Rebuilt, Master
    <3>6. \A e \in Entry \ drift'[p] : d[e] = Due(jobs', entry'[e], p, e)
      BY <1>1, <3>2, <3>4 DEF Counting
    <3> HIDE DEF d
    <3>7. Append(m, d) = <<d>> BY <3>3, <3>5
    <3>8. Len(<<d>>) = 1 /\ First(<<d>>) = d /\ <<d>> # <<>> BY DEF First
    <3>9. stored'.masters[p] = <<d>> BY <1>5, <1>6, <3>7
    <3>10. QED BY <3>6, <3>8, <3>9 DEF Settled
  <2>3. QED BY <2>1, <2>2
<1>7. ASSUME NEW p \in Period, p # q PROVE InOrder(p)'
  <2>1. ~Rebuilding(p) BY <1>7 DEF Rebuilding
  <2>2. QED BY <1>1, <1>4, <1>5, <1>7, <2>1, FollowOther
<1>8. Current'
  <2>1. worker.period = q /\ worker.step = "write" => drift'[worker.period] = Entry
    BY <1>1, <1>2
  <2>2. worker.period # q => ~Rebuilding(worker.period)
    BY DEF Rebuilding
  <2>3. QED BY <1>1, <1>5, <2>1, <2>2, CurrentKept
<1>9. QED BY <1>1, <1>6, <1>7, <1>8, OrderedKept

LEMMA FollowFails ==
  ASSUME Follow, RebuildFails
  PROVE  Ordered' /\ (\A p \in Period : InOrder(p)') /\ Current'
<1> DEFINE q == rebuild.period
<1>1. /\ TypeOK /\ q \in Period /\ worker.period \in Period
      /\ UNCHANGED <<jobs, entry, worker, stored>>
      /\ drift \in [Period -> SUBSET Entry]
  BY DEF Follow, TypeOK, RebuildFails
<1>2. drift' = IF rebuild.step # "reading"
               THEN [drift EXCEPT ![q] = Entry] ELSE drift
  BY DEF RebuildFails, Spoil
<1>3. rebuild'.step \in {"idle", "reading"}
  <2>1. /\ Still.step = "idle"
        /\ [Still EXCEPT !.step = "reading", !.period = q].step = "reading"
    BY DEF Still
  <2>2. QED BY <2>1 DEF RebuildFails
<1>4. \A p : ~Rebuilding(p)' BY <1>3 DEF Rebuilding
<1>5. ASSUME NEW p \in Period
      PROVE  drift'[p] = Entry \/ (drift'[p] = drift[p] /\ ~Rebuilding(p))
  <2>1. CASE p = q /\ rebuild.step # "reading" BY <1>1, <1>2, <2>1
  <2>2. CASE p # q \/ rebuild.step = "reading"
    BY <1>1, <1>2, <2>2 DEF Rebuilding
  <2>3. QED BY <2>1, <2>2
<1>6. ASSUME NEW p \in Period PROVE InOrder(p)'
  <2>1. CASE drift'[p] = Entry
    <3>1. Settled(p)' BY <2>1 DEF Settled
    <3>2. QED BY <1>4, <3>1 DEF InOrder
  <2>2. CASE drift'[p] = drift[p] /\ ~Rebuilding(p)
    BY <1>1, <1>4, <2>2, FollowOther
  <2>3. QED BY <1>5, <2>1, <2>2
<1>7. Current' BY <1>1, <1>5, CurrentKept
<1>8. QED BY <1>1, <1>6, <1>7, OrderedKept

LEMMA FollowNext == ASSUME Follow, [Next]_vars PROVE Follow'
<1>1. TypeOK' BY TypeNext DEF Follow
<1>2. Ordered' /\ (\A p \in Period : InOrder(p)') /\ Current'
  BY FollowRead, FollowRecord, FollowJob, FollowStart, FollowAggregate,
     FollowDelete, FollowInsert, FollowFails DEF Next, JobStep, RebuildStep
<1>3. Period' = Period BY DEF Period
<1>4. QED BY <1>1, <1>2 DEF Follow
-----------------------------------------------------------------------------
(* A sum of no term, and of one.                                           *)
LEMMA SumShort ==
  ASSUME NEW g
  PROVE  /\ SumFunctionOnSet(g, {}) = 0
         /\ \A x : g[x] \in Int => SumFunctionOnSet(g, {x}) = g[x]
<1> DEFINE Eq(F, S) == F = [s \in SUBSET S |-> IF s = {} THEN 0
                              ELSE LET y == CHOOSE y \in s : TRUE
                                   IN  g[y] + F[s \ {y}]]
           Sol(S) == CHOOSE F : Eq(F, S)
<1>1. ASSUME NEW S, \E F : Eq(F, S)
      PROVE  /\ Eq(Sol(S), S) /\ SumFunctionOnSet(g, S) = Sol(S)[S]
  <2>1. Eq(Sol(S), S) BY <1>1
  <2>2. SumFunctionOnSet(g, S) = Sol(S)[S]
    BY <2>1 DEF SumFunctionOnSet, FoldFunctionOnSet, MapThenFoldSet
  <2>3. QED BY <2>1, <2>2
<1>2. SumFunctionOnSet(g, {}) = 0
  <2> DEFINE F == [s \in SUBSET {} |-> 0]
  <2>1. Eq(F, {}) OBVIOUS
  <2>2. Eq(Sol({}), {}) /\ SumFunctionOnSet(g, {}) = Sol({})[{}]
    BY <1>1, <2>1
  <2>3. Sol({})[{}] = 0
    <3> DEFINE G == Sol({})
    <3>1. Eq(G, {}) BY <2>2
    <3> HIDE DEF G
    <3>2. G[{}] = 0 BY <3>1
    <3>3. QED BY <3>2 DEF G
  <2>4. QED BY <2>2, <2>3
<1>3. ASSUME NEW x, g[x] \in Int PROVE SumFunctionOnSet(g, {x}) = g[x]
  <2> DEFINE F == [s \in SUBSET {x} |-> IF s = {} THEN 0 ELSE g[x]]
  <2>0. \A s \in SUBSET {x} : s # {} => (CHOOSE y \in s : TRUE) = x /\ s = {x}
    OBVIOUS
  <2>1. Eq(F, {x})
    <3>1. F[{}] = 0 OBVIOUS
    <3>2. ASSUME NEW s \in SUBSET {x}
          PROVE  (IF s = {} THEN 0 ELSE g[x])
                   = IF s = {} THEN 0
                     ELSE LET y == CHOOSE y \in s : TRUE IN g[y] + F[s \ {y}]
      <4>1. CASE s = {} BY <4>1
      <4>2. CASE s # {}
        <5>1. (CHOOSE y \in s : TRUE) = x /\ s \ {x} = {} BY <2>0, <4>2
        <5> HIDE DEF F
        <5>2. QED BY <1>3, <3>1, <4>2, <5>1
      <4>3. QED BY <4>1, <4>2
    <3>3. QED BY <3>2
  <2> HIDE DEF F
  <2>2. Eq(Sol({x}), {x}) /\ SumFunctionOnSet(g, {x}) = Sol({x})[{x}]
    BY <1>1, <2>1
  <2>3. Sol({x})[{x}] = g[x]
    <3> DEFINE G == Sol({x})
    <3>1. Eq(G, {x}) BY <2>2
    <3> HIDE DEF G
    <3>2. G[{}] = 0 BY <3>1
    <3>3. G[{x}] = LET y == CHOOSE y \in {x} : TRUE IN g[y] + G[{x} \ {y}]
      BY <3>1
    <3>4. (CHOOSE y \in {x} : TRUE) = x /\ {x} \ {x} = {} BY <2>0
    <3>5. G[{x}] = g[x] + G[{}] BY <3>3, <3>4
    <3>6. QED BY <1>3, <3>2, <3>5 DEF G
  <2>4. QED BY <2>2, <2>3
<1>4. QED BY <1>2, <1>3

LEMMA CountedIsFirst ==
  ASSUME TypeOK, NEW p \in Period, NEW e \in Entry,
         ~(Len(stored.masters[p]) > 1)
  PROVE  Counted(p, e) = First(stored.masters[p])[e]
<1> DEFINE m == stored.masters[p]
           g == [n \in DOMAIN m |-> m[n][e]]
<1>1. m \in Seq(Master) BY DEF TypeOK, Collection
<1>2. Counted(p, e) = SumFunctionOnSet(g, DOMAIN g)
  BY DEF Counted, SumFunction
<1>3. DOMAIN g = DOMAIN m /\ DOMAIN m = 1..Len(m) /\ Len(m) \in Nat
  BY <1>1, LenProperties
<1>4. CASE m = <<>>
  <2>1. DOMAIN g = {} BY <1>3, <1>4
  <2> HIDE DEF g
  <2>2. Counted(p, e) = 0 BY <1>2, <2>1, SumShort
  <2>3. QED BY <1>4, <2>2 DEF First, Blank
<1>5. CASE m # <<>>
  <2>1. Len(m) = 1
    <3> DEFINE l == Len(m)
    <3>1. ~(l > 1) /\ l # 0 /\ l \in Nat BY <1>1, <1>3, <1>5, EmptySeq
    <3> HIDE DEF l
    <3>2. l = 1 BY <3>1
    <3>3. QED BY <3>2 DEF l
  <2>2. DOMAIN m = {1} BY <1>3, <2>1
  <2>3. m[1] \in Master /\ Head(m) = m[1]
    BY <1>1, <1>5, <2>2, HeadTailProperties
  <2>4. g[1] = m[1][e] /\ g[1] \in Int BY <2>2, <2>3 DEF Master
  <2> HIDE DEF g, m
  <2>5. Counted(p, e) = g[1] BY <1>2, <1>3, <2>2, <2>4, SumShort
  <2>6. QED BY <1>5, <2>3, <2>4, <2>5 DEF First, m
<1>6. QED BY <1>4, <1>5

LEMMA FollowShows == Follow => MastersFollow
<1> SUFFICES ASSUME Follow, Quiet, NEW p \in Period, NEW e \in Entry \ drift[p]
             PROVE  Counted(p, e)
                      = IF PeriodOf[e] = p /\ entry[e] = "realized" THEN 1 ELSE 0
  BY DEF MastersFollow
<1>1. TypeOK /\ jobs = <<>> /\ ~Rebuilding(p)
  BY DEF Follow, Quiet, Rebuilding
<1>2. Settled(p) BY <1>1 DEF Follow, InOrder
<1>3. ~(Len(stored.masters[p]) > 1) BY <1>2 DEF Settled
<1>4. Counted(p, e) = Due(jobs, entry[e], p, e)
  BY <1>1, <1>2, <1>3, CountedIsFirst DEF Settled
<1>5. ~Queued(e) BY <1>1, EmptySeq DEF Queued
<1>6. Net(jobs, e) = 0 BY <1>1, <1>5, NoJob
<1>7. QED BY <1>4, <1>6 DEF Due

(* Once the queues are empty a month's masters count each realized record  *)
(* of the month once and no other, but for the records of the listed       *)
(* anomalies.                                                              *)
THEOREM MastersFollowRecords == Spec => []MastersFollow
<1>1. Follow /\ [Next]_vars => Follow' BY FollowNext
<1>2. QED BY <1>1, FollowInit, FollowShows, PTL DEF Spec
===============================================================================
