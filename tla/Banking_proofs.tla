----------------------------- MODULE Banking_proofs ----------------------------
(***************************************************************************)
(* Machine-checked proofs about the bank statements, for every number of   *)
(* files, records, requests, cancellations and troubles.                   *)
(***************************************************************************)
EXTENDS Banking, FiniteSetTheorems, SequenceTheorems, TLAPS

(***************************************************************************)
(* Operators of the model.                                                 *)
(***************************************************************************)

(* The ranks of the members of a set of positions are 1 to their number.   *)
LEMMA Ranks ==
  ASSUME NEW N \in Nat, NEW P \in SUBSET (1..N)
  PROVE  /\ Cardinality(P) \in Nat
         /\ \A n \in P : Cardinality({m \in P : m =< n}) \in 1..Cardinality(P)
         /\ \A k \in 1..Cardinality(P) :
              \E n \in P : Cardinality({m \in P : m =< n}) = k
         /\ \A n, o \in P :
              Cardinality({m \in P : m =< n}) = Cardinality({m \in P : m =< o})
                => n = o
<1> DEFINE upTo(n) == {m \in P : m =< n}
           rank == [n \in P |-> Cardinality(upTo(n))]
<1>1. IsFiniteSet(P) /\ Cardinality(P) \in Nat
  <2>1. IsFiniteSet(1..N) BY FS_Interval
  <2>2. IsFiniteSet(P) BY <2>1, FS_Subset
  <2>3. QED BY <2>2, FS_CardinalityType
<1>2. ASSUME NEW n \in P PROVE Cardinality(upTo(n)) \in 1..Cardinality(P)
  <2>1. upTo(n) \in SUBSET P /\ upTo(n) # {} OBVIOUS
  <2> HIDE DEF upTo
  <2>2. IsFiniteSet(upTo(n)) /\ Cardinality(upTo(n)) =< Cardinality(P)
    BY <1>1, <2>1, FS_Subset
  <2>3. Cardinality(upTo(n)) \in Nat /\ Cardinality(upTo(n)) # 0
    BY <2>1, <2>2, FS_CardinalityType, FS_EmptySet
  <2>4. QED BY <1>1, <2>2, <2>3
<1>3. ASSUME NEW n \in P, NEW o \in P, n < o
      PROVE  Cardinality(upTo(n)) # Cardinality(upTo(o))
  <2>1. upTo(n) \in SUBSET upTo(o) /\ o \in upTo(o) /\ o \notin upTo(n)
    <3>1. \A m \in P : m \in Int OBVIOUS
    <3>2. \A m \in P : m =< n => m =< o BY <3>1, <1>3
    <3>3. o =< o /\ ~(o =< n) BY <3>1, <1>3
    <3>4. QED BY <3>2, <3>3
  <2>2. upTo(o) \in SUBSET P OBVIOUS
  <2> HIDE DEF upTo
  <2>3. IsFiniteSet(upTo(o)) BY <1>1, <2>2, FS_Subset
  <2>4. Cardinality(upTo(o)) = Cardinality(upTo(n)) => upTo(o) = upTo(n)
    BY <2>1, <2>3, FS_Subset
  <2>5. QED BY <2>1, <2>4
<1> HIDE DEF upTo
<1>4. ASSUME NEW n \in P, NEW o \in P, rank[n] = rank[o] PROVE n = o
  <2>1. n \in Int /\ o \in Int OBVIOUS
  <2>2. QED BY <1>3, <1>4, <2>1
<1>5. rank \in Injection(P, 1..Cardinality(P))
  BY <1>2, <1>4 DEF Injection, IsInjective
<1>6. Cardinality(1..Cardinality(P)) = Cardinality(P)
      /\ IsFiniteSet(1..Cardinality(P))
  BY <1>1, FS_Interval
<1>7. rank \in Surjection(P, 1..Cardinality(P))
  BY <1>5, <1>6, FS_Injection
<1>8. \A k \in 1..Cardinality(P) : \E n \in P : rank[n] = k
  BY <1>7 DEF Surjection
<1>9. QED BY <1>1, <1>2, <1>4, <1>8 DEF upTo

(* Taken has the lines at the positions P, and no other.                   *)
LEMMA TakenFacts ==
  ASSUME NEW S, NEW lines \in Seq(S), NEW P \in SUBSET DOMAIN lines
  PROVE  /\ Taken(lines, P) \in Seq(S)
         /\ \A k \in DOMAIN Taken(lines, P) :
              \E n \in P : Taken(lines, P)[k] = lines[n]
         /\ \A n \in P :
              \E k \in DOMAIN Taken(lines, P) : Taken(lines, P)[k] = lines[n]
<1> DEFINE rank(n) == Cardinality({m \in P : m =< n})
           nth(k) == CHOOSE n \in P : rank(n) = k
           size == Cardinality(P)
<1>1. Len(lines) \in Nat /\ P \in SUBSET (1..Len(lines)) BY LenProperties
<1>2. /\ size \in Nat /\ \A n \in P : rank(n) \in 1..size
      /\ \A k \in 1..size : \E n \in P : rank(n) = k
      /\ \A n, o \in P : rank(n) = rank(o) => n = o
  BY <1>1, Ranks
<1> HIDE DEF rank, size
<1>3. \A k \in 1..size : nth(k) \in P /\ rank(nth(k)) = k BY <1>2
<1>4. \A n \in P : nth(rank(n)) = n BY <1>2, <1>3
<1>5. Taken(lines, P) = [k \in 1..size |-> lines[nth(k)]]
  BY DEF Taken, rank, size
<1> HIDE DEF nth
<1>6. \A k \in 1..size : lines[nth(k)] \in S
  BY <1>1, <1>3, ElementOfSeq
<1> DEFINE taken == [k \in 1..size |-> lines[nth(k)]]
<1>7. taken \in Seq(S) BY <1>2, <1>6
<1>8. QED BY <1>2, <1>3, <1>4, <1>5, <1>7

(***************************************************************************)
(* Types, and what each step of an agent relies on.                        *)
(***************************************************************************)

(* Only the worker stores lines, only requests link; who is at a statement *)
(* has one, and what a request had read of it named no record; RECONCILED  *)
(* statements are the ones that name a record.                             *)
AgentOK(a, s) ==
  /\ s.read = NoRecord
  /\ s.step # "storing" => s.fresh = <<>>
  /\ s.step \in {"idle", "storing"} => s.todo = <<>>
  /\ s.step \in {"finding", "saving", "linking"} => s.todo # <<>>
  /\ s.step \notin {"saving", "linking"} => s.record = NoRecord
  /\ s.step = "linking" => s.record # NoRecord /\ a # Worker
  /\ s.step = "storing" => a = Worker
  /\ a = Worker /\ s.step # "idle" => jobs # <<>>

Working ==
  /\ \A a \in Agent : AgentOK(a, agent[a])
  /\ \A i \in DOMAIN statement :
       statement[i].status = "RECONCILED" <=> statement[i].record # NoRecord

Typed == TypeOK /\ Working

LEMMA IdleFacts == Idle \in Session /\ \A a : AgentOK(a, Idle)
BY EmptySeq DEF Idle, Session, AgentOK

LEMMA TypedInit == Init => Typed
<1> SUFFICES ASSUME Init PROVE Typed OBVIOUS
<1>1. /\ statement \in Seq(Statement) /\ jobs \in Seq([lines : Seq(Line), run : Nat])
      /\ late \in Seq(LateJob) /\ DOMAIN statement = {}
  BY EmptySeq, LenProperties DEF Init
<1>2. TypeOK
  BY <1>1, IdleFacts DEF Init, TypeOK, RecordStatus, Idle
<1>3. Working BY <1>1, IdleFacts DEF Init, Working
<1>4. QED BY <1>2, <1>3 DEF Typed

LEMMA StatementAt ==
  ASSUME Typed, NEW i \in DOMAIN statement PROVE statement[i] \in Statement
<1>1. statement \in Seq(Statement) BY DEF Typed, TypeOK
<1>2. QED BY <1>1, ElementOfSeq, LenProperties

(* New statements come after the old ones.                                 *)
LEMMA InsertedFacts ==
  ASSUME Typed, NEW lines \in Seq(Line), lines # <<>> => jobs # <<>>
  PROVE  /\ Inserted(lines) \in Seq(Statement)
         /\ Len(Inserted(lines)) = Len(statement) + Len(lines)
         /\ \A i \in 1..Len(statement) : Inserted(lines)[i] = statement[i]
         /\ \A n \in 1..Len(lines) :
              Inserted(lines)[Len(statement) + n] = Create(lines[n], Head(jobs).run)
<1> DEFINE new == [n \in DOMAIN lines |-> Create(lines[n], Head(jobs).run)]
<1>1. Len(lines) \in Nat /\ DOMAIN lines = 1..Len(lines) BY LenProperties
<1>2. statement \in Seq(Statement) /\ Len(statement) \in Nat
  BY LenProperties DEF Typed, TypeOK
<1>3. ASSUME NEW n \in 1..Len(lines)
      PROVE  Create(lines[n], Head(jobs).run) \in Statement
  <2>1. lines[n] \in Line BY ElementOfSeq
  <2>2. lines # <<>> BY <1>1
  <2>3. Head(jobs) \in [lines : Seq(Line), run : Nat]
    BY <2>2, HeadTailProperties DEF Typed, TypeOK
  <2>4. QED BY <2>1, <2>3 DEF Create, Statement, StatementStatus
<1> DEFINE nth(n) == Create(lines[n], Head(jobs).run)
<1>4. new = [n \in 1..Len(lines) |-> nth(n)] BY <1>1
<1>5. \A n \in 1..Len(lines) : nth(n) \in Statement BY <1>3
<1> HIDE DEF nth
<1>6. new \in Seq(Statement) /\ Len(new) = Len(lines)
  BY <1>1, <1>4, <1>5
<1>7. Inserted(lines) = statement \o new BY DEF Inserted
<1> HIDE DEF new
<1>8. /\ Inserted(lines) \in Seq(Statement)
      /\ Len(Inserted(lines)) = Len(statement) + Len(new)
      /\ \A i \in 1..(Len(statement) + Len(new)) :
           Inserted(lines)[i] = IF i =< Len(statement) THEN statement[i]
                                ELSE new[i - Len(statement)]
  <2>1. /\ statement \o new \in Seq(Statement)
        /\ Len(statement \o new) = Len(statement) + Len(new)
        /\ \A i \in 1..(Len(statement) + Len(new)) :
             (statement \o new)[i] = IF i =< Len(statement) THEN statement[i]
                                     ELSE new[i - Len(statement)]
    BY <1>2, <1>6, ConcatProperties
  <2>2. QED BY <1>7, <2>1
<1>9. \A i \in 1..Len(statement) : Inserted(lines)[i] = statement[i]
  BY <1>1, <1>2, <1>6, <1>8
<1>10. ASSUME NEW n \in 1..Len(lines)
       PROVE  Inserted(lines)[Len(statement) + n] = nth(n)
  <2> DEFINE i == Len(statement) + n
  <2>1. i \in 1..(Len(statement) + Len(new)) /\ ~(i =< Len(statement))
        /\ i - Len(statement) = n
    BY <1>1, <1>2, <1>6
  <2> HIDE DEF i
  <2>2. Inserted(lines)[i] = new[n] BY <1>8, <2>1
  <2>3. QED BY <1>4, <2>2 DEF i
<1>11. QED BY <1>6, <1>8, <1>9, <1>10 DEF nth

(* An update changes status and record of one statement.                   *)
LEMMA UpdatedFacts ==
  ASSUME Typed, NEW i \in DOMAIN statement, NEW e \in Entry \union {NoRecord},
         UpdateStatus(i, e)
  PROVE  /\ statement' \in Seq(Statement)
         /\ DOMAIN statement' = DOMAIN statement
         /\ statement'[i].line = statement[i].line
         /\ statement'[i].run = statement[i].run
         /\ statement'[i].record = e
         /\ statement'[i].status = "RECONCILED" <=> e # NoRecord
         /\ statement'[i].status # "PENDING"
         /\ \A j \in DOMAIN statement : j # i => statement'[j] = statement[j]
<1> DEFINE to == IF e = NoRecord THEN "UNMATCHED" ELSE "RECONCILED"
           new == [statement[i] EXCEPT !.record = e, !.status = to]
<1>1. statement \in Seq(Statement) /\ DOMAIN statement = 1..Len(statement)
      /\ Len(statement) \in Nat /\ statement[i] \in Statement
  BY LenProperties, ElementOfSeq DEF Typed, TypeOK
<1>2. /\ new \in Statement
      /\ new.line = statement[i].line /\ new.run = statement[i].run
      /\ new.record = e /\ new.status = to
  <2>1. PICK st : st = statement[i] OBVIOUS
  <2>2. st \in Statement BY <1>1, <2>1
  <2>3. to \in StatementStatus BY DEF StatementStatus
  <2> HIDE DEF to
  <2>4. PICK named : named = [st EXCEPT !.record = e] OBVIOUS
  <2>5. named \in Statement /\ named.line = st.line /\ named.run = st.run
        /\ named.record = e
    BY <2>2, <2>4 DEF Statement
  <2>6. new = [named EXCEPT !.status = to]
    BY <2>1, <2>2, <2>4 DEF Statement
  <2>7. QED BY <2>1, <2>3, <2>5, <2>6 DEF Statement
<1>3. statement' = [statement EXCEPT ![i] = new]
  BY <1>1 DEF UpdateStatus, Statement
<1> HIDE DEF new
<1>4. statement' \in Seq(Statement) /\ Len(statement') = Len(statement)
      /\ \A j \in 1..Len(statement) :
           statement'[j] = IF j = i THEN new ELSE statement[j]
  BY <1>1, <1>2, <1>3, ExceptSeq
<1>5. DOMAIN statement' = DOMAIN statement BY <1>1, <1>4, LenProperties
<1>6. QED BY <1>1, <1>2, <1>4, <1>5

LEMMA TroubleType ==
  ASSUME TypeOK, NEW what \in {"uploads", "requests", "cancels", "troubles"},
         Spend(what)
  PROVE  used' \in [uploads : Nat, requests : Nat, cancels : Nat, troubles : Nat]
<1> DEFINE Uses == [uploads : Nat, requests : Nat, cancels : Nat, troubles : Nat]
<1>1. used \in Uses /\ used' = [used EXCEPT ![what] = @ + 1] BY DEF TypeOK, Spend
<1>2. \A u \in Uses : /\ [u EXCEPT !["uploads"] = @ + 1] \in Uses
                      /\ [u EXCEPT !["requests"] = @ + 1] \in Uses
                      /\ [u EXCEPT !["cancels"] = @ + 1] \in Uses
                      /\ [u EXCEPT !["troubles"] = @ + 1] \in Uses
  OBVIOUS
<1> HIDE DEF Uses
<1>3. used' \in Uses BY <1>1, <1>2
<1>4. QED BY <1>3 DEF Uses

(* A dispatch adds its job, or nothing.                                    *)
LEMMA DispatchFacts ==
  ASSUME TypeOK, NEW job \in LateJob, NEW lost \in BOOLEAN, Dispatch(job, lost)
  PROVE  /\ used' \in [uploads : Nat, requests : Nat, cancels : Nat,
                       troubles : Nat]
         /\ late' \in Seq(LateJob)
         /\ IF lost THEN late' = late ELSE late' = Append(late, job)
<1>1. CASE lost
  <2>1. Spend("troubles") /\ late' = late BY <1>1 DEF Dispatch, Trouble
  <2>2. QED BY <1>1, <2>1, TroubleType DEF TypeOK
<1>2. CASE ~lost
  <2>1. late' = Append(late, job) /\ used' = used BY <1>2 DEF Dispatch
  <2>2. late' \in Seq(LateJob) BY <2>1 DEF TypeOK
  <2>3. QED BY <1>2, <2>1, <2>2 DEF TypeOK
<1>3. QED BY <1>1, <1>2

LEMMA MarkType ==
  ASSUME TypeOK, NEW kind \in Anomaly, NEW E \in SUBSET Entry
  PROVE  Mark(kind, E) \in [Anomaly -> SUBSET Entry]
BY DEF TypeOK, Mark

(* The statement an agent is at.                                           *)
LEMMA AtStatement ==
  ASSUME Typed, NEW a \in Agent, agent[a].todo # <<>>
  PROVE  /\ Head(agent[a].todo) \in DOMAIN statement
         /\ Tail(agent[a].todo) \in Seq(Nat)
         /\ \A n \in DOMAIN Tail(agent[a].todo) :
              /\ n + 1 \in DOMAIN agent[a].todo
              /\ Tail(agent[a].todo)[n] = agent[a].todo[n + 1]
         /\ \A n \in DOMAIN agent[a].todo :
              \/ agent[a].todo[n] = Head(agent[a].todo)
              \/ \E m \in DOMAIN Tail(agent[a].todo) :
                   Tail(agent[a].todo)[m] = agent[a].todo[n]
<1> DEFINE todo == agent[a].todo
<1>1. todo \in Seq(Nat) /\ \A n \in DOMAIN todo : todo[n] \in DOMAIN statement
  BY DEF Typed, TypeOK, Session
<1> HIDE DEF todo
<1>2. todo # <<>> BY DEF todo
<1>3. /\ Len(todo) \in Nat \ {0} /\ DOMAIN todo = 1..Len(todo)
      /\ Head(todo) = todo[1] /\ Tail(todo) \in Seq(Nat)
      /\ DOMAIN Tail(todo) = 1..(Len(todo) - 1)
      /\ \A n \in 1..(Len(todo) - 1) : Tail(todo)[n] = todo[n + 1]
  BY <1>1, <1>2
<1>4. Head(todo) \in DOMAIN statement BY <1>1, <1>3
<1>5. ASSUME NEW n \in DOMAIN todo, n # 1
      PROVE  \E m \in DOMAIN Tail(todo) : Tail(todo)[m] = todo[n]
  <2>1. n - 1 \in DOMAIN Tail(todo) /\ Tail(todo)[n - 1] = todo[n]
    BY <1>3, <1>5
  <2>2. QED BY <2>1
<1>6. \A n \in DOMAIN Tail(todo) : n + 1 \in DOMAIN todo /\ Tail(todo)[n] = todo[n + 1]
  BY <1>3
<1>7. QED BY <1>3, <1>4, <1>5, <1>6 DEF todo

(* The step of one agent leaves the others alone.                          *)
LEMMA AgentsKept ==
  ASSUME Typed, NEW a \in Agent, NEW s \in Session, agent' = [agent EXCEPT ![a] = s],
         AgentOK(a, s)', \A n \in DOMAIN s.todo : s.todo[n] \in DOMAIN statement',
         DOMAIN statement \subseteq DOMAIN statement',
         jobs' = jobs \/ jobs' # <<>> \/ a = Worker
  PROVE  /\ agent' \in [Agent -> Session]
         /\ \A b \in Agent : AgentOK(b, agent[b])'
         /\ \A b \in Agent : \A n \in DOMAIN agent'[b].todo :
              agent'[b].todo[n] \in DOMAIN statement'
         /\ agent'[a] = s /\ \A b \in Agent : b # a => agent'[b] = agent[b]
<1>1. agent \in [Agent -> Session] BY DEF Typed, TypeOK
<1>2. /\ agent' \in [Agent -> Session] /\ agent'[a] = s
      /\ \A b \in Agent : b # a => agent'[b] = agent[b]
  BY <1>1
<1>3. ASSUME NEW b \in Agent
      PROVE  /\ AgentOK(b, agent[b])'
             /\ \A n \in DOMAIN agent'[b].todo :
                  agent'[b].todo[n] \in DOMAIN statement'
  <2>1. CASE b = a BY <2>1, <1>2 DEF AgentOK
  <2>2. CASE b # a
    <3>1. AgentOK(b, agent[b]) /\ agent'[b] = agent[b]
      BY <1>2, <2>2 DEF Typed, Working
    <3>2. b = Worker => jobs' = jobs \/ jobs' # <<>> BY <2>2
    <3>3. AgentOK(b, agent[b])' BY <3>1, <3>2 DEF AgentOK
    <3>4. \A n \in DOMAIN agent[b].todo : agent[b].todo[n] \in DOMAIN statement
      BY DEF Typed, TypeOK
    <3>5. QED BY <3>1, <3>3, <3>4
  <2>3. QED BY <2>1, <2>2
<1>4. QED BY <1>2, <1>3

(* The end of a job takes it off the queue.                                *)
LEMMA EndJobFacts ==
  ASSUME Typed, jobs # <<>>, EndJob,
         DOMAIN statement \subseteq DOMAIN statement'
  PROVE  /\ jobs' \in Seq([lines : Seq(Line), run : Nat])
         /\ Head(jobs).lines \in Seq(Line)
         /\ agent' = [agent EXCEPT ![Worker] = Idle]
         /\ agent' \in [Agent -> Session]
         /\ \A b \in Agent : AgentOK(b, agent[b])'
         /\ \A b \in Agent : \A n \in DOMAIN agent'[b].todo :
              agent'[b].todo[n] \in DOMAIN statement'
<1>1. jobs' \in Seq([lines : Seq(Line), run : Nat]) /\ Head(jobs).lines \in Seq(Line)
  <2> DEFINE Job == [lines : Seq(Line), run : Nat]
  <2>1. jobs \in Seq(Job) BY DEF Typed, TypeOK
  <2> HIDE DEF Job
  <2>2. Head(jobs) \in Job /\ Tail(jobs) \in Seq(Job)
    BY <2>1, HeadTailProperties
  <2>3. QED BY <2>2 DEF Job, EndJob
<1>2. agent' = [agent EXCEPT ![Worker] = Idle] BY DEF EndJob
<1>3. AgentOK(Worker, Idle)' /\ DOMAIN Idle.todo = {}
  BY DEF Idle, AgentOK
<1>4. QED BY <1>1, <1>2, <1>3, IdleFacts, AgentsKept DEF Agent

(* An agent that is done with a statement goes on, or returns.             *)
LEMMA ProceedFacts ==
  ASSUME Typed, NEW a \in Agent, agent[a].step = "saving", Proceed(a),
         DOMAIN statement' = DOMAIN statement
  PROVE  /\ agent' \in [Agent -> Session]
         /\ \A b \in Agent : AgentOK(b, agent[b])'
         /\ \A b \in Agent : \A n \in DOMAIN agent'[b].todo :
              agent'[b].todo[n] \in DOMAIN statement'
         /\ jobs' \in Seq([lines : Seq(Line), run : Nat])
         /\ finished' \subseteq Seq(Line)
         /\ agent'[a].todo = Tail(agent[a].todo)
         /\ agent'[a].record = NoRecord /\ agent'[a].step \in {"idle", "finding"}
         /\ \A b \in Agent : b # a => agent'[b] = agent[b]
         /\ \/ jobs' = jobs /\ finished' = finished
            \/ /\ a = Worker /\ agent'[Worker].step = "idle"
               /\ finished' = finished \union {Head(jobs).lines}
<1>1. agent[a].todo # <<>> /\ (a = Worker => jobs # <<>>) /\ AgentOK(a, agent[a])
  BY DEF Typed, Working, AgentOK
<1>2. /\ Tail(agent[a].todo) \in Seq(Nat)
      /\ \A n \in DOMAIN Tail(agent[a].todo) :
           Tail(agent[a].todo)[n] \in DOMAIN statement
  BY <1>1, AtStatement DEF Typed, TypeOK
<1> PICK next :
      next = [Idle EXCEPT !.step = "finding", !.todo = Tail(agent[a].todo)]
  OBVIOUS
<1>3. CASE Tail(agent[a].todo) # <<>>
  <2>1. agent' = [agent EXCEPT ![a] = next] /\ jobs' = jobs /\ finished' = finished
    BY <1>3 DEF Proceed
  <2>2. next \in Session /\ next.todo = Tail(agent[a].todo)
        /\ next.record = NoRecord /\ next.step = "finding" /\ next.read = NoRecord
        /\ next.fresh = <<>>
    BY <1>2, EmptySeq DEF Idle, Session
  <2>3. AgentOK(a, next)' BY <1>1, <1>3, <2>1, <2>2 DEF AgentOK
  <2>4. QED BY <1>2, <2>1, <2>2, <2>3, AgentsKept DEF Typed, TypeOK
<1>4. CASE Tail(agent[a].todo) = <<>> /\ a = Worker
  <2>1. EndJob /\ finished' = finished \union {Head(jobs).lines}
    BY <1>4 DEF Proceed
  <2>2. agent'[a] = Idle /\ \A b \in Agent : b # a => agent'[b] = agent[b]
    BY <1>4, <2>1 DEF EndJob, Typed, TypeOK
  <2>3. QED BY <1>1, <1>4, <2>1, <2>2, EndJobFacts DEF Typed, TypeOK, Idle
<1>5. CASE Tail(agent[a].todo) = <<>> /\ a # Worker
  <2>1. agent' = [agent EXCEPT ![a] = Idle] /\ jobs' = jobs /\ finished' = finished
    BY <1>5 DEF Proceed
  <2>2. AgentOK(a, Idle)' /\ DOMAIN Idle.todo = {} BY DEF Idle, AgentOK
  <2>3. QED BY <1>5, <2>1, <2>2, IdleFacts, AgentsKept DEF Typed, TypeOK, Idle
<1>6. QED BY <1>3, <1>4, <1>5

(* What the step of one agent must show to keep the types.                 *)
LEMMA StatementsKept ==
  ASSUME Typed, statement' = statement
  PROVE  /\ statement' \in Seq(Statement) /\ DOMAIN statement' = DOMAIN statement
         /\ \A i \in DOMAIN statement' :
              statement'[i].status = "RECONCILED" <=> statement'[i].record # NoRecord
BY DEF Typed, TypeOK, Working

LEMMA TypedInsert ==
  ASSUME Typed, NEW lines \in Seq(Line), lines # <<>> => jobs # <<>>,
         statement' = Inserted(lines)
  PROVE  /\ statement' \in Seq(Statement)
         /\ DOMAIN statement \subseteq DOMAIN statement'
         /\ DOMAIN statement' = 1..(Len(statement) + Len(lines))
         /\ \A i \in DOMAIN statement' :
              statement'[i].status = "RECONCILED" <=> statement'[i].record # NoRecord
<1> DEFINE new == Inserted(lines)
<1>1. statement \in Seq(Statement) BY DEF Typed, TypeOK
<1>2. /\ new \in Seq(Statement) /\ Len(new) = Len(statement) + Len(lines)
      /\ \A i \in 1..Len(statement) : new[i] = statement[i]
      /\ \A n \in 1..Len(lines) :
           new[Len(statement) + n] = Create(lines[n], Head(jobs).run)
  BY InsertedFacts
<1> HIDE DEF new
<1>3. Len(statement) \in Nat /\ Len(lines) \in Nat
      /\ DOMAIN statement = 1..Len(statement)
      /\ DOMAIN new = 1..(Len(statement) + Len(lines))
  BY <1>1, <1>2, LenProperties
<1>4. ASSUME NEW i \in DOMAIN new
      PROVE  new[i].status = "RECONCILED" <=> new[i].record # NoRecord
  <2>1. CASE i \in DOMAIN statement
    BY <1>2, <1>3, <2>1 DEF Typed, Working
  <2>2. CASE i \notin DOMAIN statement
    <3> DEFINE n == i - Len(statement)
    <3>1. n \in 1..Len(lines) /\ i = Len(statement) + n BY <1>3, <2>2
    <3> HIDE DEF n
    <3>2. new[i] = Create(lines[n], Head(jobs).run) BY <1>2, <3>1
    <3>3. QED BY <3>2 DEF Create
  <2>3. QED BY <2>1, <2>2
<1>5. QED BY <1>2, <1>3, <1>4 DEF new

LEMMA TypedUpdate ==
  ASSUME Typed, NEW i \in DOMAIN statement, NEW e \in Entry \union {NoRecord},
         UpdateStatus(i, e)
  PROVE  /\ statement' \in Seq(Statement) /\ DOMAIN statement' = DOMAIN statement
         /\ \A j \in DOMAIN statement' :
              statement'[j].status = "RECONCILED" <=> statement'[j].record # NoRecord
         /\ \A f : Renamed(i, f) \in SUBSET Entry
         /\ \A a, f : Since(a, i, f) \in SUBSET Entry
<1>1. /\ statement' \in Seq(Statement) /\ DOMAIN statement' = DOMAIN statement
      /\ statement'[i].record = e
      /\ statement'[i].status = "RECONCILED" <=> e # NoRecord
      /\ \A j \in DOMAIN statement : j # i => statement'[j] = statement[j]
  BY UpdatedFacts
<1>2. \A j \in DOMAIN statement' :
        statement'[j].status = "RECONCILED" <=> statement'[j].record # NoRecord
  BY <1>1 DEF Typed, Working
<1>3. statement[i].record \in Entry \union {NoRecord}
  BY StatementAt DEF Statement
<1>4. QED BY <1>1, <1>2, <1>3 DEF Renamed, Since

(* The steps of the import job.                                            *)
LEMMA TypedImport ==
  ASSUME Typed, Import \/ ImportRead \/ ImportStore PROVE Typed'
<1>1. CASE Import
  <2>1. PICK file \in File : ImportStatement(file) BY <1>1 DEF Import
  <2>2. PICK lost \in {FALSE, TRUE} :
          /\ jobs' = IF lost THEN jobs
                     ELSE Append(jobs, [lines |-> file, run |-> used.uploads + 1])
          /\ used' = [used EXCEPT !.uploads = @ + 1,
                                  !.troubles = @ + IF lost THEN 1 ELSE 0]
    BY <2>1 DEF ImportStatement
  <2>3. /\ UNCHANGED <<statement, record, late, agent>>
        /\ UNCHANGED <<finished, marks, disturbed>>
    BY <2>1 DEF ImportStatement, history
  <2>4. used' \in [uploads : Nat, requests : Nat, cancels : Nat, troubles : Nat]
    <3> DEFINE Uses == [uploads : Nat, requests : Nat, cancels : Nat, troubles : Nat]
    <3>1. ASSUME NEW u \in Uses, NEW k \in {0, 1}
          PROVE  [u EXCEPT !.uploads = @ + 1, !.troubles = @ + k] \in Uses
      <4>1. PICK v : v = [u EXCEPT !.uploads = @ + 1] OBVIOUS
      <4>2. v \in Uses /\ v.troubles = u.troubles BY <4>1
      <4>3. [v EXCEPT !.troubles = @ + k] \in Uses BY <4>2
      <4>4. [u EXCEPT !.uploads = @ + 1, !.troubles = @ + k]
              = [v EXCEPT !.troubles = @ + k]
        BY <4>1, <4>2
      <4>5. QED BY <4>3, <4>4
    <3>2. used \in Uses /\ (IF lost THEN 1 ELSE 0) \in {0, 1}
      BY DEF Typed, TypeOK
    <3> HIDE DEF Uses
    <3>3. used' \in Uses BY <2>2, <3>1, <3>2
    <3>4. QED BY <3>3 DEF Uses
  <2>5. jobs' \in Seq([lines : Seq(Line), run : Nat]) /\ (jobs' = jobs \/ jobs' # <<>>)
    <3>1. [lines |-> file, run |-> used.uploads + 1] \in [lines : Seq(Line), run : Nat]
      BY FileAssumption DEF Typed, TypeOK
    <3> DEFINE Job == [lines : Seq(Line), run : Nat]
               job == [lines |-> file, run |-> used.uploads + 1]
    <3>2. jobs \in Seq(Job) /\ job \in Job BY <3>1 DEF Typed, TypeOK
    <3>3. jobs' = jobs \/ jobs' = Append(jobs, job) BY <2>2
    <3> HIDE DEF Job, job
    <3>4. Append(jobs, job) \in Seq(Job) /\ Append(jobs, job) # <<>>
      BY <3>2, AppendProperties
    <3>5. QED BY <3>2, <3>3, <3>4 DEF Job
  <2>6. TypeOK' BY <2>3, <2>4, <2>5 DEF Typed, TypeOK
  <2>7. Working' BY <2>3, <2>5 DEF Typed, Working, AgentOK
  <2>8. QED BY <2>6, <2>7 DEF Typed
<1>2. CASE ImportRead
  <2>1. /\ UNCHANGED <<statement, record, jobs, late, used>>
        /\ UNCHANGED <<finished, marks, disturbed>>
        /\ agent[Worker].step = "idle" /\ jobs # <<>>
    BY <1>2 DEF ImportRead, history
  <2>2. PICK s : s = [agent[Worker] EXCEPT !.step = "storing",
                                           !.fresh = Fresh(Head(jobs).lines)]
    OBVIOUS
  <2>3. agent' = [agent EXCEPT ![Worker] = s]
    BY <1>2, <2>2 DEF ImportRead, Typed, TypeOK, Agent
  <2>4. Head(jobs).lines \in Seq(Line)
    <3> DEFINE Job == [lines : Seq(Line), run : Nat]
    <3>1. jobs \in Seq(Job) BY DEF Typed, TypeOK
    <3> HIDE DEF Job
    <3>2. Head(jobs) \in Job BY <2>1, <3>1, HeadTailProperties
    <3>3. QED BY <3>2 DEF Job
  <2>5. Fresh(Head(jobs).lines) \in Seq(Line) BY <2>4, TakenFacts DEF Fresh
  <2>6. agent[Worker] \in Session /\ AgentOK(Worker, agent[Worker])
    BY DEF Typed, TypeOK, Working, Agent
  <2>7. s \in Session /\ s.step = "storing" /\ s.todo = agent[Worker].todo
        /\ s.record = agent[Worker].record /\ s.read = agent[Worker].read
    BY <2>2, <2>5, <2>6 DEF Session
  <2>8. AgentOK(Worker, s)' /\ DOMAIN s.todo = {}
    BY <2>1, <2>6, <2>7 DEF AgentOK
  <2>9. /\ agent' \in [Agent -> Session] /\ \A b \in Agent : AgentOK(b, agent[b])'
        /\ \A b \in Agent : \A n \in DOMAIN agent'[b].todo :
             agent'[b].todo[n] \in DOMAIN statement'
    BY <2>1, <2>3, <2>7, <2>8, AgentsKept DEF Agent
  <2>10. QED BY <2>1, <2>9, StatementsKept DEF Typed, TypeOK, Working
<1>3. CASE ImportStore
  <2> DEFINE fresh == agent[Worker].fresh
  <2>1. /\ UNCHANGED <<record, late, marks, disturbed, used>>
        /\ agent[Worker].step = "storing" /\ statement' = Inserted(fresh)
    BY <1>3 DEF ImportStore
  <2>2. fresh \in Seq(Line) /\ jobs # <<>> /\ AgentOK(Worker, agent[Worker])
    BY <2>1 DEF Typed, TypeOK, Working, AgentOK, Session, Agent
  <2>3. /\ statement' \in Seq(Statement)
        /\ DOMAIN statement \subseteq DOMAIN statement'
        /\ DOMAIN statement' = 1..(Len(statement) + Len(fresh))
        /\ \A i \in DOMAIN statement' :
             statement'[i].status = "RECONCILED" <=> statement'[i].record # NoRecord
    BY <2>1, <2>2, TypedInsert
  <2>4. CASE ToReconcile(fresh) = <<>>
    <3>1. EndJob /\ finished' = finished \union {Head(jobs).lines}
      BY <1>3, <2>4 DEF ImportStore
    <3>2. QED BY <2>1, <2>2, <2>3, <3>1, EndJobFacts DEF Typed, TypeOK, Working
  <2>5. CASE ToReconcile(fresh) # <<>>
    <3>1. PICK s : s = [Idle EXCEPT !.step = "finding", !.todo = ToReconcile(fresh)]
      OBVIOUS
    <3>2. agent' = [agent EXCEPT ![Worker] = s] /\ jobs' = jobs
          /\ finished' = finished
      BY <1>3, <2>5, <3>1 DEF ImportStore
    <3>3. /\ ToReconcile(fresh) \in Seq(Nat)
          /\ \A n \in DOMAIN ToReconcile(fresh) :
               ToReconcile(fresh)[n] \in DOMAIN statement'
      <4>1. Len(fresh) \in Nat /\ DOMAIN fresh = 1..Len(fresh)
            /\ Len(statement) \in Nat
        BY <2>2, LenProperties DEF Typed, TypeOK
      <4>2. ToReconcile(fresh) = [n \in 1..Len(fresh) |-> Len(statement) + n]
        BY <4>1 DEF ToReconcile
      <4> HIDE DEF fresh
      <4>3. QED BY <2>3, <4>1, <4>2
    <3>4. s \in Session /\ s.todo = ToReconcile(fresh) /\ s.step = "finding"
          /\ s.record = NoRecord /\ s.read = NoRecord /\ s.fresh = <<>>
      BY <3>1, <3>3, EmptySeq DEF Idle, Session
    <3>5. AgentOK(Worker, s)' BY <2>2, <2>5, <3>2, <3>4 DEF AgentOK
    <3>6. /\ agent' \in [Agent -> Session] /\ \A b \in Agent : AgentOK(b, agent[b])'
          /\ \A b \in Agent : \A n \in DOMAIN agent'[b].todo :
               agent'[b].todo[n] \in DOMAIN statement'
      BY <2>3, <3>2, <3>3, <3>4, <3>5, AgentsKept DEF Agent
    <3>7. QED BY <2>1, <2>3, <3>2, <3>6 DEF Typed, TypeOK, Working
  <2>6. QED BY <2>4, <2>5
<1>4. QED BY <1>1, <1>2, <1>3

(* What a reconciliation starts from.                                      *)
LEMMA AtWork ==
  ASSUME Typed, NEW a \in Agent, agent[a].step \in {"finding", "saving", "linking"}
  PROVE  /\ agent[a] \in Session /\ AgentOK(a, agent[a])
         /\ agent[a].todo # <<>> /\ Head(agent[a].todo) \in DOMAIN statement
         /\ agent[a].read = NoRecord
         /\ agent[a].record \in Entry \union {NoRecord}
<1>1. agent[a] \in Session /\ AgentOK(a, agent[a])
  BY DEF Typed, TypeOK, Working
<1>2. QED BY <1>1, AtStatement DEF AgentOK, Session

LEMMA TwoMarks ==
  ASSUME TypeOK, NEW k \in Anomaly, NEW l \in Anomaly,
         NEW E \in SUBSET Entry, NEW F \in SUBSET Entry
  PROVE  [marks EXCEPT ![k] = @ \union E, ![l] = @ \union F]
           \in [Anomaly -> SUBSET Entry]
BY DEF TypeOK

(* The steps of BankStatementReconciler.                                   *)
LEMMA TypedReconcile ==
  ASSUME Typed, NEW a \in Agent, Reconcile(a) PROVE Typed'
<1> DEFINE i == Head(agent[a].todo)
<1>1. CASE Find(a)
  <2>1. /\ agent[a].step = "finding"
        /\ UNCHANGED <<statement, record, jobs, late, finished, disturbed, used>>
    BY <1>1 DEF Find
  <2>2. PICK e \in Entry \union {NoRecord} :
          /\ agent' = [agent EXCEPT ![a].step = "saving", ![a].record = e]
          /\ marks' = IF e # NoRecord /\ Coming(e) THEN Mark("shared", {e})
                      ELSE marks
    BY <1>1 DEF Find, Candidates
  <2>3. marks' \in [Anomaly -> SUBSET Entry]
    BY <2>2, MarkType DEF Typed, TypeOK, Anomaly
  <2>4. agent[a] \in Session /\ AgentOK(a, agent[a]) /\ agent \in [Agent -> Session]
    BY <2>1, AtWork DEF Typed, TypeOK
  <2>5. PICK t : t = [agent[a] EXCEPT !.step = "saving"] OBVIOUS
  <2>6. PICK s : s = [t EXCEPT !.record = e] OBVIOUS
  <2>7. t \in Session /\ t.step = "saving" /\ t.todo = agent[a].todo
        /\ t.fresh = agent[a].fresh /\ t.read = agent[a].read
    BY <2>4, <2>5 DEF Session
  <2>8. s \in Session /\ s.step = "saving" /\ s.todo = agent[a].todo
        /\ s.fresh = agent[a].fresh /\ s.read = agent[a].read /\ s.record = e
    BY <2>6, <2>7 DEF Session
  <2>9. agent' = [agent EXCEPT ![a] = s]
    BY <2>2, <2>4, <2>5, <2>6 DEF Session
  <2>10. AgentOK(a, s)' BY <2>1, <2>4, <2>8 DEF AgentOK
  <2>11. \A n \in DOMAIN s.todo : s.todo[n] \in DOMAIN statement'
    BY <2>1, <2>8 DEF Typed, TypeOK
  <2>12. /\ agent' \in [Agent -> Session] /\ \A b \in Agent : AgentOK(b, agent[b])'
         /\ \A b \in Agent : \A n \in DOMAIN agent'[b].todo :
              agent'[b].todo[n] \in DOMAIN statement'
    BY <2>1, <2>8, <2>9, <2>10, <2>11, AgentsKept
  <2>13. QED BY <2>1, <2>3, <2>12, StatementsKept DEF Typed, TypeOK, Working
<1>2. CASE SaveUnmatched(a)
  <2>1. /\ agent[a].step = "saving" /\ agent[a].record = NoRecord
        /\ UpdateStatus(i, NoRecord) /\ Proceed(a)
        /\ marks' = Mark("unnamed", Since(a, i, NoRecord))
        /\ UNCHANGED <<record, late, disturbed, used>>
    BY <1>2 DEF SaveUnmatched
  <2>2. i \in DOMAIN statement BY <2>1, AtWork
  <2> HIDE DEF i
  <2>3. /\ statement' \in Seq(Statement) /\ DOMAIN statement' = DOMAIN statement
        /\ \A j \in DOMAIN statement' :
             statement'[j].status = "RECONCILED" <=> statement'[j].record # NoRecord
        /\ Since(a, i, NoRecord) \in SUBSET Entry
    BY <2>1, <2>2, TypedUpdate
  <2>4. marks' \in [Anomaly -> SUBSET Entry]
    BY <2>1, <2>3, MarkType DEF Typed, Anomaly
  <2>5. QED BY <2>1, <2>3, <2>4, ProceedFacts DEF Typed, TypeOK, Working
<1>3. CASE SaveMatched(a)
  <2>1. PICK e \in Entry : e = agent[a].record
    <3>1. agent[a].step = "saving" /\ agent[a].record # NoRecord
      BY <1>3 DEF SaveMatched
    <3>2. QED BY <3>1, AtWork
  <2>2. /\ agent[a].step = "saving" /\ UpdateStatus(i, e) /\ Proceed(a)
        /\ UNCHANGED <<record, disturbed>>
    BY <1>3, <2>1 DEF SaveMatched
  <2>3. PICK lost \in BOOLEAN :
          /\ Dispatch([record |-> e, id |-> TRUE], lost)
          /\ marks' = [marks EXCEPT
               !["unnamed"] = @ \union Since(a, i, e),
               !["dropped"] = @ \union IF lost THEN {e} ELSE {}]
    BY <1>3, <2>1 DEF SaveMatched
  <2>4. i \in DOMAIN statement BY <2>2, AtWork
  <2> HIDE DEF i
  <2>5. /\ statement' \in Seq(Statement) /\ DOMAIN statement' = DOMAIN statement
        /\ \A j \in DOMAIN statement' :
             statement'[j].status = "RECONCILED" <=> statement'[j].record # NoRecord
        /\ Since(a, i, e) \in SUBSET Entry
    BY <2>2, <2>4, TypedUpdate
  <2>6. marks' \in [Anomaly -> SUBSET Entry]
    <3>1. PICK F \in SUBSET Entry : F = IF lost THEN {e} ELSE {} OBVIOUS
    <3>2. marks' = [marks EXCEPT !["unnamed"] = @ \union Since(a, i, e),
                                 !["dropped"] = @ \union F]
      BY <2>3, <3>1
    <3>3. QED BY <2>5, <3>2, TwoMarks DEF Typed, Anomaly
  <2>7. late' \in Seq(LateJob)
        /\ used' \in [uploads : Nat, requests : Nat, cancels : Nat, troubles : Nat]
    BY <2>3, DispatchFacts DEF Typed, LateJob
  <2>8. QED BY <2>2, <2>5, <2>6, <2>7, ProceedFacts DEF Typed, TypeOK, Working
<1>4. QED BY <1>1, <1>2, <1>3 DEF Reconcile

(* The steps of a request: it retries, or links by hand.                   *)
LEMMA TypedRequest ==
  ASSUME Typed, NEW q \in Request, Retry(q) \/ Link(q) \/ LinkSave(q)
  PROVE  Typed'
<1>1. q \in Agent /\ q # Worker BY RequestAssumption DEF Agent
<1>2. ASSUME NEW s \in Session, Begin(q, s), AgentOK(q, s)',
             \A n \in DOMAIN s.todo : s.todo[n] \in DOMAIN statement,
             UNCHANGED <<statement, record, jobs, late, history>>
      PROVE  Typed'
  <2>1. /\ agent' = [agent EXCEPT ![q] = s]
        /\ used' \in [uploads : Nat, requests : Nat, cancels : Nat, troubles : Nat]
    BY <1>2, TroubleType DEF Begin, Typed
  <2>2. UNCHANGED <<statement, record, jobs, late, finished, marks, disturbed>>
    BY <1>2 DEF history
  <2>3. /\ agent' \in [Agent -> Session] /\ \A b \in Agent : AgentOK(b, agent[b])'
        /\ \A b \in Agent : \A n \in DOMAIN agent'[b].todo :
             agent'[b].todo[n] \in DOMAIN statement'
    BY <1>1, <1>2, <2>1, <2>2, AgentsKept
  <2>4. QED BY <2>1, <2>2, <2>3, StatementsKept DEF Typed, TypeOK, Working
<1>3. ASSUME NEW i \in DOMAIN statement
      PROVE  /\ i \in Nat /\ <<i>> \in Seq(Nat) /\ <<i>> # <<>>
             /\ \A n \in DOMAIN <<i>> : <<i>>[n] = i
  BY LenProperties DEF Typed, TypeOK
<1>4. CASE Retry(q)
  <2>1. PICK i \in DOMAIN statement : RetryRead(q, i) BY <1>4 DEF Retry
  <2>2. PICK s : s = Reading(i) OBVIOUS
  <2>3. statement[i].record = NoRecord
    BY <2>1 DEF RetryRead, Typed, Working
  <2>4. s \in Session /\ s.todo = <<i>> /\ s.step = "finding" /\ s.record = NoRecord
        /\ s.read = NoRecord /\ s.fresh = <<>>
    BY <1>3, <2>2, <2>3, EmptySeq DEF Reading, Idle, Session
  <2>5. AgentOK(q, s)' BY <1>1, <1>3, <2>4 DEF AgentOK
  <2>6. QED BY <1>2, <1>3, <2>1, <2>2, <2>4, <2>5 DEF RetryRead
<1>5. CASE Link(q)
  <2>1. PICK i \in DOMAIN statement, e \in Entry : LinkRead(q, i, e)
    BY <1>5 DEF Link
  <2>2. PICK s : s = [Idle EXCEPT !.step = "linking", !.todo = <<i>>, !.record = e]
    OBVIOUS
  <2>3. s \in Session /\ s.todo = <<i>> /\ s.step = "linking" /\ s.record = e
        /\ s.read = NoRecord /\ s.fresh = <<>>
    BY <1>3, <2>2, EmptySeq DEF Idle, Session
  <2>4. AgentOK(q, s)' BY <1>1, <1>3, <2>3, RecordAssumption DEF AgentOK
  <2>5. Begin(q, s) /\ UNCHANGED <<statement, record, jobs, late, history>>
    BY <2>1, <2>2 DEF LinkRead
  <2>6. \A n \in DOMAIN s.todo : s.todo[n] \in DOMAIN statement BY <1>3, <2>3
  <2>7. QED BY <1>2, <2>3, <2>4, <2>5, <2>6
<1>6. CASE LinkSave(q)
  <2> DEFINE i == Head(agent[q].todo)
  <2>1. PICK e : e = agent[q].record OBVIOUS
  <2>2. /\ agent[q].step = "linking" /\ UpdateStatus(i, e)
        /\ marks' = [marks EXCEPT !["unnamed"] = @ \union Renamed(i, e),
                                  !["hand"] = @ \union {e}]
        /\ agent' = [agent EXCEPT ![q] = Idle]
        /\ UNCHANGED <<record, jobs, finished, disturbed>>
    BY <1>6, <2>1 DEF LinkSave
  <2>3. PICK lost \in BOOLEAN : Dispatch([record |-> e, id |-> FALSE], lost)
    BY <1>6, <2>1 DEF LinkSave
  <2>4. i \in DOMAIN statement /\ e \in Entry
    BY <1>1, <2>1, <2>2, AtWork DEF AgentOK
  <2> HIDE DEF i
  <2>5. /\ statement' \in Seq(Statement) /\ DOMAIN statement' = DOMAIN statement
        /\ \A j \in DOMAIN statement' :
             statement'[j].status = "RECONCILED" <=> statement'[j].record # NoRecord
        /\ Renamed(i, e) \in SUBSET Entry
    BY <2>2, <2>4, TypedUpdate
  <2>6. marks' \in [Anomaly -> SUBSET Entry]
    <3>1. PICK F \in SUBSET Entry : F = {e} BY <2>4
    <3>2. marks' = [marks EXCEPT !["unnamed"] = @ \union Renamed(i, e),
                                 !["hand"] = @ \union F]
      BY <2>2, <3>1
    <3>3. QED BY <2>5, <3>2, TwoMarks DEF Typed, Anomaly
  <2>7. late' \in Seq(LateJob)
        /\ used' \in [uploads : Nat, requests : Nat, cancels : Nat, troubles : Nat]
    BY <2>3, <2>4, DispatchFacts DEF Typed, LateJob
  <2>8. AgentOK(q, Idle)' /\ DOMAIN Idle.todo = {} BY DEF AgentOK, Idle
  <2>9. /\ agent' \in [Agent -> Session] /\ \A b \in Agent : AgentOK(b, agent[b])'
        /\ \A b \in Agent : \A n \in DOMAIN agent'[b].todo :
             agent'[b].todo[n] \in DOMAIN statement'
    BY <1>1, <2>2, <2>5, <2>8, IdleFacts, AgentsKept
  <2>10. QED BY <2>2, <2>5, <2>6, <2>7, <2>9 DEF Typed, TypeOK, Working
<1>7. QED BY <1>4, <1>5, <1>6

LEMMA LateHead ==
  ASSUME TypeOK, late # <<>>
  PROVE  /\ Head(late) \in LateJob /\ Head(late).record \in Entry
         /\ Tail(late) \in Seq(LateJob)
<1>1. late \in Seq(LateJob) BY DEF TypeOK
<1>2. Head(late) \in LateJob /\ Tail(late) \in Seq(LateJob)
  BY <1>1, HeadTailProperties
<1>3. QED BY <1>2 DEF LateJob

(* The ledger's part.                                                      *)
LEMMA TypedLedger ==
  ASSUME Typed,
         \/ StatusJob \/ StatusJobFails
         \/ \E e \in Entry : CreateRecord(e) \/ CancelRecord(e)
  PROVE  Typed'
<1>1. ASSUME UNCHANGED <<statement, jobs, agent, finished, disturbed>>,
             record' \in [Entry -> RecordStatus], late' \in Seq(LateJob),
             marks' \in [Anomaly -> SUBSET Entry],
             used' \in [uploads : Nat, requests : Nat, cancels : Nat, troubles : Nat]
      PROVE  Typed'
  BY <1>1 DEF Typed, TypeOK, Working, AgentOK
<1>2. CASE StatusJob
  <2>1. /\ record' = IF Head(late).id
                     THEN [record EXCEPT ![Head(late).record] = "RECONCILED"]
                     ELSE record
        /\ late # <<>> /\ late' = Tail(late)
        /\ UNCHANGED <<statement, jobs, agent, finished, marks, disturbed, used>>
    BY <1>2 DEF StatusJob, history
  <2>2. record' \in [Entry -> RecordStatus]
    BY <2>1, LateHead DEF Typed, TypeOK, RecordStatus
  <2>3. QED BY <1>1, <2>1, <2>2, LateHead DEF Typed, TypeOK
<1>3. CASE StatusJobFails
  <2>1. /\ late # <<>> /\ Spend("troubles") /\ late' = Tail(late)
        /\ marks' = Mark("dropped", {Head(late).record})
        /\ UNCHANGED <<statement, record, jobs, agent, finished, disturbed>>
    BY <1>3 DEF StatusJobFails, Trouble
  <2>2. marks' \in [Anomaly -> SUBSET Entry]
    BY <2>1, LateHead, MarkType DEF Typed, Anomaly
  <2>3. QED BY <1>1, <2>1, <2>2, LateHead, TroubleType DEF Typed, TypeOK
<1>4. ASSUME NEW e \in Entry, CreateRecord(e) PROVE Typed'
  <2>1. /\ record' = [record EXCEPT ![e] = "OPEN"]
        /\ UNCHANGED <<statement, jobs, late, agent, finished, marks, disturbed, used>>
    BY <1>4 DEF CreateRecord, history
  <2>2. record' \in [Entry -> RecordStatus]
    BY <2>1 DEF Typed, TypeOK, RecordStatus
  <2>3. QED BY <1>1, <2>1, <2>2 DEF Typed, TypeOK
<1>5. ASSUME NEW e \in Entry, CancelRecord(e) PROVE Typed'
  <2>1. /\ record' = [record EXCEPT ![e] = "VOID"] /\ Spend("cancels")
        /\ UNCHANGED <<statement, jobs, late, agent, finished, marks, disturbed>>
    BY <1>5 DEF CancelRecord, history
  <2>2. record' \in [Entry -> RecordStatus]
    BY <2>1 DEF Typed, TypeOK, RecordStatus
  <2>3. QED BY <1>1, <2>1, <2>2, TroubleType DEF Typed, TypeOK
<1>6. QED BY <1>2, <1>3, <1>4, <1>5

(* What a crash leaves of an insertion.                                    *)
LEMMA CrashStores ==
  ASSUME Typed, Crash
  PROVE  /\ agent[Worker].fresh \in Seq(Line)
         /\ agent[Worker].fresh # <<>> => jobs # <<>> /\ agent[Worker].step = "storing"
         /\ \E lines \in Seq(Line) :
              /\ statement' = Inserted(lines)
              /\ lines # <<>> => agent[Worker].fresh # <<>>
              /\ \A m \in DOMAIN lines : m \in DOMAIN agent[Worker].fresh
                                         /\ lines[m] = agent[Worker].fresh[m]
<1>1. agent[Worker].fresh \in Seq(Line) /\ AgentOK(Worker, agent[Worker])
  BY DEF Typed, TypeOK, Working, Session, Agent
<1>2. PICK n \in 0..Len(agent[Worker].fresh) :
        statement' = Inserted(SubSeq(agent[Worker].fresh, 1, n))
  BY DEF Crash
<1> DEFINE fresh == agent[Worker].fresh
           lines == SubSeq(fresh, 1, n)
<1>3. /\ lines \in Seq(Line) /\ n \in Nat /\ n =< Len(fresh)
      /\ Len(lines) = n /\ DOMAIN fresh = 1..Len(fresh) /\ Len(fresh) \in Nat
      /\ \A m \in 1..n : lines[m] = fresh[m]
  <2>1. fresh \in Seq(Line) BY <1>1
  <2> HIDE DEF fresh
  <2>2. Len(fresh) \in Nat /\ DOMAIN fresh = 1..Len(fresh)
        /\ n \in 0..Len(fresh)
    BY <1>2, <2>1, LenProperties DEF fresh
  <2>3. \A m \in 1..n : fresh[m] \in Line BY <2>1, <2>2, ElementOfSeq
  <2>4. lines \in Seq(Line) /\ Len(lines) = (IF 1 =< n THEN n - 1 + 1 ELSE 0)
        /\ \A m \in 1..n : lines[m] = fresh[m]
    BY <2>1, <2>2, <2>3, SubSeqProperties
  <2>5. QED BY <2>2, <2>4
<1>4. statement' = Inserted(lines) BY <1>2
<1> HIDE DEF lines
<1>5. lines # <<>> => fresh # <<>>
  <2>1. SUFFICES ASSUME fresh = <<>> PROVE lines = <<>> OBVIOUS
  <2>2. Len(fresh) = 0 BY <2>1
  <2>3. Len(lines) = 0 BY <1>3, <2>2
  <2>4. QED BY <1>3, <2>3, EmptySeq
<1>6. DOMAIN lines = 1..n BY <1>3, LenProperties
<1>7. \A m \in DOMAIN lines : m \in DOMAIN fresh /\ lines[m] = fresh[m]
  BY <1>3, <1>6
<1>8. QED BY <1>1, <1>3, <1>4, <1>5, <1>7 DEF AgentOK

(* Troubles.                                                               *)
LEMMA TypedTrouble == ASSUME Typed, ImportFails \/ Crash PROVE Typed'
<1>1. CASE ImportFails
  <2>1. /\ agent[Worker].step # "idle" /\ EndJob /\ disturbed' = TRUE
        /\ Spend("troubles")
        /\ UNCHANGED <<statement, record, late, finished, marks>>
    BY <1>1 DEF ImportFails, Trouble
  <2>2. jobs # <<>> BY <2>1 DEF Typed, Working, AgentOK, Agent
  <2>3. QED BY <2>1, <2>2, EndJobFacts, StatementsKept, TroubleType
            DEF Typed, TypeOK, Working
<1>2. CASE Crash
  <2>1. /\ agent' = [a \in Agent |-> Idle] /\ Spend("troubles")
        /\ disturbed' = (disturbed \/ agent[Worker].step # "idle")
        /\ UNCHANGED <<record, jobs, late, finished, marks>>
    BY <1>2 DEF Crash, Trouble
  <2>2. PICK lines \in Seq(Line) : /\ statement' = Inserted(lines)
                                   /\ lines # <<>> => jobs # <<>>
    BY <1>2, CrashStores
  <2>3. /\ statement' \in Seq(Statement)
        /\ \A i \in DOMAIN statement' :
             statement'[i].status = "RECONCILED" <=> statement'[i].record # NoRecord
    BY <2>2, TypedInsert
  <2>4. \A a \in Agent : agent'[a] = Idle /\ AgentOK(a, agent[a])'
    BY <2>1, IdleFacts DEF AgentOK, Idle
  <2>5. \A a \in Agent : DOMAIN agent'[a].todo = {} BY <2>4 DEF Idle
  <2>6. QED BY <2>1, <2>3, <2>4, <2>5, IdleFacts, TroubleType
            DEF Typed, TypeOK, Working
<1>3. QED BY <1>1, <1>2

LEMMA TypedNext == Typed /\ [Next]_vars => Typed'
<1> SUFFICES ASSUME Typed, [Next]_vars PROVE Typed' OBVIOUS
<1>1. CASE Next
  <2>1. \A q \in Request : q \in Agent BY DEF Agent
  <2>2. Worker \in Agent BY DEF Agent
  <2>3. QED BY <1>1, <2>1, <2>2, TypedImport, TypedReconcile, TypedRequest,
               TypedLedger, TypedTrouble DEF Next, ImportStep
<1>2. CASE UNCHANGED vars
  BY <1>2 DEF vars, history, Typed, TypeOK, Working, AgentOK
<1>3. QED BY <1>1, <1>2

(* The type invariant.                                                     *)
THEOREM TypeCorrect == Spec => []TypeOK
<1>1. Typed => TypeOK BY DEF Typed
<1>2. QED BY <1>1, TypedInit, TypedNext, PTL DEF Spec

(***************************************************************************)
(* The lines of the statements.                                            *)
(***************************************************************************)

(* The worker holds the lines of its file that are not known, and when it  *)
(* has stored them it knows them all.                                      *)
Awaited ==
  LET w == agent[Worker] IN
  /\ w.step = "storing" =>
       /\ \A n \in DOMAIN w.fresh : ~Known(w.fresh[n])
       /\ \A line \in Range(Head(jobs).lines) :
            Known(line) \/ \E n \in DOMAIN w.fresh : w.fresh[n] = line
  /\ w.step \in {"finding", "saving"} =>
       \A line \in Range(Head(jobs).lines) : Known(line)

Stocked == LinesStoredOnce /\ Awaited

InLate(job) == \E n \in DOMAIN late : late[n] = job

OneImport ==
  \A i, j \in DOMAIN statement :
    \/ statement[i].run = statement[j].run
    \/ /\ FitId(statement[i].line) # FitId(statement[j].line)
       /\ Hash(statement[i].line) # Hash(statement[j].line)

(* Status and record may change: nothing about the lines does.             *)
LEMMA LinesSame ==
  ASSUME DOMAIN statement' = DOMAIN statement,
         \A i \in DOMAIN statement : statement'[i].line = statement[i].line
                                     /\ statement'[i].run = statement[i].run
  PROVE  /\ \A line : Known(line)' <=> Known(line)
         /\ OneImport => OneImport'
<1>1. \A line : Known(line)' <=> Known(line) BY DEF Known
<1>2. ASSUME OneImport PROVE OneImport'
  <2>1. SUFFICES ASSUME NEW i \in DOMAIN statement, NEW j \in DOMAIN statement
                 PROVE  \/ statement'[i].run = statement'[j].run
                        \/ /\ FitId(statement'[i].line) # FitId(statement'[j].line)
                           /\ Hash(statement'[i].line) # Hash(statement'[j].line)
    BY DEF OneImport
  <2>2. QED BY <1>2 DEF OneImport
<1>3. QED BY <1>1, <1>2

(* Lines that are not known may be stored.                                 *)
LEMMA LinesInserted ==
  ASSUME Typed, NEW lines \in Seq(Line), lines # <<>> => jobs # <<>>,
         statement' = Inserted(lines), \A n \in DOMAIN lines : ~Known(lines[n])
  PROVE  /\ \A line : Known(line) => Known(line)'
         /\ \A n \in DOMAIN lines : Known(lines[n])'
         /\ OneImport => OneImport'
<1> DEFINE old == 1..Len(statement)
           new == Inserted(lines)
<1>1. /\ Len(statement) \in Nat /\ DOMAIN statement = old
      /\ Len(lines) \in Nat /\ DOMAIN lines = 1..Len(lines)
      /\ DOMAIN new = 1..(Len(statement) + Len(lines))
      /\ \A i \in old : new[i] = statement[i]
      /\ \A n \in 1..Len(lines) :
           new[Len(statement) + n] = Create(lines[n], Head(jobs).run)
  <2>1. statement \in Seq(Statement) BY DEF Typed, TypeOK
  <2>2. QED BY <2>1, LenProperties, InsertedFacts
<1>2. statement' = new OBVIOUS
<1> HIDE DEF new
<1>3. ASSUME NEW i \in DOMAIN new, i \notin old
      PROVE  \E n \in DOMAIN lines : /\ i = Len(statement) + n
                                     /\ new[i].line = lines[n]
                                     /\ new[i].run = Head(jobs).run
  <2> DEFINE n == i - Len(statement)
  <2>1. n \in DOMAIN lines /\ i = Len(statement) + n BY <1>1, <1>3
  <2> HIDE DEF n
  <2>2. new[i] = Create(lines[n], Head(jobs).run) BY <1>1, <2>1
  <2>3. new[i].line = lines[n] /\ new[i].run = Head(jobs).run
    BY <2>2 DEF Create
  <2>4. QED BY <2>1, <2>3
<1>4. ASSUME NEW n \in DOMAIN lines
      PROVE  Len(statement) + n \in DOMAIN new
             /\ new[Len(statement) + n].line = lines[n]
  <2>1. n \in 1..Len(lines) /\ Len(statement) + n \in DOMAIN new BY <1>1
  <2>2. new[Len(statement) + n] = Create(lines[n], Head(jobs).run) BY <1>1, <2>1
  <2>3. QED BY <2>1, <2>2 DEF Create
<1>5. \A i \in old : i \in DOMAIN new BY <1>1
<1>6. ASSUME NEW line, Known(line) PROVE Known(line)'
  BY <1>1, <1>2, <1>5, <1>6 DEF Known
<1>7. ASSUME NEW n \in DOMAIN lines PROVE Known(lines[n])'
  <2>1. PICK i \in DOMAIN new : new[i].line = lines[n] BY <1>4
  <2>2. QED BY <1>2, <2>1 DEF Known
<1>8. ASSUME OneImport, NEW i \in DOMAIN new, NEW j \in DOMAIN new
      PROVE  \/ new[i].run = new[j].run
             \/ /\ FitId(new[i].line) # FitId(new[j].line)
                /\ Hash(new[i].line) # Hash(new[j].line)
  <2>1. ASSUME NEW x \in old, NEW y \in DOMAIN new, y \notin old
        PROVE  /\ FitId(new[x].line) # FitId(new[y].line)
               /\ Hash(new[x].line) # Hash(new[y].line)
    <3>1. PICK n \in DOMAIN lines : new[y].line = lines[n] BY <1>3, <2>1
    <3>2. new[x] = statement[x] /\ x \in DOMAIN statement BY <1>1
    <3>3. QED BY <3>1, <3>2 DEF Known
  <2>2. CASE i \in old /\ j \in old BY <1>1, <1>8, <2>2 DEF OneImport
  <2>3. CASE i \in old /\ j \notin old BY <2>1, <2>3
  <2>4. CASE i \notin old /\ j \in old
    <3>1. /\ FitId(new[j].line) # FitId(new[i].line)
          /\ Hash(new[j].line) # Hash(new[i].line)
      BY <2>1, <2>4
    <3>2. QED BY <3>1
  <2>5. CASE i \notin old /\ j \notin old BY <1>3, <2>5
  <2>6. QED BY <2>2, <2>3, <2>4, <2>5
<1>9. OneImport => OneImport' BY <1>2, <1>8 DEF OneImport
<1>10. QED BY <1>6, <1>7, <1>9

(* An update of a statement, whoever makes it.                             *)
Saves(a) == SaveUnmatched(a) \/ SaveMatched(a) \/ (a \in Request /\ LinkSave(a))

LEMMA Updates ==
  ASSUME Typed, NEW a \in Agent, Saves(a)
  PROVE  \E i \in DOMAIN statement, e \in Entry \union {NoRecord} :
    /\ i = Head(agent[a].todo) /\ e = agent[a].record
    /\ agent[a].step \in {"saving", "linking"}
    /\ DOMAIN statement' = DOMAIN statement
    /\ statement'[i].line = statement[i].line
    /\ statement'[i].run = statement[i].run
    /\ statement'[i].record = e
    /\ statement'[i].status # "PENDING"
    /\ \A j \in DOMAIN statement : j # i => statement'[j] = statement[j]
    /\ \A b \in Agent : b # a => agent'[b] = agent[b]
    /\ agent'[a].record = NoRecord /\ agent'[a].step \in {"idle", "finding"}
    /\ agent[a].step = "saving" => agent'[a].todo = Tail(agent[a].todo)
    /\ agent[a].step = "linking" => a # Worker /\ e # NoRecord
    /\ UNCHANGED <<record, disturbed>>
    /\ \/ jobs' = jobs /\ finished' = finished
       \/ /\ a = Worker /\ agent'[Worker].step = "idle"
          /\ finished' = finished \union {Head(jobs).lines}
    /\ \A kind \in Anomaly : marks[kind] \subseteq marks'[kind]
    /\ Renamed(i, e) \subseteq marks'["unnamed"]
    /\ agent[a].step = "linking" => e \in marks'["hand"]
    /\ \A job : InLate(job) => InLate(job)'
    /\ \A job : InLate(job)' => InLate(job) \/ (job.record = e /\ e # NoRecord)
    /\ e # NoRecord /\ agent[a].step = "saving" =>
         InLate([record |-> e, id |-> TRUE])' \/ e \in marks'["dropped"]
<1>0. PICK i, e : i = Head(agent[a].todo) /\ e = agent[a].record OBVIOUS
<1>1. /\ agent[a].step \in {"saving", "linking"}
      /\ UNCHANGED <<record, disturbed>> /\ UpdateStatus(i, e)
  BY <1>0 DEF Saves, SaveUnmatched, SaveMatched, LinkSave
<1>2. /\ i \in DOMAIN statement /\ e \in Entry \union {NoRecord}
      /\ agent[a].read = NoRecord
      /\ agent[a].step = "linking" => a # Worker /\ e # NoRecord
  BY <1>0, <1>1, AtWork DEF AgentOK
<1>3. Since(a, i, e) = Renamed(i, e) BY <1>2 DEF Since, Renamed
<1>4. ASSUME NEW job \in LateJob, NEW lost \in BOOLEAN, Dispatch(job, lost)
      PROVE  /\ \A j : InLate(j) => InLate(j)'
             /\ \A j : InLate(j)' => InLate(j) \/ j = job
             /\ ~lost => InLate(job)'
  <2>1. CASE lost
    <3>1. late' = late BY <1>4, <2>1, DispatchFacts DEF Typed
    <3>2. QED BY <2>1, <3>1 DEF InLate
  <2>2. CASE ~lost
    <3>1. late' = Append(late, job) /\ late \in Seq(LateJob)
      BY <1>4, <2>2, DispatchFacts DEF Typed, TypeOK
    <3>2. /\ Len(late) \in Nat /\ DOMAIN late = 1..Len(late)
          /\ DOMAIN late' = 1..(Len(late) + 1)
          /\ \A n \in 1..Len(late) : late'[n] = late[n]
          /\ late'[Len(late) + 1] = job
      <4>1. /\ Append(late, job) \in Seq(LateJob)
            /\ Len(Append(late, job)) = Len(late) + 1
            /\ \A n \in 1..Len(late) : Append(late, job)[n] = late[n]
            /\ Append(late, job)[Len(late) + 1] = job
        BY <3>1, AppendProperties
      <4>2. QED BY <3>1, <4>1, LenProperties
    <3>3. Len(late) + 1 \in DOMAIN late' /\ \A n \in DOMAIN late : n \in DOMAIN late'
      BY <3>2
    <3>4. ASSUME NEW n \in DOMAIN late', n \notin DOMAIN late
          PROVE  n = Len(late) + 1
      BY <3>2, <3>4
    <3>5. QED BY <3>2, <3>3, <3>4 DEF InLate
  <2>3. QED BY <2>1, <2>2
<1>5. /\ \A kind \in Anomaly : marks[kind] \subseteq marks'[kind]
      /\ Renamed(i, e) \subseteq marks'["unnamed"]
      /\ agent[a].step = "linking" => e \in marks'["hand"]
      /\ \A job : InLate(job) => InLate(job)'
      /\ \A job : InLate(job)' => InLate(job) \/ (job.record = e /\ e # NoRecord)
      /\ e # NoRecord /\ agent[a].step = "saving" =>
           InLate([record |-> e, id |-> TRUE])' \/ e \in marks'["dropped"]
  <2>1. CASE SaveUnmatched(a)
    <3>1. /\ agent[a].step = "saving" /\ e = NoRecord /\ late' = late
          /\ marks' = Mark("unnamed", Since(a, i, e))
      BY <1>0, <2>1 DEF SaveUnmatched
    <3>2. /\ \A kind \in Anomaly : marks[kind] \subseteq marks'[kind]
          /\ Renamed(i, e) \subseteq marks'["unnamed"]
      BY <1>3, <3>1 DEF Mark, Typed, TypeOK, Anomaly
    <3>3. \A job : InLate(job)' <=> InLate(job) BY <3>1 DEF InLate
    <3>4. QED BY <3>1, <3>2, <3>3
  <2>2. CASE SaveMatched(a)
    <3>1. agent[a].step = "saving" /\ e # NoRecord BY <1>0, <2>2 DEF SaveMatched
    <3>2. PICK lost \in BOOLEAN :
            /\ Dispatch([record |-> e, id |-> TRUE], lost)
            /\ marks' = [marks EXCEPT
                 !["unnamed"] = @ \union Since(a, i, e),
                 !["dropped"] = @ \union IF lost THEN {e} ELSE {}]
      BY <1>0, <2>2 DEF SaveMatched
    <3>3. PICK job : job = [record |-> e, id |-> TRUE] OBVIOUS
    <3>4. /\ \A kind \in Anomaly : marks[kind] \subseteq marks'[kind]
          /\ Renamed(i, e) \subseteq marks'["unnamed"]
          /\ lost => e \in marks'["dropped"]
      BY <1>3, <3>2 DEF Typed, TypeOK, Anomaly
    <3>5. job \in LateJob /\ job.record = e BY <1>2, <3>1, <3>3 DEF LateJob
    <3>6. /\ \A j : InLate(j) => InLate(j)'
          /\ \A j : InLate(j)' => InLate(j) \/ j = job
          /\ ~lost => InLate(job)'
      BY <1>4, <3>2, <3>3, <3>5
    <3>7. \A j : InLate(j)' => InLate(j) \/ (j.record = e /\ e # NoRecord)
      BY <3>1, <3>5, <3>6
    <3>8. InLate([record |-> e, id |-> TRUE])' \/ e \in marks'["dropped"]
      BY <3>3, <3>4, <3>6
    <3>9. QED BY <3>1, <3>4, <3>6, <3>7, <3>8
  <2>3. CASE a \in Request /\ LinkSave(a)
    <3>1. /\ agent[a].step = "linking"
          /\ marks' = [marks EXCEPT !["unnamed"] = @ \union Renamed(i, e),
                                    !["hand"] = @ \union {e}]
      BY <1>0, <2>3 DEF LinkSave
    <3>2. PICK lost \in BOOLEAN : Dispatch([record |-> e, id |-> FALSE], lost)
      BY <1>0, <2>3 DEF LinkSave
    <3>3. PICK job : job = [record |-> e, id |-> FALSE] OBVIOUS
    <3>4. /\ \A kind \in Anomaly : marks[kind] \subseteq marks'[kind]
          /\ Renamed(i, e) \subseteq marks'["unnamed"]
          /\ e \in marks'["hand"]
      BY <3>1 DEF Typed, TypeOK, Anomaly
    <3>5. e # NoRecord BY <1>2, <3>1
    <3>6. job \in LateJob /\ job.record = e BY <1>2, <3>1, <3>3 DEF LateJob
    <3>7. /\ \A j : InLate(j) => InLate(j)'
          /\ \A j : InLate(j)' => InLate(j) \/ j = job
      BY <1>4, <3>2, <3>3, <3>6
    <3>8. \A j : InLate(j)' => InLate(j) \/ (j.record = e /\ e # NoRecord)
      BY <3>5, <3>6, <3>7
    <3>9. QED BY <3>1, <3>4, <3>7, <3>8
  <2>4. QED BY <2>1, <2>2, <2>3 DEF Saves
<1>6. /\ DOMAIN statement' = DOMAIN statement
      /\ statement'[i].line = statement[i].line
      /\ statement'[i].run = statement[i].run
      /\ statement'[i].record = e
      /\ statement'[i].status # "PENDING"
      /\ \A j \in DOMAIN statement : j # i => statement'[j] = statement[j]
  <2>1. QED BY <1>1, <1>2, UpdatedFacts
<1>7. /\ \A b \in Agent : b # a => agent'[b] = agent[b]
      /\ agent'[a].record = NoRecord /\ agent'[a].step \in {"idle", "finding"}
      /\ agent[a].step = "saving" => agent'[a].todo = Tail(agent[a].todo)
      /\ \/ jobs' = jobs /\ finished' = finished
         \/ /\ a = Worker /\ agent'[Worker].step = "idle"
            /\ finished' = finished \union {Head(jobs).lines}
  <2>1. CASE SaveUnmatched(a) \/ SaveMatched(a)
    <3>1. agent[a].step = "saving" /\ Proceed(a)
      BY <2>1 DEF SaveUnmatched, SaveMatched
    <3>2. QED BY <1>6, <3>1, ProceedFacts
  <2>2. CASE LinkSave(a)
    <3>1. agent' = [agent EXCEPT ![a] = Idle] /\ jobs' = jobs /\ finished' = finished
          /\ agent[a].step = "linking"
      BY <2>2 DEF LinkSave
    <3>2. QED BY <3>1 DEF Typed, TypeOK, Idle
  <2>3. QED BY <2>1, <2>2 DEF Saves
<1>8. QED BY <1>0, <1>1, <1>2, <1>5, <1>6, <1>7

(* An agent finds an open record, or none.                                 *)
LEMMA FindFacts ==
  ASSUME Typed, NEW a \in Agent, Find(a)
  PROVE  \E e \in Entry \union {NoRecord} :
    /\ UNCHANGED <<statement, record, jobs, late, finished, disturbed>>
    /\ agent[a].step = "finding" /\ agent'[a].step = "saving"
    /\ agent'[a].record = e /\ agent'[a].todo = agent[a].todo
    /\ \A b \in Agent : b # a => agent'[b] = agent[b]
    /\ \A kind \in Anomaly : marks[kind] \subseteq marks'[kind]
    /\ e # NoRecord => record[e] = "OPEN"
    /\ e # NoRecord /\ Coming(e) => e \in marks'["shared"]
<1>1. PICK e \in Entry \union {NoRecord} :
        /\ e # NoRecord => record[e] = "OPEN"
        /\ agent' = [agent EXCEPT ![a].step = "saving", ![a].record = e]
        /\ marks' = IF e # NoRecord /\ Coming(e) THEN Mark("shared", {e}) ELSE marks
  BY DEF Find, Candidates
<1>2. /\ UNCHANGED <<statement, record, jobs, late, finished, disturbed>>
      /\ agent[a].step = "finding"
  BY DEF Find
<1>3. agent \in [Agent -> Session] /\ agent[a] \in Session
      /\ marks \in [Anomaly -> SUBSET Entry]
  BY DEF Typed, TypeOK
<1>4. PICK t : t = [agent[a] EXCEPT !.step = "saving"] OBVIOUS
<1>5. PICK s : s = [t EXCEPT !.record = e] OBVIOUS
<1>6. t.step = "saving" /\ t.todo = agent[a].todo /\ t \in Session
  BY <1>3, <1>4 DEF Session
<1>7. s.step = "saving" /\ s.todo = agent[a].todo /\ s.record = e
  BY <1>5, <1>6 DEF Session
<1>8. agent' = [agent EXCEPT ![a] = s]
  BY <1>1, <1>3, <1>4, <1>5 DEF Session
<1>9. agent'[a] = s /\ \A b \in Agent : b # a => agent'[b] = agent[b]
  BY <1>3, <1>8
<1>10. /\ \A kind \in Anomaly : marks[kind] \subseteq marks'[kind]
       /\ e # NoRecord /\ Coming(e) => e \in marks'["shared"]
  BY <1>1, <1>3 DEF Mark, Anomaly
<1>11. QED BY <1>1, <1>2, <1>7, <1>9, <1>10

(* Steps that leave the worker where it is.                                *)
LEMMA StockedKept ==
  ASSUME Stocked, \A line : Known(line)' <=> Known(line), OneImport',
         agent'[Worker] = agent[Worker], finished' = finished,
         agent[Worker].step # "idle" => Head(jobs') = Head(jobs)
  PROVE  Stocked'
<1>1. LinesStoredOnce'
  BY DEF Stocked, LinesStoredOnce, OneImport
<1>2. Awaited' BY DEF Stocked, Awaited
<1>3. QED BY <1>1, <1>2 DEF Stocked

(* The import job reads, and stores.                                       *)
LEMMA StockedImport ==
  ASSUME Typed, Stocked, ImportRead \/ ImportStore PROVE Stocked'
<1>1. CASE ImportRead
  <2>1. /\ UNCHANGED <<statement, jobs, finished>> /\ jobs # <<>>
        /\ agent' = [agent EXCEPT ![Worker].step = "storing",
                                  ![Worker].fresh = Fresh(Head(jobs).lines)]
    BY <1>1 DEF ImportRead, history
  <2>2. agent'[Worker].step = "storing"
        /\ agent'[Worker].fresh = Fresh(Head(jobs).lines)
    <3>1. agent \in [Agent -> Session] /\ Worker \in Agent
      BY DEF Typed, TypeOK, Agent
    <3>2. agent[Worker] \in Session BY <3>1
    <3>3. QED BY <2>1, <3>1, <3>2 DEF Session
  <2>3. \A line : Known(line)' <=> Known(line) BY <2>1 DEF Known
  <2>4. PICK lines : lines = Head(jobs).lines OBVIOUS
  <2>5. lines \in Seq(Line)
    <3> DEFINE Job == [lines : Seq(Line), run : Nat]
    <3>1. jobs \in Seq(Job) BY DEF Typed, TypeOK
    <3> HIDE DEF Job
    <3>2. Head(jobs) \in Job BY <2>1, <3>1, HeadTailProperties
    <3>3. QED BY <2>4, <3>2 DEF Job
  <2>6. PICK P : P = {n \in DOMAIN lines : ~ Known(lines[n])} OBVIOUS
  <2>7. PICK fresh : fresh = Taken(lines, P) OBVIOUS
  <2>8. agent'[Worker].fresh = fresh /\ Head(jobs').lines = lines
    BY <2>1, <2>2, <2>4, <2>6, <2>7 DEF Fresh
  <2>9. /\ \A k \in DOMAIN fresh : \E n \in P : fresh[k] = lines[n]
        /\ \A n \in P : \E k \in DOMAIN fresh : fresh[k] = lines[n]
    <3>1. P \in SUBSET DOMAIN lines BY <2>6
    <3>2. QED BY <2>5, <2>7, <3>1, TakenFacts
  <2>10. \A k \in DOMAIN fresh : ~Known(fresh[k]) BY <2>6, <2>9
  <2>11. ASSUME NEW line \in Range(lines)
         PROVE  Known(line) \/ \E k \in DOMAIN fresh : fresh[k] = line
    <3>1. PICK n \in DOMAIN lines : line = lines[n] BY <2>11 DEF Range
    <3>2. QED BY <2>6, <2>9, <3>1
  <2>12. Awaited' BY <2>2, <2>3, <2>8, <2>10, <2>11 DEF Awaited
  <2>13. LinesStoredOnce' BY <2>1, <2>3 DEF Stocked, LinesStoredOnce
  <2>14. QED BY <2>12, <2>13 DEF Stocked
<1>2. CASE ImportStore
  <2>1. PICK fresh : fresh = agent[Worker].fresh OBVIOUS
  <2>2. agent[Worker].step = "storing" /\ statement' = Inserted(fresh)
    BY <1>2, <2>1 DEF ImportStore
  <2>3. fresh \in Seq(Line) /\ jobs # <<>>
    BY <2>1, <2>2 DEF Typed, TypeOK, Working, AgentOK, Session, Agent
  <2>4. /\ \A n \in DOMAIN fresh : ~Known(fresh[n])
        /\ \A line \in Range(Head(jobs).lines) :
             Known(line) \/ \E n \in DOMAIN fresh : fresh[n] = line
    BY <2>1, <2>2 DEF Stocked, Awaited
  <2>5. /\ \A line : Known(line) => Known(line)'
        /\ \A n \in DOMAIN fresh : Known(fresh[n])'
        /\ OneImport => OneImport'
    BY <2>2, <2>3, <2>4, LinesInserted
  <2>6. \A line \in Range(Head(jobs).lines) : Known(line)' BY <2>4, <2>5
  <2>7. OneImport' BY <2>5 DEF Stocked, LinesStoredOnce, OneImport
  <2>8. \A lines \in finished : \A line \in Range(lines) : Known(line)'
    BY <2>5 DEF Stocked, LinesStoredOnce
  <2>9. Worker \in Agent /\ agent \in [Agent -> Session] BY DEF Agent, Typed, TypeOK
  <2>10. CASE ToReconcile(fresh) = <<>>
    <3>1. EndJob /\ finished' = finished \union {Head(jobs).lines}
      BY <1>2, <2>1, <2>10 DEF ImportStore
    <3>2. agent'[Worker] = Idle BY <2>9, <3>1 DEF EndJob
    <3>3. Awaited' BY <3>2 DEF Awaited, Idle
    <3>4. LinesStoredOnce'
      BY <2>6, <2>7, <2>8, <3>1 DEF LinesStoredOnce, OneImport
    <3>5. QED BY <3>3, <3>4 DEF Stocked
  <2>11. CASE ToReconcile(fresh) # <<>>
    <3>1. /\ jobs' = jobs /\ finished' = finished
          /\ agent' = [agent EXCEPT ![Worker] =
               [Idle EXCEPT !.step = "finding", !.todo = ToReconcile(fresh)]]
      BY <1>2, <2>1, <2>11 DEF ImportStore
    <3>2. agent'[Worker].step = "finding" BY <2>9, <3>1 DEF Idle
    <3>3. Awaited' BY <2>6, <3>1, <3>2 DEF Awaited
    <3>4. LinesStoredOnce' BY <2>7, <2>8, <3>1 DEF LinesStoredOnce, OneImport
    <3>5. QED BY <3>3, <3>4 DEF Stocked
  <2>12. QED BY <2>10, <2>11
<1>3. QED BY <1>1, <1>2

LEMMA StockedUpdate ==
  ASSUME Typed, Stocked, NEW a \in Agent, Saves(a) \/ Find(a) PROVE Stocked'
<1>0. OneImport BY DEF Stocked, LinesStoredOnce, OneImport
<1>1. CASE Saves(a)
  <2>1. PICK i \in DOMAIN statement :
          /\ agent[a].step \in {"saving", "linking"}
          /\ agent[a].step = "linking" => a # Worker
          /\ DOMAIN statement' = DOMAIN statement
          /\ statement'[i].line = statement[i].line
          /\ statement'[i].run = statement[i].run
          /\ \A j \in DOMAIN statement : j # i => statement'[j] = statement[j]
          /\ \A b \in Agent : b # a => agent'[b] = agent[b]
          /\ agent'[a].step \in {"idle", "finding"}
          /\ \/ jobs' = jobs /\ finished' = finished
             \/ /\ a = Worker /\ agent'[Worker].step = "idle"
                /\ finished' = finished \union {Head(jobs).lines}
    BY <1>1, Updates
  <2>2. (\A line : Known(line)' <=> Known(line)) /\ OneImport'
    BY <1>0, <2>1, LinesSame
  <2>3. CASE a # Worker
    <3>1. Worker \in Agent BY DEF Agent
    <3>2. QED BY <2>1, <2>2, <2>3, <3>1, StockedKept
  <2>4. CASE a = Worker
    <3>1. \A line \in Range(Head(jobs).lines) : Known(line)
      BY <2>1, <2>4 DEF Stocked, Awaited
    <3>2. Awaited' BY <2>1, <2>2, <2>4, <3>1 DEF Awaited
    <3>3. LinesStoredOnce'
      BY <2>1, <2>2, <3>1 DEF Stocked, LinesStoredOnce, OneImport
    <3>4. QED BY <3>2, <3>3 DEF Stocked
  <2>5. QED BY <2>3, <2>4
<1>2. CASE Find(a)
  <2>1. /\ UNCHANGED <<statement, jobs, finished>> /\ agent[a].step = "finding"
        /\ \A b \in Agent : b # a => agent'[b] = agent[b]
        /\ agent'[a].step = "saving"
    BY <1>2, FindFacts
  <2>2. (\A line : Known(line)' <=> Known(line)) /\ OneImport'
    BY <1>0, <2>1 DEF Known, OneImport
  <2>3. CASE a # Worker
    <3>1. Worker \in Agent BY DEF Agent
    <3>2. QED BY <2>1, <2>2, <2>3, <3>1, StockedKept
  <2>4. CASE a = Worker
    <3>1. Awaited' BY <2>1, <2>2, <2>4 DEF Stocked, Awaited
    <3>2. LinesStoredOnce' BY <2>1, <2>2 DEF Stocked, LinesStoredOnce
    <3>3. QED BY <3>1, <3>2 DEF Stocked
  <2>5. QED BY <2>3, <2>4
<1>3. QED BY <1>1, <1>2

LEMMA StockedNext == Typed /\ Stocked /\ [Next]_vars => Stocked'
<1> SUFFICES ASSUME Typed, Stocked, [Next]_vars PROVE Stocked' OBVIOUS
<1>0. OneImport /\ Worker \in Agent
  BY DEF Stocked, LinesStoredOnce, OneImport, Agent
<1>1. ASSUME statement' = statement, agent'[Worker] = agent[Worker],
             finished' = finished, jobs # <<>> => Head(jobs') = Head(jobs)
      PROVE  Stocked'
  <2>1. (\A line : Known(line)' <=> Known(line)) /\ OneImport'
    BY <1>0, <1>1 DEF Known, OneImport
  <2>2. agent[Worker].step # "idle" => jobs # <<>>
    BY <1>0 DEF Typed, Working, AgentOK
  <2>3. QED BY <1>1, <2>1, <2>2, StockedKept
<1>2. CASE Import
  <2>1. PICK file \in File : ImportStatement(file) BY <1>2 DEF Import
  <2>2. PICK job : job = [lines |-> file, run |-> used.uploads + 1] OBVIOUS
  <2>3. UNCHANGED <<statement, agent, finished>>
        /\ (jobs' = jobs \/ jobs' = Append(jobs, job))
    BY <2>1, <2>2 DEF ImportStatement, history
  <2>4. jobs # <<>> => Head(Append(jobs, job)) = Head(jobs)
    <3> DEFINE Job == [lines : Seq(Line), run : Nat]
    <3>1. jobs \in Seq(Job) /\ job \in Job
      BY <2>2, FileAssumption DEF Typed, TypeOK
    <3> HIDE DEF Job
    <3>2. QED BY <3>1
  <2>5. QED BY <1>1, <2>3, <2>4
<1>3. CASE ImportRead \/ ImportStore BY <1>3, StockedImport
<1>4. ASSUME NEW a \in Agent, Find(a) \/ Saves(a) PROVE Stocked'
  BY <1>4, StockedUpdate
<1>5. ASSUME NEW q \in Request, Retry(q) \/ Link(q) PROVE Stocked'
  <2>1. UNCHANGED <<statement, jobs, finished>>
        /\ \E s : agent' = [agent EXCEPT ![q] = s]
    BY <1>5 DEF Retry, Link, RetryRead, LinkRead, Begin, history
  <2>2. q # Worker BY RequestAssumption
  <2>3. agent'[Worker] = agent[Worker] BY <1>0, <2>1, <2>2 DEF Typed, TypeOK
  <2>4. QED BY <1>1, <2>1, <2>3
<1>6. CASE \/ StatusJob \/ StatusJobFails
           \/ \E e \in Entry : CreateRecord(e) \/ CancelRecord(e)
  <2>1. UNCHANGED <<statement, jobs, agent, finished>>
    BY <1>6 DEF StatusJob, StatusJobFails, CreateRecord, CancelRecord, history
  <2>2. QED BY <1>1, <2>1
<1>7. CASE ImportFails
  <2>1. UNCHANGED <<statement, finished>> /\ agent' = [agent EXCEPT ![Worker] = Idle]
    BY <1>7 DEF ImportFails, EndJob
  <2>2. agent'[Worker] = Idle BY <1>0, <2>1 DEF Typed, TypeOK
  <2>3. Awaited' BY <2>2 DEF Awaited, Idle
  <2>4. LinesStoredOnce' BY <2>1 DEF Stocked, LinesStoredOnce, Known
  <2>5. QED BY <2>3, <2>4 DEF Stocked
<1>8. CASE Crash
  <2>1. finished' = finished /\ agent'[Worker] = Idle
    BY <1>0, <1>8 DEF Crash
  <2>2. PICK lines \in Seq(Line) :
          /\ statement' = Inserted(lines)
          /\ lines # <<>> => jobs # <<>>
          /\ lines # <<>> => agent[Worker].step = "storing"
          /\ \A m \in DOMAIN lines : m \in DOMAIN agent[Worker].fresh
                                     /\ lines[m] = agent[Worker].fresh[m]
    BY <1>8, CrashStores
  <2>3. \A m \in DOMAIN lines : ~Known(lines[m])
    <3>1. lines = <<>> => DOMAIN lines = {} OBVIOUS
    <3>2. QED BY <2>2, <3>1 DEF Stocked, Awaited
  <2>4. (\A line : Known(line) => Known(line)') /\ OneImport'
    <3>1. statement' = Inserted(lines) /\ (lines # <<>> => jobs # <<>>) BY <2>2
    <3>2. QED BY <1>0, <2>3, <3>1, LinesInserted
  <2>5. Awaited' BY <2>1 DEF Awaited, Idle
  <2>6. LinesStoredOnce' BY <2>1, <2>4 DEF Stocked, LinesStoredOnce, OneImport
  <2>7. QED BY <2>5, <2>6 DEF Stocked
<1>9. CASE UNCHANGED vars BY <1>1, <1>9 DEF vars, history
<1>10. \A q \in Request : q \in Agent BY DEF Agent
<1>11. QED
  BY <1>0, <1>2, <1>3, <1>4, <1>5, <1>6, <1>7, <1>8, <1>9, <1>10
     DEF Next, ImportStep, Reconcile, Saves

(* LinesStoredOnce: two uploads never store a line of each other, and an   *)
(* import that ran to its end knows all its lines, with crashes, failures  *)
(* and reruns at any moment.                                               *)
THEOREM EveryLineOnce == Spec => []LinesStoredOnce
<1>1. Init => Stocked
  BY DEF Init, Stocked, LinesStoredOnce, Awaited, Idle, Agent
<1>2. Stocked => LinesStoredOnce BY DEF Stocked
<1>3. QED BY <1>1, <1>2, TypedInit, TypedNext, StockedNext, PTL DEF Spec

(***************************************************************************)
(* Statements and records.                                                 *)
(***************************************************************************)
(* The records that more than one statement may name.                      *)
Loose == marks["shared"] \union marks["hand"] \union marks["dropped"]

Matching(e) == {a \in Agent : agent[a].step = "saving" /\ agent[a].record = e}

(* Where a job is queued there is a statement; and of the records that are *)
(* not loose there is one statement, or one agent about to update one.     *)
Backed ==
  \A job \in LateJob : InLate(job) =>
    Names(job.record) # {} \/ job.record \in marks["unnamed"]

Single ==
  \A e \in Entry \ Loose :
    /\ \A i, j \in Names(e) : i = j
    /\ \A a, b \in Matching(e) : a = b
    /\ Matching(e) # {} => Names(e) = {}

Matched == PendingExplained /\ RecordFollows /\ StatementBehind /\ Backed /\ Single

(* Steps that update no statement and find no record: they may add new     *)
(* statements, and change the records and the jobs.                        *)
LEMMA MatchedKept ==
  ASSUME Typed, Typed', Matched,
         DOMAIN statement \subseteq DOMAIN statement',
         \A j \in DOMAIN statement : statement'[j] = statement[j],
         \A j \in DOMAIN statement' : j \notin DOMAIN statement =>
           /\ statement'[j].record = NoRecord
           /\ j \in Range(agent'[Worker].todo) \/ disturbed',
         \A j : j \in Range(agent[Worker].todo) =>
           j \in Range(agent'[Worker].todo) \/ disturbed',
         disturbed => disturbed',
         \A kind \in Anomaly : marks[kind] \subseteq marks'[kind],
         \A f \in Entry : record[f] \in {"RECONCILED", "VOID"} =>
                            record'[f] \in {"RECONCILED", "VOID"},
         \A f \in Entry : record'[f] = "RECONCILED" =>
           record[f] = "RECONCILED" \/ Names(f) # {} \/ f \in marks["unnamed"],
         \A f \in Entry : InLate([record |-> f, id |-> TRUE]) =>
           \/ InLate([record |-> f, id |-> TRUE])'
           \/ f \in marks'["dropped"] \/ record'[f] = "RECONCILED",
         \A job : InLate(job)' => InLate(job),
         \A a \in Agent : agent'[a].step = "saving" => agent'[a] = agent[a]
  PROVE  Matched'
<1>1. PendingExplained'
  <2>1. SUFFICES ASSUME NEW j \in DOMAIN statement', statement'[j].status = "PENDING"
                 PROVE  j \in Range(agent'[Worker].todo) \/ disturbed'
    BY DEF PendingExplained
  <2>2. CASE j \in DOMAIN statement
    <3>1. j \in Range(agent[Worker].todo) \/ disturbed
      BY <2>1, <2>2 DEF Matched, PendingExplained
    <3>2. QED BY <3>1
  <2>3. CASE j \notin DOMAIN statement BY <2>3
  <2>4. QED BY <2>2, <2>3
<1>2. RecordFollows'
  <2>1. SUFFICES ASSUME NEW j \in DOMAIN statement',
                        statement'[j].status = "RECONCILED",
                        NEW f, f = statement'[j].record
                 PROVE  \/ record'[f] \in {"RECONCILED", "VOID"}
                        \/ InLate([record |-> f, id |-> TRUE])'
                        \/ f \in marks'["dropped"] \union marks'["hand"]
    BY DEF RecordFollows, InLate
  <2>2. f # NoRecord BY <2>1 DEF Typed, Working
  <2>3. j \in DOMAIN statement /\ statement[j].status = "RECONCILED"
        /\ f = statement[j].record
    BY <2>1, <2>2
  <2>4. f \in Entry BY <2>2, <2>3, StatementAt DEF Statement
  <2>5. \/ record[f] \in {"RECONCILED", "VOID"}
        \/ InLate([record |-> f, id |-> TRUE])
        \/ f \in marks["dropped"] \union marks["hand"]
    BY <2>3 DEF Matched, RecordFollows, InLate
  <2>6. QED BY <2>4, <2>5 DEF Anomaly
<1>3. \A f \in Entry : Names(f)' = Names(f) BY RecordAssumption DEF Names
<1>4. StatementBehind'
  BY <1>3 DEF Matched, StatementBehind, Anomaly
<1>5. Backed'
  <2>1. SUFFICES ASSUME NEW job \in LateJob, InLate(job)'
                 PROVE  Names(job.record)' # {} \/ job.record \in marks'["unnamed"]
    BY DEF Backed
  <2>2. job.record \in Entry BY DEF LateJob
  <2>3. Names(job.record) # {} \/ job.record \in marks["unnamed"]
    BY <2>1 DEF Matched, Backed
  <2>4. PICK f \in Entry : f = job.record BY <2>2
  <2>5. Names(f)' # {} \/ f \in marks'["unnamed"]
    BY <1>3, <2>3, <2>4 DEF Anomaly
  <2>6. QED BY <2>4, <2>5
<1>6. Single'
  <2>1. \A f : Matching(f)' \subseteq Matching(f) BY DEF Matching
  <2>2. Loose \subseteq Loose' BY DEF Loose, Anomaly
  <2>3. QED BY <1>3, <2>1, <2>2 DEF Matched, Single
<1>7. QED BY <1>1, <1>2, <1>4, <1>5, <1>6 DEF Matched

(* An agent finds an open record: no statement names it.                   *)
LEMMA MatchedFind ==
  ASSUME Typed, Matched, NEW a \in Agent, Find(a) PROVE Matched'
<1>1. PICK e \in Entry \union {NoRecord} :
        /\ UNCHANGED <<statement, record, jobs, late, finished, disturbed>>
        /\ agent'[a].step = "saving"
        /\ agent'[a].record = e /\ agent'[a].todo = agent[a].todo
        /\ \A b \in Agent : b # a => agent'[b] = agent[b]
        /\ \A kind \in Anomaly : marks[kind] \subseteq marks'[kind]
        /\ e # NoRecord => record[e] = "OPEN"
        /\ e # NoRecord /\ Coming(e) => e \in marks'["shared"]
  BY FindFacts
<1>2. \A kind \in {"shared", "hand", "dropped", "unnamed"} :
        marks[kind] \subseteq marks'[kind]
  BY <1>1 DEF Anomaly
<1>3. \A f : Names(f)' = Names(f) BY <1>1 DEF Names
<1>4. PendingExplained'
  <2>1. agent'[Worker].todo = agent[Worker].todo BY <1>1 DEF Agent
  <2>2. QED BY <1>1, <2>1 DEF Matched, PendingExplained
<1>5. RecordFollows' BY <1>1, <1>2 DEF Matched, RecordFollows
<1>6. StatementBehind' BY <1>1, <1>2, <1>3 DEF Matched, StatementBehind
<1>7. Backed' BY <1>1, <1>2, <1>3 DEF Matched, Backed, InLate
<1>8. ASSUME NEW f \in Entry \ Loose'
      PROVE  /\ \A i, j \in Names(f)' : i = j
             /\ \A b, c \in Matching(f)' : b = c
             /\ Matching(f)' # {} => Names(f)' = {}
  <2>1. f \in Entry \ Loose BY <1>2 DEF Loose
  <2>2. CASE f # e
    <3>1. Matching(f)' \subseteq Matching(f) BY <1>1, <2>2 DEF Matching
    <3>2. QED BY <1>3, <2>1, <3>1 DEF Matched, Single
  <2>3. CASE f = e
    <3>1. ~Coming(e) /\ record[e] = "OPEN"
      BY <1>1, <1>8, <2>3, RecordAssumption DEF Loose
    <3>2. Matching(f) = {} /\ ~InLate([record |-> f, id |-> TRUE])
      BY <2>3, <3>1 DEF Coming, Matching, InLate
    <3>3. Matching(f)' \subseteq {a} BY <1>1, <3>2 DEF Matching
    <3>4. ASSUME NEW j \in Names(f) PROVE FALSE
      <4>1. j \in DOMAIN statement /\ statement[j].record = f
        BY DEF Names
      <4>2. statement[j].status = "RECONCILED"
        BY <4>1, RecordAssumption DEF Typed, Working
      <4>3. \/ record[f] \in {"RECONCILED", "VOID"}
            \/ InLate([record |-> f, id |-> TRUE])
            \/ f \in marks["dropped"] \union marks["hand"]
        BY <4>1, <4>2 DEF Matched, RecordFollows, InLate
      <4>4. QED BY <2>1, <2>3, <3>1, <3>2, <4>3 DEF Loose
    <3>5. QED BY <1>3, <3>3, <3>4
  <2>4. QED BY <2>2, <2>3
<1>9. Single' BY <1>8 DEF Single
<1>10. QED BY <1>4, <1>5, <1>6, <1>7, <1>9 DEF Matched

(* An update keeps statement, record and job together.                     *)
LEMMA MatchedUpdate ==
  ASSUME Typed, Typed', Matched, NEW a \in Agent, Saves(a) PROVE Matched'
<1>1. PICK i \in DOMAIN statement, e \in Entry \union {NoRecord} :
        /\ i = Head(agent[a].todo) /\ e = agent[a].record
        /\ agent[a].step \in {"saving", "linking"}
        /\ DOMAIN statement' = DOMAIN statement
        /\ statement'[i].record = e
        /\ statement'[i].status # "PENDING"
        /\ \A j \in DOMAIN statement : j # i => statement'[j] = statement[j]
        /\ \A b \in Agent : b # a => agent'[b] = agent[b]
        /\ agent'[a].record = NoRecord /\ agent'[a].step \in {"idle", "finding"}
        /\ agent[a].step = "saving" => agent'[a].todo = Tail(agent[a].todo)
        /\ agent[a].step = "linking" => a # Worker /\ e # NoRecord
        /\ UNCHANGED <<record, disturbed>>
        /\ \A kind \in Anomaly : marks[kind] \subseteq marks'[kind]
        /\ Renamed(i, e) \subseteq marks'["unnamed"]
        /\ agent[a].step = "linking" => e \in marks'["hand"]
        /\ \A job : InLate(job) => InLate(job)'
        /\ \A job : InLate(job)' => InLate(job) \/ (job.record = e /\ e # NoRecord)
        /\ e # NoRecord /\ agent[a].step = "saving" =>
             InLate([record |-> e, id |-> TRUE])' \/ e \in marks'["dropped"]
  BY Updates
<1>2. \A kind \in {"shared", "hand", "dropped", "unnamed"} :
        marks[kind] \subseteq marks'[kind]
  BY <1>1 DEF Anomaly
<1>3. \A f \in Entry : Names(f)' \subseteq Names(f) \union (IF f = e THEN {i} ELSE {})
  BY <1>1 DEF Names
<1>4. ASSUME NEW f \in Entry, Names(f) # {}
      PROVE  Names(f)' # {} \/ f \in marks'["unnamed"]
  <2>1. PICK j \in DOMAIN statement : statement[j].record = f BY <1>4 DEF Names
  <2>2. CASE j # i \/ f = e
    <3>1. j \in DOMAIN statement' /\ statement'[j].record = f BY <1>1, <2>1, <2>2
    <3>2. QED BY <3>1 DEF Names
  <2>3. CASE j = i /\ f # e
    <3>1. f \in Renamed(i, e) BY <2>1, <2>3, RecordAssumption DEF Renamed
    <3>2. QED BY <1>1, <3>1
  <2>4. QED BY <2>2, <2>3
<1>5. PendingExplained'
  <2>1. SUFFICES ASSUME NEW j \in DOMAIN statement', statement'[j].status = "PENDING",
                        ~disturbed'
                 PROVE  j \in Range(agent'[Worker].todo)
    BY DEF PendingExplained
  <2>2. j \in DOMAIN statement /\ j # i /\ statement[j].status = "PENDING"
    BY <1>1, <2>1
  <2>3. j \in Range(agent[Worker].todo)
    BY <1>1, <2>1, <2>2 DEF Matched, PendingExplained
  <2>4. CASE a # Worker
    <3>1. agent'[Worker] = agent[Worker] BY <1>1, <2>4 DEF Agent
    <3>2. QED BY <2>3, <3>1
  <2>5. CASE a = Worker
    <3>1. agent'[Worker].todo = Tail(agent[Worker].todo) BY <1>1, <2>5
    <3>2. PICK n \in DOMAIN agent[Worker].todo : agent[Worker].todo[n] = j
      BY <2>3 DEF Range
    <3>3. agent[a].todo # <<>> BY <1>1, AtWork
    <3>4. \E m \in DOMAIN Tail(agent[Worker].todo) : Tail(agent[Worker].todo)[m] = j
      BY <1>1, <2>2, <2>5, <3>2, <3>3, AtStatement
    <3>5. QED BY <3>1, <3>4 DEF Range
  <2>6. QED BY <2>4, <2>5
<1>6. RecordFollows'
  <2>1. SUFFICES ASSUME NEW j \in DOMAIN statement',
                        statement'[j].status = "RECONCILED",
                        NEW f, f = statement'[j].record
                 PROVE  \/ record'[f] \in {"RECONCILED", "VOID"}
                        \/ InLate([record |-> f, id |-> TRUE])'
                        \/ f \in marks'["dropped"] \union marks'["hand"]
    BY DEF RecordFollows, InLate
  <2>2. f # NoRecord BY <2>1 DEF Typed, Working
  <2>3. CASE j = i BY <1>1, <2>1, <2>2, <2>3
  <2>4. CASE j # i
    <3>1. j \in DOMAIN statement /\ statement[j].status = "RECONCILED"
          /\ f = statement[j].record
      BY <1>1, <2>1, <2>4
    <3>2. \/ record[f] \in {"RECONCILED", "VOID"}
          \/ InLate([record |-> f, id |-> TRUE])
          \/ f \in marks["dropped"] \union marks["hand"]
      BY <3>1 DEF Matched, RecordFollows, InLate
    <3>3. QED BY <1>1, <1>2, <3>2
  <2>5. QED BY <2>3, <2>4
<1>7. StatementBehind'
  BY <1>1, <1>2, <1>4 DEF Matched, StatementBehind
<1>8. Backed'
  <2>1. SUFFICES ASSUME NEW job \in LateJob, InLate(job)'
                 PROVE  Names(job.record)' # {} \/ job.record \in marks'["unnamed"]
    BY DEF Backed
  <2>2. PICK f \in Entry : f = job.record BY DEF LateJob
  <2>3. Names(f)' # {} \/ f \in marks'["unnamed"]
    <3>1. CASE InLate(job)
      <4>1. Names(job.record) # {} \/ job.record \in marks["unnamed"]
        BY <3>1 DEF Matched, Backed
      <4>2. Names(f) # {} \/ f \in marks["unnamed"] BY <2>2, <4>1
      <4>3. QED BY <1>2, <1>4, <4>2
    <3>2. CASE f = e
      <4>1. i \in Names(f)' BY <1>1, <3>2 DEF Names
      <4>2. QED BY <4>1
    <3>3. QED BY <1>1, <2>1, <2>2, <3>1, <3>2
  <2>4. QED BY <2>2, <2>3
<1>9. ASSUME NEW f \in Entry \ Loose'
      PROVE  /\ \A j, k \in Names(f)' : j = k
             /\ \A b, c \in Matching(f)' : b = c
             /\ Matching(f)' # {} => Names(f)' = {}
  <2>1. f \in Entry \ Loose BY <1>2 DEF Loose
  <2>2. Matching(f)' \subseteq Matching(f) /\ a \notin Matching(f)'
    BY <1>1 DEF Matching
  <2>3. CASE f # e
    <3>1. Names(f)' \subseteq Names(f) BY <1>3, <2>3
    <3>2. QED BY <2>1, <2>2, <3>1 DEF Matched, Single
  <2>4. CASE f = e
    <3>1. agent[a].step = "saving" BY <1>1, <1>9, <2>4 DEF Loose
    <3>2. a \in Matching(f) BY <1>1, <2>4, <3>1 DEF Matching
    <3>3. Names(f) = {} /\ Matching(f) = {a}
      BY <2>1, <3>2 DEF Matched, Single
    <3>4. Names(f)' \subseteq {i} /\ Matching(f)' = {}
      BY <1>3, <2>2, <2>4, <3>3
    <3>5. QED BY <3>4
  <2>5. QED BY <2>3, <2>4
<1>10. Single' BY <1>9 DEF Single
<1>11. QED BY <1>5, <1>6, <1>7, <1>8, <1>10 DEF Matched

(* The job at the head of the queue leaves it.                             *)
LEMMA LateLeaves ==
  ASSUME Typed, late # <<>>, late' = Tail(late)
  PROVE  /\ \A job : InLate(job)' => InLate(job)
         /\ \A job : InLate(job) => InLate(job)' \/ job = Head(late)
         /\ Head(late) \in LateJob /\ Head(late).record \in Entry
         /\ InLate(Head(late))
<1>1. late \in Seq(LateJob) BY DEF Typed, TypeOK
<1>2. /\ Len(late) \in Nat \ {0} /\ DOMAIN late = 1..Len(late)
      /\ Head(late) = late[1] /\ DOMAIN Tail(late) = 1..(Len(late) - 1)
      /\ \A n \in 1..(Len(late) - 1) : Tail(late)[n] = late[n + 1]
  BY <1>1
<1>3. \A n \in 1..(Len(late) - 1) : n + 1 \in DOMAIN late BY <1>2
<1>4. \A n \in DOMAIN late : n = 1 \/ n - 1 \in 1..(Len(late) - 1) BY <1>2
<1>5. \A n \in DOMAIN late : n # 1 => Tail(late)[n - 1] = late[n]
  BY <1>2, <1>4
<1>6. \A job : InLate(job)' => InLate(job)
  BY <1>2, <1>3 DEF InLate
<1>7. \A job : InLate(job) => InLate(job)' \/ job = Head(late)
  BY <1>2, <1>4, <1>5 DEF InLate
<1>8. InLate(Head(late)) BY <1>2 DEF InLate
<1>9. QED BY <1>6, <1>7, <1>8, LateHead DEF Typed

(* The import: what it inserts is PENDING and is its next work.            *)
LEMMA MatchedImport ==
  ASSUME Typed, Typed', Matched, ImportRead \/ ImportStore PROVE Matched'
<1>0. Worker \in Agent /\ agent \in [Agent -> Session] /\ agent[Worker] \in Session
      /\ AgentOK(Worker, agent[Worker])
  BY DEF Typed, TypeOK, Working, Agent
<1>1. CASE ImportRead
  <2>1. /\ UNCHANGED <<statement, record, jobs, late, marks, disturbed>>
        /\ agent' = [agent EXCEPT ![Worker].step = "storing",
                                  ![Worker].fresh = Fresh(Head(jobs).lines)]
    BY <1>1 DEF ImportRead, history
  <2>2. /\ agent'[Worker].todo = agent[Worker].todo
        /\ agent'[Worker].step = "storing"
        /\ \A b \in Agent : b # Worker => agent'[b] = agent[b]
    BY <1>0, <2>1 DEF Session
  <2>3. \A b \in Agent : agent'[b].step = "saving" => agent'[b] = agent[b]
    BY <2>2
  <2>4. \A job : InLate(job)' <=> InLate(job) BY <2>1 DEF InLate
  <2>5. QED BY <2>1, <2>2, <2>3, <2>4, MatchedKept
<1>2. CASE ImportStore
  <2>1. PICK fresh : fresh = agent[Worker].fresh OBVIOUS
  <2>2. /\ agent[Worker].step = "storing" /\ statement' = Inserted(fresh)
        /\ UNCHANGED <<record, late, marks, disturbed>>
    BY <1>2, <2>1 DEF ImportStore
  <2>3. fresh \in Seq(Line) /\ jobs # <<>> /\ agent[Worker].todo = <<>>
    BY <1>0, <2>1, <2>2 DEF AgentOK, Session
  <2>4. /\ Len(fresh) \in Nat /\ DOMAIN fresh = 1..Len(fresh)
        /\ Len(statement) \in Nat /\ DOMAIN statement = 1..Len(statement)
        /\ DOMAIN statement' = 1..(Len(statement) + Len(fresh))
        /\ \A j \in DOMAIN statement : statement'[j] = statement[j]
        /\ \A n \in DOMAIN fresh :
             statement'[Len(statement) + n] = Create(fresh[n], Head(jobs).run)
    <3>1. statement \in Seq(Statement) BY DEF Typed, TypeOK
    <3>2. /\ Inserted(fresh) \in Seq(Statement)
          /\ Len(Inserted(fresh)) = Len(statement) + Len(fresh)
          /\ \A i \in 1..Len(statement) : Inserted(fresh)[i] = statement[i]
          /\ \A n \in 1..Len(fresh) : Inserted(fresh)[Len(statement) + n]
                                        = Create(fresh[n], Head(jobs).run)
      BY <2>3, InsertedFacts
    <3>3. QED BY <2>2, <2>3, <3>1, <3>2, LenProperties
  <2>5. PICK s \in Session : /\ agent' = [agent EXCEPT ![Worker] = s]
                             /\ s.step # "saving"
                             /\ \A n \in DOMAIN fresh :
                                  Len(statement) + n \in Range(s.todo)
    <3>1. CASE ToReconcile(fresh) = <<>>
      <4>1. agent' = [agent EXCEPT ![Worker] = Idle] /\ DOMAIN fresh = {}
        BY <1>2, <2>1, <3>1 DEF ImportStore, EndJob, ToReconcile
      <4>2. QED BY <4>1, IdleFacts DEF Idle
    <3>2. CASE ToReconcile(fresh) # <<>>
      <4>1. PICK todo : todo = ToReconcile(fresh) OBVIOUS
      <4>2. agent' = [agent EXCEPT ![Worker] =
                        [Idle EXCEPT !.step = "finding", !.todo = todo]]
        BY <1>2, <2>1, <3>2, <4>1 DEF ImportStore
      <4>3. PICK s : s = [Idle EXCEPT !.step = "finding", !.todo = todo] OBVIOUS
      <4>4. todo \in Seq(Nat) /\ \A n \in DOMAIN fresh : Len(statement) + n \in Range(todo)
        <5>1. todo = [n \in 1..Len(fresh) |-> Len(statement) + n]
          BY <2>4, <4>1 DEF ToReconcile
        <5>2. QED BY <2>4, <5>1 DEF Range
      <4>5. s \in Session /\ s.step = "finding" /\ s.todo = todo
        BY <4>3, <4>4, IdleFacts DEF Session, Idle
      <4>6. QED BY <4>2, <4>3, <4>4, <4>5
    <3>3. QED BY <3>1, <3>2
  <2>6. agent'[Worker] = s /\ \A b \in Agent : b # Worker => agent'[b] = agent[b]
    BY <1>0, <2>5
  <2>7. \A j \in DOMAIN statement' : j \notin DOMAIN statement =>
          /\ statement'[j].record = NoRecord
          /\ j \in Range(agent'[Worker].todo) \/ disturbed'
    <3>1. SUFFICES ASSUME NEW j \in DOMAIN statement', j \notin DOMAIN statement
                   PROVE  /\ statement'[j].record = NoRecord
                          /\ j \in Range(agent'[Worker].todo)
      OBVIOUS
    <3>2. PICK n \in DOMAIN fresh : j = Len(statement) + n
      <4>1. j - Len(statement) \in DOMAIN fresh
            /\ j = Len(statement) + (j - Len(statement))
        BY <2>4, <3>1
      <4>2. QED BY <4>1
    <3>3. statement'[j] = Create(fresh[n], Head(jobs).run) BY <2>4, <3>2
    <3>4. QED BY <2>5, <2>6, <3>2, <3>3 DEF Create
  <2>8. \A j : j \notin Range(agent[Worker].todo) BY <2>3 DEF Range
  <2>9. \A b \in Agent : agent'[b].step = "saving" => agent'[b] = agent[b]
    BY <2>5, <2>6
  <2>10. \A job : InLate(job)' <=> InLate(job) BY <2>2 DEF InLate
  <2>11. DOMAIN statement \subseteq DOMAIN statement' BY <2>4
  <2>12. QED
    BY <2>2, <2>4, <2>7, <2>8, <2>9, <2>10, <2>11, MatchedKept
<1>3. QED BY <1>1, <1>2

(* The ledger's part.                                                      *)
LEMMA MatchedLedger ==
  ASSUME Typed, Typed', Matched,
         \/ StatusJob \/ StatusJobFails
         \/ \E e \in Entry : CreateRecord(e) \/ CancelRecord(e)
  PROVE  Matched'
<1>0. UNCHANGED <<statement, jobs, agent, finished, disturbed>>
      /\ record \in [Entry -> RecordStatus]
  BY DEF StatusJob, StatusJobFails, CreateRecord, CancelRecord, history, Typed, TypeOK
<1>1. ASSUME \A kind \in Anomaly : marks[kind] \subseteq marks'[kind],
             \A f \in Entry : record[f] \in {"RECONCILED", "VOID"} =>
                                record'[f] \in {"RECONCILED", "VOID"},
             \A f \in Entry : record'[f] = "RECONCILED" =>
               record[f] = "RECONCILED" \/ Names(f) # {} \/ f \in marks["unnamed"],
             \A f \in Entry : InLate([record |-> f, id |-> TRUE]) =>
               \/ InLate([record |-> f, id |-> TRUE])'
               \/ f \in marks'["dropped"] \/ record'[f] = "RECONCILED",
             \A job : InLate(job)' => InLate(job)
      PROVE  Matched'
  BY <1>0, <1>1, MatchedKept
<1>2. CASE StatusJob
  <2>1. PICK job : job = Head(late) OBVIOUS
  <2>2. /\ late # <<>> /\ late' = Tail(late) /\ marks' = marks
        /\ record' = IF job.id THEN [record EXCEPT ![job.record] = "RECONCILED"]
                     ELSE record
    BY <1>2, <2>1 DEF StatusJob, history
  <2>3. /\ \A j : InLate(j)' => InLate(j)
        /\ \A j : InLate(j) => InLate(j)' \/ j = job
        /\ job \in LateJob /\ job.record \in Entry /\ InLate(job)
    BY <2>1, <2>2, LateLeaves
  <2>4. Names(job.record) # {} \/ job.record \in marks["unnamed"]
    BY <2>3 DEF Matched, Backed
  <2>5. \A f \in Entry : record'[f] = record[f]
                         \/ (f = job.record /\ record'[f] = "RECONCILED")
    BY <1>0, <2>2
  <2>6. ASSUME NEW f \in Entry, record'[f] = "RECONCILED"
        PROVE  record[f] = "RECONCILED" \/ Names(f) # {} \/ f \in marks["unnamed"]
    BY <2>4, <2>5, <2>6
  <2>7. ASSUME NEW f \in Entry, InLate([record |-> f, id |-> TRUE])
        PROVE  InLate([record |-> f, id |-> TRUE])' \/ record'[f] = "RECONCILED"
    <3>1. CASE job = [record |-> f, id |-> TRUE]
      BY <1>0, <2>2, <3>1
    <3>2. CASE job # [record |-> f, id |-> TRUE] BY <2>3, <2>7, <3>2
    <3>3. QED BY <3>1, <3>2
  <2>8. QED BY <1>1, <2>2, <2>3, <2>5, <2>6, <2>7
<1>3. CASE StatusJobFails
  <2>1. PICK job : job = Head(late) OBVIOUS
  <2>2. /\ late # <<>> /\ late' = Tail(late) /\ record' = record
        /\ marks' = Mark("dropped", {job.record})
    BY <1>3, <2>1 DEF StatusJobFails
  <2>3. /\ \A j : InLate(j)' => InLate(j)
        /\ \A j : InLate(j) => InLate(j)' \/ j = job
    BY <2>1, <2>2, LateLeaves
  <2>4. /\ \A kind \in Anomaly : marks[kind] \subseteq marks'[kind]
        /\ job.record \in marks'["dropped"]
    BY <2>2 DEF Mark, Anomaly, Typed, TypeOK
  <2>5. ASSUME NEW f \in Entry, InLate([record |-> f, id |-> TRUE])
        PROVE  InLate([record |-> f, id |-> TRUE])' \/ f \in marks'["dropped"]
    <3>1. CASE job = [record |-> f, id |-> TRUE] BY <2>4, <3>1
    <3>2. CASE job # [record |-> f, id |-> TRUE] BY <2>3, <2>5, <3>2
    <3>3. QED BY <3>1, <3>2
  <2>6. QED BY <1>1, <2>2, <2>3, <2>4, <2>5
<1>4. ASSUME NEW e \in Entry, CreateRecord(e) \/ CancelRecord(e) PROVE Matched'
  <2>1. /\ late' = late /\ marks' = marks
        /\ \/ record[e] = "ABSENT" /\ record' = [record EXCEPT ![e] = "OPEN"]
           \/ record' = [record EXCEPT ![e] = "VOID"]
    BY <1>4 DEF CreateRecord, CancelRecord, history
  <2>2. \A job : InLate(job)' <=> InLate(job) BY <2>1 DEF InLate
  <2>3. \A f \in Entry :
          \/ record'[f] = record[f] \/ record'[f] = "VOID"
          \/ record[f] = "ABSENT" /\ record'[f] = "OPEN"
    BY <1>0, <2>1
  <2>4. QED BY <1>1, <2>1, <2>2, <2>3
<1>5. QED BY <1>2, <1>3, <1>4

(* A request begins, an upload arrives, an import fails, the process dies. *)
LEMMA MatchedRest ==
  ASSUME Typed, Typed', Matched,
         \/ Import \/ ImportFails \/ Crash \/ UNCHANGED vars
         \/ \E q \in Request : Retry(q) \/ Link(q)
  PROVE  Matched'
<1>0. Worker \in Agent /\ agent \in [Agent -> Session] /\ agent[Worker] \in Session
      /\ AgentOK(Worker, agent[Worker])
  BY DEF Typed, TypeOK, Working, Agent
<1>1. /\ UNCHANGED <<record, late, marks>> /\ (disturbed => disturbed')
      /\ \A job : InLate(job)' <=> InLate(job)
  <2>1. UNCHANGED <<record, late, marks>> /\ (disturbed => disturbed')
    <3>1. CASE Import BY <3>1 DEF Import, ImportStatement, history
    <3>2. CASE ImportFails BY <3>2, Zenon DEF ImportFails
    <3>3. CASE Crash BY <3>3, Zenon DEF Crash
    <3>4. CASE UNCHANGED vars BY <3>4 DEF vars, history
    <3>5. CASE \E q \in Request : Retry(q) \/ Link(q)
      <4>1. \A q, i : RetryRead(q, i) => UNCHANGED <<record, late, marks, disturbed>>
        BY DEF RetryRead, history
      <4>2. \A q, i, e : LinkRead(q, i, e) =>
              UNCHANGED <<record, late, marks, disturbed>>
        BY DEF LinkRead, history
      <4>3. UNCHANGED <<record, late, marks, disturbed>>
        BY <3>5, <4>1, <4>2 DEF Retry, Link
      <4>4. QED BY <4>3
    <3>6. QED BY <3>1, <3>2, <3>3, <3>4, <3>5
  <2>2. QED BY <2>1 DEF InLate
<1>2. ASSUME statement' = statement,
             \A b \in Agent : agent'[b].step = "saving" => agent'[b] = agent[b],
             agent'[Worker] = agent[Worker] \/ disturbed'
      PROVE  Matched'
  BY <1>1, <1>2, MatchedKept
<1>3. CASE Import \/ UNCHANGED vars
  <2>1. statement' = statement /\ agent' = agent
    BY <1>3 DEF Import, ImportStatement, vars
  <2>2. QED BY <1>2, <2>1
<1>4. ASSUME NEW q \in Request, Retry(q) \/ Link(q) PROVE Matched'
  <2>1. q \in Agent /\ q # Worker BY RequestAssumption DEF Agent
  <2> DEFINE Starts(s) == agent' = [agent EXCEPT ![q] = s] /\ s.step # "saving"
  <2>2. PICK s : Starts(s)
    <3>1. ASSUME NEW i, Begin(q, Reading(i)) PROVE \E s : Starts(s)
      <4>1. Reading(i).step = "finding" BY DEF Reading, Idle
      <4>2. Starts(Reading(i)) BY <3>1, <4>1 DEF Begin
      <4>3. QED BY <4>2
    <3>2. ASSUME NEW i, NEW e, LinkRead(q, i, e) PROVE \E s : Starts(s)
      <4>1. PICK s : s = [Idle EXCEPT !.step = "linking", !.todo = <<i>>, !.record = e]
        OBVIOUS
      <4>2. s.step = "linking" BY <4>1 DEF Idle
      <4>3. Starts(s) BY <3>2, <4>1, <4>2 DEF LinkRead, Begin
      <4>4. QED BY <4>3
    <3>3. QED BY <1>4, <3>1, <3>2 DEF Retry, RetryRead, Link
  <2>3. statement' = statement BY <1>4 DEF Retry, RetryRead, Link, LinkRead
  <2>4. \A b \in Agent : agent'[b] = IF b = q THEN s ELSE agent[b] BY <1>0, <2>2
  <2>5. \A b \in Agent : agent'[b].step = "saving" => agent'[b] = agent[b]
    BY <2>2, <2>4
  <2>6. QED BY <1>0, <1>2, <2>1, <2>3, <2>4, <2>5
<1>5. CASE ImportFails
  <2>1. statement' = statement /\ disturbed' /\ agent' = [agent EXCEPT ![Worker] = Idle]
    BY <1>5 DEF ImportFails, EndJob
  <2>2. \A b \in Agent : agent'[b].step = "saving" => agent'[b] = agent[b]
    BY <1>0, <2>1 DEF Idle
  <2>3. QED BY <1>2, <2>1, <2>2
<1>6. CASE Crash
  <2>1. /\ agent[Worker].step # "idle" => disturbed'
        /\ \A b \in Agent : agent'[b].step # "saving"
    <3>1. agent[Worker].step # "idle" => disturbed' BY <1>6, Zenon DEF Crash
    <3>2. \A b \in Agent : agent'[b].step # "saving" BY <1>6 DEF Crash, Idle
    <3>3. QED BY <3>1, <3>2
  <2>2. PICK lines \in Seq(Line) :
          /\ statement' = Inserted(lines)
          /\ lines # <<>> => jobs # <<>>
          /\ lines # <<>> => agent[Worker].step = "storing"
    BY <1>6, CrashStores
  <2>3. /\ Len(lines) \in Nat /\ DOMAIN lines = 1..Len(lines)
        /\ Len(statement) \in Nat /\ DOMAIN statement = 1..Len(statement)
        /\ DOMAIN statement' = 1..(Len(statement) + Len(lines))
        /\ \A j \in DOMAIN statement : statement'[j] = statement[j]
        /\ \A n \in DOMAIN lines :
             statement'[Len(statement) + n] = Create(lines[n], Head(jobs).run)
    <3>1. statement \in Seq(Statement) BY DEF Typed, TypeOK
    <3>2. lines # <<>> => jobs # <<>> BY <2>2
    <3>3. /\ Inserted(lines) \in Seq(Statement)
          /\ Len(Inserted(lines)) = Len(statement) + Len(lines)
          /\ \A i \in 1..Len(statement) : Inserted(lines)[i] = statement[i]
          /\ \A n \in 1..Len(lines) : Inserted(lines)[Len(statement) + n]
                                        = Create(lines[n], Head(jobs).run)
      BY <3>2, InsertedFacts
    <3>4. QED BY <2>2, <3>1, <3>3, LenProperties
  <2>4. \A j \in DOMAIN statement' : j \notin DOMAIN statement =>
          statement'[j].record = NoRecord /\ disturbed'
    <3>1. SUFFICES ASSUME NEW j \in DOMAIN statement', j \notin DOMAIN statement
                   PROVE  statement'[j].record = NoRecord /\ disturbed'
      OBVIOUS
    <3>2. PICK n \in DOMAIN lines : j = Len(statement) + n
      <4>1. j - Len(statement) \in DOMAIN lines
            /\ j = Len(statement) + (j - Len(statement))
        BY <2>3, <3>1
      <4>2. QED BY <4>1
    <3>3. statement'[j] = Create(lines[n], Head(jobs).run) BY <2>3, <3>2
    <3>4. lines # <<>> BY <3>2
    <3>5. QED BY <2>1, <2>2, <3>3, <3>4 DEF Create
  <2>5. ASSUME NEW j, j \in Range(agent[Worker].todo) PROVE disturbed'
    <3>1. agent[Worker].todo # <<>> BY <2>5 DEF Range
    <3>2. QED BY <1>0, <2>1, <3>1 DEF AgentOK
  <2>6. DOMAIN statement \subseteq DOMAIN statement' BY <2>3
  <2>7. QED
    BY <1>1, <2>1, <2>3, <2>4, <2>5, <2>6, MatchedKept
<1>7. QED BY <1>3, <1>4, <1>5, <1>6

LEMMA MatchedNext == Typed /\ Matched /\ [Next]_vars => Matched'
<1> SUFFICES ASSUME Typed, Matched, [Next]_vars PROVE Matched' OBVIOUS
<1>1. Typed' BY TypedNext
<1>2. \A q \in Request : q \in Agent BY DEF Agent
<1>3. Worker \in Agent BY DEF Agent
<1>4. ASSUME NEW a \in Agent, Reconcile(a) PROVE Matched'
  BY <1>1, <1>4, MatchedFind, MatchedUpdate DEF Reconcile, Saves
<1>5. ASSUME NEW q \in Request, LinkSave(q) PROVE Matched'
  BY <1>1, <1>2, <1>5, MatchedUpdate DEF Saves
<1>6. CASE ImportStep BY <1>1, <1>3, <1>4, <1>6, MatchedImport DEF ImportStep
<1>7. CASE \E q \in Request : Retry(q) \/ Link(q) \/ LinkSave(q) \/ Reconcile(q)
  BY <1>1, <1>2, <1>4, <1>5, <1>7, MatchedRest
<1>8. CASE \/ StatusJob \/ StatusJobFails
           \/ \E e \in Entry : CreateRecord(e) \/ CancelRecord(e)
  BY <1>1, <1>8, MatchedLedger
<1>9. CASE Import \/ ImportFails \/ Crash \/ UNCHANGED vars
  BY <1>1, <1>9, MatchedRest
<1>10. QED BY <1>6, <1>7, <1>8, <1>9 DEF Next

LEMMA MatchedAlways == Spec => []Matched
<1>1. Init => Matched
  <2>1. SUFFICES ASSUME Init PROVE Matched OBVIOUS
  <2>2. /\ DOMAIN statement = {} /\ \A job : ~InLate(job)
        /\ \A e \in Entry : record[e] = "ABSENT"
        /\ \A e : Names(e) = {} /\ Matching(e) = {}
    <3>1. DOMAIN statement = {} /\ DOMAIN late = {} BY <2>1 DEF Init
    <3>2. \A e \in Entry : record[e] = "ABSENT" BY <2>1 DEF Init
    <3>3. \A e : Matching(e) = {} BY <2>1 DEF Init, Matching, Idle
    <3>4. QED BY <3>1, <3>2, <3>3 DEF InLate, Names
  <2>3. QED
    BY <2>2 DEF Matched, PendingExplained, RecordFollows, StatementBehind, Backed,
                Single
<1>2. QED BY <1>1, TypedInit, TypedNext, MatchedNext, PTL DEF Spec

(* PendingExplained: what an import has stored it goes on to match; only a *)
(* crash or a failure of an import leaves a statement PENDING behind.      *)
THEOREM NothingLeftPending == Spec => []PendingExplained
<1>1. Matched => PendingExplained BY DEF Matched
<1>2. QED BY <1>1, MatchedAlways, PTL

(* RecordFollows: a reconciled statement has a reconciled or cancelled     *)
(* record, or the job that will reconcile it, or a reason why it has not.  *)
THEOREM RecordIsTold == Spec => []RecordFollows
<1>1. Matched => RecordFollows BY DEF Matched
<1>2. QED BY <1>1, MatchedAlways, PTL

(* StatementBehind: the reconciled records are those that a statement      *)
(* names, or named until a link or a stale match overwrote it.             *)
THEOREM RecordHasStatement == Spec => []StatementBehind
<1>1. Matched => StatementBehind BY DEF Matched
<1>2. QED BY <1>1, MatchedAlways, PTL

(* MatchedOnce: the reconciler never gives one record to two statements,   *)
(* except on the three ways that the model marks.                          *)
THEOREM OneStatementEach == Spec => []MatchedOnce
<1>1. Matched => MatchedOnce
  <2>1. SUFFICES ASSUME Matched, NEW e \in Entry \ Loose,
                        Cardinality(Names(e)) > 1
                 PROVE  FALSE
    BY DEF MatchedOnce, Loose
  <2>2. \A i, j \in Names(e) : i = j BY <2>1 DEF Matched, Single
  <2>3. CASE Names(e) = {} BY <2>1, <2>3, FS_EmptySet
  <2>4. CASE Names(e) # {}
    <3>1. PICK i : Names(e) = {i} BY <2>2, <2>4
    <3>2. PICK S : S = Names(e) OBVIOUS
    <3>3. Cardinality(S) = 1 BY <3>1, <3>2, FS_Singleton
    <3>4. QED BY <2>1, <3>2, <3>3
  <2>5. QED BY <2>3, <2>4
<1>2. QED BY <1>1, MatchedAlways, PTL
================================================================================
