---------------------------- MODULE Patrimony_proofs ---------------------------
(***************************************************************************)
(* Machine-checked proofs about Patrimony, for every number of assets and  *)
(* requests, every sheet, edit and count, whatever fails:                  *)
(*   - histories only grow, but for stale copies;                          *)
(*   - they explain what the asset is;                                     *)
(*   - files and documents agree.                                          *)
(***************************************************************************)
EXTENDS Patrimony, SequenceTheorems, TLAPS

IsStory(h) == \E S : h \in Seq(S)

IsDocument(d) ==
  /\ d = [facts |-> d.facts, history |-> d.history, checked |-> d.checked]
  /\ IsStory(d.history)

(* What a request carries.                                                 *)
IsRequest(q) ==
  q = [step |-> q.step, kind |-> q.kind, asset |-> q.asset,
       payload |-> q.payload, copy |-> q.copy, added |-> q.added,
       removed |-> q.removed]

Changes == {"update", "dispose", "inventory"}

Waits(q) == q = Idle

(* A request that is about to store has read a document, unless it makes   *)
(* one; and so has the job at its row.                                     *)
Holds(q) ==
  /\ IsRequest(q)
  /\ q.step \in {"read", "store", "clean"}
  /\ q.kind \in Changes \union {"create"}
  /\ q.kind # "create" /\ q.step = "store" => IsDocument(q.copy)
  /\ q.kind = "create" => q.copy = Missing

Kept ==
  /\ asset = [a \in Asset |-> asset[a]]
  /\ req = [r \in Request |-> req[r]]
  /\ \A a \in Asset : asset[a] # Missing => IsDocument(asset[a])
  /\ \A r \in Request : Waits(req[r]) \/ Holds(req[r])
  /\ importer = [row |-> importer.row, copy |-> importer.copy]
  /\ importer.copy # Missing => IsDocument(importer.copy)
-----------------------------------------------------------------------------
LEMMA ReverseFacts ==
  ASSUME NEW S, NEW s \in Seq(S)
  PROVE  /\ Reverse(s) \in Seq(S) /\ Len(Reverse(s)) = Len(s)
         /\ \A i \in 1..Len(s) : Reverse(s)[i] = s[Len(s) - i + 1]
<1>1. Len(s) \in Nat /\ \A i \in 1..Len(s) : s[i] \in S
  BY LenProperties, ElementOfSeq
<1>2. \A i \in 1..Len(s) : Len(s) - i + 1 \in 1..Len(s) BY <1>1
<1>3. Reverse(s) \in [1..Len(s) -> S] BY <1>1, <1>2 DEF Reverse
<1>4. Reverse(s) \in Seq(S) BY <1>1, <1>3
<1>5. QED BY <1>1, <1>3, <1>4 DEF Reverse

LEMMA SuffixOfConcat ==
  ASSUME NEW S, NEW s \in Seq(S), NEW t \in Seq(S)
  PROVE  IsSuffix(t, s \o t)
<1>. DEFINE u == s \o t
            n == Len(t)
            m == Len(u)
<1>1. /\ u \in Seq(S) /\ m = Len(s) + n /\ n \in Nat /\ Len(s) \in Nat
      /\ \A i \in 1..m : u[i] = IF i <= Len(s) THEN s[i] ELSE t[i - Len(s)]
  BY ConcatProperties, LenProperties
<1>. HIDE DEF u
<1>2. /\ Reverse(t) \in Seq(S) /\ Len(Reverse(t)) = n
      /\ Reverse(u) \in Seq(S) /\ Len(Reverse(u)) = m
      /\ \A i \in 1..n : Reverse(t)[i] = t[n - i + 1]
      /\ \A i \in 1..m : Reverse(u)[i] = u[m - i + 1]
  BY <1>1, ReverseFacts
<1>. HIDE DEF n, m
<1>3. \A i \in 1..n : Reverse(t)[i] = Reverse(u)[i]
  <2>. SUFFICES ASSUME NEW i \in 1..n PROVE Reverse(t)[i] = Reverse(u)[i]
    OBVIOUS
  <2>. DEFINE k == m - i + 1
  <2>1. k \in 1..m /\ ~ (k <= Len(s)) /\ i \in 1..m /\ k - Len(s) = n - i + 1
    BY <1>1
  <2>2. Reverse(u)[i] = u[k] BY <1>2, <2>1
  <2>. HIDE DEF k
  <2>3. u[k] = t[k - Len(s)] BY <1>1, <2>1
  <2>4. QED BY <1>2, <2>1, <2>2, <2>3
<1>4. /\ SubSeq(Reverse(t), 1, n) = Reverse(t)
      /\ SubSeq(Reverse(u), 1, n) \in Seq(S)
      /\ Len(SubSeq(Reverse(u), 1, n)) = n
      /\ \A i \in 1..n : SubSeq(Reverse(u), 1, n)[i] = Reverse(u)[i]
  <2>1. \A i \in 1..n : Reverse(u)[i] \in S
    BY <1>1, <1>2, ElementOfSeq
  <2>2. SubSeq(Reverse(t), 1, n) = Reverse(t) BY <1>2, SubSeqFull
  <2>3. /\ SubSeq(Reverse(u), 1, n) \in Seq(S)
        /\ Len(SubSeq(Reverse(u), 1, n)) = IF 1 <= n THEN n - 1 + 1 ELSE 0
        /\ \A i \in 1..(n - 1 + 1) :
             SubSeq(Reverse(u), 1, n)[i] = Reverse(u)[1 + i - 1]
    BY <1>1, <2>1, SubSeqProperties
  <2>4. QED BY <1>1, <2>2, <2>3
<1>5. SubSeq(Reverse(u), 1, n) = Reverse(t)
  BY <1>2, <1>3, <1>4, SeqEqual
<1>6. IsPrefix(Reverse(t), Reverse(u))
  BY <1>1, <1>2, <1>4, <1>5 DEF IsPrefix
<1>7. QED BY <1>6 DEF IsSuffix, u

LEMMA SuffixOfItself ==
  ASSUME NEW h, IsStory(h)
  PROVE  IsSuffix(h, h)
<1>1. PICK S : h \in Seq(S) BY DEF IsStory
<1>2. <<>> \in Seq(S) /\ <<>> \o h = h BY <1>1, ConcatEmptySeq, EmptySeq
<1>3. QED BY <1>1, <1>2, SuffixOfConcat

(* An entry in front of a history leaves it as its end.                    *)
LEMMA OneMore ==
  ASSUME NEW h, IsStory(h), NEW entry
  PROVE  IsStory(<<entry>> \o h) /\ IsSuffix(h, <<entry>> \o h)
<1>1. PICK S : h \in Seq(S) BY DEF IsStory
<1>. DEFINE T == S \union {entry}
<1>2. h \in Seq(T) BY <1>1, SeqMonotonic
<1>3. <<entry>> \in Seq(T) OBVIOUS
<1>. HIDE DEF T
<1>4. <<entry>> \o h \in Seq(T) /\ IsSuffix(h, <<entry>> \o h)
  BY <1>2, <1>3, ConcatProperties, SuffixOfConcat
<1>5. QED BY <1>4 DEF IsStory
-----------------------------------------------------------------------------
(* Reading a document changes nothing but the date of an asset that was    *)
(* never checked.                                                          *)
LEMMA ReadingFacts ==
  ASSUME NEW d, IsDocument(d)
  PROVE  IsDocument(Reading(d)) /\ Reading(d).history = d.history
<1>1. /\ Reading(d).facts = d.facts /\ Reading(d).history = d.history
      /\ Reading(d) = [facts |-> d.facts, history |-> d.history,
                       checked |-> Reading(d).checked]
  BY DEF Reading, IsDocument
<1>2. QED BY <1>1 DEF IsDocument

LEMMA AppendFacts ==
  ASSUME NEW d, IsDocument(d), NEW facts, NEW entry
  PROVE  /\ IsDocument(AppendHistory(d, facts, entry))
         /\ IsSuffix(d.history, AppendHistory(d, facts, entry).history)
<1>1. IsStory(d.history) BY DEF IsDocument
<1>2. /\ IsStory(<<entry>> \o d.history)
      /\ IsSuffix(d.history, <<entry>> \o d.history)
  BY <1>1, OneMore
<1>. DEFINE new == AppendHistory(d, facts, entry)
<1>3. /\ new = [facts |-> facts, history |-> <<entry>> \o d.history,
                checked |-> d.checked]
      /\ new.facts = facts /\ new.checked = d.checked
      /\ new.history = <<entry>> \o d.history
  BY DEF AppendHistory
<1>. HIDE DEF new
<1>4. IsDocument(new) BY <1>2, <1>3 DEF IsDocument
<1>5. QED BY <1>2, <1>3, <1>4 DEF new

LEMMA CreatedFacts ==
  ASSUME NEW facts
  PROVE  IsDocument(Created(facts))
<1>1. PICK e :
        Created(facts) = [facts |-> facts, checked |-> "never", history |-> <<e>>]
  BY DEF Created
<1>. DEFINE h == <<e>>
<1>2. h \in Seq({e}) OBVIOUS
<1>. HIDE DEF h
<1>3. IsStory(h) BY <1>2 DEF IsStory
<1>4. QED BY <1>1, <1>3 DEF IsDocument, h

LEMMA InventoriedFacts ==
  ASSUME NEW d, IsDocument(d), NEW row
  PROVE  /\ IsDocument(Inventoried(d, row))
         /\ IsSuffix(d.history, Inventoried(d, row).history)
<1>1. PICK facts, entry :
        Inventoried(d, row) =
          [AppendHistory(d, facts, entry) EXCEPT !.checked = "checked"]
  BY DEF Inventoried
<1>. DEFINE new == AppendHistory(d, facts, entry)
<1>2. IsDocument(new) /\ IsSuffix(d.history, new.history) BY AppendFacts
<1>3. new.history = <<entry>> \o d.history BY DEF AppendHistory
<1>. HIDE DEF new
<1>4. /\ Inventoried(d, row).history = new.history
      /\ Inventoried(d, row).facts = new.facts
      /\ Inventoried(d, row) =
           [facts |-> new.facts, history |-> new.history,
            checked |-> Inventoried(d, row).checked]
  BY <1>1, <1>2 DEF IsDocument, new
<1>5. QED BY <1>2, <1>4 DEF IsDocument

(* Each of the three changes of a document keeps its history.              *)
LEMMA ResultFacts ==
  ASSUME NEW d, IsDocument(d), NEW kind \in Changes, NEW payload
  PROVE  /\ IsDocument(Result(kind, d, payload))
         /\ IsSuffix(d.history, Result(kind, d, payload).history)
<1>1. CASE kind = "update"
  <2>1. Result(kind, d, payload) = Updated(d, payload) BY <1>1 DEF Result
  <2>2. PICK facts, entry :
          \/ Updated(d, payload) = d
          \/ Updated(d, payload) = AppendHistory(d, facts, entry)
    BY DEF Updated
  <2>3. IsSuffix(d.history, d.history) BY SuffixOfItself DEF IsDocument
  <2>4. QED BY <2>1, <2>2, <2>3, AppendFacts
<1>2. CASE kind = "dispose"
  <2>1. Result(kind, d, payload) = Disposed(d, payload) BY <1>2 DEF Result
  <2>2. PICK facts, entry :
          Disposed(d, payload) = AppendHistory(d, facts, entry)
    BY DEF Disposed
  <2>3. QED BY <2>1, <2>2, AppendFacts
<1>3. CASE kind = "inventory"
  <2>1. Result(kind, d, payload) = Inventoried(d, payload) BY <1>3 DEF Result
  <2>2. QED BY <2>1, InventoriedFacts
<1>4. QED BY <1>1, <1>2, <1>3 DEF Changes
-----------------------------------------------------------------------------
LEMMA KeptInit == Init => Kept
BY DEF Init, Kept, Waits

(* A request that moves as it must keeps the invariant.                    *)
LEMMA RequestMoves ==
  ASSUME Kept, NEW r \in Request, NEW q, Waits(q) \/ Holds(q),
         req' = [req EXCEPT ![r] = q], UNCHANGED <<asset, importer>>
  PROVE  Kept'
<1>1. req' = [o \in Request |-> req'[o]] BY DEF Kept
<1>2. \A o \in Request : Waits(req'[o]) \/ Holds(req'[o])
  BY DEF Kept
<1>3. QED BY <1>1, <1>2 DEF Kept

(* The importer moves on, with what it has read.                           *)
LEMMA ImporterMoves ==
  ASSUME Kept, UNCHANGED <<asset, req>>,
         importer' = [row |-> importer'.row, copy |-> importer'.copy],
         importer'.copy # Missing => IsDocument(importer'.copy)
  PROVE  Kept'
BY DEF Kept

(* A whole document is written: no entry is lost unless the copy was stale.*)
LEMMA UpsertFacts ==
  ASSUME Kept, NEW a, NEW copy, NEW doc, Upsert(a, copy, doc), IsDocument(doc),
         copy = Missing \/ (IsDocument(copy) /\ IsSuffix(copy.history, doc.history)),
         \A d : IsDocument(d) => d # Missing
  PROVE  /\ asset' = [b \in Asset |-> asset'[b]]
         /\ \A b \in Asset : asset'[b] # Missing => IsDocument(asset'[b])
         /\ \A b \in Stored :
              \/ IsSuffix(asset[b].history, asset'[b].history)
              \/ "stale" \in incidents'
<1>1. asset' = [asset EXCEPT ![a] = doc] /\ asset = [b \in Asset |-> asset[b]]
  BY DEF Upsert, Kept
<1>2. \A b \in Asset : asset'[b] = IF b = a THEN doc ELSE asset[b] BY <1>1
<1>3. \A b \in Asset : asset'[b] # Missing => IsDocument(asset'[b])
  BY <1>2 DEF Kept, Stored
<1>4. ASSUME NEW b \in Stored
      PROVE  \/ IsSuffix(asset[b].history, asset'[b].history)
             \/ "stale" \in incidents'
  <2>1. b \in Asset /\ asset[b] # Missing /\ IsDocument(asset[b])
    BY DEF Stored, Kept
  <2>2. /\ IsDocument(Reading(asset[b]))
        /\ Reading(asset[b]).history = asset[b].history
    BY <2>1, ReadingFacts
  <2>3. CASE b = a /\ Reading(asset[b]) = copy
    <3>1. copy # Missing BY <2>2, <2>3
    <3>2. QED BY <1>2, <2>1, <2>2, <2>3, <3>1
  <2>4. CASE b = a /\ Reading(asset[b]) # copy
    BY <2>1, <2>4 DEF Upsert
  <2>5. CASE b # a
    <3>1. IsStory(asset[b].history) BY <2>1 DEF IsDocument
    <3>2. asset'[b] = asset[b] BY <1>2, <2>1, <2>5
    <3>3. QED BY <3>1, <3>2, SuffixOfItself
  <2>6. QED BY <2>3, <2>4, <2>5
<1>5. QED BY <1>1, <1>3, <1>4
-----------------------------------------------------------------------------
LEMMA BusyHolds ==
  ASSUME Kept, NEW r \in Request, req[r].step # "idle"
  PROVE  Holds(req[r])
<1>1. Idle.step = "idle" BY DEF Idle
<1>2. QED BY <1>1 DEF Kept, Waits

LEMMA BeginKeeps ==
  ASSUME Kept, NEW r \in Request, NEW kind \in Changes \union {"create"},
         NEW a, NEW payload, NEW add, Begin(r, kind, a, payload, add)
  PROVE  Kept'
<1>. DEFINE q == [step |-> "read", kind |-> kind, asset |-> a,
                  payload |-> payload, copy |-> Missing, added |-> add,
                  removed |-> {}]
<1>1. req' = [req EXCEPT ![r] = q] /\ UNCHANGED <<asset, importer>>
  BY DEF Begin
<1>2. Holds(q) BY DEF Holds, IsRequest, Changes
<1>. HIDE DEF q
<1>3. QED BY <1>1, <1>2, RequestMoves

LEMMA ReadKeeps ==
  ASSUME Kept, NEW r \in Request, Read(r)
  PROVE  Kept'
<1>. DEFINE copy == IF req[r].kind = "create" THEN Missing
                    ELSE Reading(asset[req[r].asset])
            q == [req[r] EXCEPT !.step = "store", !.copy = copy]
<1>1. Holds(req[r]) /\ Found(r) BY BusyHolds DEF Read
<1>2. req[r].kind # "create" => IsDocument(copy)
  BY <1>1, ReadingFacts DEF Found, Stored, Kept
<1>3. req[r].kind = "create" => copy = Missing OBVIOUS
<1>4. req' = [req EXCEPT ![r] = q] /\ UNCHANGED <<asset, importer>>
  BY DEF Read, Kept
<1>. HIDE DEF copy
<1>5. /\ q.step = "store" /\ q.kind = req[r].kind /\ q.copy = copy
      /\ IsRequest(q)
  <2>1. PICK s, k, a, l, c, m, n :
          req[r] = [step |-> s, kind |-> k, asset |-> a, payload |-> l,
                    copy |-> c, added |-> m, removed |-> n]
    BY <1>1 DEF Holds, IsRequest
  <2>. DEFINE t == [req[r] EXCEPT !.step = "store"]
  <2>2. t = [step |-> "store", kind |-> k, asset |-> a, payload |-> l, copy |-> c,
             added |-> m, removed |-> n]
    BY <2>1
  <2>3. q = [t EXCEPT !.copy = copy] OBVIOUS
  <2>. HIDE DEF t, q
  <2>4. q = [step |-> "store", kind |-> k, asset |-> a, payload |-> l,
             copy |-> copy, added |-> m, removed |-> n]
    BY <2>2, <2>3
  <2>5. QED BY <2>1, <2>4 DEF IsRequest
<1>. HIDE DEF q
<1>6. Holds(q) BY <1>1, <1>2, <1>3, <1>5 DEF Holds
<1>7. QED BY <1>4, <1>6, RequestMoves

LEMMA EndKeeps ==
  ASSUME Kept, NEW r \in Request, req' = [req EXCEPT ![r] = Idle],
         UNCHANGED <<asset, importer>>
  PROVE  Kept'
BY RequestMoves DEF Waits

(* What a step does to the histories.                                      *)
Grown ==
  \A b \in Stored :
    \/ IsSuffix(asset[b].history, asset'[b].history)
    \/ "stale" \in incidents'

LEMMA SameGrown ==
  ASSUME Kept, UNCHANGED asset
  PROVE  Grown
<1>1. \A b \in Stored : IsStory(asset[b].history)
  BY DEF Kept, Stored, IsDocument
<1>2. QED BY <1>1, SuffixOfItself DEF Grown

LEMMA StoreKeeps ==
  ASSUME Kept, NEW r \in Request, Store(r), \A d : IsDocument(d) => d # Missing
  PROVE  Kept' /\ Grown
<1>. DEFINE doc == Result(req[r].kind, req[r].copy, req[r].payload)
            q == [req[r] EXCEPT !.step = "clean", !.removed = Removed(req[r])]
<1>1. /\ Upsert(req[r].asset, req[r].copy, doc) /\ req[r].step = "store"
      /\ req' = [req EXCEPT ![r] = q] /\ UNCHANGED importer
  BY DEF Store, Kept
<1>2. Holds(req[r]) BY <1>1, BusyHolds
<1>3. /\ IsDocument(doc)
      /\ \/ req[r].copy = Missing
         \/ IsDocument(req[r].copy) /\ IsSuffix(req[r].copy.history, doc.history)
  <2>1. CASE req[r].kind = "create"
    BY <1>2, <2>1, CreatedFacts DEF Holds, Result
  <2>2. CASE req[r].kind # "create"
    BY <1>1, <1>2, <2>2, ResultFacts DEF Holds
  <2>3. QED BY <2>1, <2>2
<1>4. Holds(q)
  <2>1. /\ IsRequest(q) /\ q.step = "clean" /\ q.kind = req[r].kind
        /\ q.copy = req[r].copy
    <3>1. PICK s, k, a, l, c, m, n :
            req[r] = [step |-> s, kind |-> k, asset |-> a, payload |-> l,
                      copy |-> c, added |-> m, removed |-> n]
      BY <1>2 DEF Holds, IsRequest
    <3>. DEFINE t == [req[r] EXCEPT !.step = "clean"]
    <3>2. t = [step |-> "clean", kind |-> k, asset |-> a, payload |-> l, copy |-> c,
               added |-> m, removed |-> n]
      BY <3>1
    <3>3. q = [t EXCEPT !.removed = Removed(req[r])] OBVIOUS
    <3>. HIDE DEF t, q
    <3>4. q = [step |-> "clean", kind |-> k, asset |-> a, payload |-> l,
               copy |-> c, added |-> m, removed |-> Removed(req[r])]
      BY <3>2, <3>3
    <3>5. QED BY <3>1, <3>4 DEF IsRequest
  <2>2. QED BY <1>2, <2>1 DEF Holds
<1>. HIDE DEF doc, q
<1>5. /\ asset' = [b \in Asset |-> asset'[b]]
      /\ \A b \in Asset : asset'[b] # Missing => IsDocument(asset'[b])
      /\ Grown
  BY <1>1, <1>3, UpsertFacts DEF Grown
<1>6. /\ req' = [o \in Request |-> req'[o]]
      /\ \A o \in Request : Waits(req'[o]) \/ Holds(req'[o])
  BY <1>1, <1>4 DEF Kept
<1>7. QED BY <1>1, <1>5, <1>6 DEF Kept

LEMMA RequestKeeps ==
  ASSUME Kept, RequestStep, \A d : IsDocument(d) => d # Missing
  PROVE  Kept' /\ Grown
<1>1. PICK r \in Request :
        \/ BeginCreate(r) \/ BeginUpdate(r) \/ BeginDispose(r)
        \/ BeginInventory(r)
        \/ Read(r) \/ Refuse(r) \/ Store(r) \/ StoreFails(r) \/ Clean(r)
  BY DEF RequestStep
<1>2. CASE Store(r) BY <1>2, StoreKeeps
<1>3. CASE ~ Store(r)
  <2>1. UNCHANGED asset
    BY <1>1, <1>3 DEF BeginCreate, BeginUpdate, BeginDispose, BeginInventory,
       Begin, Read, Refuse, StoreFails, GiveUp, Clean
  <2>2. CASE \/ BeginCreate(r) \/ BeginUpdate(r) \/ BeginDispose(r)
             \/ BeginInventory(r)
    <3>1. PICK kind, a, payload, add :
            kind \in Changes \union {"create"} /\ Begin(r, kind, a, payload, add)
      BY <2>2 DEF BeginCreate, BeginUpdate, BeginDispose, BeginInventory, Changes
    <3>2. QED BY <2>1, <3>1, BeginKeeps, SameGrown
  <2>3. CASE Read(r) BY <2>1, <2>3, ReadKeeps, SameGrown
  <2>4. CASE Refuse(r) \/ StoreFails(r) \/ Clean(r)
    BY <2>1, <2>4, EndKeeps, SameGrown DEF Refuse, StoreFails, GiveUp, Clean
  <2>5. QED BY <1>1, <1>3, <2>2, <2>3, <2>4
<1>4. QED BY <1>2, <1>3
-----------------------------------------------------------------------------
LEMMA RowKeeps ==
  ASSUME Kept, RowStore, \A d : IsDocument(d) => d # Missing
  PROVE  Kept' /\ Grown
<1>. DEFINE doc == Inventoried(importer.copy, ThisRow)
<1>1. /\ Upsert(ThisRow.asset, importer.copy, doc) /\ importer.copy # Missing
      /\ importer' = [row |-> importer.row + 1, copy |-> Missing]
      /\ UNCHANGED req
  BY DEF RowStore, NextRow
<1>2. IsDocument(importer.copy) BY <1>1 DEF Kept
<1>3. IsDocument(doc) /\ IsSuffix(importer.copy.history, doc.history)
  BY <1>2, InventoriedFacts
<1>. HIDE DEF doc
<1>4. /\ asset' = [b \in Asset |-> asset'[b]]
      /\ \A b \in Asset : asset'[b] # Missing => IsDocument(asset'[b])
      /\ Grown
  BY <1>1, <1>2, <1>3, UpsertFacts DEF Grown
<1>5. QED BY <1>1, <1>4 DEF Kept

LEMMA ImportKeeps ==
  ASSUME Kept, ImportStep, \A d : IsDocument(d) => d # Missing
  PROVE  Kept' /\ Grown
<1>1. CASE \E sheet \in Sheet : ImportInventory(sheet)
  BY <1>1, ImporterMoves, SameGrown DEF ImportInventory, Kept
<1>2. CASE RowSkip \/ RowFails \/ ImportEnd
  <2>1. /\ UNCHANGED <<asset, req>> /\ importer'.copy = Missing
        /\ importer' = [row |-> importer'.row, copy |-> importer'.copy]
    BY <1>2 DEF RowSkip, RowFails, NextRow, ImportEnd
  <2>2. QED BY <2>1, ImporterMoves, SameGrown
<1>3. CASE RowRead
  <2>1. ThisRow.asset \in Stored BY <1>3 DEF RowRead, Skipped
  <2>2. IsDocument(Reading(asset[ThisRow.asset]))
    BY <2>1, ReadingFacts DEF Stored, Kept
  <2>3. /\ UNCHANGED <<asset, req>>
        /\ importer' = [row |-> importer.row, copy |-> Reading(asset[ThisRow.asset])]
    BY <1>3 DEF RowRead, Kept
  <2>4. QED BY <2>2, <2>3, ImporterMoves, SameGrown
<1>4. CASE RowStore BY <1>4, RowKeeps
<1>5. QED BY <1>1, <1>2, <1>3, <1>4 DEF ImportStep

LEMMA KeptStep ==
  ASSUME Kept, [Next]_vars, \A d : IsDocument(d) => d # Missing
  PROVE  Kept' /\ Grown
<1>1. CASE RequestStep BY <1>1, RequestKeeps
<1>2. CASE ImportStep BY <1>2, ImportKeeps
<1>3. CASE Crash
  <2>1. /\ req' = [r \in Request |-> Idle] /\ UNCHANGED asset
        /\ importer' = [row |-> 1, copy |-> Missing]
    BY <1>3 DEF Crash
  <2>2. Kept' BY <2>1 DEF Kept, Waits
  <2>3. QED BY <2>1, <2>2, SameGrown
<1>4. CASE UNCHANGED vars
  <2>1. UNCHANGED <<asset, req, importer>> BY <1>4 DEF vars
  <2>2. Kept' BY <2>1 DEF Kept
  <2>3. QED BY <2>1, <2>2, SameGrown
<1>5. QED BY <1>1, <1>2, <1>3, <1>4 DEF Next

(* No step takes an entry out of the history of an asset, unless a stale   *)
(* copy is written (Asset.updateDetails, markInventory and dispose, each   *)
(* behind AssetMongoRepository.upsert). Missing stands for an absent       *)
(* document, so no document is Missing.                                    *)
THEOREM HistoryGrowsHolds ==
  ASSUME \A d : IsDocument(d) => d # Missing
  PROVE  Spec => HistoryGrows
<1>1. Init => Kept BY KeptInit
<1>2. Kept /\ [Next]_vars => Kept' BY KeptStep
<1>3. Kept /\ [Next]_vars =>
        [\A a \in Stored :
           \/ IsSuffix(asset[a].history, asset'[a].history)
           \/ "stale" \in incidents']_vars
  BY KeptStep DEF Grown
<1>4. QED BY <1>1, <1>2, <1>3, PTL DEF Spec, HistoryGrows
-----------------------------------------------------------------------------
(***************************************************************************)
(* The history explains the asset: of every document, stored or in hand.   *)
(***************************************************************************)

Actions == {"CREATED", "UPDATED", "DISPOSAL", "INVENTORY_CONFIRMED"}

(* An entry in front moves the others back by one place.                   *)
LEMMA InFront ==
  ASSUME NEW h, IsStory(h), NEW entry, NEW g, g = <<entry>> \o h
  PROVE  /\ Len(h) \in Nat /\ DOMAIN h = 1..Len(h)
         /\ DOMAIN g = 1..(Len(h) + 1) /\ g[1] = entry
         /\ \A n \in DOMAIN h : g[n + 1] = h[n]
<1>1. PICK S : h \in Seq(S) BY DEF IsStory
<1>. DEFINE T == S \union {entry}
<1>2. h \in Seq(T) BY <1>1, SeqMonotonic
<1>3. <<entry>> \in Seq(T) OBVIOUS
<1>. HIDE DEF T
<1>4. g \in Seq(T) /\ Len(g) = 1 + Len(h)
      /\ \A i \in 1..Len(g) :
           g[i] = IF i <= 1 THEN <<entry>>[i] ELSE h[i - 1]
  BY <1>2, <1>3, ConcatProperties
<1>5. Len(h) \in Nat /\ DOMAIN h = 1..Len(h) /\ DOMAIN g = 1..Len(g)
  BY <1>2, <1>4, LenProperties
<1>6. ASSUME NEW n \in DOMAIN h PROVE g[n + 1] = h[n]
  <2>1. n \in 1..Len(h) BY <1>5
  <2>2. n + 1 \in 1..Len(g) /\ ~ (n + 1 <= 1) /\ n + 1 - 1 = n BY <1>4, <1>5, <2>1
  <2>3. QED BY <1>4, <2>2
<1>7. g[1] = entry BY <1>4, <1>5
<1>8. QED BY <1>4, <1>5, <1>6, <1>7

LEMMA TellingMore ==
  ASSUME NEW h, IsStory(h), NEW entry, NEW g, g = <<entry>> \o h, NEW f
  PROVE  /\ 1 \in Telling(g, f) <=> f \in DOMAIN entry.is
         /\ \A n \in Telling(h, f) : n \in 1..Len(h) /\ n + 1 \in Telling(g, f)
         /\ \A n \in Telling(g, f) :
              n \in 1..(Len(h) + 1) /\ (n # 1 => n - 1 \in Telling(h, f))
<1>1. /\ Len(h) \in Nat /\ DOMAIN h = 1..Len(h)
      /\ DOMAIN g = 1..(Len(h) + 1) /\ g[1] = entry
      /\ \A n \in DOMAIN h : g[n + 1] = h[n]
  BY InFront
<1>2. 1 \in DOMAIN g BY <1>1
<1>3. ASSUME NEW n \in Telling(h, f)
      PROVE  n \in 1..Len(h) /\ n + 1 \in Telling(g, f)
  <2>1. n \in 1..Len(h) /\ f \in DOMAIN h[n].is BY <1>1 DEF Telling
  <2>2. n + 1 \in DOMAIN g /\ g[n + 1] = h[n] BY <1>1, <2>1
  <2>3. QED BY <2>1, <2>2 DEF Telling
<1>4. ASSUME NEW n \in Telling(g, f)
      PROVE  n \in 1..(Len(h) + 1) /\ (n # 1 => n - 1 \in Telling(h, f))
  <2>1. n \in 1..(Len(h) + 1) /\ f \in DOMAIN g[n].is BY <1>1 DEF Telling
  <2>2. ASSUME n # 1 PROVE n - 1 \in Telling(h, f)
    <3>1. n - 1 \in DOMAIN h /\ (n - 1) + 1 = n BY <1>1, <2>1, <2>2
    <3>2. g[n] = h[n - 1] BY <1>1, <3>1
    <3>3. QED BY <2>1, <3>1, <3>2 DEF Telling
  <2>3. QED BY <2>1, <2>2
<1>5. QED BY <1>1, <1>2, <1>3, <1>4 DEF Telling

(* An entry that tells of all that changes explains the new facts.         *)
LEMMA AppendExplains ==
  ASSUME NEW d, IsDocument(d), GoodDocument(d), Explained(d),
         NEW new \in Facts, NEW action \in Actions, NEW S \in SUBSET Fact,
         \A f \in Fact \ S : new[f] = d.facts[f]
  PROVE  LET n == AppendHistory(d, new, Entry(action, S, d.facts, new))
         IN GoodDocument(n) /\ Explained(n)
<1>. DEFINE e == Entry(action, S, d.facts, new)
            h == d.history
            g == <<e>> \o h
            n == AppendHistory(d, new, e)
<1>1. /\ e.action = action /\ DOMAIN e.was = S /\ DOMAIN e.is = S
      /\ \A f \in S : e.was[f] = d.facts[f] /\ e.is[f] = new[f]
  BY DEF Entry
<1>2. n.facts = new /\ n.history = g /\ n.checked = d.checked BY DEF AppendHistory
<1>3. IsStory(h) BY DEF IsDocument
<1>. HIDE DEF e, g, n
<1>4. /\ Len(h) \in Nat /\ DOMAIN h = 1..Len(h)
      /\ DOMAIN g = 1..(Len(h) + 1) /\ g[1] = e
      /\ \A i \in DOMAIN h : g[i + 1] = h[i]
  BY <1>3, InFront DEF g
<1>5. ASSUME NEW i \in DOMAIN g PROVE GoodEntry(g[i])
  <2>1. CASE i = 1 BY <1>1, <1>4, <2>1 DEF GoodEntry, Actions
  <2>2. CASE i # 1
    <3>1. i - 1 \in DOMAIN h /\ (i - 1) + 1 = i BY <1>4, <2>2
    <3>2. g[i] = h[i - 1] BY <1>4, <3>1
    <3>3. QED BY <3>1, <3>2 DEF GoodDocument
  <2>3. QED BY <2>1, <2>2
<1>6. GoodDocument(n) BY <1>2, <1>5 DEF GoodDocument
<1>7. ASSUME NEW f \in Fact
      PROVE  /\ \A i \in Telling(g, f) :
                   (\A k \in Telling(g, f) : i <= k) => g[i].is[f] = new[f]
             /\ \A m, i \in Telling(g, f) :
                  m < i /\ (\A k \in Telling(g, f) : k <= m \/ i <= k) =>
                    g[m].was[f] = g[i].is[f]
             /\ f \in {"code", "name", "quantity", "keeper", "status"} =>
                  \E i \in Telling(g, f) :
                    g[i].action = "CREATED" /\ \A k \in Telling(g, f) : k <= i
  <2>. DEFINE old == Telling(h, f)
              told == Telling(g, f)
  <2>1. /\ 1 \in told <=> f \in S
        /\ \A i \in old : i \in 1..Len(h) /\ i + 1 \in told
        /\ \A i \in told : i \in 1..(Len(h) + 1) /\ (i # 1 => i - 1 \in old)
    BY <1>1, <1>3, TellingMore DEF g
  <2>2. /\ \A i \in old : (\A k \in old : i <= k) => h[i].is[f] = d.facts[f]
        /\ \A m, i \in old :
             m < i /\ (\A k \in old : k <= m \/ i <= k) => h[m].was[f] = h[i].is[f]
        /\ f \in {"code", "name", "quantity", "keeper", "status"} =>
             \E i \in old : h[i].action = "CREATED" /\ \A k \in old : k <= i
    BY DEF Explained
  <2>. HIDE DEF old, told
  <2>3. \A i \in old : i \in Nat /\ i >= 1 /\ g[i + 1] = h[i] BY <1>4, <2>1
  <2>4. \A i \in told : i \in Nat /\ i >= 1 BY <1>4, <2>1
  <2>5. ASSUME NEW i \in told, i # 1 PROVE i - 1 \in old /\ g[i] = h[i - 1]
    <3>1. i - 1 \in old /\ (i - 1) + 1 = i BY <2>1, <2>4, <2>5
    <3>2. QED BY <2>3, <3>1
  <2>6. ASSUME NEW i \in told, i # 1, \A k \in told : k = 1 \/ i <= k
        PROVE  h[i - 1].is[f] = d.facts[f]
    <3>1. i - 1 \in old BY <2>5, <2>6
    <3>2. ASSUME NEW k \in old PROVE i - 1 <= k
      <4>1. k + 1 \in told /\ k \in Nat /\ k >= 1 /\ i \in Nat BY <2>1, <2>3, <2>4
      <4>2. i <= k + 1 BY <2>6, <4>1
      <4>3. QED BY <4>1, <4>2
    <3>3. QED BY <2>2, <3>1, <3>2
  <2>7. ASSUME NEW i \in told, \A k \in told : i <= k
        PROVE  g[i].is[f] = new[f]
    <3>1. CASE i = 1 BY <1>1, <1>4, <2>1, <3>1
    <3>2. CASE i # 1
      <4>1. 1 \notin told BY <2>4, <2>7, <3>2
      <4>2. g[i] = h[i - 1] BY <2>5, <3>2
      <4>3. h[i - 1].is[f] = d.facts[f] BY <2>6, <2>7, <3>2
      <4>4. QED BY <2>1, <4>1, <4>2, <4>3
    <3>3. QED BY <3>1, <3>2
  <2>8. ASSUME NEW m \in told, NEW i \in told, m < i,
               \A k \in told : k <= m \/ i <= k
        PROVE  g[m].was[f] = g[i].is[f]
    <3>1. i # 1 /\ i \in Nat /\ m \in Nat /\ m >= 1 BY <2>4, <2>8
    <3>2. i - 1 \in old /\ g[i] = h[i - 1] BY <2>5, <3>1
    <3>3. CASE m = 1
      <4>1. \A k \in told : k = 1 \/ i <= k BY <2>4, <2>8, <3>3
      <4>2. h[i - 1].is[f] = d.facts[f] BY <2>6, <3>1, <4>1
      <4>3. f \in S /\ g[m] = e BY <1>4, <2>1, <3>3
      <4>4. QED BY <1>1, <3>2, <4>2, <4>3
    <3>4. CASE m # 1
      <4>1. m - 1 \in old /\ g[m] = h[m - 1] BY <2>5, <3>4
      <4>2. m - 1 < i - 1 BY <2>8, <3>1
      <4>3. ASSUME NEW k \in old PROVE k <= m - 1 \/ i - 1 <= k
        <5>1. k + 1 \in told /\ k \in Nat BY <2>1, <2>3
        <5>2. k + 1 <= m \/ i <= k + 1 BY <2>8, <5>1
        <5>3. QED BY <3>1, <5>1, <5>2
      <4>4. h[m - 1].was[f] = h[i - 1].is[f] BY <2>2, <3>2, <4>1, <4>2, <4>3
      <4>5. QED BY <3>2, <4>1, <4>4
    <3>5. QED BY <3>3, <3>4
  <2>9. ASSUME f \in {"code", "name", "quantity", "keeper", "status"}
        PROVE  \E i \in told : g[i].action = "CREATED" /\ \A k \in told : k <= i
    <3>1. PICK i \in old : h[i].action = "CREATED" /\ \A k \in old : k <= i
      BY <2>2, <2>9
    <3>2. i + 1 \in told /\ g[i + 1] = h[i] /\ i \in Nat /\ i >= 1 BY <2>1, <2>3
    <3>3. ASSUME NEW k \in told PROVE k <= i + 1
      <4>1. CASE k = 1 BY <3>2, <4>1
      <4>2. CASE k # 1
        <5>1. k - 1 \in old /\ k \in Nat BY <2>4, <2>5, <4>2
        <5>2. k - 1 <= i BY <3>1, <5>1
        <5>3. QED BY <3>2, <5>1, <5>2
      <4>3. QED BY <4>1, <4>2
    <3>4. g[i + 1].action = "CREATED" BY <3>1, <3>2
    <3>5. QED BY <3>2, <3>3, <3>4
  <2>10. QED BY <2>7, <2>8, <2>9 DEF told
<1>8. Explained(n) BY <1>2, <1>7 DEF Explained
<1>9. QED BY <1>6, <1>8 DEF n, e

Good(d) == IsDocument(d) /\ GoodDocument(d) /\ Explained(d)

LEMMA CreatedGood ==
  ASSUME NEW new \in Facts
  PROVE  Good(Created(new)) /\ Created(new).facts = new
<1>. DEFINE told == {"code", "name", "quantity", "keeper", "status"}
            e == [action |-> "CREATED", was |-> <<>>, is |-> [f \in told |-> new[f]]]
            h == <<e>>
            d == Created(new)
<1>1. d = [facts |-> new, checked |-> "never", history |-> h] BY DEF Created
<1>2. e.action = "CREATED" /\ DOMAIN e.was = {} /\ DOMAIN e.is = told
      /\ \A f \in told : e.is[f] = new[f]
  OBVIOUS
<1>3. DOMAIN h = {1} /\ h[1] = e OBVIOUS
<1>4. IsDocument(d) BY CreatedFacts
<1>. HIDE DEF e, h, d
<1>5. d.facts = new /\ d.checked = "never" /\ d.history = h BY <1>1
<1>6. told \subseteq Fact BY DEF Fact
<1>7. GoodEntry(h[1]) BY <1>2, <1>3, <1>6 DEF GoodEntry
<1>8. GoodDocument(d) BY <1>3, <1>5, <1>7 DEF GoodDocument
<1>9. Explained(d)
  <2>1. ASSUME NEW f \in Fact
        PROVE  /\ \A n \in Telling(h, f) : n = 1 /\ f \in told
               /\ f \in told => 1 \in Telling(h, f)
    BY <1>2, <1>3 DEF Telling
  <2>2. ASSUME NEW f \in Fact
        PROVE  /\ \A n \in Telling(h, f) : h[n].is[f] = new[f]
               /\ \A m, n \in Telling(h, f) : ~ (m < n)
               /\ f \in told =>
                    \E n \in Telling(h, f) :
                      h[n].action = "CREATED" /\ \A k \in Telling(h, f) : k <= n
    <3>1. \A n \in Telling(h, f) : h[n].is[f] = new[f] BY <1>2, <1>3, <2>1
    <3>2. \A m, n \in Telling(h, f) : ~ (m < n) BY <2>1
    <3>3. \A k \in Telling(h, f) : k <= 1 BY <2>1
    <3>4. QED BY <1>2, <1>3, <2>1, <3>1, <3>2, <3>3
  <2>3. QED BY <1>5, <2>2 DEF Explained
<1>10. QED BY <1>4, <1>5, <1>8, <1>9 DEF Good, d

(* What a request of each kind may carry.                                  *)
Carries(kind, p) ==
  /\ kind = "create" => p \in Draft
  /\ kind = "update" => p \in Edit
  /\ kind = "dispose" => p \in Disposals
  /\ kind = "inventory" => p \in Row /\ Missing \notin {p.code, p.quantity}

LEMMA FactsShape ==
  ASSUME NEW old \in Facts
  PROVE  /\ old = [code |-> old.code, name |-> old.name, location |-> old.location,
                   quantity |-> old.quantity, keeper |-> old.keeper,
                   status |-> old.status, attachments |-> old.attachments,
                   result |-> old.result, disposal |-> old.disposal]
         /\ DOMAIN old = Fact
BY DEF Facts, Fact

LEMMA DisposedGood ==
  ASSUME NEW d, Good(d), NEW s \in Disposals
  PROVE  /\ Good(Disposed(d, s))
         /\ Disposed(d, s).facts.keeper = d.facts.keeper
         /\ Disposed(d, s).facts.attachments = d.facts.attachments
<1>. DEFINE old == d.facts
            new == [old EXCEPT !.status = s, !.disposal = s]
            S == {"status", "disposal"}
<1>1. old \in Facts BY DEF Good, GoodDocument
<1>2. new \in Facts BY <1>1 DEF Facts, Disposals, AssetStatus, Maybe
<1>3. /\ \A f \in Fact \ S : new[f] = old[f]
      /\ new.keeper = old.keeper /\ new.attachments = old.attachments
  BY <1>1 DEF Facts, Fact
<1>4. S \in SUBSET Fact BY DEF Fact
<1>5. Disposed(d, s) = AppendHistory(d, new, Entry("DISPOSAL", S, old, new))
  BY DEF Disposed
<1>. HIDE DEF new, S
<1>6. GoodDocument(Disposed(d, s)) /\ Explained(Disposed(d, s))
  BY <1>2, <1>3, <1>4, <1>5, AppendExplains DEF Good, Actions
<1>7. IsDocument(Disposed(d, s)) BY <1>5, AppendFacts DEF Good
<1>8. Disposed(d, s).facts = new BY <1>5 DEF AppendHistory
<1>9. QED BY <1>3, <1>6, <1>7, <1>8 DEF Good

LEMMA InventoriedGood ==
  ASSUME NEW d, Good(d), NEW row \in Row, Missing \notin {row.code, row.quantity}
  PROVE  /\ Good(Inventoried(d, row))
         /\ Inventoried(d, row).facts.keeper = d.facts.keeper
         /\ Inventoried(d, row).facts.attachments = d.facts.attachments
<1>. DEFINE old == d.facts
            new == [old EXCEPT !.code = row.code, !.quantity = row.quantity,
                               !.result = row.result]
            S == Changed(old, new) \union {"result"}
            e == Entry("INVENTORY_CONFIRMED", S, old, new)
            n == AppendHistory(d, new, e)
<1>1. old \in Facts BY DEF Good, GoodDocument
<1>2. row.code \in Code /\ row.quantity \in Quantity /\ row.result \in CheckResults
  BY DEF Row, Maybe
<1>3. new \in Facts BY <1>1, <1>2 DEF Facts, Maybe
<1>4. new.keeper = old.keeper /\ new.attachments = old.attachments
  BY <1>1 DEF Facts
<1>5. S \in SUBSET Fact /\ \A f \in Fact \ S : new[f] = old[f]
  BY DEF Changed, Fact
<1>6. Inventoried(d, row) = [n EXCEPT !.checked = "checked"] BY DEF Inventoried
<1>. HIDE DEF new, S
<1>7. GoodDocument(n) /\ Explained(n)
  BY <1>3, <1>5, AppendExplains DEF Good, Actions
<1>8. n.facts = new /\ n = [facts |-> n.facts, history |-> n.history,
                            checked |-> n.checked]
  BY DEF AppendHistory
<1>. HIDE DEF n
<1>9. /\ Inventoried(d, row).facts = new
      /\ Inventoried(d, row).history = n.history
      /\ Inventoried(d, row).checked = "checked"
  BY <1>6, <1>8
<1>10. GoodDocument(Inventoried(d, row))
  BY <1>3, <1>7, <1>9 DEF GoodDocument
<1>11. Explained(Inventoried(d, row)) BY <1>7, <1>8, <1>9 DEF Explained
<1>12. IsDocument(Inventoried(d, row)) BY InventoriedFacts DEF Good
<1>13. QED BY <1>4, <1>9, <1>10, <1>11, <1>12 DEF Good

LEMMA UpdatedGood ==
  ASSUME NEW d, Good(d), NEW p \in Payload
  PROVE  /\ Good(Updated(d, p))
         /\ Updated(d, p).facts.keeper = Given(p.keeper, d.facts.keeper)
         /\ Updated(d, p).facts.attachments =
              (d.facts.attachments \ p.remove) \union p.add
<1>. DEFINE old == d.facts
            k == Given(p.keeper, old.keeper)
            t == (old.attachments \ p.remove) \union p.add
            new == [old EXCEPT !.name = p.name, !.location = p.location,
                               !.quantity = Given(p.quantity, @),
                               !.keeper = Given(p.keeper, @),
                               !.status = Given(p.status, @),
                               !.attachments = (@ \ p.remove) \union p.add]
            S == Changed(old, new)
            n == AppendHistory(d, new, Entry("UPDATED", S, old, new))
<1>1. old \in Facts BY DEF Good, GoodDocument
<1>2. /\ p.name \in Maybe(Name) /\ p.location \in Maybe(Name)
      /\ p.add \subseteq File /\ Given(p.quantity, old.quantity) \in Quantity
      /\ k \in Person /\ Given(p.status, old.status) \in AssetStatus
  BY <1>1 DEF Payload, Facts, Given, Maybe
<1>3. t \in SUBSET File BY <1>1, <1>2 DEF Facts
<1>4. new \in Facts /\ new.keeper = k /\ new.attachments = t
  <2>. HIDE DEF old
  <2>1. new = [old EXCEPT !.name = p.name, !.location = p.location,
                          !.quantity = Given(p.quantity, old.quantity),
                          !.keeper = k, !.status = Given(p.status, old.status),
                          !.attachments = t]
    OBVIOUS
  <2>. HIDE DEF new, k, t
  <2>2. PICK a, b, c, e :
          /\ a = p.name /\ b = p.location /\ c = Given(p.quantity, old.quantity)
          /\ e = Given(p.status, old.status)
    OBVIOUS
  <2>3. /\ a \in Maybe(Name) /\ b \in Maybe(Name) /\ c \in Quantity
        /\ e \in AssetStatus /\ k \in Person
    BY <1>2, <2>2
  <2>4. new = [old EXCEPT !.name = a, !.location = b, !.quantity = c,
                          !.keeper = k, !.status = e, !.attachments = t]
    BY <2>1, <2>2
  <2>. DEFINE t1 == [old EXCEPT !.name = a, !.location = b]
              t2 == [t1 EXCEPT !.quantity = c, !.keeper = k]
              t3 == [t2 EXCEPT !.status = e, !.attachments = t]
  <2>5. new = t3 BY <2>4
  <2>6. t1 \in Facts BY <1>1, <2>3 DEF Facts
  <2>. HIDE DEF t1
  <2>7. t2 \in Facts /\ t2.keeper = k BY <2>3, <2>6 DEF Facts
  <2>. HIDE DEF t2
  <2>8. t3 \in Facts /\ t3.keeper = k /\ t3.attachments = t
    BY <1>3, <2>3, <2>7 DEF Facts
  <2>9. QED BY <2>5, <2>8
<1>5. Updated(d, p) = IF S = {} THEN d ELSE n BY DEF Updated
<1>. HIDE DEF new
<1>6. S \in SUBSET Fact /\ \A f \in Fact \ S : new[f] = old[f]
  BY DEF Changed
<1>7. CASE S = {}
  <2>1. new.keeper = old.keeper /\ new.attachments = old.attachments
    BY <1>6, <1>7 DEF Fact
  <2>2. QED BY <1>4, <1>5, <1>7, <2>1
<1>8. CASE S # {}
  <2>. HIDE DEF S
  <2>1. GoodDocument(n) /\ Explained(n)
    BY <1>4, <1>6, AppendExplains DEF Good, Actions
  <2>2. IsDocument(n) BY AppendFacts DEF Good
  <2>3. n.facts = new BY DEF AppendHistory
  <2>4. QED BY <1>4, <1>5, <1>8, <2>1, <2>2, <2>3 DEF Good
<1>9. QED BY <1>7, <1>8

LEMMA ReadingGood ==
  ASSUME NEW d, Good(d)
  PROVE  Good(Reading(d)) /\ Reading(d).facts = d.facts
<1>1. IsDocument(Reading(d)) /\ Reading(d).history = d.history
  BY ReadingFacts DEF Good
<1>2. /\ Reading(d).facts = d.facts
      /\ Reading(d).checked = IF d.checked = "never" THEN "epoch" ELSE d.checked
  BY DEF Reading, Good, IsDocument
<1>3. GoodDocument(Reading(d)) BY <1>1, <1>2 DEF Good, GoodDocument
<1>4. Explained(Reading(d)) BY <1>1, <1>2 DEF Good, Explained
<1>5. QED BY <1>1, <1>2, <1>3, <1>4 DEF Good
-----------------------------------------------------------------------------
(***************************************************************************)
(* Files, documents and what requests have uploaded or are about to delete.*)
(***************************************************************************)

(* St: the assets stored, A: the attachments of each, H: what each request *)
(* holds, F: the files there are, U: the files ever used.                  *)
TidySets(St, A, H, F, U) ==
  /\ \A a \in St : /\ A[a] \subseteq F
                   /\ \A r \in Request : H[r] \intersect A[a] = {}
                   /\ \A b \in St : a = b \/ A[a] \intersect A[b] = {}
  /\ \A r \in Request : /\ H[r] \subseteq F
                        /\ \A q \in Request : q = r \/ H[q] \intersect H[r] = {}
  /\ F \subseteq U
  /\ \A f \in F : (\E a \in St : f \in A[a]) \/ (\E r \in Request : f \in H[r])

(* A request uploads files that nobody has used.                           *)
LEMMA TidyUpload ==
  ASSUME NEW St, NEW A, NEW H, NEW F, NEW U, TidySets(St, A, H, F, U),
         NEW K, NEW r \in Request, NEW add, add \intersect U = {},
         H[r] = {}, K[r] = add, \A q \in Request \ {r} : K[q] = H[q]
  PROVE  TidySets(St, A, K, F \union add, U \union add)
<1>1. ASSUME NEW q \in Request
      PROVE  /\ K[q] \subseteq F \union add /\ H[q] \subseteq U
             /\ q # r => K[q] = H[q]
  BY <1>1 DEF TidySets
<1>2. ASSUME NEW a \in St
      PROVE  /\ A[a] \subseteq F \union add
             /\ \A q \in Request : K[q] \intersect A[a] = {}
             /\ \A b \in St : a = b \/ A[a] \intersect A[b] = {}
  <2>1. A[a] \subseteq F /\ F \subseteq U BY DEF TidySets
  <2>2. ASSUME NEW q \in Request PROVE K[q] \intersect A[a] = {}
    BY <2>1, <1>1 DEF TidySets
  <2>3. QED BY <2>1, <2>2 DEF TidySets
<1>3. ASSUME NEW p \in Request, NEW q \in Request, q # p
      PROVE  K[q] \intersect K[p] = {}
  BY <1>1, <1>3 DEF TidySets
<1>4. F \union add \subseteq U \union add BY DEF TidySets
<1>5. ASSUME NEW f \in F \union add
      PROVE  (\E a \in St : f \in A[a]) \/ (\E q \in Request : f \in K[q])
  BY DEF TidySets
<1>6. QED BY <1>1, <1>2, <1>3, <1>4, <1>5 DEF TidySets

(* A request deletes what it holds.                                        *)
LEMMA TidyDelete ==
  ASSUME NEW St, NEW A, NEW H, NEW F, NEW U, TidySets(St, A, H, F, U),
         NEW K, NEW r \in Request, K[r] = {},
         \A q \in Request \ {r} : K[q] = H[q]
  PROVE  TidySets(St, A, K, F \ H[r], U)
<1>1. ASSUME NEW q \in Request PROVE K[q] \subseteq H[q]
  BY <1>1
<1>2. ASSUME NEW a \in St
      PROVE  /\ A[a] \subseteq F \ H[r]
             /\ \A q \in Request : K[q] \intersect A[a] = {}
             /\ \A b \in St : a = b \/ A[a] \intersect A[b] = {}
  <2>1. A[a] \subseteq F /\ H[r] \intersect A[a] = {} BY DEF TidySets
  <2>2. ASSUME NEW q \in Request PROVE K[q] \intersect A[a] = {}
    BY <1>1 DEF TidySets
  <2>3. QED BY <2>1, <2>2 DEF TidySets
<1>3. ASSUME NEW p \in Request, NEW q \in Request, q # p
      PROVE  K[q] \intersect K[p] = {}
  BY <1>1, <1>3 DEF TidySets
<1>4. \A q \in Request : K[q] \subseteq F \ H[r] BY <1>1 DEF TidySets
<1>5. F \ H[r] \subseteq U BY DEF TidySets
<1>6. ASSUME NEW f \in F \ H[r]
      PROVE  (\E a \in St : f \in A[a]) \/ (\E q \in Request : f \in K[q])
  BY DEF TidySets
<1>7. QED BY <1>2, <1>3, <1>4, <1>5, <1>6 DEF TidySets

(* A document is written with what its request uploaded, and the request   *)
(* takes what the document no longer lists.                                *)
TidyChange(St, A, B, H, K, a, r, old, gone) ==
  /\ a \in St => old = A[a]
  /\ a \notin St => old = {}
  /\ B[a] = (old \ gone) \union H[r]
  /\ \A b \in St \ {a} : B[b] = A[b]
  /\ K[r] = old \intersect gone
  /\ \A q \in Request \ {r} : K[q] = H[q]

LEMMA TidyWrite ==
  ASSUME NEW St, NEW A, NEW H, NEW F, NEW U, TidySets(St, A, H, F, U),
         NEW a, NEW B, NEW K, NEW r \in Request, NEW old, NEW gone,
         TidyChange(St, A, B, H, K, a, r, old, gone)
  PROVE  TidySets(St \union {a}, B, K, F, U)
<1>0. /\ a \in St => old = A[a]
      /\ a \notin St => old = {}
      /\ B[a] = (old \ gone) \union H[r]
      /\ \A b \in St \ {a} : B[b] = A[b]
      /\ K[r] = old \intersect gone
      /\ \A q \in Request \ {r} : K[q] = H[q]
  BY DEF TidyChange
<1>1. old \subseteq F /\ \A q \in Request : H[q] \intersect old = {}
  BY <1>0 DEF TidySets
<1>2. \A b \in St \ {a} : A[b] \intersect old = {} BY <1>0 DEF TidySets
<1>3. ASSUME NEW b \in St \ {a}
      PROVE  /\ B[b] = A[b] /\ A[b] \subseteq F /\ A[b] \intersect B[a] = {}
             /\ \A q \in Request : K[q] \intersect A[b] = {}
             /\ \A c \in St \ {a} : b = c \/ A[b] \intersect A[c] = {}
  BY <1>0, <1>2 DEF TidySets
<1>4. /\ B[a] \subseteq F /\ K[r] \intersect B[a] = {}
      /\ \A q \in Request \ {r} : K[q] \intersect B[a] = {}
  BY <1>0, <1>1 DEF TidySets
<1>5. ASSUME NEW b \in St \union {a}
      PROVE  /\ B[b] \subseteq F
             /\ \A q \in Request : K[q] \intersect B[b] = {}
             /\ \A c \in St \union {a} : b = c \/ B[b] \intersect B[c] = {}
  <2>1. CASE b = a BY <1>3, <1>4, <2>1
  <2>2. CASE b # a
    <3>1. b \in St \ {a} BY <2>2
    <3>2. \A q \in Request : K[q] \intersect B[b] = {} BY <1>3, <3>1
    <3>3. ASSUME NEW c \in St \union {a} PROVE b = c \/ B[b] \intersect B[c] = {}
      <4>1. CASE c = a BY <1>3, <3>1, <4>1
      <4>2. CASE c # a
        <5>1. c \in St \ {a} BY <4>2
        <5>2. B[c] = A[c] /\ B[b] = A[b] BY <1>3, <3>1, <5>1
        <5>3. QED BY <1>3, <3>1, <5>1, <5>2
      <4>3. QED BY <4>1, <4>2
    <3>4. QED BY <1>3, <3>1, <3>2, <3>3
  <2>3. QED BY <2>1, <2>2
<1>6. ASSUME NEW p \in Request, NEW q \in Request, q # p
      PROVE  K[q] \intersect K[p] = {}
  BY <1>0, <1>1, <1>6 DEF TidySets
<1>7. F \subseteq U BY DEF TidySets
<1>8. ASSUME NEW q \in Request PROVE K[q] \subseteq F
  BY <1>0, <1>1 DEF TidySets
<1>9. ASSUME NEW f \in F
      PROVE  (\E b \in St \union {a} : f \in B[b]) \/ (\E q \in Request : f \in K[q])
  <2>1. CASE \E b \in St : f \in A[b]
    <3>1. PICK b \in St : f \in A[b] BY <2>1
    <3>2. CASE b = a BY <1>0, <3>1, <3>2
    <3>3. CASE b # a BY <1>0, <3>1, <3>3
    <3>4. QED BY <3>2, <3>3
  <2>2. CASE \E q \in Request : f \in H[q]
    <3>1. PICK q \in Request : f \in H[q] BY <2>2
    <3>2. CASE q = r BY <1>0, <3>1, <3>2
    <3>3. CASE q # r BY <1>0, <3>1, <3>3
    <3>4. QED BY <3>2, <3>3
  <2>3. QED BY <2>1, <2>2 DEF TidySets
<1>10. QED BY <1>5, <1>6, <1>7, <1>8, <1>9 DEF TidySets
-----------------------------------------------------------------------------
(***************************************************************************)
(* The invariant: whatever is written explains itself, and no file is lost *)
(* or left.                                                                *)
(***************************************************************************)

(* A document of which only a member is responsible.                       *)
InHand(d) == Good(d) /\ d.facts.keeper \in Member

(* The files that a request uploads, and those that its edit takes out.    *)
AddedBy(kind, p) ==
  IF kind = "create" THEN p.attachments
  ELSE IF kind = "update" THEN p.add ELSE {}
RemovedBy(kind, p) == IF kind = "update" THEN p.remove ELSE {}

Loaded(q) ==
  /\ q.asset \in Asset /\ Carries(q.kind, q.payload)
  /\ q.added = AddedBy(q.kind, q.payload)
  /\ q.step \in {"store", "clean"} =>
       /\ q.kind \in {"create", "update"} => q.payload.keeper \in Maybe(Member)
       /\ q.kind # "create" => q.asset \in Stored /\ InHand(q.copy)

RowLoaded ==
  importer.copy # Missing =>
    /\ Running /\ ThisRow.asset \in Stored
    /\ Missing \notin {ThisRow.code, ThisRow.quantity} /\ InHand(importer.copy)

UsedOK ==
  /\ used = [requests |-> used.requests, imports |-> used.imports,
             troubles |-> used.troubles, files |-> used.files]
  /\ files \subseteq used.files

Explaining ==
  /\ Kept /\ UsedOK /\ RowLoaded
  /\ queue \in Seq(Sheet)
  /\ \A a \in Stored : InHand(asset[a])
  /\ \A r \in Request : Waits(req[r]) \/ Loaded(req[r])

Held(q) == IF q.step \in {"read", "store"} THEN q.added
           ELSE IF q.step = "clean" THEN q.removed ELSE {}

Attached == [a \in Asset |-> asset[a].facts.attachments]
HeldBy == [r \in Request |-> Held(req[r])]

Tidy ==
  incidents \subseteq {"error"} =>
    TidySets(Stored, Attached, HeldBy, files, used.files)

LEMMA BusyLoaded ==
  ASSUME Explaining, NEW r \in Request, req[r].step # "idle"
  PROVE  Holds(req[r]) /\ Loaded(req[r])
<1>1. Idle.step = "idle" BY DEF Idle
<1>2. QED BY <1>1, BusyHolds DEF Explaining, Waits

(* What a request is about to store.                                       *)
LEMMA ResultGood ==
  ASSUME NEW q, Holds(q), Loaded(q), q.step = "store"
  PROVE  LET doc == Result(q.kind, q.copy, q.payload)
             old == IF q.kind = "create" THEN {} ELSE q.copy.facts.attachments
             gone == RemovedBy(q.kind, q.payload)
         IN /\ InHand(doc)
            /\ doc.facts.attachments = (old \ gone) \union q.added
            /\ Removed(q) = old \intersect gone
<1>1. CASE q.kind = "create"
  <2>. DEFINE new == q.payload
  <2>1. new \in Registration BY <1>1, InputAssumption DEF Loaded, Carries
  <2>2. new \in Facts /\ new.keeper \in Person BY <2>1 DEF Registration, Facts
  <2>3. new.keeper \in Member
    BY <1>1, <2>2, MissingAssumption DEF Loaded, Maybe
  <2>4. Good(Created(new)) /\ Created(new).facts = new BY <2>2, CreatedGood
  <2>5. Result(q.kind, q.copy, q.payload) = Created(new) BY <1>1 DEF Result
  <2>6. q.added = new.attachments BY <1>1 DEF Loaded, AddedBy
  <2>7. QED BY <1>1, <2>3, <2>4, <2>5, <2>6 DEF InHand, Removed, RemovedBy
<1>2. CASE q.kind = "update"
  <2>1. q.payload \in Payload BY <1>2, InputAssumption DEF Loaded, Carries
  <2>2. Good(q.copy) /\ q.copy.facts.keeper \in Member
    BY <1>2 DEF Loaded, InHand
  <2>3. /\ Good(Updated(q.copy, q.payload))
        /\ Updated(q.copy, q.payload).facts.keeper
             = Given(q.payload.keeper, q.copy.facts.keeper)
        /\ Updated(q.copy, q.payload).facts.attachments
             = (q.copy.facts.attachments \ q.payload.remove) \union q.payload.add
    BY <2>1, <2>2, UpdatedGood
  <2>4. Given(q.payload.keeper, q.copy.facts.keeper) \in Member
    BY <1>2, <2>2 DEF Loaded, Given, Maybe
  <2>5. Result(q.kind, q.copy, q.payload) = Updated(q.copy, q.payload)
    BY <1>2 DEF Result
  <2>6. q.added = q.payload.add BY <1>2 DEF Loaded, AddedBy
  <2>7. QED BY <1>2, <2>3, <2>4, <2>5, <2>6 DEF InHand, Removed, RemovedBy
<1>3. CASE q.kind = "dispose"
  <2>1. q.payload \in Disposals BY <1>3 DEF Loaded, Carries
  <2>2. Good(q.copy) /\ q.copy.facts.keeper \in Member
    BY <1>3 DEF Loaded, InHand
  <2>3. Result(q.kind, q.copy, q.payload) = Disposed(q.copy, q.payload)
    BY <1>3 DEF Result
  <2>4. q.added = {} BY <1>3 DEF Loaded, AddedBy
  <2>5. QED BY <1>3, <2>1, <2>2, <2>3, <2>4, DisposedGood
        DEF InHand, Removed, RemovedBy
<1>4. CASE q.kind = "inventory"
  <2>1. q.payload \in Row /\ Missing \notin {q.payload.code, q.payload.quantity}
    BY <1>4 DEF Loaded, Carries
  <2>2. Good(q.copy) /\ q.copy.facts.keeper \in Member
    BY <1>4 DEF Loaded, InHand
  <2>3. Result(q.kind, q.copy, q.payload) = Inventoried(q.copy, q.payload)
    BY <1>4 DEF Result
  <2>4. q.added = {} BY <1>4 DEF Loaded, AddedBy
  <2>5. QED BY <1>4, <2>1, <2>2, <2>3, <2>4, InventoriedGood
        DEF InHand, Removed, RemovedBy
<1>5. QED BY <1>1, <1>2, <1>3, <1>4 DEF Holds, Changes
-----------------------------------------------------------------------------
LEMMA RequestsLoaded ==
  ASSUME Explaining, Stored \subseteq Stored', NEW r \in Request, NEW n,
         req' = [req EXCEPT ![r] = n], Waits(n) \/ Loaded(n)'
  PROVE  (\A q \in Request : Waits(req[q]) \/ Loaded(req[q]))'
<1>1. ASSUME NEW q \in Request PROVE Waits(req'[q]) \/ Loaded(req[q])'
  <2>1. CASE q = r
    <3>1. req'[q] = n BY <2>1 DEF Explaining, Kept
    <3>2. QED BY <3>1 DEF Loaded
  <2>2. CASE q # r
    <3>1. req'[q] = req[q] BY <2>2 DEF Explaining, Kept
    <3>2. Waits(req[q]) \/ Loaded(req[q]) BY DEF Explaining
    <3>3. QED BY <3>1, <3>2 DEF Loaded
  <2>3. QED BY <2>1, <2>2
<1>2. QED BY <1>1

LEMMA RowStays ==
  ASSUME Explaining, Stored \subseteq Stored', UNCHANGED <<queue, importer>>
  PROVE  RowLoaded'
BY DEF Explaining, RowLoaded, Running, ThisRow

(* Documents, files and requests as they were, as far as files go.         *)
LEMMA TidySame ==
  ASSUME Tidy, incidents \subseteq incidents', UNCHANGED files,
         used'.files = used.files, Stored' = Stored, Attached' = Attached,
         HeldBy' = HeldBy
  PROVE  Tidy'
BY DEF Tidy

LEMMA HeldSame ==
  ASSUME Explaining, NEW r \in Request, NEW n,
         req' = [req EXCEPT ![r] = n]
  PROVE  /\ HeldBy'[r] = Held(n)
         /\ \A q \in Request \ {r} : HeldBy'[q] = HeldBy[q]
         /\ Held(n) = Held(req[r]) => HeldBy' = HeldBy
<1>1. \A q \in Request : req'[q] = IF q = r THEN n ELSE req[q]
  BY DEF Explaining, Kept
<1>2. QED BY <1>1 DEF HeldBy, Held

LEMMA BeginExplains ==
  ASSUME Explaining, Tidy, NEW r \in Request, NEW kind \in Changes \union {"create"},
         NEW a \in Asset, NEW payload, Carries(kind, payload),
         NEW add, add = AddedBy(kind, payload), Begin(r, kind, a, payload, add)
  PROVE  Explaining' /\ Tidy'
<1>. DEFINE q == [step |-> "read", kind |-> kind, asset |-> a,
                  payload |-> payload, copy |-> Missing, added |-> add,
                  removed |-> {}]
<1>1. /\ req' = [req EXCEPT ![r] = q] /\ UNCHANGED <<asset, queue, importer, incidents>>
      /\ files' = files \union add /\ req[r].step = "idle"
      /\ used' = [used EXCEPT !.requests = @ + 1, !.files = @ \union add]
      /\ add \intersect used.files = {}
  BY DEF Begin
<1>2. Kept' BY BeginKeeps DEF Explaining
<1>3. Stored' = Stored BY <1>1 DEF Stored
<1>4. Loaded(q)' BY DEF Loaded
<1>5. Held(q) = add /\ Held(req[r]) = {} BY <1>1 DEF Held
<1>. HIDE DEF q
<1>6. (\A p \in Request : Waits(req[p]) \/ Loaded(req[p]))'
  BY <1>1, <1>3, <1>4, RequestsLoaded
<1>7. UsedOK' /\ used'.files = used.files \union add
  BY <1>1 DEF Explaining, UsedOK
<1>8. RowLoaded' BY <1>1, <1>3, RowStays
<1>9. Explaining'
  BY <1>1, <1>2, <1>3, <1>6, <1>7, <1>8 DEF Explaining
<1>10. /\ HeldBy'[r] = add /\ HeldBy[r] = {}
       /\ \A p \in Request \ {r} : HeldBy'[p] = HeldBy[p]
  BY <1>1, <1>5, HeldSame DEF HeldBy
<1>11. Attached' = Attached BY <1>1 DEF Attached
<1>12. Tidy'
  <2>. SUFFICES ASSUME incidents' \subseteq {"error"}
                PROVE  TidySets(Stored', Attached', HeldBy', files', used'.files)
    BY DEF Tidy
  <2>1. TidySets(Stored, Attached, HeldBy, files, used.files) BY <1>1 DEF Tidy
  <2>2. TidySets(Stored, Attached, HeldBy', files \union add, used.files \union add)
    BY <1>1, <1>10, <2>1, TidyUpload
  <2>3. QED BY <1>1, <1>3, <1>7, <1>11, <2>2
<1>13. QED BY <1>9, <1>12

(* A request ends, with the files it still held or without them.           *)
LEMMA EndExplains ==
  ASSUME Explaining, Tidy, NEW r \in Request, req' = [req EXCEPT ![r] = Idle],
         UNCHANGED <<asset, queue, importer>>, incidents \subseteq incidents',
         UsedOK', used'.files = used.files,
         \/ files' = files \ Held(req[r])
         \/ ~ (incidents' \subseteq {"error"})
  PROVE  Explaining' /\ Tidy'
<1>1. Kept' BY EndKeeps DEF Explaining
<1>2. Stored' = Stored BY DEF Stored
<1>3. Waits(Idle) BY DEF Waits
<1>4. (\A p \in Request : Waits(req[p]) \/ Loaded(req[p]))'
  BY <1>2, <1>3, RequestsLoaded
<1>5. RowLoaded' BY <1>2, RowStays
<1>6. Explaining' BY <1>1, <1>2, <1>4, <1>5 DEF Explaining
<1>7. Held(Idle) = {} BY DEF Held, Idle
<1>8. /\ HeldBy'[r] = {} /\ HeldBy[r] = Held(req[r])
      /\ \A p \in Request \ {r} : HeldBy'[p] = HeldBy[p]
  BY <1>7, HeldSame DEF HeldBy
<1>9. Attached' = Attached BY DEF Attached
<1>10. Tidy'
  <2>. SUFFICES ASSUME incidents' \subseteq {"error"}
                PROVE  TidySets(Stored', Attached', HeldBy', files', used'.files)
    BY DEF Tidy
  <2>1. TidySets(Stored, Attached, HeldBy, files, used.files) BY DEF Tidy
  <2>2. TidySets(Stored, Attached, HeldBy', files \ HeldBy[r], used.files)
    BY <1>8, <2>1, TidyDelete
  <2>3. QED BY <1>2, <1>8, <1>9, <2>2
<1>11. QED BY <1>6, <1>10

LEMMA ReadExplains ==
  ASSUME Explaining, Tidy, NEW r \in Request, Read(r)
  PROVE  Explaining' /\ Tidy'
<1>. DEFINE copy == IF req[r].kind = "create" THEN Missing
                    ELSE Reading(asset[req[r].asset])
            q == [req[r] EXCEPT !.step = "store", !.copy = copy]
<1>1. /\ Holds(req[r]) /\ Loaded(req[r]) /\ Found(r) /\ KnownKeeper(r)
      /\ req[r].step = "read"
  BY BusyLoaded DEF Read
<1>2. /\ req' = [req EXCEPT ![r] = q]
      /\ UNCHANGED <<asset, files, queue, importer, incidents, used>>
  BY DEF Read, Explaining, Kept
<1>3. Stored' = Stored /\ Attached' = Attached BY <1>2 DEF Stored, Attached
<1>4. req[r].kind # "create" => req[r].asset \in Stored /\ InHand(copy)
  <2>1. ASSUME req[r].kind # "create" PROVE req[r].asset \in Stored BY <1>1, <2>1 DEF Found
  <2>2. ASSUME NEW a \in Stored PROVE InHand(Reading(asset[a]))
    BY ReadingGood DEF Explaining, InHand
  <2>3. QED BY <2>1, <2>2
<1>. HIDE DEF copy
<1>5. /\ q.step = "store" /\ q.kind = req[r].kind /\ q.copy = copy
      /\ q.asset = req[r].asset /\ q.payload = req[r].payload
      /\ q.added = req[r].added
  BY <1>1 DEF Holds, IsRequest
<1>. HIDE DEF q
<1>6. PICK n : n = q OBVIOUS
<1>7. Loaded(n)'
  <2>1. Carries(n.kind, n.payload) /\ n.added = AddedBy(n.kind, n.payload)
        /\ n.asset \in Asset
    BY <1>1, <1>5, <1>6 DEF Loaded
  <2>2. n.kind \in {"create", "update"} => n.payload.keeper \in Maybe(Member)
    BY <1>1, <1>5, <1>6 DEF KnownKeeper
  <2>3. n.kind # "create" => n.asset \in Stored' /\ InHand(n.copy)
    BY <1>3, <1>4, <1>5, <1>6
  <2>4. QED BY <2>1, <2>2, <2>3 DEF Loaded
<1>8. Kept' BY ReadKeeps DEF Explaining
<1>9. (\A p \in Request : Waits(req[p]) \/ Loaded(req[p]))'
  BY <1>2, <1>3, <1>6, <1>7, RequestsLoaded
<1>10. Explaining'
  BY <1>2, <1>3, <1>8, <1>9, RowStays DEF Explaining, UsedOK
<1>11. Held(n) = Held(req[r]) BY <1>1, <1>5, <1>6 DEF Held
<1>12. HeldBy' = HeldBy BY <1>2, <1>6, <1>11, HeldSame
<1>13. Tidy' BY <1>2, <1>3, <1>12, TidySame
<1>14. QED BY <1>10, <1>13

(* A document is written over the one its program has read, or stale.      *)
LEMMA WriteFacts ==
  ASSUME Explaining, NEW a \in Asset, NEW copy, NEW doc, Upsert(a, copy, doc),
         InHand(doc), \A d : IsDocument(d) => d # Missing
  PROVE  /\ Stored' = Stored \union {a}
         /\ \A b \in Stored' : InHand(asset'[b])
         /\ Attached'[a] = doc.facts.attachments
         /\ \A b \in Asset \ {a} : Attached'[b] = Attached[b]
         /\ incidents \subseteq incidents'
         /\ incidents' \subseteq {"error"} =>
              /\ incidents \subseteq {"error"}
              /\ asset[a] # Missing => copy = Reading(asset[a])
<1>1. asset' = [asset EXCEPT ![a] = doc] /\ asset = [b \in Asset |-> asset[b]]
  BY DEF Upsert, Explaining, Kept
<1>2. \A b \in Asset : asset'[b] = IF b = a THEN doc ELSE asset[b] BY <1>1
<1>3. doc # Missing BY DEF InHand, Good
<1>4. Stored' = Stored \union {a} BY <1>2, <1>3 DEF Stored
<1>5. \A b \in Stored' : InHand(asset'[b])
  BY <1>2, <1>4 DEF Explaining, Stored
<1>6. /\ Attached'[a] = doc.facts.attachments
      /\ \A b \in Asset \ {a} : Attached'[b] = Attached[b]
  BY <1>2 DEF Attached
<1>7. /\ incidents \subseteq incidents'
      /\ asset[a] # Missing /\ Reading(asset[a]) # copy => "stale" \in incidents'
  BY DEF Upsert
<1>8. QED BY <1>4, <1>5, <1>6, <1>7

LEMMA StoreExplains ==
  ASSUME Explaining, Tidy, NEW r \in Request, Store(r),
         \A d : IsDocument(d) => d # Missing
  PROVE  Explaining' /\ Tidy'
<1>. DEFINE p == req[r]
            a == p.asset
            doc == Result(p.kind, p.copy, p.payload)
            old == IF p.kind = "create" THEN {} ELSE p.copy.facts.attachments
            gone == RemovedBy(p.kind, p.payload)
            q == [p EXCEPT !.step = "clean", !.removed = Removed(p)]
<1>1. /\ Upsert(a, p.copy, doc) /\ p.step = "store"
      /\ req' = [req EXCEPT ![r] = q]
      /\ UNCHANGED <<files, queue, importer, used>>
  BY DEF Store, Explaining, Kept
<1>2. Holds(p) /\ Loaded(p) BY <1>1, BusyLoaded
<1>3. /\ InHand(doc) /\ doc.facts.attachments = (old \ gone) \union p.added
      /\ Removed(p) = old \intersect gone
  BY <1>1, <1>2, ResultGood
<1>4. a \in Asset BY <1>2 DEF Loaded
<1>5. Kept' BY StoreKeeps DEF Explaining
<1>6. /\ q.step = "clean" /\ q.kind = p.kind /\ q.copy = p.copy
      /\ q.asset = a /\ q.payload = p.payload /\ q.added = p.added
      /\ q.removed = Removed(p)
  BY <1>2 DEF Holds, IsRequest
<1>7. p.kind = "create" => p.copy = Missing BY <1>2 DEF Holds
<1>. HIDE DEF doc, q, old, gone
<1>8. /\ Stored' = Stored \union {a}
      /\ \A b \in Stored' : InHand(asset'[b])
      /\ Attached'[a] = doc.facts.attachments
      /\ \A b \in Asset \ {a} : Attached'[b] = Attached[b]
      /\ incidents \subseteq incidents'
      /\ incidents' \subseteq {"error"} =>
           /\ incidents \subseteq {"error"}
           /\ asset[a] # Missing => p.copy = Reading(asset[a])
  BY <1>1, <1>3, <1>4, WriteFacts
<1>9. PICK n : n = q OBVIOUS
<1>10. Loaded(n)'
  <2>1. /\ Carries(n.kind, n.payload) /\ n.added = AddedBy(n.kind, n.payload)
        /\ n.asset \in Asset
        /\ n.kind \in {"create", "update"} => n.payload.keeper \in Maybe(Member)
        /\ n.kind # "create" => n.asset \in Stored /\ InHand(n.copy)
    BY <1>1, <1>2, <1>6, <1>9 DEF Loaded
  <2>2. QED BY <1>8, <2>1 DEF Loaded
<1>11. (\A o \in Request : Waits(req[o]) \/ Loaded(req[o]))'
  BY <1>1, <1>8, <1>9, <1>10, RequestsLoaded
<1>12. RowLoaded' BY <1>1, <1>8, RowStays
<1>13. Explaining'
  BY <1>1, <1>5, <1>8, <1>11, <1>12 DEF Explaining, UsedOK
<1>14. /\ HeldBy'[r] = old \intersect gone /\ HeldBy[r] = p.added
       /\ \A o \in Request \ {r} : HeldBy'[o] = HeldBy[o]
  <2>1. Held(n) = old \intersect gone BY <1>3, <1>6, <1>9 DEF Held
  <2>2. HeldBy[r] = p.added BY <1>1 DEF HeldBy, Held
  <2>3. QED BY <1>1, <1>9, <2>1, <2>2, HeldSame
<1>15. Tidy'
  <2>. SUFFICES ASSUME incidents' \subseteq {"error"}
                PROVE  TidySets(Stored', Attached', HeldBy', files', used'.files)
    BY DEF Tidy
  <2>1. TidySets(Stored, Attached, HeldBy, files, used.files) BY <1>8 DEF Tidy
  <2>2. /\ a \in Stored => old = Attached[a]
        /\ a \notin Stored => old = {}
    <3>1. CASE a \in Stored
      <4>1. asset[a] # Missing /\ InHand(asset[a])
        BY <3>1 DEF Stored, Explaining
      <4>2. p.copy = Reading(asset[a]) BY <1>8, <4>1
      <4>3. Good(Reading(asset[a])) /\ Reading(asset[a]).facts = asset[a].facts
        BY <4>1, ReadingGood DEF InHand
      <4>4. p.copy # Missing BY <4>2, <4>3 DEF Good
      <4>5. old = asset[a].facts.attachments BY <1>7, <4>2, <4>3, <4>4 DEF old
      <4>6. QED BY <1>4, <3>1, <4>5 DEF Attached
    <3>2. CASE a \notin Stored BY <1>1, <1>2, <3>2 DEF old, Loaded
    <3>3. QED BY <3>1, <3>2
  <2>3. Attached'[a] = (old \ gone) \union HeldBy[r] BY <1>3, <1>8, <1>14
  <2>4. \A b \in Stored \ {a} : Attached'[b] = Attached[b]
    BY <1>8 DEF Stored
  <2>. HIDE DEF a
  <2>5. PICK A, B, H, K : /\ A = Attached /\ B = Attached'
                          /\ H = HeldBy /\ K = HeldBy'
    OBVIOUS
  <2>6. TidyChange(Stored, A, B, H, K, a, r, old, gone)
    BY <1>14, <2>2, <2>3, <2>4, <2>5 DEF TidyChange
  <2>7. TidySets(Stored \union {a}, B, K, files, used.files)
    BY <2>1, <2>5, <2>6, TidyWrite
  <2>8. QED BY <1>1, <1>8, <2>5, <2>7
<1>16. QED BY <1>13, <1>15
-----------------------------------------------------------------------------
(* A request leaves the documents, or writes one.                          *)
LEMMA RequestExplains ==
  ASSUME Explaining, Tidy, RequestStep, \A d : IsDocument(d) => d # Missing
  PROVE  Explaining' /\ Tidy'
<1>1. PICK r \in Request :
        \/ BeginCreate(r) \/ BeginUpdate(r) \/ BeginDispose(r)
        \/ BeginInventory(r)
        \/ Read(r) \/ Refuse(r) \/ Store(r) \/ StoreFails(r) \/ Clean(r)
  BY DEF RequestStep
<1>2. CASE \/ BeginCreate(r) \/ BeginUpdate(r) \/ BeginDispose(r)
           \/ BeginInventory(r)
  <2>1. CASE BeginCreate(r)
    <3>1. PICK a \in Asset, new \in Draft : Begin(r, "create", a, new, new.attachments)
      BY <2>1 DEF BeginCreate
    <3>2. Carries("create", new) /\ new.attachments = AddedBy("create", new)
      BY DEF Carries, AddedBy
    <3>3. QED BY <3>1, <3>2, BeginExplains
  <2>2. CASE BeginUpdate(r)
    <3>1. PICK a \in Asset, e \in Edit : Begin(r, "update", a, e, e.add)
      BY <2>2 DEF BeginUpdate
    <3>2. Carries("update", e) /\ e.add = AddedBy("update", e)
      BY DEF Carries, AddedBy
    <3>3. "update" \in Changes BY DEF Changes
    <3>4. QED BY <3>1, <3>2, <3>3, BeginExplains
  <2>3. CASE BeginDispose(r)
    <3>1. PICK a \in Asset, d \in Disposals : Begin(r, "dispose", a, d, {})
      BY <2>3 DEF BeginDispose
    <3>2. Carries("dispose", d) /\ {} = AddedBy("dispose", d)
      BY DEF Carries, AddedBy
    <3>3. "dispose" \in Changes BY DEF Changes
    <3>4. QED BY <3>1, <3>2, <3>3, BeginExplains
  <2>4. CASE BeginInventory(r)
    <3>1. PICK row \in Count : Begin(r, "inventory", row.asset, row, {})
      BY <2>4 DEF BeginInventory
    <3>2. row \in Row /\ Missing \notin {row.asset, row.code, row.quantity}
      BY InputAssumption DEF Confirmation
    <3>3. row.asset \in Asset BY <3>2 DEF Row, Maybe
    <3>4. Carries("inventory", row) /\ {} = AddedBy("inventory", row)
      BY <3>2 DEF Carries, AddedBy
    <3>5. "inventory" \in Changes BY DEF Changes
    <3>6. QED BY <3>1, <3>3, <3>4, <3>5, BeginExplains
  <2>5. QED BY <1>2, <2>1, <2>2, <2>3, <2>4
<1>3. CASE Read(r) BY <1>3, ReadExplains
<1>4. CASE Store(r) BY <1>4, StoreExplains
<1>5. CASE Refuse(r) \/ StoreFails(r)
  <2>1. /\ req[r].step \in {"read", "store"} /\ files' = files \ req[r].added
        /\ req' = [req EXCEPT ![r] = Idle] /\ UNCHANGED <<asset, queue, importer>>
        /\ incidents \subseteq incidents'
        /\ used' = used \/ used' = [used EXCEPT !.troubles = @ + 1]
    BY <1>5 DEF Refuse, StoreFails, GiveUp, Trouble, Incident
  <2>2. files' = files \ Held(req[r]) BY <2>1 DEF Held
  <2>3. UsedOK' /\ used'.files = used.files BY <2>1 DEF Explaining, UsedOK
  <2>4. QED BY <2>1, <2>2, <2>3, EndExplains
<1>6. CASE Clean(r)
  <2>1. /\ req[r].step = "clean"
        /\ \/ files' = files \ req[r].removed
           \/ files' = files /\ "undeleted" \in incidents'
        /\ req' = [req EXCEPT ![r] = Idle] /\ UNCHANGED <<asset, queue, importer>>
        /\ incidents \subseteq incidents'
        /\ used' = used \/ used' = [used EXCEPT !.troubles = @ + 1]
    BY <1>6 DEF Clean, Trouble, Incident
  <2>2. Held(req[r]) = req[r].removed BY <2>1 DEF Held
  <2>3. UsedOK' /\ used'.files = used.files BY <2>1 DEF Explaining, UsedOK
  <2>4. ~ (incidents' \subseteq {"error"}) \/ files' = files \ Held(req[r])
    BY <2>1, <2>2
  <2>5. QED BY <2>1, <2>3, <2>4, EndExplains
<1>7. QED BY <1>1, <1>2, <1>3, <1>4, <1>5, <1>6
-----------------------------------------------------------------------------
(* The row the job is at is a row of a sheet.                              *)
LEMMA RowFacts ==
  ASSUME Explaining, Running
  PROVE  ThisRow \in Row
<1>1. queue \in Seq(Sheet) /\ queue # <<>> BY DEF Explaining, Running
<1>2. Head(queue) \in Sheet BY <1>1
<1>3. Head(queue) \in Seq(Row) BY <1>2, InputAssumption
<1>4. QED BY <1>3, ElementOfSeq DEF Running, ThisRow

(* The job goes on without writing a document.                             *)
LEMMA ImporterExplains ==
  ASSUME Explaining, Tidy, Kept', UNCHANGED <<asset, files, req>>,
         incidents \subseteq incidents', UsedOK', used'.files = used.files,
         queue' \in Seq(Sheet), RowLoaded'
  PROVE  Explaining' /\ Tidy'
<1>1. Stored' = Stored /\ Attached' = Attached /\ HeldBy' = HeldBy
  BY DEF Stored, Attached, HeldBy, Held
<1>2. (\A r \in Request : Waits(req[r]) \/ Loaded(req[r]))'
  BY <1>1 DEF Explaining, Loaded
<1>3. (\A a \in Stored : InHand(asset[a]))' BY <1>1 DEF Explaining
<1>4. Tidy' BY <1>1, TidySame
<1>5. QED BY <1>2, <1>3, <1>4 DEF Explaining

LEMMA RowStoreExplains ==
  ASSUME Explaining, Tidy, RowStore, \A d : IsDocument(d) => d # Missing
  PROVE  Explaining' /\ Tidy'
<1>. DEFINE a == ThisRow.asset
            copy == importer.copy
            doc == Inventoried(copy, ThisRow)
<1>1. /\ Upsert(a, copy, doc) /\ Running /\ copy # Missing
      /\ importer' = [row |-> importer.row + 1, copy |-> Missing]
      /\ UNCHANGED <<files, req, queue, used>>
  BY DEF RowStore, NextRow
<1>2. /\ a \in Stored /\ Missing \notin {ThisRow.code, ThisRow.quantity}
      /\ InHand(copy)
  BY <1>1 DEF Explaining, RowLoaded
<1>3. ThisRow \in Row BY <1>1, RowFacts
<1>4. InHand(doc) /\ doc.facts.attachments = copy.facts.attachments
  BY <1>2, <1>3, InventoriedGood DEF InHand
<1>5. a \in Asset /\ asset[a] # Missing BY <1>2 DEF Stored
<1>6. Kept' BY RowKeeps DEF Explaining
<1>. HIDE DEF doc, a
<1>7. /\ Stored' = Stored \union {a}
      /\ \A b \in Stored' : InHand(asset'[b])
      /\ Attached'[a] = doc.facts.attachments
      /\ \A b \in Asset \ {a} : Attached'[b] = Attached[b]
      /\ incidents \subseteq incidents'
      /\ incidents' \subseteq {"error"} =>
           incidents \subseteq {"error"} /\ copy = Reading(asset[a])
  BY <1>1, <1>4, <1>5, WriteFacts
<1>8. Stored' = Stored BY <1>2, <1>7
<1>9. (\A r \in Request : Waits(req[r]) \/ Loaded(req[r]))'
  BY <1>1, <1>8 DEF Explaining, Loaded
<1>10. RowLoaded' BY <1>1 DEF RowLoaded
<1>11. Explaining'
  BY <1>1, <1>6, <1>7, <1>9, <1>10 DEF Explaining, UsedOK
<1>12. Tidy'
  <2>. SUFFICES ASSUME incidents' \subseteq {"error"}
                PROVE  TidySets(Stored', Attached', HeldBy', files', used'.files)
    BY DEF Tidy
  <2>1. TidySets(Stored, Attached, HeldBy, files, used.files) BY <1>7 DEF Tidy
  <2>2. copy.facts = asset[a].facts
    BY <1>2, <1>7, ReadingGood DEF Explaining, InHand
  <2>3. Attached'[a] = Attached[a] BY <1>4, <1>5, <1>7, <2>2 DEF Attached
  <2>4. Attached' = [b \in Asset |-> Attached'[b]] /\ Attached = [b \in Asset |-> Attached[b]]
    BY DEF Attached
  <2>5. \A b \in Asset : Attached'[b] = Attached[b] BY <1>7, <2>3
  <2>6. Attached' = Attached BY <2>4, <2>5
  <2>7. HeldBy' = HeldBy BY <1>1 DEF HeldBy, Held
  <2>8. QED BY <1>1, <1>8, <2>1, <2>6, <2>7
<1>13. QED BY <1>11, <1>12

LEMMA ImportExplains ==
  ASSUME Explaining, Tidy, ImportStep, \A d : IsDocument(d) => d # Missing
  PROVE  Explaining' /\ Tidy'
<1>1. Kept' BY ImportKeeps DEF Explaining
<1>2. queue \in Seq(Sheet) /\ UsedOK BY DEF Explaining
<1>3. CASE \E sheet \in Sheet : ImportInventory(sheet)
  <2>1. PICK sheet \in Sheet : ImportInventory(sheet) BY <1>3
  <2>2. /\ queue' = Append(queue, sheet)
        /\ used' = [used EXCEPT !.imports = @ + 1]
        /\ UNCHANGED <<asset, files, req, importer, incidents>>
    BY <2>1 DEF ImportInventory
  <2>3. queue' \in Seq(Sheet) /\ (queue # <<>> => queue' # <<>> /\ Head(queue') = Head(queue))
    <3>1. queue' \in Seq(Sheet) /\ Len(queue') = Len(queue) + 1
          /\ \A i \in 1..Len(queue) : queue'[i] = queue[i]
      BY <1>2, <2>2
    <3>2. ASSUME queue # <<>> PROVE queue' # <<>> /\ Head(queue') = Head(queue)
      <4>1. Len(queue) \in Nat /\ Len(queue) # 0 BY <1>2, <3>2
      <4>2. queue'[1] = queue[1] BY <3>1, <4>1
      <4>3. QED BY <1>2, <3>1, <3>2, <4>1, <4>2
    <3>3. QED BY <3>1, <3>2
  <2>4. Stored' = Stored BY <2>2 DEF Stored
  <2>5. Running => Running' /\ ThisRow' = ThisRow
    BY <2>2, <2>3 DEF Running, ThisRow
  <2>6. RowLoaded' BY <2>2, <2>4, <2>5 DEF Explaining, RowLoaded
  <2>7. UsedOK' /\ used'.files = used.files BY <1>2, <2>2 DEF UsedOK
  <2>8. QED BY <1>1, <2>2, <2>3, <2>6, <2>7, ImporterExplains
<1>4. CASE RowSkip \/ RowFails \/ ImportEnd
  <2>1. /\ UNCHANGED <<asset, files, req>> /\ incidents \subseteq incidents'
        /\ importer'.copy = Missing
        /\ queue' = queue \/ (queue' = Tail(queue) /\ queue # <<>>)
        /\ used' = used \/ used' = [used EXCEPT !.troubles = @ + 1]
    BY <1>4 DEF RowSkip, RowFails, ImportEnd, NextRow, Trouble, Incident
  <2>2. RowLoaded' BY <2>1 DEF RowLoaded
  <2>3. queue' \in Seq(Sheet) BY <1>2, <2>1
  <2>4. UsedOK' /\ used'.files = used.files BY <1>2, <2>1 DEF UsedOK
  <2>5. QED BY <1>1, <2>1, <2>2, <2>3, <2>4, ImporterExplains
<1>5. CASE RowRead
  <2>1. /\ UNCHANGED <<asset, files, req, queue, incidents, used>>
        /\ Running /\ ~ Skipped(ThisRow)
        /\ importer' = [importer EXCEPT !.copy = Reading(asset[ThisRow.asset])]
    BY <1>5 DEF RowRead
  <2>2. importer'.row = importer.row /\ importer'.copy = Reading(asset[ThisRow.asset])
    BY <2>1 DEF Explaining, Kept
  <2>3. Running' /\ ThisRow' = ThisRow /\ Stored' = Stored
    BY <2>1, <2>2 DEF Running, ThisRow, Stored
  <2>4. ThisRow.asset \in Stored /\ Missing \notin {ThisRow.code, ThisRow.quantity}
    BY <2>1 DEF Skipped
  <2>5. InHand(importer'.copy) BY <2>2, <2>4, ReadingGood DEF Explaining, InHand
  <2>6. RowLoaded' BY <2>3, <2>4, <2>5 DEF RowLoaded
  <2>7. UsedOK' BY <1>2, <2>1 DEF UsedOK
  <2>8. QED BY <1>1, <1>2, <2>1, <2>6, <2>7, ImporterExplains
<1>6. CASE RowStore BY <1>6, RowStoreExplains
<1>7. QED BY <1>3, <1>4, <1>5, <1>6 DEF ImportStep

LEMMA ExplainingInit == Init => Explaining /\ Tidy
<1>. SUFFICES ASSUME Init PROVE Explaining /\ Tidy OBVIOUS
<1>1. Stored = {} /\ incidents = {} /\ files = {} /\ importer.copy = Missing
      /\ \A r \in Request : req[r] = Idle
  BY DEF Init, Stored
<1>2. UsedOK /\ queue \in Seq(Sheet) BY DEF Init, UsedOK
<1>3. Explaining
  BY <1>1, <1>2, KeptInit DEF Explaining, RowLoaded, Waits
<1>4. \A r \in Request : HeldBy[r] = {} BY <1>1 DEF HeldBy, Held, Idle
<1>5. Tidy BY <1>1, <1>4 DEF Tidy, TidySets
<1>6. QED BY <1>3, <1>5

LEMMA ExplainingNext ==
  ASSUME Explaining, Tidy, [Next]_vars, \A d : IsDocument(d) => d # Missing
  PROVE  Explaining' /\ Tidy'
<1>1. CASE RequestStep BY <1>1, RequestExplains
<1>2. CASE ImportStep BY <1>2, ImportExplains
<1>3. CASE Crash
  <2>1. /\ req' = [r \in Request |-> Idle] /\ UNCHANGED <<asset, files, queue>>
        /\ importer'.copy = Missing /\ "crash" \in incidents'
        /\ used' = [used EXCEPT !.troubles = @ + 1]
    BY <1>3 DEF Crash, Trouble, Incident
  <2>2. Kept' BY <1>3, KeptStep DEF Explaining
  <2>3. Stored' = Stored BY <2>1 DEF Stored
  <2>4. (\A r \in Request : Waits(req[r]) \/ Loaded(req[r]))'
    BY <2>1 DEF Waits
  <2>5. RowLoaded' BY <2>1 DEF RowLoaded
  <2>6. UsedOK' BY <2>1 DEF Explaining, UsedOK
  <2>7. (\A a \in Stored : InHand(asset[a]))' BY <2>1, <2>3 DEF Explaining
  <2>8. Explaining' BY <2>1, <2>2, <2>4, <2>5, <2>6, <2>7 DEF Explaining
  <2>9. Tidy' BY <2>1 DEF Tidy
  <2>10. QED BY <2>8, <2>9
<1>4. CASE UNCHANGED vars
  <2>1. /\ UNCHANGED <<asset, files, req, queue, importer, incidents, used>>
    BY <1>4 DEF vars
  <2>2. Kept' BY <1>4, KeptStep DEF Explaining
  <2>3. UsedOK' /\ queue' \in Seq(Sheet) BY <2>1 DEF Explaining, UsedOK
  <2>4. Stored' = Stored BY <2>1 DEF Stored
  <2>5. RowLoaded' BY <2>1, <2>4, RowStays
  <2>6. QED BY <2>1, <2>2, <2>3, <2>5, ImporterExplains
<1>5. QED BY <1>1, <1>2, <1>3, <1>4 DEF Next

(* Documents are of their shape, only members are stored as responsible, no*)
(* file is stored that nobody sent, and a program past its read holds a    *)
(* document of an asset that is stored.                                    *)
THEOREM TypeCorrect ==
  ASSUME \A d : IsDocument(d) => d # Missing
  PROVE  Spec => []TypeOK
<1>1. Explaining => TypeOK
  <2>. SUFFICES ASSUME Explaining PROVE TypeOK OBVIOUS
  <2>1. \A a \in Stored : GoodDocument(asset[a]) /\ asset[a].facts.keeper \in Member
    BY DEF Explaining, InHand, Good
  <2>2. ASSUME NEW r \in Request, req[r].step \in {"store", "clean"},
               req[r].copy # Missing
        PROVE  GoodDocument(req[r].copy) /\ req[r].asset \in Stored
    <3>1. Holds(req[r]) /\ Loaded(req[r]) BY <2>2, BusyLoaded
    <3>2. req[r].kind # "create" BY <2>2, <3>1 DEF Holds
    <3>3. QED BY <2>2, <3>1, <3>2 DEF Loaded, InHand, Good
  <2>3. importer.copy # Missing =>
          /\ Running /\ ThisRow.asset \in Stored
          /\ GoodDocument(importer.copy)
    BY DEF Explaining, RowLoaded, InHand, Good
  <2>4. files \subseteq used.files BY DEF Explaining, UsedOK
  <2>5. QED BY <2>1, <2>2, <2>3, <2>4 DEF TypeOK
<1>2. Init => Explaining /\ Tidy BY ExplainingInit
<1>3. Explaining /\ Tidy /\ [Next]_vars => (Explaining /\ Tidy)'
  BY ExplainingNext
<1>4. QED BY <1>1, <1>2, <1>3, PTL DEF Spec

(* Whatever is written over whatever, by updateDetails, markInventory,     *)
(* dispose or create: the history of every asset explains what it is.      *)
THEOREM HistoryExplainsHolds ==
  ASSUME \A d : IsDocument(d) => d # Missing
  PROVE  Spec => []HistoryExplains
<1>1. Explaining => HistoryExplains
  BY DEF Explaining, InHand, Good, HistoryExplains
<1>2. Init => Explaining /\ Tidy BY ExplainingInit
<1>3. Explaining /\ Tidy /\ [Next]_vars => (Explaining /\ Tidy)'
  BY ExplainingNext
<1>4. QED BY <1>1, <1>2, <1>3, PTL DEF Spec

(* Files and documents agree, unless a stale copy was written, the process *)
(* died or a deletion failed: no file a document lists is missing, and none*)
(* is left when no request runs (the upload before and the clean-up after  *)
(* each use case, and the catch of PatrimonyController).                   *)
THEOREM FilesMatchHolds ==
  ASSUME \A d : IsDocument(d) => d # Missing
  PROVE  Spec => []FilesMatch
<1>1. Explaining /\ Tidy => FilesMatch
  <2>. SUFFICES ASSUME Explaining, Tidy, incidents \subseteq {"error"}
                PROVE  LET listed == UNION {asset[a].facts.attachments : a \in Stored}
                       IN /\ listed \subseteq files
                          /\ (\A r \in Request : req[r].step = "idle") => files = listed
    BY DEF FilesMatch
  <2>. DEFINE listed == UNION {asset[a].facts.attachments : a \in Stored}
  <2>1. TidySets(Stored, Attached, HeldBy, files, used.files) BY DEF Tidy
  <2>2. \A a \in Stored : a \in Asset /\ Attached[a] = asset[a].facts.attachments
    BY DEF Attached, Stored
  <2>3. listed \subseteq files BY <2>1, <2>2 DEF TidySets
  <2>4. ASSUME \A r \in Request : req[r].step = "idle" PROVE files \subseteq listed
    <3>1. \A r \in Request : HeldBy[r] = {} BY <2>4 DEF HeldBy, Held
    <3>2. \A f \in files : \E a \in Stored : f \in Attached[a]
      BY <2>1, <3>1 DEF TidySets
    <3>3. QED BY <2>2, <3>2
  <2>5. QED BY <2>3, <2>4
<1>2. Init => Explaining /\ Tidy BY ExplainingInit
<1>3. Explaining /\ Tidy /\ [Next]_vars => (Explaining /\ Tidy)'
  BY ExplainingNext
<1>4. QED BY <1>1, <1>2, <1>3, PTL DEF Spec
================================================================================
