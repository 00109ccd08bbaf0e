----------------------------- MODULE Schedule_proofs ----------------------------
(***************************************************************************)
(* The list of a week shows the calendar: for every number of items and    *)
(* requests, every payload, every week and both kinds of server.           *)
(***************************************************************************)
EXTENDS Schedule, TLAPS

(* What is stored is what was last asked for, but for items written over a *)
(* change that was not read; and every pattern is whole, but for those of  *)
(* which an edit gave a part.                                              *)
Follows ==
  /\ \A i \in Item : items[i] = Missing <=> told[i] = Missing
  /\ \A i \in Stored : i \notin incidents.stale =>
       Reading(items[i]) = Reading(told[i])
  /\ \A i \in Stored : i \notin incidents.partial =>
       Creatable(items[i].pattern) /\ Creatable(told[i].pattern)
  /\ \A r \in Request : req[r].step = "write" =>
       LET i == req[r].order.item IN
       /\ i \in Stored
       /\ i \notin incidents.partial => Creatable(req[r].copy.pattern)

Kept == TypeOK /\ Follows
-----------------------------------------------------------------------------
LEMMA ReadingFacts ==
  ASSUME NEW doc \in Document
  PROVE  /\ Reading(doc) \in Document
         /\ Reading(doc).active = doc.active
         /\ Reading(doc).public = doc.public
         /\ Reading(doc).pattern = doc.pattern
         /\ Reading(doc).id = Missing
BY DEF Reading, Document, Maybe

LEMMA SameReading ==
  ASSUME NEW x \in Document, NEW y \in Document
  PROVE  Reading(x) = Reading(y) <=>
           /\ x.active = y.active /\ x.public = y.public
           /\ x.pattern = y.pattern
BY DEF Reading, Document

LEMMA RunningFacts ==
  ASSUME TypeOK, NEW r \in Request, req[r] # Idle
  PROVE  /\ req[r] \in Running /\ req[r].step = "write"
         /\ req[r].order \in Order /\ req[r].order.item \in Item
         /\ req[r].copy \in Document
<1>1. req[r] \in Running BY DEF TypeOK
<1>2. req[r].order \in Order /\ req[r].copy \in Document
      /\ req[r].step = "write"
  BY <1>1 DEF Running
<1>3. req[r].order.item \in Item BY <1>2 DEF Order
<1>4. QED BY <1>1, <1>2, <1>3

(* The three edits keep the type and touch nothing but what they name.     *)
LEMMA EditedFacts ==
  ASSUME NEW doc \in Document, NEW o \in Order
  PROVE  /\ Edited(doc, o) \in Document
         /\ Edited(doc, o).id = doc.id
         /\ Edited(doc, o).pattern =
              IF o.op = "update" THEN Given(o.edit.pattern, doc.pattern)
              ELSE doc.pattern
         /\ \A d \in Document : Reading(d) = Reading(doc) =>
              Reading(Edited(d, o)) = Reading(Edited(doc, o))
<1>1. CASE o \in [op : {"update"}, item : Item, edit : Edit]
  <2>1. /\ o.edit.public \in Maybe(BOOLEAN) /\ o.edit.pattern \in Maybe(Pattern)
        /\ o.op = "update"
    BY <1>1, PayloadAssumption
  <2>2. ASSUME NEW d \in Document
        PROVE  /\ Given(o.edit.public, d.public) \in BOOLEAN
               /\ Given(o.edit.pattern, d.pattern) \in Pattern
    BY <2>1 DEF Given, Maybe, Document
  <2>3. \A d \in Document :
          Edited(d, o) = [d EXCEPT !.public = Given(o.edit.public, @),
                                   !.pattern = Given(o.edit.pattern, @)]
    BY <2>1 DEF Edited
  <2>4. ASSUME NEW d \in Document
        PROVE  /\ Edited(d, o) \in Document
               /\ Edited(d, o).id = d.id
               /\ Edited(d, o).active = d.active
               /\ Edited(d, o).public = Given(o.edit.public, d.public)
               /\ Edited(d, o).pattern = Given(o.edit.pattern, d.pattern)
    BY <2>2, <2>3 DEF Document
  <2>5. ASSUME NEW d \in Document, Reading(d) = Reading(doc)
        PROVE  Reading(Edited(d, o)) = Reading(Edited(doc, o))
    BY <2>4, <2>5, SameReading
  <2>6. QED BY <2>1, <2>4, <2>5
<1>2. CASE o.op \in {"activate", "deactivate"}
  <2>1. PICK on \in BOOLEAN :
          \A d \in Document : Edited(d, o) = [d EXCEPT !.active = on]
    BY <1>2 DEF Edited
  <2>2. ASSUME NEW d \in Document
        PROVE  /\ Edited(d, o) \in Document
               /\ Edited(d, o).id = d.id
               /\ Edited(d, o).active = on
               /\ Edited(d, o).public = d.public
               /\ Edited(d, o).pattern = d.pattern
    BY <2>1 DEF Document
  <2>3. ASSUME NEW d \in Document, Reading(d) = Reading(doc)
        PROVE  Reading(Edited(d, o)) = Reading(Edited(doc, o))
    BY <2>2, <2>3, SameReading
  <2>4. QED BY <1>2, <2>2, <2>3
<1>3. QED BY <1>1, <1>2 DEF Order

LEMMA SpendType ==
  ASSUME TypeOK, Spend
  PROVE  requests' \in 0 .. MaxRequests
BY BoundAssumption DEF TypeOK, Spend

LEMMA TypeInit == Init => TypeOK
BY BoundAssumption DEF Init, TypeOK, Maybe

LEMMA CreatedIsDocument ==
  ASSUME NEW o \in Creation, NEW i \in Item
  PROVE  [id |-> i, active |-> TRUE, public |-> o.public,
          pattern |-> o.pattern] \in Document
BY PayloadAssumption DEF Document, Maybe

LEMMA WrittenFacts ==
  ASSUME TypeOK, NEW r \in Request, Write(r)
  PROVE  LET o   == req[r].order
             i   == o.item
             new == Edited(req[r].copy, o)
         IN  /\ i \in Item /\ o \in Order /\ req[r].copy \in Document
             /\ req[r].step = "write"
             /\ items'[i] = Written(new, items[i])
             /\ \A j \in Item : j # i => items'[j] = items[j] /\ told'[j] = told[j]
             /\ told'[i] = Edited(told[i], o)
             /\ items[i] \in Document => /\ items'[i] \in Document
                                         /\ Reading(items'[i]) = Reading(new)
                                         /\ items'[i].pattern = new.pattern
<1> DEFINE o   == req[r].order
           i   == o.item
           new == Edited(req[r].copy, o)
<1>1. req[r] # Idle /\ req[r].step = "write" BY DEF Write, Idle
<1>2. i \in Item /\ o \in Order /\ req[r].copy \in Document
  BY <1>1, RunningFacts
<1>3. new \in Document BY <1>2, EditedFacts
<1>4. /\ items' = [items EXCEPT ![i] = Written(new, items[i])]
      /\ told' = [told EXCEPT ![i] = Edited(@, o)]
  BY DEF Write
<1> HIDE DEF new
<1>5. items[i] \in Document =>
        /\ Written(new, items[i]) \in Document
        /\ Reading(Written(new, items[i])) = Reading(new)
        /\ Written(new, items[i]).pattern = new.pattern
  BY <1>3 DEF Written, Document, Reading
<1>6. QED BY <1>1, <1>2, <1>4, <1>5 DEF TypeOK, new

LEMMA FoundIsRunning ==
  ASSUME NEW o \in Order, NEW doc \in Document
  PROVE  [step |-> "write", order |-> o, copy |-> Reading(doc)] \in Running
BY ReadingFacts DEF Running

LEMMA WrittenIsStored ==
  ASSUME Kept, NEW r \in Request, Write(r)
  PROVE  LET i == req[r].order.item
         IN  items[i] \in Document /\ told[i] \in Document
BY WrittenFacts DEF Kept, TypeOK, Follows, Stored, Maybe

LEMMA TypeNext == Kept /\ [Next]_vars => TypeOK'
<1> SUFFICES ASSUME Kept, TypeOK, [Next]_vars PROVE TypeOK'
  BY DEF Kept
<1>1. ASSUME NEW o \in Creation, Create(o) PROVE TypeOK'
  <2>1. requests' \in 0 .. MaxRequests BY <1>1, SpendType DEF Create
  <2>2. CASE Creatable(o.pattern)
    <3> DEFINE New(i) == [id |-> i, active |-> TRUE, public |-> o.public,
                          pattern |-> o.pattern]
    <3>1. \A i \in Item : New(i) \in Document BY CreatedIsDocument
    <3>2. PICK i \in Item : /\ items' = [items EXCEPT ![i] = New(i)]
                            /\ told' = [told EXCEPT ![i] = items'[i]]
      BY <1>1, <2>2 DEF Create
    <3> HIDE DEF New
    <3>3. items'[i] = New(i) BY <3>2 DEF TypeOK
    <3>4. QED BY <1>1, <2>1, <3>1, <3>2, <3>3 DEF TypeOK, Maybe, Create
  <2>3. CASE ~ Creatable(o.pattern)
    BY <1>1, <2>1, <2>3 DEF TypeOK, Create
  <2>4. QED BY <2>2, <2>3
<1>2. ASSUME NEW r \in Request, NEW o \in Order, Find(r, o) PROVE TypeOK'
  <2>1. requests' \in 0 .. MaxRequests BY <1>2, SpendType DEF Find
  <2>2. req' \in [Request -> {Idle} \union Running]
    <3>1. CASE req' = req BY <3>1 DEF TypeOK
    <3>2. CASE req' # req
      <4>1. /\ o.item \in Stored
            /\ req' = [req EXCEPT ![r] = [step |-> "write", order |-> o,
                                          copy |-> Reading(items[o.item])]]
        BY <1>2, <3>2 DEF Find
      <4>2. items[o.item] \in Document BY <4>1 DEF Stored, TypeOK, Maybe
      <4>3. [step |-> "write", order |-> o, copy |-> Reading(items[o.item])]
              \in Running
        BY <4>2, FoundIsRunning
      <4>4. QED BY <4>1, <4>3 DEF TypeOK
    <3>3. QED BY <3>1, <3>2
  <2>3. QED BY <1>2, <2>1, <2>2 DEF TypeOK, Find
<1>3. ASSUME NEW r \in Request, Write(r) PROVE TypeOK'
  <2> DEFINE o == req[r].order
             i == o.item
  <2>1. i \in Item /\ o \in Order BY <1>3, WrittenFacts
  <2>2. items[i] \in Document /\ told[i] \in Document
    BY <1>3, <2>1, WrittenIsStored
  <2>3. items'[i] \in Document BY <1>3, <2>2, WrittenFacts
  <2>4. told'[i] \in Document
    BY <1>3, <2>1, <2>2, WrittenFacts, EditedFacts
  <2>5. items' \in [Item -> Maybe(Document)]
    BY <1>3, <2>1, <2>3 DEF TypeOK, Write, Maybe
  <2>6. told' \in [Item -> Maybe(Document)]
    BY <1>3, <2>1, <2>4 DEF TypeOK, Write, Maybe
  <2>7. req' \in [Request -> {Idle} \union Running]
    BY <1>3 DEF TypeOK, Write
  <2>8. incidents' \in [stale : SUBSET Item, partial : SUBSET Item]
    BY <1>3, <2>1 DEF TypeOK, Write
  <2>9. QED BY <1>3, <2>5, <2>6, <2>7, <2>8 DEF TypeOK, Write
<1>4. CASE UNCHANGED vars BY <1>4 DEF vars, TypeOK
<1>5. QED BY <1>1, <1>2, <1>3, <1>4 DEF Next, RequestStep, Order

LEMMA FollowsInit == Init => Follows
BY DEF Init, Follows, Stored, Idle

LEMMA FollowsCreate ==
  ASSUME Kept, NEW o \in Creation, Create(o)
  PROVE  Follows'
<1>1. CASE Creatable(o.pattern)
  <2> DEFINE New(i) == [id |-> i, active |-> TRUE, public |-> o.public,
                        pattern |-> o.pattern]
  <2>1. PICK i \in Item : /\ items' = [items EXCEPT ![i] = New(i)]
                          /\ told' = [told EXCEPT ![i] = items'[i]]
    BY <1>1 DEF Create
  <2>2. New(i) \in Document /\ New(i).pattern = o.pattern
    BY CreatedIsDocument
  <2> HIDE DEF New
  <2>3. items'[i] = New(i) /\ told'[i] = New(i) /\ New(i) # Missing
    BY <2>1, <2>2, MissingAssumption DEF Kept, TypeOK
  <2>4. \A j \in Item : j # i => items'[j] = items[j] /\ told'[j] = told[j]
    BY <2>1 DEF Kept, TypeOK
  <2>5. req' = req /\ incidents' = incidents BY DEF Create
  <2>6. (\A j \in Item : items[j] = Missing <=> told[j] = Missing)'
    BY <2>3, <2>4 DEF Kept, Follows
  <2>7. (\A j \in Stored : j \notin incidents.stale =>
           Reading(items[j]) = Reading(told[j]))'
    BY <2>3, <2>4, <2>5 DEF Kept, Follows, Stored
  <2>8. (\A j \in Stored : j \notin incidents.partial =>
           Creatable(items[j].pattern) /\ Creatable(told[j].pattern))'
    BY <1>1, <2>2, <2>3, <2>4, <2>5 DEF Kept, Follows, Stored
  <2>9. Stored \subseteq Stored' BY <2>3, <2>4 DEF Stored
  <2>10. QED BY <2>5, <2>6, <2>7, <2>8, <2>9 DEF Kept, Follows
<1>2. CASE ~ Creatable(o.pattern)
  BY <1>2 DEF Kept, Follows, Stored, Create
<1>3. QED BY <1>1, <1>2

LEMMA FollowsFind ==
  ASSUME Kept, NEW r \in Request, NEW o \in Order, Find(r, o)
  PROVE  Follows'
<1>1. UNCHANGED <<items, told, incidents>> BY DEF Find
<1>2. CASE req' = req BY <1>1, <1>2 DEF Kept, Follows, Stored
<1>3. CASE req' # req
  <2>1. /\ o.item \in Stored
        /\ req' = [req EXCEPT ![r] = [step |-> "write", order |-> o,
                                      copy |-> Reading(items[o.item])]]
    BY <1>3 DEF Find
  <2>2. items[o.item] \in Document BY <2>1 DEF Stored, Kept, TypeOK, Maybe
  <2>3. /\ req'[r].order = o
        /\ req'[r].copy.pattern = items[o.item].pattern
        /\ \A q \in Request : q # r => req'[q] = req[q]
    BY <2>1, <2>2, ReadingFacts DEF Kept, TypeOK
  <2>4. QED BY <1>1, <2>1, <2>3 DEF Kept, Follows, Stored
<1>4. QED BY <1>2, <1>3

LEMMA FollowsWrite ==
  ASSUME Kept, NEW r \in Request, Write(r)
  PROVE  Follows'
<1> DEFINE o    == req[r].order
           i    == o.item
           copy == req[r].copy
           new  == Edited(copy, o)
<1>1. i \in Item /\ o \in Order /\ copy \in Document /\ req[r].step = "write"
  BY WrittenFacts DEF Kept
<1>2. items[i] \in Document /\ told[i] \in Document BY WrittenIsStored
<1>3. /\ items'[i] \in Document /\ Reading(items'[i]) = Reading(new)
      /\ items'[i].pattern = new.pattern
      /\ told'[i] = Edited(told[i], o)
      /\ \A j \in Item : j # i => items'[j] = items[j] /\ told'[j] = told[j]
  BY <1>2, WrittenFacts DEF Kept
<1>4. told'[i] \in Document BY <1>1, <1>2, <1>3, EditedFacts
<1>5. Stored' = Stored /\ i \in Stored
  BY <1>1, <1>2, <1>3, MissingAssumption DEF Stored
<1>6. /\ incidents.stale \subseteq incidents'.stale
      /\ incidents.partial \subseteq incidents'.partial
      /\ i \notin incidents'.stale => Reading(items[i]) = copy
      /\ i \notin incidents'.partial /\ o.op = "update" =>
           o.edit.pattern = Missing \/ Creatable(o.edit.pattern)
  BY DEF Write
<1>7. req'[r] = Idle /\ \A q \in Request : q # r => req'[q] = req[q]
  BY DEF Write, Kept, TypeOK
<1>8. (\A j \in Item : items[j] = Missing <=> told[j] = Missing)'
  BY <1>3, <1>4, MissingAssumption DEF Kept, Follows
<1>9. ASSUME i \notin incidents'.stale
      PROVE  Reading(items'[i]) = Reading(told'[i])
  <2>1. Reading(items[i]) = copy /\ Reading(items[i]) = Reading(told[i])
    BY <1>5, <1>6, <1>9 DEF Kept, Follows
  <2>2. Reading(copy) = Reading(told[i])
    BY <1>1, <1>2, <2>1, ReadingFacts, SameReading
  <2>3. Reading(new) = Reading(Edited(told[i], o))
    BY <1>1, <1>2, <2>2, EditedFacts
  <2>4. QED BY <1>3, <2>3
<1>10. ASSUME i \notin incidents'.partial
       PROVE  Creatable(items'[i].pattern) /\ Creatable(told'[i].pattern)
  <2>1. Creatable(copy.pattern) /\ Creatable(told[i].pattern)
    BY <1>1, <1>5, <1>6, <1>10 DEF Kept, Follows
  <2>2. ASSUME NEW d \in Document, Creatable(d.pattern)
        PROVE  Creatable(Edited(d, o).pattern)
    BY <1>1, <1>6, <1>10, <2>2, EditedFacts DEF Given
  <2>3. QED BY <1>1, <1>2, <1>3, <2>1, <2>2
<1> HIDE DEF new, copy
<1>11. (\A j \in Stored : j \notin incidents.stale =>
          Reading(items[j]) = Reading(told[j]))'
  BY <1>3, <1>5, <1>6, <1>9 DEF Kept, Follows, Stored
<1>12. (\A j \in Stored : j \notin incidents.partial =>
          Creatable(items[j].pattern) /\ Creatable(told[j].pattern))'
  BY <1>3, <1>5, <1>6, <1>10 DEF Kept, Follows, Stored
<1>13. (\A q \in Request : req[q].step = "write" =>
          LET k == req[q].order.item IN
          /\ k \in Stored
          /\ k \notin incidents.partial => Creatable(req[q].copy.pattern))'
  BY <1>5, <1>6, <1>7 DEF Kept, Follows, Idle
<1>14. QED BY <1>8, <1>11, <1>12, <1>13 DEF Follows

LEMMA KeptAlways == Spec => []Kept
<1>1. Init => Kept BY TypeInit, FollowsInit DEF Kept
<1>2. Kept /\ [Next]_vars => Kept'
  <2> SUFFICES ASSUME Kept, [Next]_vars PROVE Kept'
    OBVIOUS
  <2>1. Follows'
    <3>1. CASE UNCHANGED vars BY <3>1 DEF vars, Kept, Follows, Stored
    <3>2. QED BY <3>1, FollowsCreate, FollowsFind, FollowsWrite
              DEF Next, RequestStep, Order
  <2>2. QED BY <2>1, TypeNext DEF Kept
<1>3. QED BY <1>1, <1>2, PTL DEF Spec

(* Every document, request and history keeps its shape.                    *)
THEOREM TypeCorrect == Spec => []TypeOK
BY KeptAlways, PTL DEF Kept

(* An item makes the list of a week fail only after an edit gave it a part *)
(* of a pattern.                                                           *)
THEOREM WeekAnswersHolds == Spec => []WeekAnswers
<1>1. Kept => WeekAnswers
  BY DEF Kept, Follows, WeekAnswers, Answers, Listed, Visible, Creatable
<1>2. QED BY <1>1, KeptAlways, PTL
-----------------------------------------------------------------------------
(* Each weekday falls once in the seven days from any first one, and the   *)
(* offset finds it.                                                        *)
LEMMA OffsetFindsTheDay ==
  ASSUME Week = 7, NEW first \in Nat, NEW w \in 0 .. 6
  PROVE  /\ first + Offset(w, Weekday(first)) \in first .. first + 6
         /\ \A d \in first .. first + 6 :
              Weekday(d) = w <=> d = first + Offset(w, Weekday(first))
BY DEF Offset, Weekday

LEMMA ExpansionIsMeant ==
  ASSUME Week = 7, TypeOK, NEW first \in Day, NEW p \in Pattern, Creatable(p)
  PROVE  /\ Occurrence(p, first) \in first .. first + 6
         /\ \A d \in first .. first + 6 :
              (Expands(p, first) /\ d = Occurrence(p, first)) <=> Meant(p, d)
<1>1. /\ first \in Nat /\ p.weekday \in 0 .. 6 /\ p.start \in Nat
      /\ p.end \in Maybe(Nat) /\ p.start # Missing /\ p.weekday # Missing
  BY WeekAssumption DEF Pattern, Creatable, Maybe, Day
<1>2. server.ahead \in BOOLEAN BY DEF TypeOK
<1> DEFINE occ == Occurrence(p, first)
<1>3. /\ occ \in first .. first + 6
      /\ \A d \in first .. first + 6 : Weekday(d) = p.weekday <=> d = occ
  BY <1>1, OffsetFindsTheDay DEF Occurrence
<1>4. ASSUME NEW n \in Nat, NEW m \in Nat
      PROVE  /\ Midnight(n) >= SaoPaulo(m) <=> m <= n /\ ~ (server.ahead /\ n = m)
             /\ Midnight(n) <= SaoPaulo(m) <=> n <= m
  <2>1. CASE server.ahead BY <2>1 DEF Midnight, SaoPaulo
  <2>2. CASE ~ server.ahead BY <2>2 DEF Midnight, SaoPaulo
  <2>3. QED BY <2>1, <2>2
<1>5. occ \in Nat BY <1>1, <1>3
<1>6. Expands(p, first) <=>
        /\ p.start <= occ /\ ~ (server.ahead /\ occ = p.start)
        /\ p.end # Missing => occ <= p.end
  <2> HIDE DEF occ
  <2>1. Midnight(occ) >= SaoPaulo(p.start) <=>
          p.start <= occ /\ ~ (server.ahead /\ occ = p.start)
    BY <1>1, <1>4, <1>5
  <2>2. p.end # Missing => (Midnight(occ) <= SaoPaulo(p.end) <=> occ <= p.end)
    BY <1>1, <1>4, <1>5 DEF Maybe
  <2>3. Expands(p, first) <=>
          /\ Midnight(occ) >= SaoPaulo(p.start)
          /\ p.end # Missing => Midnight(occ) <= SaoPaulo(p.end)
    BY <1>1 DEF Expands, occ
  <2>4. QED BY <2>1, <2>2, <2>3
<1> HIDE DEF occ
<1>7. ASSUME NEW d \in first .. first + 6
      PROVE  (Expands(p, first) /\ d = occ) <=> Meant(p, d)
  <2>1. Weekday(d) = p.weekday <=> d = occ BY <1>3
  <2>2. QED BY <1>6, <2>1 DEF Meant
<1>8. QED BY <1>3, <1>7 DEF occ

(* The list of any week of seven days is the calendar of what was asked    *)
(* for, but for items written over a change not read or given in part.     *)
THEOREM WeekShowsCalendarHolds ==
  ASSUME Week = 7
  PROVE  Spec => []WeekShowsCalendar
<1>1. ASSUME Kept PROVE WeekShowsCalendar
  <2> DEFINE sound == {i \in Stored :
                         i \notin incidents.stale \union incidents.partial}
             shown(i, p) == told[i].active /\ (p => told[i].public)
  <2> SUFFICES ASSUME NEW first \in Day, NEW p \in BOOLEAN
               PROVE  {o \in Weekly(first, p) : o[1] \in sound} =
                      {o \in sound \X (first .. first + Week - 1) :
                         shown(o[1], p) /\ Meant(told[o[1]].pattern, o[2])}
    BY DEF WeekShowsCalendar
  <2>1. ASSUME NEW i \in sound
        PROVE  /\ items[i].pattern = told[i].pattern
               /\ i \in Visible(p) <=> shown(i, p)
               /\ told[i].pattern \in Pattern /\ Creatable(told[i].pattern)
    <3>1. items[i] \in Document /\ told[i] \in Document
      BY <1>1 DEF Kept, TypeOK, Follows, Stored, Maybe
    <3>2. Reading(items[i]) = Reading(told[i]) /\ Creatable(told[i].pattern)
      BY <1>1 DEF Kept, Follows
    <3>3. /\ items[i].active = told[i].active
          /\ items[i].public = told[i].public
          /\ items[i].pattern = told[i].pattern
      BY <3>1, <3>2, SameReading
    <3>4. told[i].pattern \in Pattern BY <3>1 DEF Document
    <3>5. QED BY <3>2, <3>3, <3>4 DEF Visible
  <2>2. ASSUME NEW i \in sound
        PROVE  LET q == told[i].pattern IN
               /\ Occurrence(q, first) \in first .. first + 6
               /\ \A d \in first .. first + 6 :
                    (Expands(q, first) /\ d = Occurrence(q, first)) <=> Meant(q, d)
    BY <1>1, <2>1, ExpansionIsMeant DEF Kept
  <2>3. first + Week - 1 = first + 6 BY WeekAssumption DEF Day
  <2> HIDE DEF sound, shown
  <2>4. ASSUME NEW o \in Weekly(first, p), o[1] \in sound
        PROVE  /\ o \in sound \X (first .. first + Week - 1)
               /\ shown(o[1], p) /\ Meant(told[o[1]].pattern, o[2])
    <3>1. PICK i \in Listed(first, p) : o = <<i, Occurrence(items[i].pattern, first)>>
      BY DEF Weekly
    <3>2. i \in sound /\ i \in Visible(p) /\ Expands(items[i].pattern, first)
      BY <2>4, <3>1 DEF Listed
    <3>3. QED BY <2>1, <2>2, <2>3, <3>1, <3>2
  <2>5. ASSUME NEW o \in sound \X (first .. first + Week - 1),
               shown(o[1], p), Meant(told[o[1]].pattern, o[2])
        PROVE  o \in Weekly(first, p)
    <3>1. /\ o = <<o[1], o[2]>> /\ o[1] \in sound
          /\ o[2] \in first .. first + 6
      BY <2>3
    <3>2. /\ Expands(items[o[1]].pattern, first) /\ o[1] \in Visible(p)
          /\ o[2] = Occurrence(items[o[1]].pattern, first)
      BY <2>1, <2>2, <2>5, <3>1
    <3>3. QED BY <3>1, <3>2 DEF Weekly, Listed
  <2>6. QED BY <2>4, <2>5
<1>2. QED BY <1>1, KeptAlways, PTL
===============================================================================
