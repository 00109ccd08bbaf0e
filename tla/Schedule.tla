-------------------------------- MODULE Schedule --------------------------------
(***************************************************************************)
(* The weekly schedule of a church: items that recur on a day of the week, *)
(* created, edited, deactivated and activated by requests that read a      *)
(* document and write all of it back, and the list of a week's occurrences.*)
(*                                                                         *)
(* Abstractions: one church, whose users are let through; of an item its   *)
(* state, its visibility and its pattern are kept, and of the time of day  *)
(* and the duration whether they are there.                                *)
(***************************************************************************)
EXTENDS Integers, FiniteSets

CONSTANTS
  Item,         \* items there may be
  Week,         \* days of a week, 7 in the code
  LastDay,      \* bound: the days are 0 .. LastDay
  Creation,     \* payloads of POST /schedule
  Edit,         \* payloads of PUT /schedule/:id
  Request,      \* slots for running requests
  Missing,      \* undefined or null
  MaxRequests   \* bound: requests

Maybe(S) == S \union {Missing}
Day == 0 .. LastDay
Weekday(d) == d % Week

(* A pattern as it comes in; `time' says that time and duration are there. *)
Pattern == [weekday : Maybe(0 .. Week - 1), start : Maybe(Day),
            end : Maybe(Day), time : BOOLEAN]

ASSUME WeekAssumption == Week \in Nat \ {0} /\ LastDay \in Nat
ASSUME PayloadAssumption ==
  /\ Creation \subseteq [public : BOOLEAN, pattern : Pattern]
  /\ Edit \subseteq [public : Maybe(BOOLEAN), pattern : Maybe(Pattern)]
ASSUME BoundAssumption == MaxRequests \in Nat

VARIABLES
  items,     \* the collection schedule_events
  req,       \* what each running request is doing
  server,    \* the server's clock and what its database driver does
  told,      \* history: each item as it was last asked to be
  incidents, \* history: items whose documents lost something
  requests   \* how much of the bound is spent

vars == <<items, req, server, told, incidents, requests>>

Document == [id : Maybe(Item), active : BOOLEAN, public : BOOLEAN,
             pattern : Pattern]

(* What a request asks of an item, and a request that has read it.         *)
Order == [op : {"update"}, item : Item, edit : Edit]
         \union [op : {"activate", "deactivate"}, item : Item]

Idle    == [step |-> "idle"]
Running == [step : {"write"}, order : Order, copy : Document]

ASSUME MissingAssumption ==
  Missing \notin Document \union Pattern \union Item \union Int \union BOOLEAN

(* The server's midnight comes before Sao Paulo's, or with it; undefined   *)
(* fields are left out of a write, or written as null.                     *)
Init ==
  /\ items = [i \in Item |-> Missing]
  /\ req = [r \in Request |-> Idle]
  /\ server \in [ahead : BOOLEAN, keeps : BOOLEAN]
  /\ told = items
  /\ incidents = [stale |-> {}, partial |-> {}]
  /\ requests = 0

Stored == {i \in Item : items[i] # Missing}
Spend == requests < MaxRequests /\ requests' = requests + 1
-----------------------------------------------------------------------------
(* Variant with a bug: the time of the pattern is not required.            *)
CreatableAny(p) == p.weekday # Missing /\ p.start # Missing

(* CreateScheduleItemValidator: all of the pattern but its end.            *)
Creatable(p) == p.weekday # Missing /\ p.start # Missing /\ p.time

Create(o) ==
  /\ Spend
  /\ IF Creatable(o.pattern)
     THEN \E i \in Item \ Stored :
            /\ items' = [items EXCEPT ![i] =
                 [id |-> i, active |-> TRUE, public |-> o.public,
                  pattern |-> o.pattern]]
            /\ told' = [told EXCEPT ![i] = items'[i]]
     ELSE UNCHANGED <<items, told>>
  /\ UNCHANGED <<req, server, incidents>>

(* fromPrimitives looks for the id under a name it is not stored by, so    *)
(* what was read has none.                                                 *)
Reading(doc) == [doc EXCEPT !.id = Missing]

(* Update, Deactivate and Activate look for the item by its id: 404 if it  *)
(* is not stored, or has lost its id.                                      *)
Find(r, o) ==
  /\ req[r] = Idle /\ Spend
  /\ IF o.item \in Stored /\ items[o.item].id = o.item
     THEN req' = [req EXCEPT ![r] = [step |-> "write", order |-> o,
                                     copy |-> Reading(items[o.item])]]
     ELSE UNCHANGED req
  /\ UNCHANGED <<items, server, told, incidents>>

Given(value, old) == IF value = Missing THEN old ELSE value

(* The pattern is replaced whole, by a part of one if that is what came.   *)
Edited(doc, o) ==
  CASE o.op = "update" -> [doc EXCEPT !.public = Given(o.edit.public, @),
                                      !.pattern = Given(o.edit.pattern, @)]
    [] o.op = "deactivate" -> [doc EXCEPT !.active = FALSE]
    [] o.op = "activate"   -> [doc EXCEPT !.active = TRUE]

(* upsert by _id; the missing id is left as it was, or overwritten.        *)
Written(doc, old) == [doc EXCEPT !.id = IF server.keeps THEN old.id ELSE @]

Write(r) ==
  LET o == req[r].order
      i == o.item
      old == items[i]
      partial == o.op = "update" /\ o.edit.pattern # Missing
  IN /\ req[r].step = "write"
     /\ req' = [req EXCEPT ![r] = Idle]
     /\ items' = [items EXCEPT ![i] = Written(Edited(req[r].copy, o), old)]
     /\ told' = [told EXCEPT ![i] = Edited(@, o)]
     /\ incidents' =
          [stale |-> IF Reading(old) # req[r].copy THEN incidents.stale \union {i}
                     ELSE incidents.stale,
           partial |-> IF partial /\ ~ Creatable(o.edit.pattern)
                       THEN incidents.partial \union {i} ELSE incidents.partial]
     /\ UNCHANGED <<server, requests>>
-----------------------------------------------------------------------------
(* ListWeeklyScheduleOccurrences. The midnights a day begins with on the   *)
(* server and in Sao Paulo, in which the limits of a pattern are kept.     *)
Midnight(d)  == IF server.ahead THEN 2 * d ELSE 2 * d + 1
SaoPaulo(d)  == 2 * d + 1

(* Variant with a bug: the offset is not brought into the week.            *)
OffsetUnwrapped(target, start) == target - start

Offset(target, start) == (target - start + Week) % Week

(* The occurrence expandOccurrences goes on with in the week from `first'. *)
Occurrence(p, first) == first + Offset(p.weekday, Weekday(first))

Expands(p, first) ==
  /\ p.weekday # Missing
  /\ p.start # Missing => Midnight(Occurrence(p, first)) >= SaoPaulo(p.start)
  /\ p.end # Missing => Midnight(Occurrence(p, first)) <= SaoPaulo(p.end)

Visible(publicOnly) ==
  {i \in Stored : items[i].active /\ (publicOnly => items[i].public)}

Listed(first, publicOnly) ==
  {i \in Visible(publicOnly) : Expands(items[i].pattern, first)}

(* Without a time its split throws, and the whole list with it.            *)
Answers(first, publicOnly) ==
  \A i \in Listed(first, publicOnly) : items[i].pattern.time

Weekly(first, publicOnly) ==
  {<<i, Occurrence(items[i].pattern, first)>> : i \in Listed(first, publicOnly)}

RequestStep(r) ==
  \/ \E i \in Item : \E e \in Edit : Find(r, [op |-> "update", item |-> i, edit |-> e])
  \/ \E i \in Item, op \in {"activate", "deactivate"} :
       Find(r, [op |-> op, item |-> i])
  \/ Write(r)

Next == (\E o \in Creation : Create(o)) \/ (\E r \in Request : RequestStep(r))

Spec == Init /\ [][Next]_vars
-----------------------------------------------------------------------------
TypeOK ==
  /\ items \in [Item -> Maybe(Document)]
  /\ req \in [Request -> {Idle} \union Running]
  /\ told \in [Item -> Maybe(Document)]
  /\ server \in [ahead : BOOLEAN, keeps : BOOLEAN]
  /\ incidents \in [stale : SUBSET Item, partial : SUBSET Item]
  /\ requests \in 0 .. MaxRequests

(* The days an item is meant for: its weekday, from its start to its end,  *)
(* both included, but for its first day on a server ahead of Sao Paulo.    *)
Meant(p, d) ==
  /\ Weekday(d) = p.weekday
  /\ p.start <= d /\ (p.end # Missing => d <= p.end)
  /\ ~ (server.ahead /\ d = p.start)

(* The list of any week has the days of the calendar for which the items   *)
(* were last asked to be active and visible, except for items written over *)
(* a change that was not read, or given a part of a pattern.               *)
WeekShowsCalendar ==
  LET sound == {i \in Stored : i \notin incidents.stale \union incidents.partial}
      shown(i, p) == told[i].active /\ (p => told[i].public)
  IN \A first \in Day, p \in BOOLEAN :
       {o \in Weekly(first, p) : o[1] \in sound} =
       {o \in sound \X (first .. first + Week - 1) :
          shown(o[1], p) /\ Meant(told[o[1]].pattern, o[2])}

(* The list of a week fails only for a pattern that an edit gave in part,  *)
(* or that an edit of something else wrote back: one item is enough to     *)
(* leave the whole church without the list.                                *)
WeekAnswers ==
  \A first \in Day, p \in BOOLEAN :
    Answers(first, p) \/ Visible(p) \intersect incidents.partial # {}
===============================================================================
