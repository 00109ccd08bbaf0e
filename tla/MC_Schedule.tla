------------------------------ MODULE MC_Schedule ------------------------------
(* Seventeen days from a Sunday: an item may begin before, in or after       *)
(* the week that is listed, and end in it.                                   *)
EXTENDS Schedule, TLC

Whole(d, from, to) == [weekday |-> d, start |-> from, end |-> to, time |-> TRUE]

MCCreation ==
  {[public |-> TRUE, pattern |-> Whole(1, 3, Missing)],
   [public |-> FALSE, pattern |-> Whole(0, 7, 14)],
   [public |-> TRUE, pattern |-> [Whole(5, 0, Missing) EXCEPT !.time = FALSE]]}

(* The visibility alone, a whole pattern, and patterns in part.            *)
MCEdit ==
  {[public |-> FALSE, pattern |-> Missing],
   [public |-> Missing, pattern |-> Whole(3, 10, 15)],
   [public |-> Missing, pattern |-> [Whole(2, Missing, Missing) EXCEPT !.time = FALSE]],
   [public |-> Missing, pattern |-> Whole(Missing, 3, Missing)]}

Alike == Permutations(Request) \union Permutations(Item)
===============================================================================
