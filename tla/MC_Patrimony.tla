----------------------------- MODULE MC_Patrimony -----------------------------
(* One asset, two files: one it may be registered with and one added later.*)
EXTENDS Patrimony, TLC

CONSTANTS bell, plate, photo, deacon, visitor, k1, k2

Bell(att) == [code |-> k1, name |-> k2, location |-> k2, quantity |-> 1,
              keeper |-> deacon, status |-> "ACTIVE", attachments |-> att,
              result |-> Missing, disposal |-> Missing]

Drafts == {Bell({}), Bell({plate}), [Bell({plate}) EXCEPT !.keeper = visitor]}

Nothing == [name |-> Missing, location |-> Missing, quantity |-> Missing,
            keeper |-> Missing, status |-> Missing, add |-> {}, remove |-> {}]

(* Only a status; a new photo for the plate; a quantity, with everything  *)
(* that an edit must repeat; a stranger put in charge.                     *)
Edits == {[Nothing EXCEPT !.status = "ACTIVE"],
          [Nothing EXCEPT !.add = {photo}, !.remove = {plate}],
          [Nothing EXCEPT !.name = k2, !.location = k2, !.quantity = 2],
          [Nothing EXCEPT !.keeper = visitor, !.add = {photo}]}

Line(c, q) == [asset |-> bell, code |-> c, quantity |-> q, result |-> "CONFIRMED"]

Counts == {[Line(k2, 1) EXCEPT !.result = "NOT_FOUND"], Line(k1, 2)}

Sheets == {<<Line(k2, 2), Line(Missing, 1)>>, <<Line(k1, 1), Line(k2, 2)>>}

(* What one request does another may do: invariants and steps alone.       *)
Symmetry == Permutations(Request)
===============================================================================
