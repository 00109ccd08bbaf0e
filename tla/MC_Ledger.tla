------------------------------ MODULE MC_Ledger -------------------------------
(***************************************************************************)
(* Small instances of the Ledger for TLC.  Each .cfg opens the bounds that *)
(* its question needs and leaves the others at 0.                          *)
(***************************************************************************)
EXTENDS LedgerBooks, TLC

(* Identifiers of records and of requests are interchangeable: no          *)
(* definition names one.  Used for invariants and action properties only.  *)
Symmetry == Permutations(Rec) \union Permutations(Request)

(* At most one disturbance of any kind in a behaviour.                     *)
OneDisturbance ==
  used.flips + used.losses + used.crashes + used.edits + used.fails =< 1
===============================================================================
