----------------------------- MODULE MC_Payments ------------------------------
(***************************************************************************)
(* Small instances of Payments for TLC.                                    *)
(***************************************************************************)
EXTENDS Payments

(* One installment, or both in their order.                                *)
OneOrBoth == {<<1>>, <<2>>, <<1, 2>>}

(* Contributions and requests are interchangeable.                         *)
Symmetry == Permutations(Contribution) \union Permutations(Request)

(* At most one disturbance of any kind in a behaviour.                     *)
OneDisturbance == used.losses + used.crashes + used.fails =< 1
===============================================================================
