------------------------------ MODULE MC_Banking -------------------------------
(***************************************************************************)
(* A small instance of Banking for TLC.                                    *)
(***************************************************************************)
EXTENDS Banking

(* Two transfers of one amount and day that only the reference tells apart *)
(* (one hash), the same line without a reference, and a payment.           *)
Pix(ref) == [ref |-> ref, day |-> 4, amount |-> 10, note |-> "pix"]
Fee      == [ref |-> "c", day |-> 4, amount |-> -10, note |-> "fee"]

Files == {<<Pix("a"), Pix("b")>>, <<Pix("a")>>, <<Pix(""), Fee>>}

(* An income of the day before, and an outgo at the midnight after.        *)
Entries ==
  {[id |-> 1, post |-> [amount |-> 10, day |-> 3, type |-> "INCOME"]],
   [id |-> 2, post |-> [amount |-> 10, day |-> 6, type |-> "OUTGO"]]}
===============================================================================
