------------------------------ MODULE MC_Months ------------------------------
(* Two churches and years of two months: January is closed, December, the  *)
(* second month, is not.  The record and the purchase are dated in the     *)
(* January of one church.                                                  *)
EXTENDS MonthReports, TLC

CONSTANTS c1, c2, sale, buy

MCPeriodOf == [e \in {sale, buy} |-> <<c1, 0>>]
MCUserPeriod == {<<c1, 0>>}

(* Statements with figures under two headings at most.                     *)
Few     == [income : 0..1, expenses : 0..1, reversal : 0..1]
Nothing == [income |-> 0, expenses |-> 0, reversal |-> 0]

MCStatements ==
  {(h :> f) @@ (g :> n) @@ [k \in Heading |-> Nothing] :
     h \in Heading, g \in Heading, f \in Few, n \in Few}
==============================================================================
