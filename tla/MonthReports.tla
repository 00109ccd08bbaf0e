----------------------------- MODULE MonthReports -----------------------------
(* The financial months with the two reports on their figures.             *)
EXTENDS Months, Reports

Fresh ==
  /\ night = Waiting /\ clock = 0 /\ used.requests = 0
  /\ \A e \in Entry : stage[e] = "new"

(* DRE.generateDRE and IncomeStatement.execute agree on every statement.   *)
(* They change no state: one state is enough to compare them in.           *)
ReportsAgree == Fresh => ReportsReconcile
==============================================================================
