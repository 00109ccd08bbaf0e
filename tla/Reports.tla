-------------------------------- MODULE Reports --------------------------------
(***************************************************************************)
(* Two reports on the same figures: the DRE, stored when a month closes,   *)
(* and the income statement, computed on request.  Both read the sums that *)
(* fetchStatementCategories returns per category and currency; a sum that  *)
(* it does not return is zero.                                             *)
(***************************************************************************)
EXTENDS Integers, FiniteSets, Functions

CONSTANTS
  Symbol,     \* the currencies
  Statements  \* the statements that are reported on; few in small instances

StatementCategory ==
  {"REVENUE", "COGS", "OPEX", "MINISTRY_TRANSFERS", "CAPEX", "OTHER"}

(* Realized records of a category in a currency, by type; amounts are      *)
(* absolute, purchases are expenses.                                       *)
Figures == [income : Nat, expenses : Nat, reversal : Nat]
Heading == StatementCategory \X Symbol

ASSUME SymbolAssumption == IsFiniteSet(Symbol)
ASSUME StatementsAssumption == Statements \subseteq [Heading -> Figures]

SumCategories(F(_)) ==
  F("REVENUE") + F("COGS") + F("OPEX") + F("MINISTRY_TRANSFERS") + F("CAPEX")
    + F("OTHER")
-----------------------------------------------------------------------------
(* DRE.generateDRE: applyCategory for one currency.                        *)
Net(f)  == f.income - f.expenses
Cost(f) == f.expenses - f.income

Accumulator(st, s) ==
  [grossRevenue         |-> Net(st[<<"REVENUE", s>>]),
   directCosts          |-> Cost(st[<<"COGS", s>>]),
   operationalExpenses  |-> Cost(st[<<"OPEX", s>>]),
   ministryTransfers    |-> Cost(st[<<"MINISTRY_TRANSFERS", s>>]),
   capexInvestments     |-> st[<<"CAPEX", s>>].expenses,
   extraordinaryResults |-> Net(st[<<"OTHER", s>>])]

(* globalAccumulator: currencies are added as if they were one.            *)
Line == {"grossRevenue", "directCosts", "operationalExpenses",
         "ministryTransfers", "capexInvestments", "extraordinaryResults"}

GlobalAccumulator(st) ==
  [k \in Line |-> SumFunction([s \in Symbol |-> Accumulator(st, s)[k]])]

(* Variant with a bug: the operational result leaves the transfers out.    *)
OperationalResultWithoutTransfers(acc) ==
  acc.grossRevenue - acc.directCosts - acc.operationalExpenses

(* buildSummary.                                                           *)
OperationalResult(acc) ==
  acc.grossRevenue - acc.directCosts - acc.operationalExpenses
    - acc.ministryTransfers

NetResult(acc) ==
  OperationalResult(acc) + acc.extraordinaryResults - acc.capexInvestments
-----------------------------------------------------------------------------
(* IncomeStatement: per currency, reversals lower the income, and every    *)
(* category counts.                                                        *)
TotalIncome(st, s) ==
  SumCategories(LAMBDA c : st[<<c, s>>].income - st[<<c, s>>].reversal)
TotalExpenses(st, s) == SumCategories(LAMBDA c : st[<<c, s>>].expenses)
NetIncome(st, s)     == TotalIncome(st, s) - TotalExpenses(st, s)

(* breakdown.                                                              *)
CategoryNet(st, c, s) ==
  st[<<c, s>>].income - st[<<c, s>>].reversal - st[<<c, s>>].expenses

Reversals(st, s) == SumCategories(LAMBDA c : st[<<c, s>>].reversal)
-----------------------------------------------------------------------------
(* The two reports give the same result for a month, up to what only one   *)
(* of them counts: the statement takes reversals off the income, the DRE   *)
(* ignores what comes in under CAPEX.                                      *)
SameResult(st, s) ==
  NetResult(Accumulator(st, s))
    = NetIncome(st, s) + Reversals(st, s) - st[<<"CAPEX", s>>].income

(* The statement's breakdown adds up to its net income.                    *)
BreakdownAddsUp(st, s) ==
  SumCategories(LAMBDA c : CategoryNet(st, c, s)) = NetIncome(st, s)

(* The DRE's overall result is the sum of those of its currencies.         *)
GlobalAddsUp(st) ==
  NetResult(GlobalAccumulator(st))
    = SumFunction([s \in Symbol |-> NetResult(Accumulator(st, s))])

(* The two reports agree on every statement, in each currency, up to these *)
(* differences, and each agrees with its own parts.                        *)
ReportsReconcile ==
  \A st \in Statements :
    /\ GlobalAddsUp(st)
    /\ \A s \in Symbol : SameResult(st, s) /\ BreakdownAddsUp(st, s)
==============================================================================
