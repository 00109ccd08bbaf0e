------------------------------- MODULE Payments -------------------------------
(***************************************************************************)
(* What is owed and how it is paid: the accounts payable and receivable    *)
(* with their installments, and the online contributions, by which members *)
(* declare that they paid one.                                             *)
(*                                                                         *)
(* Every request reads whole documents, works on its copy in memory and    *)
(* writes the copy back; a step ends where the code awaits the database.   *)
(* The money itself moves in the Ledger: here a payment ends by asking     *)
(* CreateFinancialRecordJob for a record (`booked').                       *)
(***************************************************************************)
EXTENDS Integers, SequencesExt

CONSTANTS
  Account,         \* accounts payable and receivable
  NoAccount,       \* no account
  Contribution,    \* online contributions
  NoContribution,  \* no contribution
  NoDoc,           \* the document does not exist
  Nan,             \* NaN, what JavaScript makes of "undefined - 1"
  Installment,     \* positions an installment may have in its account: 1..n
  Price,           \* amounts of an installment, in cents
  Sum,             \* totals an account may have, in cents
  Amount,          \* amounts that are paid, in cents
  List,            \* lists of installments that a payment may name
  Request,         \* concurrent requests
  MaxRequests,     \* bound: requests started
  MaxLosses,       \* bound: dispatches that do not reach Redis
  MaxCrashes,      \* bound: crashes of the process
  MaxFails         \* bound: database errors

ASSUME AccountAssumption      == NoAccount \notin Account
ASSUME ContributionAssumption == NoContribution \notin Contribution
ASSUME NanAssumption          == Nan \notin Int
ASSUME InstallmentAssumption  ==
  \A i \in Installment : i \in Nat \ {0} /\ 1..i \subseteq Installment
ASSUME ListAssumption         == List \subseteq Seq(Installment) \ {<<>>}
ASSUME AmountAssumption       ==
  /\ Price \subseteq Nat \ {0} /\ Amount \subseteq Nat \ {0}
  /\ Sum \subseteq Nat

(* amountPaid and amountPending are absent until the first payment; the    *)
(* code then takes 0 and the amount, and so does the model from the start. *)
InstallmentDoc ==
  [amount : Nat \ {0}, paid : Int \union {Nan}, pending : Nat \union {Nan},
   status : {"PENDING", "PARTIAL", "PAID", "IN_REVIEW"}]

AccountDoc ==
  [kind : {"payable", "receivable"}, total : Nat, paid : Nat, pending : Int,
   status : {"PENDING", "PARTIAL", "PAID"}, inst : Seq(InstallmentDoc)]

(* A contribution that declares the payment of an installment names it; a  *)
(* plain one (tithe, offering) names NoAccount.                            *)
ContributionStatus == {"PENDING_VERIFICATION", "PROCESSED", "REJECTED"}
ContributionDoc ==
  [status : ContributionStatus, amount : Nat \ {0},
   account : Account \union {NoAccount}, inst : Nat]

ASSUME DocAssumption == NoDoc \notin AccountDoc \union ContributionDoc

VARIABLES
  acct,      \* accounts_payable and accounts_receivable
  contrib,   \* online contributions
  req,       \* the running requests
  booked,    \* per account: amounts of the financial records asked for;
             \* NoAccount: those of plain contributions
  credited,  \* amounts that contributions sent straight to the balance job
  answered,  \* history: per account, amounts of payments answered with OK
  careless,  \* history: accounts that got a payment nobody should make
  incidents, \* history: the anomalies that have happened
  used       \* how much of each bound is spent

docs    == <<acct, contrib>>
money   == <<booked, credited>>
history == <<answered, careless, incidents>>
vars    == <<docs, req, money, history, used>>

Idle == [step |-> "idle", account |-> NoAccount, doc |-> NoDoc,
         list |-> <<>>, amount |-> 0, center |-> TRUE,
         from |-> NoContribution, seen |-> NoDoc]

Session ==
  [step : {"idle", "paying", "stored", "declaring", "declared", "deciding",
           "decided"},
   account : Account \union {NoAccount}, doc : AccountDoc \union {NoDoc},
   list : Seq(Installment), amount : Nat, center : BOOLEAN,
   from : Contribution \union {NoContribution},
   seen : ContributionDoc \union {NoDoc}]

Incident == {"lost", "crash", "failed", "stale"}

TypeOK ==
  /\ acct \in [Account -> AccountDoc \union {NoDoc}]
  /\ contrib \in [Contribution -> ContributionDoc \union {NoDoc}]
  /\ req \in [Request -> Session]
  /\ booked \in [Account \union {NoAccount} -> Nat]
  /\ credited \in Nat
  /\ answered \in [Account -> Nat]
  /\ careless \subseteq Account
  /\ incidents \subseteq Incident
  /\ used \in [requests : Nat, losses : Nat, crashes : Nat, fails : Nat]

Init ==
  /\ acct = [a \in Account |-> NoDoc]
  /\ contrib = [x \in Contribution |-> NoDoc]
  /\ req = [q \in Request |-> Idle]
  /\ booked = [a \in Account \union {NoAccount} |-> 0]
  /\ credited = 0
  /\ answered = [a \in Account |-> 0]
  /\ careless = {}
  /\ incidents = {}
  /\ used = [requests |-> 0, losses |-> 0, crashes |-> 0, fails |-> 0]
-----------------------------------------------------------------------------
(* PayInstallment: the new installment and what it returns, which the      *)
(* callers hand to the next installment of the list.                       *)

Minus(m, n) == IF Nan \in {m, n} THEN Nan ELSE m - n
Covers(m, n)  == Nan \notin {m, n} /\ m >= n
Exceeds(m, n) == Nan \notin {m, n} /\ m > n

(* What stays pending of an installment, and what is left for the next.    *)
Rest(inst, amount) ==
  IF Exceeds(amount, inst.pending) THEN 0 ELSE Minus(inst.pending, amount)

\* Variant with a bug: what was paid before is forgotten.
LeftOfWhole(inst, amount) == Minus(amount, inst.amount)
Left(inst, amount) == Minus(amount, inst.pending)

(* A paid one is left alone and nothing is returned: the next installment  *)
(* computes with "undefined".                                              *)
PayInstallment(inst, amount) ==
  LET due  == IF inst.status = "PENDING" THEN inst.amount ELSE inst.pending
      rest == Rest(inst, amount)
  IN
  IF inst.status = "PAID" THEN [inst |-> inst, left |-> Nan]
  ELSE [inst |-> [inst EXCEPT
          !.status  = IF Covers(amount, due) THEN "PAID" ELSE "PARTIAL",
          !.pending = rest,
          !.paid    = IF Exceeds(amount, inst.pending) THEN inst.amount
                      ELSE IF rest = Nan THEN amount ELSE amount + rest],
        left |-> Left(inst, amount)]

(* The loop of both use cases over the installments named.                 *)
PayNext(state, i) ==
  LET result == PayInstallment(state.insts[i], state.left)
  IN  [insts |-> [state.insts EXCEPT ![i] = result.inst],
       left  |-> result.left]

PayAll(insts, list, amount) ==
  LET loop[n \in 0..Len(list)] ==
        IF n = 0 THEN [insts |-> insts, left |-> amount]
        ELSE PayNext(loop[n - 1], list[n])
  IN  loop[Len(list)].insts

(* updateAmount, of each aggregate: only the payable one stops at 0 and    *)
(* knows PARTIAL.                                                          *)
\* Variant with a bug: a payable account does not stop at 0.
UpdateUnfloored(doc, amount) ==
  LET pending == doc.pending - amount
  IN  [doc EXCEPT !.paid = @ + amount, !.pending = pending,
                  !.status = IF pending =< 0 THEN "PAID" ELSE "PARTIAL"]

UpdateAmount(doc, amount) ==
  LET pending == doc.pending - amount
      status  ==
        IF doc.kind = "receivable"
        THEN IF pending = 0 THEN "PAID" ELSE doc.status
        ELSE IF pending =< 0 THEN "PAID"
        ELSE IF pending < doc.total THEN "PARTIAL" ELSE "PENDING"
  IN  [doc EXCEPT !.paid = @ + amount, !.status = status,
         !.pending = IF doc.kind = "payable" /\ pending < 0 THEN 0
                     ELSE pending]

(* The account after a payment.                                            *)
Paid(doc, list, amount) ==
  [UpdateAmount(doc, amount) EXCEPT !.inst = PayAll(@, list, amount)]

(* markInstallmentInReview: whatever the status was.                       *)
InReview(doc, i) == [doc EXCEPT !.inst[i].status = "IN_REVIEW"]
-----------------------------------------------------------------------------
(* A payment a user can be expected to make: it names open installments    *)
(* once each, reaches the last of them and does not exceed them.           *)
Owed(doc, list) ==
  SumFunction([n \in DOMAIN list |-> doc.inst[list[n]].pending])

Careful(doc, list, amount) ==
  /\ IsInjective(list)
  /\ \A n \in DOMAIN list : doc.inst[list[n]].pending \notin {0, Nan}
  /\ Owed(doc, Front(list)) < amount
  /\ amount =< Owed(doc, list)

Noted(anomaly, happened) == IF happened THEN {anomaly} ELSE {}

Lose(lost) ==
  /\ used.losses + Cardinality(lost) =< MaxLosses
  /\ used' = [used EXCEPT !.losses = @ + Cardinality(lost)]

Fail ==
  /\ used.fails < MaxFails
  /\ used' = [used EXCEPT !.fails = @ + 1]

Start(q, new) ==
  /\ req[q] = Idle
  /\ used.requests < MaxRequests
  /\ used' = [used EXCEPT !.requests = @ + 1]
  /\ req' = [req EXCEPT ![q] = new]

Finish(q) == req' = [req EXCEPT ![q] = Idle]

(* A request that has read an account.                                     *)
CopyOf(a, step, list, amount, center) ==
  [Idle EXCEPT !.step = step, !.account = a, !.doc = acct[a],
     !.list = list, !.amount = amount, !.center = center]
-----------------------------------------------------------------------------
(* CreateAccountPayable and CreateAccountReceivable.  A payable account    *)
(* may have no installments; its declared total may differ from their sum  *)
(* by one cent.  A receivable one is accepted at once.                     *)
NewInstallments(prices) ==
  [i \in DOMAIN prices |->
     [amount |-> prices[i], paid |-> 0, pending |-> prices[i],
      status |-> "PENDING"]]

NewAccount(kind, prices, total) ==
  [kind |-> kind, total |-> total, paid |-> 0, pending |-> total,
   status |-> "PENDING", inst |-> NewInstallments(prices)]

PriceLists == UNION {[1..n -> Price] : n \in {0} \union Installment}
Total(prices) == SumFunction(prices)

CreateAccountPayable(a) ==
  /\ acct[a] = NoDoc
  /\ \E prices \in PriceLists, total \in Sum :
       /\ prices # <<>> => total \in (Total(prices) - 1)..(Total(prices) + 1)
       /\ acct' = [acct EXCEPT ![a] = NewAccount("payable", prices, total)]
  /\ UNCHANGED <<contrib, req, money, history, used>>

CreateAccountReceivable(a) ==
  /\ acct[a] = NoDoc
  /\ \E prices \in PriceLists \ {<<>>}, total \in Sum :
       /\ total = Total(prices)
       /\ acct' = [acct EXCEPT ![a] = NewAccount("receivable", prices, total)]
  /\ UNCHANGED <<contrib, req, money, history, used>>
-----------------------------------------------------------------------------
(* PayAccountPayable and PayAccountReceivable: the account is read and     *)
(* kept as the snapshot of the roll back.  `center' says whether the cost  *)
(* centre named in the request exists.                                     *)
PayRead(q) ==
  \E a \in Account, list \in List, amount \in Amount, center \in BOOLEAN :
    /\ acct[a] # NoDoc
    /\ acct[a].kind = "receivable" => center
    /\ Start(q, CopyOf(a, "paying", list, amount, center))
    /\ UNCHANGED <<docs, money, history>>

\* Variant with a bug: nothing is rolled back.
KeepIt(s)   == UNCHANGED acct
RollBack(s) == acct' = [acct EXCEPT ![s.account] = s.doc]

(* The installments and the account are changed in memory and written.  An *)
(* installment that does not exist stops the loop: the roll back writes    *)
(* the snapshot.  Only a payable account then answers OK.                  *)
Known(s) == \A n \in DOMAIN s.list : s.list[n] \in DOMAIN s.doc.inst

AnswerOK(s) ==
  answered' = [answered EXCEPT ![s.account] = @ + s.amount]

AnswerError(s) ==
  IF s.doc.kind = "payable" THEN AnswerOK(s) ELSE UNCHANGED answered

PayStore(q) ==
  LET s == req[q] IN
  /\ s.step = "paying"
  /\ incidents' = incidents \union Noted("stale", acct[s.account] # s.doc)
  /\ IF Known(s)
       THEN /\ acct' = [acct EXCEPT ![s.account] =
                          Paid(s.doc, s.list, s.amount)]
            /\ req' = [req EXCEPT ![q].step = "stored"]
            /\ careless' = IF Careful(s.doc, s.list, s.amount) THEN careless
                           ELSE careless \union {s.account}
            /\ UNCHANGED answered
       ELSE /\ RollBack(s)
            /\ Finish(q)
            /\ AnswerError(s)
            /\ UNCHANGED careless
  /\ UNCHANGED <<contrib, money, used>>

(* The record is asked for.  Without a cost centre the post-commit action  *)
(* throws before it dispatches, and the snapshot is written back.          *)
PayCommit(q) ==
  LET s == req[q] IN
  \E lost \in SUBSET {"record"} :
    /\ s.step = "stored"
    /\ Lose(lost)
    /\ IF s.center
         THEN /\ booked' = IF lost # {} THEN booked
                           ELSE [booked EXCEPT ![s.account] = @ + s.amount]
              /\ AnswerOK(s)
              /\ incidents' = incidents \union Noted("lost", lost # {})
              /\ UNCHANGED acct
         ELSE /\ RollBack(s)
              /\ AnswerError(s)
              /\ incidents' = incidents
                   \union Noted("stale", acct[s.account] #
                                         Paid(s.doc, s.list, s.amount))
              /\ UNCHANGED booked
    /\ Finish(q)
    /\ UNCHANGED <<contrib, credited, careless>>

(* The write fails: the snapshot is written over the account.              *)
PayFail(q) ==
  LET s == req[q] IN
  /\ s.step = "paying"
  /\ Fail
  /\ RollBack(s)
  /\ incidents' = incidents \union {"failed"}
       \union Noted("stale", acct[s.account] # s.doc)
  /\ AnswerError(s)
  /\ Finish(q)
  /\ UNCHANGED <<contrib, money, careless>>
-----------------------------------------------------------------------------
(* DeclareInstallmentPayment: a member says that an installment is paid.   *)
DeclareRead(q) ==
  \E a \in Account, i \in Installment, amount \in Amount :
    /\ acct[a] # NoDoc
    /\ acct[a].kind = "receivable"
    /\ i \in DOMAIN acct[a].inst
    /\ Start(q, CopyOf(a, "declaring", <<i>>, amount, TRUE))
    /\ UNCHANGED <<docs, money, history>>

(* RegisterContributionsOnline.                                            *)
\* Variant with a bug: the installment is marked before it is stored.
DeclareMarksFirst(q) ==
  LET s == req[q] IN
  /\ s.step = "declaring"
  /\ acct' = [acct EXCEPT ![s.account] = InReview(s.doc, Head(s.list))]
  /\ req' = [req EXCEPT ![q].step = "declared"]
  /\ UNCHANGED <<contrib, money, history, used>>

DeclareStore(q) ==
  LET s == req[q] IN
  \E x \in Contribution :
    /\ s.step = "declaring"
    /\ contrib[x] = NoDoc
    /\ contrib' = [contrib EXCEPT ![x] =
         [status |-> "PENDING_VERIFICATION", amount |-> s.amount,
          account |-> s.account, inst |-> Head(s.list)]]
    /\ req' = [req EXCEPT ![q].step = "declared"]
    /\ UNCHANGED <<acct, money, history, used>>

(* The account that was read before the contribution was stored is marked  *)
(* and written.                                                            *)
DeclareMark(q) ==
  LET s == req[q] IN
  /\ s.step = "declared"
  /\ acct' = [acct EXCEPT ![s.account] = InReview(s.doc, Head(s.list))]
  /\ incidents' = incidents \union Noted("stale", acct[s.account] # s.doc)
  /\ Finish(q)
  /\ UNCHANGED <<contrib, money, answered, careless, used>>

(* A plain contribution of a member: one write.                            *)
Contribute ==
  \E x \in Contribution, amount \in Amount :
    /\ contrib[x] = NoDoc
    /\ used.requests < MaxRequests
    /\ used' = [used EXCEPT !.requests = @ + 1]
    /\ contrib' = [contrib EXCEPT ![x] =
         [status |-> "PENDING_VERIFICATION", amount |-> amount,
          account |-> NoAccount, inst |-> 0]]
    /\ UNCHANGED <<acct, req, money, history>>
-----------------------------------------------------------------------------
(* UpdateContributionStatus: an administrator gives a contribution any     *)
(* status, whatever it has.                                                *)
DecisionOn(x, status) ==
  [Idle EXCEPT !.step = "deciding", !.from = x,
     !.seen = [contrib[x] EXCEPT !.status = status]]

DecideRead(q) ==
  \E x \in Contribution, status \in ContributionStatus :
    /\ contrib[x] # NoDoc
    /\ Start(q, DecisionOn(x, status))
    /\ UNCHANGED <<docs, money, history>>

DecideStore(q) ==
  LET s == req[q] IN
  /\ s.step = "deciding"
  /\ contrib' = [contrib EXCEPT ![s.from] = s.seen]
  /\ IF s.seen.status = "PROCESSED"
       THEN req' = [req EXCEPT ![q].step = "decided"]
       ELSE Finish(q)
  /\ UNCHANGED <<acct, money, history, used>>

(* The balance job is dispatched; then a declared payment goes on as a     *)
(* payment of its installment, a plain contribution asks for its record.   *)
\* Variant with a bug: no contribution is taken for a declared payment.
AlwaysPlain(x) == FALSE
IsDeclared(x)  == x.account # NoAccount

DecideDispatch(q) ==
  LET s == req[q] IN
  \E lost \in SUBSET {"balance", "record"} :
    /\ s.step = "decided"
    /\ IsDeclared(s.seen) => "record" \notin lost
    /\ Lose(lost)
    /\ credited' = IF "balance" \in lost THEN credited
                   ELSE credited + s.seen.amount
    /\ IF IsDeclared(s.seen)
         THEN /\ req' = [req EXCEPT ![q] =
                   CopyOf(s.seen.account, "paying", <<s.seen.inst>>,
                          s.seen.amount, TRUE)]
              /\ UNCHANGED booked
         ELSE /\ booked' = IF "record" \in lost THEN booked
                           ELSE [booked EXCEPT ![NoAccount] = @ + s.seen.amount]
              /\ Finish(q)
    /\ incidents' = incidents \union Noted("lost", lost # {})
    /\ UNCHANGED <<docs, answered, careless>>
-----------------------------------------------------------------------------
(* The process dies: what was in memory is gone.                           *)
Crash ==
  /\ used.crashes < MaxCrashes
  /\ used' = [used EXCEPT !.crashes = @ + 1]
  /\ req' = [q \in Request |-> Idle]
  /\ incidents' = incidents \union {"crash"}
  /\ UNCHANGED <<docs, money, answered, careless>>

Go(q) ==
  \/ PayStore(q) \/ PayCommit(q)
  \/ DeclareStore(q) \/ DeclareMark(q)
  \/ DecideStore(q) \/ DecideDispatch(q)

Next ==
  \/ \E a \in Account : CreateAccountPayable(a) \/ CreateAccountReceivable(a)
  \/ \E q \in Request :
       PayRead(q) \/ DeclareRead(q) \/ DecideRead(q) \/ Go(q) \/ PayFail(q)
  \/ Contribute
  \/ Crash

Spec == Init /\ [][Next]_vars
-----------------------------------------------------------------------------
Existing == {a \in Account : acct[a] # NoDoc}
Stale    == "stale" \in incidents
Settled  == \A q \in Request : req[q] = Idle

(* What updateAmount keeps true of an account, whoever writes which copy:  *)
(* paid and pending make up the total, a payable account that was overpaid *)
(* stops at 0, and the status says which of the three cases it is.  A      *)
(* receivable one has no PARTIAL and may be PAID and overpaid, or overpaid *)
(* without ever having been PAID.                                          *)
Agrees(doc) ==
  /\ doc.kind = "payable" =>
       /\ doc.pending >= 0
       /\ doc.paid + doc.pending >= doc.total
       /\ doc.pending > 0 => doc.paid + doc.pending = doc.total
       /\ doc.status = "PAID" => doc.pending = 0
       /\ doc.status = "PENDING" => doc.paid = 0
       /\ doc.status = "PARTIAL" => doc.pending > 0 /\ doc.paid > 0
  /\ doc.kind = "receivable" =>
       /\ doc.paid + doc.pending = doc.total
       /\ doc.status # "PARTIAL"
       /\ doc.pending = 0 /\ doc.total > 0 => doc.status = "PAID"
       /\ doc.status = "PAID" => doc.pending =< 0

AccountsAgree == \A a \in Existing : Agrees(acct[a])

(* While an account gets careful payments only, its installments add up to *)
(* what the account itself says is pending (to the cent that creation lets *)
(* a payable total differ), each is PAID when nothing of it is pending,    *)
(* and no NaN appears; also across overlapping requests and roll backs,    *)
(* since each writes a copy that adds up.                                  *)
InstallmentsAddUp ==
  \A a \in Existing \ careless :
    LET doc  == acct[a]
        owed == Owed(doc, [i \in DOMAIN doc.inst |-> i])
        off  == IF doc.kind = "payable" THEN 1 ELSE 0
    IN  doc.inst # <<>> =>
          /\ doc.pending \in (owed - off)..(owed + off)
          /\ \A i \in DOMAIN doc.inst :
               /\ doc.inst[i].pending \in 0..doc.inst[i].amount
               /\ doc.inst[i].status = "PAID" => doc.inst[i].pending = 0
               /\ doc.inst[i].pending = 0 =>
                    doc.inst[i].status \in {"PAID", "IN_REVIEW"}

(* An installment in review always has a contribution that says why, even  *)
(* if the process dies in the middle of a declaration or an old copy of    *)
(* the account is written back.                                            *)
Linked(a, i) ==
  {x \in Contribution : /\ contrib[x] # NoDoc
                        /\ contrib[x].account = a /\ contrib[x].inst = i}

InReviewBacked ==
  \A a \in Existing : \A i \in DOMAIN acct[a].inst :
    acct[a].inst[i].status = "IN_REVIEW" => Linked(a, i) # {}

(* When nothing is running and nothing went wrong, an installment is in    *)
(* review only while one of its contributions waits for the administrator  *)
(* or was refused: processing the last of them ends the review.            *)
ReviewEnds ==
  Settled /\ incidents = {} =>
    \A a \in Existing : \A i \in DOMAIN acct[a].inst :
      acct[a].inst[i].status = "IN_REVIEW" =>
        \E x \in Linked(a, i) : contrib[x].status # "PROCESSED"

(* Every amount that an account counts as paid has its financial record    *)
(* asked for, once, or a payment in progress about to ask for it: through  *)
(* the roll back of a payment whose cost centre does not exist and through *)
(* contributions.  A lost dispatch, a crash between the write and the      *)
(* commit, and a copy that overwrites another payment each break it.  And  *)
(* no more of a receivable account is answered with OK than was recorded;  *)
(* of a payable one it may be: its use case swallows the error after the   *)
(* roll back, and the controller answers as if it had been paid.           *)
UnderWay(a) ==
  LET mine == {q \in Request : req[q].step = "stored" /\ req[q].account = a}
  IN  SumFunction([q \in mine |-> req[q].amount])

RecordsMatch ==
  incidents \intersect {"lost", "crash", "stale"} = {} =>
    \A a \in Existing :
      /\ acct[a].paid = booked[a] + UnderWay(a)
      /\ acct[a].kind = "receivable" => answered[a] =< booked[a]
===============================================================================
