---------------------------- MODULE Payments_proofs ----------------------------
(***************************************************************************)
(* Every invariant of Payments is proved here for all constants: any       *)
(* number of accounts, contributions, installments and requests, payments  *)
(* that name any list of installments, and all faults.                     *)
(*                                                                         *)
(* None of them is inductive: a request writes the copy it read.  The      *)
(* proofs rest on four invariants:                                        *)
(*   Typed      documents have their types, a request holds a copy of an   *)
(*              account that exists, of the same kind and length;          *)
(*   FineInv    accounts and all copies of them agree, add up and show as  *)
(*              in review what a contribution declares;                    *)
(*   ReviewInv  what stands behind a review while nothing goes wrong.      *)
(*   RecordInv  what is paid is recorded or in the hands of a request.     *)
(* Sums and the loop of PayInstallment are recursive functions: what holds *)
(* of them is shown by the least counterexample, a set or a number.        *)
(***************************************************************************)
EXTENDS Payments, FiniteSetTheorems, SequenceTheorems, TLAPS

(***************************************************************************)
(* Sums over finite sets.                                                  *)
(***************************************************************************)
SumOf(g, S) == SumFunctionOnSet(g, S)

Solves(F, S, g) ==
  F = [s \in SUBSET S |-> IF s = {} THEN 0
                          ELSE LET x == CHOOSE x \in s : TRUE
                               IN  g[x] + F[s \ {x}]]

(* A set of numbers has a least element; a set of finite sets one that     *)
(* contains no other of them.                                              *)
LEMMA NatMin ==
  ASSUME NEW T, T \subseteq Nat, T # {}
  PROVE  \E n \in T : \A m \in T : n =< m
<1>1. PICK n \in T : \A m \in T : ~ (<<m, n>> \in OpToRel(<, Nat))
  BY NatLessThanWellFounded, WFMin
<1>2. \A m \in T : ~ (m < n) BY <1>1 DEF OpToRel
<1>3. QED BY <1>2

(* a finite set with a subset that fails has a smallest one  *)
LEMMA Smallest ==
  ASSUME NEW S, IsFiniteSet(S), NEW Bad, Bad \subseteq SUBSET S, Bad # {}
  PROVE  \E T \in Bad : \A U \in Bad : ~(U \subseteq T /\ U # T)
<1> DEFINE Sizes == {Cardinality(T) : T \in Bad}
<1>1. \A T \in Bad : IsFiniteSet(T) /\ Cardinality(T) \in Nat
  BY FS_Subset, FS_CardinalityType
<1>2. PICK n \in Sizes : \A m \in Sizes : n =< m
  <2>1. Sizes \subseteq Nat /\ Sizes # {} BY <1>1
  <2> HIDE DEF Sizes
  <2>2. QED BY <2>1, NatMin
<1>3. PICK T \in Bad : n = Cardinality(T) OBVIOUS
<1>4. ASSUME NEW U \in Bad, U \subseteq T, U # T PROVE FALSE
  <2>1. Cardinality(U) =< Cardinality(T) /\ Cardinality(U) # Cardinality(T)
    BY <1>1, <1>4, FS_Subset
  <2>2. Cardinality(T) =< Cardinality(U) BY <1>2, <1>3
  <2>3. QED BY <1>1, <2>1, <2>2
<1>5. QED BY <1>4

(* The equation at one set; it has one solution at most, and one at least. *)
LEMMA SolvesAt ==
  ASSUME NEW S, NEW g, NEW F, Solves(F, S, g), NEW s \in SUBSET S
  PROVE  /\ s = {} => F[s] = 0
         /\ s # {} => \E x \in s : x = (CHOOSE y \in s : TRUE) /\ F[s] = g[x] + F[s \ {x}]
<1>1. F[s] = IF s = {} THEN 0 ELSE LET x == CHOOSE x \in s : TRUE IN g[x] + F[s \ {x}]
  BY DEF Solves
<1>2. s # {} => (CHOOSE y \in s : TRUE) \in s OBVIOUS
<1>3. QED BY <1>1, <1>2

LEMMA SolvesUnique ==
  ASSUME NEW S, NEW g, NEW F, Solves(F, S, g),
         NEW T, NEW h, NEW G, Solves(G, T, h),
         NEW U, IsFiniteSet(U), U \subseteq S, U \subseteq T,
         \A x \in U : g[x] = h[x]
  PROVE  F[U] = G[U]
<1> DEFINE Bad == {s \in SUBSET U : F[s] # G[s]}
<1>1. SUFFICES ASSUME Bad # {} PROVE FALSE OBVIOUS
<1>2. PICK s \in Bad : \A u \in Bad : ~(u \subseteq s /\ u # s)
  <2>1. Bad \subseteq SUBSET U OBVIOUS
  <2> HIDE DEF Bad
  <2>2. QED BY <1>1, <2>1, Smallest
<1>3. s \in SUBSET S /\ s \in SUBSET T /\ F[s] # G[s] OBVIOUS
<1>4. s # {} BY <1>3, SolvesAt
<1>5. PICK x \in s : x = (CHOOSE y \in s : TRUE) /\ F[s] = g[x] + F[s \ {x}]
  BY <1>3, <1>4, SolvesAt
<1>6. G[s] = h[x] + G[s \ {x}]
  <2>1. PICK y \in s : y = (CHOOSE z \in s : TRUE) /\ G[s] = h[y] + G[s \ {y}]
    BY <1>3, <1>4, SolvesAt
  <2>2. QED BY <1>5, <2>1
<1>7. F[s \ {x}] = G[s \ {x}] BY <1>2
<1>8. QED BY <1>3, <1>5, <1>6, <1>7

LEMMA SolvesExists ==
  ASSUME NEW S, IsFiniteSet(S), NEW g
  PROVE  \E F : Solves(F, S, g)
<1> DEFINE Bad == {T \in SUBSET S : \A F : ~Solves(F, T, g)}
<1>1. SUFFICES ASSUME Bad # {} PROVE FALSE OBVIOUS
<1>2. PICK T \in Bad : \A U \in Bad : ~(U \subseteq T /\ U # T)
  <2>1. Bad \subseteq SUBSET S OBVIOUS
  <2> HIDE DEF Bad
  <2>2. QED BY <1>1, <2>1, Smallest
<1> DEFINE Of(U) == CHOOSE F : Solves(F, U, g)
           F == [s \in SUBSET T |-> IF s = {} THEN 0
                   ELSE LET x == CHOOSE x \in s : TRUE
                        IN  g[x] + Of(s \ {x})[s \ {x}]]
<1>3. ASSUME NEW U \in SUBSET T, U # T PROVE Solves(Of(U), U, g)
  <2>1. U \notin Bad BY <1>2, <1>3
  <2>2. \E G : Solves(G, U, g) BY <2>1
  <2>3. QED BY <2>2
<1> HIDE DEF Of
<1>4. ASSUME NEW s \in SUBSET T, s # T PROVE F[s] = Of(s)[s]
  <2>1. Solves(Of(s), s, g) BY <1>3, <1>4
  <2>2. CASE s = {} BY <2>1, <2>2, SolvesAt
  <2>3. CASE s # {}
    <3>1. PICK x \in s : x = (CHOOSE y \in s : TRUE)
                         /\ Of(s)[s] = g[x] + Of(s)[s \ {x}]
      BY <2>1, <2>3, SolvesAt
    <3>2. s \ {x} # T /\ s \ {x} \in SUBSET T OBVIOUS
    <3>3. Solves(Of(s \ {x}), s \ {x}, g) BY <1>3, <3>2
    <3>4. IsFiniteSet(s \ {x}) BY FS_Subset
    <3>5. Of(s)[s \ {x}] = Of(s \ {x})[s \ {x}]
      BY <2>1, <3>3, <3>4, SolvesUnique
    <3>6. F[s] = g[x] + Of(s \ {x})[s \ {x}] BY <2>3, <3>1
    <3>7. QED BY <3>1, <3>5, <3>6
  <2>4. QED BY <2>2, <2>3
<1>5. ASSUME NEW s \in SUBSET T, s # {}
      PROVE  LET x == CHOOSE x \in s : TRUE
             IN  g[x] + Of(s \ {x})[s \ {x}] = g[x] + F[s \ {x}]
  <2>1. (CHOOSE x \in s : TRUE) \in s BY <1>5
  <2> DEFINE u == s \ {CHOOSE x \in s : TRUE}
  <2>2. u \in SUBSET T /\ u # T BY <2>1
  <2> HIDE DEF u, F
  <2>3. F[u] = Of(u)[u] BY <1>4, <2>2
  <2>4. QED BY <2>3 DEF u
<1>6. Solves(F, T, g)
  <2>1. ASSUME NEW s \in SUBSET T
        PROVE  F[s] = IF s = {} THEN 0
                      ELSE LET x == CHOOSE x \in s : TRUE
                           IN  g[x] + F[s \ {x}]
    <3>1. F[s] = IF s = {} THEN 0
                 ELSE LET x == CHOOSE x \in s : TRUE
                      IN  g[x] + Of(s \ {x})[s \ {x}]
      OBVIOUS
    <3> HIDE DEF F
    <3>2. QED BY <1>5, <3>1
  <2>2. F = [s \in SUBSET T |-> F[s]] OBVIOUS
  <2> HIDE DEF F
  <2>3. QED BY <2>1, <2>2 DEF Solves
<1>7. QED BY <1>6

(* SumFunctionOnSet is the solution of the equation.                          *)
LEMMA SumIs ==
  ASSUME NEW S, IsFiniteSet(S), NEW g
  PROVE  \E F : Solves(F, S, g) /\ SumOf(g, S) = F[S]
<1> DEFINE Eq(F) == F = [s \in SUBSET S |-> IF s = {} THEN 0
                          ELSE LET x == CHOOSE x \in s : TRUE
                               IN  g[x] + F[s \ {x}]]
           G == CHOOSE F : Eq(F)
<1>1. PICK F : Eq(F)
  <2>1. PICK H : Solves(H, S, g) BY SolvesExists
  <2>2. Eq(H) BY <2>1 DEF Solves
  <2> HIDE DEF Eq
  <2>3. QED BY <2>2
<1>2. Eq(G) BY <1>1
<1>3. SumOf(g, S) = G[S] BY <1>2 DEF SumOf, SumFunctionOnSet, FoldFunctionOnSet, MapThenFoldSet
<1> HIDE DEF G
<1>4. Solves(G, S, g) BY <1>2 DEF Solves
<1>5. QED BY <1>3, <1>4

(* The sum over no element, and over what two functions agree on.          *)
LEMMA SumEmpty == \A g : SumOf(g, {}) = 0
<1> SUFFICES ASSUME NEW g PROVE SumOf(g, {}) = 0 OBVIOUS
<1>1. IsFiniteSet({}) BY FS_EmptySet
<1>2. PICK F : Solves(F, {}, g) /\ SumOf(g, {}) = F[{}] BY <1>1, SumIs
<1>3. QED BY <1>2, SolvesAt

LEMMA SumExt ==
  ASSUME NEW S, IsFiniteSet(S), NEW g, NEW h, \A x \in S : g[x] = h[x]
  PROVE  SumOf(g, S) = SumOf(h, S)
<1>1. PICK F : Solves(F, S, g) /\ SumOf(g, S) = F[S] BY SumIs
<1>2. PICK G : Solves(G, S, h) /\ SumOf(h, S) = G[S] BY SumIs
<1>3. S \subseteq S OBVIOUS
<1>4. Solves(F, S, g) /\ Solves(G, S, h) BY <1>1, <1>2
<1>5. F[S] = G[S] BY <1>3, <1>4, SolvesUnique
<1>6. QED BY <1>1, <1>2, <1>5

(* The sum over a set that is not empty: some element of it comes first.   *)
LEMMA SumStep ==
  ASSUME NEW S, IsFiniteSet(S), S # {}, NEW g
  PROVE  \E x \in S : SumOf(g, S) = g[x] + SumOf(g, S \ {x})
<1>1. PICK F : Solves(F, S, g) /\ SumOf(g, S) = F[S] BY SumIs
<1>2. PICK x \in S : F[S] = g[x] + F[S \ {x}] BY <1>1, SolvesAt
<1>3. IsFiniteSet(S \ {x}) BY FS_RemoveElement
<1>4. PICK G : Solves(G, S \ {x}, g) /\ SumOf(g, S \ {x}) = G[S \ {x}]
  BY <1>3, SumIs
<1>5. F[S \ {x}] = G[S \ {x}] BY <1>1, <1>3, <1>4, SolvesUnique
<1>6. QED BY <1>1, <1>2, <1>4, <1>5

(* A sum of integers is an integer.                                        *)
LEMMA SumType ==
  ASSUME NEW S, IsFiniteSet(S), NEW g, \A x \in S : g[x] \in Int
  PROVE  SumOf(g, S) \in Int
<1> DEFINE Bad == {T \in SUBSET S : SumOf(g, T) \notin Int}
<1>1. SUFFICES ASSUME Bad # {} PROVE FALSE OBVIOUS
<1>2. PICK T \in Bad : \A U \in Bad : ~(U \subseteq T /\ U # T)
  <2>1. Bad \subseteq SUBSET S OBVIOUS
  <2> HIDE DEF Bad
  <2>2. QED BY <1>1, <2>1, Smallest
<1>3. T # {} BY SumEmpty
<1>4. IsFiniteSet(T) BY FS_Subset
<1>5. PICK x \in T : SumOf(g, T) = g[x] + SumOf(g, T \ {x}) BY <1>3, <1>4, SumStep
<1>6. SumOf(g, T \ {x}) \in Int BY <1>2
<1>7. QED BY <1>5, <1>6

(* Any element may come first. *)
LEMMA SumRemove ==
  ASSUME NEW S, IsFiniteSet(S), NEW g, \A x \in S : g[x] \in Int, NEW x \in S
  PROVE  SumOf(g, S) = g[x] + SumOf(g, S \ {x})
<1> DEFINE Bad == {T \in SUBSET S :
                   \E z \in T : SumOf(g, T) # g[z] + SumOf(g, T \ {z})}
<1>1. SUFFICES ASSUME Bad # {} PROVE FALSE OBVIOUS
<1>2. PICK T \in Bad : \A U \in Bad : ~(U \subseteq T /\ U # T)
  <2>1. Bad \subseteq SUBSET S OBVIOUS
  <2> HIDE DEF Bad
  <2>2. QED BY <1>1, <2>1, Smallest
<1>3. PICK z \in T : SumOf(g, T) # g[z] + SumOf(g, T \ {z}) OBVIOUS
<1>4. \A U \in SUBSET S : IsFiniteSet(U) /\ SumOf(g, U) \in Int
  BY FS_Subset, SumType
<1>5. PICK y \in T : SumOf(g, T) = g[y] + SumOf(g, T \ {y}) BY <1>4, SumStep
<1>6. y # z BY <1>3, <1>5
<1>7. \A U \in SUBSET T : U # T => \A u \in U : SumOf(g, U) = g[u] + SumOf(g, U \ {u})
  BY <1>2
<1>8. SumOf(g, T \ {y}) = g[z] + SumOf(g, (T \ {y}) \ {z}) BY <1>6, <1>7
<1>9. SumOf(g, T \ {z}) = g[y] + SumOf(g, (T \ {z}) \ {y}) BY <1>6, <1>7
<1>10. SumOf(g, (T \ {y}) \ {z}) = SumOf(g, (T \ {z}) \ {y})
  <2>1. (T \ {y}) \ {z} = (T \ {z}) \ {y} OBVIOUS
  <2>2. QED BY <2>1
<1>11. g[y] \in Int /\ g[z] \in Int /\ SumOf(g, (T \ {z}) \ {y}) \in Int
  BY <1>4
<1>12. QED BY <1>3, <1>5, <1>8, <1>9, <1>10, <1>11

(* One element more.                                                       *)
LEMMA SumAdd ==
  ASSUME NEW S, IsFiniteSet(S), NEW g, NEW x, x \notin S,
         \A y \in S \union {x} : g[y] \in Int
  PROVE  SumOf(g, S \union {x}) = SumOf(g, S) + g[x]
<1>1. IsFiniteSet(S \union {x}) BY FS_AddElement
<1>2. x \in S \union {x} /\ (S \union {x}) \ {x} = S OBVIOUS
<1>3. SumOf(g, S \union {x}) = g[x] + SumOf(g, (S \union {x}) \ {x})
  BY <1>1, <1>2, SumRemove
<1>4. SumOf(g, (S \union {x}) \ {x}) = SumOf(g, S) BY <1>2
<1>5. SumOf(g, S) \in Int /\ g[x] \in Int BY SumType
<1>6. QED BY <1>3, <1>4, <1>5
-----------------------------------------------------------------------------
(***************************************************************************)
(* The loop over the installments named.                                   *)
(***************************************************************************)
Loops(f, insts, list, amount, m) ==
  f = [n \in 0..m |-> IF n = 0 THEN [insts |-> insts, left |-> amount]
                      ELSE PayNext(f[n - 1], list[n])]

(* What the loop starts with and each turn hands on, it ends with.         *)
LEMMA LoopExists ==
  ASSUME NEW insts, NEW list, NEW amount, NEW m \in Nat
  PROVE  \E f : Loops(f, insts, list, amount, m)
<1>. DEFINE Bad == {k \in Nat : \A f : ~Loops(f, insts, list, amount, k)}
            s0  == [insts |-> insts, left |-> amount]
<1>1. SUFFICES ASSUME Bad # {} PROVE FALSE OBVIOUS
<1>2. PICK k \in Bad : \A j \in Bad : k =< j
  <2>1. Bad \subseteq Nat OBVIOUS
  <2>. HIDE DEF Bad
  <2>2. QED BY <1>1, <2>1, NatMin
<1>3. CASE k = 0
  <2>. DEFINE f == [n \in 0..0 |-> s0]
  <2>1. f = [n \in 0..0 |-> IF n = 0 THEN s0 ELSE PayNext(f[n - 1], list[n])]
    OBVIOUS
  <2>. HIDE DEF f
  <2>2. Loops(f, insts, list, amount, 0) BY <2>1 DEF Loops
  <2>3. QED BY <1>3, <2>2
<1>4. CASE k # 0
  <2>1. k - 1 \in Nat /\ k - 1 \notin Bad BY <1>2, <1>4
  <2>2. PICK f : Loops(f, insts, list, amount, k - 1) BY <2>1
  <2>. DEFINE last == PayNext(f[k - 1], list[k])
              g == [n \in 0..k |-> IF n = k THEN last ELSE f[n]]
  <2>3. ASSUME NEW n \in 0..k
        PROVE  g[n] = IF n = 0 THEN s0 ELSE PayNext(g[n - 1], list[n])
    <3>1. CASE n = k
      <4>1. g[n] = last /\ g[n - 1] = f[k - 1] BY <1>4, <3>1
      <4>2. QED BY <1>4, <3>1, <4>1
    <3>2. CASE n # k
      <4>1. n \in 0..(k - 1) /\ g[n] = f[n] BY <3>2
      <4>2. f[n] = IF n = 0 THEN s0 ELSE PayNext(f[n - 1], list[n])
        BY <2>2, <4>1 DEF Loops
      <4>3. n # 0 => g[n - 1] = f[n - 1] BY <3>2
      <4>4. QED BY <4>1, <4>2, <4>3
    <3>3. QED BY <3>1, <3>2
  <2>4. g = [n \in 0..k |-> g[n]] OBVIOUS
  <2>. HIDE DEF g
  <2>5. Loops(g, insts, list, amount, k) BY <2>3, <2>4 DEF Loops
  <2>6. QED BY <2>5
<1>5. QED BY <1>3, <1>4

LEMMA PayAllIn ==
  ASSUME NEW insts, NEW list, Len(list) \in Nat, NEW amount, NEW T,
         [insts |-> insts, left |-> amount] \in T[0],
         \A n \in 1..Len(list) : \A st \in T[n - 1] :
           PayNext(st, list[n]) \in T[n]
  PROVE  \E st \in T[Len(list)] : PayAll(insts, list, amount) = st.insts
<1>. DEFINE s0 == [insts |-> insts, left |-> amount]
            Eq(f) == f = [n \in 0..Len(list) |-> IF n = 0 THEN s0
                                  ELSE PayNext(f[n - 1], list[n])]
            loop == CHOOSE f : Eq(f)
<1>1. PICK f : Eq(f)
  <2>1. PICK f : Loops(f, insts, list, amount, Len(list)) BY LoopExists
  <2>2. Eq(f) BY <2>1 DEF Loops
  <2>. HIDE DEF Eq
  <2>3. QED BY <2>2
<1>2. Eq(loop) BY <1>1
<1>3. PayAll(insts, list, amount) = loop[Len(list)].insts BY DEF PayAll
<1>. HIDE DEF loop
<1>4. \A n \in 0..Len(list) :
        loop[n] = IF n = 0 THEN s0 ELSE PayNext(loop[n - 1], list[n])
  BY <1>2
<1>. DEFINE Bad == {n \in 0..Len(list) : loop[n] \notin T[n]}
<1>5. Bad = {}
  <2>1. SUFFICES ASSUME Bad # {} PROVE FALSE OBVIOUS
  <2>2. PICK n \in Bad : \A m \in Bad : n =< m
    <3>1. Bad \subseteq Nat OBVIOUS
    <3>. HIDE DEF Bad
    <3>2. QED BY <2>1, <3>1, NatMin
  <2>3. n # 0 BY <1>4
  <2>4. n - 1 \in 0..Len(list) /\ n - 1 \notin Bad BY <2>2, <2>3
  <2>5. loop[n - 1] \in T[n - 1] BY <2>4
  <2>6. QED BY <1>4, <2>3, <2>5
<1>6. loop[Len(list)] \in T[Len(list)] BY <1>5
<1>7. QED BY <1>3, <1>6

(* One turn, on an installment that exists.                                *)
LEMMA PayTyped ==
  ASSUME NEW inst \in InstallmentDoc, NEW amount \in Int \union {Nan}
  PROVE  LET r == PayInstallment(inst, amount)
         IN /\ r.inst \in InstallmentDoc /\ r.left \in Int \union {Nan}
            /\ r.inst.status # "IN_REVIEW" /\ r.inst.amount = inst.amount
<1>. DEFINE due  == IF inst.status = "PENDING" THEN inst.amount ELSE inst.pending
            rest == Rest(inst, amount)
            paid == IF Exceeds(amount, inst.pending) THEN inst.amount
                    ELSE IF rest = Nan THEN amount ELSE amount + rest
            status == IF Covers(amount, due) THEN "PAID" ELSE "PARTIAL"
            new == [inst EXCEPT !.status = status, !.pending = rest, !.paid = paid]
            r == PayInstallment(inst, amount)
<1>1. inst.amount \in Nat \ {0} /\ inst.paid \in Int \union {Nan}
      /\ inst.pending \in Nat \union {Nan}
      /\ inst.status \in {"PENDING", "PARTIAL", "PAID", "IN_REVIEW"}
  BY DEF InstallmentDoc
<1>2. rest \in Nat \union {Nan} /\ (rest # Nan => amount \in Int)
  BY <1>1, NanAssumption DEF Rest, Exceeds, Minus
<1>3. Left(inst, amount) \in Int \union {Nan}
  BY <1>1, NanAssumption DEF Left, Minus
<1>4. paid \in Int \union {Nan} BY <1>1, <1>2
<1>5. CASE inst.status = "PAID"
  BY <1>5 DEF PayInstallment
<1>6. CASE inst.status # "PAID"
  <2>1. r = [inst |-> new, left |-> Left(inst, amount)]
    BY <1>6 DEF PayInstallment
  <2>2. status \in {"PAID", "PARTIAL"} OBVIOUS
  <2>. HIDE DEF paid, rest, status, r
  <2>3. new \in InstallmentDoc /\ new.status = status /\ new.amount = inst.amount
    BY <1>1, <1>2, <1>4, <2>2 DEF InstallmentDoc
  <2>. HIDE DEF new
  <2>4. /\ r.inst \in InstallmentDoc /\ r.left \in Int \union {Nan}
        /\ r.inst.status # "IN_REVIEW" /\ r.inst.amount = inst.amount
    BY <1>3, <2>1, <2>2, <2>3
  <2>5. QED BY <2>4 DEF r
<1>7. QED BY <1>5, <1>6

LEMMA PayAllTyped ==
  ASSUME NEW insts \in Seq(InstallmentDoc), NEW list \in Seq(Installment),
         NEW amount \in Nat, \A n \in DOMAIN list : list[n] \in DOMAIN insts
  PROVE  LET new == PayAll(insts, list, amount)
         IN /\ new \in Seq(InstallmentDoc) /\ Len(new) = Len(insts)
            /\ \A i \in DOMAIN insts : new[i].status = "IN_REVIEW" =>
                 insts[i].status = "IN_REVIEW" /\ \A n \in DOMAIN list : list[n] # i
<1>. DEFINE OK(s, n) == /\ s \in Seq(InstallmentDoc) /\ Len(s) = Len(insts)
                        /\ \A i \in DOMAIN insts : s[i].status = "IN_REVIEW" =>
                             insts[i].status = "IN_REVIEW"
                             /\ \A k \in 1..n : list[k] # i
            T == [n \in 0..Len(list) |->
                    {st \in [insts : Seq(InstallmentDoc), left : Int \union {Nan}] :
                       OK(st.insts, n)}]
<1>1. Len(list) \in Nat /\ DOMAIN list = 1..Len(list) OBVIOUS
<1>2. [insts |-> insts, left |-> amount] \in T[0] BY <1>1
<1>3. ASSUME NEW n \in 1..Len(list), NEW st \in T[n - 1]
      PROVE  PayNext(st, list[n]) \in T[n]
  <2>1. n - 1 \in 0..Len(list) /\ n \in 0..Len(list) BY <1>1
  <2>2. /\ st \in [insts : Seq(InstallmentDoc), left : Int \union {Nan}]
        /\ OK(st.insts, n - 1)
    BY <2>1
  <2>. DEFINE i == list[n]
              r == PayInstallment(st.insts[i], st.left)
              s == [st.insts EXCEPT ![i] = r.inst]
  <2>3. i \in DOMAIN insts /\ DOMAIN insts = DOMAIN st.insts
    <3>1. i \in DOMAIN insts BY <1>1
    <3>2. DOMAIN insts = DOMAIN st.insts BY <2>2
    <3>3. QED BY <3>1, <3>2
  <2>4. st.insts[i] \in InstallmentDoc /\ st.left \in Int \union {Nan} BY <2>2, <2>3
  <2>5. /\ r.inst \in InstallmentDoc /\ r.left \in Int \union {Nan}
        /\ r.inst.status # "IN_REVIEW"
    BY <2>4, PayTyped
  <2>6. PayNext(st, i) = [insts |-> s, left |-> r.left] BY DEF PayNext
  <2>. HIDE DEF r
  <2>7. s \in Seq(InstallmentDoc) /\ Len(s) = Len(insts) BY <2>2, <2>5
  <2>8. ASSUME NEW j \in DOMAIN insts, s[j].status = "IN_REVIEW"
        PROVE  insts[j].status = "IN_REVIEW" /\ \A k \in 1..n : list[k] # j
    <3>1. j # i /\ s[j] = st.insts[j] BY <2>2, <2>3, <2>5, <2>8
    <3>2. insts[j].status = "IN_REVIEW" /\ \A k \in 1..(n - 1) : list[k] # j
      BY <2>2, <2>8, <3>1
    <3>3. \A k \in 1..n : k \in 1..(n - 1) \/ k = n BY <1>1
    <3>4. QED BY <3>1, <3>2, <3>3
  <2>9. OK(s, n) BY <2>7, <2>8
  <2>. HIDE DEF OK, s
  <2>10. PayNext(st, i) \in {t \in [insts : Seq(InstallmentDoc), left : Int \union {Nan}] :
                               OK(t.insts, n)}
    BY <2>5, <2>6, <2>7, <2>9
  <2>11. QED BY <2>1, <2>10
<1>. HIDE DEF T
<1>4. PICK st \in T[Len(list)] : PayAll(insts, list, amount) = st.insts
  BY <1>1, <1>2, <1>3, PayAllIn
<1>5. OK(st.insts, Len(list)) BY <1>1, <1>4 DEF T
<1>6. QED BY <1>1, <1>4, <1>5
-----------------------------------------------------------------------------
(***************************************************************************)
(* What is written: types, and total, paid, pending and status.            *)
(***************************************************************************)
SameShape(d, e) == d.kind = e.kind /\ Len(d.inst) = Len(e.inst)

LEMMA Fields ==
  ASSUME NEW doc \in AccountDoc
  PROVE  /\ doc.kind \in {"payable", "receivable"}
         /\ doc.total \in Nat /\ doc.paid \in Nat /\ doc.pending \in Int
         /\ doc.status \in {"PENDING", "PARTIAL", "PAID"}
         /\ doc.inst \in Seq(InstallmentDoc) /\ DOMAIN doc.inst = 1..Len(doc.inst)
         /\ Len(doc.inst) \in Nat
         /\ doc = [kind |-> doc.kind, total |-> doc.total, paid |-> doc.paid,
                   pending |-> doc.pending, status |-> doc.status, inst |-> doc.inst]
<1>1. doc.inst \in Seq(InstallmentDoc) BY DEF AccountDoc
<1>2. DOMAIN doc.inst = 1..Len(doc.inst) /\ Len(doc.inst) \in Nat BY <1>1
<1>3. QED BY <1>1, <1>2 DEF AccountDoc

LEMMA UpdateGood ==
  ASSUME NEW doc \in AccountDoc, NEW amount \in Nat \ {0}
  PROVE  LET new == UpdateAmount(doc, amount)
         IN /\ new \in AccountDoc
            /\ new.kind = doc.kind /\ new.inst = doc.inst
            /\ new.total = doc.total /\ new.paid = doc.paid + amount
            /\ new.pending = IF doc.kind = "payable" /\ doc.pending - amount < 0
                             THEN 0 ELSE doc.pending - amount
            /\ Agrees(doc) => Agrees(new)
<1>. DEFINE new     == UpdateAmount(doc, amount)
            pending == doc.pending - amount
            status  == IF doc.kind = "receivable"
                       THEN IF pending = 0 THEN "PAID" ELSE doc.status
                       ELSE IF pending =< 0 THEN "PAID"
                       ELSE IF pending < doc.total THEN "PARTIAL" ELSE "PENDING"
            left    == IF doc.kind = "payable" /\ pending < 0 THEN 0 ELSE pending
<1>1. /\ doc.kind \in {"payable", "receivable"}
      /\ doc.total \in Nat /\ doc.paid \in Nat /\ doc.pending \in Int
      /\ doc.status \in {"PENDING", "PARTIAL", "PAID"}
  BY Fields
<1>2. new = [doc EXCEPT !.paid = doc.paid + amount, !.status = status,
                        !.pending = left]
  BY DEF UpdateAmount
<1>3. /\ new.kind = doc.kind /\ new.total = doc.total
      /\ new.paid = doc.paid + amount /\ new.pending = left
      /\ new.status = status /\ new.inst = doc.inst
      /\ new \in AccountDoc
  <2>1. left \in Int /\ status \in {"PENDING", "PARTIAL", "PAID"} BY <1>1
  <2>2. doc.paid + amount \in Nat BY <1>1
  <2>. HIDE DEF left, status, new
  <2>3. QED BY <1>2, <2>1, <2>2 DEF AccountDoc
<1>4. new \in AccountDoc BY <1>3
<1>. HIDE DEF new
<1>5. ASSUME doc.kind = "payable", Agrees(doc) PROVE Agrees(new)
  BY <1>1, <1>3, <1>5 DEF Agrees
<1>6. ASSUME doc.kind = "receivable", Agrees(doc) PROVE Agrees(new)
  BY <1>1, <1>3, <1>6 DEF Agrees
<1>7. Agrees(doc) => Agrees(new) BY <1>1, <1>5, <1>6
<1>8. QED BY <1>3, <1>4, <1>7 DEF new

(* Agrees looks at the amounts only.                                       *)
LEMMA AgreesKept ==
  ASSUME NEW d, NEW e, e.kind = d.kind, e.total = d.total, e.paid = d.paid,
         e.pending = d.pending, e.status = d.status, Agrees(d)
  PROVE  Agrees(e)
  BY DEF Agrees

LEMMA PaidGood ==
  ASSUME NEW doc \in AccountDoc, NEW amount \in Nat \ {0},
         NEW list \in Seq(Installment),
         \A n \in DOMAIN list : list[n] \in DOMAIN doc.inst
  PROVE  LET new == Paid(doc, list, amount)
         IN /\ new \in AccountDoc /\ SameShape(new, doc)
            /\ new.inst = PayAll(doc.inst, list, amount)
            /\ new.total = doc.total /\ new.paid = doc.paid + amount
            /\ new.pending = IF doc.kind = "payable" /\ doc.pending - amount < 0
                             THEN 0 ELSE doc.pending - amount
            /\ Agrees(doc) => Agrees(new)
<1>. DEFINE up  == UpdateAmount(doc, amount)
            all == PayAll(doc.inst, list, amount)
            new == Paid(doc, list, amount)
<1>1. /\ up \in AccountDoc
      /\ up.kind = doc.kind /\ up.inst = doc.inst
      /\ up.total = doc.total /\ up.paid = doc.paid + amount
      /\ up.pending = IF doc.kind = "payable" /\ doc.pending - amount < 0
                      THEN 0 ELSE doc.pending - amount
      /\ Agrees(doc) => Agrees(up)
  BY UpdateGood
<1>2. all \in Seq(InstallmentDoc) /\ Len(all) = Len(doc.inst)
  BY Fields, PayAllTyped
<1>3. new = [up EXCEPT !.inst = all] BY <1>1 DEF Paid
<1>. HIDE DEF up, all, new
<1>4. /\ new.kind = up.kind /\ new.total = up.total /\ new.paid = up.paid
      /\ new.pending = up.pending /\ new.status = up.status /\ new.inst = all
      /\ new \in AccountDoc
  BY <1>1, <1>2, <1>3 DEF AccountDoc
<1>5. Agrees(up) => Agrees(new) BY <1>4, AgreesKept
<1>6. SameShape(new, doc) BY <1>1, <1>2, <1>4 DEF SameShape
<1>7. QED BY <1>1, <1>4, <1>5, <1>6 DEF new, all

LEMMA InReviewGood ==
  ASSUME NEW doc \in AccountDoc, NEW i \in DOMAIN doc.inst
  PROVE  LET new == InReview(doc, i)
         IN /\ new \in AccountDoc /\ SameShape(new, doc)
            /\ new.total = doc.total /\ new.paid = doc.paid
            /\ new.pending = doc.pending
            /\ \A j \in DOMAIN doc.inst \ {i} : new.inst[j] = doc.inst[j]
            /\ new.inst[i] = [doc.inst[i] EXCEPT !.status = "IN_REVIEW"]
            /\ Agrees(doc) => Agrees(new)
<1>. DEFINE one == [doc.inst[i] EXCEPT !.status = "IN_REVIEW"]
            all == [doc.inst EXCEPT ![i] = one]
            new == InReview(doc, i)
<1>1. new = [doc EXCEPT !.inst = all] BY DEF InReview
<1>2. doc.inst[i] \in InstallmentDoc BY Fields
<1>3. one \in InstallmentDoc BY <1>2 DEF InstallmentDoc
<1>4. all \in Seq(InstallmentDoc) /\ Len(all) = Len(doc.inst)
      /\ all[i] = one /\ \A j \in DOMAIN doc.inst \ {i} : all[j] = doc.inst[j]
  BY <1>3, Fields
<1>. HIDE DEF one, all, new
<1>5. /\ new.kind = doc.kind /\ new.total = doc.total /\ new.paid = doc.paid
      /\ new.pending = doc.pending /\ new.status = doc.status /\ new.inst = all
      /\ new \in AccountDoc
  BY <1>1, <1>4 DEF AccountDoc
<1>6. Agrees(doc) => Agrees(new) BY <1>5, AgreesKept
<1>7. SameShape(new, doc) BY <1>4, <1>5 DEF SameShape
<1>8. QED BY <1>4, <1>5, <1>6, <1>7 DEF new, one

LEMMA NewAccountGood ==
  ASSUME NEW prices \in PriceLists, NEW total \in Nat,
         NEW kind \in {"payable", "receivable"}
  PROVE  LET new == NewAccount(kind, prices, total)
         IN /\ new \in AccountDoc /\ Agrees(new)
            /\ new.kind = kind /\ new.total = total
            /\ new.paid = 0 /\ new.pending = total
            /\ DOMAIN new.inst = DOMAIN prices
            /\ \A i \in DOMAIN prices :
                 /\ prices[i] \in Nat \ {0}
                 /\ new.inst[i].amount = prices[i] /\ new.inst[i].pending = prices[i]
                 /\ new.inst[i].status = "PENDING"
<1>. DEFINE insts == NewInstallments(prices)
            new == NewAccount(kind, prices, total)
<1>1. PICK n \in {0} \union Installment : prices \in [1..n -> Price]
  BY DEF PriceLists
<1>2. n \in Nat BY InstallmentAssumption
<1>3. \A i \in 1..n : prices[i] \in Nat \ {0} BY <1>1, AmountAssumption
<1>4. insts = [i \in 1..n |-> [amount |-> prices[i], paid |-> 0,
                               pending |-> prices[i], status |-> "PENDING"]]
  BY <1>1 DEF NewInstallments
<1>5. insts \in Seq(InstallmentDoc)
  <2>1. \A i \in 1..n : insts[i] \in InstallmentDoc
    BY <1>3, <1>4 DEF InstallmentDoc
  <2>2. insts \in [1..n -> InstallmentDoc] BY <1>4, <2>1
  <2>3. QED BY <1>2, <2>2
<1>. HIDE DEF insts
<1>6. new = [kind |-> kind, total |-> total, paid |-> 0, pending |-> total,
             status |-> "PENDING", inst |-> insts]
  BY DEF NewAccount, insts
<1>. HIDE DEF new
<1>7. new \in AccountDoc BY <1>5, <1>6 DEF AccountDoc
<1>8. Agrees(new) BY <1>6 DEF Agrees
<1>9. new.inst = insts /\ DOMAIN insts = DOMAIN prices BY <1>1, <1>4, <1>6
<1>10. \A i \in DOMAIN prices :
         /\ prices[i] \in Nat \ {0}
         /\ insts[i].amount = prices[i] /\ insts[i].pending = prices[i]
         /\ insts[i].status = "PENDING"
  BY <1>1, <1>3, <1>4
<1>11. QED BY <1>6, <1>7, <1>8, <1>9, <1>10 DEF new
-----------------------------------------------------------------------------
(***************************************************************************)
(* What the stored documents are, and what a request has in hand: an       *)
(* account that exists, with a copy of the same kind and length; a         *)
(* contribution that exists, with a copy that names the same installment.  *)
(***************************************************************************)
Copying  == {"paying", "stored", "declaring", "declared"}
Deciding == {"deciding", "decided"}

SameLink(x, y) == x.account = y.account /\ x.inst = y.inst

LinkOK(A, x) ==
  x.account # NoAccount =>
    /\ x.account \in Account /\ x.inst \in Installment
    /\ A[x.account] # NoDoc /\ A[x.account].kind = "receivable"
    /\ x.inst \in DOMAIN A[x.account].inst

CopyOK(A, s) ==
  /\ s.account \in Account /\ A[s.account] # NoDoc
  /\ s.doc \in AccountDoc /\ SameShape(s.doc, A[s.account])
  /\ s.list \in Seq(Installment) \ {<<>>} /\ s.amount \in Nat \ {0}
  /\ s.doc.kind = "receivable" => s.center
  /\ s.step \in {"declaring", "declared"} =>
       s.doc.kind = "receivable" /\ Head(s.list) \in DOMAIN s.doc.inst

DecisionOK(C, s) ==
  /\ s.from \in Contribution /\ C[s.from] # NoDoc
  /\ s.seen \in ContributionDoc /\ SameLink(s.seen, C[s.from])

HandOK(A, C, s) ==
  /\ s \in Session
  /\ s.step \in Copying => CopyOK(A, s)
  /\ s.step \in Deciding => DecisionOK(C, s)

Typed ==
  /\ TypeOK
  /\ \A x \in Contribution : contrib[x] # NoDoc => LinkOK(acct, contrib[x])
  /\ \A q \in Request : HandOK(acct, contrib, req[q])

(* Accounts keep kind and length, contributions what they are for.         *)
Grown ==
  /\ acct' \in [Account -> AccountDoc \union {NoDoc}]
  /\ \A a \in Account : acct[a] # NoDoc =>
       acct'[a] # NoDoc /\ SameShape(acct'[a], acct[a])
  /\ contrib' \in [Contribution -> ContributionDoc \union {NoDoc}]
  /\ \A x \in Contribution :
       /\ contrib[x] # NoDoc => contrib'[x] # NoDoc /\ SameLink(contrib'[x], contrib[x])
       /\ contrib'[x] # NoDoc =>
            contrib[x] # NoDoc \/ LinkOK(acct', contrib'[x])

LEMMA GrownKeeps ==
  ASSUME Typed, Grown
  PROVE  /\ \A x \in Contribution : contrib'[x] # NoDoc => LinkOK(acct', contrib'[x])
         /\ \A s : HandOK(acct, contrib, s) => HandOK(acct', contrib', s)
<1>1. acct \in [Account -> AccountDoc \union {NoDoc}] BY DEF Typed, TypeOK
<1>2. ASSUME NEW a \in Account, acct[a] # NoDoc
      PROVE  /\ acct'[a] # NoDoc /\ acct'[a].kind = acct[a].kind
             /\ Len(acct'[a].inst) = Len(acct[a].inst)
             /\ DOMAIN acct'[a].inst = DOMAIN acct[a].inst
  <2>1. acct'[a] # NoDoc /\ SameShape(acct'[a], acct[a]) BY <1>2 DEF Grown
  <2>2. acct[a] \in AccountDoc /\ acct'[a] \in AccountDoc BY <1>1, <1>2, <2>1 DEF Grown
  <2>3. DOMAIN acct'[a].inst = 1..Len(acct'[a].inst)
        /\ DOMAIN acct[a].inst = 1..Len(acct[a].inst)
    BY <2>2, Fields
  <2>4. QED BY <2>1, <2>3 DEF SameShape
<1>3. \A x, y : LinkOK(acct, x) /\ SameLink(y, x) => LinkOK(acct', y)
  BY <1>2 DEF LinkOK, SameLink
<1>4. \A x \in Contribution : contrib'[x] # NoDoc => LinkOK(acct', contrib'[x])
  BY <1>3 DEF Grown, Typed
<1>5. \A s : CopyOK(acct, s) => CopyOK(acct', s)
  BY <1>2 DEF CopyOK, SameShape
<1>6. \A s : DecisionOK(contrib, s) => DecisionOK(contrib', s)
  BY DEF DecisionOK, SameLink, Grown
<1>7. QED BY <1>4, <1>5, <1>6 DEF HandOK

(* The counters and histories.                                             *)
Counted ==
  /\ booked \in [Account \union {NoAccount} -> Nat]
  /\ credited \in Nat /\ answered \in [Account -> Nat]
  /\ careless \subseteq Account /\ incidents \subseteq Incident
  /\ used \in [requests : Nat, losses : Nat, crashes : Nat, fails : Nat]

LEMMA TypedKept ==
  ASSUME Typed, Grown, Counted', DOMAIN req' = Request, req' = [q \in Request |-> req'[q]],
         \A q \in Request : req'[q] = req[q] \/ HandOK(acct', contrib', req'[q])
  PROVE  Typed'
<1>1. \A q \in Request : HandOK(acct', contrib', req'[q])
  BY GrownKeeps DEF Typed
<1>2. req' \in [Request -> Session] BY <1>1 DEF HandOK
<1>3. TypeOK' BY <1>2 DEF TypeOK, Grown, Counted
<1>4. QED BY <1>1, <1>3, GrownKeeps DEF Typed

(* Nothing, or one account, is written.                                    *)
LEMMA GrownSame ==
  ASSUME Typed, UNCHANGED <<acct, contrib>>
  PROVE  Grown
  BY DEF Typed, TypeOK, Grown, SameShape, SameLink

LEMMA GrownWrite ==
  ASSUME Typed, contrib' = contrib, NEW a \in Account, NEW doc \in AccountDoc,
         acct' = [acct EXCEPT ![a] = doc],
         acct[a] = NoDoc \/ SameShape(doc, acct[a])
  PROVE  Grown
  BY DocAssumption DEF Typed, TypeOK, Grown, SameShape, SameLink

LEMMA CountedIs == ASSUME Typed PROVE Counted
  BY DEF Typed, TypeOK, Counted

LEMMA IdleOK ==
  /\ Idle.step = "idle" /\ Idle.account = NoAccount
  /\ \A A, C : HandOK(A, C, Idle)
<1>1. /\ Idle.step = "idle" /\ Idle.account = NoAccount BY DEF Idle
<1>2. Idle \in Session BY DEF Idle, Session
<1>3. QED BY <1>1, <1>2 DEF HandOK, Copying, Deciding

(* What a request that works on an account or a contribution has.          *)
LEMMA HandFacts ==
  ASSUME Typed, NEW q \in Request
  PROVE  /\ req = [p \in Request |-> req[p]] /\ DOMAIN req = Request
         /\ req[q] \in Session
         /\ req[q].step \in Copying =>
              CopyOK(acct, req[q]) /\ acct[req[q].account] \in AccountDoc
         /\ req[q].step \in Deciding => DecisionOK(contrib, req[q])
<1>1. HandOK(acct, contrib, req[q]) BY DEF Typed
<1>2. req \in [Request -> Session] BY DEF Typed, TypeOK
<1>3. acct \in [Account -> AccountDoc \union {NoDoc}] BY DEF Typed, TypeOK
<1>4. QED BY <1>1, <1>2, <1>3 DEF HandOK, CopyOK

(* A request that goes on to the step after, with all it has in hand.      *)
LEMMA StepOn ==
  ASSUME NEW s \in Session,
         NEW step \in {"idle", "paying", "stored", "declaring", "declared",
                       "deciding", "decided"}
  PROVE  LET t == [s EXCEPT !.step = step]
         IN /\ t \in Session /\ t.step = step /\ t.account = s.account
            /\ t.doc = s.doc /\ t.list = s.list /\ t.amount = s.amount
            /\ t.center = s.center /\ t.from = s.from /\ t.seen = s.seen
  BY DEF Session

LEMMA NextStepOK ==
  ASSUME NEW A, NEW C, NEW s, HandOK(A, C, s), NEW step,
         \/ s.step = "paying" /\ step = "stored"
         \/ s.step = "declaring" /\ step = "declared"
         \/ s.step = "deciding" /\ step = "decided"
  PROVE  HandOK(A, C, [s EXCEPT !.step = step])
<1>. DEFINE t == [s EXCEPT !.step = step]
<1>1. /\ t \in Session /\ t.step = step /\ t.account = s.account
      /\ t.doc = s.doc /\ t.list = s.list /\ t.amount = s.amount
      /\ t.center = s.center /\ t.from = s.from /\ t.seen = s.seen
  <2>1. s \in Session BY DEF HandOK
  <2>2. step \in {"idle", "paying", "stored", "declaring", "declared",
                  "deciding", "decided"}
    OBVIOUS
  <2>3. QED BY <2>1, <2>2, StepOn
<1>. HIDE DEF t
<1>2. s.step \in Copying => CopyOK(A, t)
  BY <1>1 DEF HandOK, CopyOK, Copying
<1>3. s.step \in Deciding => DecisionOK(C, t)
  BY <1>1 DEF HandOK, DecisionOK
<1>4. HandOK(A, C, t) BY <1>1, <1>2, <1>3 DEF HandOK, Copying, Deciding
<1>5. QED BY <1>4 DEF t

(* A request that has just read an account.                                *)
LEMMA CopyFacts ==
  ASSUME Typed, NEW a \in Account, acct[a] # NoDoc,
         NEW step \in {"paying", "declaring"},
         NEW list \in Seq(Installment) \ {<<>>}, NEW amount \in Nat \ {0},
         NEW center \in BOOLEAN, acct[a].kind = "receivable" => center,
         step = "declaring" =>
           acct[a].kind = "receivable" /\ Head(list) \in DOMAIN acct[a].inst
  PROVE  LET s == CopyOf(a, step, list, amount, center)
         IN /\ HandOK(acct, contrib, s)
            /\ s.step = step /\ s.account = a /\ s.doc = acct[a]
            /\ s.list = list /\ s.amount = amount
<1>. DEFINE s == CopyOf(a, step, list, amount, center)
<1>1. acct[a] \in AccountDoc BY DEF Typed, TypeOK
<1>2. /\ s \in Session
      /\ s.step = step /\ s.account = a /\ s.doc = acct[a]
      /\ s.list = list /\ s.amount = amount /\ s.center = center
  BY <1>1 DEF CopyOf, Idle, Session
<1>. HIDE DEF s
<1>3. CopyOK(acct, s) BY <1>1, <1>2 DEF CopyOK, SameShape
<1>4. HandOK(acct, contrib, s) BY <1>2, <1>3 DEF HandOK, Deciding
<1>5. QED BY <1>2, <1>4 DEF s
-----------------------------------------------------------------------------
(***************************************************************************)
(* Every step keeps documents and requests as they should be.              *)
(***************************************************************************)
LEMMA InitTyped == ASSUME Init PROVE Typed
<1>1. TypeOK
  <2>1. Idle \in Session BY DEF Idle, Session
  <2>2. QED BY <2>1 DEF Init, TypeOK
<1>2. QED BY <1>1, IdleOK DEF Init, Typed

LEMMA OneRequest ==
  ASSUME Typed, Grown, Counted', NEW q \in Request, NEW t,
         req' = [req EXCEPT ![q] = t], HandOK(acct', contrib', t)
  PROVE  Typed'
<1>1. req = [p \in Request |-> req[p]] BY HandFacts
<1>2. req' = [p \in Request |-> req'[p]] /\ DOMAIN req' = Request BY <1>1
<1>3. \A p \in Request : req'[p] = req[p] \/ HandOK(acct', contrib', req'[p])
  BY <1>1
<1>4. QED BY <1>2, <1>3, TypedKept

LEMMA FinishTyped ==
  ASSUME Typed, Grown, Counted', NEW q \in Request, Finish(q)
  PROVE  Typed'
  BY IdleOK, OneRequest DEF Finish

LEMMA NoRequest ==
  ASSUME Typed, Grown, Counted', req' = req
  PROVE  Typed'
<1>1. req = [p \in Request |-> req[p]] /\ DOMAIN req = Request
  BY DEF Typed, TypeOK
<1>2. QED BY <1>1, TypedKept

(* What each kind of step does to the counters.                            *)
LEMMA UsedTyped ==
  ASSUME Typed
  PROVE  /\ [used EXCEPT !.requests = @ + 1] \in
              [requests : Nat, losses : Nat, crashes : Nat, fails : Nat]
         /\ [used EXCEPT !.crashes = @ + 1] \in
              [requests : Nat, losses : Nat, crashes : Nat, fails : Nat]
         /\ [used EXCEPT !.fails = @ + 1] \in
              [requests : Nat, losses : Nat, crashes : Nat, fails : Nat]
         /\ \A n \in Nat : [used EXCEPT !.losses = @ + n] \in
              [requests : Nat, losses : Nat, crashes : Nat, fails : Nat]
  BY CountedIs DEF Counted

LEMMA LoseTyped ==
  ASSUME Typed, NEW lost \in SUBSET {"balance", "record"}, Lose(lost)
  PROVE  used' \in [requests : Nat, losses : Nat, crashes : Nat, fails : Nat]
<1>1. IsFiniteSet({"balance", "record"})
  <2>1. IsFiniteSet({"balance"}) BY FS_Singleton
  <2>2. IsFiniteSet({"balance"} \union {"record"}) BY <2>1, FS_AddElement
  <2>3. {"balance"} \union {"record"} = {"balance", "record"} OBVIOUS
  <2>4. QED BY <2>2, <2>3
<1>2. Cardinality(lost) \in Nat BY <1>1, FS_Subset, FS_CardinalityType
<1>3. QED BY <1>2, UsedTyped DEF Lose

LEMMA AmountIs == /\ Amount \subseteq Nat \ {0} /\ Sum \subseteq Nat
                  /\ List \subseteq Seq(Installment) \ {<<>>}
  BY AmountAssumption, ListAssumption

(* A new account.                                                          *)
CreatesAccount(a) ==
  /\ acct[a] = NoDoc
  /\ \E prices \in PriceLists, total \in Sum, kind \in {"payable", "receivable"} :
       /\ acct' = [acct EXCEPT ![a] = NewAccount(kind, prices, total)]
       /\ prices # <<>> => total \in (Total(prices) - 1)..(Total(prices) + 1)
       /\ kind = "receivable" => prices # <<>> /\ total = Total(prices)
  /\ UNCHANGED <<contrib, req, money, history, used>>

LEMMA Creates ==
  ASSUME NEW a \in Account, Typed,
         CreateAccountPayable(a) \/ CreateAccountReceivable(a),
         \A prices \in PriceLists : Total(prices) \in Int
  PROVE  CreatesAccount(a)
<1>1. CASE CreateAccountPayable(a)
  BY <1>1 DEF CreateAccountPayable, CreatesAccount
<1>2. CASE CreateAccountReceivable(a)
  <2>1. PICK prices \in PriceLists \ {<<>>}, total \in Sum :
          /\ total = Total(prices)
          /\ acct' = [acct EXCEPT ![a] = NewAccount("receivable", prices, total)]
    BY <1>2 DEF CreateAccountReceivable
  <2>2. total \in (Total(prices) - 1)..(Total(prices) + 1) BY <2>1
  <2>3. QED BY <1>2, <2>1, <2>2 DEF CreateAccountReceivable, CreatesAccount
<1>3. QED BY <1>1, <1>2

LEMMA CreateTyped ==
  ASSUME NEW a \in Account, Typed, CreatesAccount(a)
  PROVE  Grown /\ Typed'
<1>1. PICK prices \in PriceLists, total \in Sum, kind \in {"payable", "receivable"} :
        acct' = [acct EXCEPT ![a] = NewAccount(kind, prices, total)]
  BY DEF CreatesAccount
<1>2. NewAccount(kind, prices, total) \in AccountDoc
  BY AmountIs, NewAccountGood
<1>3. Grown BY <1>1, <1>2, GrownWrite DEF CreatesAccount
<1>4. Counted' BY CountedIs DEF CreatesAccount, Counted, money, history
<1>5. Typed' BY <1>3, <1>4, NoRequest DEF CreatesAccount
<1>6. QED BY <1>3, <1>5

(* The three reads.                                                        *)
LEMMA PayReadTyped ==
  ASSUME NEW q \in Request, Typed, PayRead(q)
  PROVE  /\ Grown /\ Typed' /\ UNCHANGED <<docs, money, history>>
         /\ req[q] = Idle /\ req' = [req EXCEPT ![q] = req'[q]]
         /\ req'[q].step = "paying" /\ req'[q].doc = acct[req'[q].account]
<1>1. PICK a \in Account, list \in List, amount \in Amount, center \in BOOLEAN :
        /\ acct[a] # NoDoc
        /\ acct[a].kind = "receivable" => center
        /\ Start(q, CopyOf(a, "paying", list, amount, center))
        /\ UNCHANGED <<docs, money, history>>
  BY DEF PayRead
<1>. DEFINE s == CopyOf(a, "paying", list, amount, center)
<1>2. /\ HandOK(acct, contrib, s) /\ s.step = "paying"
      /\ s.account = a /\ s.doc = acct[a]
  BY <1>1, AmountIs, CopyFacts
<1>. HIDE DEF s
<1>3. req[q] = Idle /\ req' = [req EXCEPT ![q] = s] BY <1>1 DEF Start, s
<1>4. Grown BY <1>1, GrownSame DEF docs
<1>5. Counted'
  BY <1>1, CountedIs, UsedTyped DEF Start, Counted, money, history
<1>6. HandOK(acct', contrib', s) BY <1>1, <1>2 DEF docs
<1>7. Typed' BY <1>3, <1>4, <1>5, <1>6, OneRequest
<1>8. req'[q] = s BY <1>3, HandFacts
<1>9. QED BY <1>1, <1>2, <1>3, <1>4, <1>7, <1>8

LEMMA DeclareReadTyped ==
  ASSUME NEW q \in Request, Typed, DeclareRead(q)
  PROVE  /\ Grown /\ Typed' /\ UNCHANGED <<docs, money, history>>
         /\ req[q] = Idle /\ req' = [req EXCEPT ![q] = req'[q]]
         /\ req'[q].step = "declaring" /\ req'[q].doc = acct[req'[q].account]
<1>1. PICK a \in Account, i \in Installment, amount \in Amount :
        /\ acct[a] # NoDoc /\ acct[a].kind = "receivable"
        /\ i \in DOMAIN acct[a].inst
        /\ Start(q, CopyOf(a, "declaring", <<i>>, amount, TRUE))
        /\ UNCHANGED <<docs, money, history>>
  BY DEF DeclareRead
<1>. DEFINE s == CopyOf(a, "declaring", <<i>>, amount, TRUE)
<1>2. <<i>> \in Seq(Installment) \ {<<>>} /\ Head(<<i>>) = i OBVIOUS
<1>3. /\ HandOK(acct, contrib, s) /\ s.step = "declaring"
      /\ s.account = a /\ s.doc = acct[a]
  <2>1. amount \in Nat \ {0} BY AmountIs
  <2>2. Head(<<i>>) \in DOMAIN acct[a].inst /\ TRUE \in BOOLEAN BY <1>1, <1>2
  <2>. DEFINE list == <<i>>
              center == TRUE
              step == "declaring"
  <2>3. list \in Seq(Installment) \ {<<>>} /\ Head(list) \in DOMAIN acct[a].inst
    BY <1>2, <2>2
  <2>5. center \in BOOLEAN /\ (acct[a].kind = "receivable" => center) OBVIOUS
  <2>6. step \in {"paying", "declaring"} OBVIOUS
  <2>7. step = "declaring" =>
          acct[a].kind = "receivable" /\ Head(list) \in DOMAIN acct[a].inst
    BY <1>1, <2>3
  <2>8. acct[a] # NoDoc BY <1>1
  <2>. HIDE DEF list, center, step
  <2>4. LET t == CopyOf(a, step, list, amount, center)
        IN /\ HandOK(acct, contrib, t) /\ t.step = step
           /\ t.account = a /\ t.doc = acct[a]
    BY <2>1, <2>3, <2>5, <2>6, <2>7, <2>8, CopyFacts
  <2>9. QED BY <2>4 DEF list, center, step
<1>. HIDE DEF s
<1>4. req[q] = Idle /\ req' = [req EXCEPT ![q] = s] BY <1>1 DEF Start, s
<1>5. Grown BY <1>1, GrownSame DEF docs
<1>6. Counted'
  BY <1>1, CountedIs, UsedTyped DEF Start, Counted, money, history
<1>7. HandOK(acct', contrib', s) BY <1>1, <1>3 DEF docs
<1>8. Typed' BY <1>4, <1>5, <1>6, <1>7, OneRequest
<1>9. req'[q] = s BY <1>4, HandFacts
<1>10. QED BY <1>1, <1>3, <1>4, <1>5, <1>8, <1>9

LEMMA DecideReadTyped ==
  ASSUME NEW q \in Request, Typed, DecideRead(q)
  PROVE  /\ Grown /\ Typed' /\ UNCHANGED <<docs, money, history>>
         /\ req[q] = Idle /\ req' = [req EXCEPT ![q] = req'[q]]
         /\ req'[q].step = "deciding"
<1>1. PICK x \in Contribution, status \in ContributionStatus :
        /\ contrib[x] # NoDoc /\ Start(q, DecisionOn(x, status))
        /\ UNCHANGED <<docs, money, history>>
  BY DEF DecideRead
<1>. DEFINE s == DecisionOn(x, status)
            seen == [contrib[x] EXCEPT !.status = status]
<1>2. contrib[x] \in ContributionDoc BY <1>1 DEF Typed, TypeOK
<1>3. seen \in ContributionDoc /\ SameLink(seen, contrib[x])
  BY <1>2 DEF ContributionDoc, SameLink
<1>4. s = [Idle EXCEPT !.step = "deciding", !.from = x, !.seen = seen]
  BY DEF DecisionOn
<1>. HIDE DEF s, seen
<1>5. s \in Session /\ s.step = "deciding" /\ s.from = x /\ s.seen = seen
  <2>1. Idle \in Session BY IdleOK DEF HandOK
  <2>. DEFINE t == [Idle EXCEPT !.step = "deciding"]
  <2>2. t \in Session /\ t.step = "deciding" BY <2>1, StepOn
  <2>3. s = [t EXCEPT !.from = x, !.seen = seen] BY <1>4, <2>1 DEF Session
  <2>. HIDE DEF t
  <2>4. QED BY <1>3, <2>2, <2>3 DEF Session
<1>6. HandOK(acct, contrib, s)
  BY <1>1, <1>3, <1>5 DEF HandOK, Copying, DecisionOK
<1>7. req[q] = Idle /\ req' = [req EXCEPT ![q] = s] BY <1>1 DEF Start, s
<1>8. Grown BY <1>1, GrownSame DEF docs
<1>9. Counted'
  BY <1>1, CountedIs, UsedTyped DEF Start, Counted, money, history
<1>10. HandOK(acct', contrib', s) BY <1>1, <1>6 DEF docs
<1>11. Typed' BY <1>7, <1>8, <1>9, <1>10, OneRequest
<1>12. req'[q] = s BY <1>7, HandFacts
<1>13. QED BY <1>1, <1>5, <1>7, <1>8, <1>11, <1>12
-----------------------------------------------------------------------------
(* A request writes its account: the copy paid, marked or as it was read.  *)
LEMMA WriteBack ==
  ASSUME Typed, NEW q \in Request, req[q].step \in Copying, contrib' = contrib,
         NEW doc, doc \in AccountDoc, SameShape(doc, req[q].doc),
         acct' = [acct EXCEPT ![req[q].account] = doc]
  PROVE  Grown
<1>1. CopyOK(acct, req[q]) BY HandFacts
<1>2. SameShape(doc, acct[req[q].account]) BY <1>1 DEF CopyOK, SameShape
<1>3. req[q].account \in Account BY <1>1 DEF CopyOK
<1>4. QED BY <1>2, <1>3, GrownWrite

LEMMA RollBackGrown ==
  ASSUME Typed, NEW q \in Request, req[q].step \in Copying, contrib' = contrib,
         RollBack(req[q])
  PROVE  Grown
<1>1. CopyOK(acct, req[q]) BY HandFacts
<1>2. req[q].doc \in AccountDoc /\ SameShape(req[q].doc, req[q].doc)
  BY <1>1 DEF CopyOK, SameShape
<1>3. QED BY <1>2, WriteBack DEF RollBack

LEMMA StepTyped ==
  ASSUME Typed, Grown, Counted', NEW q \in Request, NEW step,
         req' = [req EXCEPT ![q].step = step],
         \/ req[q].step = "paying" /\ step = "stored"
         \/ req[q].step = "declaring" /\ step = "declared"
         \/ req[q].step = "deciding" /\ step = "decided"
  PROVE  Typed' /\ req'[q] = [req[q] EXCEPT !.step = step]
<1>1. HandOK(acct', contrib', req[q]) BY GrownKeeps DEF Typed
<1>. DEFINE t == [req[q] EXCEPT !.step = step]
<1>2. HandOK(acct', contrib', t) BY <1>1, NextStepOK
<1>3. req' = [req EXCEPT ![q] = t] BY HandFacts
<1>. HIDE DEF t
<1>4. Typed' BY <1>2, <1>3, OneRequest
<1>5. req'[q] = t BY <1>3, HandFacts
<1>6. QED BY <1>4, <1>5 DEF t

LEMMA AnswerTyped ==
  ASSUME Typed, NEW q \in Request, req[q].step \in Copying,
         AnswerOK(req[q]) \/ UNCHANGED answered
  PROVE  answered' \in [Account -> Nat]
<1>1. CopyOK(acct, req[q]) BY HandFacts
<1>2. req[q].account \in Account /\ req[q].amount \in Nat BY <1>1 DEF CopyOK
<1>3. answered \in [Account -> Nat] BY CountedIs DEF Counted
<1>4. CASE UNCHANGED answered BY <1>3, <1>4
<1>5. CASE AnswerOK(req[q])
  <2>1. answered' = [answered EXCEPT ![req[q].account] =
                       answered[req[q].account] + req[q].amount]
    BY <1>5 DEF AnswerOK
  <2>2. answered[req[q].account] + req[q].amount \in Nat BY <1>2, <1>3
  <2>3. QED BY <1>3, <2>1, <2>2
<1>6. QED BY <1>4, <1>5

LEMMA KnownIs ==
  ASSUME Typed, NEW q \in Request, req[q].step \in Copying, Known(req[q])
  PROVE  LET s == req[q]
             new == Paid(s.doc, s.list, s.amount)
         IN /\ new \in AccountDoc /\ SameShape(new, s.doc)
            /\ new.inst = PayAll(s.doc.inst, s.list, s.amount)
            /\ new.total = s.doc.total /\ new.paid = s.doc.paid + s.amount
            /\ new.pending =
                 IF s.doc.kind = "payable" /\ s.doc.pending - s.amount < 0
                 THEN 0 ELSE s.doc.pending - s.amount
            /\ Agrees(s.doc) => Agrees(new)
<1>. DEFINE s == req[q]
            doc == s.doc
            list == s.list
            amount == s.amount
<1>1. CopyOK(acct, s) BY HandFacts
<1>2. /\ doc \in AccountDoc /\ list \in Seq(Installment)
      /\ amount \in Nat \ {0}
      /\ \A n \in DOMAIN list : list[n] \in DOMAIN doc.inst
  BY <1>1 DEF CopyOK, Known
<1>. HIDE DEF doc, list, amount
<1>3. LET new == Paid(doc, list, amount)
      IN /\ new \in AccountDoc /\ SameShape(new, doc)
         /\ new.inst = PayAll(doc.inst, list, amount)
         /\ new.total = doc.total /\ new.paid = doc.paid + amount
         /\ new.pending = IF doc.kind = "payable" /\ doc.pending - amount < 0
                          THEN 0 ELSE doc.pending - amount
         /\ Agrees(doc) => Agrees(new)
  BY <1>2, PaidGood
<1>4. QED BY <1>3 DEF doc, list, amount

LEMMA PayStoreTyped ==
  ASSUME NEW q \in Request, Typed, PayStore(q)
  PROVE  /\ Grown /\ Typed' /\ CopyOK(acct, req[q])
         /\ Known(req[q]) => req'[q] = [req[q] EXCEPT !.step = "stored"]
<1>. DEFINE s == req[q]
<1>1. s.step = "paying" /\ s.step \in Copying BY DEF PayStore, Copying
<1>2. CopyOK(acct, s) BY <1>1, HandFacts
<1>3. contrib' = contrib BY DEF PayStore
<1>4. incidents' \in SUBSET Incident /\ careless' \in SUBSET Account
  <2>1. Noted("stale", acct[s.account] # s.doc) \subseteq Incident
    BY DEF Noted, Incident
  <2>2. incidents' \subseteq Incident BY <2>1, CountedIs DEF PayStore, Counted
  <2>3. careless' \subseteq Account
    BY <1>2, CountedIs DEF PayStore, Counted, CopyOK
  <2>4. QED BY <2>2, <2>3
<1>5. answered' \in [Account -> Nat]
  <2>1. AnswerOK(s) \/ UNCHANGED answered BY DEF PayStore, AnswerError
  <2>2. QED BY <1>1, <2>1, AnswerTyped
<1>6. UNCHANGED <<booked, credited, used>> BY DEF PayStore, money
<1>7. Counted' BY <1>4, <1>5, <1>6, CountedIs DEF Counted
<1>8. CASE Known(s)
  <2>1. /\ acct' = [acct EXCEPT ![s.account] = Paid(s.doc, s.list, s.amount)]
        /\ req' = [req EXCEPT ![q].step = "stored"]
    BY <1>8 DEF PayStore
  <2>2. /\ Paid(s.doc, s.list, s.amount) \in AccountDoc
        /\ SameShape(Paid(s.doc, s.list, s.amount), s.doc)
    BY <1>1, <1>8, KnownIs
  <2>3. Grown BY <1>1, <1>3, <2>1, <2>2, WriteBack
  <2>4. QED BY <1>1, <1>2, <1>7, <2>1, <2>3, StepTyped
<1>9. CASE ~Known(s)
  <2>1. RollBack(s) /\ Finish(q) BY <1>9 DEF PayStore
  <2>2. Grown BY <1>1, <1>3, <2>1, RollBackGrown
  <2>3. Typed' BY <1>7, <2>1, <2>2, FinishTyped
  <2>4. QED BY <1>2, <1>9, <2>2, <2>3
<1>10. QED BY <1>8, <1>9

LEMMA PayCommitTyped ==
  ASSUME NEW q \in Request, Typed, PayCommit(q)
  PROVE  Grown /\ Typed' /\ CopyOK(acct, req[q])
<1>. DEFINE s == req[q]
<1>1. PICK lost \in SUBSET {"record"} :
        /\ s.step = "stored"
        /\ Lose(lost)
        /\ IF s.center
             THEN /\ booked' = IF lost # {} THEN booked
                               ELSE [booked EXCEPT ![s.account] = @ + s.amount]
                  /\ AnswerOK(s)
                  /\ incidents' = incidents \union Noted("lost", lost # {})
                  /\ UNCHANGED acct
             ELSE /\ RollBack(s)
                  /\ AnswerError(s)
                  /\ incidents' = incidents
                       \union Noted("stale", acct[s.account] #
                                             Paid(s.doc, s.list, s.amount))
                  /\ UNCHANGED booked
        /\ Finish(q)
        /\ UNCHANGED <<contrib, credited, careless>>
  BY DEF PayCommit
<1>2. s.step \in Copying BY <1>1 DEF Copying
<1>3. CopyOK(acct, s) BY <1>2, HandFacts
<1>4. Grown BY <1>1, <1>2, GrownSame, RollBackGrown
<1>5. incidents' \subseteq Incident BY <1>1, CountedIs DEF Counted, Noted, Incident
<1>6. booked' \in [Account \union {NoAccount} -> Nat]
  BY <1>1, <1>3, CountedIs DEF Counted, CopyOK
<1>7. answered' \in [Account -> Nat]
  <2>1. AnswerOK(s) \/ UNCHANGED answered BY <1>1 DEF AnswerError
  <2>2. QED BY <1>2, <2>1, AnswerTyped
<1>8. used' \in [requests : Nat, losses : Nat, crashes : Nat, fails : Nat]
  <2>1. lost \in SUBSET {"balance", "record"} OBVIOUS
  <2>2. QED BY <1>1, <2>1, LoseTyped
<1>9. Counted' BY <1>1, <1>5, <1>6, <1>7, <1>8, CountedIs DEF Counted
<1>10. QED BY <1>1, <1>3, <1>4, <1>9, FinishTyped

LEMMA PayFailTyped ==
  ASSUME NEW q \in Request, Typed, PayFail(q)
  PROVE  Grown /\ Typed' /\ CopyOK(acct, req[q])
<1>. DEFINE s == req[q]
<1>1. /\ s.step = "paying" /\ s.step \in Copying /\ RollBack(s) /\ Finish(q)
      /\ UNCHANGED <<contrib, booked, credited, careless>> /\ Fail
      /\ AnswerOK(s) \/ UNCHANGED answered
  BY DEF PayFail, Copying, money, AnswerError
<1>2. CopyOK(acct, s) BY <1>1, HandFacts
<1>3. Grown BY <1>1, RollBackGrown
<1>4. incidents' \subseteq Incident
  BY CountedIs DEF PayFail, Counted, Noted, Incident
<1>5. answered' \in [Account -> Nat] BY <1>1, AnswerTyped
<1>6. used' \in [requests : Nat, losses : Nat, crashes : Nat, fails : Nat]
  BY <1>1, UsedTyped DEF Fail
<1>7. Counted' BY <1>1, <1>4, <1>5, <1>6, CountedIs DEF Counted
<1>8. QED BY <1>1, <1>2, <1>3, <1>7, FinishTyped

LEMMA DeclareMarkTyped ==
  ASSUME NEW q \in Request, Typed, DeclareMark(q)
  PROVE  Grown /\ Typed' /\ CopyOK(acct, req[q])
<1>. DEFINE s == req[q]
            doc == InReview(s.doc, Head(s.list))
<1>1. /\ s.step = "declared" /\ s.step \in Copying /\ Finish(q)
      /\ contrib' = contrib /\ acct' = [acct EXCEPT ![s.account] = doc]
  BY DEF DeclareMark, Copying
<1>2. CopyOK(acct, s) BY <1>1, HandFacts
<1>3. s.doc \in AccountDoc /\ Head(s.list) \in DOMAIN s.doc.inst
  BY <1>1, <1>2 DEF CopyOK
<1>4. doc \in AccountDoc /\ SameShape(doc, s.doc) BY <1>3, InReviewGood
<1>. HIDE DEF doc
<1>5. Grown BY <1>1, <1>4, WriteBack
<1>6. Counted'
  <2>1. incidents' \subseteq Incident
    BY CountedIs DEF DeclareMark, Counted, Noted, Incident
  <2>2. QED BY <2>1, CountedIs DEF DeclareMark, Counted, money
<1>7. QED BY <1>1, <1>2, <1>5, <1>6, FinishTyped
-----------------------------------------------------------------------------
(* What concerns contributions.                                            *)
GrowsContributions(x, new) ==
  /\ contrib' = [contrib EXCEPT ![x] = new] /\ acct' = acct
  /\ new \in ContributionDoc

LEMMA GrownContribution ==
  ASSUME Typed, NEW x \in Contribution, NEW new, GrowsContributions(x, new),
         \/ contrib[x] # NoDoc /\ SameLink(new, contrib[x])
         \/ contrib[x] = NoDoc /\ LinkOK(acct, new)
  PROVE  Grown
<1>1. new # NoDoc BY DocAssumption DEF GrowsContributions
<1>2. contrib \in [Contribution -> ContributionDoc \union {NoDoc}]
      /\ acct \in [Account -> AccountDoc \union {NoDoc}]
  BY DEF Typed, TypeOK
<1>3. /\ contrib' \in [Contribution -> ContributionDoc \union {NoDoc}]
      /\ contrib'[x] = new /\ \A y \in Contribution \ {x} : contrib'[y] = contrib[y]
  BY <1>2 DEF GrowsContributions
<1>4. \A y \in Contribution : contrib[y] # NoDoc =>
        contrib'[y] # NoDoc /\ SameLink(contrib'[y], contrib[y])
  BY <1>1, <1>3 DEF SameLink
<1>5. \A y \in Contribution : contrib'[y] # NoDoc =>
        contrib[y] # NoDoc \/ LinkOK(acct', contrib'[y])
  BY <1>3 DEF GrowsContributions
<1>6. \A a \in Account : SameShape(acct'[a], acct[a]) BY DEF SameShape, GrowsContributions
<1>7. QED BY <1>2, <1>3, <1>4, <1>5, <1>6 DEF Grown, GrowsContributions

LEMMA DeclareStoreTyped ==
  ASSUME NEW q \in Request, Typed, DeclareStore(q)
  PROVE  /\ Grown /\ Typed' /\ CopyOK(acct, req[q])
         /\ req'[q] = [req[q] EXCEPT !.step = "declared"]
         /\ \E x \in Contribution :
              /\ contrib[x] = NoDoc
              /\ contrib'[x] = [status |-> "PENDING_VERIFICATION",
                   amount |-> req[q].amount, account |-> req[q].account,
                   inst |-> Head(req[q].list)]
              /\ contrib'[x] # NoDoc
              /\ \A y \in Contribution \ {x} : contrib'[y] = contrib[y]
<1>. DEFINE s   == req[q]
            new == [status |-> "PENDING_VERIFICATION", amount |-> s.amount,
                    account |-> s.account, inst |-> Head(s.list)]
<1>1. PICK x \in Contribution :
        contrib[x] = NoDoc /\ contrib' = [contrib EXCEPT ![x] = new]
  BY DEF DeclareStore
<1>2. /\ s.step = "declaring" /\ s.step \in Copying /\ acct' = acct
      /\ req' = [req EXCEPT ![q].step = "declared"]
  BY DEF DeclareStore, Copying
<1>3. CopyOK(acct, s) /\ acct[s.account] \in AccountDoc BY <1>2, HandFacts
<1>4. /\ s.account \in Account /\ s.amount \in Nat \ {0}
      /\ acct[s.account] # NoDoc /\ acct[s.account].kind = "receivable"
      /\ Head(s.list) \in DOMAIN acct[s.account].inst
      /\ Head(s.list) \in Installment /\ Head(s.list) \in Nat
  <2>1. /\ s.account \in Account /\ s.amount \in Nat \ {0}
        /\ acct[s.account] # NoDoc /\ acct[s.account].kind = "receivable"
        /\ Head(s.list) \in DOMAIN s.doc.inst
        /\ Len(s.doc.inst) = Len(acct[s.account].inst) /\ s.doc \in AccountDoc
    BY <1>2, <1>3 DEF CopyOK, SameShape
  <2>2. DOMAIN s.doc.inst = DOMAIN acct[s.account].inst
    BY <1>3, <2>1, Fields
  <2>3. s.list \in Seq(Installment) /\ s.list # <<>> BY <1>3 DEF CopyOK
  <2>4. Head(s.list) \in Installment BY <2>3
  <2>5. QED BY <2>1, <2>2, <2>4, InstallmentAssumption
<1>5. new \in ContributionDoc /\ LinkOK(acct, new)
  BY <1>4 DEF ContributionDoc, ContributionStatus, LinkOK
<1>. HIDE DEF new
<1>6. Grown
  <2>1. GrowsContributions(x, new) BY <1>1, <1>2, <1>5 DEF GrowsContributions
  <2>2. QED BY <1>1, <1>5, <2>1, GrownContribution
<1>7. Counted' BY CountedIs DEF DeclareStore, Counted, money, history
<1>8. Typed' /\ req'[q] = [s EXCEPT !.step = "declared"]
  BY <1>2, <1>6, <1>7, StepTyped
<1>9. /\ contrib'[x] = new /\ new # NoDoc
      /\ \A y \in Contribution \ {x} : contrib'[y] = contrib[y]
  BY <1>1, <1>5, DocAssumption DEF Typed, TypeOK
<1>10. QED BY <1>1, <1>3, <1>6, <1>8, <1>9 DEF new

LEMMA ContributeTyped ==
  ASSUME Typed, Contribute
  PROVE  Grown /\ Typed'
<1>1. PICK x \in Contribution, amount \in Amount :
        /\ contrib[x] = NoDoc
        /\ contrib' = [contrib EXCEPT ![x] =
             [status |-> "PENDING_VERIFICATION", amount |-> amount,
              account |-> NoAccount, inst |-> 0]]
        /\ used' = [used EXCEPT !.requests = @ + 1]
  BY DEF Contribute
<1>. DEFINE new == [status |-> "PENDING_VERIFICATION", amount |-> amount,
                    account |-> NoAccount, inst |-> 0]
<1>2. new \in ContributionDoc /\ LinkOK(acct, new)
  BY AmountIs DEF ContributionDoc, ContributionStatus, LinkOK
<1>. HIDE DEF new
<1>3. GrowsContributions(x, new)
  BY <1>1, <1>2 DEF GrowsContributions, Contribute, new
<1>4. Grown BY <1>1, <1>2, <1>3, GrownContribution
<1>5. Counted' BY <1>1, CountedIs, UsedTyped DEF Contribute, Counted, money, history
<1>6. QED BY <1>4, <1>5, NoRequest DEF Contribute

LEMMA DecideStoreTyped ==
  ASSUME NEW q \in Request, Typed, DecideStore(q)
  PROVE  /\ Grown /\ Typed' /\ DecisionOK(contrib, req[q])
         /\ contrib' = [contrib EXCEPT ![req[q].from] = req[q].seen]
         /\ req[q].seen.status = "PROCESSED" =>
              req'[q] = [req[q] EXCEPT !.step = "decided"]
<1>. DEFINE s == req[q]
<1>1. /\ s.step = "deciding" /\ s.step \in Deciding /\ acct' = acct
      /\ contrib' = [contrib EXCEPT ![s.from] = s.seen]
      /\ IF s.seen.status = "PROCESSED"
         THEN req' = [req EXCEPT ![q].step = "decided"] ELSE Finish(q)
  BY DEF DecideStore, Deciding
<1>2. DecisionOK(contrib, s) BY <1>1, HandFacts
<1>3. Grown
  <2>1. GrowsContributions(s.from, s.seen)
    BY <1>1, <1>2 DEF GrowsContributions, DecisionOK
  <2>2. QED BY <1>2, <2>1, GrownContribution DEF DecisionOK
<1>4. Counted' BY CountedIs DEF DecideStore, Counted, money, history
<1>5. CASE s.seen.status = "PROCESSED"
  <2>1. Typed' /\ req'[q] = [s EXCEPT !.step = "decided"]
    BY <1>1, <1>3, <1>4, <1>5, StepTyped
  <2>2. QED BY <1>1, <1>2, <1>3, <2>1
<1>6. CASE s.seen.status # "PROCESSED"
  BY <1>1, <1>2, <1>3, <1>4, <1>6, FinishTyped
<1>7. QED BY <1>5, <1>6

LEMMA DecideDispatchTyped ==
  ASSUME NEW q \in Request, Typed, DecideDispatch(q)
  PROVE  /\ Grown /\ Typed' /\ DecisionOK(contrib, req[q])
         /\ IsDeclared(req[q].seen) =>
              /\ req[q].seen.account \in Account
              /\ acct[req[q].seen.account] # NoDoc
              /\ req' = [req EXCEPT ![q] = req'[q]]
              /\ req'[q].step = "paying"
              /\ req'[q].account = req[q].seen.account
              /\ req'[q].list = <<req[q].seen.inst>>
              /\ req'[q].doc = acct[req'[q].account]
         /\ ~IsDeclared(req[q].seen) => Finish(q)
<1>. DEFINE s    == req[q]
            list == <<s.seen.inst>>
            center == TRUE
            copy == CopyOf(s.seen.account, "paying", list, s.seen.amount, center)
<1>1. PICK lost \in SUBSET {"balance", "record"} :
        /\ s.step = "decided"
        /\ Lose(lost)
        /\ credited' = IF "balance" \in lost THEN credited
                       ELSE credited + s.seen.amount
        /\ IF IsDeclared(s.seen)
             THEN /\ req' = [req EXCEPT ![q] = copy]
                  /\ UNCHANGED booked
             ELSE /\ booked' = IF "record" \in lost THEN booked
                        ELSE [booked EXCEPT ![NoAccount] = @ + s.seen.amount]
                  /\ Finish(q)
        /\ incidents' = incidents \union Noted("lost", lost # {})
        /\ UNCHANGED <<docs, answered, careless>>
  BY DEF DecideDispatch
<1>2. s.step \in Deciding BY <1>1 DEF Deciding
<1>3. DecisionOK(contrib, s) BY <1>2, HandFacts
<1>4. s.seen \in ContributionDoc /\ s.seen.amount \in Nat \ {0}
  BY <1>3 DEF DecisionOK, ContributionDoc
<1>5. Grown BY <1>1, GrownSame DEF docs
<1>6. Counted'
  <2>1. credited' \in Nat BY <1>1, <1>4, CountedIs DEF Counted
  <2>2. booked' \in [Account \union {NoAccount} -> Nat]
    <3>1. booked \in [Account \union {NoAccount} -> Nat] BY CountedIs DEF Counted
    <3>2. booked[NoAccount] + s.seen.amount \in Nat BY <1>4, <3>1
    <3>3. QED BY <1>1, <3>1, <3>2
  <2>3. incidents' \subseteq Incident
    BY <1>1, CountedIs DEF Counted, Noted, Incident
  <2>4. used' \in [requests : Nat, losses : Nat, crashes : Nat, fails : Nat]
    BY <1>1, LoseTyped
  <2>5. QED BY <1>1, <2>1, <2>2, <2>3, <2>4, CountedIs DEF Counted
<1>7. CASE IsDeclared(s.seen)
  <2>1. /\ s.from \in Contribution /\ contrib[s.from] # NoDoc
        /\ LinkOK(acct, contrib[s.from]) /\ SameLink(s.seen, contrib[s.from])
    BY <1>3 DEF DecisionOK, Typed
  <2>2. /\ s.seen.account \in Account /\ s.seen.inst \in Installment
        /\ acct[s.seen.account] # NoDoc
    BY <1>7, <2>1 DEF IsDeclared, LinkOK, SameLink
  <2>3. list \in Seq(Installment) \ {<<>>} BY <2>2
  <2>. DEFINE a == s.seen.account
              amount == s.seen.amount
              step == "paying"
  <2>10. center \in BOOLEAN /\ (acct[a].kind = "receivable" => center) OBVIOUS
  <2>11. step \in {"paying", "declaring"} /\ step # "declaring" OBVIOUS
  <2>12. a \in Account /\ acct[a] # NoDoc /\ amount \in Nat \ {0} BY <1>4, <2>2
  <2>. HIDE DEF list, center, step, a, amount
  <2>13. LET t == CopyOf(a, step, list, amount, center)
        IN /\ HandOK(acct, contrib, t) /\ t.step = step
           /\ t.account = a /\ t.doc = acct[a] /\ t.list = list
    BY <2>3, <2>10, <2>11, <2>12, CopyFacts
  <2>4. /\ HandOK(acct, contrib, copy) /\ copy.step = "paying"
        /\ copy.account = s.seen.account /\ copy.doc = acct[s.seen.account]
        /\ copy.list = list
    BY <2>13 DEF a, step, amount
  <2>. HIDE DEF copy
  <2>5. req' = [req EXCEPT ![q] = copy] BY <1>1, <1>7 DEF copy, list, center
  <2>6. HandOK(acct', contrib', copy) BY <1>1, <2>4 DEF docs
  <2>7. Typed' BY <1>5, <1>6, <2>5, <2>6, OneRequest
  <2>8. req'[q] = copy BY <2>5, HandFacts
  <2>9. QED BY <1>3, <1>5, <1>7, <2>2, <2>4, <2>5, <2>7, <2>8 DEF list
<1>8. CASE ~IsDeclared(s.seen)
  BY <1>1, <1>3, <1>5, <1>6, <1>8, FinishTyped
<1>9. QED BY <1>7, <1>8

LEMMA CrashTyped ==
  ASSUME Typed, Crash
  PROVE  Grown /\ Typed'
<1>1. Grown BY GrownSame DEF Crash, docs
<1>2. Counted'
  BY CountedIs, UsedTyped DEF Crash, Counted, money, Incident
<1>3. QED BY <1>1, <1>2, TypedKept, IdleOK DEF Crash

LEMMA StutterTyped ==
  ASSUME Typed, UNCHANGED vars
  PROVE  Grown /\ Typed'
<1>1. Grown BY GrownSame DEF vars, docs
<1>2. Counted' BY CountedIs DEF Counted, vars, money, history
<1>3. QED BY <1>1, <1>2, NoRequest DEF vars

LEMMA TotalType ==
  ASSUME NEW prices \in PriceLists
  PROVE  IsFiniteSet(DOMAIN prices) /\ Total(prices) \in Int
<1>1. PICK n \in {0} \union Installment : prices \in [1..n -> Price]
  BY DEF PriceLists
<1>2. n \in Nat BY InstallmentAssumption
<1>3. IsFiniteSet(DOMAIN prices) BY <1>1, <1>2, FS_Interval
<1>4. \A i \in DOMAIN prices : prices[i] \in Int BY <1>1, AmountAssumption
<1>5. SumOf(prices, DOMAIN prices) \in Int BY <1>3, <1>4, SumType
<1>6. QED BY <1>3, <1>5 DEF Total, SumFunction, SumOf

(* The steps, named for the lemmas to come.                                *)
LEMMA Steps ==
  ASSUME Typed, Next
  PROVE  \/ \E a \in Account : CreatesAccount(a)
         \/ \E q \in Request :
              \/ PayRead(q) \/ DeclareRead(q) \/ DecideRead(q)
              \/ PayStore(q) \/ PayCommit(q) \/ PayFail(q)
              \/ DeclareStore(q) \/ DeclareMark(q)
              \/ DecideStore(q) \/ DecideDispatch(q)
         \/ Contribute \/ Crash
<1>1. ASSUME NEW a \in Account,
             CreateAccountPayable(a) \/ CreateAccountReceivable(a)
      PROVE  CreatesAccount(a)
  BY <1>1, Creates, TotalType
<1>2. QED BY <1>1 DEF Next, Go

LEMMA NextTyped ==
  ASSUME Typed, [Next]_vars
  PROVE  Grown /\ Typed'
<1>1. CASE UNCHANGED vars BY <1>1, StutterTyped
<1>2. CASE Next
  BY <1>2, Steps, CreateTyped, PayReadTyped, DeclareReadTyped,
     DecideReadTyped, PayStoreTyped, PayCommitTyped, PayFailTyped,
     DeclareStoreTyped, DeclareMarkTyped, DecideStoreTyped,
     DecideDispatchTyped, ContributeTyped, CrashTyped
<1>3. QED BY <1>1, <1>2
-----------------------------------------------------------------------------
(***************************************************************************)
(* Installments: what a careful payment does to them.                      *)
(***************************************************************************)
SoundInst(inst) ==
  /\ inst.pending \in 0..inst.amount
  /\ inst.status = "PAID" => inst.pending = 0
  /\ inst.pending = 0 => inst.status \in {"PAID", "IN_REVIEW"}
  /\ inst.status = "PENDING" => inst.pending = inst.amount

Pendings(insts) == [i \in DOMAIN insts |-> insts[i].pending]
OwedBy(doc)     == Owed(doc, [i \in DOMAIN doc.inst |-> i])
Slack(doc)      == IF doc.kind = "payable" THEN 1 ELSE 0

AddsUp(doc) ==
  doc.inst # <<>> =>
    /\ doc.pending \in (OwedBy(doc) - Slack(doc))..(OwedBy(doc) + Slack(doc))
    /\ \A i \in DOMAIN doc.inst : SoundInst(doc.inst[i])

LEMMA OwedIs ==
  ASSUME NEW doc
  PROVE  OwedBy(doc) = SumOf(Pendings(doc.inst), DOMAIN doc.inst)
<1>. DEFINE D == DOMAIN doc.inst
            id == [i \in D |-> i]
            g == [n \in DOMAIN id |-> doc.inst[id[n]].pending]
<1>1. g = Pendings(doc.inst) /\ DOMAIN g = D BY DEF Pendings
<1>2. OwedBy(doc) = SumFunction(g) BY DEF OwedBy, Owed
<1>. HIDE DEF g
<1>3. QED BY <1>1, <1>2 DEF SumFunction, SumOf

(* A sum in which one term changes.                                        *)
LEMMA SumSwap ==
  ASSUME NEW D, IsFiniteSet(D), NEW g, NEW h, NEW i \in D,
         \A j \in D : g[j] \in Int /\ h[j] \in Int,
         \A j \in D \ {i} : h[j] = g[j]
  PROVE  SumOf(h, D) = SumOf(g, D) - g[i] + h[i]
<1>1. IsFiniteSet(D \ {i}) BY FS_RemoveElement
<1>2. SumOf(g, D) = g[i] + SumOf(g, D \ {i}) BY SumRemove
<1>3. SumOf(h, D) = h[i] + SumOf(h, D \ {i}) BY SumRemove
<1>4. SumOf(h, D \ {i}) = SumOf(g, D \ {i}) BY <1>1, SumExt
<1>5. SumOf(g, D \ {i}) \in Int BY <1>1, SumType
<1>6. QED BY <1>2, <1>3, <1>4, <1>5

(* Sums of the first n of some positive amounts.                           *)
LEMMA FirstSums ==
  ASSUME NEW N \in Nat, NEW g, \A n \in 1..N : g[n] \in Nat
  PROVE  /\ SumOf(g, 1..0) = 0
         /\ \A n \in 0..N : SumOf(g, 1..n) \in Int
         /\ \A n \in 1..N : SumOf(g, 1..n) = SumOf(g, 1..(n - 1)) + g[n]
         /\ \A n \in 0..N : SumOf(g, 1..n) =< SumOf(g, 1..N)
<1>1. SumOf(g, 1..0) = 0
  <2>1. 1..0 = {} OBVIOUS
  <2>2. QED BY <2>1, SumEmpty
<1>2. ASSUME NEW n \in 0..N PROVE IsFiniteSet(1..n) /\ SumOf(g, 1..n) \in Int
  <2>1. IsFiniteSet(1..n) BY FS_Interval
  <2>2. \A x \in 1..n : g[x] \in Int OBVIOUS
  <2>3. QED BY <2>1, <2>2, SumType
<1>3. ASSUME NEW n \in 1..N
      PROVE  SumOf(g, 1..n) = SumOf(g, 1..(n - 1)) + g[n]
  <2>1. 1..n = 1..(n - 1) \union {n} /\ n \notin 1..(n - 1) OBVIOUS
  <2>2. n - 1 \in 0..N OBVIOUS
  <2>3. IsFiniteSet(1..(n - 1)) BY <1>2, <2>2
  <2>4. \A x \in 1..(n - 1) \union {n} : g[x] \in Int OBVIOUS
  <2>5. SumOf(g, 1..(n - 1) \union {n}) = SumOf(g, 1..(n - 1)) + g[n]
    BY <2>1, <2>3, <2>4, SumAdd
  <2>6. QED BY <2>1, <2>5
<1>. DEFINE Bad == {k \in Nat : k =< N /\ SumOf(g, 1..(N - k)) > SumOf(g, 1..N)}
<1>4. Bad = {}
  <2>1. SUFFICES ASSUME Bad # {} PROVE FALSE OBVIOUS
  <2>2. PICK k \in Bad : \A j \in Bad : k =< j
    <3>1. Bad \subseteq Nat OBVIOUS
    <3>. HIDE DEF Bad
    <3>2. QED BY <2>1, <3>1, NatMin
  <2>3. k # 0
    <3>1. SumOf(g, 1..N) \in Int BY <1>2
    <3>2. N - 0 = N OBVIOUS
    <3>3. QED BY <2>2, <3>1, <3>2
  <2>4. k - 1 \in Nat /\ k - 1 =< N /\ k - 1 \notin Bad BY <2>2, <2>3
  <2>5. ~(SumOf(g, 1..(N - (k - 1))) > SumOf(g, 1..N)) BY <2>4
  <2>. DEFINE n == N - k + 1
  <2>6. n \in 1..N /\ n - 1 = N - k /\ n = N - (k - 1) BY <2>3
  <2>7. SumOf(g, 1..n) = SumOf(g, 1..(n - 1)) + g[n] BY <1>3, <2>6
  <2>8. /\ SumOf(g, 1..n) \in Int /\ SumOf(g, 1..(n - 1)) \in Int
        /\ SumOf(g, 1..N) \in Int /\ g[n] \in Nat
    BY <1>2, <2>6
  <2>9. SumOf(g, 1..(n - 1)) > SumOf(g, 1..N) BY <2>2, <2>6
  <2>10. ~(SumOf(g, 1..n) > SumOf(g, 1..N)) BY <2>5, <2>6
  <2>. HIDE DEF n
  <2>11. QED BY <2>7, <2>8, <2>9, <2>10
<1>5. ASSUME NEW n \in 0..N PROVE SumOf(g, 1..n) =< SumOf(g, 1..N)
  <2>1. N - n \in Nat /\ N - n =< N /\ N - (N - n) = n OBVIOUS
  <2>2. N - n \notin Bad BY <1>4
  <2>3. ~(SumOf(g, 1..(N - (N - n))) > SumOf(g, 1..N)) BY <2>1, <2>2
  <2>4. SumOf(g, 1..n) \in Int /\ SumOf(g, 1..N) \in Int BY <1>2
  <2>. HIDE DEF Bad
  <2>5. QED BY <2>1, <2>3, <2>4
<1>6. QED BY <1>1, <1>2, <1>3, <1>5

(* One turn with money left, on an installment that is open.               *)
LEMMA PaySound ==
  ASSUME NEW inst \in InstallmentDoc, SoundInst(inst), inst.pending # 0,
         NEW left \in Nat \ {0}
  PROVE  LET r == PayInstallment(inst, left)
         IN /\ r.inst \in InstallmentDoc /\ SoundInst(r.inst)
            /\ r.left = left - inst.pending
            /\ r.inst.pending = IF left > inst.pending THEN 0
                                ELSE inst.pending - left
<1>. DEFINE due  == IF inst.status = "PENDING" THEN inst.amount ELSE inst.pending
            rest == Rest(inst, left)
            paid == IF Exceeds(left, inst.pending) THEN inst.amount
                    ELSE IF rest = Nan THEN left ELSE left + rest
            status == IF Covers(left, due) THEN "PAID" ELSE "PARTIAL"
            new == [inst EXCEPT !.status = status, !.pending = rest, !.paid = paid]
            r == PayInstallment(inst, left)
<1>1. /\ inst.amount \in Nat /\ inst.pending \in Nat /\ inst.pending =< inst.amount
      /\ inst.status # "PAID" /\ due = inst.pending
      /\ inst.pending # Nan /\ left # Nan
  BY NanAssumption DEF InstallmentDoc, SoundInst
<1>2. rest = IF left > inst.pending THEN 0 ELSE inst.pending - left
  BY <1>1 DEF Rest, Exceeds, Minus
<1>3. status = IF left >= inst.pending THEN "PAID" ELSE "PARTIAL"
  BY <1>1 DEF Covers
<1>4. Left(inst, left) = left - inst.pending BY <1>1 DEF Left, Minus
<1>5. r = [inst |-> new, left |-> Left(inst, left)]
  BY <1>1 DEF PayInstallment
<1>6. r.inst \in InstallmentDoc BY PayTyped
<1>. HIDE DEF paid, rest, status, due, r
<1>7. new.pending = rest /\ new.status = status /\ new.amount = inst.amount
  BY DEF InstallmentDoc
<1>. HIDE DEF new
<1>8. r.inst = new /\ r.left = left - inst.pending BY <1>4, <1>5
<1>9. SoundInst(new) BY <1>1, <1>2, <1>3, <1>7 DEF SoundInst
<1>10. QED BY <1>2, <1>6, <1>7, <1>8, <1>9 DEF r
-----------------------------------------------------------------------------
Named(insts, list) == [n \in DOMAIN list |-> insts[list[n]].pending]

(* A careful list of installments, for an amount that reaches the last.    *)
CarefulList(insts, list, amount) ==
  /\ \A n \in DOMAIN list : list[n] \in DOMAIN insts /\ insts[list[n]].pending # 0
  /\ \A m, n \in DOMAIN list : list[m] = list[n] => m = n
  /\ SumOf(Named(insts, list), 1..(Len(list) - 1)) < amount
  /\ amount =< SumOf(Named(insts, list), 1..Len(list))

LEMMA PendingsInt ==
  ASSUME NEW insts \in Seq(InstallmentDoc),
         \A i \in DOMAIN insts : SoundInst(insts[i])
  PROVE  /\ IsFiniteSet(DOMAIN insts)
         /\ \A i \in DOMAIN insts :
              Pendings(insts)[i] = insts[i].pending /\ insts[i].pending \in Nat
<1>1. DOMAIN insts = 1..Len(insts) /\ Len(insts) \in Nat OBVIOUS
<1>2. IsFiniteSet(DOMAIN insts) BY <1>1, FS_Interval
<1>3. ASSUME NEW i \in DOMAIN insts PROVE insts[i].pending \in Nat
  <2>1. insts[i] \in InstallmentDoc BY <1>1
  <2>2. insts[i].amount \in Nat BY <2>1 DEF InstallmentDoc
  <2>3. QED BY <2>2 DEF SoundInst
<1>4. QED BY <1>2, <1>3 DEF Pendings

LEMMA PendingsSwap ==
  ASSUME NEW old \in Seq(InstallmentDoc), \A i \in DOMAIN old : SoundInst(old[i]),
         NEW i \in DOMAIN old, NEW one \in InstallmentDoc, SoundInst(one)
  PROVE  SumOf(Pendings([old EXCEPT ![i] = one]), DOMAIN old) =
           SumOf(Pendings(old), DOMAIN old) - old[i].pending + one.pending
<1>. DEFINE new == [old EXCEPT ![i] = one]
            D == DOMAIN old
            g == Pendings(old)
            h == Pendings(new)
<1>1. /\ new \in Seq(InstallmentDoc) /\ DOMAIN new = D
      /\ new[i] = one /\ \A j \in D \ {i} : new[j] = old[j]
      /\ \A j \in D : SoundInst(new[j])
  OBVIOUS
<1>. HIDE DEF new
<1>2. \A j \in D : g[j] = old[j].pending /\ old[j].pending \in Nat
  BY PendingsInt
<1>3. \A j \in D : h[j] = new[j].pending /\ new[j].pending \in Nat
  BY <1>1, PendingsInt
<1>4. IsFiniteSet(D) /\ i \in D BY PendingsInt
<1>5. g[i] = old[i].pending /\ h[i] = one.pending BY <1>1, <1>2, <1>3
<1>6. \A j \in D \ {i} : h[j] = g[j] BY <1>1, <1>2, <1>3
<1>7. \A j \in D : g[j] \in Int /\ h[j] \in Int BY <1>2, <1>3
<1>. HIDE DEF g, h, D
<1>8. SumOf(h, D) = SumOf(g, D) - g[i] + h[i]
  BY <1>4, <1>6, <1>7, SumSwap
<1>9. QED BY <1>5, <1>8 DEF g, h, D, new

LEMMA PayAllSound ==
  ASSUME NEW insts \in Seq(InstallmentDoc),
         \A i \in DOMAIN insts : SoundInst(insts[i]),
         NEW list \in Seq(Installment) \ {<<>>}, NEW amount \in Nat \ {0},
         CarefulList(insts, list, amount)
  PROVE  LET new == PayAll(insts, list, amount)
         IN /\ \A i \in DOMAIN insts : SoundInst(new[i])
            /\ SumOf(Pendings(new), DOMAIN insts) =
                 SumOf(Pendings(insts), DOMAIN insts) - amount
<1>. DEFINE N == Len(list)
            D == DOMAIN insts
            g == Named(insts, list)
            C(n) == SumOf(g, 1..n)
            All(s) == SumOf(Pendings(s), D)
<1>1. /\ N \in Nat \ {0} /\ DOMAIN list = 1..N
      /\ D = 1..Len(insts) /\ Len(insts) \in Nat
  OBVIOUS
<1>0. N \in Nat /\ N # 0 BY <1>1
<1>. HIDE DEF N
<1>2. ASSUME NEW n \in 1..N
      PROVE  /\ list[n] \in D /\ g[n] = insts[list[n]].pending
             /\ g[n] \in Nat \ {0}
  BY <1>1, PendingsInt DEF Named, CarefulList
<1>. HIDE DEF g
<1>3. /\ C(0) = 0 /\ \A n \in 0..N : C(n) \in Int
      /\ \A n \in 1..N : C(n) = C(n - 1) + g[n]
  BY <1>0, <1>2, FirstSums
<1>4. ASSUME NEW n \in 1..N, n # N PROVE C(n) < amount
  <2>1. N - 1 \in Nat /\ n \in 0..(N - 1) BY <1>0, <1>4
  <2>2. \A k \in 1..(N - 1) : k \in 1..N BY <1>0
  <2>7. \A k \in 1..(N - 1) : g[k] \in Nat BY <1>2, <2>2
  <2>3. C(n) =< C(N - 1) BY <2>1, <2>7, FirstSums
  <2>4. C(N - 1) < amount BY <1>1 DEF CarefulList, g, N
  <2>5. C(n) \in Int /\ C(N - 1) \in Int BY <1>1, <1>3, <2>1
  <2>. HIDE DEF C
  <2>6. QED BY <2>3, <2>4, <2>5
<1>5. amount =< C(N) BY DEF CarefulList, g, N
<1>6. All(insts) \in Int
  <2>1. IsFiniteSet(D) /\ \A i \in D : Pendings(insts)[i] \in Int BY PendingsInt
  <2>2. QED BY <2>1, SumType
<1>. DEFINE OK(s, left, n) ==
              /\ s \in Seq(InstallmentDoc) /\ Len(s) = Len(insts)
              /\ \A i \in D : (\A k \in 1..n : list[k] # i) => s[i] = insts[i]
              /\ \A i \in D : SoundInst(s[i])
              /\ left = amount - C(n)
              /\ All(s) = All(insts) - (IF n = N THEN amount ELSE C(n))
            T == [n \in 0..N |-> {st \in [insts : Seq(InstallmentDoc), left : Int] :
                                    OK(st.insts, st.left, n)}]
<1>7. [insts |-> insts, left |-> amount] \in T[0]
  <2>1. OK(insts, amount, 0)
    <3>. HIDE DEF C, All
    <3>1. QED BY <1>1, <1>3, <1>6
  <2>. HIDE DEF OK
  <2>2. QED BY <1>1, <2>1
<1>8. ASSUME NEW n \in 1..N, NEW st \in T[n - 1]
      PROVE  PayNext(st, list[n]) \in T[n]
  <2>1. n - 1 \in 0..N /\ n \in 0..N BY <1>0
  <2>2. /\ st \in [insts : Seq(InstallmentDoc), left : Int]
        /\ OK(st.insts, st.left, n - 1)
    <3>. HIDE DEF OK
    <3>1. QED BY <2>1
  <2>. DEFINE i == list[n]
              r == PayInstallment(st.insts[i], st.left)
              s == [st.insts EXCEPT ![i] = r.inst]
  <2>3. i \in D /\ DOMAIN st.insts = D
    <3>1. DOMAIN st.insts = 1..Len(st.insts) BY <2>2
    <3>2. QED BY <1>1, <1>2, <2>2, <3>1
  <2>4. st.insts[i] = insts[i]
    <3>1. ASSUME NEW k \in 1..(n - 1) PROVE list[k] # i
      <4>1. k \in 1..N /\ k # n BY <1>0
      <4>2. k \in DOMAIN list /\ n \in DOMAIN list BY <1>1, <4>1
      <4>3. QED BY <4>1, <4>2 DEF CarefulList
    <3>2. QED BY <2>2, <2>3, <3>1
  <2>5. st.insts[i].pending = g[n] BY <1>2, <2>4
  <2>6. st.left = amount - C(n - 1) /\ st.left \in Nat \ {0}
    <3>1. st.left = amount - C(n - 1) BY <2>2
    <3>2. C(n - 1) < amount
      <4>1. CASE n = 1
        <5>1. C(n - 1) = 0 BY <1>3, <4>1
        <5>2. QED BY <5>1
      <4>2. CASE n # 1
        <5>1. n - 1 \in 1..N /\ n - 1 # N BY <1>0, <4>2
        <5>2. QED BY <1>4, <5>1
      <4>3. QED BY <4>1, <4>2
    <3>3. C(n - 1) \in Int BY <1>3, <2>1
    <3>. HIDE DEF C
    <3>4. QED BY <3>1, <3>2, <3>3
  <2>7. /\ st.insts[i] \in InstallmentDoc /\ SoundInst(st.insts[i])
        /\ st.insts[i].pending # 0
    BY <1>2, <2>2, <2>3, <2>5
  <2>8. /\ r.inst \in InstallmentDoc /\ SoundInst(r.inst)
        /\ r.left = st.left - g[n]
        /\ r.inst.pending = IF st.left > g[n] THEN 0 ELSE g[n] - st.left
    BY <2>5, <2>6, <2>7, PaySound
  <2>9. PayNext(st, i) = [insts |-> s, left |-> r.left] BY DEF PayNext
  <2>. HIDE DEF r
  <2>10. /\ s \in Seq(InstallmentDoc) /\ Len(s) = Len(insts) /\ DOMAIN s = D
         /\ s[i] = r.inst /\ \A j \in D \ {i} : s[j] = st.insts[j]
    BY <2>2, <2>3, <2>8
  <2>. HIDE DEF s
  <2>11. \A j \in D : SoundInst(s[j]) BY <2>2, <2>8, <2>10
  <2>12. ASSUME NEW j \in D, \A k \in 1..n : list[k] # j PROVE s[j] = insts[j]
    <3>1. n \in 1..n /\ \A k \in 1..(n - 1) : k \in 1..n BY <1>0
    <3>2. j # i /\ \A k \in 1..(n - 1) : list[k] # j BY <2>12, <3>1
    <3>3. QED BY <2>2, <2>10, <3>2
  <2>13. r.left = amount - C(n) /\ C(n) = C(n - 1) + g[n] /\ C(n) \in Int
         /\ C(n - 1) \in Int /\ g[n] \in Nat
    <3>1. C(n) = C(n - 1) + g[n] /\ C(n) \in Int /\ C(n - 1) \in Int
      BY <1>3, <2>1
    <3>2. g[n] \in Nat BY <1>2
    <3>. HIDE DEF C
    <3>3. QED BY <2>6, <2>8, <3>1, <3>2
  <2>14. All(s) = All(st.insts) - g[n] + r.inst.pending
    <3>. DEFINE old == st.insts
                one == r.inst
    <3>1. /\ old \in Seq(InstallmentDoc) /\ DOMAIN old = D /\ i \in DOMAIN old
          /\ \A j \in DOMAIN old : SoundInst(old[j])
          /\ one \in InstallmentDoc /\ SoundInst(one)
      BY <2>2, <2>3, <2>8
    <3>2. s = [old EXCEPT ![i] = one] /\ old[i].pending = g[n] BY <2>5 DEF s
    <3>. HIDE DEF old, one, i, D
    <3>3. SumOf(Pendings([old EXCEPT ![i] = one]), DOMAIN old) =
            SumOf(Pendings(old), DOMAIN old) - old[i].pending + one.pending
      BY <3>1, PendingsSwap
    <3>4. QED BY <3>1, <3>2, <3>3 DEF old, one
  <2>15. All(st.insts) = All(insts) - C(n - 1)
    <3>1. n - 1 # N BY <1>0
    <3>. HIDE DEF All, C
    <3>2. QED BY <2>2, <3>1
  <2>16. All(s) = All(insts) - (IF n = N THEN amount ELSE C(n))
    <3>1. n = N => amount =< C(n) BY <1>5
    <3>2. n # N => C(n) < amount BY <1>4
    <3>. HIDE DEF All, C, N
    <3>3. st.left = amount - C(n - 1) BY <2>6
    <3>4. r.inst.pending = IF st.left > g[n] THEN 0 ELSE g[n] - st.left BY <2>8
    <3>5. CASE n = N
      <4>1. amount - C(n - 1) =< g[n] BY <2>13, <3>1, <3>5
      <4>2. r.inst.pending = g[n] - (amount - C(n - 1))
        BY <2>13, <3>3, <3>4, <4>1
      <4>3. QED BY <1>6, <2>13, <2>14, <2>15, <3>5, <4>2
    <3>6. CASE n # N
      <4>1. amount - C(n - 1) > g[n] BY <2>13, <3>2, <3>6
      <4>2. r.inst.pending = 0 BY <3>3, <3>4, <4>1
      <4>3. QED BY <1>6, <2>13, <2>14, <2>15, <3>6, <4>2
    <3>7. QED BY <3>5, <3>6
  <2>17. OK(s, r.left, n)
    <3>. HIDE DEF All, C
    <3>1. QED BY <2>10, <2>11, <2>12, <2>13, <2>16
  <2>18. r.left \in Int
    <3>. HIDE DEF C
    <3>1. QED BY <2>13
  <2>. HIDE DEF OK
  <2>19. [insts |-> s, left |-> r.left] \in
           {t \in [insts : Seq(InstallmentDoc), left : Int] : OK(t.insts, t.left, n)}
    BY <2>10, <2>17, <2>18
  <2>20. QED BY <2>1, <2>9, <2>19
<1>9. PICK st \in T[N] : PayAll(insts, list, amount) = st.insts
  <2>. HIDE DEF T
  <2>1. QED BY <1>1, <1>7, <1>8, PayAllIn DEF N
<1>10. OK(st.insts, st.left, N)
  <2>. HIDE DEF OK
  <2>1. QED BY <1>1, <1>9
<1>11. QED BY <1>9, <1>10
-----------------------------------------------------------------------------
(* What a write does to an account whose installments add up.              *)
LEMMA SumNat ==
  ASSUME NEW S, IsFiniteSet(S), NEW g, \A x \in S : g[x] \in Nat
  PROVE  SumOf(g, S) \in Nat
<1>. DEFINE Bad == {T \in SUBSET S : SumOf(g, T) \notin Nat}
<1>1. SUFFICES ASSUME Bad # {} PROVE FALSE OBVIOUS
<1>2. PICK T \in Bad : \A U \in Bad : ~(U \subseteq T /\ U # T)
  <2>1. Bad \subseteq SUBSET S OBVIOUS
  <2>. HIDE DEF Bad
  <2>2. QED BY <1>1, <2>1, Smallest
<1>3. T # {} BY SumEmpty
<1>4. IsFiniteSet(T) BY FS_Subset
<1>5. PICK x \in T : SumOf(g, T) = g[x] + SumOf(g, T \ {x})
  BY <1>3, <1>4, SumStep
<1>6. SumOf(g, T \ {x}) \in Nat BY <1>2
<1>7. QED BY <1>5, <1>6

LEMMA CarefulIs ==
  ASSUME NEW doc \in AccountDoc, NEW list \in Seq(Installment) \ {<<>>}, NEW amount,
         \A n \in DOMAIN list : list[n] \in DOMAIN doc.inst,
         \A i \in DOMAIN doc.inst : SoundInst(doc.inst[i]),
         Careful(doc, list, amount)
  PROVE  CarefulList(doc.inst, list, amount)
<1>. DEFINE g == Named(doc.inst, list)
            N == Len(list)
            h == [n \in DOMAIN Front(list) |-> doc.inst[Front(list)[n]].pending]
<1>1. N \in Nat \ {0} /\ DOMAIN list = 1..N OBVIOUS
<1>2. Owed(doc, list) = SumOf(g, 1..N)
  <2>1. DOMAIN g = 1..N BY <1>1 DEF Named
  <2>2. Owed(doc, list) = SumFunction(g) BY DEF Owed, Named
  <2>. HIDE DEF g
  <2>3. QED BY <2>1, <2>2 DEF SumFunction, SumOf
<1>3. /\ DOMAIN Front(list) = 1..(N - 1)
      /\ \A n \in 1..(N - 1) : Front(list)[n] = list[n] /\ n \in DOMAIN list
  BY <1>1 DEF Front
<1>4. Owed(doc, Front(list)) = SumOf(g, 1..(N - 1))
  <2>1. Owed(doc, Front(list)) = SumFunction(h) BY DEF Owed
  <2>2. DOMAIN h = 1..(N - 1) BY <1>3
  <2>3. \A n \in 1..(N - 1) : h[n] = g[n] BY <1>3 DEF Named
  <2>. HIDE DEF g, h
  <2>4. Owed(doc, Front(list)) = SumOf(h, 1..(N - 1))
    BY <2>1, <2>2 DEF SumFunction, SumOf
  <2>5. IsFiniteSet(1..(N - 1))
    <3>1. N - 1 \in Nat BY <1>1
    <3>2. QED BY <3>1, FS_Interval
  <2>6. QED BY <2>3, <2>4, <2>5, SumExt
<1>5. \A n \in DOMAIN list : doc.inst[list[n]].pending # 0 BY DEF Careful
<1>6. \A m, n \in DOMAIN list : list[m] = list[n] => m = n
  BY DEF Careful, IsInjective
<1>7. SumOf(g, 1..(N - 1)) < amount /\ amount =< SumOf(g, 1..N)
  BY <1>2, <1>4 DEF Careful
<1>8. QED BY <1>5, <1>6, <1>7 DEF CarefulList

LEMMA PaidAddsUp ==
  ASSUME NEW doc \in AccountDoc, NEW list \in Seq(Installment) \ {<<>>},
         NEW amount \in Nat \ {0},
         \A n \in DOMAIN list : list[n] \in DOMAIN doc.inst,
         Careful(doc, list, amount), AddsUp(doc)
  PROVE  AddsUp(Paid(doc, list, amount))
<1>. DEFINE new == Paid(doc, list, amount)
            D == DOMAIN doc.inst
            owed == SumOf(Pendings(doc.inst), D)
            left == SumOf(Pendings(new.inst), D)
<1>1. doc.inst # <<>> /\ doc.inst \in Seq(InstallmentDoc)
  <2>1. 1 \in DOMAIN list OBVIOUS
  <2>2. list[1] \in DOMAIN doc.inst BY <2>1
  <2>3. QED BY <2>2, Fields
<1>2. /\ doc.pending \in (owed - Slack(doc))..(owed + Slack(doc))
      /\ \A i \in D : SoundInst(doc.inst[i])
  BY <1>1, OwedIs DEF AddsUp
<1>3. CarefulList(doc.inst, list, amount) BY <1>2, CarefulIs
<1>4. /\ new \in AccountDoc /\ new.kind = doc.kind
      /\ new.inst = PayAll(doc.inst, list, amount)
      /\ new.pending = IF doc.kind = "payable" /\ doc.pending - amount < 0
                       THEN 0 ELSE doc.pending - amount
  BY PaidGood DEF SameShape
<1>. HIDE DEF new
<1>5. (\A i \in D : SoundInst(new.inst[i])) /\ left = owed - amount
  BY <1>1, <1>2, <1>3, <1>4, PayAllSound
<1>6. new.inst \in Seq(InstallmentDoc) /\ DOMAIN new.inst = D
  <2>1. /\ PayAll(doc.inst, list, amount) \in Seq(InstallmentDoc)
        /\ Len(PayAll(doc.inst, list, amount)) = Len(doc.inst)
    BY <1>1, PayAllTyped
  <2>2. QED BY <1>1, <1>4, <2>1
<1>7. left \in Nat /\ owed \in Int
  <2>1. IsFiniteSet(D) /\ \A i \in D : Pendings(new.inst)[i] \in Nat
    BY <1>5, <1>6, PendingsInt
  <2>2. \A i \in D : Pendings(doc.inst)[i] \in Int BY <1>1, <1>2, PendingsInt
  <2>3. QED BY <2>1, <2>2, SumNat, SumType
<1>8. OwedBy(new) = left BY <1>6, OwedIs
<1>9. Slack(new) = Slack(doc) /\ Slack(doc) \in {0, 1}
      /\ (doc.kind = "payable" => Slack(doc) = 1)
  BY <1>4 DEF Slack
<1>10. doc.pending \in Int BY Fields
<1>. HIDE DEF owed, left
<1>11. new.pending \in (left - Slack(doc))..(left + Slack(doc))
  BY <1>2, <1>4, <1>5, <1>7, <1>9, <1>10
<1>12. AddsUp(new) BY <1>5, <1>6, <1>8, <1>9, <1>11 DEF AddsUp
<1>13. QED BY <1>12 DEF new

LEMMA InReviewAddsUp ==
  ASSUME NEW doc \in AccountDoc, NEW i \in DOMAIN doc.inst, AddsUp(doc)
  PROVE  AddsUp(InReview(doc, i))
<1>. DEFINE new == InReview(doc, i)
            D == DOMAIN doc.inst
<1>1. /\ new \in AccountDoc /\ SameShape(new, doc) /\ new.pending = doc.pending
      /\ \A j \in D \ {i} : new.inst[j] = doc.inst[j]
      /\ new.inst[i] = [doc.inst[i] EXCEPT !.status = "IN_REVIEW"]
  BY InReviewGood
<1>. HIDE DEF new
<1>2. DOMAIN new.inst = D /\ doc.inst # <<>> /\ new.inst # <<>>
      /\ new.kind = doc.kind /\ \A j \in D : doc.inst[j] \in InstallmentDoc
  BY <1>1, Fields DEF SameShape
<1>3. \A j \in D : SoundInst(doc.inst[j]) BY <1>2 DEF AddsUp
<1>4. /\ new.inst[i].status = "IN_REVIEW"
      /\ new.inst[i].pending = doc.inst[i].pending
      /\ new.inst[i].amount = doc.inst[i].amount
  BY <1>1, <1>2 DEF InstallmentDoc
<1>5. \A j \in D : SoundInst(new.inst[j])
  <2>1. SoundInst(new.inst[i]) BY <1>3, <1>4 DEF SoundInst
  <2>2. QED BY <1>1, <1>3, <2>1
<1>6. Pendings(new.inst) = Pendings(doc.inst)
  <2>1. \A j \in D : new.inst[j].pending = doc.inst[j].pending BY <1>1, <1>4
  <2>2. QED BY <1>2, <2>1 DEF Pendings
<1>7. OwedBy(new) = OwedBy(doc) BY <1>2, <1>6, OwedIs
<1>8. AddsUp(new) BY <1>1, <1>2, <1>5, <1>7 DEF AddsUp, Slack
<1>9. QED BY <1>8 DEF new

LEMMA NewAddsUp ==
  ASSUME NEW prices \in PriceLists, NEW total \in Nat,
         NEW kind \in {"payable", "receivable"},
         prices # <<>> => total \in (Total(prices) - 1)..(Total(prices) + 1),
         kind = "receivable" => prices # <<>> /\ total = Total(prices)
  PROVE  AddsUp(NewAccount(kind, prices, total))
<1>. DEFINE new == NewAccount(kind, prices, total)
            D == DOMAIN prices
<1>1. /\ new \in AccountDoc /\ new.kind = kind /\ new.pending = total
      /\ DOMAIN new.inst = D
      /\ \A i \in D : /\ prices[i] \in Nat \ {0}
                      /\ new.inst[i].amount = prices[i]
                      /\ new.inst[i].pending = prices[i]
                      /\ new.inst[i].status = "PENDING"
  BY NewAccountGood
<1>. HIDE DEF new
<1>2. \A i \in D : SoundInst(new.inst[i]) BY <1>1 DEF SoundInst
<1>3. OwedBy(new) = Total(prices)
  <2>1. IsFiniteSet(D) BY TotalType
  <2>2. \A i \in D : Pendings(new.inst)[i] = prices[i] BY <1>1 DEF Pendings
  <2>3. SumOf(Pendings(new.inst), D) = SumOf(prices, D) BY <2>1, <2>2, SumExt
  <2>4. OwedBy(new) = SumOf(Pendings(new.inst), D) BY <1>1, OwedIs
  <2>5. QED BY <2>3, <2>4 DEF Total, SumFunction, SumOf
<1>4. Total(prices) \in Int BY TotalType
<1>5. ASSUME new.inst # <<>> PROVE prices # <<>>
  <2>1. new.inst \in Seq(InstallmentDoc) BY <1>1, Fields
  <2>2. D # {} BY <1>1, <1>5, <2>1
  <2>3. QED BY <2>2
<1>6. prices # <<>> =>
        total \in (Total(prices) - Slack(new))..(Total(prices) + Slack(new))
  BY <1>1, <1>4 DEF Slack
<1>7. AddsUp(new)
  BY <1>1, <1>2, <1>3, <1>5, <1>6 DEF AddsUp
<1>8. QED BY <1>7 DEF new
-----------------------------------------------------------------------------
(***************************************************************************)
(* Accounts and the copies of accounts that requests hold: each of them    *)
(* agrees with itself, adds up while its account got careful payments      *)
(* only, and shows as in review only what a contribution declares.         *)
(***************************************************************************)
Backed(C, a, i) ==
  \E x \in Contribution :
    C[x] # NoDoc /\ C[x].account = a /\ C[x].inst = i

Fine(C, care, a, doc) ==
  /\ Agrees(doc)
  /\ a \notin care => AddsUp(doc)
  /\ \A i \in DOMAIN doc.inst : doc.inst[i].status = "IN_REVIEW" =>
       doc.kind = "receivable" /\ Backed(C, a, i)

FineHand(C, care, s) ==
  /\ s.step \in Copying => Fine(C, care, s.account, s.doc)
  /\ s.step = "declared" => Backed(C, s.account, Head(s.list))

FineInv ==
  /\ Typed
  /\ \A a \in Existing : Fine(contrib, careless, a, acct[a])
  /\ \A q \in Request : FineHand(contrib, careless, req[q])

LEMMA FineMore ==
  ASSUME Grown, careless \subseteq careless'
  PROVE  /\ \A a, i : Backed(contrib, a, i) => Backed(contrib', a, i)
         /\ \A a, doc : Fine(contrib, careless, a, doc) =>
                        Fine(contrib', careless', a, doc)
         /\ \A s : FineHand(contrib, careless, s) => FineHand(contrib', careless', s)
<1>1. \A a, i : Backed(contrib, a, i) => Backed(contrib', a, i)
  BY DEF Backed, Grown, SameLink
<1>2. \A a, doc : Fine(contrib, careless, a, doc) =>
                  Fine(contrib', careless', a, doc)
  BY <1>1 DEF Fine
<1>3. QED BY <1>1, <1>2 DEF FineHand

LEMMA FineKept ==
  ASSUME FineInv, Grown, Typed', careless \subseteq careless',
         \A a \in Account : acct'[a] # NoDoc =>
           \/ acct[a] # NoDoc /\ acct'[a] = acct[a]
           \/ Fine(contrib', careless', a, acct'[a]),
         \A q \in Request :
           req'[q] = req[q] \/ FineHand(contrib', careless', req'[q])
  PROVE  FineInv'
<1>1. \A a \in Account : acct'[a] # NoDoc =>
        Fine(contrib', careless', a, acct'[a])
  BY FineMore DEF FineInv, Existing
<1>2. \A q \in Request : FineHand(contrib', careless', req'[q])
  BY FineMore DEF FineInv
<1>3. QED BY <1>1, <1>2 DEF FineInv, Existing

(* No request, or the one request q, takes a step; no account, or the one  *)
(* account a, is written.                                                  *)
LEMMA OneOther ==
  ASSUME Typed, NEW q \in Request, NEW t, req' = [req EXCEPT ![q] = t]
  PROVE  req'[q] = t /\ \A p \in Request \ {q} : req'[p] = req[p]
  BY HandFacts

LEMMA OneAccount ==
  ASSUME Typed, NEW a \in Account, NEW doc, acct' = [acct EXCEPT ![a] = doc]
  PROVE  acct'[a] = doc /\ \A b \in Account \ {a} : acct'[b] = acct[b]
  BY DEF Typed, TypeOK

LEMMA FineIdle == \A C, care : FineHand(C, care, Idle)
  BY IdleOK DEF FineHand, Copying

(* A request that writes a fine account and ends, or goes on holding the   *)
(* copy it had.                                                            *)
LEMMA FineWrite ==
  ASSUME FineInv, Grown, Typed', careless \subseteq careless',
         NEW a \in Account, NEW doc, acct' = [acct EXCEPT ![a] = doc],
         Fine(contrib', careless', a, doc),
         NEW q \in Request, NEW t, req' = [req EXCEPT ![q] = t],
         FineHand(contrib', careless', t)
  PROVE  FineInv'
<1>1. Typed BY DEF FineInv
<1>2. req'[q] = t /\ \A p \in Request \ {q} : req'[p] = req[p]
  BY <1>1, OneOther
<1>3. acct'[a] = doc /\ \A b \in Account \ {a} : acct'[b] = acct[b]
  BY <1>1, OneAccount
<1>4. QED BY <1>2, <1>3, FineKept

LEMMA FineSession ==
  ASSUME FineInv, Grown, Typed', careless \subseteq careless', UNCHANGED acct,
         NEW q \in Request, NEW t, req' = [req EXCEPT ![q] = t],
         FineHand(contrib', careless', t)
  PROVE  FineInv'
<1>1. Typed BY DEF FineInv
<1>2. req'[q] = t /\ \A p \in Request \ {q} : req'[p] = req[p]
  BY <1>1, OneOther
<1>3. QED BY <1>2, FineKept

(* What the request at hand holds is fine.                                 *)
LEMMA FineCopy ==
  ASSUME FineInv, NEW q \in Request, req[q].step \in Copying
  PROVE  /\ CopyOK(acct, req[q])
         /\ Fine(contrib, careless, req[q].account, req[q].doc)
<1>1. Typed BY DEF FineInv
<1>2. QED BY <1>1, HandFacts DEF FineInv, FineHand

LEMMA FineRollBack ==
  ASSUME FineInv, Grown, Typed', careless \subseteq careless',
         NEW q \in Request, req[q].step \in Copying,
         RollBack(req[q]), Finish(q)
  PROVE  FineInv'
<1>1. /\ CopyOK(acct, req[q])
      /\ Fine(contrib, careless, req[q].account, req[q].doc)
  BY FineCopy
<1>2. Fine(contrib', careless', req[q].account, req[q].doc) BY <1>1, FineMore
<1>3. QED BY <1>1, <1>2, FineIdle, FineWrite DEF RollBack, Finish, CopyOK

LEMMA InitFine == ASSUME Init PROVE FineInv
<1>1. Typed BY InitTyped
<1>2. \A q \in Request : req[q] = Idle BY DEF Init
<1>3. \A a \in Account : acct[a] = NoDoc BY DEF Init
<1>4. QED BY <1>1, <1>2, <1>3, FineIdle DEF FineInv, Existing

LEMMA NewFine ==
  ASSUME NEW prices \in PriceLists, NEW total \in Sum,
         NEW kind \in {"payable", "receivable"}, NEW C, NEW care, NEW a,
         prices # <<>> => total \in (Total(prices) - 1)..(Total(prices) + 1),
         kind = "receivable" => prices # <<>> /\ total = Total(prices)
  PROVE  Fine(C, care, a, NewAccount(kind, prices, total))
<1>1. total \in Nat BY AmountIs
<1>. DEFINE new == NewAccount(kind, prices, total)
<1>2. AddsUp(new) BY <1>1, NewAddsUp
<1>3. /\ Agrees(new) /\ DOMAIN new.inst = DOMAIN prices
      /\ \A i \in DOMAIN prices : new.inst[i].status = "PENDING"
  BY <1>1, NewAccountGood
<1>. HIDE DEF new
<1>4. Fine(C, care, a, new) BY <1>2, <1>3 DEF Fine
<1>5. QED BY <1>4 DEF new

LEMMA CreateFine ==
  ASSUME FineInv, Grown, Typed', NEW a \in Account, CreatesAccount(a)
  PROVE  FineInv'
<1>1. PICK prices \in PriceLists, total \in Sum, kind \in {"payable", "receivable"} :
        /\ acct' = [acct EXCEPT ![a] = NewAccount(kind, prices, total)]
        /\ prices # <<>> => total \in (Total(prices) - 1)..(Total(prices) + 1)
        /\ kind = "receivable" => prices # <<>> /\ total = Total(prices)
  BY DEF CreatesAccount
<1>. DEFINE new == NewAccount(kind, prices, total)
<1>2. Fine(contrib', careless', a, new) BY <1>1, NewFine
<1>. HIDE DEF new
<1>3. acct'[a] = new /\ \A b \in Account \ {a} : acct'[b] = acct[b]
  <2>1. Typed BY DEF FineInv
  <2>2. acct' = [acct EXCEPT ![a] = new] BY <1>1 DEF new
  <2>3. QED BY <2>1, <2>2, OneAccount
<1>4. careless' = careless /\ req' = req BY DEF CreatesAccount, history
<1>5. QED BY <1>2, <1>3, <1>4, FineKept

LEMMA PayStoreFine ==
  ASSUME FineInv, NEW q \in Request, PayStore(q), Grown, Typed'
  PROVE  FineInv'
<1>. DEFINE s == req[q]
            new == Paid(s.doc, s.list, s.amount)
<1>1. s.step = "paying" /\ s.step \in Copying BY DEF PayStore, Copying
<1>2. CopyOK(acct, s) /\ Fine(contrib, careless, s.account, s.doc)
  BY <1>1, FineCopy
<1>3. Typed /\ careless \subseteq careless' BY DEF FineInv, PayStore
<1>4. CASE ~Known(s)
  <2>1. RollBack(s) /\ Finish(q) BY <1>4 DEF PayStore
  <2>2. QED BY <1>1, <1>3, <2>1, FineRollBack
<1>5. CASE Known(s)
  <2>1. /\ acct' = [acct EXCEPT ![s.account] = new]
        /\ req' = [req EXCEPT ![q].step = "stored"]
        /\ careless' = IF Careful(s.doc, s.list, s.amount) THEN careless
                       ELSE careless \union {s.account}
    BY <1>5 DEF PayStore
  <2>2. /\ new.kind = s.doc.kind /\ Len(new.inst) = Len(s.doc.inst)
        /\ new \in AccountDoc /\ new.inst = PayAll(s.doc.inst, s.list, s.amount)
        /\ Agrees(s.doc) => Agrees(new)
    BY <1>1, <1>3, <1>5, KnownIs DEF SameShape
  <2>3. /\ s.doc \in AccountDoc /\ s.list \in Seq(Installment) \ {<<>>}
        /\ s.amount \in Nat \ {0} /\ s.doc.inst \in Seq(InstallmentDoc)
        /\ \A n \in DOMAIN s.list : s.list[n] \in DOMAIN s.doc.inst
    BY <1>2, <1>5, Fields DEF CopyOK, Known
  <2>4. s.account \notin careless' => AddsUp(new)
    <3>. DEFINE doc == s.doc
                list == s.list
                amount == s.amount
    <3>1. SUFFICES ASSUME s.account \notin careless' PROVE AddsUp(new) OBVIOUS
    <3>2. s.account \notin careless /\ Careful(doc, list, amount)
      BY <2>1, <3>1
    <3>3. AddsUp(doc) BY <1>2, <3>2 DEF Fine
    <3>4. /\ doc \in AccountDoc /\ list \in Seq(Installment) \ {<<>>}
          /\ amount \in Nat \ {0}
          /\ \A n \in DOMAIN list : list[n] \in DOMAIN doc.inst
      BY <2>3
    <3>. HIDE DEF doc, list, amount
    <3>5. AddsUp(Paid(doc, list, amount)) BY <3>2, <3>3, <3>4, PaidAddsUp
    <3>6. QED BY <3>5 DEF doc, list, amount
  <2>5. ASSUME NEW i \in DOMAIN new.inst, new.inst[i].status = "IN_REVIEW"
        PROVE  i \in DOMAIN s.doc.inst /\ s.doc.inst[i].status = "IN_REVIEW"
    <3>. DEFINE insts == s.doc.inst
                list == s.list
                amount == s.amount
    <3>1. /\ insts \in Seq(InstallmentDoc) /\ list \in Seq(Installment)
          /\ amount \in Nat /\ \A n \in DOMAIN list : list[n] \in DOMAIN insts
      BY <2>3
    <3>2. new.inst = PayAll(insts, list, amount) BY <2>2
    <3>. HIDE DEF insts, list, amount, new
    <3>3. /\ Len(new.inst) = Len(insts) /\ new.inst \in Seq(InstallmentDoc)
          /\ \A j \in DOMAIN insts : new.inst[j].status = "IN_REVIEW" =>
               insts[j].status = "IN_REVIEW"
      BY <3>1, <3>2, PayAllTyped
    <3>4. i \in DOMAIN insts BY <3>1, <3>3
    <3>5. QED BY <2>5, <3>3, <3>4 DEF insts
  <2>. HIDE DEF new
  <2>6. Fine(contrib, careless', s.account, new)
    BY <1>2, <2>2, <2>4, <2>5 DEF Fine
  <2>7. contrib' = contrib BY DEF PayStore
  <2>. DEFINE t == [s EXCEPT !.step = "stored"]
  <2>8. FineHand(contrib', careless', t)
    <3>1. Fine(contrib', careless', s.account, s.doc) BY <1>2, <1>3, FineMore
    <3>2. s \in Session BY <1>3, HandFacts
    <3>3. t.step = "stored" /\ t.account = s.account /\ t.doc = s.doc
      BY <3>2, StepOn
    <3>4. QED BY <3>1, <3>3 DEF FineHand
  <2>9. req' = [req EXCEPT ![q] = t] BY <1>3, <2>1, HandFacts
  <2>. HIDE DEF t
  <2>10. s.account \in Account BY <1>2 DEF CopyOK
  <2>11. QED BY <1>3, <2>1, <2>6, <2>7, <2>8, <2>9, <2>10, FineWrite
<1>6. QED BY <1>4, <1>5

LEMMA PayCommitFine ==
  ASSUME FineInv, NEW q \in Request, PayCommit(q), Grown, Typed'
  PROVE  FineInv'
<1>1. /\ req[q].step \in Copying /\ careless' = careless /\ Finish(q)
      /\ RollBack(req[q]) \/ UNCHANGED acct
  BY DEF PayCommit, Copying
<1>2. CASE RollBack(req[q]) BY <1>1, <1>2, FineRollBack
<1>3. CASE UNCHANGED acct BY <1>1, <1>3, FineSession, FineIdle DEF Finish
<1>4. QED BY <1>1, <1>2, <1>3

LEMMA DeclareStoreFine ==
  ASSUME FineInv, NEW q \in Request, DeclareStore(q)
  PROVE  FineInv'
<1>. DEFINE s == req[q]
            t == [s EXCEPT !.step = "declared"]
<1>1. Typed /\ s.step \in Copying /\ acct' = acct /\ careless' = careless
  BY DEF FineInv, DeclareStore, Copying, history
<1>2. /\ Grown /\ Typed' /\ CopyOK(acct, s) /\ req'[q] = t
      /\ \E x \in Contribution :
           /\ contrib'[x] # NoDoc
           /\ contrib'[x] = [status |-> "PENDING_VERIFICATION",
                amount |-> s.amount, account |-> s.account, inst |-> Head(s.list)]
  BY <1>1, DeclareStoreTyped
<1>3. Backed(contrib', s.account, Head(s.list)) BY <1>2 DEF Backed
<1>4. s \in Session /\ req' = [req EXCEPT ![q] = t]
  BY <1>1, HandFacts DEF DeclareStore
<1>5. t.step = "declared" /\ t.account = s.account /\ t.doc = s.doc /\ t.list = s.list
  BY <1>4, StepOn
<1>. HIDE DEF t
<1>6. Fine(contrib', careless', s.account, s.doc) BY <1>1, <1>2, FineCopy, FineMore
<1>7. FineHand(contrib', careless', t) BY <1>3, <1>5, <1>6 DEF FineHand
<1>8. QED BY <1>1, <1>2, <1>4, <1>7, FineSession

LEMMA DeclareMarkFine ==
  ASSUME FineInv, NEW q \in Request, DeclareMark(q), Grown, Typed'
  PROVE  FineInv'
<1>. DEFINE s == req[q]
            i == Head(s.list)
            new == InReview(s.doc, i)
<1>1. /\ s.step = "declared" /\ s.step \in Copying /\ careless' = careless
      /\ contrib' = contrib /\ Finish(q)
      /\ acct' = [acct EXCEPT ![s.account] = new]
  BY DEF DeclareMark, Copying
<1>2. CopyOK(acct, s) /\ Fine(contrib, careless, s.account, s.doc)
  BY <1>1, FineCopy
<1>3. Backed(contrib, s.account, i) BY <1>1 DEF FineInv, FineHand
<1>4. /\ s.doc \in AccountDoc /\ s.account \in Account /\ i \in DOMAIN s.doc.inst
      /\ s.doc.kind = "receivable"
  BY <1>1, <1>2 DEF CopyOK
<1>. HIDE DEF i
<1>5. /\ new.kind = s.doc.kind /\ Len(new.inst) = Len(s.doc.inst)
      /\ new \in AccountDoc
      /\ \A j \in DOMAIN s.doc.inst \ {i} : new.inst[j] = s.doc.inst[j]
      /\ Agrees(s.doc) => Agrees(new)
  BY <1>4, InReviewGood DEF SameShape
<1>6. AddsUp(s.doc) => AddsUp(new) BY <1>4, InReviewAddsUp
<1>. HIDE DEF new
<1>7. DOMAIN new.inst = DOMAIN s.doc.inst BY <1>4, <1>5, Fields
<1>8. Fine(contrib, careless, s.account, new)
  BY <1>2, <1>3, <1>4, <1>5, <1>6, <1>7 DEF Fine
<1>9. QED BY <1>1, <1>4, <1>8, FineIdle, FineWrite DEF Finish

(* A request that has just read an account.                                *)
LEMMA ReadFine ==
  ASSUME FineInv, Grown, Typed', UNCHANGED <<acct, contrib, careless>>,
         NEW q \in Request, req' = [req EXCEPT ![q] = req'[q]],
         \/ req'[q].step \notin Copying
         \/ /\ req'[q].step \in {"paying", "declaring"}
            /\ req'[q].doc = acct[req'[q].account]
  PROVE  FineInv'
<1>. DEFINE t == req'[q]
<1>1. FineHand(contrib, careless, t)
  <2>1. CASE t.step \notin Copying BY <2>1 DEF FineHand, Copying
  <2>2. CASE /\ t.step \in {"paying", "declaring"} /\ t.doc = acct[t.account]
    <3>1. HandOK(acct', contrib', t) BY DEF Typed
    <3>2. t.account \in Account /\ acct[t.account] # NoDoc
      BY <2>2, <3>1 DEF HandOK, CopyOK, Copying
    <3>3. Fine(contrib, careless, t.account, t.doc)
      BY <2>2, <3>2 DEF FineInv, Existing
    <3>4. QED BY <2>2, <3>3 DEF FineHand
  <2>3. QED BY <2>1, <2>2
<1>. HIDE DEF t
<1>2. req' = [req EXCEPT ![q] = t] BY DEF t
<1>3. QED BY <1>1, <1>2, FineSession

LEMMA NextFine ==
  ASSUME FineInv, [Next]_vars
  PROVE  FineInv'
<1>1. Typed /\ Grown /\ Typed' BY NextTyped DEF FineInv
<1>2. CASE UNCHANGED vars
  BY <1>1, <1>2, FineKept DEF vars, docs, history, FineInv, Existing
<1>3. ASSUME NEW a \in Account, CreatesAccount(a) PROVE FineInv'
  BY <1>1, <1>3, CreateFine
<1>4. ASSUME NEW q \in Request, PayRead(q) PROVE FineInv'
  <2>1. /\ UNCHANGED <<acct, contrib, careless>> /\ req' = [req EXCEPT ![q] = req'[q]]
        /\ req'[q].step = "paying" /\ req'[q].doc = acct[req'[q].account]
    BY <1>1, <1>4, PayReadTyped DEF docs, history
  <2>2. QED BY <1>1, <2>1, ReadFine
<1>5. ASSUME NEW q \in Request, DeclareRead(q) PROVE FineInv'
  <2>1. /\ UNCHANGED <<acct, contrib, careless>> /\ req' = [req EXCEPT ![q] = req'[q]]
        /\ req'[q].step = "declaring" /\ req'[q].doc = acct[req'[q].account]
    BY <1>1, <1>5, DeclareReadTyped DEF docs, history
  <2>2. QED BY <1>1, <2>1, ReadFine
<1>6. ASSUME NEW q \in Request, DecideRead(q) PROVE FineInv'
  <2>1. /\ UNCHANGED <<acct, contrib, careless>> /\ req' = [req EXCEPT ![q] = req'[q]]
        /\ req'[q].step = "deciding"
    BY <1>1, <1>6, DecideReadTyped DEF docs, history
  <2>2. req'[q].step \notin Copying BY <2>1 DEF Copying
  <2>3. QED BY <1>1, <2>1, <2>2, ReadFine
<1>7. ASSUME NEW q \in Request, PayFail(q) PROVE FineInv'
  <2>1. /\ req[q].step \in Copying /\ careless' = careless /\ Finish(q)
        /\ RollBack(req[q])
    BY <1>7 DEF PayFail, Copying
  <2>2. QED BY <1>1, <2>1, FineRollBack
<1>8. ASSUME NEW q \in Request, DecideStore(q) PROVE FineInv'
  <2>1. /\ acct' = acct /\ careless' = careless /\ req[q].step = "deciding"
        /\ Finish(q) \/ req' = [req EXCEPT ![q] = [req[q] EXCEPT !.step = "decided"]]
    BY <1>1, <1>8, HandFacts DEF DecideStore, history
  <2>2. CASE Finish(q) BY <1>1, <2>1, <2>2, FineSession, FineIdle DEF Finish
  <2>3. CASE req' = [req EXCEPT ![q] = [req[q] EXCEPT !.step = "decided"]]
    <3>. DEFINE t == [req[q] EXCEPT !.step = "decided"]
    <3>1. req[q] \in Session BY <1>1, HandFacts
    <3>2. t.step = "decided" BY <3>1, StepOn
    <3>. HIDE DEF t
    <3>3. FineHand(contrib', careless', t) BY <3>2 DEF FineHand, Copying
    <3>4. req' = [req EXCEPT ![q] = t] BY <2>3 DEF t
    <3>5. QED BY <1>1, <2>1, <3>3, <3>4, FineSession
  <2>4. QED BY <2>1, <2>2, <2>3
<1>9. ASSUME NEW q \in Request, DecideDispatch(q) PROVE FineInv'
  <2>1. UNCHANGED <<acct, contrib, careless>> BY <1>9 DEF DecideDispatch, docs
  <2>2. CASE ~IsDeclared(req[q].seen)
    BY <1>1, <1>9, <2>1, <2>2, DecideDispatchTyped, FineSession, FineIdle DEF Finish
  <2>3. CASE IsDeclared(req[q].seen)
    <3>1. /\ req' = [req EXCEPT ![q] = req'[q]] /\ req'[q].step = "paying"
          /\ req'[q].doc = acct[req'[q].account]
      BY <1>1, <1>9, <2>3, DecideDispatchTyped
    <3>2. QED BY <1>1, <2>1, <3>1, ReadFine
  <2>4. QED BY <2>2, <2>3
<1>10. CASE Contribute
  BY <1>1, <1>10, FineKept DEF Contribute, history, FineInv, Existing
<1>11. CASE Crash
  BY <1>1, <1>11, FineKept, FineIdle DEF Crash, docs, FineInv, Existing
<1>12. QED
  BY <1>1, <1>2, <1>3, <1>4, <1>5, <1>6, <1>7, <1>8, <1>9, <1>10, <1>11, Steps,
     PayStoreFine, PayCommitFine, DeclareStoreFine, DeclareMarkFine

(* From the invariant to the properties.                                   *)
LEMMA FineIsAgree == ASSUME FineInv PROVE AccountsAgree
  BY DEF FineInv, Fine, AccountsAgree

LEMMA FineIsBacked == ASSUME FineInv PROVE InReviewBacked
<1>1. SUFFICES ASSUME NEW a \in Existing, NEW i \in DOMAIN acct[a].inst,
                      acct[a].inst[i].status = "IN_REVIEW"
               PROVE  Linked(a, i) # {}
  BY DEF InReviewBacked
<1>2. Backed(contrib, a, i) BY <1>1 DEF FineInv, Fine
<1>3. QED BY <1>2 DEF Backed, Linked

LEMMA FineIsAddUp == ASSUME FineInv PROVE InstallmentsAddUp
<1>1. SUFFICES ASSUME NEW a \in Existing \ careless
               PROVE  LET doc  == acct[a]
                          owed == Owed(doc, [i \in DOMAIN doc.inst |-> i])
                          off  == IF doc.kind = "payable" THEN 1 ELSE 0
                      IN  doc.inst # <<>> =>
                            /\ doc.pending \in (owed - off)..(owed + off)
                            /\ \A i \in DOMAIN doc.inst :
                                 /\ doc.inst[i].pending \in 0..doc.inst[i].amount
                                 /\ doc.inst[i].status = "PAID" =>
                                      doc.inst[i].pending = 0
                                 /\ doc.inst[i].pending = 0 =>
                                      doc.inst[i].status \in {"PAID", "IN_REVIEW"}
  BY DEF InstallmentsAddUp
<1>2. AddsUp(acct[a]) BY <1>1 DEF FineInv, Fine
<1>3. QED BY <1>2 DEF AddsUp, SoundInst, OwedBy, Slack
-----------------------------------------------------------------------------
(***************************************************************************)
(* Reviews end: while nothing has gone wrong, a contribution that is not   *)
(* processed yet, or a payment on its way, stands behind each of them.  A  *)
(* declaration that is about to mark an installment may find that it came  *)
(* too late: the account was then paid since it read it, and its write is  *)
(* stale.                                                                  *)
(***************************************************************************)
Ends(C, R, a, i) ==
  \/ \E x \in Contribution :
       /\ C[x] # NoDoc /\ C[x].account = a /\ C[x].inst = i
       /\ C[x].status # "PROCESSED"
  \/ \E q \in Request :
       R[q].step = "decided" /\ R[q].seen.account = a /\ R[q].seen.inst = i
  \/ \E q \in Request :
       R[q].step = "paying" /\ R[q].account = a /\ R[q].list = <<i>>

ReviewHand(A, C, R, s) ==
  /\ s.step \in Copying /\ s.doc.kind = "receivable" =>
       s.doc.paid =< A[s.account].paid
  /\ s.step = "declared" =>
       \/ Ends(C, R, s.account, Head(s.list))
       \/ A[s.account].paid > s.doc.paid

InReviewAt(A, a, i) ==
  /\ A[a] # NoDoc /\ i \in DOMAIN A[a].inst
  /\ A[a].inst[i].status = "IN_REVIEW"

Reviews ==
  /\ \A a \in Account : \A i :
       InReviewAt(acct, a, i) => Ends(contrib, req, a, i)
  /\ \A q \in Request : ReviewHand(acct, contrib, req, req[q])

ReviewInv == FineInv /\ (incidents = {} => Reviews)

(* What a step may do while nothing goes wrong: it ends what stands behind *)
(* a review only by paying the installment; no receivable account is paid  *)
(* less; it puts in review only what had something behind it.              *)
Pays(a, i) ==
  acct'[a].paid > acct[a].paid /\ ~InReviewAt(acct', a, i)

Reviewing ==
  /\ \A a \in Account : \A i :
       acct[a] # NoDoc /\ i \in DOMAIN acct[a].inst
         /\ Ends(contrib, req, a, i)
       => Ends(contrib', req', a, i) \/ Pays(a, i)
  /\ \A a \in Account : acct[a] # NoDoc /\ acct[a].kind = "receivable" =>
       acct'[a].paid >= acct[a].paid
  /\ \A a \in Account : \A i : InReviewAt(acct', a, i) =>
       /\ acct[a] # NoDoc /\ i \in DOMAIN acct[a].inst
       /\ Ends(contrib, req, a, i)
  /\ \A q \in Request :
       req'[q] = req[q] \/ ReviewHand(acct', contrib', req', req'[q])

LEMMA PaidIn ==
  ASSUME Typed, NEW a \in Account, acct[a] # NoDoc
  PROVE  /\ acct[a] \in AccountDoc /\ acct[a].paid \in Nat
         /\ DOMAIN acct[a].inst = 1..Len(acct[a].inst)
<1>1. acct[a] \in AccountDoc BY DEF Typed, TypeOK
<1>2. QED BY <1>1, Fields

LEMMA ReviewKept ==
  ASSUME FineInv, Reviews, Grown, Typed', Reviewing
  PROVE  Reviews'
<1>1. Typed BY DEF FineInv
<1>2. ASSUME NEW a \in Account, NEW i, InReviewAt(acct', a, i)
      PROVE  Ends(contrib', req', a, i)
  BY <1>2 DEF Reviewing, Pays
<1>3. ASSUME NEW q \in Request PROVE ReviewHand(acct', contrib', req', req'[q])
  <2>. DEFINE s == req[q]
  <2>1. CASE ReviewHand(acct', contrib', req', req'[q]) BY <2>1
  <2>2. CASE req'[q] = s
    <3>1. ReviewHand(acct, contrib, req, s) BY DEF Reviews
    <3>2. CASE s.step \in Copying /\ s.doc.kind = "receivable"
      <4>1. CopyOK(acct, s) BY <1>1, <3>2, HandFacts
      <4>2. /\ s.account \in Account /\ acct[s.account] # NoDoc
            /\ acct[s.account].kind = "receivable" /\ s.doc \in AccountDoc
            /\ Len(s.doc.inst) = Len(acct[s.account].inst)
        BY <3>2, <4>1 DEF CopyOK, SameShape
      <4>3. acct[s.account].paid \in Nat /\ s.doc.paid \in Nat
            /\ DOMAIN s.doc.inst = DOMAIN acct[s.account].inst
        BY <1>1, <4>2, PaidIn, Fields
      <4>4. acct'[s.account].paid \in Nat
        <5>1. acct'[s.account] # NoDoc BY <4>2 DEF Grown
        <5>2. acct'[s.account] \in AccountDoc BY <4>2, <5>1 DEF Grown
        <5>3. QED BY <5>2, Fields
      <4>5. acct'[s.account].paid >= acct[s.account].paid
        BY <4>2 DEF Reviewing
      <4>6. s.doc.paid =< acct'[s.account].paid
        BY <3>1, <3>2, <4>3, <4>4, <4>5 DEF ReviewHand
      <4>7. ASSUME s.step = "declared"
            PROVE  \/ Ends(contrib', req', s.account, Head(s.list))
                   \/ acct'[s.account].paid > s.doc.paid
        <5>1. Head(s.list) \in DOMAIN acct[s.account].inst
          BY <4>1, <4>3, <4>7 DEF CopyOK
        <5>2. CASE acct[s.account].paid > s.doc.paid
          BY <4>3, <4>4, <4>5, <5>2
        <5>3. CASE Ends(contrib, req, s.account, Head(s.list))
          <6>1. \/ Ends(contrib', req', s.account, Head(s.list))
                \/ Pays(s.account, Head(s.list))
            BY <4>2, <5>1, <5>3 DEF Reviewing
          <6>2. s.doc.paid =< acct[s.account].paid
            BY <3>1, <3>2 DEF ReviewHand
          <6>3. QED BY <4>3, <4>4, <6>1, <6>2 DEF Pays
        <5>4. QED BY <3>1, <4>7, <5>2, <5>3 DEF ReviewHand
      <4>8. QED BY <2>2, <4>6, <4>7 DEF ReviewHand
    <3>3. CASE ~(s.step \in Copying /\ s.doc.kind = "receivable")
      <4>1. s.step # "declared"
        <5>1. SUFFICES ASSUME s.step = "declared" PROVE FALSE OBVIOUS
        <5>2. s.step \in Copying BY <5>1 DEF Copying
        <5>3. CopyOK(acct, s) BY <1>1, <5>2, HandFacts
        <5>4. QED BY <3>3, <5>1, <5>2, <5>3 DEF CopyOK
      <4>2. QED BY <2>2, <3>3, <4>1 DEF ReviewHand
    <3>4. QED BY <3>2, <3>3
  <2>3. QED BY <2>1, <2>2 DEF Reviewing
<1>4. QED BY <1>2, <1>3 DEF Reviews

(* Steps that write no account.                                            *)
LEMMA ReviewSame ==
  ASSUME FineInv, Reviews, UNCHANGED acct,
         \A a \in Account : \A i : Ends(contrib, req, a, i) => Ends(contrib', req', a, i),
         \A q \in Request :
           req'[q] = req[q] \/ ReviewHand(acct', contrib', req', req'[q])
  PROVE  Reviewing
<1>1. Typed BY DEF FineInv
<1>2. \A a \in Account : acct[a] # NoDoc => acct'[a].paid >= acct[a].paid
  BY <1>1, PaidIn
<1>3. QED BY <1>2 DEF Reviewing, Reviews, InReviewAt

(* A request that stood behind nothing goes on or ends.                    *)
LEMMA EndsKept ==
  ASSUME Typed, NEW q \in Request, NEW t, req' = [req EXCEPT ![q] = t],
         UNCHANGED contrib,
         \/ req[q].step \notin {"decided", "paying"}
         \/ /\ req[q].step = "decided" /\ t.step = "paying"
            /\ t.account = req[q].seen.account /\ t.list = <<req[q].seen.inst>>
  PROVE  \A a, i : Ends(contrib, req, a, i) => Ends(contrib', req', a, i)
<1>1. req'[q] = t /\ \A p \in Request \ {q} : req'[p] = req[p] BY OneOther
<1>2. QED BY <1>1 DEF Ends

LEMMA EndsIdle == \A A, C, R : ReviewHand(A, C, R, Idle)
  BY IdleOK DEF ReviewHand, Copying

LEMMA NotStale ==
  ASSUME NEW anomaly, NEW happened, NEW old,
         old \union Noted(anomaly, happened) = {}
  PROVE  ~happened
  BY DEF Noted

LEMMA CreateReviewing ==
  ASSUME FineInv, Reviews, NEW a \in Account, CreatesAccount(a)
  PROVE  Reviewing
<1>1. Typed /\ contrib' = contrib /\ req' = req /\ acct[a] = NoDoc
  BY DEF FineInv, CreatesAccount
<1>2. PICK prices \in PriceLists, total \in Sum, kind \in {"payable", "receivable"} :
        acct' = [acct EXCEPT ![a] = NewAccount(kind, prices, total)]
  BY DEF CreatesAccount
<1>. DEFINE new == NewAccount(kind, prices, total)
<1>3. \A i \in DOMAIN new.inst : new.inst[i].status = "PENDING"
  BY AmountIs, NewAccountGood
<1>. HIDE DEF new
<1>4. acct'[a] = new /\ \A b \in Account \ {a} : acct'[b] = acct[b]
  <2>1. acct' = [acct EXCEPT ![a] = new] BY <1>2 DEF new
  <2>2. QED BY <1>1, <2>1, OneAccount
<1>5. \A i : ~InReviewAt(acct', a, i) BY <1>3, <1>4 DEF InReviewAt
<1>6. \A b \in Account : acct[b] # NoDoc => acct'[b].paid >= acct[b].paid
  BY <1>1, <1>4, PaidIn
<1>7. \A b \in Account : \A i : InReviewAt(acct', b, i) =>
        /\ acct[b] # NoDoc /\ i \in DOMAIN acct[b].inst
        /\ Ends(contrib, req, b, i)
  BY <1>4, <1>5 DEF InReviewAt, Reviews
<1>8. QED BY <1>1, <1>6, <1>7 DEF Reviewing

LEMMA ReadReviewing ==
  ASSUME FineInv, Reviews, Typed', UNCHANGED <<acct, contrib>>,
         NEW q \in Request, req[q] = Idle, req' = [req EXCEPT ![q] = req'[q]],
         \/ req'[q].step = "deciding"
         \/ /\ req'[q].step \in {"paying", "declaring"}
            /\ req'[q].doc = acct[req'[q].account]
  PROVE  Reviewing
<1>. DEFINE t == req'[q]
<1>1. Typed BY DEF FineInv
<1>2. \A a, i : Ends(contrib, req, a, i) => Ends(contrib', req', a, i)
  BY <1>1, EndsKept, IdleOK
<1>3. ReviewHand(acct', contrib', req', t)
  <2>1. CASE t.step = "deciding" BY <2>1 DEF ReviewHand, Copying
  <2>2. CASE t.step \in {"paying", "declaring"} /\ t.doc = acct[t.account]
    <3>1. HandOK(acct', contrib', t) BY DEF Typed
    <3>2. t.doc \in AccountDoc BY <2>2, <3>1 DEF HandOK, CopyOK, Copying
    <3>3. t.doc.paid \in Nat BY <3>2, Fields
    <3>4. QED BY <2>2, <3>3 DEF ReviewHand
  <2>3. QED BY <2>1, <2>2
<1>4. \A p \in Request : req'[p] = req[p] \/ ReviewHand(acct', contrib', req', req'[p])
  BY <1>1, <1>3, OneOther
<1>5. QED BY <1>2, <1>4, ReviewSame

LEMMA PayCommitReviewing ==
  ASSUME FineInv, Reviews, NEW q \in Request, PayCommit(q)
  PROVE  Reviewing
<1>. DEFINE s == req[q]
<1>1. /\ s.step = "stored" /\ s.step \in Copying /\ contrib' = contrib /\ Finish(q)
      /\ IF s.center THEN UNCHANGED acct ELSE RollBack(s)
  BY DEF PayCommit, Copying
<1>2. Typed /\ CopyOK(acct, s) /\ Fine(contrib, careless, s.account, s.doc)
  BY <1>1, FineCopy DEF FineInv
<1>3. \A a, i : Ends(contrib, req, a, i) => Ends(contrib', req', a, i)
  BY <1>1, <1>2, EndsKept DEF Finish
<1>4. \A p \in Request : req'[p] = req[p] \/ ReviewHand(acct', contrib', req', req'[p])
  BY <1>1, <1>2, OneOther, EndsIdle DEF Finish
<1>5. CASE s.center BY <1>1, <1>3, <1>4, <1>5, ReviewSame
<1>6. CASE ~s.center
  <2>1. /\ s.account \in Account /\ s.doc.kind = "payable"
        /\ acct[s.account].kind = "payable" /\ s.doc \in AccountDoc
    <3>1. s.doc \in AccountDoc BY <1>2 DEF CopyOK
    <3>2. s.doc.kind = "payable" BY <1>2, <1>6, <3>1, Fields DEF CopyOK
    <3>3. QED BY <1>2, <3>1, <3>2 DEF CopyOK, SameShape
  <2>2. acct'[s.account] = s.doc /\ \A b \in Account \ {s.account} : acct'[b] = acct[b]
    BY <1>1, <1>2, <1>6, <2>1, OneAccount DEF RollBack
  <2>3. \A i : ~InReviewAt(acct', s.account, i)
    BY <1>2, <2>1, <2>2 DEF Fine, InReviewAt
  <2>4. \A a \in Account : acct[a] # NoDoc /\ acct[a].kind = "receivable" =>
          acct'[a].paid >= acct[a].paid
    BY <1>2, <2>1, <2>2, PaidIn
  <2>5. \A a \in Account : \A i : InReviewAt(acct', a, i) =>
          /\ acct[a] # NoDoc /\ i \in DOMAIN acct[a].inst
          /\ Ends(contrib, req, a, i)
    BY <2>2, <2>3 DEF InReviewAt, Reviews
  <2>6. QED BY <1>3, <1>4, <2>4, <2>5 DEF Reviewing
<1>7. QED BY <1>5, <1>6

LEMMA DeclareStoreReviewing ==
  ASSUME FineInv, Reviews, NEW q \in Request, DeclareStore(q)
  PROVE  Reviewing
<1>. DEFINE s == req[q]
            t == [s EXCEPT !.step = "declared"]
<1>1. Typed /\ s.step = "declaring" /\ s.step \in Copying /\ acct' = acct
  BY DEF FineInv, DeclareStore, Copying
<1>2. /\ CopyOK(acct, s) /\ req'[q] = t
      /\ \E x \in Contribution :
           /\ contrib[x] = NoDoc /\ contrib'[x] # NoDoc
           /\ contrib'[x] = [status |-> "PENDING_VERIFICATION",
                amount |-> s.amount, account |-> s.account, inst |-> Head(s.list)]
           /\ \A y \in Contribution \ {x} : contrib'[y] = contrib[y]
  BY <1>1, DeclareStoreTyped
<1>3. s \in Session /\ req' = [req EXCEPT ![q] = t]
  BY <1>1, HandFacts DEF DeclareStore
<1>4. t.step = "declared" /\ t.account = s.account /\ t.doc = s.doc /\ t.list = s.list
  BY <1>3, StepOn
<1>. HIDE DEF t
<1>5. \A p \in Request \ {q} : req'[p] = req[p] BY <1>1, <1>3, OneOther
<1>6. \A a, i : Ends(contrib, req, a, i) => Ends(contrib', req', a, i)
  BY <1>1, <1>2, <1>5 DEF Ends
<1>7. Ends(contrib', req', s.account, Head(s.list)) BY <1>2 DEF Ends
<1>8. s.step \in Copying /\ s.doc.kind = "receivable" =>
        s.doc.paid =< acct[s.account].paid
  BY DEF Reviews, ReviewHand
<1>9. ReviewHand(acct', contrib', req', t)
  BY <1>1, <1>4, <1>7, <1>8 DEF ReviewHand
<1>10. QED BY <1>1, <1>2, <1>5, <1>6, <1>9, ReviewSame

LEMMA DeclareMarkReviewing ==
  ASSUME FineInv, Reviews, NEW q \in Request, DeclareMark(q), incidents' = {}
  PROVE  Reviewing
<1>. DEFINE s == req[q]
            i == Head(s.list)
            a == s.account
            new == InReview(s.doc, i)
<1>1. /\ s.step = "declared" /\ s.step \in Copying /\ contrib' = contrib
      /\ Finish(q) /\ acct' = [acct EXCEPT ![a] = new]
      /\ incidents \union Noted("stale", acct[a] # s.doc) = {}
  BY DEF DeclareMark, Copying
<1>2. Typed /\ CopyOK(acct, s) BY <1>1, FineCopy DEF FineInv
<1>3. acct[a] = s.doc BY <1>1, NotStale
<1>4. /\ s.doc \in AccountDoc /\ a \in Account /\ i \in DOMAIN s.doc.inst
      /\ acct[a] # NoDoc /\ acct[a].paid \in Nat
  BY <1>1, <1>2, PaidIn DEF CopyOK
<1>5. Ends(contrib, req, a, i)
  BY <1>1, <1>3, <1>4 DEF Reviews, ReviewHand
<1>. HIDE DEF i, a
<1>6. /\ new \in AccountDoc /\ Len(new.inst) = Len(s.doc.inst)
      /\ new.paid = s.doc.paid
      /\ \A j \in DOMAIN s.doc.inst \ {i} : new.inst[j] = s.doc.inst[j]
  BY <1>4, InReviewGood DEF SameShape
<1>. HIDE DEF new
<1>7. DOMAIN new.inst = DOMAIN s.doc.inst BY <1>4, <1>6, Fields
<1>8. acct'[a] = new /\ \A b \in Account \ {a} : acct'[b] = acct[b]
  BY <1>1, <1>2, <1>4, OneAccount
<1>9. \A b \in Account : \A j : InReviewAt(acct', b, j) =>
        /\ acct[b] # NoDoc /\ j \in DOMAIN acct[b].inst
        /\ Ends(contrib, req, b, j)
  <2>1. ASSUME NEW j, InReviewAt(acct', a, j), j # i
        PROVE  InReviewAt(acct, a, j)
    BY <1>3, <1>4, <1>6, <1>7, <1>8, <2>1 DEF InReviewAt
  <2>2. \A j : InReviewAt(acct', a, j) => j \in DOMAIN acct[a].inst
    BY <1>3, <1>7, <1>8 DEF InReviewAt
  <2>3. \A b \in Account \ {a} : \A j : InReviewAt(acct', b, j) => InReviewAt(acct, b, j)
    BY <1>8 DEF InReviewAt
  <2>4. QED BY <1>4, <1>5, <2>1, <2>2, <2>3 DEF Reviews, InReviewAt
<1>10. \A b \in Account : acct[b] # NoDoc => acct'[b].paid >= acct[b].paid
  BY <1>2, <1>3, <1>4, <1>6, <1>8, PaidIn
<1>11. \A b, j : Ends(contrib, req, b, j) => Ends(contrib', req', b, j)
  BY <1>1, <1>2, EndsKept DEF Finish
<1>12. \A p \in Request : req'[p] = req[p] \/ ReviewHand(acct', contrib', req', req'[p])
  BY <1>1, <1>2, OneOther, EndsIdle DEF Finish
<1>13. QED BY <1>9, <1>10, <1>11, <1>12 DEF Reviewing

LEMMA PayStoreReviewing ==
  ASSUME FineInv, Reviews, NEW q \in Request, PayStore(q), incidents' = {}
  PROVE  Reviewing
<1>. DEFINE s == req[q]
            a == s.account
            new == Paid(s.doc, s.list, s.amount)
<1>1. /\ s.step = "paying" /\ s.step \in Copying /\ contrib' = contrib
      /\ incidents \union Noted("stale", acct[a] # s.doc) = {}
  BY DEF PayStore, Copying
<1>2. Typed /\ CopyOK(acct, s) BY <1>1, FineCopy DEF FineInv
<1>3. acct[a] = s.doc BY <1>1, NotStale
<1>4. /\ s.doc \in AccountDoc /\ a \in Account
      /\ acct[a] # NoDoc /\ acct[a].paid \in Nat
      /\ s.list \in Seq(Installment) \ {<<>>} /\ s.amount \in Nat \ {0}
  BY <1>1, <1>2, PaidIn DEF CopyOK
<1>5. CASE ~Known(s)
  <2>1. RollBack(s) /\ Finish(q) BY <1>5 DEF PayStore
  <2>2. acct' = acct BY <1>2, <1>3, <1>4, <2>1 DEF RollBack, Typed, TypeOK
  <2>3. req'[q] = Idle /\ \A p \in Request \ {q} : req'[p] = req[p]
    BY <1>2, <2>1, OneOther DEF Finish
  <2>4. ASSUME NEW b \in Account, NEW i, acct[b] # NoDoc,
               i \in DOMAIN acct[b].inst, Ends(contrib, req, b, i)
        PROVE  Ends(contrib', req', b, i)
    <3>1. ~(a = b /\ s.list = <<i>>)
      <4>1. SUFFICES ASSUME a = b, s.list = <<i>> PROVE FALSE OBVIOUS
      <4>2. \A n \in DOMAIN s.list : s.list[n] = i BY <4>1
      <4>3. Known(s) BY <1>3, <2>4, <4>1, <4>2 DEF Known
      <4>4. QED BY <1>5, <4>3
    <3>2. QED BY <1>1, <2>3, <2>4, <3>1 DEF Ends
  <2>5. \A p \in Request : req'[p] = req[p] \/ ReviewHand(acct', contrib', req', req'[p])
    BY <2>3, EndsIdle
  <2>6. \A b \in Account : acct[b] # NoDoc => acct'[b].paid >= acct[b].paid
    BY <1>2, <2>2, PaidIn
  <2>7. QED BY <2>2, <2>4, <2>5, <2>6 DEF Reviewing, Reviews, InReviewAt
<1>6. CASE Known(s)
  <2>. DEFINE t == [s EXCEPT !.step = "stored"]
  <2>1. /\ acct' = [acct EXCEPT ![a] = new]
        /\ req' = [req EXCEPT ![q] = t]
    BY <1>2, <1>6, HandFacts DEF PayStore
  <2>2. s \in Session BY <1>2, HandFacts
  <2>3. t.step = "stored" /\ t.account = a /\ t.doc = s.doc
    BY <2>2, StepOn
  <2>. HIDE DEF t
  <2>4. req'[q] = t /\ \A p \in Request \ {q} : req'[p] = req[p]
    BY <1>2, <2>1, OneOther
  <2>5. /\ new.paid = s.doc.paid + s.amount
        /\ new.inst = PayAll(s.doc.inst, s.list, s.amount)
    BY <1>1, <1>2, <1>6, KnownIs
  <2>6. acct'[a] = new /\ \A b \in Account \ {a} : acct'[b] = acct[b]
    BY <1>2, <1>4, <2>1, OneAccount
  <2>7. acct'[a].paid > acct[a].paid BY <1>3, <1>4, <2>5, <2>6
  <2>8. /\ DOMAIN new.inst = DOMAIN s.doc.inst
        /\ \A i \in DOMAIN s.doc.inst : new.inst[i].status = "IN_REVIEW" =>
             /\ s.doc.inst[i].status = "IN_REVIEW"
             /\ \A n \in DOMAIN s.list : s.list[n] # i
    <3>. DEFINE insts == s.doc.inst
                list == s.list
                amount == s.amount
    <3>1. /\ insts \in Seq(InstallmentDoc) /\ list \in Seq(Installment)
          /\ amount \in Nat /\ \A n \in DOMAIN list : list[n] \in DOMAIN insts
      BY <1>4, <1>6, Fields DEF Known
    <3>2. new.inst = PayAll(insts, list, amount) BY <2>5
    <3>. HIDE DEF insts, list, amount, new
    <3>3. /\ Len(new.inst) = Len(insts) /\ new.inst \in Seq(InstallmentDoc)
          /\ \A i \in DOMAIN insts : new.inst[i].status = "IN_REVIEW" =>
               insts[i].status = "IN_REVIEW" /\ \A n \in DOMAIN list : list[n] # i
      BY <3>1, <3>2, PayAllTyped
    <3>4. DOMAIN new.inst = DOMAIN insts BY <3>1, <3>3
    <3>5. QED BY <3>3, <3>4 DEF insts, list
  <2>. HIDE DEF new
  <2>9. ASSUME NEW b \in Account, NEW i, acct[b] # NoDoc,
               i \in DOMAIN acct[b].inst, Ends(contrib, req, b, i)
        PROVE  Ends(contrib', req', b, i) \/ Pays(b, i)
    <3>1. CASE a = b /\ s.list = <<i>>
      <4>1. 1 \in DOMAIN s.list /\ s.list[1] = i BY <3>1
      <4>2. new.inst[i].status # "IN_REVIEW" BY <1>3, <2>8, <2>9, <3>1, <4>1
      <4>3. ~InReviewAt(acct', a, i) BY <2>6, <4>2 DEF InReviewAt
      <4>4. QED BY <2>7, <3>1, <4>3 DEF Pays
    <3>2. CASE ~(a = b /\ s.list = <<i>>)
      BY <1>1, <2>4, <2>9, <3>2 DEF Ends
    <3>3. QED BY <3>1, <3>2
  <2>10. \A b \in Account : acct[b] # NoDoc => acct'[b].paid >= acct[b].paid
    <3>1. acct'[a].paid >= acct[a].paid BY <1>3, <1>4, <2>5, <2>6
    <3>2. \A b \in Account \ {a} : acct[b] # NoDoc => acct'[b].paid >= acct[b].paid
      BY <1>2, <2>6, PaidIn
    <3>3. QED BY <3>1, <3>2
  <2>11. \A b \in Account : \A i : InReviewAt(acct', b, i) =>
           /\ acct[b] # NoDoc /\ i \in DOMAIN acct[b].inst
           /\ Ends(contrib, req, b, i)
    <3>1. \A i : InReviewAt(acct', a, i) => InReviewAt(acct, a, i)
      BY <1>3, <1>4, <2>6, <2>8 DEF InReviewAt
    <3>2. \A b \in Account \ {a} : \A i : InReviewAt(acct', b, i) => InReviewAt(acct, b, i)
      BY <2>6 DEF InReviewAt
    <3>3. QED BY <3>1, <3>2 DEF Reviews, InReviewAt
  <2>12. ReviewHand(acct', contrib', req', t)
    <3>1. s.doc.paid =< acct'[a].paid BY <1>3, <1>4, <2>5, <2>6
    <3>2. QED BY <2>3, <3>1 DEF ReviewHand
  <2>13. QED BY <2>4, <2>9, <2>10, <2>11, <2>12 DEF Reviewing
<1>7. QED BY <1>5, <1>6

LEMMA DecideStoreReviewing ==
  ASSUME FineInv, Reviews, NEW q \in Request, DecideStore(q)
  PROVE  Reviewing
<1>. DEFINE s == req[q]
            t == [s EXCEPT !.step = "decided"]
<1>1. Typed /\ s.step = "deciding" /\ acct' = acct
  BY DEF FineInv, DecideStore
<1>2. /\ DecisionOK(contrib, s)
      /\ contrib' = [contrib EXCEPT ![s.from] = s.seen]
      /\ s.seen.status = "PROCESSED" => req'[q] = t
  BY <1>1, DecideStoreTyped
<1>3. /\ s.from \in Contribution /\ s.seen # NoDoc
      /\ s.seen.account = contrib[s.from].account
      /\ s.seen.inst = contrib[s.from].inst
      /\ contrib'[s.from] = s.seen
      /\ \A y \in Contribution \ {s.from} : contrib'[y] = contrib[y]
  BY <1>1, <1>2, DocAssumption DEF DecisionOK, SameLink, Typed, TypeOK
<1>4. s \in Session /\ \A p \in Request \ {q} : req'[p] = req[p]
  <2>1. req' = [req EXCEPT ![q] = t] \/ req' = [req EXCEPT ![q] = Idle]
    BY <1>1, HandFacts DEF DecideStore, Finish
  <2>. HIDE DEF t
  <2>2. QED BY <1>1, <2>1, HandFacts, OneOther
<1>5. t.step = "decided" /\ t.seen = s.seen BY <1>4, StepOn
<1>6. ReviewHand(acct', contrib', req', req'[q])
  <2>1. req'[q] = t \/ req'[q] = Idle
    BY <1>1, HandFacts DEF DecideStore, Finish
  <2>. HIDE DEF t
  <2>2. QED BY <1>5, <2>1, EndsIdle DEF ReviewHand, Copying
<1>. HIDE DEF t
<1>7. \A a, i : Ends(contrib, req, a, i) => Ends(contrib', req', a, i)
  BY <1>1, <1>2, <1>3, <1>4, <1>5 DEF Ends
<1>8. QED BY <1>1, <1>4, <1>6, <1>7, ReviewSame

LEMMA DecideDispatchReviewing ==
  ASSUME FineInv, Reviews, NEW q \in Request, DecideDispatch(q)
  PROVE  Reviewing
<1>. DEFINE s == req[q]
            t == req'[q]
<1>1. Typed /\ s.step = "decided" /\ UNCHANGED <<acct, contrib>>
  BY DEF FineInv, DecideDispatch, docs
<1>2. CASE IsDeclared(s.seen)
  <2>1. /\ req' = [req EXCEPT ![q] = t] /\ t.step = "paying"
        /\ t.account = s.seen.account /\ t.list = <<s.seen.inst>>
        /\ t.doc = acct[t.account] /\ Typed'
        /\ t.account \in Account /\ acct[t.account] # NoDoc
    BY <1>1, <1>2, DecideDispatchTyped
  <2>2. acct[t.account].paid \in Nat BY <1>1, <2>1, PaidIn
  <2>. HIDE DEF t
  <2>3. \A a, i : Ends(contrib, req, a, i) => Ends(contrib', req', a, i)
    BY <1>1, <2>1, EndsKept
  <2>4. ReviewHand(acct', contrib', req', t)
    BY <1>1, <2>1, <2>2 DEF ReviewHand
  <2>5. req'[q] = t /\ \A p \in Request \ {q} : req'[p] = req[p]
    BY <1>1, <2>1, OneOther
  <2>6. QED BY <1>1, <2>3, <2>4, <2>5, ReviewSame
<1>3. CASE ~IsDeclared(s.seen)
  <2>1. Finish(q) BY <1>1, <1>3, DecideDispatchTyped
  <2>2. req'[q] = Idle /\ \A p \in Request \ {q} : req'[p] = req[p]
    BY <1>1, <2>1, OneOther DEF Finish
  <2>3. s.seen.account \notin Account BY <1>3, AccountAssumption DEF IsDeclared
  <2>4. \A a \in Account : \A i : Ends(contrib, req, a, i) => Ends(contrib', req', a, i)
    BY <1>1, <2>2, <2>3 DEF Ends
  <2>5. QED BY <1>1, <2>2, <2>4, EndsIdle, ReviewSame
<1>4. QED BY <1>2, <1>3

LEMMA ContributeReviewing ==
  ASSUME FineInv, Reviews, Contribute
  PROVE  Reviewing
<1>1. Typed /\ UNCHANGED <<acct, req>> BY DEF FineInv, Contribute
<1>2. PICK x \in Contribution :
        contrib[x] = NoDoc /\ \A y \in Contribution \ {x} : contrib'[y] = contrib[y]
  BY <1>1 DEF Contribute, Typed, TypeOK
<1>3. \A a, i : Ends(contrib, req, a, i) => Ends(contrib', req', a, i)
  BY <1>1, <1>2 DEF Ends
<1>4. QED BY <1>1, <1>3, ReviewSame

LEMMA NextReview ==
  ASSUME ReviewInv, [Next]_vars
  PROVE  ReviewInv'
<1>1. FineInv /\ FineInv' BY NextFine DEF ReviewInv
<1>2. Typed /\ Grown /\ Typed' BY <1>1, NextTyped DEF FineInv
<1>3. SUFFICES ASSUME incidents' = {} PROVE Reviews'
  BY <1>1 DEF ReviewInv
<1>4. incidents = {}
  <2>1. CASE UNCHANGED vars BY <1>3, <2>1 DEF vars, history
  <2>2. ASSUME NEW a \in Account, CreatesAccount(a) PROVE incidents = {}
    BY <1>3, <2>2 DEF CreatesAccount, history
  <2>3. ASSUME NEW q \in Request,
               \/ PayRead(q) \/ DeclareRead(q) \/ DecideRead(q)
               \/ PayStore(q) \/ PayCommit(q) \/ PayFail(q)
               \/ DeclareStore(q) \/ DeclareMark(q)
               \/ DecideStore(q) \/ DecideDispatch(q)
        PROVE  incidents = {}
    BY <1>3, <2>3 DEF PayRead, DeclareRead, DecideRead, PayStore, PayCommit,
       PayFail, DeclareStore, DeclareMark, DecideStore, DecideDispatch, history
  <2>4. CASE Contribute BY <1>3, <2>4 DEF Contribute, history
  <2>5. CASE Crash BY <1>3, <2>5 DEF Crash
  <2>6. QED BY <1>2, <2>1, <2>2, <2>3, <2>4, <2>5, Steps
<1>5. Reviews BY <1>4 DEF ReviewInv
<1>6. SUFFICES ASSUME Next PROVE Reviews'
  BY <1>5 DEF vars, docs, Reviews
<1>7. SUFFICES Reviewing BY <1>1, <1>2, <1>5, ReviewKept
<1>8. ASSUME NEW q \in Request, PayRead(q) \/ DeclareRead(q) \/ DecideRead(q)
      PROVE  Reviewing
  <2>1. /\ UNCHANGED <<acct, contrib>> /\ req[q] = Idle
        /\ req' = [req EXCEPT ![q] = req'[q]]
        /\ \/ req'[q].step = "deciding"
           \/ /\ req'[q].step \in {"paying", "declaring"}
              /\ req'[q].doc = acct[req'[q].account]
    BY <1>2, <1>8, PayReadTyped, DeclareReadTyped, DecideReadTyped DEF docs
  <2>2. QED BY <1>1, <1>2, <1>5, <2>1, ReadReviewing
<1>9. ASSUME NEW q \in Request, PayFail(q) PROVE Reviewing
  BY <1>3, <1>9 DEF PayFail
<1>10. CASE Crash BY <1>3, <1>10 DEF Crash
<1>11. QED
  BY <1>1, <1>2, <1>3, <1>5, <1>6, <1>8, <1>9, <1>10, Steps, CreateReviewing,
     PayStoreReviewing, PayCommitReviewing, DeclareStoreReviewing,
     DeclareMarkReviewing, DecideStoreReviewing, DecideDispatchReviewing,
     ContributeReviewing

LEMMA InitReview == ASSUME Init PROVE ReviewInv
<1>1. FineInv BY InitFine
<1>2. \A a \in Account : acct[a] = NoDoc BY DEF Init
<1>3. \A q \in Request : req[q] = Idle BY DEF Init
<1>4. Reviews BY <1>2, <1>3, EndsIdle DEF Reviews, InReviewAt
<1>5. QED BY <1>1, <1>4 DEF ReviewInv

LEMMA ReviewIsEnds == ASSUME ReviewInv PROVE ReviewEnds
<1>1. SUFFICES ASSUME Settled, incidents = {}, NEW a \in Existing,
                      NEW i \in DOMAIN acct[a].inst,
                      acct[a].inst[i].status = "IN_REVIEW"
               PROVE  \E x \in Linked(a, i) : contrib[x].status # "PROCESSED"
  BY DEF ReviewEnds
<1>2. Ends(contrib, req, a, i)
  BY <1>1 DEF ReviewInv, Reviews, InReviewAt, Existing
<1>3. \A q \in Request : req[q].step = "idle" BY <1>1, IdleOK DEF Settled
<1>4. QED BY <1>2, <1>3 DEF Ends, Linked
-----------------------------------------------------------------------------
(***************************************************************************)
(* Records: what an account counts as paid is what was recorded, and what  *)
(* requests that wrote the account are about to record.                    *)
(***************************************************************************)
Clean(what) == what \intersect {"lost", "crash", "stale"} = {}

Stored(s, a)   == s.step = "stored" /\ s.account = a
StoredBy(R, a) == {q \in Request : Stored(R[q], a)}
Way(R, a)      == SumOf([q \in Request |-> R[q].amount], StoredBy(R, a))
InHand(s, a)   == IF Stored(s, a) THEN s.amount ELSE 0

Matches(A, bk, ans, R, a) ==
  IF A[a] = NoDoc THEN bk[a] = 0 /\ ans[a] = 0
  ELSE /\ A[a].paid = bk[a] + Way(R, a)
       /\ A[a].kind = "receivable" => ans[a] =< bk[a]

RecordInv ==
  /\ Typed
  /\ \A a \in Account : IsFiniteSet(StoredBy(req, a))
  /\ Clean(incidents) => \A a \in Account : Matches(acct, booked, answered, req, a)

(* One request takes a step: what is under way changes by what it has.     *)
OneSteps(R, R2, q) ==
  /\ \A p \in Request \ {q} : R2[p] = R[p]
  /\ \A p \in Request : R[p].amount \in Nat /\ R2[p].amount \in Nat

LEMMA WayStep ==
  ASSUME NEW R, NEW R2, NEW q \in Request, NEW a, OneSteps(R, R2, q),
         IsFiniteSet(StoredBy(R, a))
  PROVE  /\ IsFiniteSet(StoredBy(R2, a)) /\ Way(R, a) \in Int
         /\ Way(R2, a) = Way(R, a) - InHand(R[q], a) + InHand(R2[q], a)
<1>. DEFINE g  == [p \in Request |-> R[p].amount]
            g2 == [p \in Request |-> R2[p].amount]
            S  == StoredBy(R, a)
            S2 == StoredBy(R2, a)
            T  == S \ {q}
<1>1. /\ \A p \in Request : g[p] = R[p].amount /\ g2[p] = R2[p].amount
      /\ S \subseteq Request /\ S2 \subseteq Request
      /\ S2 \ {q} = T /\ q \notin T /\ T \subseteq Request
      /\ q \in S <=> Stored(R[q], a)
      /\ q \in S2 <=> Stored(R2[q], a)
  BY DEF StoredBy, OneSteps
<1>2. Way(R, a) = SumOf(g, S) /\ Way(R2, a) = SumOf(g2, S2) BY DEF Way
<1>. HIDE DEF g, g2
<1>3. \A p \in Request : g[p] \in Int /\ g2[p] \in Int BY <1>1 DEF OneSteps
<1>4. IsFiniteSet(S) OBVIOUS
<1>. HIDE DEF S, S2
<1>5. IsFiniteSet(T) BY <1>4, FS_RemoveElement
<1>6. SumOf(g, T) = SumOf(g2, T)
  <2>1. \A p \in T : g[p] = g2[p] BY <1>1 DEF OneSteps
  <2>. HIDE DEF T
  <2>2. QED BY <1>5, <2>1, SumExt
<1>7. SumOf(g, T) \in Int
  <2>1. \A p \in T : g[p] \in Int BY <1>1, <1>3
  <2>. HIDE DEF T
  <2>2. QED BY <1>5, <2>1, SumType
<1>8. SumOf(g, S) = SumOf(g, T) + InHand(R[q], a)
  <2>1. CASE q \in S
    <3>1. S = T \union {q} BY <2>1
    <3>0. \A p \in T \union {q} : g[p] \in Int BY <1>1, <1>3
    <3>. HIDE DEF T
    <3>2. q \notin T BY <1>1
    <3>3. SumOf(g, T \union {q}) = SumOf(g, T) + g[q] BY <1>5, <3>0, <3>2, SumAdd
    <3>4. g[q] = InHand(R[q], a) BY <1>1, <2>1 DEF InHand
    <3>5. QED BY <3>1, <3>3, <3>4
  <2>2. CASE q \notin S
    <3>1. S = T BY <2>2
    <3>2. InHand(R[q], a) = 0 BY <1>1, <2>2 DEF InHand
    <3>. HIDE DEF T
    <3>3. QED BY <1>7, <3>1, <3>2
  <2>3. QED BY <2>1, <2>2
<1>9. IsFiniteSet(S2) /\ SumOf(g2, S2) = SumOf(g2, T) + InHand(R2[q], a)
  <2>1. CASE q \in S2
    <3>1. S2 = T \union {q} BY <1>1, <2>1
    <3>0. \A p \in T \union {q} : g2[p] \in Int BY <1>1, <1>3
    <3>. HIDE DEF T
    <3>2. q \notin T BY <1>1
    <3>3. SumOf(g2, T \union {q}) = SumOf(g2, T) + g2[q] BY <1>5, <3>0, <3>2, SumAdd
    <3>4. g2[q] = InHand(R2[q], a) BY <1>1, <2>1 DEF InHand
    <3>5. IsFiniteSet(S2) BY <1>5, <3>1, FS_AddElement
    <3>6. QED BY <1>6, <3>1, <3>3, <3>4, <3>5
  <2>2. CASE q \notin S2
    <3>1. S2 = T BY <1>1, <2>2
    <3>2. InHand(R2[q], a) = 0 BY <1>1, <2>2 DEF InHand
    <3>. HIDE DEF T
    <3>3. QED BY <1>5, <1>6, <1>7, <3>1, <3>2
  <2>3. QED BY <2>1, <2>2
<1>10. InHand(R[q], a) \in Int /\ InHand(R2[q], a) \in Int
  BY DEF InHand, OneSteps
<1>11. QED BY <1>2, <1>6, <1>7, <1>8, <1>9, <1>10 DEF S2

(* A step of one request keeps the account of what is recorded when paid,  *)
(* recorded and in hand change together, and no more is answered than is   *)
(* recorded.                                                               *)
Tells(s, t, a) ==
  /\ acct[a] = NoDoc =>
       acct'[a] = NoDoc /\ booked'[a] = booked[a] /\ answered'[a] = answered[a]
  /\ acct[a] # NoDoc =>
       /\ acct'[a] # NoDoc /\ acct'[a].kind = acct[a].kind
       /\ acct'[a].paid =
            acct[a].paid + (booked'[a] - booked[a]) - InHand(s, a) + InHand(t, a)
       /\ acct[a].kind = "receivable" =>
            answered'[a] - answered[a] =< booked'[a] - booked[a]

LEMMA Counts ==
  ASSUME Typed, NEW a \in Account
  PROVE  booked[a] \in Nat /\ answered[a] \in Nat
  BY CountedIs DEF Counted

LEMMA RecordStep ==
  ASSUME RecordInv, Typed', NEW q \in Request, NEW t,
         req' = [req EXCEPT ![q] = t],
         Clean(incidents') => Clean(incidents) /\ \A a \in Account : Tells(req[q], t, a)
  PROVE  RecordInv'
<1>1. Typed BY DEF RecordInv
<1>2. req'[q] = t /\ \A p \in Request \ {q} : req'[p] = req[p] BY <1>1, OneOther
<1>3. \A p \in Request : req[p].amount \in Nat /\ req'[p].amount \in Nat
  BY <1>1 DEF Typed, HandOK, Session
<1>4. ASSUME NEW a \in Account
      PROVE  /\ IsFiniteSet(StoredBy(req', a)) /\ Way(req, a) \in Int
             /\ Way(req', a) = Way(req, a) - InHand(req[q], a) + InHand(t, a)
  <2>. DEFINE R2 == req'
  <2>1. /\ IsFiniteSet(StoredBy(req, a)) /\ R2[q] = t
        /\ OneSteps(req, R2, q)
    BY <1>2, <1>3 DEF RecordInv, OneSteps
  <2>. HIDE DEF R2
  <2>2. /\ IsFiniteSet(StoredBy(R2, a)) /\ Way(req, a) \in Int
        /\ Way(R2, a) = Way(req, a) - InHand(req[q], a) + InHand(R2[q], a)
    BY <2>1, WayStep
  <2>3. QED BY <2>1, <2>2 DEF R2
<1>5. ASSUME Clean(incidents'), NEW a \in Account
      PROVE  Matches(acct', booked', answered', req', a)
  <2>1. /\ booked[a] \in Nat /\ answered[a] \in Nat
        /\ booked'[a] \in Nat /\ answered'[a] \in Nat
    <3>1. Counted /\ Counted' BY <1>1, CountedIs DEF Typed, TypeOK, Counted
    <3>2. QED BY <3>1 DEF Counted
  <2>2. Matches(acct, booked, answered, req, a) /\ Tells(req[q], t, a)
    BY <1>5 DEF RecordInv
  <2>3. InHand(req[q], a) \in Int /\ InHand(t, a) \in Int
    BY <1>2, <1>3 DEF InHand
  <2>4. CASE acct[a] = NoDoc BY <2>2, <2>4 DEF Matches, Tells
  <2>5. CASE acct[a] # NoDoc
    <3>1. acct[a].paid = booked[a] + Way(req, a) BY <2>2, <2>5 DEF Matches
    <3>2. acct'[a].paid =
            acct[a].paid + (booked'[a] - booked[a]) - InHand(req[q], a) + InHand(t, a)
      BY <2>2, <2>5 DEF Tells
    <3>3. acct'[a].paid = booked'[a] + Way(req', a)
      <4>. DEFINE out == InHand(req[q], a)
                  in  == InHand(t, a)
                  way == Way(req, a)
      <4>1. /\ way \in Int /\ out \in Int /\ in \in Int
            /\ Way(req', a) = way - out + in
        BY <1>4, <2>3
      <4>2. /\ acct[a].paid = booked[a] + way
            /\ acct'[a].paid = acct[a].paid + (booked'[a] - booked[a]) - out + in
        BY <3>1, <3>2
      <4>. HIDE DEF out, in, way
      <4>3. QED BY <2>1, <4>1, <4>2
    <3>4. acct'[a].kind = "receivable" => answered'[a] =< booked'[a]
      BY <2>1, <2>2, <2>5 DEF Matches, Tells
    <3>5. acct'[a] # NoDoc BY <2>2, <2>5 DEF Tells
    <3>6. QED BY <3>3, <3>4, <3>5 DEF Matches
  <2>6. QED BY <2>4, <2>5
<1>6. QED BY <1>4, <1>5 DEF RecordInv

(* A request that has written nothing and writes nothing.                  *)
LEMMA RecordQuiet ==
  ASSUME RecordInv, Typed', NEW q \in Request, NEW t,
         req' = [req EXCEPT ![q] = t], UNCHANGED <<acct, answered>>,
         \A a \in Account : booked'[a] = booked[a],
         req[q].step # "stored", t.step # "stored",
         Clean(incidents') => Clean(incidents)
  PROVE  RecordInv'
<1>1. Typed BY DEF RecordInv
<1>2. ASSUME NEW a \in Account PROVE Tells(req[q], t, a)
  <2>1. booked[a] \in Nat /\ answered[a] \in Nat BY <1>1, Counts
  <2>2. InHand(req[q], a) = 0 /\ InHand(t, a) = 0 BY DEF InHand, Stored
  <2>3. acct[a] # NoDoc => acct[a].paid \in Nat BY <1>1, PaidIn
  <2>4. QED BY <2>1, <2>2, <2>3 DEF Tells
<1>3. QED BY <1>2, RecordStep

LEMMA PayStoreRecord ==
  ASSUME RecordInv, NEW q \in Request, PayStore(q), Typed'
  PROVE  RecordInv'
<1>. DEFINE s == req[q]
            a == s.account
<1>1. /\ s.step = "paying" /\ s.step \in Copying /\ booked' = booked
      /\ incidents' = incidents \union Noted("stale", acct[a] # s.doc)
  BY DEF PayStore, Copying, money
<1>2. Typed /\ CopyOK(acct, s) BY <1>1, HandFacts DEF RecordInv
<1>3. /\ a \in Account /\ acct[a] # NoDoc /\ s.amount \in Nat
      /\ acct[a].paid \in Nat /\ s.doc \in AccountDoc
      /\ s.doc.kind = acct[a].kind
  BY <1>2, PaidIn DEF CopyOK, SameShape
<1>4. ASSUME Clean(incidents') PROVE Clean(incidents) /\ acct[a] = s.doc
  BY <1>1, <1>4 DEF Clean, Noted
<1>5. \A b \in Account : booked[b] \in Nat /\ answered[b] \in Nat
        /\ (acct[b] # NoDoc => acct[b].paid \in Nat)
  BY <1>2, Counts, PaidIn
<1>6. \A b : InHand(s, b) = 0 BY <1>1 DEF InHand, Stored
<1>7. CASE Known(s)
  <2>. DEFINE t == [s EXCEPT !.step = "stored"]
              new == Paid(s.doc, s.list, s.amount)
  <2>1. /\ req' = [req EXCEPT ![q] = t] /\ answered' = answered
        /\ acct' = [acct EXCEPT ![a] = new]
    BY <1>2, <1>7, HandFacts DEF PayStore
  <2>2. s \in Session BY <1>2, HandFacts
  <2>3. t.step = "stored" /\ t.account = a /\ t.amount = s.amount
    BY <2>2, StepOn
  <2>. HIDE DEF t
  <2>4. new \in AccountDoc /\ new.kind = s.doc.kind
        /\ new.paid = s.doc.paid + s.amount
    BY <1>1, <1>2, <1>7, KnownIs DEF SameShape
  <2>. HIDE DEF new
  <2>5. acct'[a] = new /\ \A b \in Account \ {a} : acct'[b] = acct[b]
    BY <1>2, <1>3, <2>1, OneAccount
  <2>6. InHand(t, a) = s.amount /\ \A b \in Account \ {a} : InHand(t, b) = 0
    BY <2>3 DEF InHand, Stored
  <2>7. ASSUME Clean(incidents'), NEW b \in Account PROVE Tells(s, t, b)
    <3>1. acct[a] = s.doc BY <1>4, <2>7
    <3>2. CASE b = a
      <4>1. /\ acct'[b] # NoDoc /\ acct'[b].kind = acct[b].kind
            /\ acct'[b].paid = acct[b].paid + s.amount
            /\ InHand(s, b) = 0 /\ InHand(t, b) = s.amount
        BY <1>6, <2>4, <2>5, <2>6, <3>1, <3>2, DocAssumption
      <4>2. /\ booked'[b] = booked[b] /\ answered'[b] = answered[b]
            /\ booked[b] \in Nat /\ answered[b] \in Nat /\ acct[b].paid \in Nat
        BY <1>1, <1>3, <1>5, <2>1, <3>2
      <4>3. QED BY <1>3, <3>2, <4>1, <4>2 DEF Tells
    <3>3. CASE b # a
      BY <1>1, <1>5, <1>6, <2>1, <2>5, <2>6, <3>3 DEF Tells
    <3>4. QED BY <3>2, <3>3
  <2>8. QED BY <1>4, <2>1, <2>7, RecordStep
<1>8. CASE ~Known(s)
  <2>1. RollBack(s) /\ Finish(q) /\ AnswerError(s) BY <1>8 DEF PayStore
  <2>2. \A b : InHand(Idle, b) = 0 BY IdleOK DEF InHand, Stored
  <2>3. ASSUME Clean(incidents'), NEW b \in Account PROVE Tells(s, Idle, b)
    <3>1. acct[a] = s.doc BY <1>4, <2>3
    <3>2. acct' = acct BY <1>2, <1>3, <2>1, <3>1 DEF RollBack, Typed, TypeOK
    <3>3. (b = a /\ acct[b].kind # "receivable") \/ answered'[b] = answered[b]
      BY <1>2, <1>3, <2>1, CountedIs DEF AnswerError, AnswerOK, Counted
    <3>4. QED BY <1>1, <1>3, <1>5, <1>6, <2>2, <3>2, <3>3 DEF Tells
  <2>4. QED BY <1>4, <2>1, <2>3, RecordStep DEF Finish
<1>9. QED BY <1>7, <1>8

LEMMA PayFailRecord ==
  ASSUME RecordInv, NEW q \in Request, PayFail(q), Typed'
  PROVE  RecordInv'
<1>. DEFINE s == req[q]
            a == s.account
<1>1. /\ s.step = "paying" /\ s.step \in Copying /\ booked' = booked
      /\ incidents' = incidents \union {"failed"}
                        \union Noted("stale", acct[a] # s.doc)
      /\ RollBack(s) /\ Finish(q) /\ AnswerError(s)
  BY DEF PayFail, Copying, money
<1>2. Typed /\ CopyOK(acct, s) BY <1>1, HandFacts DEF RecordInv
<1>3. a \in Account /\ acct[a] # NoDoc /\ s.doc.kind = acct[a].kind
  BY <1>2 DEF CopyOK, SameShape
<1>4. ASSUME Clean(incidents') PROVE Clean(incidents) /\ acct[a] = s.doc
  BY <1>1, <1>4 DEF Clean, Noted
<1>5. \A b \in Account : booked[b] \in Nat /\ answered[b] \in Nat
        /\ (acct[b] # NoDoc => acct[b].paid \in Nat)
  BY <1>2, Counts, PaidIn
<1>6. \A b : InHand(s, b) = 0 /\ InHand(Idle, b) = 0
  BY <1>1, IdleOK DEF InHand, Stored
<1>7. ASSUME Clean(incidents'), NEW b \in Account PROVE Tells(s, Idle, b)
  <2>1. acct[a] = s.doc BY <1>4, <1>7
  <2>2. acct' = acct BY <1>1, <1>2, <1>3, <2>1 DEF RollBack, Typed, TypeOK
  <2>3. (b = a /\ acct[b].kind # "receivable") \/ answered'[b] = answered[b]
    BY <1>1, <1>2, <1>3, CountedIs DEF AnswerError, AnswerOK, Counted
  <2>4. QED BY <1>1, <1>3, <1>5, <1>6, <2>2, <2>3 DEF Tells
<1>8. QED BY <1>1, <1>4, <1>7, RecordStep DEF Finish

LEMMA PayCommitRecord ==
  ASSUME RecordInv, NEW q \in Request, PayCommit(q), Typed'
  PROVE  RecordInv'
<1>. DEFINE s == req[q]
            a == s.account
<1>1. PICK lost \in SUBSET {"record"} :
        /\ s.step = "stored"
        /\ IF s.center
             THEN /\ booked' = IF lost # {} THEN booked
                               ELSE [booked EXCEPT ![s.account] = @ + s.amount]
                  /\ AnswerOK(s)
                  /\ incidents' = incidents \union Noted("lost", lost # {})
                  /\ UNCHANGED acct
             ELSE /\ RollBack(s)
                  /\ AnswerError(s)
                  /\ incidents' = incidents
                       \union Noted("stale", acct[s.account] #
                                             Paid(s.doc, s.list, s.amount))
                  /\ UNCHANGED booked
        /\ Finish(q)
  BY DEF PayCommit
<1>2. Typed /\ CopyOK(acct, s)
  <2>1. s.step \in Copying BY <1>1 DEF Copying
  <2>2. QED BY <2>1, HandFacts DEF RecordInv
<1>3. /\ a \in Account /\ acct[a] # NoDoc /\ s.amount \in Nat \ {0}
      /\ s.doc \in AccountDoc /\ s.doc.paid \in Nat
      /\ s.doc.kind = acct[a].kind
  BY <1>2, Fields DEF CopyOK, SameShape
<1>4. \A b \in Account : booked[b] \in Nat /\ answered[b] \in Nat
        /\ (acct[b] # NoDoc => acct[b].paid \in Nat)
  BY <1>2, Counts, PaidIn
<1>5. /\ InHand(s, a) = s.amount /\ \A b \in Account \ {a} : InHand(s, b) = 0
      /\ \A b : InHand(Idle, b) = 0
  BY <1>1, IdleOK DEF InHand, Stored
<1>6. Clean(incidents') => Clean(incidents) BY <1>1 DEF Clean, Noted
<1>7. Counted BY <1>2, CountedIs
<1>8. ASSUME Clean(incidents'), NEW b \in Account PROVE Tells(s, Idle, b)
  <2>1. CASE s.center
    <3>1. lost = {} BY <1>1, <1>8, <2>1 DEF Clean, Noted
    <3>2. /\ booked' = [booked EXCEPT ![a] = booked[a] + s.amount]
          /\ answered' = [answered EXCEPT ![a] = answered[a] + s.amount]
          /\ acct' = acct
      BY <1>1, <2>1, <3>1 DEF AnswerOK
    <3>3. CASE b = a
      <4>1. booked'[b] = booked[b] + s.amount /\ answered'[b] = answered[b] + s.amount
        BY <1>3, <1>7, <3>2, <3>3 DEF Counted
      <4>2. QED BY <1>3, <1>4, <1>5, <3>2, <3>3, <4>1 DEF Tells
    <3>4. CASE b # a
      <4>1. booked'[b] = booked[b] /\ answered'[b] = answered[b]
        BY <1>7, <3>2, <3>4 DEF Counted
      <4>2. QED BY <1>4, <1>5, <3>2, <3>4, <4>1 DEF Tells
    <3>5. QED BY <3>3, <3>4
  <2>2. CASE ~s.center
    <3>1. s.doc.kind = "payable"
      <4>1. s.doc.kind \in {"payable", "receivable"} BY <1>3, Fields
      <4>2. QED BY <1>2, <2>2, <4>1 DEF CopyOK
    <3>2. acct[a] = Paid(s.doc, s.list, s.amount)
      BY <1>1, <1>8, <2>2 DEF Clean, Noted
    <3>3. acct[a].paid = s.doc.paid + s.amount
      <4>. DEFINE doc == s.doc
                  amount == s.amount
                  up == UpdateAmount(doc, amount)
      <4>1. doc \in AccountDoc /\ amount \in Nat \ {0} BY <1>3
      <4>2. acct[a] = [up EXCEPT !.inst = PayAll(@, s.list, amount)]
        BY <3>2 DEF Paid
      <4>. HIDE DEF doc, amount
      <4>3. up \in AccountDoc /\ up.paid = doc.paid + amount BY <4>1, UpdateGood
      <4>. HIDE DEF up
      <4>4. acct[a].paid = up.paid BY <4>2, <4>3 DEF AccountDoc
      <4>5. QED BY <4>3, <4>4 DEF doc, amount
    <3>4. acct'[a] = s.doc /\ \A c \in Account \ {a} : acct'[c] = acct[c]
      BY <1>1, <1>2, <1>3, <2>2, OneAccount DEF RollBack
    <3>5. booked' = booked BY <1>1, <2>2
    <3>6. CASE b = a
      <4>1. acct'[b] # NoDoc /\ acct'[b].kind = acct[b].kind
            /\ acct'[b].paid = s.doc.paid /\ acct[b].kind = "payable"
        BY <1>3, <3>1, <3>4, <3>6, DocAssumption
      <4>2. QED BY <1>3, <1>4, <1>5, <3>3, <3>5, <3>6, <4>1 DEF Tells
    <3>7. CASE b # a
      <4>1. answered'[b] = answered[b]
        BY <1>1, <1>7, <2>2, <3>7 DEF AnswerError, AnswerOK, Counted
      <4>2. QED BY <1>4, <1>5, <3>4, <3>5, <3>7, <4>1 DEF Tells
    <3>8. QED BY <3>6, <3>7
  <2>3. QED BY <2>1, <2>2
<1>9. QED BY <1>1, <1>6, <1>8, RecordStep DEF Finish

LEMMA DeclareMarkRecord ==
  ASSUME RecordInv, NEW q \in Request, DeclareMark(q), Typed'
  PROVE  RecordInv'
<1>. DEFINE s == req[q]
            a == s.account
            new == InReview(s.doc, Head(s.list))
<1>1. /\ s.step = "declared" /\ s.step \in Copying
      /\ booked' = booked /\ answered' = answered
      /\ incidents' = incidents \union Noted("stale", acct[a] # s.doc)
      /\ Finish(q) /\ acct' = [acct EXCEPT ![a] = new]
  BY DEF DeclareMark, Copying, money
<1>2. Typed /\ CopyOK(acct, s) BY <1>1, HandFacts DEF RecordInv
<1>3. /\ a \in Account /\ acct[a] # NoDoc /\ s.doc \in AccountDoc
      /\ Head(s.list) \in DOMAIN s.doc.inst
  BY <1>1, <1>2 DEF CopyOK
<1>4. new \in AccountDoc /\ new.kind = s.doc.kind /\ new.paid = s.doc.paid
  BY <1>3, InReviewGood DEF SameShape
<1>. HIDE DEF new
<1>5. ASSUME Clean(incidents') PROVE Clean(incidents) /\ acct[a] = s.doc
  BY <1>1, <1>5 DEF Clean, Noted
<1>6. acct'[a] = new /\ \A b \in Account \ {a} : acct'[b] = acct[b]
  BY <1>1, <1>2, <1>3, OneAccount
<1>7. \A b \in Account : booked[b] \in Nat /\ answered[b] \in Nat
        /\ (acct[b] # NoDoc => acct[b].paid \in Nat)
  BY <1>2, Counts, PaidIn
<1>8. \A b : InHand(s, b) = 0 /\ InHand(Idle, b) = 0
  BY <1>1, IdleOK DEF InHand, Stored
<1>9. ASSUME Clean(incidents'), NEW b \in Account PROVE Tells(s, Idle, b)
  <2>1. acct[a] = s.doc BY <1>5, <1>9
  <2>2. CASE b = a
    <3>1. /\ acct'[b] # NoDoc /\ acct'[b].kind = acct[b].kind
          /\ acct'[b].paid = acct[b].paid
      BY <1>4, <1>6, <2>1, <2>2, DocAssumption
    <3>2. QED BY <1>1, <1>3, <1>7, <1>8, <2>2, <3>1 DEF Tells
  <2>3. CASE b # a BY <1>1, <1>6, <1>7, <1>8, <2>3 DEF Tells
  <2>4. QED BY <2>2, <2>3
<1>10. QED BY <1>1, <1>5, <1>9, RecordStep DEF Finish

LEMMA CreateRecord ==
  ASSUME RecordInv, NEW a \in Account, CreatesAccount(a), Typed'
  PROVE  RecordInv'
<1>1. /\ Typed /\ acct[a] = NoDoc
      /\ UNCHANGED <<req, booked, answered, incidents>>
  BY DEF RecordInv, CreatesAccount, money, history
<1>2. PICK prices \in PriceLists, total \in Sum, kind \in {"payable", "receivable"} :
        acct' = [acct EXCEPT ![a] = NewAccount(kind, prices, total)]
  BY DEF CreatesAccount
<1>. DEFINE new == NewAccount(kind, prices, total)
<1>3. new.paid = 0 BY AmountIs, NewAccountGood
<1>. HIDE DEF new
<1>4. acct'[a] = new /\ \A b \in Account \ {a} : acct'[b] = acct[b]
  <2>1. acct' = [acct EXCEPT ![a] = new] BY <1>2 DEF new
  <2>2. QED BY <1>1, <2>1, OneAccount
<1>5. Way(req, a) = 0
  <2>1. StoredBy(req, a) = {}
    <3>1. ASSUME NEW q \in Request, Stored(req[q], a) PROVE FALSE
      <4>1. req[q].step \in Copying BY <3>1 DEF Stored, Copying
      <4>2. CopyOK(acct, req[q]) BY <1>1, <4>1, HandFacts
      <4>3. QED BY <1>1, <3>1, <4>2 DEF CopyOK, Stored
    <3>2. QED BY <3>1 DEF StoredBy
  <2>2. QED BY <2>1, SumEmpty DEF Way
<1>6. ASSUME Clean(incidents'), NEW b \in Account
      PROVE  Matches(acct', booked', answered', req', b)
  <2>1. Matches(acct, booked, answered, req, b) BY <1>1, <1>6 DEF RecordInv
  <2>2. CASE b # a BY <1>1, <1>4, <2>1, <2>2 DEF Matches
  <2>3. CASE b = a BY <1>1, <1>3, <1>4, <1>5, <2>1, <2>3 DEF Matches
  <2>4. QED BY <2>2, <2>3
<1>7. QED BY <1>1, <1>6 DEF RecordInv

LEMMA DecideDispatchRecord ==
  ASSUME RecordInv, NEW q \in Request, DecideDispatch(q), Typed'
  PROVE  RecordInv'
<1>. DEFINE s == req[q]
            t == req'[q]
<1>1. /\ Typed /\ s.step = "decided" /\ UNCHANGED <<acct, answered>>
      /\ Clean(incidents') => Clean(incidents)
  BY DEF RecordInv, DecideDispatch, docs, Clean
<1>2. \A a \in Account : booked'[a] = booked[a]
  <2>1. booked' = booked
        \/ booked' = [booked EXCEPT ![NoAccount] = booked[NoAccount] + s.seen.amount]
    BY DEF DecideDispatch
  <2>2. booked \in [Account \union {NoAccount} -> Nat] BY <1>1, CountedIs DEF Counted
  <2>3. QED BY <2>1, <2>2, AccountAssumption
<1>3. req' = [req EXCEPT ![q] = t] /\ t.step # "stored"
  <2>1. CASE IsDeclared(s.seen) BY <1>1, <2>1, DecideDispatchTyped
  <2>2. CASE ~IsDeclared(s.seen)
    <3>1. Finish(q) BY <1>1, <2>2, DecideDispatchTyped
    <3>2. t = Idle BY <1>1, <3>1, OneOther DEF Finish
    <3>3. QED BY <3>1, <3>2, IdleOK DEF Finish
  <2>3. QED BY <2>1, <2>2
<1>. HIDE DEF t
<1>4. QED BY <1>1, <1>2, <1>3, RecordQuiet

LEMMA StepRecord ==
  ASSUME RecordInv, Typed', NEW q \in Request,
         DeclareStore(q) \/ DecideStore(q)
  PROVE  RecordInv'
<1>. DEFINE s == req[q]
            t == req'[q]
<1>1. /\ Typed /\ s.step \in {"declaring", "deciding"}
      /\ UNCHANGED <<acct, booked, answered, incidents>>
  BY DEF RecordInv, DeclareStore, DecideStore, money, history
<1>2. s \in Session BY <1>1, HandFacts
<1>3. \/ req' = [req EXCEPT ![q] = Idle]
      \/ req' = [req EXCEPT ![q] = [s EXCEPT !.step = "declared"]]
      \/ req' = [req EXCEPT ![q] = [s EXCEPT !.step = "decided"]]
  BY <1>1, HandFacts DEF DeclareStore, DecideStore, Finish
<1>4. [s EXCEPT !.step = "declared"].step # "stored"
      /\ [s EXCEPT !.step = "decided"].step # "stored" /\ Idle.step # "stored"
  <2>1. [s EXCEPT !.step = "declared"].step = "declared" BY <1>2, StepOn
  <2>2. [s EXCEPT !.step = "decided"].step = "decided" BY <1>2, StepOn
  <2>3. QED BY <2>1, <2>2, IdleOK
<1>5. req' = [req EXCEPT ![q] = t] /\ t.step # "stored"
  <2>1. PICK u : req' = [req EXCEPT ![q] = u] /\ u.step # "stored"
    BY <1>3, <1>4
  <2>2. t = u BY <1>1, <2>1, OneOther
  <2>3. QED BY <2>1, <2>2
<1>. HIDE DEF t
<1>6. QED BY <1>1, <1>5, RecordQuiet

LEMMA ReadRecord ==
  ASSUME RecordInv, Typed', NEW q \in Request,
         PayRead(q) \/ DeclareRead(q) \/ DecideRead(q)
  PROVE  RecordInv'
<1>. DEFINE t == req'[q]
<1>1. Typed BY DEF RecordInv
<1>2. /\ UNCHANGED <<acct, booked, answered, incidents>> /\ req[q] = Idle
      /\ req' = [req EXCEPT ![q] = t]
      /\ t.step \in {"paying", "declaring", "deciding"}
  BY <1>1, PayReadTyped, DeclareReadTyped, DecideReadTyped DEF docs, money, history
<1>. HIDE DEF t
<1>3. req[q].step # "stored" /\ t.step # "stored" BY <1>2, IdleOK
<1>4. QED BY <1>2, <1>3, RecordQuiet

LEMMA InitRecord == ASSUME Init PROVE RecordInv
<1>1. Typed BY InitTyped
<1>2. \A a \in Account : StoredBy(req, a) = {}
  BY IdleOK DEF Init, StoredBy, Stored
<1>3. \A a \in Account : IsFiniteSet(StoredBy(req, a)) BY <1>2, FS_EmptySet
<1>4. QED BY <1>1, <1>3 DEF RecordInv, Matches, Init

LEMMA NextRecord ==
  ASSUME RecordInv, [Next]_vars
  PROVE  RecordInv'
<1>1. Typed /\ Typed' BY NextTyped DEF RecordInv
<1>2. ASSUME UNCHANGED <<acct, req, booked, answered, incidents>> PROVE RecordInv'
  BY <1>1, <1>2 DEF RecordInv, Matches
<1>3. CASE UNCHANGED vars BY <1>2, <1>3 DEF vars, docs, money, history
<1>4. CASE Contribute BY <1>2, <1>4 DEF Contribute, money, history
<1>5. CASE Crash
  <2>1. ~Clean(incidents') BY <1>5 DEF Crash, Clean
  <2>2. \A a \in Account : StoredBy(req', a) = {}
    BY <1>5, IdleOK DEF Crash, StoredBy, Stored
  <2>3. \A a \in Account : IsFiniteSet(StoredBy(req', a)) BY <2>2, FS_EmptySet
  <2>4. QED BY <1>1, <2>1, <2>3 DEF RecordInv
<1>6. QED
  BY <1>1, <1>3, <1>4, <1>5, Steps, CreateRecord, ReadRecord, StepRecord,
     PayStoreRecord, PayCommitRecord, PayFailRecord, DeclareMarkRecord,
     DecideDispatchRecord

LEMMA RecordIsMatch == ASSUME RecordInv PROVE RecordsMatch
<1>1. SUFFICES ASSUME Clean(incidents), NEW a \in Existing
               PROVE  /\ acct[a].paid = booked[a] + UnderWay(a)
                      /\ acct[a].kind = "receivable" => answered[a] =< booked[a]
  BY DEF RecordsMatch, Clean
<1>2. UnderWay(a) = Way(req, a)
  <2>. DEFINE S == StoredBy(req, a)
              g == [q \in S |-> req[q].amount]
              h == [q \in Request |-> req[q].amount]
  <2>1. S = {q \in Request : req[q].step = "stored" /\ req[q].account = a}
    BY DEF StoredBy, Stored
  <2>2. UnderWay(a) = SumFunction(g) BY <2>1 DEF UnderWay
  <2>3. DOMAIN g = S /\ (\A q \in S : g[q] = h[q]) BY <2>1
  <2>4. IsFiniteSet(S) BY DEF RecordInv, Existing
  <2>5. Way(req, a) = SumOf(h, S) BY DEF Way
  <2>. HIDE DEF g, h, S
  <2>6. UnderWay(a) = SumOf(g, S) BY <2>2, <2>3 DEF SumFunction, SumOf
  <2>7. QED BY <2>3, <2>4, <2>5, <2>6, SumExt
<1>3. Matches(acct, booked, answered, req, a) BY <1>1 DEF RecordInv, Existing
<1>4. QED BY <1>1, <1>2, <1>3 DEF Matches, Existing
-----------------------------------------------------------------------------
(***************************************************************************)
(* The theorems.                                                           *)
(***************************************************************************)
(* Whatever requests overlap, fail or die, accounts and contributions keep *)
(* the shape the code gives them.                                          *)
THEOREM TypeCorrect == Spec => []TypeOK
<1>1. Init => Typed BY InitTyped
<1>2. Typed /\ [Next]_vars => Typed' BY NextTyped
<1>3. Typed => TypeOK BY DEF Typed
<1>4. QED BY <1>1, <1>2, <1>3, PTL DEF Spec

(* Total, paid, pending and status of every account agree, whoever writes  *)
(* which copy of it: each copy that is written agrees with itself.         *)
THEOREM AccountsAlwaysAgree == Spec => []AccountsAgree
<1>1. Init => FineInv BY InitFine
<1>2. FineInv /\ [Next]_vars => FineInv' BY NextFine
<1>3. FineInv => AccountsAgree BY FineIsAgree
<1>4. QED BY <1>1, <1>2, <1>3, PTL DEF Spec

(* While an account gets careful payments only, its installments add up to *)
(* what it says is pending: what a payment takes from the account, the     *)
(* loop of PayInstallment takes from the installments it names.            *)
THEOREM InstallmentsAlwaysAddUp == Spec => []InstallmentsAddUp
<1>1. Init => FineInv BY InitFine
<1>2. FineInv /\ [Next]_vars => FineInv' BY NextFine
<1>3. FineInv => InstallmentsAddUp BY FineIsAddUp
<1>4. QED BY <1>1, <1>2, <1>3, PTL DEF Spec

(* An installment in review has a contribution that declares its payment:  *)
(* the contribution is stored before the installment is marked.            *)
THEOREM ReviewsAreBacked == Spec => []InReviewBacked
<1>1. Init => FineInv BY InitFine
<1>2. FineInv /\ [Next]_vars => FineInv' BY NextFine
<1>3. FineInv => InReviewBacked BY FineIsBacked
<1>4. QED BY <1>1, <1>2, <1>3, PTL DEF Spec

(* While nothing goes wrong, processing the last contribution that         *)
(* declares an installment ends its review.                                *)
THEOREM ReviewsDoEnd == Spec => []ReviewEnds
<1>1. Init => ReviewInv BY InitReview
<1>2. ReviewInv /\ [Next]_vars => ReviewInv' BY NextReview
<1>3. ReviewInv => ReviewEnds BY ReviewIsEnds
<1>4. QED BY <1>1, <1>2, <1>3, PTL DEF Spec

(* Without a lost dispatch, a crash or a stale write, what an account      *)
(* counts as paid is what has been recorded or is about to be, and no more *)
(* of a receivable account is answered with OK than is recorded.           *)
THEOREM RecordsAlwaysMatch == Spec => []RecordsMatch
<1>1. Init => RecordInv BY InitRecord
<1>2. RecordInv /\ [Next]_vars => RecordInv' BY NextRecord
<1>3. RecordInv => RecordsMatch BY RecordIsMatch
<1>4. QED BY <1>1, <1>2, <1>3, PTL DEF Spec
===============================================================================
