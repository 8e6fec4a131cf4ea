---------------------- MODULE ConversationBudgetProofs ----------------------
(***************************************************************************)
(* Proofs about ConversationBudget, for every set of turns, every price,   *)
(* threshold and lock, and for every deviation of a bill from what was     *)
(* reserved for it: the lock is passed by overrun only, the ledger covers  *)
(* every foreseen bill and every reported one, memory and SQLite agree.  The ledger sums  *)
(* over sets, so the first part is about such sums; the second says what   *)
(* settling and reserving do to the money; the third follows the turns.    *)
(***************************************************************************)
EXTENDS ConversationBudget, FiniteSetTheorems, WellFoundedInduction, TLAPS

-----------------------------------------------------------------------------
(* Sums over finite sets.                                                  *)

\* A set of subsets of a finite set has a member of which it contains no proper part:
\* proofs by induction take the smallest counterexample.
LEMMA SmallestSet ==
  ASSUME NEW S, IsFiniteSet(S), NEW Bad \in SUBSET SUBSET S, Bad # {}
  PROVE  \E s \in Bad : \A u \in Bad : u \subseteq s => u = s
<1> DEFINE R == StrictSubsetOrdering(S)
<1>1. IsWellFoundedOn(R, SUBSET S)
  BY FS_StrictSubsetOrderingWellFounded, FS_FiniteSubsetsOfFinite
<1>2. \A u, s \in SUBSET S : u \subseteq s /\ u # s => <<u, s>> \in R
  BY DEF StrictSubsetOrdering
<1> HIDE DEF R
<1>3. PICK s \in Bad : \A u \in Bad : ~(<<u, s>> \in R) BY <1>1, WFMin
<1> QED BY <1>2, <1>3

Pick(s) == CHOOSE x \in s : TRUE

\* h is the function by which the sum of f over T is defined.
Adds(h, f, T) ==
  h = [s \in SUBSET T |-> IF s = {} THEN 0 ELSE f[Pick(s)] + h[s \ {Pick(s)}]]

LEMMA PickIn ==
  ASSUME NEW s, s # {}
  PROVE  Pick(s) \in s
BY DEF Pick

\* It does not depend on the set it is defined for.
LEMMA AddsAgree ==
  ASSUME NEW f, NEW T, IsFiniteSet(T), NEW U, NEW h, NEW g, Adds(h, f, T), Adds(g, f, U), T \subseteq U
  PROVE  \A s \in SUBSET T : h[s] = g[s]
<1> DEFINE Bad == {s \in SUBSET T : h[s] # g[s]}
<1> SUFFICES ASSUME Bad # {} PROVE FALSE OBVIOUS
<1>1. Bad \in SUBSET SUBSET T OBVIOUS
<1>2. PICK s \in Bad : \A u \in Bad : u \subseteq s => u = s
  <2> HIDE DEF Bad
  <2> QED BY <1>1, SmallestSet
<1>3. s \in SUBSET T /\ s \in SUBSET U /\ h[s] # g[s] OBVIOUS
<1>4. h[s] = IF s = {} THEN 0 ELSE f[Pick(s)] + h[s \ {Pick(s)}] BY <1>3 DEF Adds
<1>5. g[s] = IF s = {} THEN 0 ELSE f[Pick(s)] + g[s \ {Pick(s)}] BY <1>3 DEF Adds
<1>6. CASE s # {}
  <2>1. Pick(s) \in s BY <1>6, PickIn
  <2>2. s \ {Pick(s)} \in SUBSET T /\ s \ {Pick(s)} \notin Bad BY <1>2, <2>1
  <2>3. h[s \ {Pick(s)}] = g[s \ {Pick(s)}] BY <2>2
  <2> QED BY <1>3, <1>4, <1>5, <2>3
<1> QED BY <1>3, <1>4, <1>5, <1>6

\* It exists.
LEMMA AddsExists ==
  ASSUME NEW f, NEW S, IsFiniteSet(S)
  PROVE  \E h : Adds(h, f, S)
<1> DEFINE Bad == {s \in SUBSET S : ~\E h : Adds(h, f, s)}
<1> SUFFICES ASSUME Bad # {} PROVE FALSE OBVIOUS
<1>1. Bad \in SUBSET SUBSET S OBVIOUS
<1>2. PICK T \in Bad : \A u \in Bad : u \subseteq T => u = T
  <2> HIDE DEF Bad
  <2> QED BY <1>1, SmallestSet
<1>3. T \in SUBSET S /\ ~\E h : Adds(h, f, T) OBVIOUS
<1> DEFINE H[u \in SUBSET T] == CHOOSE h : Adds(h, f, u)
           k == [u \in SUBSET T |-> IF u = T
                                    THEN IF T = {} THEN 0 ELSE f[Pick(T)] + H[T \ {Pick(T)}][T \ {Pick(T)}]
                                    ELSE H[u][u]]
<1>4. \A u \in SUBSET T : u # T => Adds(H[u], f, u)
  <2> TAKE u \in SUBSET T
  <2> HAVE u # T
  <2>1. u \in SUBSET S /\ u \notin Bad BY <1>2, <1>3
  <2>2. \E h : Adds(h, f, u) BY <2>1
  <2>3. H[u] = CHOOSE h : Adds(h, f, u) OBVIOUS
  <2> QED BY <2>2, <2>3
<1> HIDE DEF H
<1>5. Adds(k, f, T)
  <2> SUFFICES ASSUME NEW s \in SUBSET T
               PROVE  k[s] = IF s = {} THEN 0 ELSE f[Pick(s)] + k[s \ {Pick(s)}]
    BY DEF Adds
  <2>1. CASE s = {}
    <3>1. CASE T = {} BY <2>1, <3>1
    <3>2. CASE T # {}
      <4>1. H[s][s] = 0 BY <1>4, <2>1, <3>2 DEF Adds
      <4> QED BY <2>1, <3>2, <4>1
    <3> QED BY <3>1, <3>2
  <2>2. CASE s # {}
    <3> DEFINE r == s \ {Pick(s)}
    <3>1. Pick(s) \in s BY <2>2, PickIn
    <3>2. r \in SUBSET T /\ r # T /\ r \in SUBSET s BY <3>1
    <3>3. k[r] = H[r][r] BY <3>2
    <3>4. CASE s = T BY <2>2, <3>3, <3>4
    <3>5. CASE s # T
      <4>1. k[s] = H[s][s] BY <3>5
      <4>2. H[s][s] = f[Pick(s)] + H[s][r] BY <1>4, <2>2, <3>5 DEF Adds
      <4>3. IsFiniteSet(r) BY <1>3, <3>2, FS_Subset
      <4>4. H[r][r] = H[s][r]
        <5>1. Adds(H[r], f, r) /\ Adds(H[s], f, s) /\ r \subseteq s BY <1>4, <3>2, <3>5
        <5> DEFINE a == H[r]
                   b == H[s]
        <5> HIDE DEF a, b, r, k
        <5>2. Adds(a, f, r) /\ Adds(b, f, s) BY <5>1 DEF a, b
        <5>3. \A v \in SUBSET r : a[v] = b[v] BY <4>3, <5>1, <5>2, AddsAgree
        <5> QED BY <5>3 DEF a, b
      <4> QED BY <2>2, <3>3, <4>1, <4>2, <4>4
    <3> QED BY <3>4, <3>5
  <2> QED BY <2>1, <2>2
<1> QED BY <1>3, <1>5

LEMMA SumIs ==
  ASSUME NEW f, NEW S, IsFiniteSet(S)
  PROVE  \E h : Adds(h, f, S) /\ SumFunctionOnSet(f, S) = h[S]
<1>1. \E h : Adds(h, f, S) BY AddsExists
<1>2. SumFunctionOnSet(f, S) = (CHOOSE h : Adds(h, f, S))[S]
  BY DEF SumFunctionOnSet, FoldFunctionOnSet, MapThenFoldSet, Adds, Pick
<1> QED BY <1>1, <1>2

\* The order of the additions does not matter.
LEMMA AnyOrder ==
  ASSUME NEW S, IsFiniteSet(S), NEW f, \A x \in S : f[x] \in Int, NEW h, Adds(h, f, S)
  PROVE  \A s \in SUBSET S : h[s] \in Int /\ \A x \in s : h[s] = f[x] + h[s \ {x}]
<1> DEFINE Good(s) == h[s] \in Int /\ \A x \in s : h[s] = f[x] + h[s \ {x}]
           Bad == {s \in SUBSET S : ~Good(s)}
<1> SUFFICES ASSUME Bad # {} PROVE FALSE OBVIOUS
<1>1. Bad \in SUBSET SUBSET S OBVIOUS
<1>2. PICK s \in Bad : \A u \in Bad : u \subseteq s => u = s
  <2> HIDE DEF Bad
  <2> QED BY <1>1, SmallestSet
<1>3. s \in SUBSET S /\ ~Good(s) OBVIOUS
<1>4. h[s] = IF s = {} THEN 0 ELSE f[Pick(s)] + h[s \ {Pick(s)}] BY <1>3 DEF Adds
<1>5. s # {} BY <1>3, <1>4
<1> DEFINE c == Pick(s)
<1>6. c \in s /\ f[c] \in Int BY <1>3, <1>5, PickIn
<1> HIDE DEF c
<1>7. \A x \in s : h[s \ {x}] \in Int /\ f[x] \in Int /\ \A y \in s \ {x} : h[s \ {x}] = f[y] + h[(s \ {x}) \ {y}]
  <2> TAKE x \in s
  <2>1. s \ {x} \in SUBSET S /\ s \ {x} \notin Bad BY <1>2, <1>3
  <2>2. Good(s \ {x}) BY <2>1
  <2> QED BY <1>3, <2>2
<1>8. h[s] = f[c] + h[s \ {c}] BY <1>4, <1>5 DEF c
<1>9. ASSUME NEW x \in s, x # c
      PROVE  h[s] = f[x] + h[s \ {x}]
  <2>1. (s \ {x}) \ {c} = (s \ {c}) \ {x} OBVIOUS
  <2>2. h[s \ {c}] = f[x] + h[(s \ {c}) \ {x}] BY <1>6, <1>7, <1>9
  <2>3. h[s \ {x}] = f[c] + h[(s \ {x}) \ {c}] BY <1>6, <1>7, <1>9
  <2>4. h[s \ {x}] \in Int /\ f[x] \in Int /\ h[s \ {c}] \in Int BY <1>6, <1>7
  <2>5. h[(s \ {c}) \ {x}] \in Int
    <3>1. (s \ {c}) \ {x} \in SUBSET S /\ (s \ {c}) \ {x} \notin Bad BY <1>2, <1>3
    <3> QED BY <3>1
  <2>6. h[(s \ {x}) \ {c}] = h[(s \ {c}) \ {x}] BY <2>1
  <2> HIDE DEF Bad, Good
  <2>7. f[c] \in Int BY <1>6
  <2> QED BY <1>8, <2>2, <2>3, <2>4, <2>5, <2>6, <2>7
<1>10. h[s] \in Int
  <2>1. h[s \ {c}] \in Int BY <1>6, <1>7
  <2> HIDE DEF Bad, Good
  <2> QED BY <1>6, <1>8, <2>1
<1> QED BY <1>3, <1>8, <1>9, <1>10

\* One more element adds its value.
LEMMA SumAdd ==
  ASSUME NEW S, IsFiniteSet(S), NEW f, \A x \in S : f[x] \in Int, NEW x \in S
  PROVE  /\ SumFunctionOnSet(f, S) \in Int /\ SumFunctionOnSet(f, S \ {x}) \in Int
         /\ SumFunctionOnSet(f, S) = f[x] + SumFunctionOnSet(f, S \ {x})
<1> DEFINE T == S \ {x}
<1>0. IsFiniteSet(T) /\ \A y \in T : f[y] \in Int BY FS_RemoveElement
<1>1. PICK h : Adds(h, f, S) /\ SumFunctionOnSet(f, S) = h[S] BY SumIs
<1>2. PICK g : Adds(g, f, T) /\ SumFunctionOnSet(f, T) = g[T] BY <1>0, SumIs
<1>3. g[T] = h[T]
  <2>1. T \subseteq S OBVIOUS
  <2> HIDE DEF T
  <2>2. \A s \in SUBSET T : g[s] = h[s] BY <1>0, <1>1, <1>2, <2>1, AddsAgree
  <2> QED BY <2>2
<1>4. h[S] = f[x] + h[T] /\ h[S] \in Int /\ h[T] \in Int BY <1>1, AnyOrder
<1> QED BY <1>1, <1>2, <1>3, <1>4

LEMMA SumEmpty ==
  ASSUME NEW f
  PROVE  SumFunctionOnSet(f, {}) = 0
<1>1. IsFiniteSet({}) BY FS_EmptySet
<1>2. PICK h : Adds(h, f, {}) /\ SumFunctionOnSet(f, {}) = h[{}] BY <1>1, SumIs
<1> QED BY <1>2 DEF Adds

\* Smaller terms make a smaller sum.
LEMMA SumMonotone ==
  ASSUME NEW S, IsFiniteSet(S), NEW f, NEW g,
         \A x \in S : f[x] \in Int /\ g[x] \in Int /\ f[x] <= g[x]
  PROVE  SumFunctionOnSet(f, S) <= SumFunctionOnSet(g, S)
<1>1. PICK h : Adds(h, f, S) /\ SumFunctionOnSet(f, S) = h[S] BY SumIs
<1>2. PICK k : Adds(k, g, S) /\ SumFunctionOnSet(g, S) = k[S] BY SumIs
<1>a. \A s \in SUBSET S : h[s] \in Int BY <1>1, AnyOrder
<1>b. \A s \in SUBSET S : k[s] \in Int BY <1>2, AnyOrder
<1> DEFINE Bad == {s \in SUBSET S : ~(h[s] <= k[s])}
<1>3. Bad = {}
  <2> SUFFICES ASSUME Bad # {} PROVE FALSE OBVIOUS
  <2>1. Bad \in SUBSET SUBSET S OBVIOUS
  <2>2. PICK s \in Bad : \A u \in Bad : u \subseteq s => u = s
    <3> HIDE DEF Bad
    <3> QED BY <2>1, SmallestSet
  <2>3. s \in SUBSET S /\ ~(h[s] <= k[s]) OBVIOUS
  <2>4. h[s] = IF s = {} THEN 0 ELSE f[Pick(s)] + h[s \ {Pick(s)}] BY <1>1, <2>3 DEF Adds
  <2>5. k[s] = IF s = {} THEN 0 ELSE g[Pick(s)] + k[s \ {Pick(s)}] BY <1>2, <2>3 DEF Adds
  <2>6. s # {} BY <2>3, <2>4, <2>5
  <2>7. Pick(s) \in s /\ s \ {Pick(s)} \in SUBSET S BY <2>3, <2>6, PickIn
  <2>8. s \ {Pick(s)} \notin Bad BY <2>2, <2>7
  <2>9. h[s \ {Pick(s)}] <= k[s \ {Pick(s)}] BY <2>7, <2>8
  <2>10. h[s \ {Pick(s)}] \in Int /\ k[s \ {Pick(s)}] \in Int BY <2>7, <1>a, <1>b
  <2>11. f[Pick(s)] \in Int /\ g[Pick(s)] \in Int /\ f[Pick(s)] <= g[Pick(s)] BY <2>3, <2>7
  <2> QED BY <2>3, <2>4, <2>5, <2>6, <2>9, <2>10, <2>11
<1> QED BY <1>1, <1>2, <1>3

LEMMA SumNat ==
  ASSUME NEW S, IsFiniteSet(S), NEW f, \A x \in S : f[x] \in Nat
  PROVE  SumFunctionOnSet(f, S) \in Nat
<1> DEFINE Part(u) == SumFunctionOnSet(f, u)
           Bad     == {u \in SUBSET S : Part(u) \notin Nat}
<1>1. Bad = {}
  <2> SUFFICES ASSUME Bad # {} PROVE FALSE OBVIOUS
  <2>1. Bad \in SUBSET SUBSET S OBVIOUS
  <2>2. PICK u \in Bad : \A v \in Bad : v \subseteq u => v = u
    <3> HIDE DEF Bad
    <3> QED BY <2>1, SmallestSet
  <2>3. IsFiniteSet(u) /\ \A x \in u : f[x] \in Int BY FS_Subset
  <2>4. PICK x \in u : TRUE BY SumEmpty
  <2>5. Part(u) = f[x] + Part(u \ {x}) BY <2>3, SumAdd
  <2>6. Part(u \ {x}) \in Nat BY <2>2
  <2> QED BY <2>2, <2>5, <2>6
<1> QED BY <1>1

\* A part and the rest of a set add up.
LEMMA SumParts ==
  ASSUME NEW S, IsFiniteSet(S), NEW f, \A x \in S : f[x] \in Int, NEW T \in SUBSET S
  PROVE  /\ SumFunctionOnSet(f, T) \in Int /\ SumFunctionOnSet(f, S \ T) \in Int
         /\ SumFunctionOnSet(f, S) = SumFunctionOnSet(f, T) + SumFunctionOnSet(f, S \ T)
<1> DEFINE Part(u) == SumFunctionOnSet(f, u)
           Good(u) == Part(u) \in Int /\ Part(S \ u) \in Int /\ Part(S) = Part(u) + Part(S \ u)
           Bad     == {u \in SUBSET S : ~Good(u)}
<1>0. \A u \in SUBSET S : IsFiniteSet(u) /\ \A x \in u : f[x] \in Int BY FS_Subset
<1>1. Good({})
  <2>1. S \ {} = S /\ Part({}) = 0 BY SumEmpty
  <2>2. Part(S) \in Int
    <3>1. CASE S = {} BY <2>1, <3>1
    <3>2. CASE S # {} BY <3>2, SumAdd
    <3> QED BY <3>1, <3>2
  <2> QED BY <2>1, <2>2
<1>2. ASSUME NEW u \in SUBSET S, NEW x \in u, Good(u \ {x})
      PROVE  Good(u)
  <2>1. Part(u) \in Int /\ Part(u) = f[x] + Part(u \ {x}) BY <1>0, SumAdd
  <2>2. PICK R : R = S \ (u \ {x}) OBVIOUS
  <2>3. R \in SUBSET S /\ x \in R /\ R \ {x} = S \ u BY <2>2
  <2>4. Part(R) = f[x] + Part(R \ {x}) /\ Part(R \ {x}) \in Int BY <1>0, <2>3, SumAdd
  <2>5. Part(R) = Part(S \ (u \ {x})) /\ Part(R \ {x}) = Part(S \ u) BY <2>2, <2>3
  <2>6. f[x] \in Int OBVIOUS
  <2> HIDE DEF Part
  <2> QED BY <1>2, <2>1, <2>4, <2>5, <2>6
<1>3. Bad = {}
  <2> SUFFICES ASSUME Bad # {} PROVE FALSE OBVIOUS
  <2>1. Bad \in SUBSET SUBSET S OBVIOUS
  <2>2. PICK u \in Bad : \A v \in Bad : v \subseteq u => v = u
    <3> HIDE DEF Bad
    <3> QED BY <2>1, SmallestSet
  <2> HIDE DEF Good
  <2>3. u # {} BY <1>1
  <2>4. PICK x \in u : TRUE BY <2>3
  <2>5. u \ {x} \in SUBSET S /\ u \ {x} \notin Bad BY <2>2
  <2> QED BY <1>2, <2>4, <2>5
<1> QED BY <1>3
-----------------------------------------------------------------------------
(* The money: what settling and reserving do to ledger, rows and bill.     *)

RowsIn(p, rws) == {r \in rws : r.attempt.period = p}

\* The ledger is below the lock but for the overrun, agrees with the rows, and covers
\* the bill of what was settled: an attempt is active, has its row, or is given up.
Money(conf, act, rws, md, ls) ==
  /\ conf \in [Periods -> Nat]
  /\ md \in SUBSET Attempt /\ IsFiniteSet(md)
  /\ act \subseteq md /\ ls \subseteq md /\ act \cap ls = {}
  /\ rws \in SUBSET UsageRow /\ IsFiniteSet(rws)
  /\ \A r \in rws : r.attempt \in md /\ r.attempt \notin act
  /\ \A r, q \in rws : r.attempt = q.attempt => r = q
  /\ \A p \in Periods : Total(p, conf, act) < Lock + Overrun(p, rws)
  /\ \A p \in Periods : conf[p] = SumFunctionOnSet(Charges, RowsIn(p, rws))
  /\ \A p \in Periods :
       SumFunctionOnSet(Foreseen, In(p, (md \ ls) \ act)) + Overrun(p, rws) <= conf[p]

LEMMA AmountsAreNat ==
  /\ Amounts \subseteq Nat /\ 0 \in Amounts
  /\ \A model \in {Terra, Luna, Local} : Worst(model) \in Amounts /\ Worst(model) \in Nat
BY CostAssumption DEF Amounts, Worst, Terra, Luna, Local

LEMMA WorstType ==
  ASSUME NEW a \in Attempt
  PROVE  /\ Worst(a.model) \in Nat /\ Worst(a.model) \in Amounts /\ Reserved[a] = Worst(a.model)
         /\ a.cost \in Nat /\ a.cost \in Amounts /\ a.period \in Periods
         /\ Foreseen[a] \in Nat /\ Foreseen[a] <= Reserved[a]
<1>1. /\ a.model \in {Terra, Luna, Local} /\ a.cost \in Amounts /\ a.period \in Periods
  BY DEF Attempt
<1>2. Foreseen[a] = IF a.cost <= Worst(a.model) THEN a.cost ELSE Worst(a.model)
  BY DEF Foreseen
<1>3. Reserved[a] = Worst(a.model)
  BY DEF Reserved
<1>4. a.cost \in Nat /\ Worst(a.model) \in Nat /\ Worst(a.model) \in Amounts
  BY <1>1, AmountsAreNat
<1> HIDE DEF Amounts
<1> QED BY <1>1, <1>2, <1>3, <1>4

\* What a row adds to the ledger: the foreseen part and the overrun of its attempt at
\* least, the reservation and the overrun at most.
LEMMA RowIs ==
  ASSUME NEW a \in Attempt, NEW usage \in BOOLEAN, NEW row, row = Row(a, usage)
  PROVE  /\ row \in UsageRow /\ row.attempt = a /\ row.charge = Charge(a, usage)
         /\ Charges[row] = Charge(a, usage) /\ Charge(a, usage) \in Nat /\ Excess[row] \in Nat
         /\ Charge(a, usage) <= Reserved[a] + Excess[row]
         /\ Foreseen[a] + Excess[row] <= Charge(a, usage)
<1> DEFINE c == Charge(a, usage)
<1>1. row = [attempt |-> a, charge |-> c]
  BY DEF Row
<1>2. c = (IF usage THEN a.cost ELSE Worst(a.model))
  BY DEF Charge
<1>3. c \in Amounts /\ c \in Nat
  BY <1>2, WorstType
<1> HIDE DEF c
<1>4. row \in UsageRow /\ row.attempt = a /\ row.charge = c
  BY <1>1, <1>3 DEF UsageRow
<1>5. Charges[row] = c
  BY <1>4 DEF Charges
<1>6. Excess[row] = IF c <= Worst(a.model) THEN 0 ELSE c - Worst(a.model)
  BY <1>4 DEF Excess
<1>7. Foreseen[a] = IF a.cost <= Worst(a.model) THEN a.cost ELSE Worst(a.model)
  BY DEF Foreseen
<1>8. Worst(a.model) \in Nat /\ a.cost \in Nat /\ Reserved[a] = Worst(a.model)
  BY WorstType
<1>9. Excess[row] \in Nat /\ c <= Reserved[a] + Excess[row]
  BY <1>3, <1>6, <1>8
<1>10. Foreseen[a] + Excess[row] <= c
  BY <1>2, <1>3, <1>6, <1>7, <1>8
<1> QED BY <1>3, <1>4, <1>5, <1>9, <1>10 DEF c

\* Sums over the attempts of a period, with and without one of them.
LEMMA PeriodSums ==
  ASSUME NEW S \in SUBSET Attempt, IsFiniteSet(S), NEW a \in S, NEW p \in Periods,
         NEW f, \A x \in Attempt : f[x] \in Nat
  PROVE  /\ SumFunctionOnSet(f, In(p, S)) \in Nat /\ SumFunctionOnSet(f, In(p, S \ {a})) \in Nat
         /\ SumFunctionOnSet(f, In(p, S)) =
              SumFunctionOnSet(f, In(p, S \ {a})) + (IF a.period = p THEN f[a] ELSE 0)
<1>1. In(p, S) \in SUBSET S /\ In(p, S \ {a}) \in SUBSET S
  BY DEF In
<1>2. /\ IsFiniteSet(In(p, S)) /\ (\A x \in In(p, S) : f[x] \in Nat)
      /\ IsFiniteSet(In(p, S \ {a})) /\ (\A x \in In(p, S \ {a}) : f[x] \in Nat)
  BY <1>1, FS_Subset
<1>3. SumFunctionOnSet(f, In(p, S)) \in Nat /\ SumFunctionOnSet(f, In(p, S \ {a})) \in Nat
  BY <1>2, SumNat
<1>4. CASE a.period = p
  <2>1. a \in In(p, S) /\ In(p, S \ {a}) = In(p, S) \ {a}
    BY <1>4 DEF In
  <2>2. SumFunctionOnSet(f, In(p, S)) = f[a] + SumFunctionOnSet(f, In(p, S) \ {a})
    BY <1>2, <2>1, SumAdd
  <2>3. f[a] \in Nat OBVIOUS
  <2>4. SumFunctionOnSet(f, In(p, S) \ {a}) = SumFunctionOnSet(f, In(p, S \ {a})) BY <2>1
  <2> QED BY <1>3, <1>4, <2>2, <2>3, <2>4
<1>5. CASE a.period # p
  <2>1. In(p, S \ {a}) = In(p, S)
    BY <1>5 DEF In
  <2> QED BY <1>3, <1>5, <2>1
<1> QED BY <1>3, <1>4, <1>5

LEMMA WeightsAreNat ==
  /\ \A x \in Attempt : Reserved[x] \in Nat /\ Foreseen[x] \in Nat
  /\ \A r \in UsageRow : Charges[r] \in Nat /\ Excess[r] \in Nat
<1>1. \A x \in Attempt : Reserved[x] \in Nat /\ Foreseen[x] \in Nat
  BY WorstType
<1>2. ASSUME NEW r \in UsageRow
      PROVE  Charges[r] \in Nat /\ Excess[r] \in Nat
  <2>1. r.attempt \in Attempt /\ r.charge \in Nat BY AmountsAreNat DEF UsageRow
  <2>2. Worst(r.attempt.model) \in Nat BY <2>1, WorstType
  <2>3. /\ Charges[r] = r.charge
        /\ Excess[r] = IF r.charge <= Worst(r.attempt.model) THEN 0 ELSE r.charge - Worst(r.attempt.model)
    BY DEF Charges, Excess
  <2> QED BY <2>1, <2>2, <2>3
<1> QED BY <1>1, <1>2

\* One more row of a column of rows.
LEMMA RowSums ==
  ASSUME NEW rws \in SUBSET UsageRow, IsFiniteSet(rws), NEW row \in UsageRow, row \notin rws,
         NEW p \in Periods, NEW f, \A r \in UsageRow : f[r] \in Nat
  PROVE  /\ SumFunctionOnSet(f, RowsIn(p, rws)) \in Nat
         /\ SumFunctionOnSet(f, RowsIn(p, rws \cup {row})) =
              SumFunctionOnSet(f, RowsIn(p, rws)) + (IF row.attempt.period = p THEN f[row] ELSE 0)
<1>1. PICK R : R = RowsIn(p, rws \cup {row}) OBVIOUS
<1>2. R \in SUBSET UsageRow /\ RowsIn(p, rws) \in SUBSET rws /\ R \in SUBSET (rws \cup {row})
  BY <1>1 DEF RowsIn
<1>3. IsFiniteSet(R) /\ IsFiniteSet(RowsIn(p, rws))
  <2>1. IsFiniteSet(rws \cup {row}) BY FS_AddElement
  <2> QED BY <1>2, <2>1, FS_Subset
<1>4. SumFunctionOnSet(f, RowsIn(p, rws)) \in Nat
  BY <1>2, <1>3, SumNat
<1>5. CASE row.attempt.period = p
  <2>1. row \in R /\ R \ {row} = RowsIn(p, rws) BY <1>1, <1>5 DEF RowsIn
  <2>2. SumFunctionOnSet(f, R) = f[row] + SumFunctionOnSet(f, R \ {row})
    <3>1. \A r \in R : f[r] \in Int BY <1>2
    <3> QED BY <1>3, <2>1, <3>1, SumAdd
  <2>3. f[row] \in Nat OBVIOUS
  <2>4. SumFunctionOnSet(f, R) = f[row] + SumFunctionOnSet(f, RowsIn(p, rws)) BY <2>1, <2>2
  <2>5. SumFunctionOnSet(f, R) = SumFunctionOnSet(f, RowsIn(p, rws)) + f[row] BY <1>4, <2>3, <2>4
  <2> QED BY <1>1, <1>4, <1>5, <2>5
<1>6. CASE row.attempt.period # p
  <2>1. R = RowsIn(p, rws) BY <1>1, <1>6 DEF RowsIn
  <2> QED BY <1>1, <1>4, <1>6, <2>1
<1> QED BY <1>5, <1>6

LEMMA OverrunIs ==
  ASSUME NEW rws, NEW p
  PROVE  Overrun(p, rws) = SumFunctionOnSet(Excess, RowsIn(p, rws))
BY DEF Overrun, RowsIn

\* An active attempt settles.
LEMMA SettleMoney ==
  ASSUME NEW conf, NEW act, NEW rws, NEW md, NEW ls, Money(conf, act, rws, md, ls),
         NEW a \in act, NEW usage \in BOOLEAN
  PROVE  Money([conf EXCEPT ![a.period] = @ + Charge(a, usage)], act \ {a},
               rws \cup {Row(a, usage)}, md, ls)
<1> DEFINE conf2 == [conf EXCEPT ![a.period] = @ + Charge(a, usage)]
           act2  == act \ {a}
           row   == Row(a, usage)
           rws2  == rws \cup {row}
           c     == Charge(a, usage)
           e     == Excess[row]
<1>1. a \in Attempt /\ a \in md /\ a \notin ls
  BY DEF Money
<1>2. /\ a.period \in Periods /\ Reserved[a] \in Nat /\ Foreseen[a] \in Nat
  BY <1>1, WorstType
<1>3. /\ row \in UsageRow /\ row.attempt = a /\ row.charge = c /\ Charges[row] = c /\ row \notin rws
      /\ c \in Nat /\ e \in Nat /\ c <= Reserved[a] + e /\ Foreseen[a] + e <= c
  <2>1. PICK ro : ro = Row(a, usage) OBVIOUS
  <2>2. /\ ro \in UsageRow /\ ro.attempt = a /\ ro.charge = Charge(a, usage)
        /\ Charges[ro] = Charge(a, usage) /\ Charge(a, usage) \in Nat /\ Excess[ro] \in Nat
        /\ Charge(a, usage) <= Reserved[a] + Excess[ro] /\ Foreseen[a] + Excess[ro] <= Charge(a, usage)
    BY <1>1, <2>1, RowIs
  <2>3. ro \notin rws BY <2>2 DEF Money
  <2> QED BY <2>1, <2>2, <2>3
<1>o. row = Row(a, usage) OBVIOUS
<1> HIDE DEF row, c
<1> DEFINE o(p) == Overrun(p, rws)
<1>v. e = Excess[row] OBVIOUS
<1> HIDE DEF e
<1>4. /\ conf2 \in [Periods -> Nat]
      /\ \A p \in Periods : conf2[p] = conf[p] + (IF a.period = p THEN c ELSE 0)
  BY <1>2, <1>3 DEF Money, c
<1>5. IsFiniteSet(act) /\ IsFiniteSet(rws2) /\ act \in SUBSET Attempt
  BY FS_Subset, FS_AddElement DEF Money
<1>r. ASSUME NEW p \in Periods, NEW f, \A r \in UsageRow : f[r] \in Nat
      PROVE  /\ SumFunctionOnSet(f, RowsIn(p, rws)) \in Nat
             /\ SumFunctionOnSet(f, RowsIn(p, rws2)) =
                  SumFunctionOnSet(f, RowsIn(p, rws)) + (IF a.period = p THEN f[row] ELSE 0)
  <2>1. rws \in SUBSET UsageRow /\ IsFiniteSet(rws) BY DEF Money
  <2>2. /\ SumFunctionOnSet(f, RowsIn(p, rws)) \in Nat
        /\ SumFunctionOnSet(f, RowsIn(p, rws \cup {row})) =
             SumFunctionOnSet(f, RowsIn(p, rws)) + (IF row.attempt.period = p THEN f[row] ELSE 0)
    BY <1>3, <1>r, <2>1, RowSums
  <2> QED BY <1>3, <2>2
<1>e. ASSUME NEW p \in Periods
      PROVE  Overrun(p, rws) \in Nat /\ Overrun(p, rws2) = Overrun(p, rws) + (IF a.period = p THEN e ELSE 0)
  <2>1. \A r \in UsageRow : Excess[r] \in Nat BY WeightsAreNat
  <2>2. /\ SumFunctionOnSet(Excess, RowsIn(p, rws)) \in Nat
        /\ SumFunctionOnSet(Excess, RowsIn(p, rws2)) =
             SumFunctionOnSet(Excess, RowsIn(p, rws)) + (IF a.period = p THEN Excess[row] ELSE 0)
    BY <1>r, <2>1
  <2>3. /\ Overrun(p, rws) = SumFunctionOnSet(Excess, RowsIn(p, rws))
        /\ Overrun(p, rws2) = SumFunctionOnSet(Excess, RowsIn(p, rws2))
    BY OverrunIs
  <2> QED BY <1>v, <2>2, <2>3
<1>6. ASSUME NEW p \in Periods
      PROVE  Total(p, conf2, act2) < Lock + Overrun(p, rws2)
  <2>1. /\ SumFunctionOnSet(Reserved, In(p, act)) \in Nat /\ SumFunctionOnSet(Reserved, In(p, act2)) \in Nat
        /\ SumFunctionOnSet(Reserved, In(p, act)) =
             SumFunctionOnSet(Reserved, In(p, act2)) + (IF a.period = p THEN Reserved[a] ELSE 0)
    BY <1>5, PeriodSums, WeightsAreNat
  <2>2. /\ conf[p] + SumFunctionOnSet(Reserved, In(p, act)) < Lock + Overrun(p, rws)
        /\ conf[p] \in Nat /\ Lock \in Nat
    BY CostAssumption DEF Money, Total
  <2>3. conf2[p] = conf[p] + (IF a.period = p THEN c ELSE 0) BY <1>4
  <2>5. Overrun(p, rws) \in Nat /\ Overrun(p, rws2) = Overrun(p, rws) + (IF a.period = p THEN e ELSE 0)
    BY <1>e
  <2> HIDE DEF conf2, act2, rws2
  <2>4. conf2[p] + SumFunctionOnSet(Reserved, In(p, act2)) < Lock + Overrun(p, rws2)
    BY <1>2, <1>3, <2>1, <2>2, <2>3, <2>5
  <2> QED BY <2>4 DEF Total
<1>7. ASSUME NEW p \in Periods
      PROVE  conf2[p] = SumFunctionOnSet(Charges, RowsIn(p, rws2))
  <2>1. \A r \in UsageRow : Charges[r] \in Nat BY WeightsAreNat
  <2>2. /\ SumFunctionOnSet(Charges, RowsIn(p, rws2)) =
             SumFunctionOnSet(Charges, RowsIn(p, rws)) + (IF a.period = p THEN Charges[row] ELSE 0)
    BY <1>r, <2>1
  <2>3. conf[p] = SumFunctionOnSet(Charges, RowsIn(p, rws)) BY DEF Money
  <2>4. conf2[p] = conf[p] + (IF a.period = p THEN c ELSE 0) BY <1>4
  <2> QED BY <1>3, <2>2, <2>3, <2>4
<1>8. ASSUME NEW p \in Periods
      PROVE  SumFunctionOnSet(Foreseen, In(p, (md \ ls) \ act2)) + Overrun(p, rws2) <= conf2[p]
  <2> DEFINE S == (md \ ls) \ act2
  <2>1. S \in SUBSET Attempt /\ IsFiniteSet(S) /\ a \in S /\ S \ {a} = (md \ ls) \ act
    <3>1. S \in SUBSET md BY DEF Money
    <3>2. IsFiniteSet(S) BY <3>1, FS_Subset DEF Money
    <3> QED BY <1>1, <3>2 DEF Money
  <2> HIDE DEF S
  <2>2. /\ SumFunctionOnSet(Foreseen, In(p, S)) \in Nat /\ SumFunctionOnSet(Foreseen, In(p, S \ {a})) \in Nat
        /\ SumFunctionOnSet(Foreseen, In(p, S)) =
             SumFunctionOnSet(Foreseen, In(p, S \ {a})) + (IF a.period = p THEN Foreseen[a] ELSE 0)
    BY <2>1, PeriodSums, WeightsAreNat
  <2>3. SumFunctionOnSet(Foreseen, In(p, S \ {a})) + Overrun(p, rws) <= conf[p] /\ conf[p] \in Nat
    BY <2>1 DEF Money
  <2>4. conf2[p] = conf[p] + (IF a.period = p THEN c ELSE 0) BY <1>4
  <2>6. Overrun(p, rws) \in Nat /\ Overrun(p, rws2) = Overrun(p, rws) + (IF a.period = p THEN e ELSE 0)
    BY <1>e
  <2> HIDE DEF conf2, rws2
  <2>5. SumFunctionOnSet(Foreseen, In(p, S)) + Overrun(p, rws2) <= conf2[p]
    BY <1>2, <1>3, <2>2, <2>3, <2>4, <2>6
  <2> QED BY <2>5 DEF S
<1>9. /\ \A r \in rws2 : r.attempt \in md /\ r.attempt \notin act2
      /\ \A r, q \in rws2 : r.attempt = q.attempt => r = q
      /\ rws2 \in SUBSET UsageRow
  BY <1>1, <1>3 DEF Money
<1> QED
  <2>1. /\ md \in SUBSET Attempt /\ IsFiniteSet(md)
        /\ act2 \subseteq md /\ ls \subseteq md /\ act2 \cap ls = {}
    BY DEF Money
  <2> HIDE DEF conf2, act2, rws2
  <2>2. Money(conf2, act2, rws2, md, ls) BY <1>4, <1>5, <1>6, <1>7, <1>8, <1>9, <2>1 DEF Money
  <2> QED BY <2>2 DEF conf2, act2, rws2, row

LEMMA OverrunType ==
  ASSUME NEW conf, NEW act, NEW rws, NEW md, NEW ls, Money(conf, act, rws, md, ls), NEW p \in Periods
  PROVE  Overrun(p, rws) \in Nat
<1>1. RowsIn(p, rws) \in SUBSET rws /\ rws \in SUBSET UsageRow /\ IsFiniteSet(rws)
  BY DEF RowsIn, Money
<1>2. IsFiniteSet(RowsIn(p, rws)) /\ \A r \in RowsIn(p, rws) : Excess[r] \in Nat
  BY <1>1, FS_Subset, WeightsAreNat
<1> QED BY <1>2, SumNat, OverrunIs

\* An attempt is reserved that was never made before.
LEMMA ReserveMoney ==
  ASSUME NEW conf, NEW act, NEW rws, NEW md, NEW ls, Money(conf, act, rws, md, ls),
         NEW a \in Attempt, a \notin md,
         ~Locked(a.model, a.period, conf, act)
  PROVE  Money(conf, act \cup {a}, rws, md \cup {a}, ls)
<1> DEFINE act2 == act \cup {a}
           md2  == md \cup {a}
<1>1. IsFiniteSet(act) /\ IsFiniteSet(act2) /\ IsFiniteSet(md2) /\ act2 \in SUBSET Attempt
  BY FS_Subset, FS_AddElement DEF Money
<1>2. a \notin act /\ act2 \ {a} = act /\ a \in act2 /\ (md2 \ ls) \ act2 = (md \ ls) \ act
  BY DEF Money
<1>3. Worst(a.model) \in Nat /\ Reserved[a] = Worst(a.model) /\ a.period \in Periods BY WorstType
<1>4. ASSUME NEW p \in Periods
      PROVE  Total(p, conf, act2) < Lock + Overrun(p, rws)
  <2>1. /\ SumFunctionOnSet(Reserved, In(p, act2)) \in Nat /\ SumFunctionOnSet(Reserved, In(p, act)) \in Nat
        /\ SumFunctionOnSet(Reserved, In(p, act2)) =
             SumFunctionOnSet(Reserved, In(p, act)) + (IF a.period = p THEN Reserved[a] ELSE 0)
    <3>1. PICK S : S = act2 OBVIOUS
    <3>2. /\ SumFunctionOnSet(Reserved, In(p, S)) \in Nat /\ SumFunctionOnSet(Reserved, In(p, S \ {a})) \in Nat
          /\ SumFunctionOnSet(Reserved, In(p, S)) =
               SumFunctionOnSet(Reserved, In(p, S \ {a})) + (IF a.period = p THEN Reserved[a] ELSE 0)
      BY <1>1, <1>2, <3>1, PeriodSums, WeightsAreNat
    <3> QED BY <1>2, <3>1, <3>2
  <2>2. /\ conf[p] + SumFunctionOnSet(Reserved, In(p, act)) < Lock + Overrun(p, rws)
        /\ conf[p] \in Nat /\ Lock \in Nat
    BY CostAssumption DEF Money, Total
  <2>5. Overrun(p, rws) \in Nat BY OverrunType
  <2>3. a.period = p /\ Worst(a.model) > 0 =>
          conf[p] + SumFunctionOnSet(Reserved, In(p, act)) + Worst(a.model) < Lock
    BY <2>1, <2>2, <1>3 DEF Locked, Total
  <2> HIDE DEF act2
  <2>4. conf[p] + SumFunctionOnSet(Reserved, In(p, act2)) < Lock + Overrun(p, rws)
    BY <1>3, <2>1, <2>2, <2>3, <2>5
  <2> QED BY <2>4 DEF Total
<1>5. ASSUME NEW p \in Periods
      PROVE  SumFunctionOnSet(Foreseen, In(p, (md2 \ ls) \ act2)) + Overrun(p, rws) <= conf[p]
  BY <1>2 DEF Money
<1>6. /\ conf \in [Periods -> Nat] /\ md2 \in SUBSET Attempt /\ act2 \subseteq md2 /\ ls \subseteq md2
      /\ act2 \cap ls = {} /\ rws \in SUBSET UsageRow /\ IsFiniteSet(rws)
      /\ \A r \in rws : r.attempt \in md2 /\ r.attempt \notin act2
      /\ \A r, q \in rws : r.attempt = q.attempt => r = q
      /\ \A p \in Periods : conf[p] = SumFunctionOnSet(Charges, RowsIn(p, rws))
  BY DEF Money
<1> HIDE DEF act2, md2
<1>7. Money(conf, act2, rws, md2, ls) BY <1>1, <1>4, <1>5, <1>6 DEF Money
<1> QED BY <1>7 DEF act2, md2

\* A restart gives up what is active and reads the rows again.
LEMMA RestartMoney ==
  ASSUME NEW conf, NEW act, NEW rws, NEW md, NEW ls, Money(conf, act, rws, md, ls),
         NEW conf2, conf2 = [p \in Periods |-> SumFunctionOnSet(Charges, RowsIn(p, rws))]
  PROVE  Money(conf2, {}, rws, md, ls \cup act)
<1>1. conf2 = conf
  BY DEF Money
<1>2. (md \ (ls \cup act)) \ {} = (md \ ls) \ act
  OBVIOUS
<1>3. ASSUME NEW p \in Periods
      PROVE  Total(p, conf, {}) < Lock + Overrun(p, rws)
  <2>1. In(p, {}) = {} BY DEF In
  <2>6. SumFunctionOnSet(Reserved, In(p, {})) = 0 BY <2>1, SumEmpty
  <2>7. conf[p] \in Nat BY DEF Money
  <2>2. Total(p, conf, {}) = conf[p] BY <2>6, <2>7 DEF Total
  <2>3. IsFiniteSet(In(p, act)) /\ \A x \in In(p, act) : Reserved[x] \in Nat
    <3>1. In(p, act) \in SUBSET md BY DEF In, Money
    <3> QED BY <3>1, FS_Subset, WeightsAreNat DEF Money
  <2>4. SumFunctionOnSet(Reserved, In(p, act)) \in Nat BY <2>3, SumNat
  <2>5. /\ conf[p] \in Nat /\ Lock \in Nat
        /\ conf[p] + SumFunctionOnSet(Reserved, In(p, act)) < Lock + Overrun(p, rws)
    BY CostAssumption DEF Money, Total
  <2>8. Overrun(p, rws) \in Nat BY OverrunType
  <2> QED BY <2>2, <2>4, <2>5, <2>8
<1> QED BY <1>1, <1>2, <1>3 DEF Money
-----------------------------------------------------------------------------
(* The turns: which of them holds an attempt that is still to be settled.  *)

Phases  == {"idle", "ended"} \cup Running
Tries   == [turn : Turns, try : {0, 1, 2}, model : {Terra, Luna, Local}, period : Periods,
            cost : Amounts]
Kinds   == {"none", "completed", "transient", "permanent"}
Spoken  == {"stream", "limit", "finish", "apology"}
Thens   == Spoken \cup {"none", "completed", "cancelled"}
Results == Thens \cup {"budget_locked", "error", "fault"}

TurnType == [at : Phases, attempt : Tries, usage : BOOLEAN, terminal : Kinds, said : Int,
             then : Thens, voiced : SUBSET {0, 1, 2}, result : Results]

\* The turn's attempt will be settled; an apology is spoken after that.
Holds(r) == r.at \in {"streaming", "draining"} \/ (r.at = "emitting" /\ r.then # "apology")

\* An attempt to be settled is active, and the tries of a turn come one by one.
Tidy ==
  /\ month \in Periods
  /\ turn \in [Turns -> TurnType]
  /\ \A t \in Turns : turn[t].attempt.turn = t
  /\ \A t \in Turns : turn[t].at = "idle" => turn[t].attempt.try = 0
  /\ \A t \in Turns : turn[t].at = "emitting" => turn[t].then \in Spoken
  /\ \A t \in Turns : Holds(turn[t]) => turn[t].attempt \in active
  /\ \A t \in Turns : turn[t].attempt.try = 2 => turn[t].attempt.model = Luna
  /\ \A a \in made : a \in Attempt /\ turn[a.turn].at # "idle" /\ a.try <= turn[a.turn].attempt.try

IInv == Tidy /\ Money(confirmed, active, rows, made, lost)

Rec(at, attempt, usage, terminal, said, then, voiced, result) ==
  [at |-> at, attempt |-> attempt, usage |-> usage, terminal |-> terminal, said |-> said,
   then |-> then, voiced |-> voiced, result |-> result]

LEMMA Literals ==
  /\ {"ended", "streaming", "emitting", "draining"} \subseteq Phases
  /\ "none" \in Kinds /\ Spoken \cup {"none", "completed", "cancelled"} = Thens
  /\ Thens \cup {"error", "budget_locked", "fault"} = Results
BY DEF Phases, Running, Kinds, Thens, Results

LEMMA TurnFields ==
  ASSUME NEW r \in TurnType
  PROVE  /\ r.at \in Phases /\ r.attempt \in Tries /\ r.usage \in BOOLEAN /\ r.terminal \in Kinds
         /\ r.said \in Int /\ r.then \in Thens /\ r.voiced \in SUBSET {0, 1, 2} /\ r.result \in Results
         /\ r = Rec(r.at, r.attempt, r.usage, r.terminal, r.said, r.then, r.voiced, r.result)
BY DEF TurnType, Rec

(* What changing some fields of a turn does to its type and to the others. *)

LEMMA EndedType ==
  ASSUME NEW r \in TurnType, NEW result \in Results
  PROVE  LET q == Ended(r, result) IN
         q \in TurnType /\ q.attempt = r.attempt /\ q.at = "ended" /\ ~Holds(q)
<1>1. PICK q1 : q1 = [r EXCEPT !.at = "ended"] OBVIOUS
<1>11. q1 = Rec("ended", r.attempt, r.usage, r.terminal, r.said, r.then, r.voiced, r.result)
  BY TurnFields, <1>1 DEF Rec
<1>2. PICK q2 : q2 = [q1 EXCEPT !.result = result] OBVIOUS
<1>12. q2 = Rec("ended", r.attempt, r.usage, r.terminal, r.said, r.then, r.voiced, result)
  BY TurnFields, <1>11, <1>2 DEF Rec
<1>3. PICK q3 : q3 = [q2 EXCEPT !.usage = FALSE] OBVIOUS
<1>13. q3 = Rec("ended", r.attempt, FALSE, r.terminal, r.said, r.then, r.voiced, result)
  BY TurnFields, <1>12, <1>3 DEF Rec
<1>4. PICK q4 : q4 = [q3 EXCEPT !.terminal = "none"] OBVIOUS
<1>14. q4 = Rec("ended", r.attempt, FALSE, "none", r.said, r.then, r.voiced, result)
  BY TurnFields, <1>13, <1>4 DEF Rec
<1>5. PICK q5 : q5 = [q4 EXCEPT !.said = 0] OBVIOUS
<1>15. q5 = Rec("ended", r.attempt, FALSE, "none", 0, r.then, r.voiced, result)
  BY TurnFields, <1>14, <1>5 DEF Rec
<1>6. PICK q6 : q6 = [q5 EXCEPT !.then = "none"] OBVIOUS
<1>16. q6 = Rec("ended", r.attempt, FALSE, "none", 0, "none", r.voiced, result)
  BY TurnFields, <1>15, <1>6 DEF Rec
<1>8. Ended(r, result) = q6
  BY <1>1, <1>2, <1>3, <1>4, <1>5, <1>6 DEF Ended
<1> QED BY Literals, TurnFields, <1>8, <1>16 DEF Rec, TurnType, Holds

LEMMA StreamingType ==
  ASSUME NEW r \in TurnType, NEW a \in Tries
  PROVE  LET q == Streaming(r, a) IN
         q \in TurnType /\ q.attempt = a /\ q.at = "streaming"
<1>1. PICK q1 : q1 = [r EXCEPT !.at = "streaming"] OBVIOUS
<1>11. q1 = Rec("streaming", r.attempt, r.usage, r.terminal, r.said, r.then, r.voiced, r.result)
  BY TurnFields, <1>1 DEF Rec
<1>2. PICK q2 : q2 = [q1 EXCEPT !.attempt = a] OBVIOUS
<1>12. q2 = Rec("streaming", a, r.usage, r.terminal, r.said, r.then, r.voiced, r.result)
  BY TurnFields, <1>11, <1>2 DEF Rec
<1>3. PICK q3 : q3 = [q2 EXCEPT !.usage = FALSE] OBVIOUS
<1>13. q3 = Rec("streaming", a, FALSE, r.terminal, r.said, r.then, r.voiced, r.result)
  BY TurnFields, <1>12, <1>3 DEF Rec
<1>4. PICK q4 : q4 = [q3 EXCEPT !.terminal = "none"] OBVIOUS
<1>14. q4 = Rec("streaming", a, FALSE, "none", r.said, r.then, r.voiced, r.result)
  BY TurnFields, <1>13, <1>4 DEF Rec
<1>5. PICK q5 : q5 = [q4 EXCEPT !.said = 0] OBVIOUS
<1>15. q5 = Rec("streaming", a, FALSE, "none", 0, r.then, r.voiced, r.result)
  BY TurnFields, <1>14, <1>5 DEF Rec
<1>8. Streaming(r, a) = q5
  BY <1>1, <1>2, <1>3, <1>4, <1>5 DEF Streaming
<1> QED BY Literals, TurnFields, <1>8, <1>15 DEF Rec, TurnType

\* The turn moves to another await, with what is to follow it.
Onto(r, at, then) == [r EXCEPT !.at = at, !.then = then]

LEMMA PhaseThenType ==
  ASSUME NEW r \in TurnType, NEW at \in Phases, NEW then \in Thens
  PROVE  LET q == Onto(r, at, then) IN
         q \in TurnType /\ q.attempt = r.attempt /\ q.at = at /\ q.then = then
<1>1. PICK q1 : q1 = [r EXCEPT !.at = at] OBVIOUS
<1>11. q1 = Rec(at, r.attempt, r.usage, r.terminal, r.said, r.then, r.voiced, r.result)
  BY TurnFields, <1>1 DEF Rec
<1>2. PICK q2 : q2 = [q1 EXCEPT !.then = then] OBVIOUS
<1>12. q2 = Rec(at, r.attempt, r.usage, r.terminal, r.said, then, r.voiced, r.result)
  BY TurnFields, <1>11, <1>2 DEF Rec
<1>8. Onto(r, at, then) = q2
  BY <1>1, <1>2 DEF Onto
<1> QED BY TurnFields, <1>8, <1>12 DEF Rec, TurnType

LEMMA PhaseType ==
  ASSUME NEW r \in TurnType, NEW at \in Phases
  PROVE  LET q == [r EXCEPT !.at = at] IN
         q \in TurnType /\ q.attempt = r.attempt /\ q.at = at /\ q.then = r.then
<1>1. PICK q1 : q1 = [r EXCEPT !.at = at] OBVIOUS
<1>11. q1 = Rec(at, r.attempt, r.usage, r.terminal, r.said, r.then, r.voiced, r.result)
  BY TurnFields, <1>1 DEF Rec
<1>8. [r EXCEPT !.at = at] = q1
  BY <1>1
<1> QED BY TurnFields, <1>8, <1>11 DEF Rec, TurnType

LEMMA SpeakingType ==
  ASSUME NEW r \in TurnType, NEW then \in Thens
  PROVE  LET q == [r EXCEPT !.at = "emitting", !.then = then, !.said = @ + 1,
                             !.voiced = @ \cup {r.attempt.try}] IN
         q \in TurnType /\ q.attempt = r.attempt /\ q.at = "emitting" /\ q.then = then
<1>1. PICK q1 : q1 = [r EXCEPT !.at = "emitting"] OBVIOUS
<1>11. q1 = Rec("emitting", r.attempt, r.usage, r.terminal, r.said, r.then, r.voiced, r.result)
  BY TurnFields, <1>1 DEF Rec
<1>2. PICK q2 : q2 = [q1 EXCEPT !.then = then] OBVIOUS
<1>12. q2 = Rec("emitting", r.attempt, r.usage, r.terminal, r.said, then, r.voiced, r.result)
  BY TurnFields, <1>11, <1>2 DEF Rec
<1>3. PICK q3 : q3 = [q2 EXCEPT !.said = r.said + 1] OBVIOUS
<1>13. q3 = Rec("emitting", r.attempt, r.usage, r.terminal, r.said + 1, then, r.voiced, r.result)
  BY TurnFields, <1>12, <1>3 DEF Rec
<1>4. PICK q4 : q4 = [q3 EXCEPT !.voiced = r.voiced \cup {r.attempt.try}] OBVIOUS
<1>14. q4 = Rec("emitting", r.attempt, r.usage, r.terminal, r.said + 1, then, r.voiced \cup {r.attempt.try}, r.result)
  BY TurnFields, <1>13, <1>4 DEF Rec
<1>8. [r EXCEPT !.at = "emitting", !.then = then, !.said = @ + 1,
                 !.voiced = @ \cup {r.attempt.try}] = q4
  BY <1>1, <1>2, <1>3, <1>4, TurnFields, <1>11, <1>12, <1>13 DEF Rec
<1>9. r.voiced \cup {r.attempt.try} \in SUBSET {0, 1, 2} /\ r.said + 1 \in Int
  BY TurnFields DEF Tries
<1> QED BY Literals, TurnFields, <1>9, <1>8, <1>14 DEF Rec, TurnType

\* A turn goes on without a new attempt, or ends; what it settles it held.
LEMMA GoesOn ==
  ASSUME Tidy, NEW t \in Turns, NEW r \in TurnType, turn' = [turn EXCEPT ![t] = r],
         r.attempt = turn[t].attempt, r.at # "idle", r.at = "emitting" => r.then \in Spoken,
         UNCHANGED <<month, made>>,
         \/ active' = active /\ (Holds(r) => Holds(turn[t]))
         \/ active' = active \ {turn[t].attempt} /\ ~Holds(r)
  PROVE  Tidy'
<1>1. turn' \in [Turns -> TurnType] /\ \A u \in Turns : turn'[u] = IF u = t THEN r ELSE turn[u]
  BY DEF Tidy
<1>2. \A u \in Turns : turn'[u].attempt = turn[u].attempt
  BY DEF Tidy
<1>3. \A u \in Turns : Holds(turn'[u]) => turn'[u].attempt \in active'
  <2> SUFFICES ASSUME NEW u \in Turns, Holds(turn'[u])
               PROVE  turn[u].attempt \in active'
    BY <1>2
  <2>1. CASE u = t
    <3>1. turn'[u] = r BY <2>1 DEF Tidy
    <3> QED BY <2>1, <3>1 DEF Tidy
  <2>2. CASE u # t
    <3>1. turn'[u] = turn[u] BY <2>2 DEF Tidy
    <3>2. turn[u].attempt \in active /\ turn[u].attempt # turn[t].attempt BY <2>2, <3>1 DEF Tidy
    <3> QED BY <3>2
  <2> QED BY <2>1, <2>2
<1>4. \A u \in Turns : turn[u].at # "idle" => turn'[u].at # "idle"
  BY DEF Tidy
<1>5. \A a \in made : a \in Attempt /\ a.turn \in Turns
  BY DEF Tidy, Attempt
<1> QED BY <1>1, <1>2, <1>3, <1>4, <1>5 DEF Tidy

\* A turn streams a new attempt.
LEMMA TriesAgain ==
  ASSUME Tidy, NEW t \in Turns, NEW a \in Attempt, a.turn = t, turn[t].attempt.try <= a.try,
         a.try = 2 => a.model = Luna, turn' = [turn EXCEPT ![t] = Streaming(turn[t], a)],
         month' = month, made' = made \cup {a},
         active' = active \cup {a} \/ active' = (active \ {turn[t].attempt}) \cup {a}
  PROVE  Tidy'
<1> DEFINE r == Streaming(turn[t], a)
<1>1. r \in TurnType /\ r.attempt = a /\ r.at = "streaming"
  <2>1. turn[t] \in TurnType BY DEF Tidy
  <2>2. a \in Tries BY DEF Attempt, Tries
  <2> QED BY <2>1, <2>2, StreamingType
<1> HIDE DEF r
<1>2. turn' \in [Turns -> TurnType] /\ turn'[t] = r /\ \A u \in Turns \ {t} : turn'[u] = turn[u]
  BY <1>1 DEF Tidy, r
<1>3. \A u \in Turns : Holds(turn'[u]) => turn'[u].attempt \in active'
  <2> SUFFICES ASSUME NEW u \in Turns, Holds(turn'[u])
               PROVE  turn'[u].attempt \in active'
    OBVIOUS
  <2>1. CASE u = t BY <1>1, <1>2, <2>1
  <2>2. CASE u # t
    <3>1. turn'[u] = turn[u] BY <1>2, <2>2
    <3>2. turn[u].attempt \in active /\ turn[u].attempt # turn[t].attempt BY <2>2, <3>1 DEF Tidy
    <3> QED BY <3>1, <3>2
  <2> QED BY <2>1, <2>2
<1>4. \A b \in made' : b \in Attempt /\ turn'[b.turn].at # "idle" /\ b.try <= turn'[b.turn].attempt.try
  <2> SUFFICES ASSUME NEW b \in made'
               PROVE  b \in Attempt /\ turn'[b.turn].at # "idle" /\ b.try <= turn'[b.turn].attempt.try
    OBVIOUS
  <2>0. a.try \in {1, 2} BY DEF Attempt
  <2>1. CASE b = a BY <1>1, <1>2, <2>0, <2>1
  <2>2. CASE b \in made
    <3>1. /\ b \in Attempt /\ b.turn \in Turns /\ b.try \in {1, 2}
          /\ turn[b.turn].at # "idle" /\ b.try <= turn[b.turn].attempt.try
      BY <2>2 DEF Tidy, Attempt
    <3>2. CASE b.turn = t
      <4>1. turn[t].attempt.try \in {0, 1, 2} BY DEF Tidy, TurnType, Tries
      <4> QED BY <1>1, <1>2, <2>0, <3>1, <3>2, <4>1
    <3>3. CASE b.turn # t BY <1>2, <3>1, <3>3
    <3> QED BY <3>2, <3>3
  <2> QED BY <2>1, <2>2
<1> QED BY <1>1, <1>2, <1>3, <1>4 DEF Tidy
-----------------------------------------------------------------------------
(* The steps.                                                              *)

\* What a step that only moves its turn on does.
Still == UNCHANGED <<active, confirmed, rows, made, lost>>

LEMMA StillKeeps ==
  ASSUME IInv, Tidy', Still
  PROVE  IInv'
BY DEF IInv, Still

\* A turn's settlement, taken or refused.
LEMMA SettleThenKeeps ==
  ASSUME IInv, NEW t \in Turns, NEW usage \in BOOLEAN, NEW r \in TurnType,
         Holds(turn[t]), ~Holds(r), r.at # "idle", r.attempt = turn[t].attempt,
         r.at = "emitting" => r.then \in Spoken,
         SettleThen(t, usage, r), UNCHANGED <<month, lost>>
  PROVE  IInv'
<1>1. CASE SettleRefused(t)
  <2> DEFINE q == Ended(turn[t], "error")
  <2>1. turn[t] \in TurnType BY DEF IInv, Tidy
  <2>2. q \in TurnType /\ q.attempt = turn[t].attempt /\ q.at = "ended" /\ ~Holds(q)
    BY <2>1, EndedType, Literals DEF Results
  <2>3. turn' = [turn EXCEPT ![t] = q] /\ Still BY <1>1 DEF SettleRefused, Still, IInv, Tidy
  <2> HIDE DEF q
  <2>5. Tidy' BY <2>2, <2>3, GoesOn DEF IInv, Still
  <2> QED BY <2>3, <2>5, StillKeeps
<1>2. CASE /\ Settle(turn[t].attempt, usage) /\ active' = active \ {turn[t].attempt}
           /\ turn' = [turn EXCEPT ![t] = r] /\ UNCHANGED made
  <2>1. Tidy' BY <1>2, GoesOn DEF IInv
  <2>2. turn[t].attempt \in active BY DEF IInv, Tidy
  <2>3. Money(confirmed', active', rows', made, lost)
    BY <1>2, <2>2, SettleMoney DEF IInv, Settle
  <2> QED BY <1>2, <2>1, <2>3 DEF IInv
<1> QED BY <1>1, <1>2 DEF SettleThen

\* A turn's next reservation, on what the ledger has become by now.
LEMMA ReserveKeeps ==
  ASSUME Tidy, NEW t \in Turns, NEW try \in {1, 2}, NEW model \in {Terra, Luna, Local}, NEW p \in Periods,
         NEW conf, NEW act, NEW rws, Money(conf, act, rws, made, lost),
         act = active \/ act = active \ {turn[t].attempt},
         turn[t].attempt.try < try, \A a \in made : a.turn = t => a.try < try,
         try = 2 => model = Luna,
         Reserve(t, try, model, p, conf, act, turn[t]),
         confirmed' = conf, rows' = rws, UNCHANGED <<month, lost>>
  PROVE  IInv'
<1>0. turn[t] \in TurnType BY DEF Tidy
<1>1. CASE Locked(model, p, conf, act)
  <2> DEFINE r == Ended(turn[t], "budget_locked")
  <2>1. r \in TurnType /\ r.attempt = turn[t].attempt /\ r.at = "ended" /\ ~Holds(r)
    BY <1>0, EndedType DEF Results
  <2>2. turn' = [turn EXCEPT ![t] = r] /\ active' = act /\ UNCHANGED made BY <1>1 DEF Reserve
  <2> HIDE DEF r
  <2>4. Tidy' BY <2>1, <2>2, GoesOn
  <2> QED BY <2>2, <2>4 DEF IInv
<1>2. CASE ~Locked(model, p, conf, act)
  <2>1. PICK cost \in Bills(model) :
          LET a == [turn |-> t, try |-> try, model |-> model, period |-> p, cost |-> cost] IN
          /\ active' = act \cup {a} /\ made' = made \cup {a}
          /\ turn' = [turn EXCEPT ![t] = Streaming(turn[t], a)]
    BY <1>2 DEF Reserve
  <2> DEFINE a == [turn |-> t, try |-> try, model |-> model, period |-> p, cost |-> cost]
  <2>2. /\ a.turn = t /\ a.try = try /\ a.model = model /\ a.period = p /\ a.cost = cost
        /\ active' = act \cup {a} /\ made' = made \cup {a}
        /\ turn' = [turn EXCEPT ![t] = Streaming(turn[t], a)]
    BY <2>1
  <2>4. cost \in Amounts
    BY AmountsAreNat DEF Bills
  <2>5. a \in Attempt BY <2>4 DEF Attempt
  <2> HIDE DEF a
  <2>6. a \notin made
    <3>1. try \in Int OBVIOUS
    <3> QED BY <2>2, <3>1
  <2>7. Money(conf, act \cup {a}, rws, made \cup {a}, lost)
    BY <1>2, <2>2, <2>5, <2>6, ReserveMoney
  <2>8. Tidy'
    <3>1. turn[t].attempt.try <= a.try
      <4>1. turn[t].attempt.try \in {0, 1, 2} BY <1>0, TurnFields DEF Tries
      <4> QED BY <2>2, <4>1
    <3> QED BY <2>2, <2>5, <3>1, TriesAgain
  <2> QED BY <2>2, <2>7, <2>8 DEF IInv
<1> QED BY <1>1, <1>2

LEMMA GenerateKeeps ==
  ASSUME IInv, NEW t \in Turns, Generate(t)
  PROVE  IInv'
<1> DEFINE model == IF primary = Local THEN Local ELSE CloudModel
<1>1. /\ turn[t].at = "idle" /\ Reserve(t, 1, model, month, confirmed, active, turn[t])
      /\ UNCHANGED <<month, confirmed, rows, lost>>
  BY DEF Generate
<1>2. model \in {Terra, Luna, Local} BY DEF CloudModel
<1> HIDE DEF model
<1>3. \A a \in made : a.turn # t BY <1>1 DEF IInv, Tidy
<1>4. turn[t].attempt.try < 1 /\ month \in Periods BY <1>1 DEF IInv, Tidy
<1> QED BY <1>1, <1>2, <1>3, <1>4, ReserveKeeps DEF IInv

LEMMA RetryKeeps ==
  ASSUME IInv, NEW t \in Turns, StreamRetried(t)
  PROVE  IInv'
<1> DEFINE a    == turn[t].attempt
           conf == [confirmed EXCEPT ![a.period] = @ + Charge(a, turn[t].usage)]
<1>0. turn[t] \in TurnType BY DEF IInv, Tidy
<1>1. /\ turn[t].at = "streaming" /\ a.model = Terra /\ UNCHANGED <<month, lost>>
      /\ \/ Settle(a, turn[t].usage) /\ Reserve(t, 2, Luna, a.period, conf, active \ {a}, turn[t])
         \/ SettleRefused(t)
  BY DEF StreamRetried, Retryable
<1>2. a \in active /\ a \in Attempt /\ a.turn = t /\ turn[t].usage \in BOOLEAN
  <2>1. a \in active BY <1>1 DEF IInv, Tidy, Holds
  <2> QED BY <1>0, <2>1, TurnFields, EndedType DEF IInv, Money, Tidy
<1>3. CASE SettleRefused(t)
  <2>1. SettleThen(t, turn[t].usage, Ended(turn[t], "error")) BY <1>3 DEF SettleThen
  <2>2. /\ Ended(turn[t], "error") \in TurnType /\ Ended(turn[t], "error").attempt = turn[t].attempt
        /\ Ended(turn[t], "error").at = "ended" /\ ~Holds(Ended(turn[t], "error"))
    BY <1>0, EndedType, Literals DEF Results
  <2>3. Holds(turn[t]) BY <1>1 DEF Holds
  <2> QED BY <1>1, <1>2, <2>1, <2>2, <2>3, SettleThenKeeps
<1>4. CASE Settle(a, turn[t].usage) /\ Reserve(t, 2, Luna, a.period, conf, active \ {a}, turn[t])
  <2> DEFINE rws == rows \cup {Row(a, turn[t].usage)}
  <2>1. Money(conf, active \ {a}, rws, made, lost) BY <1>2, SettleMoney DEF IInv
  <2>2. confirmed' = conf /\ rows' = rws BY <1>4 DEF Settle
  <2>3. a.try < 2 /\ a.period \in Periods
    <3>1. a.try \in {1, 2} /\ a.period \in Periods BY <1>2 DEF Attempt
    <3>2. a.try # 2 BY <1>1 DEF IInv, Tidy, Terra, Luna
    <3> QED BY <3>1, <3>2
  <2>4. \A b \in made : b.turn = t => b.try < 2
    <3>1. \A b \in made : b.turn = t => b.try <= a.try /\ b.try \in {1, 2}
      BY DEF IInv, Tidy, Attempt
    <3>2. a.try \in {1, 2} BY <1>2 DEF Attempt
    <3> QED BY <2>3, <3>1, <3>2
  <2>5. Reserve(t, 2, Luna, a.period, conf, active \ {a}, turn[t]) /\ UNCHANGED <<month, lost>>
    BY <1>1, <1>4
  <2>6. turn[t].attempt.try < 2 /\ active \ {a} = active \ {turn[t].attempt} BY <2>3
  <2>7. Tidy BY DEF IInv
  <2> HIDE DEF conf, rws, a
  <2> QED BY <2>1, <2>2, <2>3, <2>4, <2>5, <2>6, <2>7, ReserveKeeps
<1> QED BY <1>1, <1>3, <1>4

\* A frame or an await of a turn that settles nothing.
LEMMA MoveKeeps ==
  ASSUME IInv, NEW t \in Turns, NEW r \in TurnType, turn' = [turn EXCEPT ![t] = r],
         r.attempt = turn[t].attempt, r.at # "idle", Holds(r) => Holds(turn[t]),
         r.at = "emitting" => r.then \in Spoken,
         Still, month' = month
  PROVE  IInv'
<1>1. Tidy' BY GoesOn DEF IInv, Still
<1> QED BY <1>1, StillKeeps

LEMMA FramesKeep ==
  ASSUME IInv, NEW t \in Turns,
         \/ UsageFrame(t) \/ TextFrame(t) \/ FenceSeen(t) \/ Fault(t)
         \/ \E kind \in {"completed", "transient", "permanent"} : TerminalFrame(t, kind)
  PROVE  IInv'
<1>0. turn[t] \in TurnType /\ turn \in [Turns -> TurnType] BY DEF IInv, Tidy
<1>1. CASE UsageFrame(t)
  <2> DEFINE r == [turn[t] EXCEPT !.usage = TRUE]
  <2>1. /\ turn' = [turn EXCEPT ![t] = r] /\ r \in TurnType /\ r.attempt = turn[t].attempt
        /\ r.at = "streaming" /\ turn[t].at = "streaming"
    BY <1>0, <1>1 DEF UsageFrame, Reading, TurnType
  <2> QED BY <1>1, <2>1, MoveKeeps DEF UsageFrame, Still, Holds
<1>2. ASSUME NEW kind \in {"completed", "transient", "permanent"}, TerminalFrame(t, kind)
      PROVE  IInv'
  <2> DEFINE r == [turn[t] EXCEPT !.terminal = kind]
  <2>1. /\ turn' = [turn EXCEPT ![t] = r] /\ r \in TurnType /\ r.attempt = turn[t].attempt
        /\ r.at = "streaming" /\ turn[t].at = "streaming"
    <3>1. r = Rec(turn[t].at, turn[t].attempt, turn[t].usage, kind, turn[t].said, turn[t].then,
                  turn[t].voiced, turn[t].result)
      BY <1>0, TurnFields DEF Rec
    <3>2. kind \in Kinds BY <1>2 DEF Kinds
    <3>3. turn[t].at = "streaming" /\ turn' = [turn EXCEPT ![t] = r]
      BY <1>0, <1>2 DEF TerminalFrame, Reading
    <3> HIDE DEF r
    <3> QED BY <1>0, <3>1, <3>2, <3>3, TurnFields DEF Rec, TurnType
  <2> QED BY <1>2, <2>1, MoveKeeps DEF TerminalFrame, Still, Holds
<1>3. CASE TextFrame(t)
  <2>1. PICK then \in {"limit", "stream"} : Speak(t, then)
    BY <1>3 DEF TextFrame
  <2> DEFINE r == [turn[t] EXCEPT !.at = "emitting", !.then = then, !.said = @ + 1,
                                  !.voiced = @ \cup {turn[t].attempt.try}]
  <2>2. turn' = [turn EXCEPT ![t] = r] BY <1>0, <2>1 DEF Speak
  <2>3. /\ r \in TurnType /\ r.attempt = turn[t].attempt /\ r.at = "emitting" /\ r.then = then
    BY <1>0, SpeakingType, Literals DEF Thens, Spoken
  <2>5. r.then \in Spoken BY <2>3 DEF Spoken
  <2>4. Holds(turn[t]) BY <1>3 DEF TextFrame, Reading, Holds
  <2> HIDE DEF r
  <2> QED BY <1>3, <2>2, <2>3, <2>4, <2>5, MoveKeeps DEF TextFrame, Still
<1>4. CASE FenceSeen(t)
  <2> DEFINE r == Onto(turn[t], "draining", "cancelled")
  <2>1. "draining" \in Phases /\ "cancelled" \in Thens BY Literals
  <2>2. r \in TurnType /\ r.attempt = turn[t].attempt /\ r.at = "draining"
    BY <1>0, <2>1, PhaseThenType
  <2>3. turn' = [turn EXCEPT ![t] = r] /\ Holds(turn[t]) /\ Still /\ UNCHANGED month
    BY <1>0, <1>4 DEF FenceSeen, Onto, Still, Holds
  <2> HIDE DEF r
  <2> QED BY <2>2, <2>3, MoveKeeps
<1>5. CASE Fault(t)
  <2> DEFINE r == Ended(turn[t], "fault")
  <2>1. /\ turn' = [turn EXCEPT ![t] = r] /\ r \in TurnType /\ r.attempt = turn[t].attempt
        /\ r.at = "ended" /\ ~Holds(r)
    BY <1>0, <1>5, EndedType, Literals DEF Fault, Results
  <2> HIDE DEF r
  <2> QED BY <1>5, <2>1, MoveKeeps DEF Fault, Still
<1> QED BY <1>1, <1>2, <1>3, <1>4, <1>5

LEMMA EndsKeep ==
  ASSUME IInv, NEW t \in Turns,
         \/ Emitted(t) \/ StreamCompleted(t) \/ StreamFailed(t)
         \/ \E reported \in BOOLEAN : Drained(t, reported)
  PROVE  IInv'
<1>0. turn[t] \in TurnType /\ turn \in [Turns -> TurnType] /\ turn[t].usage \in BOOLEAN
  BY TurnFields DEF IInv, Tidy
<1>e. ASSUME NEW result \in Results
      PROVE  /\ Ended(turn[t], result) \in TurnType /\ Ended(turn[t], result).attempt = turn[t].attempt
             /\ Ended(turn[t], result).at = "ended" /\ ~Holds(Ended(turn[t], result))
  BY <1>0, EndedType
<1>r. {"error", "completed"} \subseteq Results
  BY DEF Results, Thens
<1>1. CASE Emitted(t)
  <2>0. turn[t].at = "emitting" /\ UNCHANGED <<month, lost>> BY <1>1 DEF Emitted
  <2>1. CASE turn[t].then = "stream"
    <3> DEFINE r == [turn[t] EXCEPT !.at = "streaming"]
    <3>1. /\ turn' = [turn EXCEPT ![t] = r] /\ r \in TurnType /\ r.attempt = turn[t].attempt
          /\ r.at = "streaming" /\ Still
      BY <1>0, <1>1, <2>1, PhaseType, Literals DEF Emitted, Phases, Running, Still
    <3>2. Holds(turn[t]) BY <2>0, <2>1 DEF Holds
    <3> HIDE DEF r
    <3> QED BY <2>0, <3>1, <3>2, MoveKeeps
  <2>2. CASE turn[t].then = "limit"
    <3> DEFINE r == Onto(turn[t], "draining", "completed")
    <3>1. "draining" \in Phases /\ "completed" \in Thens BY Literals
    <3>2. r \in TurnType /\ r.attempt = turn[t].attempt /\ r.at = "draining"
      BY <1>0, <3>1, PhaseThenType
    <3>3. turn' = [turn EXCEPT ![t] = r] /\ Holds(turn[t]) /\ Still
      BY <1>0, <1>1, <2>0, <2>2 DEF Emitted, Onto, Still, Holds
    <3> HIDE DEF r
    <3> QED BY <2>0, <3>2, <3>3, MoveKeeps
  <2>3. CASE turn[t].then = "finish"
    <3>1. SettleThen(t, turn[t].usage, Ended(turn[t], "completed")) BY <1>1, <2>3 DEF Emitted
    <3>2. Holds(turn[t]) BY <2>0, <2>3 DEF Holds
    <3> QED BY <1>0, <1>e, <1>r, <2>0, <3>1, <3>2, SettleThenKeeps
  <2>4. CASE turn[t].then = "apology"
    <3> DEFINE r == Ended(turn[t], "error")
    <3>1. turn' = [turn EXCEPT ![t] = r] /\ Still BY <1>0, <1>1, <2>4 DEF Emitted, Still
    <3>2. r \in TurnType /\ r.attempt = turn[t].attempt /\ r.at = "ended" /\ ~Holds(r) BY <1>e, <1>r
    <3> HIDE DEF r
    <3> QED BY <2>0, <3>1, <3>2, MoveKeeps
  <2>5. turn[t].then \in Spoken BY <2>0 DEF IInv, Tidy
  <2> QED BY <2>1, <2>2, <2>3, <2>4, <2>5 DEF Spoken
<1>2. CASE StreamCompleted(t)
  <2>0. turn[t].at = "streaming" /\ Holds(turn[t]) /\ UNCHANGED <<month, lost>>
    BY <1>2 DEF StreamCompleted, Holds
  <2>1. CASE Speak(t, "finish") /\ UNCHANGED <<active, confirmed, rows, made, failures>>
    <3> DEFINE r == [turn[t] EXCEPT !.at = "emitting", !.then = "finish", !.said = @ + 1,
                                    !.voiced = @ \cup {turn[t].attempt.try}]
    <3>1. turn' = [turn EXCEPT ![t] = r] BY <1>0, <2>1 DEF Speak
    <3>2. r \in TurnType /\ r.attempt = turn[t].attempt /\ r.at = "emitting" /\ r.then \in Spoken
      BY <1>0, SpeakingType, Literals DEF Thens, Spoken
    <3> HIDE DEF r
    <3> QED BY <2>0, <2>1, <3>1, <3>2, MoveKeeps DEF Still
  <2>2. CASE SettleThen(t, turn[t].usage, Ended(turn[t], "completed"))
    BY <1>0, <1>e, <1>r, <2>0, <2>2, SettleThenKeeps
  <2> QED BY <1>2, <2>1, <2>2 DEF StreamCompleted
<1>3. CASE StreamFailed(t)
  <2> DEFINE r == IF Voiced(t) THEN [turn[t] EXCEPT !.at = "emitting", !.then = "apology"]
                  ELSE Ended(turn[t], "error")
  <2>1. Holds(turn[t]) /\ UNCHANGED <<month, lost>> /\ SettleThen(t, turn[t].usage, r)
    BY <1>3 DEF StreamFailed, Holds
  <2>2. /\ r \in TurnType /\ r.attempt = turn[t].attempt /\ r.at # "idle" /\ ~Holds(r)
        /\ r.at = "emitting" => r.then \in Spoken
    <3>1. CASE Voiced(t)
      <4> DEFINE q == Onto(turn[t], "emitting", "apology")
      <4>0. "emitting" \in Phases /\ "apology" \in Thens BY Literals DEF Spoken
      <4>1. q \in TurnType /\ q.attempt = turn[t].attempt /\ q.at = "emitting" /\ q.then = "apology"
        BY <1>0, <4>0, PhaseThenType
      <4> HIDE DEF q
      <4>2. ~Holds(q) /\ q.then \in Spoken BY <4>1 DEF Holds, Spoken
      <4>3. r = q BY <3>1 DEF q, Onto
      <4> QED BY <4>1, <4>2, <4>3
    <3>2. CASE ~Voiced(t) BY <1>e, <1>r, <3>2
    <3> QED BY <3>1, <3>2
  <2> HIDE DEF r
  <2> QED BY <1>0, <2>1, <2>2, SettleThenKeeps
<1>4. ASSUME NEW reported \in BOOLEAN, Drained(t, reported)
      PROVE  IInv'
  <2>1. /\ Holds(turn[t]) /\ UNCHANGED <<month, lost>>
        /\ SettleThen(t, turn[t].usage \/ reported, Ended(turn[t], turn[t].then))
    BY <1>4 DEF Drained, Holds
  <2>2. (turn[t].usage \/ reported) \in BOOLEAN OBVIOUS
  <2>3. turn[t].then \in Results
    BY <1>0, TurnFields DEF Results
  <2> QED BY <1>0, <1>e, <2>1, <2>2, <2>3, SettleThenKeeps
<1> QED BY <1>1, <1>2, <1>3, <1>4

LEMMA WorldKeeps ==
  ASSUME IInv, MoveFence \/ NextMonth \/ Restart
  PROVE  IInv'
<1>1. CASE MoveFence
  BY <1>1 DEF MoveFence, IInv, Tidy
<1>2. CASE NextMonth
  BY <1>2, CostAssumption DEF NextMonth, IInv, Tidy, Periods
<1>3. CASE Restart
  <2>1. /\ turn' = [t \in Turns |-> IF turn[t].at \in Running THEN Ended(turn[t], "fault") ELSE turn[t]]
        /\ active' = {} /\ lost' = lost \cup active /\ UNCHANGED <<month, rows, made>>
        /\ confirmed' = [p \in Periods |-> SumFunctionOnSet(Charges, RowsIn(p, rows))]
    BY <1>3 DEF Restart, Recorded, RowsIn
  <2>2. Money(confirmed', active', rows', made', lost')
    BY <2>1, RestartMoney DEF IInv
  <2>3. \A t \in Turns : /\ turn'[t] \in TurnType /\ turn'[t].attempt = turn[t].attempt
                         /\ ~Holds(turn'[t]) /\ (turn[t].at # "idle" => turn'[t].at # "idle")
                         /\ turn'[t].at # "emitting" /\ (turn'[t].at = "idle" => turn[t].at = "idle")
    <3> TAKE t \in Turns
    <3>1. turn[t] \in TurnType BY DEF IInv, Tidy
    <3>2. CASE turn[t].at \in Running
      <4> DEFINE r == Ended(turn[t], "fault")
      <4>1. r \in TurnType /\ r.attempt = turn[t].attempt /\ r.at = "ended" /\ ~Holds(r)
        BY <3>1, EndedType, Literals DEF Results
      <4> HIDE DEF r
      <4>2. turn'[t] = r BY <2>1, <3>2 DEF r
      <4> QED BY <4>1, <4>2
    <3>3. CASE turn[t].at \notin Running
      BY <2>1, <3>1, <3>3 DEF Holds, Running
    <3> QED BY <3>2, <3>3
  <2>4. turn' \in [Turns -> TurnType] BY <2>1, <2>3
  <2>5. \A a \in made : a \in Attempt /\ a.turn \in Turns BY DEF IInv, Tidy, Attempt
  <2>6. Tidy' BY <2>1, <2>3, <2>4, <2>5 DEF IInv, Tidy
  <2> QED BY <2>2, <2>6 DEF IInv
<1> QED BY <1>1, <1>2, <1>3

LEMMA Start ==
  ASSUME Init
  PROVE  IInv
<1>1. \A t \in Turns : /\ Idle(t) \in TurnType /\ Idle(t).attempt = NoAttempt(t) /\ Idle(t).at = "idle"
                       /\ NoAttempt(t).turn = t /\ NoAttempt(t).try = 0
  <2> TAKE t \in Turns
  <2>1. 1 \in Periods /\ 0 \in Amounts
    BY CostAssumption, AmountsAreNat DEF Periods
  <2>2. NoAttempt(t) \in Tries BY <2>1 DEF NoAttempt, Tries
  <2>3. "idle" \in Phases /\ "none" \in Kinds /\ "none" \in Thens /\ "none" \in Results
    BY DEF Phases, Kinds, Thens, Results
  <2> QED BY <2>2, <2>3 DEF Idle, NoAttempt, TurnType
<1>2. Tidy
  <2>1. /\ month \in Periods /\ turn = [t \in Turns |-> Idle(t)] /\ made = {}
    BY CostAssumption DEF Init, Periods
  <2>2. \A t \in Turns : ~Holds(Idle(t)) BY <1>1 DEF Holds
  <2> QED BY <1>1, <2>1, <2>2 DEF Tidy
<1>3. Money(confirmed, active, rows, made, lost)
  <2>1. /\ active = {} /\ rows = {} /\ made = {} /\ lost = {} /\ confirmed = [p \in Periods |-> 0]
    BY DEF Init
  <2>2. ASSUME NEW p \in Periods
        PROVE  /\ Total(p, confirmed, active) < Lock + Overrun(p, rows)
               /\ confirmed[p] = SumFunctionOnSet(Charges, RowsIn(p, rows))
               /\ SumFunctionOnSet(Foreseen, In(p, (made \ lost) \ active)) + Overrun(p, rows) <= confirmed[p]
    <3>1. In(p, active) = {} /\ RowsIn(p, rows) = {} /\ In(p, (made \ lost) \ active) = {}
      BY <2>1 DEF In, RowsIn
    <3>2. confirmed[p] = 0 BY <2>1
    <3>3. Overrun(p, rows) = 0 BY <3>1, SumEmpty, OverrunIs
    <3> QED BY <3>1, <3>2, <3>3, SumEmpty, CostAssumption DEF Total
  <2>3. IsFiniteSet({}) BY FS_EmptySet
  <2> QED BY <2>1, <2>2, <2>3 DEF Money
<1> QED BY <1>2, <1>3 DEF IInv

\* Turns, ledger, rows and bill fit together in every reachable state, whatever
\* overlaps, fails, is fenced or restarts.
THEOREM Invariance == Spec => []IInv
<1>1. Init => IInv
  BY Start
<1>2. IInv /\ [Next]_vars => IInv'
  <2>1. ASSUME IInv, NEW t \in Turns, TurnStep(t)
        PROVE  IInv'
    BY <2>1, GenerateKeeps, FramesKeep, EndsKeep, RetryKeeps DEF TurnStep
  <2>2. ASSUME IInv, UNCHANGED vars
        PROVE  IInv'
    BY <2>2 DEF IInv, Tidy, vars
  <2> QED BY <2>1, <2>2, WorldKeeps DEF Next
<1> QED BY <1>1, <1>2, PTL DEF Spec

\* The monthly lock of budget.py is reached and passed only by what recorded bills
\* exceed their reservations, for any prices, any deviation of the bills and any
\* number of overlapping turns, retries, months and restarts.
THEOREM LockHolds == Spec => []BelowLock
<1>1. IInv => BelowLock
  BY DEF IInv, Money, BelowLock
<1> QED BY <1>1, Invariance, PTL

\* The ledger's total of a period covers the foreseen bill of each of its attempts
\* that no restart forgot and all that reported bills have beyond it.
THEOREM BillIsCovered == Spec => []SpendCovered
<1>1. ASSUME IInv, NEW p \in Periods
      PROVE  SumFunctionOnSet(Foreseen, In(p, made \ lost)) + Overrun(p, rows) <= Total(p, confirmed, active)
  <2> DEFINE S == In(p, made \ lost)
             T == In(p, active)
  <2>1. /\ S \in SUBSET Attempt /\ IsFiniteSet(S) /\ T \in SUBSET S
        /\ S \ T = In(p, (made \ lost) \ active) /\ IsFiniteSet(T) /\ T \in SUBSET Attempt
    <3>1. S \in SUBSET made /\ T \in SUBSET made BY <1>1 DEF In, IInv, Money
    <3>2. IsFiniteSet(S) /\ IsFiniteSet(T) BY <1>1, <3>1, FS_Subset DEF IInv, Money
    <3> QED BY <1>1, <3>1, <3>2 DEF IInv, Money, In
  <2>2. SumFunctionOnSet(Foreseen, S \ T) + Overrun(p, rows) <= confirmed[p] /\ confirmed[p] \in Nat
    BY <1>1, <2>1 DEF IInv, Money
  <2>7. Overrun(p, rows) \in Nat BY <1>1, OverrunType DEF IInv
  <2> HIDE DEF S, T
  <2>3. /\ SumFunctionOnSet(Foreseen, T) \in Int /\ SumFunctionOnSet(Foreseen, S \ T) \in Int
        /\ SumFunctionOnSet(Foreseen, S) = SumFunctionOnSet(Foreseen, T) + SumFunctionOnSet(Foreseen, S \ T)
    <3>1. \A x \in S : Foreseen[x] \in Int BY <2>1, WeightsAreNat
    <3> QED BY <2>1, <3>1, SumParts
  <2>4. SumFunctionOnSet(Foreseen, T) <= SumFunctionOnSet(Reserved, T)
    <3>1. \A x \in T : Foreseen[x] \in Int /\ Reserved[x] \in Int /\ Foreseen[x] <= Reserved[x]
      BY <2>1, WorstType
    <3> QED BY <2>1, <3>1, SumMonotone
  <2>5. SumFunctionOnSet(Reserved, T) \in Nat
    <3>1. \A x \in T : Reserved[x] \in Nat BY <2>1, WeightsAreNat
    <3> QED BY <2>1, <3>1, SumNat
  <2>6. SumFunctionOnSet(Foreseen, S) + Overrun(p, rows) <= confirmed[p] + SumFunctionOnSet(Reserved, T)
    BY <2>2, <2>3, <2>4, <2>5, <2>7
  <2> QED BY <2>6 DEF S, T, Total
<1>2. IInv => SpendCovered
  BY <1>1 DEF SpendCovered
<1> QED BY <1>2, Invariance, PTL

\* Memory and SQLite agree on what is confirmed and each attempt is counted once.
THEOREM LedgerIsDurable == Spec => []DurableExact
<1>1. IInv => DurableExact
  BY DEF IInv, Money, DurableExact, Recorded, RowsIn
<1> QED BY <1>1, Invariance, PTL
=============================================================================
