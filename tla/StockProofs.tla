---------------------------- MODULE StockProofs ----------------------------
(***************************************************************************)
(* Proofs about StockLedger, StockSync and StockValuations: the sums they    *)
(* are built from, what two queries tell of a ledger that grows between     *)
(* them, and what is stored of it.                                          *)
(***************************************************************************)
EXTENDS StockSync, StockValuations, FiniteSetTheorems, WellFoundedInduction,
        SequenceTheorems, TLAPS

-----------------------------------------------------------------------------
(***************************************************************************)
(* Sums.  The library defines the sum over a set by a recursive function;   *)
(* its lemmas are proved by induction on the cardinality of the set, with   *)
(* the least element of a well-founded order.                               *)
(***************************************************************************)

\* Induction on the natural numbers, for a set of them.
LEMMA Induction ==
    ASSUME NEW G, 0 \in G, \A n \in Nat : n \in G => n + 1 \in G
    PROVE  \A n \in Nat : n \in G
  <1> DEFINE Less == OpToRel(<, Nat)
             Bad == Nat \ G
  <1>1. SUFFICES ASSUME Bad # {} PROVE FALSE
    OBVIOUS
  <1>2. IsWellFoundedOn(Less, Nat)
    BY NatLessThanWellFounded
  <1>3. PICK m \in Bad : \A k \in Bad : ~ (<<k, m>> \in Less)
    <2> HIDE DEF Less
    <2> QED
    BY <1>1, <1>2, WFMin
  <1>4. m # 0 /\ m - 1 \in Nat
    OBVIOUS
  <1>5. m - 1 \notin G
    BY <1>4
  <1>6. <<m - 1, m>> \in Less
    BY <1>4 DEF OpToRel
  <1> QED
    BY <1>3, <1>4, <1>5, <1>6

\* The element by which the library's sum over a set goes on.
Chosen(s) == CHOOSE x \in s : TRUE

IsFold(g, f, S) ==
    g = [s \in SUBSET S |-> IF s = {} THEN 0 ELSE f[Chosen(s)] + g[s \ {Chosen(s)}]]

\* The library's fold over a finite set is well defined: a function on its
\* subsets, by induction on their cardinality.
LEMMA SumRecursion ==
    ASSUME NEW f, NEW S, IsFiniteSet(S)
    PROVE  \E g : IsFold(g, f, S)
  <1> DEFINE Dom(n) == {s \in SUBSET S : Cardinality(s) <= n}
             Ok(n, g) == g = [s \in Dom(n) |->
                                IF s = {} THEN 0 ELSE f[Chosen(s)] + g[s \ {Chosen(s)}]]
             G == {n \in Nat : \E g : Ok(n, g)}
  <1>0. \A s \in SUBSET S : IsFiniteSet(s) /\ Cardinality(s) \in Nat
    BY FS_Subset, FS_CardinalityType
  <1>1. 0 \in G
    <2>1. \A s \in Dom(0) : s = {}
      BY <1>0, FS_EmptySet
    <2>2. Ok(0, [s \in Dom(0) |-> 0])
      BY <2>1
    <2> QED
      BY <2>2
  <1>2. ASSUME NEW n \in Nat, n \in G PROVE n + 1 \in G
    <2>1. PICK g : Ok(n, g)
      BY <1>2
    <2> DEFINE h == [s \in Dom(n + 1) |->
                       IF s = {} THEN 0 ELSE f[Chosen(s)] + g[s \ {Chosen(s)}]]
    <2>2. \A s \in Dom(n) : h[s] = g[s]
      <3>1. \A s \in Dom(n) : s \in Dom(n + 1)
        BY <1>0
      <3> QED
        BY <2>1, <3>1
    <2>3. \A s \in Dom(n + 1) : s # {} => s \ {Chosen(s)} \in Dom(n)
      <3>1. ASSUME NEW s \in Dom(n + 1), s # {} PROVE s \ {Chosen(s)} \in Dom(n)
        <4>1. Chosen(s) \in s
          BY <3>1 DEF Chosen
        <4>2. Cardinality(s \ {Chosen(s)}) = Cardinality(s) - 1
          BY <1>0, <4>1, FS_RemoveElement
        <4> QED
          BY <4>2, <1>0
      <3> QED
        BY <3>1
    <2>4. Ok(n + 1, h)
      BY <2>2, <2>3
    <2>5. \E k : Ok(n + 1, k)
      <3> HIDE DEF Ok, h
      <3> QED
        BY <2>4
    <2> HIDE DEF Ok
    <2> QED
      BY <2>5
  <1>3. Cardinality(S) \in G
    <2> HIDE DEF G
    <2> QED
      BY <1>0, <1>1, <1>2, Induction
  <1>4. Dom(Cardinality(S)) = SUBSET S
    BY <1>0, FS_Subset
  <1>5. PICK g : Ok(Cardinality(S), g)
    BY <1>3
  <1>6. IsFold(g, f, S)
    BY <1>4, <1>5 DEF IsFold
  <1> QED
    BY <1>6

\* The sums of f over the subsets of S.
Partial(f, S) == CHOOSE g : IsFold(g, f, S)

LEMMA SumIsPartial ==
    ASSUME NEW f, NEW S
    PROVE  SumFunctionOnSet(f, S) = Partial(f, S)[S]
  BY DEF SumFunctionOnSet, FoldFunctionOnSet, MapThenFoldSet, Partial, IsFold, Chosen

LEMMA PartialAt ==
    ASSUME NEW f, NEW S, IsFiniteSet(S), NEW s \in SUBSET S
    PROVE  Partial(f, S)[s] = IF s = {} THEN 0
                              ELSE f[Chosen(s)] + Partial(f, S)[s \ {Chosen(s)}]
  <1>1. IsFold(Partial(f, S), f, S)
    BY SumRecursion DEF Partial
  <1> QED
    BY <1>1 DEF IsFold

\* What is summed outside a set does not matter to the sum over it.
LEMMA Below ==
    ASSUME NEW f, NEW g, NEW S, NEW T, IsFiniteSet(T), S \subseteq T, \A x \in S : f[x] = g[x] /\ f[x] \in Int
    PROVE  \A s \in SUBSET S : Partial(f, S)[s] = Partial(g, T)[s] /\ Partial(f, S)[s] \in Int
  <1> DEFINE Small(n) == {s \in SUBSET S : Cardinality(s) <= n}
             G == {n \in Nat : \A s \in Small(n) : Partial(f, S)[s] = Partial(g, T)[s] /\ Partial(f, S)[s] \in Int}
  <1>0. IsFiniteSet(S) /\ \A s \in SUBSET S : IsFiniteSet(s) /\ Cardinality(s) \in Nat
    BY FS_Subset, FS_CardinalityType
  <1>1. 0 \in G
    <2>1. \A s \in Small(0) : s = {}
      BY <1>0, FS_EmptySet
    <2>2. Partial(f, S)[{}] = 0 /\ Partial(g, T)[{}] = 0
      BY <1>0, PartialAt
    <2> QED
      BY <2>1, <2>2
  <1>2. ASSUME NEW n \in Nat, n \in G PROVE n + 1 \in G
    <2> SUFFICES ASSUME NEW s \in Small(n + 1)
                 PROVE  Partial(f, S)[s] = Partial(g, T)[s] /\ Partial(f, S)[s] \in Int
      OBVIOUS
    <2>1. CASE s = {}
      <3>1. Partial(f, S)[{}] = 0 /\ Partial(g, T)[{}] = 0
        BY <1>0, PartialAt
      <3> QED
        BY <2>1, <3>1
    <2>2. CASE s # {}
      <3>1. Chosen(s) \in s
        BY <2>2 DEF Chosen
      <3>2. Cardinality(s \ {Chosen(s)}) = Cardinality(s) - 1
        BY <1>0, <3>1, FS_RemoveElement
      <3>3. s \ {Chosen(s)} \in Small(n)
        BY <3>2, <1>0
      <3>4. /\ Partial(f, S)[s] = f[Chosen(s)] + Partial(f, S)[s \ {Chosen(s)}]
            /\ Partial(g, T)[s] = g[Chosen(s)] + Partial(g, T)[s \ {Chosen(s)}]
        <4>1. s \in SUBSET S /\ s \in SUBSET T
          OBVIOUS
        <4> QED
          BY <4>1, <2>2, <1>0, PartialAt
      <3> QED
        BY <1>2, <3>1, <3>3, <3>4
    <2> QED
      BY <2>1, <2>2
  <1>3. ASSUME NEW s \in SUBSET S
        PROVE  Partial(f, S)[s] = Partial(g, T)[s] /\ Partial(f, S)[s] \in Int
    <2>1. Cardinality(s) \in G
      <3> HIDE DEF G
      <3> QED
        BY <1>0, <1>1, <1>2, Induction
    <2> QED
      BY <2>1, <1>0
  <1> QED
    BY <1>3

LEMMA SumType ==
    ASSUME NEW S, IsFiniteSet(S), NEW f, \A x \in S : f[x] \in Int
    PROVE  SumFunctionOnSet(f, S) \in Int
  BY Below, SumIsPartial

LEMMA SumAgree ==
    ASSUME NEW S, IsFiniteSet(S), NEW f, NEW g, \A x \in S : f[x] = g[x] /\ f[x] \in Int
    PROVE  SumFunctionOnSet(f, S) = SumFunctionOnSet(g, S)
  BY Below, SumIsPartial

LEMMA SumEmpty ==
    ASSUME NEW f
    PROVE  SumFunctionOnSet(f, {}) = 0
  <1>1. Partial(f, {})[{}] = 0
    BY PartialAt, FS_EmptySet
  <1> QED
    BY <1>1, SumIsPartial

LEMMA SumChosen ==
    ASSUME NEW S, IsFiniteSet(S), S # {}, NEW f, \A x \in S : f[x] \in Int
    PROVE  /\ Chosen(S) \in S
           /\ SumFunctionOnSet(f, S) = f[Chosen(S)] + SumFunctionOnSet(f, S \ {Chosen(S)})
  <1>1. Chosen(S) \in S
    BY DEF Chosen
  <1>2. Partial(f, S)[S] = f[Chosen(S)] + Partial(f, S)[S \ {Chosen(S)}]
    BY PartialAt
  <1>3. Partial(f, S \ {Chosen(S)})[S \ {Chosen(S)}] = Partial(f, S)[S \ {Chosen(S)}]
    BY Below, <1>1
  <1> QED
    BY <1>1, <1>2, <1>3, SumIsPartial

\* In whatever order the elements are chosen, the sum is the same.
LEMMA SumRemove ==
    ASSUME NEW S, IsFiniteSet(S), NEW f, \A x \in S : f[x] \in Int
    PROVE  \A x \in S : SumFunctionOnSet(f, S) = f[x] + SumFunctionOnSet(f, S \ {x})
  <1> DEFINE Small(n) == {s \in SUBSET S : Cardinality(s) <= n}
             Sum(s) == SumFunctionOnSet(f, s)
             Fits(s) == \A x \in s : Sum(s) = f[x] + Sum(s \ {x})
             G == {n \in Nat : \A s \in Small(n) : Fits(s)}
  <1>0. \A s \in SUBSET S : IsFiniteSet(s) /\ Cardinality(s) \in Nat
    BY FS_Subset, FS_CardinalityType
  <1>1. 0 \in G
    BY <1>0, FS_EmptySet
  <1>2. ASSUME NEW n \in Nat, n \in G PROVE n + 1 \in G
    <2> SUFFICES ASSUME NEW s \in Small(n + 1), NEW x \in s
                 PROVE  Sum(s) = f[x] + Sum(s \ {x})
      OBVIOUS
    <2> DEFINE c == Chosen(s)
    <2>1. c \in s /\ Sum(s) = f[c] + Sum(s \ {c})
      BY <1>0, SumChosen
    <2>2. CASE x = c
      BY <2>1, <2>2
    <2>3. CASE x # c
      <3>1. s \ {c} \in Small(n) /\ s \ {x} \in Small(n)
        BY <1>0, <2>1, FS_RemoveElement
      <3>2. Sum(s \ {c}) = f[x] + Sum((s \ {c}) \ {x})
        BY <3>1, <2>3, <1>2
      <3>3. Sum(s \ {x}) = f[c] + Sum((s \ {x}) \ {c})
        BY <3>1, <2>3, <2>1, <1>2
      <3>4. (s \ {c}) \ {x} = (s \ {x}) \ {c}
        OBVIOUS
      <3>5. Sum((s \ {c}) \ {x}) \in Int
        BY <1>0, SumType
      <3>6. f[x] \in Int /\ f[c] \in Int
        BY <2>1
      <3>7. Sum((s \ {c}) \ {x}) = Sum((s \ {x}) \ {c})
        BY <3>4, Zenon
      <3> HIDE DEF Sum, c
      <3> QED
        BY <2>1, <3>7, <3>6, <3>2, <3>3, <3>4, <3>5
    <2> QED
      BY <2>2, <2>3
  <1>3. Cardinality(S) \in G
    <2> HIDE DEF G
    <2> QED
      BY <1>0, <1>1, <1>2, Induction
  <1> QED
    BY <1>3, <1>0

\* The sum over two sets that share nothing is the sum of their sums.
LEMMA SumUnion ==
    ASSUME NEW S, NEW T, IsFiniteSet(S), IsFiniteSet(T), S \cap T = {},
           NEW f, \A x \in S \cup T : f[x] \in Int
    PROVE  SumFunctionOnSet(f, S \cup T) = SumFunctionOnSet(f, S) + SumFunctionOnSet(f, T)
  <1> DEFINE Small(n) == {s \in SUBSET S : Cardinality(s) <= n}
             Sum(s) == SumFunctionOnSet(f, s)
             G == {n \in Nat : \A s \in Small(n) : Sum(s \cup T) = Sum(s) + Sum(T)}
  <1>0. \A s \in SUBSET S : IsFiniteSet(s) /\ Cardinality(s) \in Nat /\ IsFiniteSet(s \cup T)
    BY FS_Subset, FS_CardinalityType, FS_Union
  <1>4. \A s \in SUBSET S : Sum(s) \in Int
    BY <1>0, SumType
  <1>5. Sum(T) \in Int
    BY SumType
  <1>1. 0 \in G
    <2>1. \A s \in Small(0) : s = {}
      <3> SUFFICES ASSUME NEW s \in Small(0) PROVE s = {}
        OBVIOUS
      <3>1. s \in SUBSET S /\ Cardinality(s) <= 0
        OBVIOUS
      <3>2. IsFiniteSet(s) /\ Cardinality(s) \in Nat
        BY <1>0, <3>1
      <3> QED
        BY <3>1, <3>2, FS_EmptySet
    <2>2. Sum({}) = 0 /\ {} \cup T = T
      BY SumEmpty
    <2> HIDE DEF Sum
    <2> QED
      BY <2>1, <2>2, <1>5
  <1>2. ASSUME NEW n \in Nat, n \in G PROVE n + 1 \in G
    <2> SUFFICES ASSUME NEW s \in Small(n + 1)
                 PROVE  Sum(s \cup T) = Sum(s) + Sum(T)
      OBVIOUS
    <2>1. CASE s = {}
      <3>1. s \in Small(n)
        BY <2>1, <1>0, FS_EmptySet
      <3> QED
        BY <3>1, <1>2
    <2>2. CASE s # {}
      <3>1. PICK x \in s : TRUE
        BY <2>2
      <3>2. s \ {x} \in Small(n)
        <4>1. IsFiniteSet(s) /\ Cardinality(s) \in Nat
          BY <1>0
        <4>2. Cardinality(s \ {x}) = Cardinality(s) - 1
          BY <4>1, FS_RemoveElement
        <4>3. Cardinality(s) <= n + 1
          OBVIOUS
        <4> QED
          BY <4>1, <4>2, <4>3
      <3>3. Sum((s \ {x}) \cup T) = Sum(s \ {x}) + Sum(T)
        BY <3>2, <1>2
      <3>4. Sum(s) = f[x] + Sum(s \ {x})
        BY <1>0, SumRemove
      <3>5. Sum(s \cup T) = f[x] + Sum((s \cup T) \ {x})
        BY <1>0, SumRemove
      <3>6. (s \cup T) \ {x} = (s \ {x}) \cup T
        OBVIOUS
      <3>7. f[x] \in Int /\ Sum(s \ {x}) \in Int
        BY <1>4
      <3>8. Sum((s \cup T) \ {x}) = Sum((s \ {x}) \cup T)
        BY <3>6, Zenon
      <3> HIDE DEF Sum
      <3> QED
        BY <3>8, <3>3, <3>4, <3>5, <3>6, <3>7, <1>5
    <2> QED
      BY <2>1, <2>2
  <1>3. Cardinality(S) \in G
    <2> HIDE DEF G
    <2> QED
      BY <1>0, <1>1, <1>2, Induction
  <1> QED
    BY <1>3, <1>0

\* What is zero sums up to zero.
LEMMA SumZero ==
    ASSUME NEW S, IsFiniteSet(S), NEW f, \A x \in S : f[x] = 0
    PROVE  SumFunctionOnSet(f, S) = 0
  <1> DEFINE Small(n) == {s \in SUBSET S : Cardinality(s) <= n}
             G == {n \in Nat : \A s \in Small(n) : SumFunctionOnSet(f, s) = 0}
  <1>0. \A s \in SUBSET S : IsFiniteSet(s) /\ Cardinality(s) \in Nat
    BY FS_Subset, FS_CardinalityType
  <1>1. 0 \in G
    <2>1. \A s \in Small(0) : s = {}
      BY <1>0, FS_EmptySet
    <2> QED
      BY <2>1, SumEmpty
  <1>2. ASSUME NEW n \in Nat, n \in G PROVE n + 1 \in G
    <2> SUFFICES ASSUME NEW s \in Small(n + 1) PROVE SumFunctionOnSet(f, s) = 0
      OBVIOUS
    <2>1. CASE s = {}
      BY <2>1, SumEmpty
    <2>2. CASE s # {}
      <3>1. /\ Chosen(s) \in s
            /\ SumFunctionOnSet(f, s) = f[Chosen(s)] + SumFunctionOnSet(f, s \ {Chosen(s)})
        BY <1>0, <2>2, SumChosen, SMTT(30)
      <3>2. s \ {Chosen(s)} \in Small(n)
        BY <1>0, <3>1, FS_RemoveElement
      <3>3. SumFunctionOnSet(f, s \ {Chosen(s)}) = 0
        BY <1>2, <3>2
      <3> QED
        BY <3>1, <3>3
    <2> QED
      BY <2>1, <2>2
  <1>3. Cardinality(S) \in G
    <2> HIDE DEF G
    <2> QED
      BY <1>0, <1>1, <1>2, Induction
  <1> QED
    BY <1>3, <1>0

\* What is worth nothing does not matter to the sum.
LEMMA SumOfSome ==
    ASSUME NEW S, IsFiniteSet(S), NEW T \in SUBSET S, NEW f \in [S -> Int],
           \A x \in S \ T : f[x] = 0
    PROVE  SumFunction(f) = SumFunction([x \in T |-> f[x]])
  <1> DEFINE g == [x \in T |-> f[x]]
  <1>0. IsFiniteSet(T) /\ IsFiniteSet(S \ T)
    BY FS_Subset
  <1>1. SumFunction(f) = SumFunctionOnSet(f, S) /\ SumFunction(g) = SumFunctionOnSet(g, T)
    BY DEF SumFunction
  <1>2. SumFunctionOnSet(f, (S \ T) \cup T)
          = SumFunctionOnSet(f, S \ T) + SumFunctionOnSet(f, T)
    BY <1>0, SumUnion
  <1>3. SumFunctionOnSet(f, S \ T) = 0
    BY <1>0, SumZero
  <1>4. SumFunctionOnSet(g, T) = SumFunctionOnSet(f, T) /\ SumFunctionOnSet(f, T) \in Int
    BY <1>0, SumAgree, SumType
  <1>5. (S \ T) \cup T = S
    OBVIOUS
  <1>6. SumFunctionOnSet(f, S) = SumFunctionOnSet(f, S \ T) + SumFunctionOnSet(f, T)
    BY <1>2, <1>5, Zenon
  <1> HIDE DEF g
  <1>7. SumFunction(f) = SumFunction(g)
    BY <1>1, <1>3, <1>4, <1>6
  <1> QED
    BY <1>7 DEF g


-----------------------------------------------------------------------------
(***************************************************************************)
(* The ledger, with the rows as a parameter, so that two states compare.   *)
(***************************************************************************)
Ledger == Seq(Row)
InventoriesIn(rs, p, locs) ==
    {k \in DOMAIN rs : rs[k].kind = "inventory" /\ rs[k].product = p /\ rs[k].location \in locs}
MovementsIn(rs, p, locs) ==
    {k \in DOMAIN rs : rs[k].kind = "movement" /\ rs[k].product = p /\ rs[k].location \in locs}
TotalIn(rs, K) == SumFunctionOnSet([k \in DOMAIN rs |-> rs[k].qty], K)
BasesIn(rs, p, locs, t) ==
    LET past == {k \in InventoriesIn(rs, p, locs) : rs[k].at <= t} IN
    IF past = {} THEN {[qty |-> 0, at |-> -1]}
    ELSE {[qty |-> rs[k].qty, at |-> rs[k].at] :
             k \in {k \in past : \A j \in past : rs[j].at <= rs[k].at}}
Since(rs, p, locs, base, t) ==
    {k \in MovementsIn(rs, p, locs) : rs[k].at > base.at /\ rs[k].at <= t}
SettledAt(rs, p, locs, t) == {k \in InventoriesIn(rs, p, locs) : rs[k].at = t}
FlowAt(rs, p, locs, t) == {k \in MovementsIn(rs, p, locs) : rs[k].at = t}

IsStory(b, rs, p, locs) ==
    b = [t \in Time |->
           IF SettledAt(rs, p, locs, t) # {} THEN {rs[k].qty : k \in SettledAt(rs, p, locs, t)}
           ELSE {qty + TotalIn(rs, FlowAt(rs, p, locs, t)) :
                    qty \in IF t = 0 THEN {0} ELSE b[t - 1]}]
BalanceIn(rs, p, locs) == CHOOSE b : IsStory(b, rs, p, locs)

\* The operators of the model are these, on the rows there are ...
LEMMA InTheLedger ==
    ASSUME NEW p, NEW locs
    PROVE  /\ Balance(p, locs) = BalanceIn(rows, p, locs)
           /\ \A t : Bases(p, locs, t) = BasesIn(rows, p, locs, t)
           /\ \A base, t : SinceBase(p, locs, base, t) = TotalIn(rows, Since(rows, p, locs, base, t))
  <1>1. Balance(p, locs) = BalanceIn(rows, p, locs)
    BY DEF Balance, BalanceIn, IsStory, SettledAt, FlowAt, Inventories, InventoriesIn,
           Movements, MovementsIn, Total, TotalIn
  <1>2. \A t : Bases(p, locs, t) = BasesIn(rows, p, locs, t)
    BY DEF Bases, BasesIn, Latest, Inventories, InventoriesIn
  <1>3. \A base, t : SinceBase(p, locs, base, t) = TotalIn(rows, Since(rows, p, locs, base, t))
    BY DEF SinceBase, Since, Total, TotalIn, Movements, MovementsIn
  <1> QED
    BY <1>1, <1>2, <1>3

\* ... and on the rows there are after a step.
LEMMA InTheNextLedger ==
    ASSUME NEW p, NEW locs
    PROVE  /\ Balance(p, locs)' = BalanceIn(rows', p, locs)
           /\ \A t : Bases(p, locs, t)' = BasesIn(rows', p, locs, t)
  <1>1. Balance(p, locs)' = BalanceIn(rows', p, locs)
    BY DEF Balance, BalanceIn, IsStory, SettledAt, FlowAt, Inventories, InventoriesIn,
           Movements, MovementsIn, Total, TotalIn
  <1>2. \A t : Bases(p, locs, t)' = BasesIn(rows', p, locs, t)
    BY DEF Bases, BasesIn, Latest, Inventories, InventoriesIn
  <1> QED
    BY <1>1, <1>2

LEMMA RowIn ==
    ASSUME NEW rs \in Ledger, NEW k \in DOMAIN rs
    PROVE  rs[k] \in Row
  BY DEF Ledger

\* A total of rows is an integer, and that of two groups of them is the sum of
\* theirs.
LEMMA TotalFacts ==
    ASSUME NEW rs \in Ledger, NEW K \in SUBSET DOMAIN rs
    PROVE  /\ TotalIn(rs, K) \in Int
           /\ TotalIn(rs, {}) = 0
           /\ \A J \in SUBSET DOMAIN rs : J \cap K = {} =>
                TotalIn(rs, J \cup K) = TotalIn(rs, J) + TotalIn(rs, K)
  <1> DEFINE f == [k \in DOMAIN rs |-> rs[k].qty]
  <1>1. \A k \in DOMAIN rs : f[k] \in Int
    BY RowIn DEF Row
  <1>2. \A J \in SUBSET DOMAIN rs : IsFiniteSet(J)
    <2>1. IsFiniteSet(1 .. Len(rs)) /\ DOMAIN rs = 1 .. Len(rs)
      BY FS_Interval DEF Ledger
    <2> QED
      BY <2>1, FS_Subset
  <1> HIDE DEF f
  <1>3. SumFunctionOnSet(f, K) \in Int
    BY <1>1, <1>2, SumType
  <1>4. \A J \in SUBSET DOMAIN rs : J \cap K = {} =>
          SumFunctionOnSet(f, J \cup K) = SumFunctionOnSet(f, J) + SumFunctionOnSet(f, K)
    BY <1>1, <1>2, SumUnion
  <1> QED
    BY <1>3, <1>4, SumEmpty DEF TotalIn, f

LEMMA TotalAgrees ==
    ASSUME NEW rs \in Ledger, NEW qs \in Ledger, NEW K \in SUBSET (DOMAIN rs \cap DOMAIN qs),
           \A k \in K : rs[k] = qs[k]
    PROVE  TotalIn(rs, K) = TotalIn(qs, K)
  <1> DEFINE f == [k \in DOMAIN rs |-> rs[k].qty]
             g == [k \in DOMAIN qs |-> qs[k].qty]
  <1>1. \A k \in K : f[k] = g[k] /\ f[k] \in Int
    BY RowIn DEF Row
  <1>2. IsFiniteSet(K)
    <2>1. IsFiniteSet(1 .. Len(rs)) /\ DOMAIN rs = 1 .. Len(rs)
      BY FS_Interval DEF Ledger
    <2> QED
      BY <2>1, FS_Subset
  <1> HIDE DEF f, g
  <1>3. SumFunctionOnSet(f, K) = SumFunctionOnSet(g, K)
    BY <1>1, <1>2, SumAgree
  <1> QED
    BY <1>3 DEF TotalIn, f, g

\* The balance is well defined: a function of the ticks, by induction on them.
LEMMA StoryExists ==
    ASSUME NEW rs, NEW p, NEW locs
    PROVE  \E b : IsStory(b, rs, p, locs)
  <1> DEFINE Settled(t) == SettledAt(rs, p, locs, t)
             Flow(t) == TotalIn(rs, FlowAt(rs, p, locs, t))
             Next1(t, last) == IF Settled(t) # {} THEN {rs[k].qty : k \in Settled(t)}
                               ELSE {qty + Flow(t) : qty \in IF t = 0 THEN {0} ELSE last}
             Ok(n, b) == b = [t \in 0 .. n |-> Next1(t, b[t - 1])]
             G == {n \in Nat : \E b : Ok(n, b)}
  <1> HIDE DEF Settled, Flow
  <1>1. 0 \in G
    <2> DEFINE b == [t \in 0 .. 0 |-> Next1(0, {})]
    <2>1. \A t \in 0 .. 0 : t = 0 /\ \A last : Next1(t, last) = Next1(0, {})
      OBVIOUS
    <2> HIDE DEF Next1
    <2>2. Ok(0, b)
      BY <2>1
    <2> HIDE DEF Ok, b
    <2> QED
      BY <2>2
  <1>2. ASSUME NEW n \in Nat, n \in G PROVE n + 1 \in G
    <2>1. PICK b : Ok(n, b)
      BY <1>2
    <2> HIDE DEF Next1
    <2> DEFINE c == [t \in 0 .. n + 1 |-> Next1(t, b[t - 1])]
    <2>2. \A t \in 0 .. n : c[t] = b[t]
      BY <2>1
    <2>3. \A t \in 0 .. n + 1 : Next1(t, b[t - 1]) = Next1(t, c[t - 1])
      <3> SUFFICES ASSUME NEW t \in 0 .. n + 1 PROVE Next1(t, b[t - 1]) = Next1(t, c[t - 1])
        OBVIOUS
      <3>1. CASE t = 0
        BY <3>1 DEF Next1
      <3>2. CASE t # 0
        <4>1. t - 1 \in 0 .. n
          BY <3>2
        <4> QED
          BY <4>1, <2>2
      <3> QED
        BY <3>1, <3>2
    <2>4. Ok(n + 1, c)
      BY <2>3
    <2> HIDE DEF Ok, c
    <2> QED
      BY <2>4
  <1>3. MaxTime \in G
    <2> HIDE DEF G
    <2> QED
      BY <1>1, <1>2, Induction, LedgerAssumption
  <1>4. PICK b : Ok(MaxTime, b)
    BY <1>3
  <1>5. IsStory(b, rs, p, locs)
    BY <1>4 DEF IsStory, Settled, Flow, Time
  <1> QED
    BY <1>5

\* One tick of the story.
Quantities(rs, K) == {rs[k].qty : k \in K}
Moved(quantities, flow) == {qty + flow : qty \in quantities}
Before(rs, p, locs, t) == IF t = 0 THEN {0} ELSE BalanceIn(rs, p, locs)[t - 1]

\* The balance of a tick, from that of the tick before.
LEMMA BalanceAt ==
    ASSUME NEW rs, NEW p, NEW locs, NEW t \in Time
    PROVE  BalanceIn(rs, p, locs)[t] =
             IF SettledAt(rs, p, locs, t) # {} THEN Quantities(rs, SettledAt(rs, p, locs, t))
             ELSE Moved(Before(rs, p, locs, t), TotalIn(rs, FlowAt(rs, p, locs, t)))
  <1> DEFINE b == BalanceIn(rs, p, locs)
  <1>1. IsStory(b, rs, p, locs)
    BY StoryExists DEF BalanceIn
  <1> HIDE DEF b
  <1>2. b[t] = IF SettledAt(rs, p, locs, t) # {} THEN {rs[k].qty : k \in SettledAt(rs, p, locs, t)}
               ELSE {qty + TotalIn(rs, FlowAt(rs, p, locs, t)) : qty \in IF t = 0 THEN {0} ELSE b[t - 1]}
    BY <1>1 DEF IsStory
  <1>3. b[t] = IF SettledAt(rs, p, locs, t) # {} THEN Quantities(rs, SettledAt(rs, p, locs, t))
               ELSE Moved(IF t = 0 THEN {0} ELSE b[t - 1], TotalIn(rs, FlowAt(rs, p, locs, t)))
    BY <1>2, Zenon DEF Quantities, Moved
  <1> QED
    BY <1>3 DEF b, Before

\* rs with rows after it.
Extends(qs, rs) ==
    /\ DOMAIN rs \subseteq DOMAIN qs
    /\ \A k \in DOMAIN rs : qs[k] = rs[k]

\* What is dated after an instant, or is about something else, changes nothing
\* of what the ledger says of that instant.
LEMMA PastIsSettled ==
    ASSUME NEW rs \in Ledger, NEW qs \in Ledger, Extends(qs, rs), NEW p, NEW locs,
           NEW last \in Time,
           \A k \in DOMAIN qs \ DOMAIN rs :
              qs[k].product = p /\ qs[k].location \in locs => qs[k].at > last
    PROVE  \A t \in 0 .. last :
              /\ BasesIn(qs, p, locs, t) = BasesIn(rs, p, locs, t)
              /\ \A base : TotalIn(qs, Since(qs, p, locs, base, t))
                             = TotalIn(rs, Since(rs, p, locs, base, t))
              /\ BalanceIn(qs, p, locs)[t] = BalanceIn(rs, p, locs)[t]
  <1>0. \A t \in 0 .. last : t \in Time /\ t \in Int /\ t <= last
    BY LedgerAssumption DEF Time
  <1>1. \A k \in DOMAIN qs : qs[k].at \in Int
    BY RowIn, LedgerAssumption DEF Row, Time
  <1>2. ASSUME NEW t \in 0 .. last, NEW base
        PROVE  /\ Since(qs, p, locs, base, t) = Since(rs, p, locs, base, t)
               /\ FlowAt(qs, p, locs, t) = FlowAt(rs, p, locs, t)
               /\ SettledAt(qs, p, locs, t) = SettledAt(rs, p, locs, t)
               /\ {k \in InventoriesIn(qs, p, locs) : qs[k].at <= t}
                    = {k \in InventoriesIn(rs, p, locs) : rs[k].at <= t}
    <2>1. \A k \in DOMAIN qs \ DOMAIN rs :
             qs[k].product = p /\ qs[k].location \in locs => ~ (qs[k].at <= t)
      BY <1>0, <1>1 DEF Time
    <2>2. \A k \in DOMAIN rs : k \in DOMAIN qs /\ qs[k] = rs[k]
      BY DEF Extends
    <2>3. Since(qs, p, locs, base, t) = Since(rs, p, locs, base, t)
      BY <2>1, <2>2 DEF Since, MovementsIn
    <2>4. \A k \in DOMAIN qs \ DOMAIN rs :
             qs[k].product = p /\ qs[k].location \in locs => qs[k].at # t
      BY <1>0, <1>1, <2>1
    <2>5. FlowAt(qs, p, locs, t) = FlowAt(rs, p, locs, t)
      BY <2>2, <2>4 DEF FlowAt, MovementsIn
    <2>6. SettledAt(qs, p, locs, t) = SettledAt(rs, p, locs, t)
      BY <2>2, <2>4 DEF SettledAt, InventoriesIn
    <2>7. {k \in InventoriesIn(qs, p, locs) : qs[k].at <= t}
            = {k \in InventoriesIn(rs, p, locs) : rs[k].at <= t}
      BY <2>1, <2>2 DEF InventoriesIn
    <2> QED
      BY <2>3, <2>5, <2>6, <2>7
  <1>3. ASSUME NEW K \in SUBSET DOMAIN rs
        PROVE  TotalIn(qs, K) = TotalIn(rs, K)
    BY TotalAgrees DEF Extends
  <1>4. ASSUME NEW t \in 0 .. last
        PROVE  BasesIn(qs, p, locs, t) = BasesIn(rs, p, locs, t)
    <2> DEFINE past == {k \in InventoriesIn(rs, p, locs) : rs[k].at <= t}
    <2>1. {k \in InventoriesIn(qs, p, locs) : qs[k].at <= t} = past
      BY <1>2
    <2>2. \A k \in past : qs[k] = rs[k]
      BY DEF Extends, InventoriesIn
    <2>3. CASE past = {}
      BY <2>1, <2>3 DEF BasesIn
    <2>4. CASE past # {}
      <3>1. {k \in past : \A j \in past : qs[j].at <= qs[k].at}
              = {k \in past : \A j \in past : rs[j].at <= rs[k].at}
        BY <2>2
      <3>2. BasesIn(qs, p, locs, t) = {[qty |-> qs[k].qty, at |-> qs[k].at] :
                k \in {k \in past : \A j \in past : qs[j].at <= qs[k].at}}
        BY <2>1, <2>4 DEF BasesIn
      <3>3. BasesIn(rs, p, locs, t) = {[qty |-> rs[k].qty, at |-> rs[k].at] :
                k \in {k \in past : \A j \in past : rs[j].at <= rs[k].at}}
        BY <2>4 DEF BasesIn
      <3> HIDE DEF past
      <3> QED
        BY <3>1, <3>2, <3>3, <2>2
    <2> QED
      BY <2>3, <2>4
  <1>5. ASSUME NEW t \in 0 .. last, NEW base
        PROVE  TotalIn(qs, Since(qs, p, locs, base, t)) = TotalIn(rs, Since(rs, p, locs, base, t))
    <2>1. Since(qs, p, locs, base, t) = Since(rs, p, locs, base, t)
      BY <1>2
    <2>2. Since(rs, p, locs, base, t) \in SUBSET DOMAIN rs
      BY DEF Since, MovementsIn
    <2>3. TotalIn(qs, Since(rs, p, locs, base, t)) = TotalIn(rs, Since(rs, p, locs, base, t))
      BY <1>3, <2>2
    <2> QED
      BY <2>1, <2>3, Zenon
  <1>6. ASSUME NEW t \in 0 .. last
        PROVE  BalanceIn(qs, p, locs)[t] = BalanceIn(rs, p, locs)[t]
    <2> DEFINE G == {n \in Nat : n <= last =>
                       BalanceIn(qs, p, locs)[n] = BalanceIn(rs, p, locs)[n]}
    <2>1. ASSUME NEW n \in 0 .. last,
                 n # 0 => BalanceIn(qs, p, locs)[n - 1] = BalanceIn(rs, p, locs)[n - 1]
          PROVE  BalanceIn(qs, p, locs)[n] = BalanceIn(rs, p, locs)[n]
      <3>1. /\ FlowAt(qs, p, locs, n) = FlowAt(rs, p, locs, n)
            /\ SettledAt(qs, p, locs, n) = SettledAt(rs, p, locs, n)
        BY <1>2
      <3>2. TotalIn(qs, FlowAt(qs, p, locs, n)) = TotalIn(rs, FlowAt(rs, p, locs, n))
        <4>1. FlowAt(rs, p, locs, n) \in SUBSET DOMAIN rs
          BY DEF FlowAt, MovementsIn
        <4>2. TotalIn(qs, FlowAt(rs, p, locs, n)) = TotalIn(rs, FlowAt(rs, p, locs, n))
          BY <1>3, <4>1
        <4> QED
          BY <3>1, <4>2, Zenon
      <3>3. \A k \in SettledAt(rs, p, locs, n) : qs[k] = rs[k]
        BY DEF Extends, SettledAt, InventoriesIn
      <3>4. Quantities(qs, SettledAt(qs, p, locs, n)) = Quantities(rs, SettledAt(rs, p, locs, n))
        BY <3>1, <3>3 DEF Quantities
      <3>5. n \in Time
        BY <1>0
      <3>6. CASE SettledAt(rs, p, locs, n) # {}
        BY <3>6, <3>1, <3>4, <3>5, BalanceAt
      <3>7. CASE SettledAt(rs, p, locs, n) = {}
        <4>1. Before(qs, p, locs, n) = Before(rs, p, locs, n)
          BY <2>1 DEF Before
        <4> QED
          BY <4>1, <3>1, <3>2, <3>5, <3>7, BalanceAt
      <3> QED
        BY <3>6, <3>7
    <2>2. last \in Nat
      BY LedgerAssumption DEF Time
    <2>3. 0 \in G
      BY <2>1, <2>2
    <2>4. \A n \in Nat : n \in G => n + 1 \in G
      BY <2>1, <2>2
    <2>5. t \in G
      <3> HIDE DEF G
      <3> QED
        BY <2>2, <2>3, <2>4, Induction
    <2> QED
      BY <2>5, <2>2
  <1> QED
    BY <1>4, <1>5, <1>6

LEMMA BalanceIsInt ==
    ASSUME NEW rs \in Ledger, NEW p, NEW locs, NEW t \in Time
    PROVE  BalanceIn(rs, p, locs)[t] \in SUBSET Int
  <1> DEFINE G == {n \in Nat : n <= MaxTime => BalanceIn(rs, p, locs)[n] \in SUBSET Int}
  <1>1. ASSUME NEW n \in Time, n # 0 => BalanceIn(rs, p, locs)[n - 1] \in SUBSET Int
        PROVE  BalanceIn(rs, p, locs)[n] \in SUBSET Int
    <2>1. TotalIn(rs, FlowAt(rs, p, locs, n)) \in Int
      BY TotalFacts DEF FlowAt, MovementsIn
    <2>2. \A k \in SettledAt(rs, p, locs, n) : rs[k].qty \in Int
      BY RowIn DEF SettledAt, InventoriesIn, Row
    <2>3. CASE SettledAt(rs, p, locs, n) # {}
      <3>1. Quantities(rs, SettledAt(rs, p, locs, n)) \in SUBSET Int
        BY <2>2 DEF Quantities
      <3> QED
        BY <2>3, <3>1, BalanceAt
    <2>4. CASE SettledAt(rs, p, locs, n) = {}
      <3>1. Before(rs, p, locs, n) \in SUBSET Int
        BY <1>1 DEF Before
      <3>2. Moved(Before(rs, p, locs, n), TotalIn(rs, FlowAt(rs, p, locs, n))) \in SUBSET Int
        BY <2>1, <3>1 DEF Moved
      <3> QED
        BY <2>4, <3>2, BalanceAt
    <2> QED
      BY <2>3, <2>4
  <1>2. 0 \in G
    BY <1>1, LedgerAssumption DEF Time
  <1>3. \A n \in Nat : n \in G => n + 1 \in G
    BY <1>1, LedgerAssumption DEF Time
  <1>4. t \in G
    <2> HIDE DEF G
    <2> QED
      BY <1>2, <1>3, Induction, LedgerAssumption DEF Time
  <1> QED
    BY <1>4, LedgerAssumption DEF Time

\* A tick that writes nothing leaves the balance alone.
LEMMA QuietTick ==
    ASSUME NEW rs \in Ledger, NEW p, NEW locs, NEW t \in Time, t # 0,
           \A k \in DOMAIN rs : rs[k].product = p => rs[k].at # t
    PROVE  BalanceIn(rs, p, locs)[t] = BalanceIn(rs, p, locs)[t - 1]
  <1>1. SettledAt(rs, p, locs, t) = {} /\ FlowAt(rs, p, locs, t) = {}
    BY DEF SettledAt, FlowAt, InventoriesIn, MovementsIn
  <1>2. TotalIn(rs, {}) = 0
    BY TotalFacts
  <1>3. BalanceIn(rs, p, locs)[t] = Moved(BalanceIn(rs, p, locs)[t - 1], 0)
    BY <1>1, <1>2, BalanceAt DEF Before
  <1>4. BalanceIn(rs, p, locs)[t - 1] \in SUBSET Int
    BY BalanceIsInt, LedgerAssumption DEF Time
  <1> QED
    BY <1>3, <1>4 DEF Moved

\* The two queries of a stock, run on one ledger, tell what the ledger says.
LEMMA TwoQueriesTellTheStory ==
    ASSUME NEW rs \in Ledger, NEW p, NEW locs, NEW t \in Time, NEW base \in BasesIn(rs, p, locs, t)
    PROVE  base.qty + TotalIn(rs, Since(rs, p, locs, base, t)) \in BalanceIn(rs, p, locs)[t]
  <1> DEFINE Told(n) == \A b \in BasesIn(rs, p, locs, n) :
                b.qty + TotalIn(rs, Since(rs, p, locs, b, n)) \in BalanceIn(rs, p, locs)[n]
             G == {n \in Nat : n <= MaxTime => Told(n)}
  <1>0. \A k \in DOMAIN rs : rs[k].at \in Nat /\ rs[k].qty \in Int
    BY RowIn DEF Row, Time
  <1>1. ASSUME NEW n \in Time, n # 0 => Told(n - 1) PROVE Told(n)
    <2> SUFFICES ASSUME NEW b \in BasesIn(rs, p, locs, n)
                 PROVE  b.qty + TotalIn(rs, Since(rs, p, locs, b, n)) \in BalanceIn(rs, p, locs)[n]
      OBVIOUS
    <2> DEFINE past(m) == {k \in InventoriesIn(rs, p, locs) : rs[k].at <= m}
    <2>0. n \in Nat
      BY DEF Time
    <2>1. CASE SettledAt(rs, p, locs, n) # {}
      <3>1. PICK i \in SettledAt(rs, p, locs, n) : TRUE
        BY <2>1
      <3>2. i \in past(n) /\ rs[i].at = n
        BY <3>1, <2>0 DEF SettledAt
      <3>3. PICK k \in past(n) : /\ \A j \in past(n) : rs[j].at <= rs[k].at
                                 /\ b = [qty |-> rs[k].qty, at |-> rs[k].at]
        BY <3>2 DEF BasesIn
      <3>4. rs[k].at = n
        BY <3>2, <3>3, <1>0, <2>0 DEF InventoriesIn
      <3>5. k \in SettledAt(rs, p, locs, n)
        BY <3>3, <3>4 DEF SettledAt
      <3>6. Since(rs, p, locs, b, n) = {}
        BY <3>3, <3>4, <1>0, <2>0 DEF Since, MovementsIn
      <3>7. TotalIn(rs, {}) = 0
        BY TotalFacts
      <3>8. b.qty = rs[k].qty /\ rs[k].qty \in Int
        BY <3>3, <1>0 DEF InventoriesIn
      <3>9. TotalIn(rs, Since(rs, p, locs, b, n)) = 0
        BY <3>6, <3>7
      <3>10. rs[k].qty \in Quantities(rs, SettledAt(rs, p, locs, n))
        BY <3>5 DEF Quantities
      <3>11. b.qty + TotalIn(rs, Since(rs, p, locs, b, n)) = rs[k].qty
        BY <3>8, <3>9
      <3> QED
        BY <3>10, <3>11, <2>1, BalanceAt
    <2>2. CASE SettledAt(rs, p, locs, n) = {}
      <3> DEFINE flow == FlowAt(rs, p, locs, n)
                 before == Since(rs, p, locs, b, n - 1)
      <3>1. flow \in SUBSET DOMAIN rs /\ before \in SUBSET DOMAIN rs
        BY DEF FlowAt, Since, MovementsIn
      <3>2. flow \cap before = {}
        BY <1>0, <2>0 DEF FlowAt, Since, MovementsIn
      <3>3. b.at \in Int /\ b.at < n /\ b.qty \in Int
        <4>1. CASE past(n) = {}
          BY <4>1, <2>0 DEF BasesIn
        <4>2. CASE past(n) # {}
          <5>1. PICK k \in past(n) : b = [qty |-> rs[k].qty, at |-> rs[k].at]
            BY <4>2 DEF BasesIn
          <5>2. rs[k].at # n
            BY <2>2, <5>1 DEF SettledAt
          <5> QED
            BY <5>1, <5>2, <1>0, <2>0 DEF InventoriesIn
        <4> QED
          BY <4>1, <4>2
      <3>4. Since(rs, p, locs, b, n) = before \cup flow
        BY <3>3, <1>0, <2>0 DEF FlowAt, Since, MovementsIn
      <3>5. TotalIn(rs, before \cup flow) = TotalIn(rs, before) + TotalIn(rs, flow)
            /\ TotalIn(rs, flow) \in Int /\ TotalIn(rs, before) \in Int
        BY <3>1, <3>2, TotalFacts
      <3>6. BalanceIn(rs, p, locs)[n] = Moved(Before(rs, p, locs, n), TotalIn(rs, flow))
        BY <2>2, BalanceAt
      <3>7. b.qty + TotalIn(rs, before) \in Before(rs, p, locs, n)
        <4>1. CASE n = 0
          <5>1. past(n) = {}
            BY <2>2, <4>1, <1>0 DEF SettledAt, InventoriesIn
          <5>2. b.qty = 0
            BY <5>1 DEF BasesIn
          <5>3. before = {}
            BY <4>1, <1>0 DEF Since, MovementsIn
          <5> QED
            BY <4>1, <5>2, <5>3, TotalFacts DEF Before
        <4>2. CASE n # 0
          <5>1. past(n) = past(n - 1)
            BY <2>2, <2>0, <4>2, <1>0 DEF SettledAt, InventoriesIn
          <5>2. b \in BasesIn(rs, p, locs, n - 1)
            BY <5>1 DEF BasesIn
          <5> QED
            BY <5>2, <4>2, <1>1 DEF Before
        <4> QED
          BY <4>1, <4>2
      <3> HIDE DEF flow, before
      <3>8. b.qty + TotalIn(rs, before \cup flow) = (b.qty + TotalIn(rs, before)) + TotalIn(rs, flow)
        BY <3>3, <3>5
      <3>9. b.qty + TotalIn(rs, Since(rs, p, locs, b, n))
              = (b.qty + TotalIn(rs, before)) + TotalIn(rs, flow)
        BY <3>4, <3>8, Zenon
      <3> QED
        BY <3>6, <3>7, <3>9 DEF Moved
    <2> QED
      BY <2>1, <2>2
  <1>2. 0 \in G
    <2> HIDE DEF Told
    <2> QED
      BY <1>1, LedgerAssumption DEF Time
  <1>3. \A n \in Nat : n \in G => n + 1 \in G
    <2> HIDE DEF Told
    <2> QED
      BY <1>1, LedgerAssumption DEF Time
  <1>4. t \in G
    <2> HIDE DEF G
    <2> QED
      BY <1>2, <1>3, Induction, LedgerAssumption DEF Time
  <1> QED
    BY <1>4, LedgerAssumption DEF Time

\* Ticks that write nothing about a product leave its balance alone.
LEMMA QuietTicks ==
    ASSUME NEW rs \in Ledger, NEW p, NEW locs, NEW t \in Time, NEW u \in Time, t <= u,
           \A k \in DOMAIN rs : rs[k].product = p => rs[k].at <= t
    PROVE  BalanceIn(rs, p, locs)[u] = BalanceIn(rs, p, locs)[t]
  <1> DEFINE B(n) == BalanceIn(rs, p, locs)[n]
             G == {n \in Nat : t + n <= u => B(t + n) = B(t)}
  <1>0. t \in Nat /\ u \in Nat /\ u <= MaxTime /\ MaxTime \in Nat
    BY LedgerAssumption DEF Time
  <1>1. 0 \in G
    BY <1>0
  <1>2. ASSUME NEW n \in Nat, n \in G PROVE n + 1 \in G
    <2> SUFFICES ASSUME t + (n + 1) <= u PROVE B(t + (n + 1)) = B(t)
      OBVIOUS
    <2>1. B(t + n) = B(t)
      BY <1>0, <1>2
    <2>2. t + (n + 1) \in Time /\ t + (n + 1) # 0 /\ (t + (n + 1)) - 1 = t + n
      BY <1>0 DEF Time
    <2>3. \A k \in DOMAIN rs : rs[k].product = p => rs[k].at # t + (n + 1)
      <3>1. \A k \in DOMAIN rs : rs[k].at \in Nat
        BY RowIn DEF Row, Time
      <3> QED
        BY <1>0, <3>1
    <2>4. B(t + (n + 1)) = B((t + (n + 1)) - 1)
      <3> HIDE DEF B
      <3> QED
        BY <2>2, <2>3, QuietTick DEF B
    <2> HIDE DEF B
    <2> QED
      BY <2>1, <2>2, <2>4
  <1>3. u - t \in G
    <2> HIDE DEF G
    <2> QED
      BY <1>0, <1>1, <1>2, Induction
  <1>4. t + (u - t) = u
    BY <1>0
  <1> HIDE DEF B
  <1>5. B(t + (u - t)) = B(t)
    BY <1>3, <1>0
  <1> QED
    BY <1>4, <1>5 DEF B

-----------------------------------------------------------------------------
\* What a step of the ledger may do.
LEMMA InsertAppends ==
    ASSUME LedgerTypeOK, NEW batch \in Seq(Row), Insert(batch),
           \A k \in DOMAIN batch : batch[k].at \in Dates
    PROVE  /\ LedgerTypeOK'
           /\ now' = now
           /\ Extends(rows', rows)
           /\ Len(rows') <= MaxRows
           /\ \A k \in DOMAIN rows' \ DOMAIN rows : rows'[k].at \in Dates
  <1>1. rows \in Seq(Row) /\ rows' = rows \o batch /\ now' = now /\ Len(rows) + Len(batch) <= MaxRows
    BY DEF Insert, LedgerTypeOK
  <1>2. /\ rows' \in Seq(Row)
        /\ Len(rows') = Len(rows) + Len(batch)
        /\ \A i \in 1 .. Len(rows) + Len(batch) :
              rows'[i] = IF i <= Len(rows) THEN rows[i] ELSE batch[i - Len(rows)]
    BY <1>1, ConcatProperties
  <1>3. DOMAIN rows = 1 .. Len(rows) /\ DOMAIN rows' = 1 .. Len(rows) + Len(batch)
        /\ DOMAIN batch = 1 .. Len(batch) /\ Len(rows) \in Nat /\ Len(batch) \in Nat
    BY <1>1, <1>2
  <1>4. Extends(rows', rows)
    BY <1>2, <1>3 DEF Extends
  <1>5. \A k \in DOMAIN rows' \ DOMAIN rows : rows'[k].at \in Dates
    <2> SUFFICES ASSUME NEW k \in DOMAIN rows' \ DOMAIN rows PROVE rows'[k].at \in Dates
      OBVIOUS
    <2>1. k - Len(rows) \in DOMAIN batch /\ rows'[k] = batch[k - Len(rows)]
      BY <1>2, <1>3
    <2> QED
      BY <2>1
  <1> QED
    BY <1>1, <1>2, <1>3, <1>4, <1>5 DEF LedgerTypeOK

LEMMA LedgerStep ==
    ASSUME LedgerTypeOK, Len(rows) <= MaxRows, LedgerNext
    PROVE  /\ LedgerTypeOK'
           /\ Len(rows') <= MaxRows
           /\ Extends(rows', rows)
           /\ now <= now' /\ (now' = now \/ rows' = rows)
           /\ \A k \in DOMAIN rows' \ DOMAIN rows : rows'[k].at \in Dates
  <1>0. Dates \subseteq Time /\ now \in Nat
    BY LedgerAssumption DEF Dates, LedgerTypeOK, Time
  <1>1. CASE Tick
    BY <1>1, <1>0, LedgerAssumption DEF Tick, LedgerTypeOK, Extends, Time
  <1> DEFINE Entry(kind, p, l, at, qty) ==
               [kind |-> kind, product |-> p, location |-> l, at |-> at, qty |-> qty]
  <1>7. \A kind \in {"inventory", "movement"}, p \in Product, l \in Location, at \in Dates, qty \in Int :
          Entry(kind, p, l, at, qty) \in Row /\ Entry(kind, p, l, at, qty).at \in Dates
    BY <1>0 DEF Row
  <1>8. \A r \in Row, q \in Row : r.at \in Dates /\ q.at \in Dates =>
          /\ <<r>> \in Seq(Row) /\ \A k \in DOMAIN <<r>> : <<r>>[k].at \in Dates
          /\ <<r, q>> \in Seq(Row) /\ \A k \in DOMAIN <<r, q>> : <<r, q>>[k].at \in Dates
    OBVIOUS
  <1>9. \A qty \in Change : qty \in Int /\ -qty \in Int
    BY LedgerAssumption
  <1>2. ASSUME NEW p \in Product, NEW l \in Location, NEW at \in Dates,
               NEW qty \in Count, CreateInventory(p, l, at, qty)
        PROVE  \E batch \in Seq(Row) : Insert(batch) /\ \A k \in DOMAIN batch : batch[k].at \in Dates
    <2> DEFINE row == Entry("inventory", p, l, at, qty)
    <2>1. row \in Row /\ row.at \in Dates
      <3> HIDE DEF Entry
      <3> QED
        BY <1>7, LedgerAssumption
    <2>2. Insert(<<row>>)
      BY <1>2 DEF CreateInventory
    <2> HIDE DEF row
    <2> QED
      BY <2>1, <2>2, <1>8
  <1>3. ASSUME NEW p \in Product, NEW l \in Location, NEW at \in Dates,
               NEW qty \in Change, CreateMovement(p, l, at, qty)
        PROVE  \E batch \in Seq(Row) : Insert(batch) /\ \A k \in DOMAIN batch : batch[k].at \in Dates
    <2> DEFINE row == Entry("movement", p, l, at, qty)
    <2>1. row \in Row /\ row.at \in Dates
      <3> HIDE DEF Entry
      <3> QED
        BY <1>7, <1>9
    <2>2. Insert(<<row>>)
      BY <1>3 DEF CreateMovement
    <2> HIDE DEF row
    <2> QED
      BY <2>1, <2>2, <1>8
  <1>4. ASSUME NEW p \in Product, NEW l \in Location, NEW at \in Dates,
               NEW to \in Location \ {l}, NEW qty \in Change, CreateTransfer(p, l, to, at, qty)
        PROVE  \E batch \in Seq(Row) : Insert(batch) /\ \A k \in DOMAIN batch : batch[k].at \in Dates
    <2> DEFINE out == Entry("movement", p, l, at, -qty)
               in == Entry("movement", p, to, at, qty)
    <2>1. out \in Row /\ out.at \in Dates /\ in \in Row /\ in.at \in Dates
      <3> HIDE DEF Entry
      <3> QED
        BY <1>7, <1>9
    <2>2. Insert(<<out, in>>)
      BY <1>4 DEF CreateTransfer
    <2> HIDE DEF out, in
    <2> QED
      BY <2>1, <2>2, <1>8
  <1>5. Tick \/ \E batch \in Seq(Row) : Insert(batch) /\ \A k \in DOMAIN batch : batch[k].at \in Dates
    BY <1>2, <1>3, <1>4 DEF LedgerNext
  <1>6. ASSUME NEW batch \in Seq(Row), Insert(batch), \A k \in DOMAIN batch : batch[k].at \in Dates
        PROVE  /\ LedgerTypeOK' /\ Len(rows') <= MaxRows /\ Extends(rows', rows) /\ now' = now
               /\ \A k \in DOMAIN rows' \ DOMAIN rows : rows'[k].at \in Dates
    BY <1>6, InsertAppends
  <1> QED
    BY <1>0, <1>1, <1>5, <1>6

\* Bases are a quantity and an instant, or -1.
LEMMA BasesType ==
    ASSUME LedgerTypeOK, NEW p, NEW locs, NEW t, NEW base \in Bases(p, locs, t)
    PROVE  base \in [qty : Int, at : Int]
  <1>0. rows \in Ledger
    BY DEF LedgerTypeOK, Ledger
  <1>1. \A k \in DOMAIN rows : rows[k].at \in Int /\ rows[k].qty \in Int
    BY <1>0, RowIn, LedgerAssumption DEF Row, Time
  <1> QED
    BY <1>1 DEF Bases, Latest, Inventories

LEMMA SinceIsInt ==
    ASSUME LedgerTypeOK, NEW p, NEW locs, NEW base, NEW t
    PROVE  SinceBase(p, locs, base, t) \in Int
  <1>1. Since(rows, p, locs, base, t) \in SUBSET DOMAIN rows
    BY DEF Since, MovementsIn
  <1>2. TotalIn(rows, Since(rows, p, locs, base, t)) \in Int
    BY <1>1, TotalFacts DEF LedgerTypeOK, Ledger
  <1> QED
    BY <1>2, InTheLedger

-----------------------------------------------------------------------------
(***************************************************************************)
(* The two queries of a stock, and the sync.                                *)
(***************************************************************************)

\* What a slot of the server waits for, step by step.
NextState == [step : {"next"}, todo : (SUBSET Linked) \ {{}}, dry : BOOLEAN]
SumState ==
    {c \in [step : {"sum"}, product : Product, target : Time, base : [qty : Int, at : Int],
            asked : Time, seen : 0 .. MaxRows, sync : BOOLEAN, dry : BOOLEAN,
            todo : SUBSET Linked] : c.sync => c.product \in Linked}
PushState ==
    [step : {"push"}, product : Linked, stock : Int, seen : 0 .. MaxRows, sync : {TRUE},
     dry : {FALSE}, todo : SUBSET Linked]
CallState == {NoCall} \cup NextState \cup SumState \cup PushState
Answer == {NoAnswer} \cup [asked : Time, product : Product, target : Time, stock : Int]

\* Inductive: the type invariant, and what a stock under way is made of.
SyncTypes ==
    /\ LedgerTypeOK /\ Len(rows) <= MaxRows
    /\ call \in [Caller -> CallState]
    /\ answer \in [Caller -> Answer]
    /\ axonaut \in [Linked -> Int]
    /\ confirmed \in [Linked -> -1 .. MaxRows]

LEMMA CallKinds ==
    ASSUME NEW c \in CallState
    PROVE  /\ c.step = "next" => c \in NextState
           /\ c.step = "sum" => c \in SumState
           /\ c.step = "push" => c \in PushState
           /\ c # NoCall => c.step \in {"next", "sum", "push"}
  <1>1. CASE c = NoCall
    BY <1>1 DEF NoCall
  <1>2. CASE c \in NextState
    BY <1>2 DEF NextState
  <1>3. CASE c \in SumState
    BY <1>3 DEF SumState
  <1>4. CASE c \in PushState
    BY <1>4 DEF PushState
  <1> QED
    BY <1>1, <1>2, <1>3, <1>4 DEF CallState

LEMMA SyncTypesImply == SyncTypes => SyncTypeOK
  <1> SUFFICES ASSUME SyncTypes PROVE SyncTypeOK
    OBVIOUS
  <1>1. ASSUME NEW s \in Caller, call[s] # NoCall
        PROVE  /\ call[s].step \in {"next", "sum", "push"}
               /\ call[s].todo \subseteq Linked
               /\ call[s].step = "next" => call[s].todo # {}
               /\ call[s].step # "next" /\ call[s].sync => call[s].product \in Linked
    <2>1. CASE call[s] \in NextState
      BY <2>1 DEF NextState
    <2>2. CASE call[s] \in SumState
      BY <2>2 DEF SumState
    <2>3. CASE call[s] \in PushState
      BY <2>3 DEF PushState
    <2> QED
      BY <1>1, <2>1, <2>2, <2>3 DEF SyncTypes, CallState
  <1> QED
    BY <1>1 DEF SyncTypes, SyncTypeOK, Answer

LEMMA SeenType ==
    ASSUME rows \in Seq(Row), Len(rows) <= MaxRows, NEW p
    PROVE  Seen(p) \in 0 .. MaxRows
  <1> DEFINE S == {k \in DOMAIN rows : rows[k].product = p}
  <1>1. DOMAIN rows = 1 .. Len(rows) /\ Len(rows) \in Nat
    OBVIOUS
  <1>2. IsFiniteSet(1 .. Len(rows)) /\ Cardinality(1 .. Len(rows)) = Len(rows)
    BY <1>1, FS_Interval
  <1>3. IsFiniteSet(S) /\ Cardinality(S) <= Len(rows) /\ Cardinality(S) \in Nat
    BY <1>1, <1>2, FS_Subset, FS_CardinalityType
  <1> QED
    BY <1>1, <1>3, LedgerAssumption DEF Seen

\* What a slot comes to wait for.
LEMMA Reads ==
    ASSUME SyncTypes, NEW s \in Caller, NEW p \in Product, NEW target \in Time,
           NEW sync \in BOOLEAN, NEW dry \in BOOLEAN, NEW todo \in SUBSET Linked,
           sync => p \in Linked, ReadBase(s, p, target, sync, dry, todo)
    PROVE  call' \in [Caller -> CallState]
  <1>1. PICK base \in Bases(p, Location, target) :
           call' = [call EXCEPT ![s] =
                      [step |-> "sum", product |-> p, target |-> target, base |-> base,
                       asked |-> now, seen |-> Seen(p), sync |-> sync, dry |-> dry,
                       todo |-> todo]]
    BY DEF ReadBase, Await
  <1>2. base \in [qty : Int, at : Int]
    BY BasesType DEF SyncTypes
  <1>3. Seen(p) \in 0 .. MaxRows
    BY SeenType DEF SyncTypes, LedgerTypeOK
  <1>4. now \in Time
    BY DEF SyncTypes, LedgerTypeOK
  <1>5. [step |-> "sum", product |-> p, target |-> target, base |-> base, asked |-> now,
         seen |-> Seen(p), sync |-> sync, dry |-> dry, todo |-> todo] \in SumState
    BY <1>2, <1>3, <1>4 DEF SumState
  <1> QED
    BY <1>1, <1>5 DEF SyncTypes, CallState

LEMMA Continues ==
    ASSUME SyncTypes, NEW s \in Caller, NEW todo \in SUBSET Linked, call[s].dry \in BOOLEAN,
           Continue(s, todo)
    PROVE  call' \in [Caller -> CallState]
  <1> DEFINE next == [step |-> "next", todo |-> todo, dry |-> call[s].dry]
  <1>1. todo # {} => next \in NextState
    BY DEF NextState
  <1>2. call' = [call EXCEPT ![s] = IF todo = {} THEN NoCall ELSE next]
    BY DEF Continue, Await
  <1> HIDE DEF next
  <1> QED
    BY <1>1, <1>2 DEF SyncTypes, CallState

LEMMA SyncTypesStep == SyncTypes /\ [SyncNext]_syncVars => SyncTypes'
  <1> SUFFICES ASSUME SyncTypes, [SyncNext]_syncVars PROVE SyncTypes'
    OBVIOUS
  <1>1. ASSUME LedgerNext, UNCHANGED <<call, answer, axonaut, confirmed>> PROVE SyncTypes'
    BY <1>1, LedgerStep DEF SyncTypes
  <1>2. ASSUME NEW s \in Caller, NEW p \in Product, NEW at \in Asked, GetStockAt(s, p, at)
        PROVE  SyncTypes'
    <2>1. call' \in [Caller -> CallState]
      <3>1. ReadBase(s, p, at, FALSE, FALSE, {}) /\ at \in Time
        BY <1>2, SyncAssumption DEF GetStockAt
      <3>2. FALSE \in BOOLEAN /\ {} \in SUBSET Linked
        OBVIOUS
      <3> QED
        BY <3>1, <3>2, Reads, Zenon
    <2> QED
      BY <1>2, <2>1 DEF GetStockAt, SyncTypes, ledgerVars, LedgerTypeOK
  <1>3. ASSUME NEW s \in Caller, NEW ids \in Ids, NEW dry \in BOOLEAN, SyncStock(s, ids, dry)
        PROVE  SyncTypes'
    <2>1. call' \in [Caller -> CallState]
      <3> DEFINE next == [step |-> "next", todo |-> ids \cap Linked, dry |-> dry]
      <3>1. next \in NextState
        BY <1>3 DEF SyncStock, NextState
      <3>2. call' = [call EXCEPT ![s] = next]
        BY <1>3 DEF SyncStock, Await
      <3> HIDE DEF next
      <3> QED
        BY <3>1, <3>2 DEF SyncTypes, CallState
    <2> QED
      BY <1>3, <2>1 DEF SyncStock, SyncTypes, ledgerVars, LedgerTypeOK
  <1>4. ASSUME NEW s \in Caller, NEW p \in Linked, ReadInventory(s, p)
        PROVE  SyncTypes'
    <2>1. call[s] \in NextState
      BY <1>4, CallKinds DEF ReadInventory, SyncTypes
    <2>2. call' \in [Caller -> CallState]
      <3> DEFINE dry == call[s].dry
                 todo == call[s].todo \ {p}
      <3>1. ReadBase(s, p, now, TRUE, dry, todo)
        BY <1>4 DEF ReadInventory
      <3>2. /\ now \in Time /\ p \in Product
            /\ dry \in BOOLEAN /\ todo \in SUBSET Linked
        BY <2>1, SyncAssumption DEF NextState, SyncTypes, LedgerTypeOK
      <3>3. TRUE \in BOOLEAN /\ (TRUE => p \in Linked)
        OBVIOUS
      <3> HIDE DEF dry, todo
      <3> QED
        BY <3>1, <3>2, <3>3, Reads, Zenon
    <2> QED
      BY <1>4, <2>2 DEF ReadInventory, SyncTypes, ledgerVars, LedgerTypeOK
  <1>5. ASSUME NEW s \in Caller, SumMovements(s)
        PROVE  SyncTypes'
    <2> DEFINE c == call[s]
               stock == c.base.qty + SinceBase(c.product, Location, c.base, c.target)
    <2>1. c \in SumState
      BY <1>5, CallKinds DEF SumMovements, SyncTypes
    <2>2. stock \in Int
      BY <2>1, SinceIsInt DEF SumState, SyncTypes
    <2>3. call' \in [Caller -> CallState]
      <3>1. CASE c.sync /\ ~ c.dry
        <4> DEFINE push == [step |-> "push", product |-> c.product, stock |-> stock,
                            seen |-> c.seen, sync |-> TRUE, dry |-> FALSE, todo |-> c.todo]
        <4>1. push \in PushState
          <5> HIDE DEF stock
          <5> QED
            BY <2>1, <2>2, <3>1 DEF PushState, SumState
        <4>2. call' = [call EXCEPT ![s] = push]
          BY <1>5, <3>1 DEF SumMovements, Await
        <4> HIDE DEF push
        <4> QED
          BY <4>1, <4>2 DEF SyncTypes, CallState
      <3>2. CASE c.sync /\ c.dry
        <4>1. Continue(s, c.todo)
          BY <1>5, <3>2 DEF SumMovements
        <4> QED
          BY <4>1, <2>1, Continues DEF SumState
      <3>3. CASE ~ c.sync
        BY <1>5, <3>3 DEF SumMovements, Await, SyncTypes, CallState
      <3> QED
        BY <2>1, <3>1, <3>2, <3>3 DEF SumState
    <2>4. answer' \in [Caller -> Answer]
      <3>1. CASE UNCHANGED answer
        BY <3>1 DEF SyncTypes
      <3>2. CASE answer' = [answer EXCEPT ![s] = [asked |-> c.asked, product |-> c.product,
                                                  target |-> c.target, stock |-> stock]]
        <4>1. [asked |-> c.asked, product |-> c.product, target |-> c.target, stock |-> stock]
                \in Answer
          <5> HIDE DEF stock
          <5> QED
            BY <2>1, <2>2 DEF SumState, Answer
        <4> HIDE DEF stock
        <4> QED
          BY <3>2, <4>1 DEF SyncTypes
      <3> QED
        BY <1>5, <3>1, <3>2 DEF SumMovements
    <2> QED
      BY <1>5, <2>3, <2>4 DEF SumMovements, SyncTypes, ledgerVars, LedgerTypeOK
  <1>6. ASSUME NEW s \in Caller, Push(s)
        PROVE  SyncTypes'
    <2>1. call[s] \in PushState
      BY <1>6, CallKinds DEF Push, SyncTypes
    <2>2. call' \in [Caller -> CallState]
      BY <1>6, <2>1, Continues DEF Push, PushState
    <2>3. axonaut' \in [Linked -> Int] /\ confirmed' \in [Linked -> -1 .. MaxRows]
      BY <1>6, <2>1, LedgerAssumption DEF Push, PushState, SyncTypes, Latter
    <2> QED
      BY <1>6, <2>2, <2>3 DEF Push, SyncTypes, ledgerVars, LedgerTypeOK
  <1>7. ASSUME NEW s \in Caller, PushFails(s)
        PROVE  SyncTypes'
    <2>1. call[s] \in PushState
      BY <1>7, CallKinds DEF PushFails, SyncTypes
    <2>2. call' \in [Caller -> CallState]
      BY <1>7, <2>1, Continues DEF PushFails, PushState
    <2>3. axonaut' \in [Linked -> Int]
      BY <1>7, <2>1 DEF PushFails, PushState, SyncTypes
    <2> QED
      BY <1>7, <2>2, <2>3 DEF PushFails, SyncTypes, ledgerVars, LedgerTypeOK
  <1>8. ASSUME NEW s \in Caller, Hangup(s)
        PROVE  SyncTypes'
    BY <1>8 DEF Hangup, Await, SyncTypes, CallState, ledgerVars, LedgerTypeOK
  <1>9. ASSUME NEW p \in Linked, NEW quantity \in Count, UpdateStock(p, quantity)
        PROVE  SyncTypes'
    <2>1. axonaut' \in [Linked -> Int] /\ confirmed' \in [Linked -> -1 .. MaxRows]
      BY <1>9, LedgerAssumption DEF UpdateStock, SyncTypes
    <2> QED
      BY <1>9, <2>1 DEF UpdateStock, SyncTypes, ledgerVars, LedgerTypeOK
  <1>10. CASE UNCHANGED syncVars
    BY <1>10 DEF syncVars, SyncTypes, LedgerTypeOK
  <1> QED
    BY <1>1, <1>2, <1>3, <1>4, <1>5, <1>6, <1>7, <1>8, <1>9, <1>10 DEF SyncNext, ServeCaller

LEMMA SyncTypesInit == SyncInit => SyncTypes
  <1> SUFFICES ASSUME SyncInit PROVE SyncTypes
    OBVIOUS
  <1>1. LedgerTypeOK /\ Len(rows) <= MaxRows
    BY LedgerAssumption DEF SyncInit, LedgerInit, LedgerTypeOK, Time
  <1> QED
    BY <1>1, LedgerAssumption DEF SyncInit, SyncTypes, CallState, Answer

\* Every slot is where the code can leave it, whatever is written, refused or
\* lost meanwhile.
THEOREM SyncTypesAlways == SyncSpec => []SyncTypes
  BY SyncTypesInit, SyncTypesStep, PTL DEF SyncSpec

\* The type invariant of the stock requests and of the sync: a slot waits in
\* one of the steps of getStockAt and syncStock, with products left to sync and
\* linked ones only.
THEOREM SyncTypesHold == SyncSpec => []SyncTypeOK
  BY SyncTypesAlways, SyncTypesImply, PTL

\* Rows dated by the server are dated now or before.
NoLaterRow == \A k \in DOMAIN rows : rows[k].at <= now

LEMMA WritesAreNow ==
    ASSUME ~ Dated, LedgerTypeOK, Len(rows) <= MaxRows, NoLaterRow, LedgerNext
    PROVE  /\ NoLaterRow'
           /\ \A k \in DOMAIN rows' \ DOMAIN rows : rows'[k].at = now
  <1>1. /\ LedgerTypeOK' /\ Extends(rows', rows) /\ now <= now'
        /\ \A k \in DOMAIN rows' \ DOMAIN rows : rows'[k].at \in Dates
    BY LedgerStep
  <1>2. \A k \in DOMAIN rows' \ DOMAIN rows : rows'[k].at = now
    BY <1>1 DEF Dates
  <1>3. \A k \in DOMAIN rows : rows[k].at \in Nat
    <2>1. rows \in Ledger
      BY DEF LedgerTypeOK, Ledger
    <2> QED
      BY <2>1, RowIn, LedgerAssumption DEF Row, Time
  <1>4. now \in Nat /\ now' \in Nat
    BY <1>1, LedgerAssumption DEF LedgerTypeOK, Time
  <1>5. ASSUME NEW k \in DOMAIN rows' PROVE rows'[k].at <= now'
    <2>1. CASE k \in DOMAIN rows
      BY <2>1, <1>1, <1>3, <1>4 DEF Extends, NoLaterRow
    <2>2. CASE k \notin DOMAIN rows
      BY <2>2, <1>1, <1>2, <1>4
    <2> QED
      BY <2>1, <2>2
  <1> QED
    BY <1>2, <1>5 DEF NoLaterRow

\* Rows dated by the server: what the ledger says of an instant that is over
\* stays, and so do the inventories a stock of that instant may start from.
LEMMA PastStays ==
    ASSUME ~ Dated, LedgerTypeOK, Len(rows) <= MaxRows, NoLaterRow, LedgerNext,
           NEW p, NEW locs, NEW t \in Time, t < now
    PROVE  /\ BasesIn(rows', p, locs, t) = BasesIn(rows, p, locs, t)
           /\ \A base : TotalIn(rows', Since(rows', p, locs, base, t))
                          = TotalIn(rows, Since(rows, p, locs, base, t))
           /\ BalanceIn(rows', p, locs)[t] = BalanceIn(rows, p, locs)[t]
  <1>1. rows \in Ledger /\ rows' \in Ledger /\ Extends(rows', rows)
    BY LedgerStep DEF LedgerTypeOK, Ledger
  <1>2. \A k \in DOMAIN rows' \ DOMAIN rows :
          rows'[k].product = p /\ rows'[k].location \in locs => rows'[k].at > t
    BY WritesAreNow, LedgerAssumption DEF LedgerTypeOK, Time
  <1>3. t \in 0 .. t
    BY LedgerAssumption DEF Time
  <1> DEFINE Same(u) ==
        /\ BasesIn(rows', p, locs, u) = BasesIn(rows, p, locs, u)
        /\ \A base : TotalIn(rows', Since(rows', p, locs, base, u))
                       = TotalIn(rows, Since(rows, p, locs, base, u))
        /\ BalanceIn(rows', p, locs)[u] = BalanceIn(rows, p, locs)[u]
  <1>4. \A u \in 0 .. t : Same(u)
    <2> DEFINE qs == rows'
               rs == rows
    <2>1. rs \in Ledger /\ qs \in Ledger /\ Extends(qs, rs)
      BY <1>1
    <2>2. \A k \in DOMAIN qs \ DOMAIN rs :
            qs[k].product = p /\ qs[k].location \in locs => qs[k].at > t
      BY <1>2
    <2> HIDE DEF qs, rs
    <2>3. \A u \in 0 .. t :
            /\ BasesIn(qs, p, locs, u) = BasesIn(rs, p, locs, u)
            /\ \A base : TotalIn(qs, Since(qs, p, locs, base, u))
                           = TotalIn(rs, Since(rs, p, locs, base, u))
            /\ BalanceIn(qs, p, locs)[u] = BalanceIn(rs, p, locs)[u]
      BY <2>1, <2>2, PastIsSettled, SMTT(60)
    <2> QED
      BY <2>3, Zenon DEF qs, rs
  <1> HIDE DEF Same
  <1>5. Same(t)
    BY <1>3, <1>4
  <1> QED
    BY <1>5 DEF Same

-----------------------------------------------------------------------------
\* A stock of the past under way has found the inventory the ledger has for that
\* instant.
PastBase(s) ==
    call[s].step = "sum" =>
        /\ call[s].asked <= now
        /\ call[s].target < call[s].asked =>
             call[s].base \in BasesIn(rows, call[s].product, Location, call[s].target)

PastAnswer(s) ==
    /\ answer[s].asked <= now
    /\ answer[s].asked # -1 /\ answer[s].target < answer[s].asked =>
         answer[s].stock \in BalanceIn(rows, answer[s].product, Location)[answer[s].target]

\* Inductive: the base of a past stock under way, and a past stock that was
\* told, are those of the ledger.
PastInv ==
    /\ NoLaterRow
    /\ \A s \in Caller : PastBase(s) /\ PastAnswer(s)

LEMMA PastInvInit == SyncInit => PastInv
  BY LedgerAssumption DEF SyncInit, LedgerInit, PastInv, NoLaterRow, PastBase, PastAnswer, NoCall, NoAnswer

LEMMA PastInvImplies == PastInv => PastStaysTold
  BY InTheLedger DEF PastInv, PastAnswer, PastStaysTold

LEMMA PastInvStep == ~ Dated /\ SyncTypes /\ PastInv /\ [SyncNext]_syncVars => PastInv'
  <1> SUFFICES ASSUME ~ Dated, SyncTypes, PastInv, [SyncNext]_syncVars PROVE PastInv'
    OBVIOUS
  <1>0. now \in Nat /\ \A t \in Time : t \in Nat
    BY LedgerAssumption DEF SyncTypes, LedgerTypeOK, Time
  <1>1. ASSUME LedgerNext, UNCHANGED <<call, answer, axonaut, confirmed>> PROVE PastInv'
    <2>1. NoLaterRow' /\ now <= now' /\ now' \in Nat
      BY <1>1, WritesAreNow, LedgerStep, LedgerAssumption
         DEF SyncTypes, PastInv, LedgerTypeOK, Time
    <2>2. ASSUME NEW s \in Caller PROVE PastBase(s)'
      <3> DEFINE c == call[s]
      <3>1. SUFFICES ASSUME c.step = "sum"
                     PROVE  /\ c.asked <= now'
                            /\ c.target < c.asked =>
                                 c.base \in BasesIn(rows', c.product, Location, c.target)
        BY <1>1 DEF PastBase
      <3>2. c \in SumState
        BY <3>1, CallKinds DEF SyncTypes
      <3>3. c.target \in Time /\ c.asked \in Nat /\ c.asked <= now
        BY <3>1, <3>2, <1>0 DEF SumState, PastInv, PastBase
      <3>4. ASSUME c.target < c.asked
            PROVE  c.base \in BasesIn(rows', c.product, Location, c.target)
        <4>0. c.target \in Nat
          BY <3>3, <1>0
        <4>1. c.target < now
          BY <4>0, <3>3, <3>4, <1>0
        <4>2. BasesIn(rows', c.product, Location, c.target)
                = BasesIn(rows, c.product, Location, c.target)
          BY <1>1, <3>3, <4>1, PastStays DEF SyncTypes, PastInv
        <4>3. c.base \in BasesIn(rows, c.product, Location, c.target)
          BY <3>1, <3>4 DEF PastInv, PastBase
        <4> QED
          BY <4>2, <4>3
      <3> QED
        BY <3>3, <3>4, <2>1, <1>0
    <2>3. ASSUME NEW s \in Caller PROVE PastAnswer(s)'
      <3> DEFINE a == answer[s]
      <3>0. a \in Answer /\ answer' = answer
        BY <1>1 DEF SyncTypes
      <3>1. a.asked \in Int /\ a.asked <= now
        BY <3>0, <1>0 DEF Answer, NoAnswer, PastInv, PastAnswer
      <3>2. ASSUME a.asked # -1, a.target < a.asked
            PROVE  a.stock \in BalanceIn(rows', a.product, Location)[a.target]
        <4>0. a.target \in Time
          BY <3>0, <3>2 DEF Answer, NoAnswer
        <4>4. a.target \in Nat
          BY <4>0, <1>0
        <4>1. a.target < now
          BY <3>1, <3>2, <4>4, <1>0
        <4>2. BalanceIn(rows', a.product, Location)[a.target]
                = BalanceIn(rows, a.product, Location)[a.target]
          BY <1>1, <4>0, <4>1, PastStays DEF SyncTypes, PastInv
        <4>3. a.stock \in BalanceIn(rows, a.product, Location)[a.target]
          BY <3>2 DEF PastInv, PastAnswer
        <4> QED
          BY <4>2, <4>3
      <3> QED
        BY <3>0, <3>1, <3>2, <2>1, <1>0 DEF PastAnswer
    <2> QED
      BY <2>1, <2>2, <2>3 DEF PastInv
  <1>2. ASSUME NEW s \in Caller, ServeCaller(s) PROVE PastInv'
    <2>1. UNCHANGED <<now, rows>> /\ \E state : call' = [call EXCEPT ![s] = state]
      BY <1>2 DEF ServeCaller, GetStockAt, SyncStock, ReadInventory, SumMovements, Push,
                  PushFails, Hangup, ReadBase, Continue, Await, ledgerVars
    <2>2. call'[s].step = "sum" =>
            /\ call'[s].asked = now
            /\ call'[s].base \in BasesIn(rows, call'[s].product, Location, call'[s].target)
      <3>1. ASSUME NEW p, NEW target, NEW sync, NEW dry, NEW todo,
                   ReadBase(s, p, target, sync, dry, todo)
            PROVE  call'[s].asked = now
                   /\ call'[s].base \in BasesIn(rows, call'[s].product, Location, call'[s].target)
        <4>1. PICK base \in Bases(p, Location, target) :
                 call' = [call EXCEPT ![s] =
                            [step |-> "sum", product |-> p, target |-> target, base |-> base,
                             asked |-> now, seen |-> Seen(p), sync |-> sync, dry |-> dry,
                             todo |-> todo]]
          BY <3>1 DEF ReadBase, Await
        <4>2. /\ call'[s].asked = now /\ call'[s].base = base
              /\ call'[s].product = p /\ call'[s].target = target
          BY <4>1 DEF SyncTypes
        <4>3. base \in BasesIn(rows, p, Location, target)
          BY InTheLedger
        <4> QED
          BY <4>2, <4>3
      <3>2. CASE \E p \in Product, at \in Asked : GetStockAt(s, p, at)
        BY <3>1, <3>2 DEF GetStockAt
      <3>3. CASE \E p \in Linked : ReadInventory(s, p)
        BY <3>1, <3>3 DEF ReadInventory
      <3>4. ASSUME NEW todo, Continue(s, todo) PROVE call'[s].step # "sum"
        BY <3>4 DEF Continue, Await, NoCall, SyncTypes
      <3>5. ASSUME \/ \E ids \in Ids, dry \in BOOLEAN : SyncStock(s, ids, dry)
                   \/ SumMovements(s) \/ Push(s) \/ PushFails(s) \/ Hangup(s)
            PROVE call'[s].step # "sum"
        BY <3>4, <3>5 DEF SyncStock, SumMovements, Push, PushFails, Hangup, Await, NoCall, SyncTypes
      <3> QED
        BY <1>2, <3>2, <3>3, <3>5 DEF ServeCaller
    <2>3. ASSUME NEW u \in Caller PROVE PastBase(u)'
      <3>1. CASE u = s
        BY <2>1, <2>2, <3>1, <1>0 DEF PastBase
      <3>2. CASE u # s
        BY <2>1, <3>2 DEF PastBase, PastInv, SyncTypes
      <3> QED
        BY <3>1, <3>2
    <2>4. ASSUME NEW u \in Caller PROVE PastAnswer(u)'
      <3>1. CASE UNCHANGED answer
        BY <2>1, <3>1 DEF PastAnswer, PastInv
      <3>2. CASE answer' # answer
        <4> DEFINE c == call[s]
                   stock == c.base.qty + SinceBase(c.product, Location, c.base, c.target)
        <4>1. /\ c.step = "sum"
              /\ answer' = [answer EXCEPT ![s] = [asked |-> c.asked, product |-> c.product,
                                                  target |-> c.target, stock |-> stock]]
          BY <1>2, <3>2 DEF ServeCaller, GetStockAt, SyncStock, ReadInventory, SumMovements,
                            Push, PushFails, Hangup
        <4>2. c \in SumState
          BY <4>1, CallKinds DEF SyncTypes
        <4>3. ASSUME c.target < c.asked
              PROVE  stock \in BalanceIn(rows, c.product, Location)[c.target]
          <5>1. c.base \in BasesIn(rows, c.product, Location, c.target)
            BY <4>1, <4>3 DEF PastInv, PastBase
          <5>2. c.target \in Time /\ rows \in Ledger
            BY <4>2 DEF SumState, SyncTypes, LedgerTypeOK, Ledger
          <5>3. stock = c.base.qty + TotalIn(rows, Since(rows, c.product, Location, c.base, c.target))
            BY InTheLedger
          <5> HIDE DEF stock, c
          <5> QED
            BY <5>1, <5>2, <5>3, TwoQueriesTellTheStory
        <4>4. c.asked <= now
          BY <4>1 DEF PastInv, PastBase
        <4> HIDE DEF stock
        <4>5. CASE u = s
          BY <4>1, <4>3, <4>4, <4>5, <2>1 DEF PastAnswer, SyncTypes
        <4>6. CASE u # s
          BY <4>1, <4>6, <2>1 DEF PastAnswer, PastInv, SyncTypes
        <4> QED
          BY <4>5, <4>6
      <3> QED
        BY <3>1, <3>2
    <2> QED
      BY <2>1, <2>3, <2>4 DEF PastInv, NoLaterRow
  <1>3. CASE UNCHANGED syncVars
    BY <1>3 DEF syncVars, PastInv, NoLaterRow, PastBase, PastAnswer
  <1>4. ASSUME NEW p \in Linked, NEW quantity \in Count, UpdateStock(p, quantity) PROVE PastInv'
    BY <1>4 DEF UpdateStock, ledgerVars, PastInv, NoLaterRow, PastBase, PastAnswer
  <1> QED
    BY <1>1, <1>2, <1>3, <1>4 DEF SyncNext

\* Rows dated by the server: the stock that getStockAt tells for an instant that
\* is over is what the ledger says of that instant, and stays so, in any ledger,
\* whatever is written between its two queries and afterwards.
THEOREM PastStaysToldAlways ==
    ASSUME ~ Dated
    PROVE  SyncSpec => []PastStaysTold
  <1>1. SyncTypes /\ PastInv /\ [SyncNext]_syncVars => PastInv'
    BY PastInvStep
  <1> QED
    BY <1>1, PastInvInit, PastInvImplies, SyncTypesAlways, PTL DEF SyncSpec

-----------------------------------------------------------------------------
(***************************************************************************)
(* Stocks that are synced with nothing unseen.                              *)
(***************************************************************************)

\* How many rows of a product a ledger has.
SeenIn(rs, p) == Cardinality({k \in DOMAIN rs : rs[k].product = p})

LEMMA SeenIsSeenIn == \A p : Seen(p) = SeenIn(rows, p)
  BY DEF Seen, SeenIn

LEMMA SeenInType ==
    ASSUME NEW rs \in Ledger, NEW p
    PROVE  SeenIn(rs, p) \in Nat
  <1>1. DOMAIN rs = 1 .. Len(rs) /\ Len(rs) \in Nat
    BY DEF Ledger
  <1> DEFINE S == {k \in DOMAIN rs : rs[k].product = p}
  <1>2. S \subseteq 1 .. Len(rs) /\ IsFiniteSet(1 .. Len(rs)) /\ SeenIn(rs, p) = Cardinality(S)
    BY <1>1, FS_Interval DEF SeenIn
  <1> HIDE DEF S
  <1> QED
    BY <1>2, FS_Subset, FS_CardinalityType

\* The rows of a product are counted by how many were seen.
LEMMA SeenGrows ==
    ASSUME NEW rs \in Ledger, NEW qs \in Ledger, Extends(qs, rs), NEW p
    PROVE  /\ SeenIn(rs, p) <= SeenIn(qs, p)
           /\ SeenIn(qs, p) <= SeenIn(rs, p) =>
                \A k \in DOMAIN qs : qs[k].product = p => k \in DOMAIN rs
  <1> DEFINE S == {k \in DOMAIN rs : rs[k].product = p}
             T == {k \in DOMAIN qs : qs[k].product = p}
  <1>1. S \subseteq T
    BY DEF Extends
  <1>2. DOMAIN qs = 1 .. Len(qs) /\ Len(qs) \in Nat
    BY DEF Ledger
  <1>3. IsFiniteSet(T)
    <2>1. T \subseteq 1 .. Len(qs) /\ IsFiniteSet(1 .. Len(qs))
      BY <1>2, FS_Interval
    <2> HIDE DEF T
    <2> QED
      BY <2>1, FS_Subset
  <1>4. SeenIn(rs, p) = Cardinality(S) /\ SeenIn(qs, p) = Cardinality(T)
    BY DEF SeenIn
  <1>5. SeenIn(rs, p) \in Nat /\ SeenIn(qs, p) \in Nat
    BY SeenInType
  <1>6. Cardinality(S) <= Cardinality(T) /\ (Cardinality(S) = Cardinality(T) => S = T)
    <2> HIDE DEF S, T
    <2> QED
      BY <1>1, <1>3, FS_Subset
  <1>7. SeenIn(qs, p) <= SeenIn(rs, p) => S = T
    <2> HIDE DEF S, T
    <2> QED
      BY <1>4, <1>5, <1>6
  <1>8. S = T => \A k \in DOMAIN qs : qs[k].product = p => k \in DOMAIN rs
    OBVIOUS
  <1> QED
    BY <1>4, <1>6, <1>7, <1>8

\* Rows of other products leave the stock of a product alone.
Untouched(qs, rs, p) ==
    /\ Extends(qs, rs)
    /\ \A k \in DOMAIN qs : qs[k].product = p => k \in DOMAIN rs

LEMMA UntouchedIsSettled ==
    ASSUME NEW rs \in Ledger, NEW qs \in Ledger, NEW p, NEW locs, Untouched(qs, rs, p)
    PROVE  \A t \in Time :
              /\ BasesIn(qs, p, locs, t) = BasesIn(rs, p, locs, t)
              /\ BalanceIn(qs, p, locs)[t] = BalanceIn(rs, p, locs)[t]
  <1> DEFINE last == MaxTime
  <1>1. last \in Time /\ \A t \in Time : t \in 0 .. last
    BY LedgerAssumption DEF Time
  <1>2. \A k \in DOMAIN qs \ DOMAIN rs :
           qs[k].product = p /\ qs[k].location \in locs => qs[k].at > last
    BY DEF Untouched
  <1>4. Extends(qs, rs)
    BY DEF Untouched
  <1> HIDE DEF last
  <1>3. ASSUME NEW t \in 0 .. last
        PROVE  /\ BasesIn(qs, p, locs, t) = BasesIn(rs, p, locs, t)
               /\ BalanceIn(qs, p, locs)[t] = BalanceIn(rs, p, locs)[t]
    BY <1>1, <1>2, <1>4, PastIsSettled
  <1> QED
    BY <1>1, <1>3

\* A step of the ledger adds a row of the product, or leaves its stock alone.
LEMMA SeenOrSettled ==
    ASSUME ~ Dated, LedgerTypeOK, Len(rows) <= MaxRows, NoLaterRow, LedgerNext, NEW p
    PROVE  /\ SeenIn(rows, p) <= SeenIn(rows', p)
           /\ SeenIn(rows', p) <= SeenIn(rows, p) =>
                /\ BalanceIn(rows', p, Location)[now'] = BalanceIn(rows, p, Location)[now]
                /\ \A t \in Time : BasesIn(rows', p, Location, t) = BasesIn(rows, p, Location, t)
                /\ \A k \in DOMAIN rows' : rows'[k].product = p =>
                     k \in DOMAIN rows /\ rows'[k] = rows[k]
  <1> DEFINE qs == rows'
             rs == rows
  <1>1. /\ rs \in Ledger /\ qs \in Ledger /\ Extends(qs, rs) /\ now <= now'
        /\ now \in Time /\ now' \in Time /\ (now' = now \/ qs = rs)
    BY LedgerStep DEF LedgerTypeOK, Ledger
  <1>2. \A k \in DOMAIN rs : rs[k].at <= now
    BY DEF NoLaterRow
  <1>3. MaxTime \in Time /\ \A t \in Time : t \in 0 .. MaxTime
    BY LedgerAssumption DEF Time
  <1> HIDE DEF qs, rs
  <1>4. SeenIn(rs, p) <= SeenIn(qs, p)
    BY <1>1, SeenGrows
  <1>5. ASSUME SeenIn(qs, p) <= SeenIn(rs, p)
        PROVE  /\ BalanceIn(qs, p, Location)[now'] = BalanceIn(rs, p, Location)[now]
               /\ \A t \in Time : BasesIn(qs, p, Location, t) = BasesIn(rs, p, Location, t)
               /\ \A k \in DOMAIN qs : qs[k].product = p => k \in DOMAIN rs /\ qs[k] = rs[k]
    <2>1. \A k \in DOMAIN qs : qs[k].product = p => k \in DOMAIN rs
      BY <1>1, <1>5, SeenGrows
    <2>2. \A k \in DOMAIN qs : qs[k].product = p => k \in DOMAIN rs /\ qs[k] = rs[k]
      BY <2>1, <1>1 DEF Extends
    <2>3. \A t \in Time :
            /\ BasesIn(qs, p, Location, t) = BasesIn(rs, p, Location, t)
            /\ BalanceIn(qs, p, Location)[t] = BalanceIn(rs, p, Location)[t]
      <3>1. Untouched(qs, rs, p)
        BY <1>1, <2>1 DEF Untouched
      <3> QED
        BY <1>1, <3>1, UntouchedIsSettled
    <2>4. BalanceIn(qs, p, Location)[now'] = BalanceIn(rs, p, Location)[now]
      <3>1. CASE now' = now
        BY <3>1, <1>1, <1>3, <2>3
      <3>2. CASE qs = rs
        BY <3>2, <1>1, <1>2, QuietTicks
      <3> QED
        BY <1>1, <3>1, <3>2
    <2> QED
      BY <2>2, <2>3, <2>4, <1>3
  <1> QED
    BY <1>4, <1>5 DEF qs, rs

-----------------------------------------------------------------------------
\* The stock under way of a sync that has seen every row of its product is the
\* current one.
SumIsCurrent(s) ==
    LET c == call[s] IN
    c.step = "sum" /\ c.sync =>
        /\ confirmed[c.product] <= c.seen /\ c.seen <= SeenIn(rows, c.product)
        /\ c.seen = SeenIn(rows, c.product) =>
             /\ c.base \in BasesIn(rows, c.product, Location, c.target)
             /\ c.target <= now
             /\ \A k \in DOMAIN rows : rows[k].product = c.product => rows[k].at <= c.target

PushIsCurrent(s) ==
    LET c == call[s] IN
    c.step = "push" =>
        /\ confirmed[c.product] <= c.seen /\ c.seen <= SeenIn(rows, c.product)
        /\ c.seen = SeenIn(rows, c.product) =>
             c.stock \in BalanceIn(rows, c.product, Location)[now]

ConfirmedIsCurrent(p) ==
    /\ confirmed[p] <= SeenIn(rows, p)
    /\ confirmed[p] = SeenIn(rows, p) => axonaut[p] \in BalanceIn(rows, p, Location)[now]

\* Inductive: whatever has seen every row of a product, a stock under way or
\* one that Axonaut confirmed, is the current stock of the product.
CurrentInv ==
    /\ NoLaterRow
    /\ \A s \in Caller : SumIsCurrent(s) /\ PushIsCurrent(s)
    /\ \A p \in Linked : ConfirmedIsCurrent(p)

LEMMA CurrentInvImplies == CurrentInv => SyncedStockIsCurrent
  BY InTheLedger, SeenIsSeenIn DEF CurrentInv, ConfirmedIsCurrent, SyncedStockIsCurrent

LEMMA CurrentInvInit == SyncInit => CurrentInv
  <1> SUFFICES ASSUME SyncInit PROVE CurrentInv
    OBVIOUS
  <1>1. \A p : SeenIn(rows, p) \in Nat
    <2>1. rows \in Ledger
      BY DEF SyncInit, LedgerInit, Ledger
    <2> QED
      BY <2>1, SeenInType
  <1>2. \A p \in Linked : ConfirmedIsCurrent(p)
    BY <1>1 DEF SyncInit, ConfirmedIsCurrent
  <1>3. \A s \in Caller : SumIsCurrent(s) /\ PushIsCurrent(s)
    BY DEF SyncInit, SumIsCurrent, PushIsCurrent, NoCall
  <1>4. NoLaterRow
    BY DEF SyncInit, LedgerInit, NoLaterRow
  <1> QED
    BY <1>2, <1>3, <1>4 DEF CurrentInv

LEMMA LedgerKeepsCurrent ==
    ASSUME ~ Dated, SyncTypes, CurrentInv, LedgerNext,
           UNCHANGED <<call, answer, axonaut, confirmed>>
    PROVE  CurrentInv'
  <1>1. NoLaterRow'
    BY WritesAreNow DEF CurrentInv, SyncTypes
  <1>2. rows \in Ledger /\ rows' \in Ledger
    BY LedgerStep DEF SyncTypes, LedgerTypeOK, Ledger
  <1>3. \A p : SeenIn(rows, p) \in Nat /\ SeenIn(rows', p) \in Nat
    BY <1>2, SeenInType
  <1>4. now \in Nat /\ now' \in Nat /\ now <= now' /\ \A t \in Time : t \in Nat
    BY LedgerStep, LedgerAssumption DEF SyncTypes, LedgerTypeOK, Time
  <1>5. ASSUME NEW s \in Caller PROVE SumIsCurrent(s)'
    <2> DEFINE c == call[s]
    <2>1. SUFFICES ASSUME c.step = "sum", c.sync
                   PROVE  /\ confirmed[c.product] <= c.seen /\ c.seen <= SeenIn(rows', c.product)
                          /\ c.seen = SeenIn(rows', c.product) =>
                               /\ c.base \in BasesIn(rows', c.product, Location, c.target)
                               /\ c.target <= now'
                               /\ \A k \in DOMAIN rows' :
                                    rows'[k].product = c.product => rows'[k].at <= c.target
      BY DEF SumIsCurrent
    <2>2. c \in SumState
      BY <2>1, CallKinds DEF SyncTypes
    <2>3. c.seen \in Nat /\ c.target \in Time
      BY <2>2, LedgerAssumption DEF SumState
    <2>4. /\ confirmed[c.product] <= c.seen /\ c.seen <= SeenIn(rows, c.product)
          /\ c.seen = SeenIn(rows, c.product) =>
               /\ c.base \in BasesIn(rows, c.product, Location, c.target)
               /\ c.target <= now
               /\ \A k \in DOMAIN rows : rows[k].product = c.product => rows[k].at <= c.target
      BY <2>1 DEF CurrentInv, SumIsCurrent
    <2>5. SeenIn(rows, c.product) <= SeenIn(rows', c.product)
      BY SeenOrSettled DEF CurrentInv, SyncTypes
    <2>6. ASSUME c.seen = SeenIn(rows', c.product)
          PROVE  /\ c.base \in BasesIn(rows', c.product, Location, c.target)
                 /\ c.target <= now'
                 /\ \A k \in DOMAIN rows' :
                      rows'[k].product = c.product => rows'[k].at <= c.target
      <3>1. c.seen = SeenIn(rows, c.product) /\ SeenIn(rows', c.product) <= SeenIn(rows, c.product)
        BY <2>3, <2>4, <2>5, <2>6, <1>3
      <3>2. /\ BasesIn(rows', c.product, Location, c.target)
                 = BasesIn(rows, c.product, Location, c.target)
            /\ \A k \in DOMAIN rows' : rows'[k].product = c.product =>
                 k \in DOMAIN rows /\ rows'[k] = rows[k]
        BY <3>1, <2>3, SeenOrSettled DEF CurrentInv, SyncTypes
      <3>3. c.target <= now'
        BY <3>1, <2>3, <2>4, <1>4
      <3> QED
        BY <3>1, <3>2, <3>3, <2>4
    <2>7. c.seen <= SeenIn(rows', c.product)
      BY <2>3, <2>4, <2>5, <1>3
    <2> QED
      BY <2>4, <2>6, <2>7
  <1>6. ASSUME NEW s \in Caller PROVE PushIsCurrent(s)'
    <2> DEFINE c == call[s]
    <2>1. SUFFICES ASSUME c.step = "push"
                   PROVE  /\ confirmed[c.product] <= c.seen /\ c.seen <= SeenIn(rows', c.product)
                          /\ c.seen = SeenIn(rows', c.product) =>
                               c.stock \in BalanceIn(rows', c.product, Location)[now']
      BY DEF PushIsCurrent
    <2>2. c \in PushState
      BY <2>1, CallKinds DEF SyncTypes
    <2>3. c.seen \in Nat
      <3>1. c.seen \in 0 .. MaxRows
        BY <2>2 DEF PushState
      <3> QED
        BY <3>1
    <2>4. /\ confirmed[c.product] <= c.seen /\ c.seen <= SeenIn(rows, c.product)
          /\ c.seen = SeenIn(rows, c.product) =>
               c.stock \in BalanceIn(rows, c.product, Location)[now]
      BY <2>1 DEF CurrentInv, PushIsCurrent
    <2>5. SeenIn(rows, c.product) <= SeenIn(rows', c.product)
      BY SeenOrSettled DEF CurrentInv, SyncTypes
    <2>6. ASSUME c.seen = SeenIn(rows', c.product)
          PROVE  c.stock \in BalanceIn(rows', c.product, Location)[now']
      <3>1. c.seen = SeenIn(rows, c.product) /\ SeenIn(rows', c.product) <= SeenIn(rows, c.product)
        BY <2>3, <2>4, <2>5, <2>6, <1>3
      <3>2. BalanceIn(rows', c.product, Location)[now'] = BalanceIn(rows, c.product, Location)[now]
        BY <3>1, SeenOrSettled DEF CurrentInv, SyncTypes
      <3> QED
        BY <3>1, <3>2, <2>4
    <2>7. c.seen <= SeenIn(rows', c.product)
      BY <2>3, <2>4, <2>5, <1>3
    <2> QED
      BY <2>4, <2>6, <2>7
  <1>7. ASSUME NEW p \in Linked PROVE ConfirmedIsCurrent(p)'
    <2>0. confirmed' = confirmed /\ axonaut' = axonaut
      OBVIOUS
    <2>1. confirmed[p] \in Int
      <3>1. confirmed[p] \in -1 .. MaxRows
        BY DEF SyncTypes
      <3> QED
        BY <3>1, LedgerAssumption
    <2>2. /\ confirmed[p] <= SeenIn(rows, p)
          /\ confirmed[p] = SeenIn(rows, p) => axonaut[p] \in BalanceIn(rows, p, Location)[now]
      BY DEF CurrentInv, ConfirmedIsCurrent
    <2>3. SeenIn(rows, p) <= SeenIn(rows', p)
      BY SeenOrSettled DEF CurrentInv, SyncTypes
    <2>4. ASSUME confirmed[p] = SeenIn(rows', p)
          PROVE  axonaut[p] \in BalanceIn(rows', p, Location)[now']
      <3>1. confirmed[p] = SeenIn(rows, p) /\ SeenIn(rows', p) <= SeenIn(rows, p)
        BY <2>1, <2>2, <2>3, <2>4, <1>3
      <3>2. BalanceIn(rows', p, Location)[now'] = BalanceIn(rows, p, Location)[now]
        BY <3>1, SeenOrSettled DEF CurrentInv, SyncTypes
      <3> QED
        BY <3>1, <3>2, <2>2
    <2>5. confirmed[p] <= SeenIn(rows', p)
      BY <2>1, <2>2, <2>3, <1>3
    <2> QED
      BY <2>0, <2>4, <2>5 DEF ConfirmedIsCurrent
  <1> QED
    BY <1>1, <1>5, <1>6, <1>7 DEF CurrentInv

\* The server serves one request at a time.
OneCaller == \A s, t \in Caller : s = t

\* A first query that sees every row there is finds the inventory to start from.
LEMMA ReadsAreCurrent ==
    ASSUME SyncTypes, CurrentInv, NEW s \in Caller, NEW p, NEW dry, NEW todo,
           ReadBase(s, p, now, TRUE, dry, todo), p \in Linked,
           UNCHANGED <<now, rows, confirmed>>
    PROVE  SumIsCurrent(s)' /\ PushIsCurrent(s)'
  <1>1. PICK base \in Bases(p, Location, now) :
           call' = [call EXCEPT ![s] =
                      [step |-> "sum", product |-> p, target |-> now, base |-> base,
                       asked |-> now, seen |-> Seen(p), sync |-> TRUE, dry |-> dry,
                       todo |-> todo]]
    BY DEF ReadBase, Await
  <1>2. /\ call'[s].step = "sum" /\ call'[s].product = p /\ call'[s].target = now
        /\ call'[s].base = base /\ call'[s].seen = SeenIn(rows, p)
    BY <1>1, SeenIsSeenIn DEF SyncTypes
  <1>3. base \in BasesIn(rows, p, Location, now)
    BY InTheLedger
  <1>4. confirmed[p] <= SeenIn(rows, p)
    BY DEF CurrentInv, ConfirmedIsCurrent
  <1>5. SeenIn(rows, p) \in Nat /\ now \in Nat
    <2>1. rows \in Ledger
      BY DEF SyncTypes, LedgerTypeOK, Ledger
    <2> QED
      BY <2>1, SeenInType, LedgerAssumption DEF SyncTypes, LedgerTypeOK, Time
  <1>6. \A k \in DOMAIN rows : rows[k].at <= now
    BY DEF CurrentInv, NoLaterRow
  <1> QED
    BY <1>2, <1>3, <1>4, <1>5, <1>6 DEF SumIsCurrent, PushIsCurrent

\* A slot that waits for neither a sum nor Axonaut promises nothing.
LEMMA NotReading ==
    ASSUME NEW s, call'[s].step \notin {"sum", "push"}
    PROVE  SumIsCurrent(s)' /\ PushIsCurrent(s)'
  BY DEF SumIsCurrent, PushIsCurrent

LEMMA ContinuesElsewhere ==
    ASSUME SyncTypes, NEW s \in Caller, NEW todo, Continue(s, todo)
    PROVE  call'[s].step \notin {"sum", "push"}
  BY DEF Continue, Await, NoCall, SyncTypes

LEMMA CurrentInvStep ==
    ~ Dated /\ OneCaller /\ SyncTypes /\ CurrentInv /\ [SyncNext]_syncVars => CurrentInv'
  <1> SUFFICES ASSUME ~ Dated, OneCaller, SyncTypes, CurrentInv, [SyncNext]_syncVars
               PROVE  CurrentInv'
    OBVIOUS
  <1>0. /\ \A p : SeenIn(rows, p) \in Nat
        /\ \A p \in Linked : confirmed[p] \in Int
        /\ rows \in Ledger /\ now \in Time
    <2>1. rows \in Ledger /\ now \in Time
      BY DEF SyncTypes, LedgerTypeOK, Ledger
    <2>2. \A p \in Linked : confirmed[p] \in -1 .. MaxRows
      BY DEF SyncTypes
    <2> QED
      BY <2>1, <2>2, SeenInType
  <1>1. CASE LedgerNext /\ UNCHANGED <<call, answer, axonaut, confirmed>>
    BY <1>1, LedgerKeepsCurrent
  <1>2. ASSUME NEW s \in Caller, UNCHANGED <<now, rows, axonaut, confirmed>>,
               SumIsCurrent(s)', PushIsCurrent(s)'
        PROVE  CurrentInv'
    <2>1. \A p \in Linked : ConfirmedIsCurrent(p)'
      BY <1>2 DEF CurrentInv, ConfirmedIsCurrent
    <2>2. \A u \in Caller : SumIsCurrent(u)' /\ PushIsCurrent(u)'
      BY <1>2, Zenon DEF OneCaller
    <2>3. NoLaterRow'
      BY <1>2 DEF CurrentInv, NoLaterRow
    <2> QED
      BY <2>1, <2>2, <2>3 DEF CurrentInv
  <1>3. ASSUME NEW s \in Caller, NEW p \in Product, NEW at \in Asked, GetStockAt(s, p, at)
        PROVE  CurrentInv'
    <2>1. call'[s].step = "sum" /\ call'[s].sync = FALSE
      BY <1>3 DEF GetStockAt, ReadBase, Await, SyncTypes
    <2>2. SumIsCurrent(s)' /\ PushIsCurrent(s)'
      BY <2>1 DEF SumIsCurrent, PushIsCurrent
    <2> QED
      BY <1>2, <1>3, <2>2 DEF GetStockAt, ledgerVars
  <1>4. ASSUME NEW s \in Caller, NEW ids \in Ids, NEW dry \in BOOLEAN, SyncStock(s, ids, dry)
        PROVE  CurrentInv'
    <2>1. call'[s].step \notin {"sum", "push"}
      BY <1>4 DEF SyncStock, Await, SyncTypes
    <2> QED
      BY <1>2, <1>4, <2>1, NotReading DEF SyncStock, ledgerVars
  <1>5. ASSUME NEW s \in Caller, NEW p \in Linked, ReadInventory(s, p)
        PROVE  CurrentInv'
    <2>1. SumIsCurrent(s)' /\ PushIsCurrent(s)'
      BY <1>5, ReadsAreCurrent DEF ReadInventory, ledgerVars
    <2> QED
      BY <1>2, <1>5, <2>1 DEF ReadInventory, ledgerVars
  <1>6. ASSUME NEW s \in Caller, SumMovements(s)
        PROVE  CurrentInv'
    <2> DEFINE c == call[s]
               stock == c.base.qty + SinceBase(c.product, Location, c.base, c.target)
    <2>1. c.step = "sum" /\ c \in SumState
      BY <1>6, CallKinds DEF SumMovements, SyncTypes
    <2>2. SumIsCurrent(s)' /\ PushIsCurrent(s)'
      <3>1. CASE c.sync /\ ~ c.dry
        <4>1. /\ call'[s].step = "push" /\ call'[s].product = c.product
              /\ call'[s].seen = c.seen /\ call'[s].stock = stock
          BY <1>6, <3>1 DEF SumMovements, Await, SyncTypes
        <4>2. ASSUME c.seen = SeenIn(rows, c.product)
              PROVE  stock \in BalanceIn(rows, c.product, Location)[now]
          <5>1. /\ c.base \in BasesIn(rows, c.product, Location, c.target)
                /\ c.target <= now
                /\ \A k \in DOMAIN rows : rows[k].product = c.product => rows[k].at <= c.target
            BY <2>1, <3>1, <4>2 DEF CurrentInv, SumIsCurrent
          <5>2. c.target \in Time
            BY <2>1 DEF SumState
          <5>3. stock = c.base.qty
                          + TotalIn(rows, Since(rows, c.product, Location, c.base, c.target))
            BY InTheLedger
          <5> HIDE DEF stock, c
          <5>4. stock \in BalanceIn(rows, c.product, Location)[c.target]
            BY <1>0, <5>1, <5>2, <5>3, TwoQueriesTellTheStory
          <5>5. BalanceIn(rows, c.product, Location)[now]
                  = BalanceIn(rows, c.product, Location)[c.target]
            BY <1>0, <5>1, <5>2, QuietTicks
          <5> QED
            BY <5>4, <5>5
        <4>3. confirmed[c.product] <= c.seen /\ c.seen <= SeenIn(rows, c.product)
          BY <2>1, <3>1 DEF CurrentInv, SumIsCurrent
        <4>4. UNCHANGED <<now, rows, confirmed>>
          BY <1>6 DEF SumMovements, ledgerVars
        <4> HIDE DEF stock
        <4> QED
          BY <4>1, <4>2, <4>3, <4>4 DEF SumIsCurrent, PushIsCurrent
      <3>2. CASE c.sync /\ c.dry
        BY <1>6, <3>2, ContinuesElsewhere, NotReading DEF SumMovements
      <3>3. CASE ~ c.sync
        <4>1. call'[s].step \notin {"sum", "push"}
          BY <1>6, <3>3 DEF SumMovements, Await, NoCall, SyncTypes
        <4> QED
          BY <4>1, NotReading
      <3> QED
        BY <2>1, <3>1, <3>2, <3>3 DEF SumState
    <2> QED
      BY <1>2, <1>6, <2>2 DEF SumMovements, ledgerVars
  <1>7. ASSUME NEW s \in Caller, call[s].step = "push", Continue(s, call[s].todo),
               UNCHANGED <<now, rows>>, axonaut' \in [Linked -> Int],
               \A p \in Linked : p # call[s].product =>
                  axonaut'[p] = axonaut[p] /\ confirmed'[p] = confirmed[p],
               \/ /\ axonaut'[call[s].product] = call[s].stock
                  /\ confirmed'[call[s].product] \in {call[s].seen, confirmed[call[s].product]}
               \/ /\ axonaut'[call[s].product] = axonaut[call[s].product]
                  /\ confirmed'[call[s].product] = confirmed[call[s].product]
        PROVE  CurrentInv'
    <2> DEFINE c == call[s]
    <2>1. c \in PushState
      BY <1>7, CallKinds DEF SyncTypes
    <2>2. c.product \in Linked /\ c.seen \in 0 .. MaxRows
      BY <2>1 DEF PushState
    <2>3. /\ confirmed[c.product] <= c.seen /\ c.seen <= SeenIn(rows, c.product)
          /\ c.seen = SeenIn(rows, c.product) =>
               c.stock \in BalanceIn(rows, c.product, Location)[now]
      BY <1>7 DEF CurrentInv, PushIsCurrent
    <2>4. ASSUME NEW p \in Linked PROVE ConfirmedIsCurrent(p)'
      <3>1. CASE p = c.product
        <4>1. /\ confirmed[p] <= SeenIn(rows, p)
              /\ confirmed[p] = SeenIn(rows, p) => axonaut[p] \in BalanceIn(rows, p, Location)[now]
          BY DEF CurrentInv, ConfirmedIsCurrent
        <4>2. SeenIn(rows, p) \in Nat /\ confirmed[p] \in Int /\ c.seen \in Int
          BY <1>0, <2>2
        <4> HIDE DEF c
        <4>3. /\ confirmed'[p] <= SeenIn(rows, p)
              /\ confirmed'[p] = SeenIn(rows, p) =>
                   axonaut'[p] \in BalanceIn(rows, p, Location)[now]
          BY <1>7, <2>3, <3>1, <4>1, <4>2 DEF c
        <4> QED
          BY <1>7, <4>3 DEF ConfirmedIsCurrent
      <3>2. CASE p # c.product
        BY <1>7, <3>2 DEF ConfirmedIsCurrent, CurrentInv
      <3> QED
        BY <3>1, <3>2
    <2>5. SumIsCurrent(s)' /\ PushIsCurrent(s)'
      BY <1>7, ContinuesElsewhere, NotReading
    <2>6. \A u \in Caller : SumIsCurrent(u)' /\ PushIsCurrent(u)'
      BY <2>5, Zenon DEF OneCaller
    <2>7. NoLaterRow'
      BY <1>7 DEF CurrentInv, NoLaterRow
    <2> QED
      BY <2>4, <2>6, <2>7 DEF CurrentInv
  <1>8. ASSUME NEW s \in Caller, Push(s) \/ PushFails(s)
        PROVE  CurrentInv'
    <2> DEFINE c == call[s]
    <2>1. c.step = "push" /\ Continue(s, c.todo) /\ UNCHANGED <<now, rows>>
      BY <1>8 DEF Push, PushFails, ledgerVars
    <2>2. c.product \in Linked /\ c.stock \in Int /\ c.seen \in 0 .. MaxRows
      <3>1. c \in PushState
        BY <2>1, CallKinds DEF SyncTypes
      <3> QED
        BY <3>1 DEF PushState
    <2>3. confirmed[c.product] \in Int
      BY <1>0, <2>2
    <2>4. axonaut' \in [Linked -> Int]
      BY <1>8, <2>2 DEF Push, PushFails, SyncTypes
    <2>5. /\ \A p \in Linked : p # c.product => axonaut'[p] = axonaut[p] /\ confirmed'[p] = confirmed[p]
          /\ \/ /\ axonaut'[c.product] = c.stock
                /\ confirmed'[c.product] \in {c.seen, confirmed[c.product]}
             \/ /\ axonaut'[c.product] = axonaut[c.product]
                /\ confirmed'[c.product] = confirmed[c.product]
      <3>1. CASE Push(s)
        BY <3>1, <2>2 DEF Push, Latter, SyncTypes
      <3>2. CASE PushFails(s)
        BY <3>2, <2>2 DEF PushFails, SyncTypes
      <3> QED
        BY <1>8, <3>1, <3>2
    <2> QED
      BY <1>7, <2>1, <2>4, <2>5
  <1>9. ASSUME NEW s \in Caller, Hangup(s)
        PROVE  CurrentInv'
    <2>1. call'[s].step \notin {"sum", "push"}
      BY <1>9 DEF Hangup, Await, NoCall, SyncTypes
    <2> QED
      BY <1>2, <1>9, <2>1, NotReading DEF Hangup, ledgerVars
  <1>10. ASSUME NEW p \in Linked, NEW quantity \in Count, UpdateStock(p, quantity)
         PROVE  CurrentInv'
    <2>1. /\ UNCHANGED <<now, rows, call>>
          /\ confirmed'[p] = -1
          /\ \A q \in Linked : confirmed'[q] \in {confirmed[q], -1}
          /\ \A q \in Linked : q # p => axonaut'[q] = axonaut[q] /\ confirmed'[q] = confirmed[q]
      BY <1>10 DEF UpdateStock, ledgerVars, SyncTypes
    <2>2. ASSUME NEW q \in Linked PROVE ConfirmedIsCurrent(q)'
      <3>1. CASE q = p
        BY <1>0, <2>1, <3>1 DEF ConfirmedIsCurrent
      <3>2. CASE q # p
        BY <2>1, <3>2 DEF ConfirmedIsCurrent, CurrentInv
      <3> QED
        BY <3>1, <3>2
    <2>3. ASSUME NEW s \in Caller PROVE SumIsCurrent(s)'
      <3> DEFINE c == call[s]
      <3>1. SUFFICES ASSUME c.step = "sum", c.sync PROVE confirmed'[c.product] <= c.seen
        BY <2>1 DEF SumIsCurrent, CurrentInv
      <3>2. c.product \in Linked /\ c.seen \in 0 .. MaxRows /\ confirmed[c.product] <= c.seen
        <4>1. c \in SumState
          BY <3>1, CallKinds DEF SyncTypes
        <4>2. confirmed[c.product] <= c.seen
          BY <3>1 DEF CurrentInv, SumIsCurrent
        <4> QED
          BY <3>1, <4>1, <4>2 DEF SumState
      <3> QED
        BY <3>2, <2>1
    <2>4. ASSUME NEW s \in Caller PROVE PushIsCurrent(s)'
      <3> DEFINE c == call[s]
      <3>1. SUFFICES ASSUME c.step = "push" PROVE confirmed'[c.product] <= c.seen
        BY <2>1 DEF PushIsCurrent, CurrentInv
      <3>2. c.product \in Linked /\ c.seen \in 0 .. MaxRows /\ confirmed[c.product] <= c.seen
        <4>1. c \in PushState
          BY <3>1, CallKinds DEF SyncTypes
        <4>2. confirmed[c.product] <= c.seen
          BY <3>1 DEF CurrentInv, PushIsCurrent
        <4> QED
          BY <4>1, <4>2 DEF PushState
      <3> QED
        BY <3>2, <2>1
    <2>5. NoLaterRow'
      BY <2>1 DEF CurrentInv, NoLaterRow
    <2> QED
      BY <2>2, <2>3, <2>4, <2>5 DEF CurrentInv
  <1>11. CASE UNCHANGED syncVars
    BY <1>11 DEF syncVars, CurrentInv, NoLaterRow, SumIsCurrent, PushIsCurrent, ConfirmedIsCurrent
  <1> QED
    BY <1>1, <1>3, <1>4, <1>5, <1>6, <1>8, <1>9, <1>10, <1>11 DEF SyncNext, ServeCaller

\* Rows dated by the server, one request at a time: when syncStock has seen every
\* row of a product and Axonaut accepted, Axonaut has the stock that the ledger
\* says, whatever else was written, refused, lost or overwritten by hand.
THEOREM SyncedStockIsCurrentAlways ==
    ASSUME ~ Dated, OneCaller
    PROVE  SyncSpec => []SyncedStockIsCurrent
  <1>1. SyncTypes /\ CurrentInv /\ [SyncNext]_syncVars => CurrentInv'
    BY CurrentInvStep
  <1> QED
    BY <1>1, CurrentInvInit, CurrentInvImplies, SyncTypesAlways, PTL DEF SyncSpec

-----------------------------------------------------------------------------
(***************************************************************************)
(* Days, and the values of a day.                                           *)
(***************************************************************************)

\* Days are quotients.
LEMMA Quotient ==
    ASSUME NEW t \in Nat, NEW d \in Nat \ {0}
    PROVE  /\ t \div d \in Nat
           /\ (t \div d) * d <= t
           /\ t < ((t \div d) + 1) * d
  OBVIOUS
LEMMA Times ==
    ASSUME NEW a \in Nat, NEW b \in Nat, NEW d \in Nat \ {0}, a <= b
    PROVE  a * d <= b * d
  OBVIOUS
LEMMA QuotientGrows ==
    ASSUME NEW t \in Nat, NEW u \in Nat, t <= u, NEW d \in Nat \ {0}
    PROVE  t \div d <= u \div d
  <1> DEFINE a == t \div d
             b == u \div d
  <1>1. /\ a \in Nat /\ b \in Nat /\ a * d <= t /\ u < (b + 1) * d
    BY Quotient
  <1> HIDE DEF a, b
  <1>2. ASSUME b + 1 <= a PROVE FALSE
    <2>1. (b + 1) * d <= a * d
      BY <1>1, <1>2, Times
    <2>2. (b + 1) * d \in Int /\ a * d \in Int
      BY <1>1
    <2> QED
      BY <1>1, <2>1, <2>2
  <1>3. a <= b
    BY <1>1, <1>2
  <1> QED
    BY <1>3 DEF a, b

\* Days follow each other, and a day before the present one is over.
LEMMA DaysGrow ==
    /\ \A t \in Time : Day(t) \in Days /\ Day(t) \in Nat
    /\ \A t \in Time, u \in Time : t <= u => Day(t) <= Day(u)
    /\ \A t \in Time, day \in Nat : day < Day(t) => EndOf(day) \in Time /\ EndOf(day) < t
  <1>1. DayLength \in Nat \ {0} /\ MaxTime \in Nat /\ MaxTime \in Time
        /\ \A t \in Time : t \in Nat /\ t <= MaxTime
    BY ValuationAssumption, LedgerAssumption DEF Time
  <1>2. \A t \in Time : Day(t) \in Nat
    BY <1>1, Quotient DEF Day
  <1>3. \A t \in Time, u \in Time : t <= u => Day(t) <= Day(u)
    BY <1>1, QuotientGrows DEF Day
  <1>4. ASSUME NEW t \in Time, NEW day \in Nat, day < Day(t)
        PROVE  EndOf(day) \in Time /\ EndOf(day) < t
    <2>1. (t \div DayLength) * DayLength <= t /\ day + 1 <= t \div DayLength
          /\ t \div DayLength \in Nat
      BY <1>1, <1>2, <1>4, Quotient DEF Day
    <2>2. (day + 1) * DayLength <= (t \div DayLength) * DayLength
      BY <1>1, <2>1, Times
    <2>3. (day + 1) * DayLength \in Nat /\ (day + 1) * DayLength >= 1
          /\ (t \div DayLength) * DayLength \in Nat
      <3>1. 1 * DayLength <= (day + 1) * DayLength
        BY <1>1, Times
      <3> QED
        BY <1>1, <2>1, <3>1
    <2>4. (day + 1) * DayLength - 1 \in Nat /\ (day + 1) * DayLength - 1 < t
      <3> DEFINE x == (day + 1) * DayLength
                 y == (t \div DayLength) * DayLength
      <3>1. x \in Nat /\ x >= 1 /\ y \in Nat /\ x <= y /\ y <= t /\ t \in Nat
        BY <1>1, <2>1, <2>2, <2>3
      <3> HIDE DEF x, y
      <3>2. x - 1 \in Nat /\ x - 1 < t
        BY <3>1
      <3> QED
        BY <3>2 DEF x
    <2> QED
      BY <1>1, <2>4 DEF EndOf, Time
  <1>5. \A t \in Time : Day(t) \in 0 .. Day(MaxTime)
    BY <1>1, <1>2, <1>3
  <1> QED
    BY <1>2, <1>3, <1>4, <1>5 DEF Days

\* The next day to value is one of those with a missing value.
LEMMA FirstDayIn ==
    ASSUME NEW missing \in SUBSET (Days \X Scope), missing # {}
    PROVE  /\ FirstDay(missing) \in Days
           /\ \E key \in missing : key[1] = FirstDay(missing)
  <1> DEFINE days == {key[1] : key \in missing}
             Less == OpToRel(<, Nat)
  <1>1. days \subseteq Days /\ days \subseteq Nat /\ days # {}
    <2>1. days \subseteq Days /\ days # {}
      OBVIOUS
    <2>2. \A day \in Days : day \in Nat
      BY DEF Days
    <2> HIDE DEF days
    <2> QED
      BY <2>1, <2>2
  <1>2. IsWellFoundedOn(Less, Nat)
    BY NatLessThanWellFounded
  <1>3. PICK day \in days : \A k \in days : ~ (<<k, day>> \in Less)
    <2> HIDE DEF Less, days
    <2> QED
      BY <1>1, <1>2, WFMin
  <1>4. \A k \in days : day <= k
    <2> SUFFICES ASSUME NEW k \in days PROVE day <= k
      OBVIOUS
    <2> HIDE DEF days
    <2>1. k \in Nat /\ day \in Nat
      BY <1>1, <1>3
    <2>2. ~ (<<k, day>> \in Less)
      BY <1>3
    <2>3. ASSUME k < day PROVE FALSE
      <3>1. <<k, day>> \in Less
        BY <2>1, <2>3 DEF OpToRel
      <3> QED
        BY <2>2, <3>1
    <2> QED
      BY <2>1, <2>3
  <1>5. \A key \in missing : day <= key[1]
    BY <1>4
  <1>6. FirstDay(missing) \in days
    <2> DEFINE Ok(x) == \A key \in missing : x <= key[1]
    <2>1. Ok(day)
      BY <1>5
    <2>2. FirstDay(missing) = CHOOSE x \in days : Ok(x)
      BY DEF FirstDay
    <2> HIDE DEF Ok, days
    <2> QED
      BY <1>3, <2>1, <2>2
  <1> QED
    BY <1>1, <1>6

\* The steps in which a request has values to compute.
Busy == {"inventories", "movements", "persist"}

\* What a slot may wait for, with these locations and at this instant.
RunTyped(r, locs, t) ==
    \/ r = Idle
    \/ /\ r.step \in {"prices", "cached"} \cup Busy
       /\ r.locs \in SUBSET locs
       /\ r.today \in Nat /\ r.today <= Day(t)
       /\ r.step # "prices" => r.prices \in [Product -> Price]
       /\ r.step \in Busy => r.missing \in SUBSET (Days \X ScopeKeys(r.locs)) /\ r.missing # {}
       /\ r.step \in {"movements", "persist"} => r.closed \in BOOLEAN
       /\ r.step = "movements" => r.last \in [Location \X Product -> [qty : Int, at : Int]]
       /\ r.step = "persist" => r.value \in [Scope -> Int]

\* Inductive: the type invariant, and what a request under way is made of.
ValuationTypes ==
    /\ LedgerTypeOK /\ Len(rows) <= MaxRows
    /\ price \in [Product -> Price]
    /\ locations \in SUBSET Location
    /\ DOMAIN stored \subseteq Days \X Scope
    /\ \A key \in DOMAIN stored : stored[key] \in Valuation
    /\ run = [s \in Slot |-> run[s]]
    /\ \A s \in Slot : RunTyped(run[s], locations, now)

LEMMA ValuationTypesImply == ValuationTypes => TypeOK
  <1> SUFFICES ASSUME ValuationTypes PROVE TypeOK
    OBVIOUS
  <1>1. ASSUME NEW s \in Slot, run[s] # Idle
        PROVE  /\ run[s].step \in {"prices", "cached", "inventories", "movements", "persist"}
               /\ run[s].locs \subseteq locations
               /\ run[s].today <= Day(now)
               /\ run[s].step \in {"inventories", "movements", "persist"} =>
                    run[s].missing \subseteq Days \X ScopeKeys(run[s].locs)
                    /\ run[s].missing # {}
    BY <1>1 DEF ValuationTypes, RunTyped, Busy
  <1> QED
    BY <1>1 DEF ValuationTypes, TypeOK

LEMMA ValuationTypesInit == Init => ValuationTypes
  <1> SUFFICES ASSUME Init PROVE ValuationTypes
    OBVIOUS
  <1>1. LedgerTypeOK /\ Len(rows) <= MaxRows
    BY LedgerAssumption DEF Init, LedgerInit, LedgerTypeOK, Time
  <1> QED
    BY <1>1, ValuationAssumption DEF Init, ValuationTypes, RunTyped

\* A step of a slot that stores nothing.
LEMMA BecomesTyped ==
    ASSUME ValuationTypes, NEW s \in Slot, NEW state, Become(s, state),
           RunTyped(state, locations, now), UNCHANGED <<now, rows, price, locations>>,
           DOMAIN stored' \subseteq Days \X Scope,
           \A key \in DOMAIN stored' : stored'[key] \in Valuation
    PROVE  ValuationTypes'
  <1>1. run' = [t \in Slot |-> IF t = s THEN state ELSE run[t]]
    BY DEF ValuationTypes, Become
  <1>2. run' = [t \in Slot |-> run'[t]]
    BY <1>1
  <1>3. \A t \in Slot : RunTyped(run'[t], locations, now)
    BY <1>1 DEF ValuationTypes
  <1>4. \A t \in Slot : RunTyped(run[t], locations, now)'
    BY <1>3
  <1>5. LedgerTypeOK' /\ (Len(rows) <= MaxRows)'
    BY DEF ValuationTypes, LedgerTypeOK
  <1>6. price' = price /\ locations' = locations
    OBVIOUS
  <1>7. (DOMAIN stored \subseteq Days \X Scope)' /\ (\A key \in DOMAIN stored : stored[key] \in Valuation)'
    BY DEF Days, Day, Scope, Valuation, All
  <1> QED
    BY <1>2, <1>4, <1>5, <1>6, <1>7 DEF ValuationTypes

\* Time goes on, and locations are added.
LEMMA StaysTyped ==
    ASSUME NEW r, NEW locs, NEW more, locs \subseteq more, NEW t \in Time, NEW u \in Time, t <= u,
           RunTyped(r, locs, t)
    PROVE  RunTyped(r, more, u)
  <1>1. Day(t) \in Nat /\ Day(u) \in Nat /\ Day(t) <= Day(u)
    BY DaysGrow
  <1>2. r.today \in Nat /\ r.today <= Day(t) => r.today <= Day(u)
    BY <1>1
  <1> QED
    BY <1>2 DEF RunTyped

LEMMA SumFunctionIsInt ==
    ASSUME NEW D, IsFiniteSet(D), NEW f \in [D -> Int]
    PROVE  SumFunction(f) \in Int
  <1>1. SumFunctionOnSet(f, D) \in Int
    BY SumType
  <1> QED
    BY <1>1 DEF SumFunction

LEMMA NextDayTyped ==
    ASSUME NEW r, RunTyped(r, locations, now), r # Idle, r.step # "prices", NEW missing,
           missing \in SUBSET (Days \X ScopeKeys(r.locs))
    PROVE  RunTyped(IF missing = {} THEN Idle
                    ELSE [step |-> "inventories", locs |-> r.locs, prices |-> r.prices,
                          today |-> r.today, missing |-> missing], locations, now)
  BY DEF RunTyped, Busy

\* What the second query of a valuation makes of the first is worth integers.
LEMMA WorthTyped ==
    ASSUME ValuationTypes, NEW r, RunTyped(r, locations, now), r # Idle, r.step = "movements",
           NEW l \in Location
    PROVE  /\ \A p \in Product : r.prices[p] \in Int
           /\ SumFunction([p \in Product |->
                (r.last[<<l, p>>].qty + SinceBase(p, {l}, r.last[<<l, p>>], r.cutoff))
                  * r.prices[p]]) \in Int
  <1> DEFINE held(p) == r.last[<<l, p>>].qty + SinceBase(p, {l}, r.last[<<l, p>>], r.cutoff)
  <1>1. /\ r.last \in [Location \X Product -> [qty : Int, at : Int]]
        /\ r.prices \in [Product -> Price]
    BY DEF RunTyped
  <1>2. \A p \in Product : r.prices[p] \in Int
    <2>1. \A p \in Product : r.prices[p] \in Price
      BY <1>1
    <2>2. \A cents \in Price : cents \in Int
      BY ValuationAssumption
    <2> QED
      BY <2>1, <2>2
  <1>3. ASSUME NEW p \in Product PROVE held(p) * r.prices[p] \in Int
    <2>1. SinceBase(p, {l}, r.last[<<l, p>>], r.cutoff) \in Int
      BY SinceIsInt DEF ValuationTypes
    <2>2. r.last[<<l, p>>] \in [qty : Int, at : Int]
      BY <1>1
    <2>3. r.last[<<l, p>>].qty \in Int
      BY <2>2
    <2>4. held(p) \in Int
      BY <2>1, <2>3
    <2> HIDE DEF held
    <2> QED
      BY <1>2, <2>4
  <1>4. [p \in Product |-> held(p) * r.prices[p]] \in [Product -> Int]
    BY <1>3
  <1> HIDE DEF held
  <1>5. SumFunction([p \in Product |-> held(p) * r.prices[p]]) \in Int
    BY <1>4, SumFunctionIsInt, ValuationAssumption
  <1> QED
    BY <1>2, <1>5 DEF held

LEMMA ReadsTyped ==
    ASSUME ValuationTypes, NEW s \in Slot,
           \/ \E days \in Window : GetDaily(s, days)
           \/ BuildPriceMap(s) \/ LoadCached(s) \/ ReadInventories(s) \/ ReadMovements(s)
           \/ Abort(s)
    PROVE  ValuationTypes'
  <1> DEFINE r == run[s]
  <1>1. RunTyped(r, locations, now) /\ Idle.step = "idle" /\ now \in Time
    BY DEF ValuationTypes, Idle, LedgerTypeOK
  <1>2. DOMAIN stored \subseteq Days \X Scope /\ \A key \in DOMAIN stored : stored[key] \in Valuation
    BY DEF ValuationTypes
  <1>3. ASSUME NEW days \in Window, GetDaily(s, days) PROVE ValuationTypes'
    <2> DEFINE state == [step |-> "prices", today |-> Day(now), days |-> days, locs |-> locations]
    <2>1. RunTyped(state, locations, now)
      BY <1>1, DaysGrow DEF RunTyped, Busy
    <2>2. Become(s, state) /\ UNCHANGED <<now, rows, price, locations, stored>>
      BY <1>3 DEF GetDaily, ledgerVars
    <2> HIDE DEF state
    <2> QED
      BY <1>2, <2>1, <2>2, BecomesTyped
  <1>4. CASE BuildPriceMap(s)
    <2> DEFINE state == [step |-> "cached", today |-> r.today, days |-> r.days, locs |-> r.locs,
                         prices |-> price]
    <2>1. r.step = "prices"
      BY <1>4 DEF BuildPriceMap
    <2>2. RunTyped(state, locations, now)
      BY <1>1, <2>1 DEF RunTyped, Busy, ValuationTypes
    <2>3. Become(s, state) /\ UNCHANGED <<now, rows, price, locations, stored>>
      BY <1>4 DEF BuildPriceMap, ledgerVars
    <2> HIDE DEF state
    <2> QED
      BY <1>2, <2>2, <2>3, BecomesTyped
  <1>5. CASE LoadCached(s)
    <2> DEFINE asked == {day \in Days : r.today - r.days < day /\ day <= r.today}
               missing == (asked \X ScopeKeys(r.locs)) \ DOMAIN stored
               state == IF missing = {} THEN Idle
                        ELSE [step |-> "inventories", locs |-> r.locs, prices |-> r.prices,
                              today |-> r.today, missing |-> missing]
    <2>1. r.step = "cached" /\ Become(s, state) /\ UNCHANGED <<now, rows, price, locations, stored>>
      BY <1>5 DEF LoadCached, NextDay, ledgerVars
    <2>2. missing \in SUBSET (Days \X ScopeKeys(r.locs))
      OBVIOUS
    <2> HIDE DEF missing
    <2>3. RunTyped(state, locations, now)
      <3>1. r # Idle
        BY <1>1, <2>1
      <3> QED
        BY <1>1, <2>1, <2>2, <3>1, NextDayTyped
    <2> HIDE DEF state
    <2> QED
      BY <1>2, <2>1, <2>3, BecomesTyped
  <1>6. CASE ReadInventories(s)
    <2> DEFINE day    == FirstDay(r.missing)
               cutoff == Cutoff(day, r.today)
               closed == day < Day(now)
               state(last) == [step |-> "movements", locs |-> r.locs, prices |-> r.prices,
                               today |-> r.today, missing |-> r.missing, day |-> day,
                               cutoff |-> cutoff, last |-> last, closed |-> closed]
    <2>1. PICK last \in LastInventories(cutoff) : Become(s, state(last))
      BY <1>6 DEF ReadInventories
    <2>2. last \in [Location \X Product -> [qty : Int, at : Int]]
      <3>1. \A l \in Location, p \in Product : last[<<l, p>>] \in [qty : Int, at : Int]
        <4> SUFFICES ASSUME NEW l \in Location, NEW p \in Product
                     PROVE  last[<<l, p>>] \in [qty : Int, at : Int]
          OBVIOUS
        <4>1. last[<<l, p>>] \in Bases(p, {l}, cutoff)
          BY DEF LastInventories
        <4> QED
          BY <4>1, BasesType DEF ValuationTypes
      <3>2. last = [x \in Location \X Product |-> last[x]]
        BY DEF LastInventories
      <3> QED
        BY <3>1, <3>2
    <2>3. r.step = "inventories" /\ UNCHANGED <<now, rows, price, locations, stored>>
      BY <1>6 DEF ReadInventories, ledgerVars
    <2>4. closed \in BOOLEAN
      OBVIOUS
    <2>5. RunTyped(state(last), locations, now)
      <3> HIDE DEF day, cutoff, closed
      <3> QED
        BY <1>1, <2>2, <2>3, <2>4 DEF RunTyped, Busy
    <2> HIDE DEF state
    <2> QED
      BY <1>2, <2>1, <2>3, <2>5, BecomesTyped
  <1>7. CASE ReadMovements(s)
    <2> DEFINE held(l, p) == r.last[<<l, p>>].qty + SinceBase(p, {l}, r.last[<<l, p>>], r.cutoff)
               worthOf(l) == [p \in Product |-> held(l, p) * r.prices[p]]
               worth == [l \in Location |-> SumFunction(worthOf(l))]
               value == [scope \in Scope |-> IF scope = All THEN SumFunction(worth)
                                             ELSE worth[scope]]
               state == [step |-> "persist", locs |-> r.locs, prices |-> r.prices,
                         today |-> r.today, missing |-> r.missing, day |-> r.day,
                         closed |-> r.closed, value |-> value]
    <2>1. /\ r.step = "movements" /\ Become(s, state)
          /\ UNCHANGED <<now, rows, price, locations, stored>>
      BY <1>7 DEF ReadMovements, ledgerVars
    <2>2. r # Idle
      BY <1>1, <2>1
    <2>3. \A l \in Location : SumFunction(worthOf(l)) \in Int
      BY <1>1, <2>1, <2>2, WorthTyped
    <2> HIDE DEF worthOf
    <2>4. worth \in [Location -> Int]
      BY <2>3
    <2> HIDE DEF worth
    <2>5. SumFunction(worth) \in Int
      BY <2>4, SumFunctionIsInt, ValuationAssumption
    <2>6. value \in [Scope -> Int]
      BY <2>4, <2>5 DEF Scope
    <2> HIDE DEF value
    <2>7. RunTyped(state, locations, now)
      BY <1>1, <2>1, <2>6 DEF RunTyped, Busy
    <2> HIDE DEF state
    <2> QED
      BY <1>2, <2>1, <2>7, BecomesTyped
  <1>8. CASE Abort(s)
    <2>1. RunTyped(Idle, locations, now) /\ Become(s, Idle)
          /\ UNCHANGED <<now, rows, price, locations, stored>>
      BY <1>8 DEF RunTyped, Abort, ledgerVars
    <2> QED
      BY <1>2, <2>1, BecomesTyped
  <1> QED
    BY <1>3, <1>4, <1>5, <1>6, <1>7, <1>8

LEMMA PersistTyped ==
    ASSUME ValuationTypes, NEW s \in Slot, Persist(s)
    PROVE  ValuationTypes'
  <1> DEFINE r    == run[s]
             keys == {key \in r.missing : key[1] = r.day}
             missing == r.missing \ keys
             state == IF missing = {} THEN Idle
                      ELSE [step |-> "inventories", locs |-> r.locs, prices |-> r.prices,
                            today |-> r.today, missing |-> missing]
  <1>1. /\ r.step = "persist" /\ Upsert(s, keys) /\ Become(s, state)
        /\ UNCHANGED <<now, rows, price, locations>>
    BY DEF Persist, NextDay, ledgerVars
  <1>2. RunTyped(r, locations, now) /\ r # Idle
    BY <1>1 DEF ValuationTypes, Idle
  <1>3. /\ r.missing \in SUBSET (Days \X ScopeKeys(r.locs)) /\ r.locs \subseteq Location
        /\ r.value \in [Scope -> Int] /\ r.closed \in BOOLEAN /\ r.prices \in [Product -> Price]
    BY <1>1, <1>2 DEF RunTyped, Busy, ValuationTypes
  <1>4. missing \in SUBSET (Days \X ScopeKeys(r.locs)) /\ keys \subseteq Days \X Scope
    BY <1>3 DEF ScopeKeys, Scope
  <1> HIDE DEF missing
  <1>5. RunTyped(state, locations, now)
    BY <1>1, <1>2, <1>4, NextDayTyped
  <1> HIDE DEF state, keys
  <1>6. DOMAIN stored' = keys \cup DOMAIN stored
    BY <1>1 DEF Upsert
  <1>7. ASSUME NEW key \in DOMAIN stored' PROVE stored'[key] \in Valuation
    <2>1. CASE key \in keys
      <3>1. stored'[key] = [value |-> r.value[key[2]], closed |-> r.closed, prices |-> r.prices,
                            alone |-> Alone(s)]
        BY <1>1, <2>1 DEF Upsert
      <3>2. key[2] \in Scope
        BY <1>4, <2>1
      <3>3. Alone(s) \in BOOLEAN
        BY DEF Alone
      <3> QED
        BY <1>3, <3>1, <3>2, <3>3 DEF Valuation
    <2>2. CASE key \notin keys
      BY <1>1, <1>6, <1>7, <2>2 DEF Upsert, ValuationTypes
    <2> QED
      BY <2>1, <2>2
  <1>8. DOMAIN stored' \subseteq Days \X Scope
    BY <1>4, <1>6 DEF ValuationTypes
  <1> QED
    BY <1>1, <1>5, <1>7, <1>8, BecomesTyped

LEMMA ValuationTypesStep == ValuationTypes /\ [Next]_vars => ValuationTypes'
  <1> SUFFICES ASSUME ValuationTypes, [Next]_vars PROVE ValuationTypes'
    OBVIOUS
  <1>1. ASSUME UNCHANGED <<stored, run>>, locations \subseteq locations',
               locations' \in SUBSET Location, price' \in [Product -> Price],
               LedgerTypeOK', Len(rows') <= MaxRows, now <= now'
        PROVE  ValuationTypes'
    <2>1. now \in Time /\ now' \in Time
      BY <1>1 DEF ValuationTypes, LedgerTypeOK
    <2>2. \A s \in Slot : RunTyped(run[s], locations', now')
      BY <1>1, <2>1, StaysTyped DEF ValuationTypes
    <2>3. \A s \in Slot : RunTyped(run[s], locations, now)'
      BY <1>1, <2>2
    <2>4. (DOMAIN stored \subseteq Days \X Scope)'
          /\ (\A key \in DOMAIN stored : stored[key] \in Valuation)'
      BY <1>1 DEF ValuationTypes, Days, Day, Scope, Valuation, All
    <2>5. run' = [s \in Slot |-> run'[s]]
      BY <1>1 DEF ValuationTypes
    <2> QED
      BY <1>1, <2>3, <2>4, <2>5 DEF ValuationTypes
  <1>2. LedgerTypeOK /\ Len(rows) <= MaxRows /\ now \in Nat
        /\ price \in [Product -> Price] /\ locations \in SUBSET Location
    BY LedgerAssumption DEF ValuationTypes, LedgerTypeOK, Time
  <1>3. CASE Write /\ UNCHANGED <<price, locations, stored, run>>
    <2>1. LedgerTypeOK' /\ Len(rows') <= MaxRows /\ now <= now'
      BY <1>2, <1>3, LedgerStep DEF Write
    <2> QED
      BY <1>1, <1>2, <1>3, <2>1
  <1>4. ASSUME NEW s \in Slot, Serve(s) PROVE ValuationTypes'
    BY <1>4, ReadsTyped, PersistTyped DEF Serve
  <1>5. ASSUME UNCHANGED <<now, rows>>
        PROVE LedgerTypeOK' /\ Len(rows') <= MaxRows /\ now <= now'
    BY <1>2, <1>5 DEF LedgerTypeOK
  <1>6. ASSUME NEW p \in Product, NEW cents \in Price, ChangePrice(p, cents) PROVE ValuationTypes'
    <2>1. price' \in [Product -> Price] /\ UNCHANGED <<now, rows, locations, stored, run>>
      BY <1>2, <1>6 DEF ChangePrice, ledgerVars
    <2> QED
      BY <1>1, <1>2, <1>5, <2>1
  <1>7. ASSUME NEW l \in Location, AddLocation(l) PROVE ValuationTypes'
    <2>1. /\ locations' = locations \cup {l}
          /\ UNCHANGED <<now, rows, price, stored, run>>
      BY <1>7 DEF AddLocation, ledgerVars
    <2> QED
      BY <1>1, <1>2, <1>5, <2>1
  <1>8. CASE UNCHANGED vars
    <2>1. UNCHANGED <<now, rows, price, locations, stored, run>>
      BY <1>8 DEF vars
    <2> QED
      BY <1>1, <1>2, <1>5, <2>1
  <1> QED
    BY <1>3, <1>4, <1>6, <1>7, <1>8 DEF Next

\* Every request is where the code can leave it, whatever is written, priced,
\* added or stored meanwhile.
THEOREM ValuationTypesAlways == Spec => []ValuationTypes
  BY ValuationTypesInit, ValuationTypesStep, PTL DEF Spec

\* The type invariant of the valuations: what is stored is the value of a day and
\* of a location or of all of them, and a request under way has values to compute
\* for locations that exist.
THEOREM ValuationTypesHold == Spec => []TypeOK
  BY ValuationTypesAlways, ValuationTypesImply, PTL

-----------------------------------------------------------------------------
(***************************************************************************)
(* Days that were over when they were valued.                               *)
(***************************************************************************)

LEMMA AllIsNoLocation == All \notin Location
  BY ValuationAssumption DEF All

\* What a location holds at the end of a day, at these prices.
ExactIn(rs, value, cents, day, l) ==
    \E f : /\ f = [p \in Product |-> f[p]]
           /\ \A p \in Product : f[p] \in BalanceIn(rs, p, {l})[EndOf(day)]
           /\ value = SumFunction([p \in Product |-> f[p] * cents[p]])

Over(day) == day \in Nat /\ EndOf(day) \in Time /\ EndOf(day) < now

\* A request that values a day that is over reads the ledger of the end of it.
RunExact(r) ==
    /\ r.step = "movements" /\ r.closed =>
         /\ Over(r.day) /\ r.cutoff = EndOf(r.day)
         /\ \A l \in Location, p \in Product :
              r.last[<<l, p>>] \in BasesIn(rows, p, {l}, EndOf(r.day))
    /\ r.step = "persist" /\ r.closed =>
         /\ Over(r.day)
         /\ \A l \in Location : ExactIn(rows, r.value[l], r.prices, r.day, l)

\* What was stored of days that were over is exact.
StoredExact ==
    \A day \in Days, l \in Location :
        <<day, l>> \in DOMAIN stored /\ stored[<<day, l>>].closed =>
            /\ Over(day)
            /\ ExactIn(rows, stored[<<day, l>>].value, stored[<<day, l>>].prices, day, l)

\* Inductive: a day that was over when it was read is valued from the ledger of
\* its end.
ExactInv ==
    /\ NoLaterRow
    /\ \A s \in Slot : RunExact(run[s])
    /\ StoredExact

LEMMA ExactInvInit == Init => ExactInv
  <1> SUFFICES ASSUME Init PROVE ExactInv
    OBVIOUS
  <1>1. NoLaterRow
    BY DEF Init, LedgerInit, NoLaterRow
  <1>2. \A s \in Slot : RunExact(run[s])
    BY DEF Init, RunExact, Idle
  <1>3. StoredExact
    BY DEF Init, StoredExact
  <1> QED
    BY <1>1, <1>2, <1>3 DEF ExactInv

LEMMA ExactInvImplies == ExactInv => ClosedDaysAreExact
  <1> SUFFICES ASSUME ExactInv, NEW day \in Days, NEW l \in Location,
                      <<day, l>> \in DOMAIN stored, stored[<<day, l>>].closed
               PROVE  LET held(p) == Balance(p, {l})[EndOf(day)]
                          cents   == stored[<<day, l>>].prices IN
                      \E f \in [Product -> UNION {held(p) : p \in Product}] :
                          /\ \A p \in Product : f[p] \in held(p)
                          /\ stored[<<day, l>>].value
                               = SumFunction([p \in Product |-> f[p] * cents[p]])
    BY DEF ClosedDaysAreExact
  <1> DEFINE cents == stored[<<day, l>>].prices
             held(p) == BalanceIn(rows, p, {l})[EndOf(day)]
  <1>1. ExactIn(rows, stored[<<day, l>>].value, cents, day, l)
    BY DEF ExactInv, StoredExact
  <1>2. PICK f : /\ f = [p \in Product |-> f[p]]
                 /\ \A p \in Product : f[p] \in held(p)
                 /\ stored[<<day, l>>].value = SumFunction([p \in Product |-> f[p] * cents[p]])
    BY <1>1 DEF ExactIn
  <1>3. \A p \in Product : Balance(p, {l})[EndOf(day)] = held(p)
    BY InTheLedger
  <1>4. \A p \in Product : f[p] \in Balance(p, {l})[EndOf(day)]
    BY <1>2, <1>3
  <1>5. f \in [Product -> UNION {Balance(p, {l})[EndOf(day)] : p \in Product}]
    BY <1>2, <1>4
  <1> QED
    BY <1>2, <1>4, <1>5

\* Once a day is over, the ledger of its end stays.
LEMMA ExactStays ==
    ASSUME ~ Dated, LedgerTypeOK, Len(rows) <= MaxRows, NoLaterRow, LedgerNext,
           NEW day, Over(day), NEW l
    PROVE  /\ Over(day)'
           /\ \A value, cents : ExactIn(rows, value, cents, day, l) =>
                                  ExactIn(rows', value, cents, day, l)
           /\ \A p : BasesIn(rows', p, {l}, EndOf(day)) = BasesIn(rows, p, {l}, EndOf(day))
  <1>1. EndOf(day) \in Time /\ EndOf(day) < now
    BY DEF Over
  <1>2. ASSUME NEW p
        PROVE  /\ BasesIn(rows', p, {l}, EndOf(day)) = BasesIn(rows, p, {l}, EndOf(day))
               /\ BalanceIn(rows', p, {l})[EndOf(day)] = BalanceIn(rows, p, {l})[EndOf(day)]
    <2> DEFINE locs == {l}
    <2> HIDE DEF locs
    <2>1. /\ BasesIn(rows', p, locs, EndOf(day)) = BasesIn(rows, p, locs, EndOf(day))
          /\ BalanceIn(rows', p, locs)[EndOf(day)] = BalanceIn(rows, p, locs)[EndOf(day)]
      BY <1>1, PastStays
    <2> QED
      BY <2>1, Zenon DEF locs
  <1>3. Over(day)'
    <2>1. now \in Nat /\ now' \in Nat /\ now <= now' /\ EndOf(day) \in Nat
      BY <1>1, LedgerStep, LedgerAssumption DEF LedgerTypeOK, Time
    <2> QED
      BY <2>1, <1>1 DEF Over, EndOf, Time
  <1>4. ASSUME NEW value, NEW cents, ExactIn(rows, value, cents, day, l)
        PROVE  ExactIn(rows', value, cents, day, l)
    <2>1. PICK f : /\ f = [p \in Product |-> f[p]]
                   /\ \A p \in Product : f[p] \in BalanceIn(rows, p, {l})[EndOf(day)]
                   /\ value = SumFunction([p \in Product |-> f[p] * cents[p]])
      BY <1>4 DEF ExactIn
    <2>2. \A p \in Product : f[p] \in BalanceIn(rows', p, {l})[EndOf(day)]
      BY <1>2, <2>1
    <2> QED
      BY <2>1, <2>2 DEF ExactIn
  <1> QED
    BY <1>2, <1>3, <1>4

\* The ledger grows, the days that are over stay.
LEMMA LedgerKeepsExact ==
    ASSUME ~ Dated, ValuationTypes, ExactInv, LedgerNext, UNCHANGED <<stored, run>>
    PROVE  ExactInv'
  <1>1. NoLaterRow' /\ LedgerTypeOK /\ Len(rows) <= MaxRows /\ NoLaterRow
    BY WritesAreNow DEF ExactInv, ValuationTypes
  <1>2. ASSUME NEW s \in Slot PROVE RunExact(run[s])'
    <2> DEFINE r == run[s]
    <2>1. RunExact(r) /\ run' = run
      BY DEF ExactInv
    <2>2. ASSUME r.step = "movements", r.closed
          PROVE  /\ Over(r.day)' /\ r.cutoff = EndOf(r.day)
                 /\ \A l \in Location, p \in Product :
                      r.last[<<l, p>>] \in BasesIn(rows', p, {l}, EndOf(r.day))
      <3>1. /\ Over(r.day) /\ r.cutoff = EndOf(r.day)
            /\ \A l \in Location, p \in Product :
                 r.last[<<l, p>>] \in BasesIn(rows, p, {l}, EndOf(r.day))
        BY <2>1, <2>2 DEF RunExact
      <3>2. \A l : /\ Over(r.day)'
                   /\ \A p : BasesIn(rows', p, {l}, EndOf(r.day)) = BasesIn(rows, p, {l}, EndOf(r.day))
        BY <1>1, <3>1, <2>1, ExactStays
      <3> QED
        BY <3>1, <3>2
    <2>3. ASSUME r.step = "persist", r.closed
          PROVE  /\ Over(r.day)'
                 /\ \A l \in Location : ExactIn(rows', r.value[l], r.prices, r.day, l)
      <3>1. /\ Over(r.day)
            /\ \A l \in Location : ExactIn(rows, r.value[l], r.prices, r.day, l)
        BY <2>1, <2>3 DEF RunExact
      <3>2. \A l : /\ Over(r.day)'
                   /\ \A value, cents : ExactIn(rows, value, cents, r.day, l) =>
                                          ExactIn(rows', value, cents, r.day, l)
        BY <1>1, <3>1, <2>1, ExactStays
      <3> QED
        BY <3>1, <3>2
    <2> QED
      BY <2>1, <2>2, <2>3 DEF RunExact
  <1>3. StoredExact'
    <2> SUFFICES ASSUME NEW day \in Days, NEW l \in Location,
                        <<day, l>> \in DOMAIN stored, stored[<<day, l>>].closed
                 PROVE  /\ Over(day)'
                        /\ ExactIn(rows', stored[<<day, l>>].value, stored[<<day, l>>].prices, day, l)
      BY DEF StoredExact
    <2>1. /\ Over(day)
          /\ ExactIn(rows, stored[<<day, l>>].value, stored[<<day, l>>].prices, day, l)
      BY DEF ExactInv, StoredExact
    <2> QED
      BY <1>1, <2>1, ExactStays
  <1> QED
    BY <1>1, <1>2, <1>3 DEF ExactInv

\* A step of a slot that leaves the ledger and what is stored alone.
LEMMA BecomesExact ==
    ASSUME ValuationTypes, ExactInv, NEW s \in Slot, NEW state, Become(s, state),
           RunExact(state), UNCHANGED <<now, rows, stored>>
    PROVE  ExactInv'
  <1>1. run' = [t \in Slot |-> IF t = s THEN state ELSE run[t]]
    BY DEF ValuationTypes, Become
  <1>2. \A t \in Slot : RunExact(run'[t])
    BY <1>1 DEF ExactInv
  <1>3. \A t \in Slot : RunExact(run[t])'
    BY <1>2 DEF RunExact, Over, EndOf, Time
  <1>4. NoLaterRow' /\ StoredExact'
    BY DEF ExactInv, NoLaterRow, StoredExact, Over, EndOf, Time, Days, Day
  <1> QED
    BY <1>3, <1>4 DEF ExactInv

LEMMA ReadsExact ==
    ASSUME ValuationTypes, ExactInv, NEW s \in Slot,
           \/ \E days \in Window : GetDaily(s, days)
           \/ BuildPriceMap(s) \/ LoadCached(s) \/ ReadInventories(s) \/ ReadMovements(s)
           \/ Abort(s)
    PROVE  ExactInv'
  <1> DEFINE r == run[s]
  <1>1. RunTyped(r, locations, now) /\ RunExact(r) /\ now \in Time /\ locations \subseteq Location
    BY DEF ValuationTypes, ExactInv, LedgerTypeOK
  <1>2. ASSUME NEW days \in Window, GetDaily(s, days) PROVE ExactInv'
    <2> DEFINE state == [step |-> "prices", today |-> Day(now), days |-> days, locs |-> locations]
    <2>1. RunExact(state)
      BY DEF RunExact
    <2>2. Become(s, state) /\ UNCHANGED <<now, rows, stored>>
      BY <1>2 DEF GetDaily, ledgerVars
    <2> HIDE DEF state
    <2> QED
      BY <2>1, <2>2, BecomesExact
  <1>3. CASE BuildPriceMap(s)
    <2> DEFINE state == [step |-> "cached", today |-> r.today, days |-> r.days, locs |-> r.locs,
                         prices |-> price]
    <2>1. RunExact(state)
      BY DEF RunExact
    <2>2. Become(s, state) /\ UNCHANGED <<now, rows, stored>>
      BY <1>3 DEF BuildPriceMap, ledgerVars
    <2> HIDE DEF state
    <2> QED
      BY <2>1, <2>2, BecomesExact
  <1>4. CASE LoadCached(s)
    <2>1. PICK missing : NextDay(s, missing)
      BY <1>4 DEF LoadCached
    <2> DEFINE state == IF missing = {} THEN Idle
                        ELSE [step |-> "inventories", locs |-> r.locs, prices |-> r.prices,
                              today |-> r.today, missing |-> missing]
    <2>2. RunExact(state)
      BY DEF RunExact, Idle
    <2>3. Become(s, state) /\ UNCHANGED <<now, rows, stored>>
      BY <1>4, <2>1 DEF LoadCached, NextDay, ledgerVars
    <2> HIDE DEF state
    <2> QED
      BY <2>2, <2>3, BecomesExact
  <1>5. CASE ReadInventories(s)
    <2> DEFINE day    == FirstDay(r.missing)
               cutoff == Cutoff(day, r.today)
               closed == day < Day(now)
               state(last) == [step |-> "movements", locs |-> r.locs, prices |-> r.prices,
                               today |-> r.today, missing |-> r.missing, day |-> day,
                               cutoff |-> cutoff, last |-> last, closed |-> closed]
    <2>1. PICK last \in LastInventories(cutoff) : Become(s, state(last))
      BY <1>5 DEF ReadInventories
    <2>2. day \in Days
      <3>1. r.missing \in SUBSET (Days \X Scope) /\ r.missing # {}
        BY <1>1, <1>5 DEF ReadInventories, RunTyped, Busy, Idle, ScopeKeys, Scope
      <3> HIDE DEF r
      <3> QED
        BY <3>1, FirstDayIn
    <2>3. day \in Nat /\ Day(now) \in Nat
      BY <1>1, <2>2, DaysGrow DEF Days
    <2>4. ASSUME closed
          PROVE  Over(day) /\ cutoff = EndOf(day)
      <3> HIDE DEF day
      <3>1. EndOf(day) \in Time /\ EndOf(day) < now
        BY <1>1, <2>3, <2>4, DaysGrow
      <3>2. day # Day(now)
        BY <2>3, <2>4
      <3> QED
        BY <2>3, <3>1, <3>2 DEF Over, Cutoff
    <2>5. \A l \in Location, p \in Product : last[<<l, p>>] \in BasesIn(rows, p, {l}, cutoff)
      <3> SUFFICES ASSUME NEW l \in Location, NEW p \in Product
                   PROVE  last[<<l, p>>] \in BasesIn(rows, p, {l}, cutoff)
        OBVIOUS
      <3>1. last[<<l, p>>] \in Bases(p, {l}, cutoff)
        BY DEF LastInventories
      <3>2. Bases(p, {l}, cutoff) = BasesIn(rows, p, {l}, cutoff)
        BY InTheLedger
      <3> QED
        BY <3>1, <3>2, Zenon
    <2>6. RunExact(state(last))
      <3> HIDE DEF day, cutoff, closed
      <3> QED
        BY <2>4, <2>5 DEF RunExact
    <2>7. UNCHANGED <<now, rows, stored>>
      BY <1>5 DEF ReadInventories, ledgerVars
    <2> HIDE DEF state
    <2> QED
      BY <2>1, <2>6, <2>7, BecomesExact
  <1>6. CASE ReadMovements(s)
    <2> DEFINE held(l, p) == r.last[<<l, p>>].qty + SinceBase(p, {l}, r.last[<<l, p>>], r.cutoff)
               worthOf(l) == [p \in Product |-> held(l, p) * r.prices[p]]
               worth == [l \in Location |-> SumFunction(worthOf(l))]
               value == [scope \in Scope |-> IF scope = All THEN SumFunction(worth)
                                             ELSE worth[scope]]
               state == [step |-> "persist", locs |-> r.locs, prices |-> r.prices,
                         today |-> r.today, missing |-> r.missing, day |-> r.day,
                         closed |-> r.closed, value |-> value]
    <2>1. /\ r.step = "movements" /\ Become(s, state)
          /\ UNCHANGED <<now, rows, stored>>
      BY <1>6 DEF ReadMovements, ledgerVars
    <2>2. ASSUME r.closed, NEW l \in Location
          PROVE  ExactIn(rows, value[l], r.prices, r.day, l)
      <3>1. /\ Over(r.day) /\ r.cutoff = EndOf(r.day)
            /\ \A p \in Product : r.last[<<l, p>>] \in BasesIn(rows, p, {l}, EndOf(r.day))
        BY <1>1, <2>1, <2>2 DEF RunExact
      <3>2. ASSUME NEW p \in Product
            PROVE  held(l, p) \in BalanceIn(rows, p, {l})[EndOf(r.day)]
        <4> DEFINE base == r.last[<<l, p>>]
                   end == EndOf(r.day)
                   locs == {l}
        <4>1. /\ end \in Time /\ rows \in Ledger /\ base \in BasesIn(rows, p, locs, end)
              /\ r.cutoff = end
          BY <3>1 DEF Over, ValuationTypes, LedgerTypeOK, Ledger
        <4>2. SinceBase(p, locs, base, end) = TotalIn(rows, Since(rows, p, locs, base, end))
          BY InTheLedger
        <4>3. held(l, p) = base.qty + SinceBase(p, locs, base, end)
          BY <4>1
        <4> HIDE DEF base, end, locs, held
        <4>4. base.qty + TotalIn(rows, Since(rows, p, locs, base, end))
                \in BalanceIn(rows, p, locs)[end]
          BY <4>1, TwoQueriesTellTheStory
        <4>5. held(l, p) \in BalanceIn(rows, p, locs)[end]
          BY <4>2, <4>3, <4>4
        <4> QED
          BY <4>5, Zenon DEF locs, end
      <3> DEFINE f == [p \in Product |-> held(l, p)]
      <3> HIDE DEF held
      <3>3. f = [p \in Product |-> f[p]] /\ \A p \in Product : f[p] \in BalanceIn(rows, p, {l})[EndOf(r.day)]
        BY <3>2
      <3>4. worthOf(l) = [p \in Product |-> f[p] * r.prices[p]]
        OBVIOUS
      <3>5. value[l] = SumFunction(worthOf(l))
        <4> HIDE DEF worthOf
        <4>1. l # All /\ l \in Scope
          BY AllIsNoLocation DEF Scope
        <4> QED
          BY <4>1
      <3>6. value[l] = SumFunction([p \in Product |-> f[p] * r.prices[p]])
        <4> HIDE DEF worthOf, value
        <4> QED
          BY <3>4, <3>5, Zenon
      <3> HIDE DEF value, f
      <3> QED
        BY <3>3, <3>6 DEF ExactIn
    <2> HIDE DEF value
    <2>3. RunExact(state)
      BY <1>1, <2>1, <2>2 DEF RunExact
    <2> HIDE DEF state
    <2> QED
      BY <2>1, <2>3, BecomesExact
  <1>7. CASE Abort(s)
    <2>1. RunExact(Idle) /\ Become(s, Idle) /\ UNCHANGED <<now, rows, stored>>
      BY <1>7 DEF RunExact, Idle, Abort, ledgerVars
    <2> QED
      BY <2>1, BecomesExact
  <1> QED
    BY <1>2, <1>3, <1>4, <1>5, <1>6, <1>7

\* What is stored is what was computed.
LEMMA PersistExact ==
    ASSUME ValuationTypes, ExactInv, NEW s \in Slot, Persist(s)
    PROVE  ExactInv'
  <1> DEFINE r    == run[s]
             keys == {key \in r.missing : key[1] = r.day}
             missing == r.missing \ keys
             state == IF missing = {} THEN Idle
                      ELSE [step |-> "inventories", locs |-> r.locs, prices |-> r.prices,
                            today |-> r.today, missing |-> missing]
  <1>1. /\ r.step = "persist" /\ Upsert(s, keys) /\ Become(s, state)
        /\ UNCHANGED <<now, rows>>
    BY DEF Persist, NextDay, ledgerVars
  <1>2. RunExact(r)
    BY DEF ExactInv
  <1>3. \A key \in keys : key[1] = r.day
    OBVIOUS
  <1>4. RunExact(state)
    BY DEF RunExact, Idle
  <1> HIDE DEF keys, state
  <1>5. run' = [t \in Slot |-> IF t = s THEN state ELSE run[t]]
    BY <1>1 DEF ValuationTypes, Become
  <1>6. \A t \in Slot : RunExact(run'[t])
    BY <1>4, <1>5 DEF ExactInv
  <1>7. \A t \in Slot : RunExact(run[t])'
    BY <1>1, <1>6 DEF RunExact, Over, EndOf, Time
  <1>8. NoLaterRow'
    BY <1>1 DEF ExactInv, NoLaterRow
  <1>9. ASSUME NEW day \in Days, NEW l \in Location,
               <<day, l>> \in DOMAIN stored', stored'[<<day, l>>].closed
        PROVE  /\ Over(day)
               /\ ExactIn(rows, stored'[<<day, l>>].value, stored'[<<day, l>>].prices, day, l)
    <2> DEFINE key == <<day, l>>
    <2>1. CASE key \in keys
      <3>1. /\ stored'[key].value = r.value[key[2]] /\ stored'[key].closed = r.closed
            /\ stored'[key].prices = r.prices
        BY <1>1, <2>1 DEF Upsert
      <3>2. day = r.day /\ key[2] = l
        BY <1>3, <2>1
      <3>3. /\ Over(r.day)
            /\ ExactIn(rows, r.value[l], r.prices, r.day, l)
        BY <1>1, <1>2, <1>9, <3>1 DEF RunExact
      <3> QED
        BY <3>1, <3>2, <3>3
    <2>2. CASE key \notin keys
      <3>1. key \in DOMAIN stored /\ stored'[key] = stored[key]
        BY <1>1, <1>9, <2>2 DEF Upsert
      <3> QED
        BY <1>9, <3>1 DEF ExactInv, StoredExact
    <2> QED
      BY <2>1, <2>2
  <1>10. StoredExact'
    BY <1>1, <1>9 DEF StoredExact, Over, EndOf, Time, Days, Day
  <1> QED
    BY <1>7, <1>8, <1>10 DEF ExactInv

LEMMA ExactInvStep == ~ Dated /\ ValuationTypes /\ ExactInv /\ [Next]_vars => ExactInv'
  <1> SUFFICES ASSUME ~ Dated, ValuationTypes, ExactInv, [Next]_vars PROVE ExactInv'
    OBVIOUS
  <1>1. CASE Write /\ UNCHANGED <<price, locations, stored, run>>
    BY <1>1, LedgerKeepsExact DEF Write
  <1>2. ASSUME NEW s \in Slot, Serve(s) PROVE ExactInv'
    BY <1>2, ReadsExact, PersistExact DEF Serve
  <1>3. ASSUME UNCHANGED <<now, rows, stored, run>> PROVE ExactInv'
    <2>1. \A s \in Slot : RunExact(run[s])'
      BY <1>3 DEF ExactInv, RunExact, Over, EndOf, Time
    <2>2. NoLaterRow' /\ StoredExact'
      BY <1>3 DEF ExactInv, NoLaterRow, StoredExact, Over, EndOf, Time, Days, Day
    <2> QED
      BY <2>1, <2>2 DEF ExactInv
  <1>4. (\E p \in Product, cents \in Price : ChangePrice(p, cents))
        \/ (\E l \in Location : AddLocation(l)) \/ UNCHANGED vars
          => UNCHANGED <<now, rows, stored, run>>
    BY DEF ChangePrice, AddLocation, vars, ledgerVars
  <1> QED
    BY <1>1, <1>2, <1>3, <1>4 DEF Next

\* Rows dated by the server: a value that computeDayValues works out after its
\* day is over is what the ledger says of the end of the day, at the prices the
\* request had read, and stays so, however many requests overlap and whatever is
\* written between their queries.
THEOREM ClosedDaysStayExact ==
    ASSUME ~ Dated
    PROVE  Spec => []ClosedDaysAreExact
  <1>1. ValuationTypes /\ ExactInv /\ [Next]_vars => ExactInv'
    BY ExactInvStep
  <1> QED
    BY <1>1, ExactInvInit, ExactInvImplies, ValuationTypesAlways, PTL DEF Spec

-----------------------------------------------------------------------------
(***************************************************************************)
(* The values of a day are computed together and stored together.           *)
(***************************************************************************)

\* Days are stored, and are missing, as a whole.
FirstScope == ScopeKeys(FirstOnes)
Whole(keys) == \E days : keys = days \X FirstScope

AddsUp(value) == value[All] = SumFunction([l \in FirstOnes |-> value[l]])

ValuesOf(day) == [scope \in FirstScope |-> stored[<<day, scope>>].value]

\* Locations that do not exist have no rows, hence no value.
RunOK(state) ==
    \/ state = Idle
    \/ /\ state.step \in {"prices", "cached", "inventories", "movements", "persist"}
       /\ state.locs = FirstOnes
       /\ state.step \in {"inventories", "movements", "persist"} => Whole(state.missing)
       /\ state.step = "movements" =>
            \A l \in Location \ FirstOnes, p \in Product : state.last[<<l, p>>].qty = 0
       /\ state.step = "persist" => AddsUp(state.value)

\* The state while no location has been added.
FixedInv ==
    /\ locations = FirstOnes
    /\ \A k \in DOMAIN rows : rows[k].location \in FirstOnes
    /\ Whole(DOMAIN stored)
    /\ \A day : <<day, All>> \in DOMAIN stored => AddsUp(ValuesOf(day))
    /\ run = [s \in Slot |-> run[s]]
    /\ \A s \in Slot : RunOK(run[s])

\* Inductive: locations are only ever added.
TotalsInv ==
    /\ FirstOnes \subseteq locations
    /\ locations = FirstOnes => FixedInv

LEMMA WholeDays ==
    ASSUME NEW keys, Whole(keys), NEW day
    PROVE  /\ Whole({key \in keys : key[1] = day}) /\ Whole({key \in keys : key[1] # day})
           /\ Whole(keys \ {key \in keys : key[1] = day})
           /\ \A other : /\ Whole(other) => Whole(keys \cup other) /\ Whole(keys \ other)
  <1>1. PICK days : keys = days \X FirstScope
    BY DEF Whole
  <1>2. {key \in keys : key[1] = day} = (days \cap {day}) \X FirstScope
    BY <1>1
  <1>3. {key \in keys : key[1] # day} = (days \ {day}) \X FirstScope
    BY <1>1
  <1>4. keys \ {key \in keys : key[1] = day} = (days \ {day}) \X FirstScope
    BY <1>1
  <1>5. ASSUME NEW other, Whole(other)
        PROVE  Whole(keys \cup other) /\ Whole(keys \ other)
    <2>1. PICK more : other = more \X FirstScope
      BY <1>5 DEF Whole
    <2>2. keys \cup other = (days \cup more) \X FirstScope
      BY <1>1, <2>1
    <2>3. keys \ other = (days \ more) \X FirstScope
      BY <1>1, <2>1
    <2> QED
      BY <2>2, <2>3 DEF Whole
  <1> QED
    BY <1>2, <1>3, <1>4, <1>5 DEF Whole

\* Locations that do not exist hold nothing.
LEMMA NothingHeld ==
    ASSUME FixedInv, NEW l \in Location \ FirstOnes, NEW p
    PROVE  /\ \A t : Bases(p, {l}, t) = {[qty |-> 0, at |-> -1]}
           /\ \A base, t : SinceBase(p, {l}, base, t) = 0
  <1>1. \A k \in DOMAIN rows : rows[k].location # l
    BY DEF FixedInv
  <1>2. Inventories(p, {l}) = {} /\ Movements(p, {l}) = {}
    BY <1>1 DEF Inventories, Movements
  <1>3. ASSUME NEW t PROVE Bases(p, {l}, t) = {[qty |-> 0, at |-> -1]}
    <2>1. {k \in Inventories(p, {l}) : rows[k].at <= t} = {}
      BY <1>2
    <2> QED
      BY <2>1, Zenon DEF Bases
  <1>4. ASSUME NEW base, NEW t PROVE SinceBase(p, {l}, base, t) = 0
    <2>1. {k \in Movements(p, {l}) : rows[k].at > base.at /\ rows[k].at <= t} = {}
      BY <1>2
    <2>2. SinceBase(p, {l}, base, t) = Total({})
      BY <2>1, Zenon DEF SinceBase
    <2> QED
      BY <2>2, SumEmpty DEF Total
  <1> QED
    BY <1>3, <1>4

\* A step of a slot that stores nothing.
LEMMA BecomeKeeps ==
    ASSUME FixedInv, NEW s \in Slot, NEW state, Become(s, state), RunOK(state),
           UNCHANGED <<now, rows, locations, stored>>
    PROVE  FixedInv'
  <1>1. run' = [t \in Slot |-> IF t = s THEN state ELSE run[t]]
    BY DEF FixedInv, Become
  <1>2. \A t \in Slot : RunOK(run'[t])
    BY <1>1 DEF FixedInv
  <1>3. \A t \in Slot : RunOK(run[t])'
    BY <1>2 DEF RunOK, Idle, AddsUp, Whole, FirstScope, ScopeKeys, All
  <1>4. run' = [t \in Slot |-> run'[t]]
    BY <1>1
  <1>5. \A day : ValuesOf(day)' = ValuesOf(day)
    BY DEF ValuesOf
  <1> QED
    BY <1>3, <1>4, <1>5 DEF FixedInv

\* On to the next missing day, or to the answer.
LEMMA NextDayOK ==
    ASSUME FixedInv, NEW s \in Slot, run[s].locs = FirstOnes, NEW missing, Whole(missing)
    PROVE  RunOK(IF missing = {} THEN Idle
                 ELSE [step |-> "inventories", locs |-> run[s].locs, prices |-> run[s].prices,
                       today |-> run[s].today, missing |-> missing])
  BY DEF RunOK

\* Steps that only read.
LEMMA ReadKeeps ==
    ASSUME ValuationTypes, FixedInv, NEW s \in Slot,
           \/ \E days \in Window : GetDaily(s, days)
           \/ BuildPriceMap(s) \/ LoadCached(s) \/ ReadInventories(s) \/ ReadMovements(s)
           \/ Abort(s)
    PROVE  FixedInv'
  <1> DEFINE r == run[s]
  <1>1. RunOK(r) /\ Idle.step = "idle" /\ locations = FirstOnes
    BY DEF FixedInv, Idle
  <1>2. ASSUME NEW days \in Window, GetDaily(s, days) PROVE FixedInv'
    <2> DEFINE state == [step |-> "prices", today |-> Day(now), days |-> days,
                         locs |-> locations]
    <2>1. RunOK(state)
      BY <1>1 DEF RunOK
    <2>2. Become(s, state) /\ UNCHANGED <<now, rows, locations, stored>>
      BY <1>2 DEF GetDaily, ledgerVars
    <2> QED
      BY <2>1, <2>2, BecomeKeeps
  <1>3. CASE BuildPriceMap(s)
    <2> DEFINE state == [step |-> "cached", today |-> r.today, days |-> r.days,
                         locs |-> r.locs, prices |-> price]
    <2>1. r.locs = FirstOnes
      BY <1>1, <1>3 DEF RunOK, BuildPriceMap
    <2>2. RunOK(state)
      BY <2>1 DEF RunOK
    <2>3. Become(s, state) /\ UNCHANGED <<now, rows, locations, stored>>
      BY <1>3 DEF BuildPriceMap, ledgerVars
    <2> QED
      BY <2>2, <2>3, BecomeKeeps
  <1>4. CASE LoadCached(s)
    <2> DEFINE asked == {day \in Days : r.today - r.days < day /\ day <= r.today}
               missing == (asked \X ScopeKeys(r.locs)) \ DOMAIN stored
    <2>1. r.locs = FirstOnes
      BY <1>1, <1>4 DEF RunOK, LoadCached
    <2>2. Whole(asked \X ScopeKeys(r.locs))
      BY <2>1 DEF Whole, FirstScope
    <2>3. Whole(missing)
      BY <2>2, WholeDays DEF FixedInv
    <2>4. NextDay(s, missing) /\ UNCHANGED <<now, rows, locations, stored>>
      BY <1>4 DEF LoadCached, ledgerVars
    <2> HIDE DEF missing
    <2> QED
      BY <2>1, <2>3, <2>4, NextDayOK, BecomeKeeps DEF NextDay
  <1>5. CASE ReadInventories(s)
    <2> DEFINE day    == FirstDay(r.missing)
               cutoff == Cutoff(day, r.today)
               closed == day < Day(now)
               state(last) == [step |-> "movements", locs |-> r.locs, prices |-> r.prices,
                               today |-> r.today, missing |-> r.missing, day |-> day,
                               cutoff |-> cutoff, last |-> last, closed |-> closed]
    <2>1. r.locs = FirstOnes /\ Whole(r.missing)
      BY <1>1, <1>5 DEF RunOK, ReadInventories
    <2>2. PICK last \in LastInventories(cutoff) : Become(s, state(last))
      BY <1>5 DEF ReadInventories
    <2>3. ASSUME NEW l \in Location \ FirstOnes, NEW p \in Product
          PROVE  last[<<l, p>>].qty = 0
      <3>1. last[<<l, p>>] \in Bases(p, {l}, cutoff)
        BY DEF LastInventories
      <3> HIDE DEF cutoff
      <3> QED
        BY <3>1, NothingHeld
    <2>4. RunOK(state(last))
      <3> HIDE DEF day, cutoff, closed
      <3> QED
        BY <2>1, <2>3 DEF RunOK
    <2>5. UNCHANGED <<now, rows, locations, stored>>
      BY <1>5 DEF ReadInventories, ledgerVars
    <2> HIDE DEF state
    <2> QED
      BY <2>2, <2>4, <2>5, BecomeKeeps
  <1>6. CASE ReadMovements(s)
    <2> DEFINE held(l, p) == r.last[<<l, p>>].qty + SinceBase(p, {l}, r.last[<<l, p>>], r.cutoff)
               worthOf(l) == [p \in Product |-> held(l, p) * r.prices[p]]
               worth == [l \in Location |-> SumFunction(worthOf(l))]
               value == [scope \in Scope |-> IF scope = All THEN SumFunction(worth)
                                             ELSE worth[scope]]
               state == [step |-> "persist", locs |-> r.locs, prices |-> r.prices,
                         today |-> r.today, missing |-> r.missing, day |-> r.day,
                         closed |-> r.closed, value |-> value]
    <2>1. /\ r.step = "movements" /\ Become(s, state)
          /\ UNCHANGED <<now, rows, locations, stored>>
      BY <1>6 DEF ReadMovements, ledgerVars
    <2>2. /\ r.locs = FirstOnes /\ Whole(r.missing)
          /\ \A l \in Location \ FirstOnes, p \in Product : r.last[<<l, p>>].qty = 0
      BY <1>1, <2>1 DEF RunOK
    <2>3. RunTyped(r, locations, now) /\ r # Idle
      BY <1>1, <2>1 DEF ValuationTypes
    <2>4. \A l \in Location : SumFunction(worthOf(l)) \in Int
      BY <2>1, <2>3, WorthTyped
    <2>5. ASSUME NEW l \in Location \ FirstOnes PROVE SumFunction(worthOf(l)) = 0
      <3>1. \A p \in Product : held(l, p) = 0 /\ r.prices[p] \in Int
        <4>1. \A p \in Product : r.prices[p] \in Int
          BY <2>1, <2>3, WorthTyped
        <4>2. \A p \in Product : SinceBase(p, {l}, r.last[<<l, p>>], r.cutoff) = 0
          BY NothingHeld
        <4> QED
          BY <2>2, <4>1, <4>2
      <3>2. \A p \in Product : worthOf(l)[p] = 0
        <4> HIDE DEF held
        <4> QED
          BY <3>1
      <3>3. DOMAIN worthOf(l) = Product
        OBVIOUS
      <3> HIDE DEF worthOf
      <3> QED
        BY <3>2, <3>3, SumZero, ValuationAssumption DEF SumFunction
    <2> HIDE DEF worthOf
    <2>6. worth \in [Location -> Int] /\ \A l \in Location \ FirstOnes : worth[l] = 0
      BY <2>4, <2>5
    <2> HIDE DEF worth
    <2>7. SumFunction(worth) = SumFunction([l \in FirstOnes |-> worth[l]])
      BY <2>6, SumOfSome, ValuationAssumption
    <2>8. /\ value[All] = SumFunction(worth)
          /\ [l \in FirstOnes |-> value[l]] = [l \in FirstOnes |-> worth[l]]
      BY AllIsNoLocation, ValuationAssumption DEF Scope
    <2> HIDE DEF value
    <2>9. AddsUp(value)
      BY <2>7, <2>8, Zenon DEF AddsUp
    <2>10. RunOK(state)
      BY <2>2, <2>9 DEF RunOK
    <2> HIDE DEF state
    <2> QED
      BY <2>1, <2>10, BecomeKeeps
  <1>7. CASE Abort(s)
    <2>1. RunOK(Idle) /\ UNCHANGED <<now, rows, locations, stored>>
      BY <1>7 DEF RunOK, Abort, ledgerVars
    <2> QED
      BY <1>7, <2>1, BecomeKeeps DEF Abort
  <1> QED
    BY <1>2, <1>3, <1>4, <1>5, <1>6, <1>7

\* Adding up is about the values of the locations there are, and their total.
LEMMA AddsUpAgrees ==
    ASSUME NEW values, NEW value, AddsUp(value),
           \A scope \in FirstScope : values[scope] = value[scope]
    PROVE  AddsUp([scope \in FirstScope |-> values[scope]])
  <1> DEFINE given == [scope \in FirstScope |-> values[scope]]
  <1>1. given[All] = value[All] /\ \A l \in FirstOnes : given[l] = value[l]
    BY DEF FirstScope, ScopeKeys
  <1> HIDE DEF given
  <1>2. [l \in FirstOnes |-> given[l]] = [l \in FirstOnes |-> value[l]]
    BY <1>1
  <1>3. AddsUp(given)
    BY <1>1, <1>2, Zenon DEF AddsUp
  <1> QED
    BY <1>3 DEF given

\* The values of a day are stored together.
LEMMA PersistKeeps ==
    ASSUME FixedInv, NEW s \in Slot, Persist(s)
    PROVE  FixedInv'
  <1> DEFINE r    == run[s]
             keys == {key \in r.missing : key[1] = r.day}
  <1>1. r.step = "persist" /\ Upsert(s, keys) /\ NextDay(s, r.missing \ keys)
        /\ UNCHANGED <<rows, locations>>
    BY DEF Persist, ledgerVars
  <1>2. r.locs = FirstOnes /\ Whole(r.missing) /\ AddsUp(r.value)
    BY <1>1 DEF FixedInv, RunOK, Idle
  <1>3. Whole(keys) /\ Whole(r.missing \ keys) /\ Whole(keys \cup DOMAIN stored)
    <2>1. Whole(keys) /\ Whole(r.missing \ keys)
      BY <1>2, WholeDays
    <2>2. Whole(DOMAIN stored)
      BY DEF FixedInv
    <2> HIDE DEF keys
    <2> QED
      BY <2>1, <2>2, WholeDays
  <1>4. DOMAIN stored' = keys \cup DOMAIN stored
    BY <1>1 DEF Upsert
  <1>5. \A key \in DOMAIN stored' :
           stored'[key].value = IF key \in keys THEN r.value[key[2]] ELSE stored[key].value
    BY <1>1 DEF Upsert
  <1>6. ASSUME NEW day, <<day, All>> \in DOMAIN stored'
        PROVE  AddsUp([scope \in FirstScope |-> stored'[<<day, scope>>].value])
    <2> HIDE DEF keys
    <2>1. CASE <<day, All>> \in keys
      <3>1. \A scope \in FirstScope : <<day, scope>> \in keys
        BY <1>3, <2>1 DEF Whole
      <3>2. \A scope \in FirstScope : stored'[<<day, scope>>].value = r.value[scope]
        BY <1>4, <1>5, <3>1
      <3> DEFINE values == [scope \in FirstScope |-> stored'[<<day, scope>>].value]
      <3>3. \A scope \in FirstScope : values[scope] = r.value[scope]
        BY <3>2
      <3> HIDE DEF values
      <3>4. AddsUp([scope \in FirstScope |-> values[scope]])
        BY <1>2, <3>3, AddsUpAgrees
      <3> QED
        BY <3>4 DEF values
    <2>2. CASE <<day, All>> \notin keys
      <3>1. \A scope \in FirstScope : <<day, scope>> \notin keys
        BY <1>3, <2>2 DEF Whole, FirstScope, ScopeKeys
      <3>2. <<day, All>> \in DOMAIN stored
        BY <1>4, <1>6, <2>2
      <3>3. \A scope \in FirstScope : <<day, scope>> \in DOMAIN stored
        BY <3>2 DEF FixedInv, Whole
      <3>4. \A scope \in FirstScope : stored'[<<day, scope>>].value = stored[<<day, scope>>].value
        BY <1>4, <1>5, <3>1, <3>3
      <3>5. [scope \in FirstScope |-> stored'[<<day, scope>>].value] = ValuesOf(day)
        BY <3>4 DEF ValuesOf
      <3> QED
        BY <3>2, <3>5 DEF FixedInv
    <2> QED
      BY <2>1, <2>2
  <1> DEFINE state == IF r.missing \ keys = {} THEN Idle
                      ELSE [step |-> "inventories", locs |-> r.locs, prices |-> r.prices,
                            today |-> r.today, missing |-> r.missing \ keys]
  <1>7. RunOK(state) /\ Become(s, state)
    BY <1>1, <1>2, <1>3, NextDayOK DEF NextDay
  <1> HIDE DEF state, keys
  <1>8. run' = [t \in Slot |-> IF t = s THEN state ELSE run[t]]
    BY <1>7 DEF FixedInv, Become
  <1>9. \A t \in Slot : RunOK(run'[t])
    BY <1>7, <1>8 DEF FixedInv
  <1>10. \A t \in Slot : RunOK(run[t])'
    BY <1>9 DEF RunOK, Idle, AddsUp, Whole, FirstScope, ScopeKeys, All
  <1>11. \A day : <<day, All>> \in DOMAIN stored' => AddsUp(ValuesOf(day))'
    BY <1>6 DEF ValuesOf, AddsUp, FirstScope, ScopeKeys, All
  <1>12. Whole(DOMAIN stored)'
    BY <1>3, <1>4 DEF Whole, FirstScope, ScopeKeys, All
  <1>13. run' = [t \in Slot |-> run'[t]]
    BY <1>8
  <1> QED
    BY <1>1, <1>10, <1>11, <1>12, <1>13 DEF FixedInv, All

\* Whatever else happens in the service.
LEMMA OthersKeep ==
    ASSUME FixedInv, UNCHANGED <<locations, stored, run>>,
           \A k \in DOMAIN rows' : rows'[k].location \in locations
    PROVE  FixedInv'
  <1>1. \A s \in Slot : RunOK(run[s])'
    BY DEF FixedInv, RunOK, Idle, AddsUp, Whole, FirstScope, ScopeKeys, All
  <1>2. \A day : ValuesOf(day)' = ValuesOf(day)
    BY DEF ValuesOf
  <1>3. \A k \in DOMAIN rows' : rows'[k].location \in FirstOnes
    BY DEF FixedInv
  <1> QED
    BY <1>1, <1>2, <1>3 DEF FixedInv

\* Nothing but another location takes the service out of FixedInv.
LEMMA TotalsInvStep == ValuationTypes /\ TotalsInv /\ [Next]_vars => TotalsInv'
  <1> SUFFICES ASSUME ValuationTypes, TotalsInv, [Next]_vars PROVE TotalsInv'
    OBVIOUS
  <1>1. locations \subseteq locations'
    BY DEF Next, vars, Serve, GetDaily, BuildPriceMap, LoadCached, ReadInventories,
           ReadMovements, Persist, Abort, ChangePrice, AddLocation
  <1>2. FirstOnes \subseteq locations'
    BY <1>1 DEF TotalsInv
  <1>3. ASSUME locations' = FirstOnes PROVE FixedInv'
    <2>1. FixedInv /\ locations = FirstOnes
      BY <1>1, <1>3 DEF TotalsInv
    <2>2. \A k \in DOMAIN rows : rows[k].location \in locations
      BY <2>1 DEF FixedInv
    <2>3. ASSUME NEW s \in Slot, Serve(s) PROVE FixedInv'
      BY <2>1, <2>3, ReadKeeps, PersistKeeps DEF Serve
    <2>4. CASE Write /\ UNCHANGED <<price, locations, stored, run>>
      BY <2>1, <2>4, OthersKeep DEF Write
    <2>5. ASSUME NEW p \in Product, NEW cents \in Price, ChangePrice(p, cents) PROVE FixedInv'
      BY <2>1, <2>2, <2>5, OthersKeep DEF ChangePrice, ledgerVars
    <2>6. ASSUME NEW l \in Location, AddLocation(l) PROVE FixedInv'
      BY <1>3, <2>1, <2>6 DEF AddLocation
    <2>7. CASE UNCHANGED vars
      BY <2>1, <2>2, <2>7, OthersKeep DEF vars
    <2> QED
      BY <2>3, <2>4, <2>5, <2>6, <2>7 DEF Next
  <1> QED
    BY <1>2, <1>3 DEF TotalsInv, FixedInv

LEMMA TotalsInvImplies == TotalsInv => TotalsAddUp
  <1> SUFFICES ASSUME FixedInv, NEW key \in DOMAIN stored
               PROVE  /\ \A scope \in ScopeKeys(locations) : <<key[1], scope>> \in DOMAIN stored
                      /\ stored[<<key[1], All>>].value =
                           SumFunction([l \in locations |-> stored[<<key[1], l>>].value])
    BY DEF TotalsAddUp, TotalsInv
  <1>1. PICK days : DOMAIN stored = days \X FirstScope
    BY DEF FixedInv, Whole
  <1>2. key[1] \in days
    BY <1>1
  <1>3. ScopeKeys(locations) = FirstScope /\ locations = FirstOnes
    BY DEF FixedInv, FirstScope
  <1>4. AddsUp(ValuesOf(key[1]))
    BY <1>1, <1>2 DEF FixedInv, FirstScope, ScopeKeys
  <1>5. ValuesOf(key[1])[All] = stored[<<key[1], All>>].value
    BY DEF ValuesOf, FirstScope, ScopeKeys
  <1>6. [l \in FirstOnes |-> ValuesOf(key[1])[l]] = [l \in FirstOnes |-> stored[<<key[1], l>>].value]
    BY DEF ValuesOf, FirstScope, ScopeKeys
  <1> QED
    BY <1>1, <1>2, <1>3, <1>4, <1>5, <1>6 DEF AddsUp

\* As long as no location has been added to the first ones: the total that
\* persistDayValuations stored for a day is that of the values stored for its
\* locations, none of which is missing, however prices change and requests
\* overlap, fail or die, with rows of any date.
THEOREM TotalsAlwaysAddUp == Spec => []TotalsAddUp
  <1>1. Init => TotalsInv
    <2> SUFFICES ASSUME Init PROVE TotalsInv
      OBVIOUS
    <2>1. DOMAIN stored = {} \X FirstScope
      BY DEF Init
    <2>2. \A s \in Slot : run[s] = Idle
      BY DEF Init
    <2>3. DOMAIN rows = {}
      BY DEF Init, LedgerInit
    <2> QED
      BY <2>1, <2>2, <2>3 DEF Init, TotalsInv, FixedInv, RunOK, Whole
  <1> QED
    BY <1>1, ValuationTypesAlways, TotalsInvStep, TotalsInvImplies, PTL DEF Spec

-----------------------------------------------------------------------------
(***************************************************************************)
(* Why a value that was stored alone stays: whoever computes it again had   *)
(* looked for it before it was stored, and would have been in flight then.  *)
(***************************************************************************)
Computing(state) == state # Idle /\ state.step \in {"inventories", "movements", "persist"}

FinalInv ==
    /\ run = [s \in Slot |-> run[s]]
    /\ \A s \in Slot : Computing(run[s]) =>
         \A key \in run[s].missing : key \in DOMAIN stored => ~ stored[key].alone

\* A request that goes on with missing values that nobody stored alone.
LEMMA GoesOnFinal ==
    ASSUME FinalInv, NEW s \in Slot, NEW state, Become(s, state), UNCHANGED stored,
           Computing(state) =>
             \A key \in state.missing : key \in DOMAIN stored => ~ stored[key].alone
    PROVE  FinalInv'
  <1>1. run' = [t \in Slot |-> IF t = s THEN state ELSE run[t]]
    BY DEF FinalInv, Become
  <1>2. run' = [t \in Slot |-> run'[t]]
    BY <1>1
  <1>3. \A t \in Slot : Computing(run'[t]) =>
          \A key \in run'[t].missing : key \in DOMAIN stored => ~ stored[key].alone
    BY <1>1 DEF FinalInv
  <1> QED
    BY <1>2, <1>3 DEF FinalInv, Computing, Idle

LEMMA ReadStaysFinal ==
    ASSUME FinalInv, NEW s \in Slot,
           \/ \E days \in Window : GetDaily(s, days)
           \/ BuildPriceMap(s) \/ LoadCached(s) \/ ReadInventories(s) \/ ReadMovements(s)
           \/ Abort(s)
    PROVE  FinalInv'
  <1>1. ASSUME NEW days \in Window, GetDaily(s, days) PROVE FinalInv'
    <2>1. ~ Computing([step |-> "prices", today |-> Day(now), days |-> days,
                       locs |-> locations])
      BY DEF Computing
    <2> QED
      BY <1>1, <2>1, GoesOnFinal DEF GetDaily
  <1>2. CASE BuildPriceMap(s)
    <2>1. ~ Computing([step |-> "cached", today |-> run[s].today, days |-> run[s].days,
                       locs |-> run[s].locs, prices |-> price])
      BY DEF Computing
    <2> QED
      BY <1>2, <2>1, GoesOnFinal DEF BuildPriceMap
  <1>3. CASE LoadCached(s)
    <2> DEFINE asked == {day \in Days : run[s].today - run[s].days < day
                                        /\ day <= run[s].today}
               missing == (asked \X ScopeKeys(run[s].locs)) \ DOMAIN stored
               state == IF missing = {} THEN Idle
                        ELSE [step |-> "inventories", locs |-> run[s].locs,
                              prices |-> run[s].prices, today |-> run[s].today,
                              missing |-> missing]
    <2>1. Become(s, state) /\ UNCHANGED stored
      BY <1>3 DEF LoadCached, NextDay
    <2>2. \A key \in missing : key \notin DOMAIN stored
      OBVIOUS
    <2> HIDE DEF missing
    <2>3. Computing(state) => state.missing = missing
      BY DEF Computing
    <2> HIDE DEF state
    <2> QED
      BY <2>1, <2>2, <2>3, GoesOnFinal
  <1>4. CASE ReadInventories(s)
    <2>1. PICK state : /\ Become(s, state) /\ state.missing = run[s].missing
                       /\ UNCHANGED stored
      BY <1>4 DEF ReadInventories
    <2>2. Computing(run[s])
      BY <1>4 DEF ReadInventories, Computing, Idle
    <2> QED
      BY <2>1, <2>2, GoesOnFinal DEF FinalInv
  <1>5. CASE ReadMovements(s)
    <2>1. PICK state : /\ Become(s, state) /\ state.missing = run[s].missing
                       /\ UNCHANGED stored
      BY <1>5 DEF ReadMovements
    <2>2. Computing(run[s])
      BY <1>5 DEF ReadMovements, Computing, Idle
    <2> QED
      BY <2>1, <2>2, GoesOnFinal DEF FinalInv
  <1>6. CASE Abort(s)
    <2>1. ~ Computing(Idle)
      BY DEF Computing
    <2> QED
      BY <1>6, <2>1, GoesOnFinal DEF Abort
  <1> QED
    BY <1>1, <1>2, <1>3, <1>4, <1>5, <1>6

\* What was stored alone is not among the values a request may still store.
LEMMA PersistStaysFinal ==
    ASSUME FinalInv, NEW s \in Slot, Persist(s)
    PROVE  /\ FinalInv'
           /\ \A key \in DOMAIN stored :
                stored[key].alone => key \in DOMAIN stored' /\ stored'[key] = stored[key]
  <1> DEFINE r    == run[s]
             keys == {key \in r.missing : key[1] = r.day}
             state == IF r.missing \ keys = {} THEN Idle
                      ELSE [step |-> "inventories", locs |-> r.locs, prices |-> r.prices,
                            today |-> r.today, missing |-> r.missing \ keys]
  <1>1. r.step = "persist" /\ Upsert(s, keys) /\ Become(s, state)
    BY DEF Persist, NextDay
  <1>2. \A key \in r.missing : key \in DOMAIN stored => ~ stored[key].alone
    BY <1>1 DEF FinalInv, Computing, Idle
  <1>3. /\ keys \subseteq r.missing
        /\ Computing(state) => state.missing = r.missing \ keys
    BY DEF Computing
  <1>4. run' = [t \in Slot |-> IF t = s THEN state ELSE run[t]]
    BY <1>1 DEF FinalInv, Become
  <1> HIDE DEF state, keys
  <1>5. /\ DOMAIN stored' = keys \cup DOMAIN stored
        /\ \A key \in keys : stored'[key].alone = Alone(s)
        /\ \A key \in DOMAIN stored \ keys : stored'[key] = stored[key]
    BY <1>1 DEF Upsert
  <1>6. \A key \in DOMAIN stored :
          stored[key].alone => key \in DOMAIN stored' /\ stored'[key] = stored[key]
    BY <1>2, <1>3, <1>5
  <1>7. ASSUME NEW t \in Slot, Computing(run'[t]), NEW key \in run'[t].missing,
               key \in DOMAIN stored'
        PROVE  ~ stored'[key].alone
    <2>1. CASE t = s
      <3>1. key \in r.missing \ keys
        BY <1>3, <1>4, <1>7, <2>1
      <3> QED
        BY <1>2, <1>5, <1>7, <3>1
    <2>2. CASE t # s
      <3>1. run'[t] = run[t] /\ Computing(run[t]) /\ key \in run[t].missing
        BY <1>4, <1>7, <2>2
      <3>2. ~ Alone(s)
        BY <2>2, <3>1 DEF Alone, Computing
      <3>3. CASE key \in keys
        BY <1>5, <3>2, <3>3
      <3>4. CASE key \notin keys
        BY <1>5, <1>7, <3>1, <3>4 DEF FinalInv
      <3> QED
        BY <3>3, <3>4
    <2> QED
      BY <2>1, <2>2
  <1>8. run' = [t \in Slot |-> run'[t]]
    BY <1>4
  <1>9. FinalInv'
    BY <1>7, <1>8 DEF FinalInv, Computing, Idle
  <1> QED
    BY <1>6, <1>9

\* A value that was stored with no other request in flight is never revised, in
\* any ledger, at any prices, by however many requests.
THEOREM StoredAloneIsFinal == Spec => StoredIsFinal
  <1> DEFINE Final == \A key \in DOMAIN stored :
                        stored[key].alone => key \in DOMAIN stored' /\ stored'[key] = stored[key]
  <1>1. Init => FinalInv
    BY DEF Init, FinalInv, Computing
  <1>2. ASSUME FinalInv, [Next]_vars
        PROVE  FinalInv' /\ Final
    <2>1. ASSUME UNCHANGED <<stored, run>>
          PROVE  FinalInv' /\ Final
      BY <1>2, <2>1 DEF FinalInv, Computing, Idle
    <2>2. ASSUME NEW s \in Slot, Serve(s)
          PROVE  FinalInv' /\ Final
      <3>1. CASE Persist(s)
        BY <1>2, <3>1, PersistStaysFinal
      <3>2. CASE ~ Persist(s)
        <4>1. FinalInv'
          BY <1>2, <2>2, <3>2, ReadStaysFinal DEF Serve
        <4>2. stored' = stored
          BY <2>2, <3>2 DEF Serve, GetDaily, BuildPriceMap, LoadCached, ReadInventories,
                            ReadMovements, Abort
        <4> QED
          BY <4>1, <4>2
      <3> QED
        BY <3>1, <3>2
    <2> QED
      BY <1>2, <2>1, <2>2 DEF Next, vars, ChangePrice, AddLocation
  <1>3. FinalInv /\ [Next]_vars => [Final]_vars
    BY <1>2
  <1> HIDE DEF Final
  <1>4. Spec => [][Final]_vars
    BY <1>1, <1>2, <1>3, PTL DEF Spec
  <1> QED
    BY <1>4 DEF Final, StoredIsFinal
=============================================================================
