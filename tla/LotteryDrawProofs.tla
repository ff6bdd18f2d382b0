------------------------- MODULE LotteryDrawProofs -------------------------
(***************************************************************************)
(* Proofs about what a draw pays out (LotteryPayout), for any prize lists, *)
(* winners and weights, and whom a floor draw finds (LotteryFloors), for   *)
(* any rules, readers and number of floors.                                *)
(*                                                                         *)
(* Payouts: the shares of a pool add up to the pool, because what the      *)
(* divisions leave over is less than one point to a winner and is given    *)
(* out one point at a time (EqualSharesAddUp, LuckySharesAddUp); a prize   *)
(* has no more winners than slots (GroupFits); so the points stamped so    *)
(* far are within the budgets of the prizes stamped so far.                *)
(*                                                                         *)
(* Floors: the floors of a rule rise (FloorsRise), so each reader's first  *)
(* is their lowest (WinnersAreCounted); the counter of a topic has passed  *)
(* every floor ever held, so none is given to somebody else (FoundKept).   *)
(***************************************************************************)
EXTENDS LotteryPayout, LotteryFloors, FiniteSetTheorems, SequenceTheorems, WellFoundedInduction,
        TLAPS

(* Induction over the subsets of a finite set: Good holds all of them.     *)
LEMMA SubsetInduction ==
  ASSUME NEW S, IsFiniteSet(S), NEW Good,
         \A T \in SUBSET S : (\A U \in SUBSET T : U # T => U \in Good) => T \in Good
  PROVE  \A T \in SUBSET S : T \in Good
<1> DEFINE Bad == {T \in SUBSET S : T \notin Good}
           R == StrictSubsetOrdering(S)
<1> SUFFICES ASSUME Bad # {} PROVE FALSE
  OBVIOUS
<1>1. IsWellFoundedOn(R, FiniteSubsetsOf(S))
  BY FS_StrictSubsetOrderingWellFounded
<1>2. IsWellFoundedOn(R, SUBSET S)
  BY <1>1, FS_FiniteSubsetsOfFinite
<1>3. PICK T \in Bad : \A U \in Bad : <<U, T>> \notin R
  <2>1. Bad \subseteq SUBSET S
    OBVIOUS
  <2> HIDE DEF Bad, R
  <2> QED BY <1>2, <2>1, WFMin
<1>4. ASSUME NEW U \in SUBSET T, U # T PROVE U \in Good
  <2>1. U \in SUBSET S /\ <<U, T>> \in StrictSubsetOrdering(S)
    BY <1>4 DEF StrictSubsetOrdering
  <2> QED BY <1>3, <2>1
<1>5. T \in SUBSET S /\ T \notin Good
  BY <1>3
<1>6. \A U \in SUBSET T : U # T => U \in Good
  BY <1>4
<1> QED
  BY <1>5, <1>6

-----------------------------------------------------------------------------
(* Sums: what SumFunctionOnSet adds up, one element after another.         *)

Pick(s) == CHOOSE x \in s : TRUE

Adds(f, S, g) ==
    g = [s \in SUBSET S |-> IF s = {} THEN 0 ELSE f[Pick(s)] + g[s \ {Pick(s)}]]

Adder(f, S) == CHOOSE g : Adds(f, S, g)

LEMMA SumIsAdder ==
  ASSUME NEW f, NEW S
  PROVE  SumFunctionOnSet(f, S) = Adder(f, S)[S]
BY DEF SumFunctionOnSet, FoldFunctionOnSet, MapThenFoldSet, Adder, Adds, Pick

LEMMA AdderUnique ==
  ASSUME NEW f, NEW S, IsFiniteSet(S), NEW g, NEW h, Adds(f, S, g), Adds(f, S, h)
  PROVE  g = h
<1> DEFINE Good == {T \in SUBSET S : g[T] = h[T]}
<1>1. ASSUME NEW T \in SUBSET S, \A U \in SUBSET T : U # T => U \in Good
      PROVE  T \in Good
  <2>1. CASE T = {}
    BY <2>1 DEF Adds
  <2>2. CASE T # {}
    <3>1. Pick(T) \in T
      BY <2>2 DEF Pick
    <3>2. g[T \ {Pick(T)}] = h[T \ {Pick(T)}]
      BY <1>1, <3>1
    <3>3. g[T] = f[Pick(T)] + g[T \ {Pick(T)}] /\ h[T] = f[Pick(T)] + h[T \ {Pick(T)}]
      BY <2>2 DEF Adds
    <3> QED BY <3>2, <3>3
  <2> QED BY <2>1, <2>2
<1>2. \A T \in SUBSET S : T \in Good
  <2> HIDE DEF Good
  <2> QED BY <1>1, SubsetInduction
<1>3. \A T \in SUBSET S : g[T] = h[T]
  BY <1>2
<1>4. /\ g = [s \in SUBSET S |-> g[s]]
      /\ h = [s \in SUBSET S |-> h[s]]
  BY DEF Adds
<1> QED
  BY <1>3, <1>4

(* An adder on a set is one on each of its subsets.                        *)
LEMMA AdderRestricts ==
  ASSUME NEW f, NEW S, NEW T \in SUBSET S, NEW g, Adds(f, S, g)
  PROVE  \E h : Adds(f, T, h) /\ h[T] = g[T]
<1> DEFINE h == [s \in SUBSET T |-> g[s]]
<1>1. ASSUME NEW s \in SUBSET T
      PROVE  h[s] = IF s = {} THEN 0 ELSE f[Pick(s)] + h[s \ {Pick(s)}]
  <2>1. g[s] = IF s = {} THEN 0 ELSE f[Pick(s)] + g[s \ {Pick(s)}]
    BY DEF Adds
  <2> QED BY <2>1
<1>2. Adds(f, T, h) /\ h[T] = g[T]
  BY <1>1 DEF Adds
<1> QED
  BY <1>2

LEMMA AddersAgree ==
  ASSUME NEW f, NEW S, IsFiniteSet(S), NEW T \in SUBSET S,
         Adds(f, S, Adder(f, S)), Adds(f, T, Adder(f, T))
  PROVE  Adder(f, T)[T] = Adder(f, S)[T]
<1>1. PICK h : Adds(f, T, h) /\ h[T] = Adder(f, S)[T]
  BY AdderRestricts
<1>2. Adder(f, T) = h
  BY <1>1, FS_Subset, AdderUnique
<1> QED
  BY <1>1, <1>2

LEMMA AdderExists ==
  ASSUME NEW f, NEW S, IsFiniteSet(S)
  PROVE  Adds(f, S, Adder(f, S))
<1> DEFINE Good == {T \in SUBSET S : \E g : Adds(f, T, g)}
<1>1. ASSUME NEW T \in SUBSET S, \A U \in SUBSET T : U # T => U \in Good
      PROVE  T \in Good
  <2> DEFINE g == [s \in SUBSET T |->
                     IF s = {} THEN 0
                     ELSE f[Pick(s)] + Adder(f, s \ {Pick(s)})[s \ {Pick(s)}]]
  <2>1. \A U \in SUBSET T : U # T => Adds(f, U, Adder(f, U))
    BY <1>1 DEF Adder
  <2>2. ASSUME NEW s \in SUBSET T, s # {}
        PROVE  g[s \ {Pick(s)}] = Adder(f, s \ {Pick(s)})[s \ {Pick(s)}]
    <3> DEFINE r == s \ {Pick(s)}
    <3>1. Pick(s) \in s
      BY <2>2 DEF Pick
    <3>2. r \in SUBSET T /\ r # T
      BY <3>1
    <3>3. Adds(f, r, Adder(f, r))
      BY <2>1, <3>2
    <3>4. CASE r = {}
      BY <3>2, <3>3, <3>4 DEF Adds
    <3>5. CASE r # {}
      <4> DEFINE q == r \ {Pick(r)}
      <4>1. Pick(r) \in r
        BY <3>5 DEF Pick
      <4>2. q \in SUBSET r /\ q \in SUBSET T /\ q # T
        BY <3>2, <4>1
      <4>3. Adds(f, q, Adder(f, q)) /\ IsFiniteSet(r)
        BY <2>1, <3>2, <4>2, FS_Subset
      <4>7. Adder(f, q)[q] = Adder(f, r)[q]
        <5> HIDE DEF q, r
        <5> QED BY <3>3, <4>2, <4>3, AddersAgree
      <4>8. Adder(f, r)[r] = f[Pick(r)] + Adder(f, r)[q]
        BY <3>3, <3>5 DEF Adds
      <4>9. g[r] = f[Pick(r)] + Adder(f, q)[q]
        BY <3>2, <3>5
      <4> QED BY <4>7, <4>8, <4>9
    <3> QED BY <3>4, <3>5
  <2>3. Adds(f, T, g)
    <3>1. ASSUME NEW s \in SUBSET T
          PROVE  g[s] = IF s = {} THEN 0 ELSE f[Pick(s)] + g[s \ {Pick(s)}]
      BY <2>2
    <3>2. g = [s \in SUBSET T |-> g[s]]
      OBVIOUS
    <3> HIDE DEF g
    <3>3. [s \in SUBSET T |-> g[s]]
          = [s \in SUBSET T |-> IF s = {} THEN 0 ELSE f[Pick(s)] + g[s \ {Pick(s)}]]
      BY <3>1
    <3> QED BY <3>2, <3>3 DEF Adds
  <2> QED BY <2>3
<1>2. \A T \in SUBSET S : T \in Good
  <2> HIDE DEF Good
  <2> QED BY <1>1, SubsetInduction
<1> QED
  BY <1>2 DEF Adder

LEMMA SumPicks ==
  ASSUME NEW f, NEW S, IsFiniteSet(S)
  PROVE  SumFunctionOnSet(f, S) =
           IF S = {} THEN 0 ELSE f[Pick(S)] + SumFunctionOnSet(f, S \ {Pick(S)})
<1> DEFINE T == S \ {Pick(S)}
<1>1. Adds(f, S, Adder(f, S)) /\ Adds(f, T, Adder(f, T)) /\ IsFiniteSet(T)
  BY AdderExists, FS_Subset
<1>4. Adder(f, T)[T] = Adder(f, S)[T]
  BY <1>1, AddersAgree
<1>5. Adder(f, S)[S] = IF S = {} THEN 0 ELSE f[Pick(S)] + Adder(f, S)[T]
  BY <1>1 DEF Adds
<1> QED
  BY <1>4, <1>5, SumIsAdder

(* A sum changes only with the values it is over.                          *)
LEMMA SumSame ==
  ASSUME NEW S, IsFiniteSet(S), NEW f, NEW g, \A x \in S : f[x] = g[x]
  PROVE  SumFunctionOnSet(f, S) = SumFunctionOnSet(g, S)
<1> DEFINE Good == {T \in SUBSET S : SumFunctionOnSet(f, T) = SumFunctionOnSet(g, T)}
<1>1. ASSUME NEW T \in SUBSET S, \A U \in SUBSET T : U # T => U \in Good
      PROVE  T \in Good
  <2>1. IsFiniteSet(T)
    BY FS_Subset
  <2>2. CASE T = {}
    BY <2>1, <2>2, SumPicks
  <2>3. CASE T # {}
    <3>1. Pick(T) \in T
      BY <2>3 DEF Pick
    <3>2. SumFunctionOnSet(f, T \ {Pick(T)}) = SumFunctionOnSet(g, T \ {Pick(T)})
      BY <1>1, <3>1
    <3>3. /\ SumFunctionOnSet(f, T) = f[Pick(T)] + SumFunctionOnSet(f, T \ {Pick(T)})
          /\ SumFunctionOnSet(g, T) = g[Pick(T)] + SumFunctionOnSet(g, T \ {Pick(T)})
      BY <2>1, <2>3, SumPicks
    <3> QED BY <3>1, <3>2, <3>3
  <2> QED BY <2>2, <2>3
<1>2. \A T \in SUBSET S : T \in Good
  <2> HIDE DEF Good
  <2> QED BY <1>1, SubsetInduction
<1> QED
  BY <1>2

(* A sum of numbers is one, and any element may be taken off first.        *)
LEMMA SumTakesOff ==
  ASSUME NEW S, IsFiniteSet(S), NEW f, \A x \in S : f[x] \in Nat
  PROVE  /\ SumFunctionOnSet(f, {}) = 0
         /\ SumFunctionOnSet(f, S) \in Nat
         /\ \A a \in S : /\ SumFunctionOnSet(f, S \ {a}) \in Nat
                         /\ SumFunctionOnSet(f, S) = f[a] + SumFunctionOnSet(f, S \ {a})
<1> DEFINE Sum(T) == SumFunctionOnSet(f, T)
           Good == {T \in SUBSET S : Sum(T) \in Nat /\ \A a \in T : Sum(T) = f[a] + Sum(T \ {a})}
<1>0. Sum({}) = 0
  BY SumPicks, FS_EmptySet
<1>1. ASSUME NEW T \in SUBSET S, \A U \in SUBSET T : U # T => U \in Good
      PROVE  T \in Good
  <2>1. IsFiniteSet(T)
    BY FS_Subset
  <2>2. CASE T = {}
    BY <1>0, <2>2
  <2>3. CASE T # {}
    <3> DEFINE c == Pick(T)
    <3>1. c \in T
      BY <2>3 DEF Pick
    <3>2. Sum(T) = f[c] + Sum(T \ {c})
      BY <2>1, <2>3, SumPicks
    <3> HIDE DEF c
    <3>3. T \ {c} \in Good
      BY <1>1, <3>1
    <3>4. Sum(T) \in Nat
      BY <3>1, <3>2, <3>3
    <3>5. ASSUME NEW a \in T, a # c
          PROVE  Sum(T) = f[a] + Sum(T \ {a})
      <4>1. T \ {a} \in Good
        BY <1>1
      <4>2. Sum(T \ {c}) = f[a] + Sum((T \ {c}) \ {a})
        BY <3>3, <3>5
      <4>3. Sum(T \ {a}) = f[c] + Sum((T \ {a}) \ {c})
        BY <3>1, <3>5, <4>1
      <4>4. (T \ {a}) \ {c} = (T \ {c}) \ {a}
        OBVIOUS
      <4>5. (T \ {a}) \ {c} \in Good
        BY <1>1
      <4>6. /\ f[a] \in Nat /\ f[c] \in Nat /\ Sum((T \ {a}) \ {c}) \in Nat
            /\ Sum(T \ {a}) \in Nat /\ Sum(T \ {c}) \in Nat
        BY <3>1, <3>3, <4>1, <4>5
      <4> HIDE DEF Sum
      <4>7. Sum((T \ {a}) \ {c}) = Sum((T \ {c}) \ {a})
        BY <4>4, Zenon
      <4> DEFINE r == Sum((T \ {a}) \ {c})
      <4>8. /\ Sum(T) = f[c] + Sum(T \ {c}) /\ Sum(T \ {c}) = f[a] + r
            /\ Sum(T \ {a}) = f[c] + r
        BY <3>2, <4>2, <4>3, <4>7, Zenon
      <4>9. r \in Nat
        BY <4>6
      <4> HIDE DEF r
      <4> QED BY <4>6, <4>8, <4>9
    <3> QED BY <3>2, <3>4, <3>5
  <2> QED BY <2>2, <2>3
<1>2. \A T \in SUBSET S : T \in Good
  <2> HIDE DEF Good
  <2> QED BY <1>1, SubsetInduction
<1>3. S \in Good /\ \A a \in S : S \ {a} \in Good
  <2> HIDE DEF Good
  <2> QED BY <1>2
<1> QED
  BY <1>0, <1>3

LEMMA SumOfUnion ==
  ASSUME NEW A, NEW B, IsFiniteSet(A), IsFiniteSet(B), A \cap B = {},
         NEW f, \A x \in A \cup B : f[x] \in Nat
  PROVE  SumFunctionOnSet(f, A \cup B) = SumFunctionOnSet(f, A) + SumFunctionOnSet(f, B)
<1> DEFINE Sum(T) == SumFunctionOnSet(f, T)
           Good == {T \in SUBSET B : Sum(A \cup T) = Sum(A) + Sum(T)}
<1>0. Sum(A) \in Nat
  BY SumTakesOff
<1>1. ASSUME NEW T \in SUBSET B, \A U \in SUBSET T : U # T => U \in Good
      PROVE  T \in Good
  <2>1. IsFiniteSet(T) /\ IsFiniteSet(A \cup T)
    BY FS_Subset, FS_Union
  <2>2. CASE T = {}
    <3>1. Sum({}) = 0 /\ A \cup T = A
      BY <2>2, SumTakesOff, FS_EmptySet
    <3> HIDE DEF Sum
    <3> QED BY <1>0, <2>2, <3>1
  <2>3. ASSUME NEW a \in T
        PROVE  T \in Good
    <3>1. T \ {a} \in Good
      BY <1>1
    <3>2. /\ Sum(T) = f[a] + Sum(T \ {a}) /\ Sum(T \ {a}) \in Nat
      BY <2>1, SumTakesOff
    <3>3. Sum(A \cup T) = f[a] + Sum((A \cup T) \ {a})
      BY <2>1, SumTakesOff
    <3>4. (A \cup T) \ {a} = A \cup (T \ {a}) /\ f[a] \in Nat
      OBVIOUS
    <3>5. Sum(A \cup (T \ {a})) = Sum(A) + Sum(T \ {a})
      BY <3>1
    <3>6. Sum(A \cup T) = Sum(A) + Sum(T)
      <4> HIDE DEF Sum
      <4>1. Sum(A \cup T) = f[a] + (Sum(A) + Sum(T \ {a}))
        BY <3>3, <3>4, <3>5, Zenon
      <4> QED BY <1>0, <3>2, <3>4, <4>1
    <3> QED BY <3>6
  <2> QED BY <2>2, <2>3
<1>2. B \in Good
  <2>1. \A T \in SUBSET B : T \in Good
    <3> HIDE DEF Good
    <3> QED BY <1>1, SubsetInduction
  <2> HIDE DEF Good
  <2> QED BY <2>1
<1> QED
  BY <1>2

LEMMA SumOfSums ==
  ASSUME NEW S, IsFiniteSet(S), NEW f, NEW g, NEW h,
         \A x \in S : f[x] \in Nat /\ g[x] \in Nat /\ h[x] = f[x] + g[x]
  PROVE  SumFunctionOnSet(h, S) = SumFunctionOnSet(f, S) + SumFunctionOnSet(g, S)
<1> DEFINE F(T) == SumFunctionOnSet(f, T)
           G(T) == SumFunctionOnSet(g, T)
           H(T) == SumFunctionOnSet(h, T)
           Good == {T \in SUBSET S : H(T) = F(T) + G(T)}
<1>0. \A x \in S : h[x] \in Nat
  OBVIOUS
<1>1. ASSUME NEW T \in SUBSET S, \A U \in SUBSET T : U # T => U \in Good
      PROVE  T \in Good
  <2>1. IsFiniteSet(T)
    BY FS_Subset
  <2>2. CASE T = {}
    <3>1. F(T) = 0 /\ G(T) = 0 /\ H(T) = 0
      BY <1>0, <2>1, <2>2, SumTakesOff
    <3> QED BY <3>1
  <2>3. ASSUME NEW a \in T
        PROVE  T \in Good
    <3>1. H(T \ {a}) = F(T \ {a}) + G(T \ {a})
      BY <1>1
    <3>2. F(T) = f[a] + F(T \ {a}) /\ F(T \ {a}) \in Nat
      BY <2>1, SumTakesOff
    <3>3. G(T) = g[a] + G(T \ {a}) /\ G(T \ {a}) \in Nat
      BY <2>1, SumTakesOff, ZenonT(40)
    <3>4. H(T) = h[a] + H(T \ {a})
      BY <1>0, <2>1, SumTakesOff
    <3>5. f[a] \in Nat /\ g[a] \in Nat /\ h[a] = f[a] + g[a]
      OBVIOUS
    <3>6. H(T) = F(T) + G(T)
      <4> HIDE DEF F, G, H
      <4> QED BY <3>1, <3>2, <3>3, <3>4, <3>5
    <3> QED BY <3>6
  <2> QED BY <2>2, <2>3
<1>2. S \in Good
  <2>1. \A T \in SUBSET S : T \in Good
    <3> HIDE DEF Good
    <3> QED BY <1>1, SubsetInduction
  <2> HIDE DEF Good
  <2> QED BY <2>1
<1> QED
  BY <1>2

LEMMA SumOfConstant ==
  ASSUME NEW S, IsFiniteSet(S), NEW c \in Nat, NEW f, \A x \in S : f[x] = c
  PROVE  SumFunctionOnSet(f, S) = Cardinality(S) * c
<1> DEFINE F(T) == SumFunctionOnSet(f, T)
           Good == {T \in SUBSET S : F(T) = Cardinality(T) * c}
<1>1. ASSUME NEW T \in SUBSET S, \A U \in SUBSET T : U # T => U \in Good
      PROVE  T \in Good
  <2>1. IsFiniteSet(T) /\ Cardinality(T) \in Nat
    BY FS_Subset, FS_CardinalityType
  <2>2. CASE T = {}
    BY <2>1, <2>2, SumTakesOff, FS_EmptySet
  <2>3. ASSUME NEW a \in T
        PROVE  T \in Good
    <3>1. F(T \ {a}) = Cardinality(T \ {a}) * c
      BY <1>1
    <3>2. F(T) = c + F(T \ {a})
      BY <2>1, SumTakesOff
    <3>3. Cardinality(T \ {a}) \in Nat /\ Cardinality(T) = Cardinality(T \ {a}) + 1
      <4>1. IsFiniteSet(T \ {a}) /\ Cardinality(T \ {a}) = Cardinality(T) - 1
        BY <2>1, FS_RemoveElement
      <4>2. Cardinality(T \ {a}) \in Nat
        BY <4>1, FS_CardinalityType
      <4> QED BY <2>1, <4>1, <4>2
    <3>4. \A m \in Nat : c + m * c = (m + 1) * c
      OBVIOUS
    <3>5. F(T) = Cardinality(T) * c
      BY <3>1, <3>2, <3>3, <3>4
    <3> QED BY <3>5
  <2> QED BY <2>2, <2>3
<1>2. S \in Good
  <2>1. \A T \in SUBSET S : T \in Good
    <3> HIDE DEF Good
    <3> QED BY <1>1, SubsetInduction
  <2> HIDE DEF Good
  <2> QED BY <2>1
<1> QED
  BY <1>2

-----------------------------------------------------------------------------
(* Places: the order of a prize's winners.                                 *)

LEMMA LargestExists ==
  ASSUME NEW S \in SUBSET Nat, IsFiniteSet(S), S # {}
  PROVE  \E m \in S : \A x \in S : x <= m
<1> DEFINE Good == {T \in SUBSET S : T # {} => \E m \in T : \A x \in T : x <= m}
<1>1. ASSUME NEW T \in SUBSET S, \A U \in SUBSET T : U # T => U \in Good
      PROVE  T \in Good
  <2> SUFFICES ASSUME NEW a \in T
               PROVE  \E m \in T : \A x \in T : x <= m
    OBVIOUS
  <2>1. T \ {a} \in Good
    BY <1>1
  <2>2. CASE T \ {a} = {}
    BY <2>2
  <2>3. CASE T \ {a} # {}
    <3>1. PICK b \in T \ {a} : \A x \in T \ {a} : x <= b
      BY <2>1, <2>3
    <3>2. a \in Nat /\ b \in Nat /\ T \subseteq Nat
      OBVIOUS
    <3>3. CASE a <= b
      BY <3>1, <3>3
    <3>4. CASE b <= a
      <4>1. \A x \in T : x <= a
        BY <3>1, <3>2, <3>4
      <4> QED BY <4>1
    <3> QED BY <3>2, <3>3, <3>4
  <2> QED BY <2>2, <2>3
<1>2. S \in Good
  <2>1. \A T \in SUBSET S : T \in Good
    <3> HIDE DEF Good
    <3> QED BY <1>1, SubsetInduction
  <2> HIDE DEF Good
  <2> QED BY <2>1
<1> QED
  BY <1>2

LEMMA PlacesInOrder ==
  ASSUME NEW S \in SUBSET Nat, IsFiniteSet(S)
  PROVE  /\ \A i \in S : Place(S, i) \in 1 .. Cardinality(S)
         /\ \A i, j \in S : i < j => Place(S, i) < Place(S, j)
<1> DEFINE Before(i) == {x \in S : x <= i}
<1>0. Cardinality(S) \in Nat
  BY FS_CardinalityType
<1>1. \A i \in S : IsFiniteSet(Before(i)) /\ Cardinality(Before(i)) <= Cardinality(S)
  BY FS_Subset
<1>2. \A i \in S : Cardinality(Before(i)) \in Nat
  BY <1>1, FS_CardinalityType
<1>3. ASSUME NEW i \in S
      PROVE  Cardinality(Before(i)) >= 1
  <2>1. i \in Before(i)
    OBVIOUS
  <2>2. Cardinality(Before(i)) # 0
    BY <1>1, <2>1, FS_EmptySet
  <2> QED BY <1>2, <2>2
<1>4. ASSUME NEW i \in S, NEW j \in S, i < j
      PROVE  Cardinality(Before(i)) < Cardinality(Before(j))
  <2>0. i \in Nat /\ j \in Nat /\ \A x \in S : x \in Nat
    OBVIOUS
  <2>1. j \notin Before(i) /\ Before(i) \cup {j} \in SUBSET Before(j)
    <3>1. ~(j <= i)
      BY <1>4, <2>0
    <3>2. \A x \in S : x <= i => x <= j
      BY <1>4, <2>0
    <3>3. j <= j
      BY <2>0
    <3> QED BY <3>1, <3>2, <3>3
  <2>2. Cardinality(Before(i) \cup {j}) = Cardinality(Before(i)) + 1
    BY <1>1, <2>1, FS_AddElement
  <2>3. Cardinality(Before(i) \cup {j}) <= Cardinality(Before(j))
    BY <1>1, <2>1, FS_Subset
  <2> QED BY <1>2, <2>2, <2>3
<1> QED
  BY <1>0, <1>1, <1>2, <1>3, <1>4 DEF Place

(* One point each to the first k of a prize's winners.                     *)
FirstOnes(S, k) == [i \in S |-> IF Place(S, i) <= k THEN 1 ELSE 0]

LEMMA FirstOnesAddUp ==
  ASSUME NEW S \in SUBSET Nat, IsFiniteSet(S), NEW k \in Nat
  PROVE  SumFunctionOnSet(FirstOnes(S, k), S)
           = IF k <= Cardinality(S) THEN k ELSE Cardinality(S)
<1> DEFINE Total(T) == SumFunctionOnSet(FirstOnes(T, k), T)
           Good == {T \in SUBSET S : Total(T) = IF k <= Cardinality(T) THEN k ELSE Cardinality(T)}
<1>1. ASSUME NEW T \in SUBSET S, \A U \in SUBSET T : U # T => U \in Good
      PROVE  T \in Good
  <2>1. IsFiniteSet(T)
    BY FS_Subset
  <2>0. Cardinality(T) \in Nat
    BY <2>1, FS_CardinalityType
  <2>2. CASE T = {}
    <3>1. Cardinality(T) = 0 /\ Total(T) = 0
      BY <2>2, FS_EmptySet, SumTakesOff
    <3> QED BY <3>1
  <2>3. CASE T # {}
    <3>1. PICK m \in T : \A x \in T : x <= m
      BY <2>1, <2>3, LargestExists
    <3> DEFINE U == T \ {m}
    <3>2. IsFiniteSet(U) /\ Cardinality(U) = Cardinality(T) - 1
      BY <2>1, FS_RemoveElement
    <3>3. Cardinality(U) \in Nat
      BY <3>2, FS_CardinalityType
    <3>4. Place(T, m) = Cardinality(T)
      <4>1. {x \in T : x <= m} = T
        BY <3>1
      <4> QED BY <4>1 DEF Place
    <3>5. ASSUME NEW i \in U
          PROVE  FirstOnes(T, k)[i] = FirstOnes(U, k)[i]
      <4>1. {x \in T : x <= i} = {x \in U : x <= i}
        BY <3>1
      <4>2. Place(T, i) = Place(U, i)
        BY <4>1, Zenon DEF Place
      <4> QED BY <4>2 DEF FirstOnes
    <3>6. SumFunctionOnSet(FirstOnes(T, k), U) = Total(U)
      <4> HIDE DEF U
      <4> QED BY <3>2, <3>5, SumSame
    <3>7. \A i \in T : FirstOnes(T, k)[i] \in Nat
      BY DEF FirstOnes
    <3>8. Total(T) = FirstOnes(T, k)[m] + SumFunctionOnSet(FirstOnes(T, k), U)
      BY <2>1, <3>7, SumTakesOff
    <3>9. FirstOnes(T, k)[m] = IF Cardinality(T) <= k THEN 1 ELSE 0
      BY <3>4 DEF FirstOnes
    <3>10. Total(U) = IF k <= Cardinality(U) THEN k ELSE Cardinality(U)
      BY <1>1
    <3>11. Total(T) = IF k <= Cardinality(T) THEN k ELSE Cardinality(T)
      <4> HIDE DEF U, Total
      <4> QED BY <2>0, <3>2, <3>3, <3>6, <3>8, <3>9, <3>10
    <3> QED BY <3>11
  <2> QED BY <2>2, <2>3
<1>2. S \in Good
  <2>1. \A T \in SUBSET S : T \in Good
    <3> HIDE DEF Good
    <3> QED BY <1>1, SubsetInduction
  <2> HIDE DEF Good
  <2> QED BY <2>1
<1> QED
  BY <1>2

-----------------------------------------------------------------------------
(* Shares: what each mode of a prize makes of its points.                  *)

LEMMA EqualSharesAddUp ==
  ASSUME NEW G \in SUBSET Nat, IsFiniteSet(G), G # {}, NEW amount \in Nat
  PROVE  /\ \A i \in G : EqualShares(amount, G)[i] \in Nat
         /\ SumFunctionOnSet(EqualShares(amount, G), G) = amount
<1> DEFINE n == Cardinality(G)
           q == amount \div n
           r == amount % n
           even == [i \in G |-> q]
           h == EqualShares(amount, G)
<1>1. n \in Nat \ {0}
  BY FS_CardinalityType, FS_EmptySet
<1>2. q \in Nat /\ r \in Nat /\ r < n /\ n * q + r = amount
  <2> HIDE DEF n
  <2> QED BY <1>1
<1>3. \A i \in G : /\ even[i] = q
                   /\ FirstOnes(G, r)[i] \in Nat
                   /\ h[i] = even[i] + FirstOnes(G, r)[i]
  BY DEF EqualShares, FirstOnes
<1> HIDE DEF h, q, r, even
<1>4. \A i \in G : even[i] \in Nat /\ h[i] \in Nat
  BY <1>2, <1>3
<1>5. SumFunctionOnSet(h, G) = SumFunctionOnSet(even, G) + SumFunctionOnSet(FirstOnes(G, r), G)
  BY <1>3, <1>4, SumOfSums
<1>6. SumFunctionOnSet(even, G) = n * q
  BY <1>2, <1>3, SumOfConstant
<1>7. SumFunctionOnSet(FirstOnes(G, r), G) = r
  <2>1. r <= n
    BY <1>1, <1>2
  <2> QED BY <1>2, <2>1, FirstOnesAddUp
<1>8. SumFunctionOnSet(h, G) = amount
  BY <1>2, <1>5, <1>6, <1>7
<1> QED
  BY <1>4, <1>8 DEF h

LEMMA Division ==
  ASSUME NEW a \in Nat, NEW n \in Nat, n > 0
  PROVE  /\ n * (a \div n) + (a % n) = a
         /\ a % n < n /\ a % n \in Nat /\ a \div n \in Nat
OBVIOUS

(* Rounding a share down loses less than one point a winner.               *)
LEMMA RoundingLosesLittle ==
  ASSUME NEW S, IsFiniteSet(S), NEW w, \A i \in S : w[i] \in Nat,
         NEW r \in Nat, NEW t \in Nat \ {0}, NEW q,
         \A i \in S : q[i] = (r * w[i]) \div t
  PROVE  /\ \A i \in S : q[i] \in Nat
         /\ t * SumFunctionOnSet(q, S) <= r * SumFunctionOnSet(w, S)
         /\ r * SumFunctionOnSet(w, S)
              <= t * SumFunctionOnSet(q, S) + (t - 1) * Cardinality(S)
<1> DEFINE Q(T) == SumFunctionOnSet(q, T)
           W(T) == SumFunctionOnSet(w, T)
           Good == {T \in SUBSET S : /\ t * Q(T) <= r * W(T)
                                     /\ r * W(T) <= t * Q(T) + (t - 1) * Cardinality(T)}
<1>0. ASSUME NEW i \in S
      PROVE  /\ q[i] \in Nat
             /\ t * q[i] <= r * w[i] /\ r * w[i] <= t * q[i] + (t - 1)
  <2> DEFINE v == r * w[i]
  <2>1. v \in Nat
    OBVIOUS
  <2> HIDE DEF v
  <2>2. v = t * (v \div t) + (v % t) /\ v \div t \in Nat /\ v % t \in 0 .. (t - 1)
    <3>1. /\ t * (v \div t) + (v % t) = v
          /\ v % t < t /\ v % t \in Nat /\ v \div t \in Nat
      BY <2>1, Division
    <3> QED BY <3>1
  <2>3. q[i] = v \div t
    BY DEF v
  <2>4. \A x \in Nat : t * x \in Nat
    OBVIOUS
  <2>5. /\ q[i] \in Nat
        /\ t * q[i] <= v /\ v <= t * q[i] + (t - 1)
    BY <2>1, <2>2, <2>3, <2>4
  <2> QED BY <2>5 DEF v
<1>1. ASSUME NEW T \in SUBSET S, \A U \in SUBSET T : U # T => U \in Good
      PROVE  T \in Good
  <2>1. IsFiniteSet(T)
    BY FS_Subset
  <2>2. CASE T = {}
    <3>1. Q(T) = 0 /\ W(T) = 0 /\ Cardinality(T) = 0
      BY <1>0, <2>1, <2>2, SumTakesOff, FS_EmptySet
    <3> QED BY <3>1
  <2>3. ASSUME NEW a \in T
        PROVE  T \in Good
    <3> DEFINE U == T \ {a}
    <3>1. /\ t * Q(U) <= r * W(U)
          /\ r * W(U) <= t * Q(U) + (t - 1) * Cardinality(U)
      BY <1>1
    <3>2. Q(T) = q[a] + Q(U) /\ Q(U) \in Nat
      BY <1>0, <2>1, SumTakesOff
    <3>3. W(T) = w[a] + W(U) /\ W(U) \in Nat
      BY <2>1, SumTakesOff
    <3>4. Cardinality(U) \in Nat /\ Cardinality(T) = Cardinality(U) + 1
      <4>1. IsFiniteSet(U) /\ Cardinality(U) = Cardinality(T) - 1
        BY <2>1, FS_RemoveElement
      <4>2. Cardinality(U) \in Nat /\ Cardinality(T) \in Nat
        BY <2>1, <4>1, FS_CardinalityType
      <4> QED BY <4>1, <4>2
    <3>5. /\ q[a] \in Nat /\ w[a] \in Nat
          /\ t * q[a] <= r * w[a] /\ r * w[a] <= t * q[a] + (t - 1)
      BY <1>0
    <3>6. /\ t * Q(T) = t * q[a] + t * Q(U)
          /\ r * W(T) = r * w[a] + r * W(U)
          /\ (t - 1) * Cardinality(T) = (t - 1) * Cardinality(U) + (t - 1)
      <4>1. \A k, x, y \in Nat : k * (x + y) = k * x + k * y
        OBVIOUS
      <4>2. t - 1 \in Nat /\ \A k \in Nat : k * 1 = k
        OBVIOUS
      <4> HIDE DEF Q, W, U
      <4>3. t * Q(T) = t * q[a] + t * Q(U)
        BY <3>2, <3>5, <4>1
      <4>4. r * W(T) = r * w[a] + r * W(U)
        BY <3>3, <3>5, <4>1
      <4>5. (t - 1) * Cardinality(T) = (t - 1) * Cardinality(U) + (t - 1)
        BY <3>4, <4>1, <4>2
      <4> QED BY <4>3, <4>4, <4>5
    <3>7. /\ t * Q(T) <= r * W(T)
          /\ r * W(T) <= t * Q(T) + (t - 1) * Cardinality(T)
      <4>1. \A k, x \in Nat : k * x \in Nat
        OBVIOUS
      <4>2. /\ t * q[a] \in Nat /\ t * Q(U) \in Nat /\ r * w[a] \in Nat /\ r * W(U) \in Nat
            /\ (t - 1) * Cardinality(U) \in Nat
        <5>1. t - 1 \in Nat
          OBVIOUS
        <5> HIDE DEF Q, W, U
        <5> QED BY <3>2, <3>3, <3>4, <3>5, <4>1, <5>1
      <4> HIDE DEF Q, W, U
      <4> QED BY <3>1, <3>5, <3>6, <4>2
    <3> QED BY <3>7
  <2> QED BY <2>2, <2>3
<1>2. S \in Good
  <2>1. \A T \in SUBSET S : T \in Good
    <3> HIDE DEF Good
    <3> QED BY <1>1, SubsetInduction
  <2> HIDE DEF Good
  <2> QED BY <2>1
<1> QED
  BY <1>0, <1>2

LEMMA WholeRounding ==
  ASSUME NEW t \in Nat \ {0}, NEW r \in Nat, NEW q \in Nat, NEW n \in Nat,
         t * q <= r * t, r * t <= t * q + (t - 1) * n
  PROVE  q <= r /\ r - q <= n
<1>1. \A x, y \in Nat : t * x <= t * y => x <= y
  OBVIOUS
<1>2. r * t = t * r
  OBVIOUS
<1>3. q <= r
  BY <1>1, <1>2
<1> DEFINE d == r - q
<1>4. d \in Nat /\ r = q + d
  BY <1>3
<1> HIDE DEF d
<1>5. t * r = t * q + t * d
  BY <1>4
<1>6. t * n = (t - 1) * n + n
  OBVIOUS
<1>7. t * d <= t * n
  <2>1. /\ t * q \in Nat /\ (t - 1) * n \in Nat /\ t * d \in Nat
    <3>1. t - 1 \in Nat /\ \A x, y \in Nat : x * y \in Nat
      OBVIOUS
    <3> QED BY <1>4, <3>1
  <2> QED BY <1>2, <1>5, <1>6, <2>1
<1>8. d <= n
  BY <1>1, <1>4, <1>7
<1> QED
  BY <1>3, <1>8 DEF d

LEMMA PositiveSum ==
  ASSUME NEW S, IsFiniteSet(S), S # {}, NEW w, \A i \in S : w[i] \in Nat \ {0}
  PROVE  SumFunctionOnSet(w, S) \in Nat \ {0}
<1>1. PICK a \in S : TRUE
  OBVIOUS
<1>2. /\ SumFunctionOnSet(w, S) = w[a] + SumFunctionOnSet(w, S \ {a})
      /\ SumFunctionOnSet(w, S \ {a}) \in Nat
  BY SumTakesOff
<1> QED
  BY <1>2

(* A lucky share is the floor, the rounded share, and perhaps one more.    *)
Parts(amount, w, low, rest, over, q) ==
    /\ rest = amount - low * Cardinality(DOMAIN w)
    /\ q = [i \in DOMAIN w |-> (rest * w[i]) \div SumFunctionOnSet(w, DOMAIN w)]
    /\ \A i \in DOMAIN w : q[i] \in Nat
    /\ SumFunctionOnSet(q, DOMAIN w) \in Nat
    /\ over = rest - SumFunctionOnSet(q, DOMAIN w)
    /\ over <= Cardinality(DOMAIN w)
    /\ \A i \in DOMAIN w :
          LuckyShares(amount, w)[i] = low + q[i] + FirstOnes(DOMAIN w, over)[i]

LEMMA LuckySharesParts ==
  ASSUME NEW w, DOMAIN w \in SUBSET Nat, IsFiniteSet(DOMAIN w), DOMAIN w # {},
         \A i \in DOMAIN w : w[i] \in Nat \ {0}, NEW amount \in Nat
  PROVE  \E low, rest, over \in Nat : \E q : Parts(amount, w, low, rest, over, q)
<1> DEFINE G == DOMAIN w
           n == Cardinality(G)
           low == IF amount < n THEN 0 ELSE 1
           rest == amount - low * n
           t == SumFunctionOnSet(w, G)
           q == [i \in G |-> (rest * w[i]) \div t]
           total == SumFunctionOnSet(q, G)
           over == rest - total
<1>1. n \in Nat
  BY FS_CardinalityType
<1>2. low \in Nat /\ rest \in Nat
  <2> HIDE DEF n
  <2> QED BY <1>1
<1>3. t \in Nat \ {0}
  BY PositiveSum
<1>4. \A i \in G : q[i] = (rest * w[i]) \div t
  OBVIOUS
<1>5. DOMAIN q = G
  OBVIOUS
<1>6. \A i \in G : w[i] \in Nat
  OBVIOUS
<1>7. /\ \A i \in G : q[i] \in Nat
      /\ t * total <= rest * t
      /\ rest * t <= t * total + (t - 1) * n
  <2> HIDE DEF q, rest
  <2> QED BY <1>2, <1>3, <1>4, <1>6, RoundingLosesLittle
<1>8. total \in Nat
  <2> HIDE DEF q
  <2> QED BY <1>7, SumTakesOff
<1>9. total <= rest /\ over <= n
  <2> HIDE DEF t, rest, total, n
  <2> QED BY <1>1, <1>2, <1>3, <1>7, <1>8, WholeRounding
<1>10. over \in Nat
  <2> HIDE DEF rest, total
  <2> QED BY <1>2, <1>8, <1>9
<1>11. LuckyShares(amount, w)
         = [i \in G |-> low + q[i] + (IF Place(G, i) <= over THEN 1 ELSE 0)]
  BY <1>5, Zenon DEF LuckyShares, SumFunction
<1>12. ASSUME NEW i \in G
       PROVE  LuckyShares(amount, w)[i] = low + q[i] + FirstOnes(G, over)[i]
  <2> HIDE DEF low, q, over
  <2> QED BY <1>11 DEF FirstOnes
<1> HIDE DEF low, rest, over, q
<1>13. low \in Nat /\ rest \in Nat /\ over \in Nat
  BY <1>2, <1>10
<1>14. rest = amount - low * n /\ q = [i \in G |-> (rest * w[i]) \div t]
       /\ over = rest - SumFunctionOnSet(q, G)
  BY DEF rest, q, over
<1>15. Parts(amount, w, low, rest, over, q)
  BY <1>7, <1>8, <1>9, <1>12, <1>14 DEF Parts
<1> QED
  BY <1>13, <1>15

LEMMA LuckySharesAddUp ==
  ASSUME NEW w, DOMAIN w \in SUBSET Nat, IsFiniteSet(DOMAIN w), DOMAIN w # {},
         \A i \in DOMAIN w : w[i] \in Nat \ {0}, NEW amount \in Nat
  PROVE  /\ \A i \in DOMAIN w : LuckyShares(amount, w)[i] \in Nat
         /\ SumFunctionOnSet(LuckyShares(amount, w), DOMAIN w) = amount
<1> DEFINE G == DOMAIN w
           n == Cardinality(G)
           h == LuckyShares(amount, w)
<1>0. PICK low \in Nat, rest \in Nat, over \in Nat :
        \E q : Parts(amount, w, low, rest, over, q)
  BY LuckySharesParts
<1>00. PICK q : Parts(amount, w, low, rest, over, q)
  BY <1>0
<1>1. /\ rest = amount - low * n
      /\ \A i \in G : q[i] \in Nat
      /\ SumFunctionOnSet(q, G) \in Nat
      /\ over = rest - SumFunctionOnSet(q, G)
      /\ over <= n
      /\ \A i \in G : h[i] = low + q[i] + FirstOnes(G, over)[i]
  BY <1>00 DEF Parts
<1> DEFINE even == [i \in G |-> low]
           base == [i \in G |-> low + q[i]]
           ones == FirstOnes(G, over)
<1>2. n \in Nat
  BY FS_CardinalityType
<1>3. \A i \in G : ones[i] \in Nat
  BY DEF FirstOnes
<1>4. SumFunctionOnSet(even, G) = n * low
  BY SumOfConstant
<1>5. SumFunctionOnSet(base, G) = n * low + SumFunctionOnSet(q, G)
  <2>1. \A i \in G : even[i] \in Nat /\ q[i] \in Nat /\ base[i] = even[i] + q[i]
    BY <1>1
  <2> HIDE DEF even, base
  <2>2. SumFunctionOnSet(base, G) = SumFunctionOnSet(even, G) + SumFunctionOnSet(q, G)
    BY <2>1, SumOfSums
  <2> QED BY <1>4, <2>2
<1>6. SumFunctionOnSet(ones, G) = over
  BY <1>1, FirstOnesAddUp
<1>7. \A i \in G : base[i] \in Nat /\ h[i] = base[i] + ones[i]
  <2> HIDE DEF ones, h
  <2> QED BY <1>1 DEF ones
<1>8. SumFunctionOnSet(h, G) = SumFunctionOnSet(base, G) + SumFunctionOnSet(ones, G)
  <2> HIDE DEF base, ones, h
  <2> QED BY <1>3, <1>7, SumOfSums
<1>9. \A i \in G : h[i] \in Nat
  <2> HIDE DEF base, ones, h
  <2> QED BY <1>3, <1>7
<1>10. n * low = low * n /\ low * n \in Nat
  <2> HIDE DEF n
  <2> QED BY <1>2
<1>11. SumFunctionOnSet(h, G) = amount
  <2> HIDE DEF base, ones, h, n
  <2> QED BY <1>1, <1>5, <1>6, <1>8, <1>10
<1> QED
  BY <1>9, <1>11

Prize == [delivery : {"code", "manual", "point"}, pointMode : {"", "fixed", "split", "random"},
          pointAmount : Nat, slots : Nat]

(* The winners' weights, as pointPayouts is given them for one prize.      *)
WeightsOf(w) == /\ DOMAIN w \in SUBSET Nat /\ IsFiniteSet(DOMAIN w) /\ DOMAIN w # {}
                /\ \A i \in DOMAIN w : w[i] \in Nat \ {0}

LEMMA PayoutsWithinPrize ==
  ASSUME NEW p \in Prize, NEW w, WeightsOf(w), Cardinality(DOMAIN w) <= p.slots
  PROVE  LET total == SumFunctionOnSet(PointPayouts(p, w), DOMAIN w)
         IN  /\ \A i \in DOMAIN w : PointPayouts(p, w)[i] \in Nat
             /\ total \in Nat /\ total <= PrizePointBudget(p)
             /\ IsPointPool(p.pointMode) => total = p.pointAmount
<1> DEFINE G == DOMAIN w
           n == Cardinality(G)
           h == PointPayouts(p, w)
<1>0. /\ G \in SUBSET Nat /\ IsFiniteSet(G) /\ G # {}
      /\ \A i \in G : w[i] \in Nat \ {0}
      /\ n \in Nat /\ n <= p.slots
      /\ p.pointAmount \in Nat /\ p.slots \in Nat
  BY FS_CardinalityType DEF WeightsOf, Prize
<1>1. CASE p.pointMode = "split"
  <2>1. h = EqualShares(p.pointAmount, G)
    BY <1>1 DEF PointPayouts
  <2>2. /\ \A i \in G : h[i] \in Nat
        /\ SumFunctionOnSet(h, G) = p.pointAmount
    <3> HIDE DEF G, h
    <3> QED BY <1>0, <2>1, EqualSharesAddUp
  <2> QED BY <1>0, <1>1, <2>2 DEF PrizePointBudget, IsPointPool
<1>2. CASE p.pointMode = "random"
  <2>1. h = LuckyShares(p.pointAmount, w)
    BY <1>2 DEF PointPayouts
  <2>2. /\ \A i \in G : h[i] \in Nat
        /\ SumFunctionOnSet(h, G) = p.pointAmount
    <3> HIDE DEF h
    <3> QED BY <1>0, <2>1, LuckySharesAddUp
  <2> QED BY <1>0, <1>2, <2>2 DEF PrizePointBudget, IsPointPool
<1>3. CASE p.pointMode \notin {"split", "random"}
  <2>1. h = [i \in G |-> p.pointAmount]
    BY <1>3 DEF PointPayouts
  <2>2. \A i \in G : h[i] = p.pointAmount
    BY <2>1
  <2>3. SumFunctionOnSet(h, G) = n * p.pointAmount
    <3> HIDE DEF G, h
    <3> QED BY <1>0, <2>2, SumOfConstant
  <2>4. n * p.pointAmount \in Nat /\ n * p.pointAmount <= p.pointAmount * p.slots
    <3>1. \A x, y, z \in Nat : y <= z => x * y <= x * z
      OBVIOUS
    <3>2. \A x, y \in Nat : x * y = y * x /\ x * y \in Nat
      OBVIOUS
    <3> HIDE DEF n
    <3> QED BY <1>0, <3>1, <3>2
  <2> HIDE DEF h, n
  <2> QED BY <1>0, <1>3, <2>2, <2>3, <2>4 DEF PrizePointBudget, IsPointPool, h
<1> QED
  BY <1>1, <1>2, <1>3

LEMMA EqualSharesInOrder ==
  ASSUME NEW G \in SUBSET Nat, IsFiniteSet(G), NEW amount \in Nat,
         NEW i \in G, NEW j \in G, i < j
  PROVE  EqualShares(amount, G)[i] - EqualShares(amount, G)[j] \in {0, 1}
<1> DEFINE n == Cardinality(G)
           q == amount \div n
           r == amount % n
<1>1. n \in Nat /\ n > 0
  BY FS_CardinalityType, FS_EmptySet
<1>2. q \in Nat /\ r \in Nat
  <2> HIDE DEF n
  <2> QED BY <1>1, Division
<1>3. Place(G, i) \in Nat /\ Place(G, j) \in Nat /\ Place(G, i) < Place(G, j)
  BY PlacesInOrder
<1>4. /\ EqualShares(amount, G)[i] = q + (IF Place(G, i) <= r THEN 1 ELSE 0)
      /\ EqualShares(amount, G)[j] = q + (IF Place(G, j) <= r THEN 1 ELSE 0)
  BY DEF EqualShares
<1> HIDE DEF q, r
<1> QED
  BY <1>2, <1>3, <1>4

LEMMA DivisionIsMonotone ==
  ASSUME NEW a \in Nat, NEW b \in Nat, NEW n \in Nat, n > 0, a <= b
  PROVE  a \div n <= b \div n
OBVIOUS

LEMMA LuckySharesInOrder ==
  ASSUME NEW w, WeightsOf(w), NEW amount \in Nat,
         NEW i \in DOMAIN w, NEW j \in DOMAIN w, i < j
  PROVE  LET h == LuckyShares(amount, w)
         IN  /\ w[i] >= w[j] => h[i] >= h[j]
             /\ w[i] <= w[j] => h[i] <= h[j] + 1
<1> DEFINE G == DOMAIN w
           h == LuckyShares(amount, w)
           t == SumFunctionOnSet(w, G)
<1>0. PICK low \in Nat, rest \in Nat, over \in Nat :
        \E q : Parts(amount, w, low, rest, over, q)
  BY LuckySharesParts DEF WeightsOf
<1>1. PICK q : Parts(amount, w, low, rest, over, q)
  BY <1>0
<1>2. /\ h[i] = low + q[i] + FirstOnes(G, over)[i]
      /\ h[j] = low + q[j] + FirstOnes(G, over)[j]
      /\ q[i] = (rest * w[i]) \div t /\ q[j] = (rest * w[j]) \div t
      /\ q[i] \in Nat /\ q[j] \in Nat
  BY <1>1 DEF Parts
<1>3. Place(G, i) \in Nat /\ Place(G, j) \in Nat /\ Place(G, i) < Place(G, j)
  BY PlacesInOrder DEF WeightsOf
<1>4. /\ FirstOnes(G, over)[i] = IF Place(G, i) <= over THEN 1 ELSE 0
      /\ FirstOnes(G, over)[j] = IF Place(G, j) <= over THEN 1 ELSE 0
  BY DEF FirstOnes
<1>5. t \in Nat /\ t > 0
  BY PositiveSum DEF WeightsOf
<1>6. w[i] \in Nat /\ w[j] \in Nat
  BY DEF WeightsOf
<1>7. \A x, y \in Nat : x <= y => (rest * x) \div t <= (rest * y) \div t
  <2> TAKE x \in Nat, y \in Nat
  <2> HAVE x <= y
  <2>1. rest * x \in Nat /\ rest * y \in Nat /\ rest * x <= rest * y
    OBVIOUS
  <2> HIDE DEF t
  <2> QED BY <1>5, <2>1, DivisionIsMonotone
<1>8. /\ w[j] <= w[i] => q[j] <= q[i]
      /\ w[i] <= w[j] => q[i] <= q[j]
  <2> HIDE DEF t
  <2> QED BY <1>2, <1>6, <1>7
<1> HIDE DEF h, t, G
<1>9. /\ w[i] >= w[j] => h[i] >= h[j]
      /\ w[i] <= w[j] => h[i] <= h[j] + 1
  BY <1>2, <1>3, <1>4, <1>6, <1>8
<1> QED
  BY <1>9 DEF h

-----------------------------------------------------------------------------
(* Slots: the winners of a prize are no more than its slots.               *)

(* Induction over the numbers up to n.                                     *)
LEMMA CountUp ==
  ASSUME NEW n \in Nat, NEW Good, 0 \in Good,
         \A m \in 0 .. (n - 1) : m \in Good => m + 1 \in Good
  PROVE  \A m \in 0 .. n : m \in Good
<1> DEFINE S == 1 .. n
           Sized == {T \in SUBSET S : Cardinality(T) \in Good}
<1>0. IsFiniteSet(S) /\ Cardinality(S) = n
  BY FS_Interval
<1>1. ASSUME NEW T \in SUBSET S, \A U \in SUBSET T : U # T => U \in Sized
      PROVE  T \in Sized
  <2>1. IsFiniteSet(T) /\ Cardinality(T) \in Nat /\ Cardinality(T) <= n
    BY <1>0, FS_Subset, FS_CardinalityType
  <2>2. CASE T = {}
    BY <2>2, FS_EmptySet
  <2>3. ASSUME NEW a \in T
        PROVE  T \in Sized
    <3>1. Cardinality(T \ {a}) \in Good
      BY <1>1
    <3>2. IsFiniteSet(T \ {a}) /\ Cardinality(T \ {a}) = Cardinality(T) - 1
      BY <2>1, FS_RemoveElement
    <3>3. Cardinality(T \ {a}) \in Nat
      BY <3>2, FS_CardinalityType
    <3>4. Cardinality(T \ {a}) \in 0 .. (n - 1) /\ Cardinality(T) = Cardinality(T \ {a}) + 1
      BY <2>1, <3>2, <3>3
    <3> QED BY <3>1, <3>4
  <2> QED BY <2>2, <2>3
<1>2. \A T \in SUBSET S : T \in Sized
  <2> HIDE DEF Sized
  <2> QED BY <1>0, <1>1, SubsetInduction
<1>3. ASSUME NEW m \in 0 .. n
      PROVE  m \in Good
  <2>1. (1 .. m) \in SUBSET S
    OBVIOUS
  <2>2. Cardinality(1 .. m) = m
    BY FS_Interval
  <2>3. Cardinality(1 .. m) \in Good
    BY <1>2, <2>1
  <2> QED BY <2>2, <2>3
<1> QED
  BY <1>3

(* What FlattenSeq builds, up to the m-th sequence.                        *)
Flat(s, m, g) ==
    g = [i \in 1 .. m |-> IF i = 1 THEN s[i] ELSE g[i - 1] \o s[i]]

LEMMA FlattenIsFlat ==
  ASSUME NEW s, Len(s) # 0
  PROVE  FlattenSeq(s) = (CHOOSE g : Flat(s, Len(s), g))[Len(s)]
BY DEF FlattenSeq, Flat

LEMMA FlatExists ==
  ASSUME NEW s, NEW n \in Nat
  PROVE  \E g : Flat(s, n, g)
<1> DEFINE Good == {m \in Nat : \E g : Flat(s, m, g)}
<1>1. 0 \in Good
  <2>1. Flat(s, 0, [i \in 1 .. 0 |-> s[i]])
    BY DEF Flat
  <2> QED BY <2>1
<1>2. ASSUME NEW m \in 0 .. (n - 1), m \in Good
      PROVE  m + 1 \in Good
  <2>1. PICK g : Flat(s, m, g)
    BY <1>2
  <2> DEFINE h == [i \in 1 .. (m + 1) |->
                     IF i = 1 THEN s[i] ELSE g[i - 1] \o s[i]]
  <2>2. ASSUME NEW i \in 1 .. (m + 1), i # 1
        PROVE  h[i - 1] = g[i - 1]
    <3>1. i - 1 \in 1 .. m /\ i - 1 \in 1 .. (m + 1)
      BY <2>2
    <3>2. g[i - 1] = IF i - 1 = 1 THEN s[i - 1] ELSE g[i - 1 - 1] \o s[i - 1]
      BY <2>1, <3>1 DEF Flat
    <3>3. h[i - 1] = IF i - 1 = 1 THEN s[i - 1] ELSE g[i - 1 - 1] \o s[i - 1]
      BY <3>1
    <3> QED BY <3>2, <3>3
  <2>3. Flat(s, m + 1, h)
    <3>1. \A i \in 1 .. (m + 1) : h[i] = IF i = 1 THEN s[i] ELSE h[i - 1] \o s[i]
      BY <2>2
    <3>2. h = [i \in 1 .. (m + 1) |-> h[i]]
      OBVIOUS
    <3> HIDE DEF h
    <3>3. [i \in 1 .. (m + 1) |-> h[i]]
          = [i \in 1 .. (m + 1) |-> IF i = 1 THEN s[i] ELSE h[i - 1] \o s[i]]
      BY <3>1
    <3> QED BY <3>2, <3>3 DEF Flat
  <2> QED BY <2>3
<1>3. \A m \in 0 .. n : m \in Good
  <2> HIDE DEF Good
  <2> QED BY <1>1, <1>2, CountUp
<1> QED
  BY <1>3

SlotSeqs(ps) == [i \in DOMAIN ps |-> [k \in 1 .. ps[i].slots |-> i]]

(* The slots of each prize stand together in the list.                     *)
LEMMA SlotsTogether ==
  ASSUME NEW ps \in Seq(Prize), NEW g, Flat(SlotSeqs(ps), Len(ps), g)
  PROVE  \A m \in 1 .. Len(ps) :
           /\ g[m] \in Seq(1 .. m)
           /\ \A p \in 1 .. m : \E from \in Nat :
                \A k \in DOMAIN g[m] :
                  g[m][k] = p => k \in (from + 1) .. (from + ps[p].slots)
<1> DEFINE n == Len(ps)
           Fits(m) == /\ g[m] \in Seq(1 .. m)
                      /\ \A p \in 1 .. m : \E from \in Nat :
                           \A k \in DOMAIN g[m] :
                             g[m][k] = p => k \in (from + 1) .. (from + ps[p].slots)
           Good == {m \in Nat : m > 0 => Fits(m)}
<1>0. /\ n \in Nat /\ DOMAIN ps = 1 .. n
      /\ \A i \in 1 .. n : ps[i].slots \in Nat
  <2>1. n \in Nat /\ DOMAIN ps = 1 .. n /\ \A i \in 1 .. n : ps[i] \in Prize
    OBVIOUS
  <2> QED BY <2>1 DEF Prize
<1>1. ASSUME NEW i \in 1 .. n
      PROVE  g[i] = IF i = 1 THEN [k \in 1 .. ps[i].slots |-> i]
                    ELSE g[i - 1] \o [k \in 1 .. ps[i].slots |-> i]
  BY <1>0 DEF Flat, SlotSeqs
<1>2. ASSUME NEW m \in 0 .. (n - 1), m \in Good
      PROVE  m + 1 \in Good
  <2> DEFINE i == m + 1
             own == [k \in 1 .. ps[i].slots |-> i]
  <2>0. i \in 1 .. n /\ ps[i].slots \in Nat /\ m \in Nat
    BY <1>0
  <2>1. own \in Seq(1 .. i) /\ Len(own) = ps[i].slots
    BY <2>0
  <2>2. ASSUME m = 0
        PROVE  Fits(i)
    <3>1. g[i] = own /\ i = 1
      BY <1>1, <2>0, <2>2
    <3>2. \A p \in 1 .. i : \A k \in DOMAIN g[i] : k \in (0 + 1) .. (0 + ps[p].slots)
      BY <2>0, <3>1
    <3>3. Fits(i)
      <4> HIDE DEF own
      <4> QED BY <2>1, <3>1, <3>2
    <3> QED BY <3>3
  <2>3. ASSUME m > 0
        PROVE  Fits(i)
    <3>1. Fits(m)
      BY <1>2, <2>3
    <3>2. g[i] = g[m] \o own
      <4>1. i # 1 /\ i - 1 = m
        BY <2>0, <2>3
      <4> QED BY <1>1, <2>0, <4>1
    <3> DEFINE l == Len(g[m])
    <3>3. /\ g[m] \in Seq(1 .. m) /\ l \in Nat /\ DOMAIN g[m] = 1 .. l
          /\ \A k \in 1 .. l : g[m][k] \in 1 .. m
      BY <3>1
    <3>4. /\ g[i] \in Seq(1 .. i)
          /\ DOMAIN g[i] = 1 .. (l + ps[i].slots)
          /\ \A k \in 1 .. l : g[i][k] = g[m][k]
          /\ \A k \in (l + 1) .. (l + ps[i].slots) : g[i][k] = i
      <4>1. g[m] \in Seq(1 .. i)
        BY <2>0, <3>3
      <4>0. /\ g[i] \in Seq(1 .. i) /\ Len(g[i]) = l + ps[i].slots
            /\ \A k \in 1 .. (l + ps[i].slots) :
                 g[i][k] = IF k <= l THEN g[m][k] ELSE own[k - l]
        <5> HIDE DEF own, i
        <5>1. /\ g[m] \o own \in Seq(1 .. i)
              /\ Len(g[m] \o own) = l + Len(own)
              /\ \A k \in 1 .. (l + Len(own)) :
                   (g[m] \o own)[k] = IF k <= l THEN g[m][k] ELSE own[k - l]
          BY <2>1, <4>1, ConcatProperties
        <5> QED BY <2>1, <3>2, <5>1
      <4>2. g[i] \in Seq(1 .. i) /\ DOMAIN g[i] = 1 .. (l + ps[i].slots)
        <5> HIDE DEF i
        <5> QED BY <4>0
      <4>3. \A k \in 1 .. l : g[i][k] = g[m][k]
        <5> HIDE DEF own, i, l
        <5>1. \A k \in 1 .. l : k <= l /\ k \in 1 .. (l + ps[i].slots)
          BY <2>0, <3>3
        <5> QED BY <4>0, <5>1
      <4>4. ASSUME NEW k \in (l + 1) .. (l + ps[i].slots)
            PROVE  g[i][k] = i
        <5>1. g[i][k] = own[k - l]
          <6> HIDE DEF own, i
          <6> QED BY <2>0, <3>3, <4>0
        <5>2. k - l \in 1 .. ps[i].slots
          BY <2>0, <3>3
        <5> QED BY <5>1, <5>2
      <4> QED BY <4>2, <4>3, <4>4
    <3>5. ASSUME NEW p \in 1 .. i
          PROVE  \E from \in Nat : \A k \in DOMAIN g[i] :
                   g[i][k] = p => k \in (from + 1) .. (from + ps[p].slots)
      <4>1. CASE p = i
        <5>1. ASSUME NEW k \in DOMAIN g[i], g[i][k] = p
              PROVE  k \in (l + 1) .. (l + ps[p].slots)
          <6>1. ASSUME k \in 1 .. l PROVE FALSE
            <7>1. g[m][k] = i /\ g[m][k] \in 1 .. m
              BY <3>3, <3>4, <4>1, <5>1, <6>1
            <7>2. m + 1 \notin 1 .. m
              BY <2>0
            <7> QED BY <7>1, <7>2
          <6>2. k \in 1 .. (l + ps[i].slots)
            BY <3>4, <5>1
          <6> QED BY <2>0, <3>3, <4>1, <6>1, <6>2
        <5> QED BY <3>3, <5>1
      <4>2. CASE p # i
        <5>1. p \in 1 .. m
          BY <2>0, <4>2
        <5>2. PICK from \in Nat : \A k \in DOMAIN g[m] :
                g[m][k] = p => k \in (from + 1) .. (from + ps[p].slots)
          BY <3>1, <5>1
        <5>3. ASSUME NEW k \in DOMAIN g[i], g[i][k] = p
              PROVE  k \in (from + 1) .. (from + ps[p].slots)
          <6>1. k \notin (l + 1) .. (l + ps[i].slots)
            BY <3>4, <4>2, <5>3
          <6>2. k \in 1 .. l
            BY <2>0, <3>3, <3>4, <6>1
          <6> QED BY <3>3, <3>4, <5>2, <5>3, <6>2
        <5> QED BY <5>3
      <4> QED BY <4>1, <4>2
    <3> QED BY <3>4, <3>5
  <2>4. Fits(i) => m + 1 \in Good
    <3> HIDE DEF Fits
    <3> QED BY <2>0
  <2>5. m = 0 \/ m > 0
    BY <2>0
  <2>6. Fits(i)
    <3> HIDE DEF Fits
    <3> QED BY <2>2, <2>3, <2>5
  <2> QED BY <2>4, <2>6, Zenon
<1>3. 0 \in Good
  OBVIOUS
<1>4. \A m \in 0 .. n : m \in Good
  <2> HIDE DEF Good
  <2> QED BY <1>0, <1>2, <1>3, CountUp
<1>5. \A m \in 1 .. n : Fits(m)
  <2> HIDE DEF Fits
  <2> QED BY <1>0, <1>4
<1> QED
  BY <1>5

LEMMA GroupFits ==
  ASSUME NEW ps \in Seq(Prize)
  PROVE  /\ Len(SlotList(ps)) \in Nat
         /\ \A p \in DOMAIN ps, n \in 0 .. Len(SlotList(ps)) :
              Cardinality({i \in 1 .. n : SlotList(ps)[i] = p}) <= ps[p].slots
<1> DEFINE s == SlotSeqs(ps)
           l == SlotList(ps)
<1>1. l = FlattenSeq(s)
  BY DEF SlotList, SlotSeqs
<1>2. DOMAIN ps = 1 .. Len(ps) /\ Len(ps) \in Nat
  OBVIOUS
<1>3. DOMAIN s = 1 .. Len(ps) /\ s \in Seq({s[i] : i \in 1 .. Len(ps)}) /\ Len(s) = Len(ps)
  <2>1. s = [i \in 1 .. Len(ps) |-> [k \in 1 .. ps[i].slots |-> i]]
    BY <1>2 DEF SlotSeqs
  <2> HIDE DEF s
  <2> QED BY <1>2, <2>1
<1>4. CASE Len(ps) = 0
  <2>1. l = s
    BY <1>1, <1>3, <1>4 DEF FlattenSeq
  <2> QED BY <1>2, <1>3, <1>4, <2>1
<1>5. CASE Len(ps) # 0
  <2>1. PICK g : Flat(s, Len(ps), g) /\ l = g[Len(ps)]
    <3>1. \E g : Flat(s, Len(ps), g)
      <4> HIDE DEF s
      <4> QED BY <1>2, FlatExists
    <3>2. Flat(s, Len(ps), CHOOSE g : Flat(s, Len(ps), g))
      BY <3>1
    <3>3. l = (CHOOSE g : Flat(s, Len(ps), g))[Len(ps)]
      <4> HIDE DEF s, l
      <4> QED BY <1>1, <1>3, <1>5, FlattenIsFlat
    <3> HIDE DEF l, s
    <3> QED BY <3>2, <3>3
  <2>2. Len(ps) \in 1 .. Len(ps)
    BY <1>2, <1>5
  <2>3. /\ l \in Seq(1 .. Len(ps))
        /\ \A p \in 1 .. Len(ps) : \E from \in Nat :
             \A k \in DOMAIN l : l[k] = p => k \in (from + 1) .. (from + ps[p].slots)
    <3> HIDE DEF l
    <3> QED BY <2>1, <2>2, SlotsTogether
  <2>4. Len(l) \in Nat /\ DOMAIN l = 1 .. Len(l)
    <3> HIDE DEF l
    <3> QED BY <2>3
  <2>5. ASSUME NEW p \in DOMAIN ps, NEW n \in 0 .. Len(l)
        PROVE  Cardinality({i \in 1 .. n : l[i] = p}) <= ps[p].slots
    <3> DEFINE G == {i \in 1 .. n : l[i] = p}
    <3>1. PICK from \in Nat :
            \A k \in DOMAIN l : l[k] = p => k \in (from + 1) .. (from + ps[p].slots)
      BY <1>2, <2>3
    <3>2. ps[p].slots \in Nat
      <4>1. ps[p] \in Prize
        OBVIOUS
      <4> QED BY <4>1 DEF Prize
    <3>3. \A i \in 1 .. n : i \in DOMAIN l
      <4> HIDE DEF l
      <4> QED BY <2>4
    <3> DEFINE I == (from + 1) .. (from + ps[p].slots)
    <3>4. G \in SUBSET I
      <4> HIDE DEF l
      <4> QED BY <3>1, <3>3
    <3>5. IsFiniteSet(I) /\ Cardinality(I) = ps[p].slots
      <4>1. from + 1 \in Int /\ from + ps[p].slots \in Int
        BY <3>2
      <4>2. /\ IsFiniteSet(I)
            /\ Cardinality(I) = IF from + 1 > from + ps[p].slots THEN 0
                                ELSE (from + ps[p].slots) - (from + 1) + 1
        BY <4>1, FS_Interval
      <4> HIDE DEF I
      <4> QED BY <3>2, <4>2
    <3>6. Cardinality(G) <= Cardinality(I)
      <4> HIDE DEF G, I
      <4> QED BY <3>4, <3>5, FS_Subset
    <3> QED BY <3>5, <3>6
  <2> QED BY <2>4, <2>5
<1> QED
  BY <1>4, <1>5

-----------------------------------------------------------------------------
(* The invariant *)

(* What each prize may cost, as PlanBudget adds it up.                     *)
Budgets == [i \in DOMAIN prizes |->
               IF prizes[i].delivery = "point" THEN PrizePointBudget(prizes[i]) ELSE 0]

GroupWeights(p) == [i \in Group(p) |-> weight[i]]

Drawable ==
    /\ prizes \in Seq(Prize)
    /\ \E n \in 0 .. Len(SlotList(prizes)) : weight \in [1 .. n -> Nat \ {0}]
    /\ escrow = SumFunctionOnSet(Budgets, DOMAIN prizes)

ToStamp ==
    /\ left \subseteq {p \in DOMAIN prizes : prizes[p].delivery = "point" /\ Group(p) # {}}
    /\ awarded \in [DOMAIN weight -> Nat]
    /\ \A i \in DOMAIN weight :
          LET p == SlotList(prizes)[i]
          IN  p \in left \/ p \notin DOMAIN prizes \/ prizes[p].delivery # "point"
              => awarded[i] = 0

Stamped ==
    \A p \in DOMAIN prizes \ left :
        prizes[p].delivery = "point" /\ Group(p) # {} =>
            \A i \in Group(p) : awarded[i] = PointPayouts(prizes[p], GroupWeights(p))[i]

WithinBudgets == Paid <= SumFunctionOnSet(Budgets, DOMAIN prizes \ left)

Settled == drawn => /\ left = {}
                    /\ refund = IF escrow <= Paid THEN 0 ELSE escrow - Paid

PayoutInv == Drawable /\ ToStamp /\ Stamped /\ WithinBudgets /\ Settled

LEMMA PrizesAreFinite ==
  ASSUME Drawable
  PROVE  /\ IsFiniteSet(DOMAIN prizes) /\ \A p \in DOMAIN prizes : prizes[p] \in Prize
         /\ \A p \in DOMAIN prizes : Budgets[p] \in Nat
         /\ DOMAIN weight \in SUBSET Nat /\ IsFiniteSet(DOMAIN weight)
         /\ \A i \in DOMAIN weight : weight[i] \in Nat \ {0}
<1>1. /\ DOMAIN prizes = 1 .. Len(prizes) /\ Len(prizes) \in Nat
      /\ \A p \in DOMAIN prizes : prizes[p] \in Prize
  BY DEF Drawable
<1>2. IsFiniteSet(DOMAIN prizes)
  BY <1>1, FS_Interval
<1>3. ASSUME NEW p \in DOMAIN prizes
      PROVE  Budgets[p] \in Nat
  <2>1. prizes[p].pointAmount \in Nat /\ prizes[p].slots \in Nat
    BY <1>1 DEF Prize
  <2>2. prizes[p].pointAmount * prizes[p].slots \in Nat
    BY <2>1
  <2> QED BY <2>1, <2>2 DEF Budgets, PrizePointBudget
<1>4. PICK n \in 0 .. Len(SlotList(prizes)) : weight \in [1 .. n -> Nat \ {0}]
  BY DEF Drawable
<1>5. n \in Int
  BY GroupFits DEF Drawable
<1>6. IsFiniteSet(1 .. n) /\ 1 .. n \in SUBSET Nat
  BY <1>5, FS_Interval
<1> QED
  BY <1>1, <1>2, <1>3, <1>4, <1>6

(* A prize with winners: what pointPayouts is given, and what it gives.    *)
LEMMA GroupPaid ==
  ASSUME Drawable, NEW p \in DOMAIN prizes, Group(p) # {}
  PROVE  LET amount == PointPayouts(prizes[p], GroupWeights(p))
             total  == SumFunctionOnSet(amount, Group(p))
         IN  /\ IsFiniteSet(Group(p)) /\ WeightsOf(GroupWeights(p))
             /\ \A i \in Group(p) : amount[i] \in Nat
             /\ total \in Nat /\ total <= PrizePointBudget(prizes[p])
             /\ IsPointPool(prizes[p].pointMode) => total = prizes[p].pointAmount
<1> DEFINE w == GroupWeights(p)
<1>1. PICK n \in 0 .. Len(SlotList(prizes)) : weight \in [1 .. n -> Nat \ {0}]
  BY DEF Drawable
<1>2. Group(p) = {i \in 1 .. n : SlotList(prizes)[i] = p}
  BY <1>1 DEF Group
<1>3. Cardinality(Group(p)) <= prizes[p].slots
  BY <1>2, GroupFits DEF Drawable
<1>4. DOMAIN w = Group(p) /\ \A i \in Group(p) : w[i] = weight[i]
  BY DEF GroupWeights
<1>5. Group(p) \in SUBSET (DOMAIN weight)
  BY DEF Group
<1>6. IsFiniteSet(Group(p))
  BY <1>5, PrizesAreFinite, FS_Subset
<1> HIDE DEF w
<1>7. WeightsOf(w)
  BY <1>4, <1>5, <1>6, PrizesAreFinite DEF WeightsOf
<1>8. prizes[p] \in Prize
  BY PrizesAreFinite
<1> QED
  BY <1>3, <1>4, <1>6, <1>7, <1>8, PayoutsWithinPrize DEF w

LEMMA PayoutInit == Init => PayoutInv
<1> SUFFICES ASSUME Init PROVE PayoutInv
  OBVIOUS
<1>1. Drawable
  <2>1. prizes \in Seq(Prize)
    BY PayoutConstantsOK DEF Prize, Init
  <2>2. \E n \in 0 .. Len(SlotList(prizes)) : weight \in [1 .. n -> Nat \ {0}]
    <3>1. PICK n \in 0 .. Len(SlotList(prizes)) : weight \in [1 .. n -> Weights]
      BY DEF Init
    <3> QED BY <3>1, PayoutConstantsOK
  <2>3. escrow = SumFunctionOnSet(Budgets, DOMAIN prizes)
    <3>1. DOMAIN Budgets = DOMAIN prizes
      BY DEF Budgets
    <3>2. escrow = SumFunction(Budgets)
      BY DEF Init, PlanBudget, Budgets
    <3> QED BY <3>1, <3>2 DEF SumFunction
  <2> QED BY <2>1, <2>2, <2>3 DEF Drawable
<1>2. /\ awarded = [i \in DOMAIN weight |-> 0] /\ ~drawn
      /\ left = {p \in DOMAIN prizes : prizes[p].delivery = "point" /\ Group(p) # {}}
  BY DEF Init
<1>3. ToStamp
  <2>1. awarded \in [DOMAIN weight -> Nat] /\ \A i \in DOMAIN weight : awarded[i] = 0
    BY <1>2
  <2> QED BY <1>2, <2>1 DEF ToStamp
<1>4. Stamped
  BY <1>2 DEF Stamped
<1>5. WithinBudgets
  <2>1. \A i \in DOMAIN weight : awarded[i] = 0
    BY <1>2
  <2>2. Paid = Cardinality(DOMAIN weight) * 0
    <3>1. DOMAIN awarded = DOMAIN weight
      BY <1>2
    <3>2. SumFunctionOnSet(awarded, DOMAIN weight) = Cardinality(DOMAIN weight) * 0
      BY <1>1, <2>1, PrizesAreFinite, SumOfConstant
    <3> QED BY <3>1, <3>2 DEF Paid, SumFunction
  <2>3. Cardinality(DOMAIN weight) \in Nat
    BY <1>1, PrizesAreFinite, FS_CardinalityType
  <2> DEFINE D == DOMAIN prizes \ left
  <2>4. IsFiniteSet(D) /\ \A p \in D : Budgets[p] \in Nat
    BY <1>1, PrizesAreFinite, FS_Subset
  <2> HIDE DEF D
  <2>5. SumFunctionOnSet(Budgets, D) \in Nat
    BY <2>4, SumTakesOff
  <2>6. Paid = 0
    <3>1. \A m \in Nat : m * 0 = 0
      OBVIOUS
    <3> QED BY <2>2, <2>3, <3>1
  <2> QED BY <2>5, <2>6 DEF WithinBudgets, D
<1>6. Settled
  BY <1>2 DEF Settled
<1> QED
  BY <1>1, <1>3, <1>4, <1>5, <1>6 DEF PayoutInv

LEMMA StampKeepsInv ==
  ASSUME PayoutInv, NEW p \in DOMAIN prizes, Stamp(p)
  PROVE  PayoutInv'
<1> DEFINE G == Group(p)
           W == DOMAIN weight
           amount == PointPayouts(prizes[p], GroupWeights(p))
<1>0. /\ Drawable /\ ToStamp /\ Stamped /\ WithinBudgets /\ Settled
      /\ p \in left /\ left' = left \ {p}
      /\ UNCHANGED <<prizes, weight, escrow, refund, drawn>>
      /\ awarded' = [i \in W |-> IF i \in G THEN amount[i] ELSE awarded[i]]
  BY DEF PayoutInv, Stamp, GroupWeights
<1>1. /\ \A q : Group(q)' = Group(q) /\ GroupWeights(q)' = GroupWeights(q)
      /\ Budgets' = Budgets
  BY <1>0 DEF Group, GroupWeights, Budgets
<1>2. /\ G # {} /\ prizes[p].delivery = "point"
      /\ G \subseteq W /\ \A i \in W : i \in G <=> SlotList(prizes)[i] = p
  BY <1>0 DEF ToStamp, Group
<1>3. /\ IsFiniteSet(G) /\ \A i \in G : amount[i] \in Nat
      /\ SumFunctionOnSet(amount, G) \in Nat
      /\ SumFunctionOnSet(amount, G) <= PrizePointBudget(prizes[p])
  <2> HIDE DEF amount
  <2> QED BY <1>0, <1>2, GroupPaid DEF amount
<1>4. Drawable'
  BY <1>0, <1>1 DEF Drawable
<1> HIDE DEF amount, G
<1>5. /\ \A i \in G : awarded'[i] = amount[i]
      /\ \A i \in W \ G : awarded'[i] = awarded[i]
      /\ DOMAIN awarded' = W /\ DOMAIN awarded = W
      /\ \A i \in W : awarded[i] \in Nat /\ awarded'[i] \in Nat
  BY <1>0, <1>2, <1>3 DEF ToStamp
<1>6. ToStamp'
  <2>1. ASSUME NEW i \in W, LET q == SlotList(prizes)[i]
                            IN  q \in left' \/ q \notin DOMAIN prizes \/ prizes[q].delivery # "point"
        PROVE  awarded'[i] = 0
    <3>1. i \notin G
      BY <1>0, <1>2, <2>1
    <3> QED BY <1>0, <1>5, <2>1, <3>1 DEF ToStamp
  <2>2. awarded' \in [W -> Nat]
    BY <1>0, <1>5
  <2>3. left' \subseteq {q \in DOMAIN prizes : prizes[q].delivery = "point" /\ Group(q) # {}}
    BY <1>0 DEF ToStamp
  <2>4. \A i \in W : LET q == SlotList(prizes)[i]
                     IN  q \in left' \/ q \notin DOMAIN prizes \/ prizes[q].delivery # "point"
                         => awarded'[i] = 0
    BY <2>1
  <2> QED BY <1>0, <1>1, <2>2, <2>3, <2>4 DEF ToStamp
<1>7. Stamped'
  <2>1. ASSUME NEW q \in DOMAIN prizes \ left', prizes[q].delivery = "point", NEW i \in Group(q)
        PROVE  awarded'[i] = PointPayouts(prizes[q], GroupWeights(q))[i]
    <3>1. CASE q = p
      BY <1>5, <2>1, <3>1 DEF amount, G
    <3>2. CASE q # p
      <4>1. i \in W \ G
        BY <3>2 DEF G, Group
      <4>2. q \in DOMAIN prizes \ left
        BY <1>0, <3>2
      <4> QED BY <1>0, <1>5, <2>1, <4>1, <4>2 DEF Stamped
    <3> QED BY <3>1, <3>2
  <2> QED BY <1>0, <1>1, <2>1 DEF Stamped
<1>8. WithinBudgets'
  <2>0. IsFiniteSet(W) /\ IsFiniteSet(W \ G)
    BY <1>0, PrizesAreFinite, FS_Subset
  <2>1. \A f : (\A i \in W : f[i] \in Nat) =>
          /\ SumFunctionOnSet(f, W) = SumFunctionOnSet(f, W \ G) + SumFunctionOnSet(f, G)
          /\ SumFunctionOnSet(f, W \ G) \in Nat /\ SumFunctionOnSet(f, G) \in Nat
    <3> TAKE f
    <3> HAVE \A i \in W : f[i] \in Nat
    <3>1. W = (W \ G) \cup G /\ (W \ G) \cap G = {}
      BY <1>2 DEF G
    <3>2. G \subseteq W
      BY <1>2 DEF G
    <3>3. /\ SumFunctionOnSet(f, W \ G) \in Nat /\ SumFunctionOnSet(f, G) \in Nat
      BY <1>3, <2>0, <3>2, SumTakesOff
    <3>4. SumFunctionOnSet(f, (W \ G) \cup G)
            = SumFunctionOnSet(f, W \ G) + SumFunctionOnSet(f, G)
      BY <1>3, <2>0, <3>1, <3>2, SumOfUnion
    <3> QED BY <3>1, <3>3, <3>4, Zenon
  <2>2. SumFunctionOnSet(awarded', W \ G) = SumFunctionOnSet(awarded, W \ G)
    BY <1>5, <2>0, SumSame
  <2>3. SumFunctionOnSet(awarded', G) = SumFunctionOnSet(amount, G)
    BY <1>3, <1>5, SumSame
  <2>4. SumFunctionOnSet(awarded, G) = 0
    <3>1. \A i \in G : awarded[i] = 0
      BY <1>0, <1>2 DEF ToStamp, G
    <3>2. SumFunctionOnSet(awarded, G) = Cardinality(G) * 0 /\ Cardinality(G) \in Nat
      BY <1>3, <3>1, SumOfConstant, FS_CardinalityType
    <3> QED BY <3>2
  <2>5. Paid' = Paid + SumFunctionOnSet(amount, G) /\ Paid \in Nat
    <3>1. /\ Paid = SumFunctionOnSet(awarded, W) /\ Paid' = SumFunctionOnSet(awarded', W)
      BY <1>5 DEF Paid, SumFunction
    <3> QED BY <1>3, <1>5, <2>1, <2>2, <2>3, <2>4, <3>1
  <2> DEFINE D == DOMAIN prizes \ left
             E == DOMAIN prizes \ left'
  <2>6. IsFiniteSet(E) /\ p \in E /\ E \ {p} = D /\ \A q \in E : Budgets[q] \in Nat
    BY <1>0, PrizesAreFinite, FS_Subset
  <2>7. Budgets[p] = PrizePointBudget(prizes[p])
    BY <1>2 DEF Budgets
  <2> HIDE DEF D, E
  <2>8. /\ SumFunctionOnSet(Budgets, E) = Budgets[p] + SumFunctionOnSet(Budgets, D)
        /\ SumFunctionOnSet(Budgets, D) \in Nat
    <3>1. /\ SumFunctionOnSet(Budgets, E) = Budgets[p] + SumFunctionOnSet(Budgets, E \ {p})
          /\ SumFunctionOnSet(Budgets, E \ {p}) \in Nat
      BY <2>6, SumTakesOff
    <3> QED BY <2>6, <3>1, Zenon
  <2>9. Paid <= SumFunctionOnSet(Budgets, D)
    BY <1>0 DEF WithinBudgets, D
  <2>10. Budgets[p] \in Nat
    BY <2>6
  <2>11. Paid' <= SumFunctionOnSet(Budgets, E)
    BY <1>3, <2>5, <2>7, <2>8, <2>9, <2>10
  <2> QED BY <1>0, <1>1, <2>11 DEF WithinBudgets, E
<1>9. Settled'
  BY <1>0 DEF Settled
<1> QED
  BY <1>4, <1>6, <1>7, <1>8, <1>9 DEF PayoutInv

LEMMA RefundKeepsInv ==
  ASSUME PayoutInv, Refund
  PROVE  PayoutInv'
<1>1. /\ UNCHANGED <<prizes, weight, awarded, left, escrow>> /\ left = {}
      /\ refund' = IF escrow <= Paid THEN 0 ELSE escrow - Paid
  BY DEF Refund
<1>2. /\ \A q : Group(q)' = Group(q) /\ GroupWeights(q)' = GroupWeights(q)
      /\ Budgets' = Budgets /\ Paid' = Paid
  BY <1>1 DEF Group, GroupWeights, Budgets, Paid
<1>3. Drawable' /\ ToStamp' /\ Stamped' /\ WithinBudgets'
  BY <1>1, <1>2 DEF PayoutInv, Drawable, ToStamp, Stamped, WithinBudgets
<1>4. Settled'
  BY <1>1, <1>2 DEF Settled
<1> QED
  BY <1>3, <1>4 DEF PayoutInv

(* The inductive invariant holds throughout the stamping of a draw.        *)
THEOREM PayoutInvariant == Spec => []PayoutInv
<1>1. ASSUME PayoutInv, [Next]_vars
      PROVE  PayoutInv'
  <2>1. CASE UNCHANGED vars
    <3>1. UNCHANGED <<prizes, weight, awarded, left, escrow, refund, drawn>>
      BY <2>1 DEF vars
    <3>2. /\ \A q : Group(q)' = Group(q) /\ GroupWeights(q)' = GroupWeights(q)
          /\ Budgets' = Budgets /\ Paid' = Paid
      BY <3>1 DEF Group, GroupWeights, Budgets, Paid
    <3> QED BY <1>1, <3>1, <3>2
            DEF PayoutInv, Drawable, ToStamp, Stamped, WithinBudgets, Settled
  <2>2. ASSUME NEW p \in DOMAIN prizes, Stamp(p)
        PROVE  PayoutInv'
    BY <1>1, <2>2, StampKeepsInv
  <2>3. CASE Refund
    BY <1>1, <2>3, RefundKeepsInv
  <2> QED BY <1>1, <2>1, <2>2, <2>3 DEF Next
<1> QED
  BY <1>1, PayoutInit, PTL DEF Spec

-----------------------------------------------------------------------------
(* The properties *)

(* Whatever prizes a list within the budget limit offers, whoever enters   *)
(* and whatever the weights, the points the winners and the author get are *)
(* those the author was charged: escrowRefund never has to clamp.          *)
THEOREM PayoutsWithinBudget == Spec => []BudgetCoversPayouts
<1>1. ASSUME PayoutInv, drawn
      PROVE  Paid + refund = escrow
  <2>1. /\ Drawable /\ left = {} /\ refund = IF escrow <= Paid THEN 0 ELSE escrow - Paid
        /\ Paid <= SumFunctionOnSet(Budgets, DOMAIN prizes \ left)
        /\ escrow = SumFunctionOnSet(Budgets, DOMAIN prizes)
        /\ awarded \in [DOMAIN weight -> Nat]
    BY <1>1 DEF PayoutInv, Settled, WithinBudgets, Drawable, ToStamp
  <2>2. DOMAIN prizes \ left = DOMAIN prizes
    BY <2>1
  <2>3. Paid <= escrow
    BY <2>1, <2>2, Zenon
  <2>4. escrow \in Nat
    BY <2>1, PrizesAreFinite, SumTakesOff
  <2>5. Paid \in Nat
    <3>1. DOMAIN awarded = DOMAIN weight /\ \A i \in DOMAIN weight : awarded[i] \in Nat
      BY <2>1
    <3>2. SumFunctionOnSet(awarded, DOMAIN weight) \in Nat
      BY <2>1, <3>1, PrizesAreFinite, SumTakesOff
    <3> QED BY <3>1, <3>2 DEF Paid, SumFunction
  <2> QED BY <2>1, <2>3, <2>4, <2>5
<1>2. PayoutInv => BudgetCoversPayouts
  BY <1>1 DEF BudgetCoversPayouts
<1> QED
  BY <1>2, PayoutInvariant, PTL

(* A point pool, split evenly or by luck, is paid out to the last point,   *)
(* however many of its slots found a winner.                               *)
THEOREM PoolsSpentExactly == Spec => []PoolSpentExactly
<1>1. ASSUME PayoutInv, drawn, NEW p \in DOMAIN prizes,
             prizes[p].delivery = "point", IsPointPool(prizes[p].pointMode), Group(p) # {}
      PROVE  SumFunctionOnSet(awarded, Group(p)) = prizes[p].pointAmount
  <2> DEFINE amount == PointPayouts(prizes[p], GroupWeights(p))
  <2>1. Drawable /\ \A i \in Group(p) : awarded[i] = amount[i]
    BY <1>1 DEF PayoutInv, Settled, Stamped
  <2>2. IsFiniteSet(Group(p)) /\ SumFunctionOnSet(amount, Group(p)) = prizes[p].pointAmount
    BY <1>1, <2>1, GroupPaid
  <2>3. SumFunctionOnSet(awarded, Group(p)) = SumFunctionOnSet(amount, Group(p))
    <3> HIDE DEF amount
    <3> QED BY <2>1, <2>2, SumSame
  <2> QED BY <2>2, <2>3
<1>2. PayoutInv => PoolSpentExactly
  BY <1>1 DEF PoolSpentExactly
<1> QED
  BY <1>2, PayoutInvariant, PTL

(* Of two winners of one prize the better ranked is never behind in an     *)
(* even split, and in a lucky one only by weight, or by the single point   *)
(* that is given out in ranking order.                                     *)
THEOREM SharesFollowTheDraw == Spec => []SharesFollowDraw
<1>1. ASSUME PayoutInv, drawn, NEW i \in DOMAIN weight, NEW j \in DOMAIN weight,
             i < j, SlotList(prizes)[i] = SlotList(prizes)[j]
      PROVE  LET p == prizes[SlotList(prizes)[i]] IN
               /\ p.pointMode = "split" => awarded[i] - awarded[j] \in {0, 1}
               /\ p.pointMode = "random" =>
                     /\ weight[i] >= weight[j] => awarded[i] >= awarded[j]
                     /\ weight[i] <= weight[j] => awarded[i] <= awarded[j] + 1
  <2> DEFINE p == SlotList(prizes)[i]
             w == GroupWeights(p)
  <2>1. Drawable /\ ToStamp /\ Stamped /\ left = {}
    BY <1>1 DEF PayoutInv, Settled
  <2>2. CASE p \notin DOMAIN prizes \/ prizes[p].delivery # "point"
    <3>1. awarded[i] = 0 /\ awarded[j] = 0
      BY <1>1, <2>1, <2>2 DEF ToStamp
    <3> QED BY <3>1
  <2>3. CASE p \in DOMAIN prizes /\ prizes[p].delivery = "point"
    <3>1. i \in Group(p) /\ j \in Group(p)
      BY <1>1 DEF Group
    <3>2. DOMAIN w = Group(p) /\ w[i] = weight[i] /\ w[j] = weight[j]
      BY <3>1 DEF GroupWeights
    <3>3. /\ awarded[i] = PointPayouts(prizes[p], w)[i]
          /\ awarded[j] = PointPayouts(prizes[p], w)[j]
      BY <2>1, <2>3, <3>1 DEF Stamped
    <3>4. WeightsOf(w) /\ prizes[p].pointAmount \in Nat
      <4>1. prizes[p] \in Prize
        BY <2>1, <2>3, PrizesAreFinite
      <4> QED BY <2>1, <2>3, <3>1, <4>1, GroupPaid DEF Prize
    <3> HIDE DEF w, p
    <3>5. CASE prizes[p].pointMode = "split"
      <4>1. PointPayouts(prizes[p], w) = EqualShares(prizes[p].pointAmount, Group(p))
        BY <3>2, <3>5 DEF PointPayouts
      <4>2. Group(p) \in SUBSET Nat /\ IsFiniteSet(Group(p))
        BY <3>2, <3>4 DEF WeightsOf
      <4>3. awarded[i] - awarded[j] \in {0, 1}
        BY <1>1, <3>1, <3>3, <3>4, <4>1, <4>2, EqualSharesInOrder
      <4> QED BY <3>5, <4>3 DEF p
    <3>6. CASE prizes[p].pointMode = "random"
      <4>1. PointPayouts(prizes[p], w) = LuckyShares(prizes[p].pointAmount, w)
        BY <3>6 DEF PointPayouts
      <4>2. /\ w[i] >= w[j] => awarded[i] >= awarded[j]
            /\ w[i] <= w[j] => awarded[i] <= awarded[j] + 1
        BY <1>1, <3>1, <3>2, <3>3, <3>4, <4>1, LuckySharesInOrder
      <4> QED BY <3>2, <3>6, <4>2 DEF p
    <3> QED BY <3>5, <3>6 DEF p
  <2> QED BY <2>2, <2>3
<1>2. PayoutInv => SharesFollowDraw
  BY <1>1 DEF SharesFollowDraw
<1> QED
  BY <1>2, PayoutInvariant, PTL

-----------------------------------------------------------------------------
(* The floors of a rule.                                                   *)

LEMMA PlacesAreTaken ==
  ASSUME NEW S \in SUBSET Nat, IsFiniteSet(S), NEW i \in 1 .. Cardinality(S)
  PROVE  \E f \in S : Place(S, f) = i
<1> DEFINE p == [f \in S |-> Place(S, f)]
           n == Cardinality(S)
<1>0. n \in Nat /\ IsFiniteSet(1 .. n) /\ Cardinality(1 .. n) = n
  BY FS_CardinalityType, FS_Interval
<1>1. p \in [S -> 1 .. n]
  BY PlacesInOrder
<1>2. \A f, g \in S : p[f] = p[g] => f = g
  <2> SUFFICES ASSUME NEW f \in S, NEW g \in S, Place(S, f) = Place(S, g), f # g
               PROVE  FALSE
    OBVIOUS
  <2>1. Place(S, f) \in 1 .. n /\ Place(S, g) \in 1 .. n
    BY PlacesInOrder
  <2>2. f < g \/ g < f
    OBVIOUS
  <2>3. Place(S, f) < Place(S, g) \/ Place(S, g) < Place(S, f)
    BY <2>2, PlacesInOrder
  <2> QED BY <1>0, <2>1, <2>3
<1>3. p \in Injection(S, 1 .. n)
  BY <1>1, <1>2 DEF Injection, IsInjective
<1>4. p \in Surjection(S, 1 .. n)
  <2> HIDE DEF p, n
  <2> QED BY <1>0, <1>3, FS_Injection DEF n
<1> QED
  BY <1>4 DEF Surjection

(* The floors of a rule rise, whether it counts or lists them.             *)
LEMMA FloorsRise ==
  ASSUME NEW r \in Rules, NEW n \in Nat, Parses(r, n)
  PROVE  /\ \A i \in 1 .. n : FloorsOf(r, n)[i] \in Nat
         /\ \A i, j \in 1 .. n : i < j => FloorsOf(r, n)[i] < FloorsOf(r, n)[j]
<1> DEFINE S == ToSet(r.list)
<1>0. r.every \in Nat /\ r.list \in Seq(Nat \ {0})
  BY FloorConstantsOK
<1>1. CASE r.every > 0
  <2>1. \A i \in 1 .. n : FloorsOf(r, n)[i] = r.every * i
    BY <1>1 DEF FloorsOf
  <2>2. \A x, y, z \in Nat : x > 0 /\ y < z => x * y < x * z
    OBVIOUS
  <2>3. \A x, y \in Nat : x * y \in Nat
    OBVIOUS
  <2>4. \A i \in 1 .. n : i \in Nat
    OBVIOUS
  <2> QED BY <1>0, <1>1, <2>1, <2>2, <2>3, <2>4
<1>2. CASE ~(r.every > 0)
  <2>1. \A i \in 1 .. n : FloorsOf(r, n)[i] = Lowest(S, i)
    BY <1>2 DEF FloorsOf
  <2>2. S \in SUBSET Nat /\ IsFiniteSet(S)
    <3>1. S = {r.list[k] : k \in 1 .. Len(r.list)} /\ Len(r.list) \in Nat
      BY <1>0 DEF ToSet
    <3>2. IsFiniteSet(1 .. Len(r.list))
      BY <3>1, FS_Interval
    <3>3. IsFiniteSet(S)
      <4> DEFINE f == [k \in 1 .. Len(r.list) |-> r.list[k]]
      <4>1. S = {f[k] : k \in DOMAIN f} /\ DOMAIN f = 1 .. Len(r.list)
        BY <3>1
      <4>2. f \in Surjection(1 .. Len(r.list), S)
        BY <4>1 DEF Surjection
      <4> QED BY <3>2, <4>2, FS_Surjection
    <3> QED BY <1>0, <3>1, <3>3
  <2>3. Cardinality(S) = n
    BY <1>2 DEF Parses
  <2>4. \A i \in 1 .. n : Lowest(S, i) \in S /\ Place(S, Lowest(S, i)) = i
    <3> TAKE i \in 1 .. n
    <3> HIDE DEF S
    <3>1. \E f \in S : Place(S, f) = i
      BY <2>2, <2>3, PlacesAreTaken
    <3> QED BY <3>1 DEF Lowest, Place
  <2>5. ASSUME NEW i \in 1 .. n, NEW j \in 1 .. n, i < j
        PROVE  Lowest(S, i) < Lowest(S, j)
    <3> DEFINE f == Lowest(S, i)
               g == Lowest(S, j)
    <3>1. f \in S /\ g \in S /\ Place(S, f) = i /\ Place(S, g) = j
      BY <2>4
    <3> HIDE DEF f, g, S
    <3>2. f \in Nat /\ g \in Nat
      BY <2>2, <3>1
    <3>3. ~(g < f)
      <4>1. g < f => Place(S, g) < Place(S, f)
        BY <2>2, <3>1, PlacesInOrder
      <4> QED BY <2>5, <3>1, <4>1
    <3>4. f # g
      BY <2>5, <3>1
    <3>5. f < g
      BY <3>2, <3>3, <3>4
    <3> QED BY <3>5 DEF f, g
  <2> QED BY <2>1, <2>2, <2>4, <2>5
<1> QED
  BY <1>1, <1>2

-----------------------------------------------------------------------------
(* The winners: what FoldLeft makes of the replies, one after another.     *)

Taken(before, r, ok) == IF Wins(r.user, before, ok) THEN Append(before, r) ELSE before

Latest(s) == CHOOSE x \in s : \A y \in s : x >= y

Folds(replies, ok, S, g) ==
    g = [s \in SUBSET S |-> IF s = {} THEN <<>>
                             ELSE Taken(g[s \ {Latest(s)}], replies[Latest(s)], ok)]

Folded(replies, ok, S) == CHOOSE g : Folds(replies, ok, S, g)

LEMMA WinnersAreFolded ==
  ASSUME NEW replies, NEW ok
  PROVE  WinnersOf(replies, ok) = Folded(replies, ok, DOMAIN replies)[DOMAIN replies]
BY DEF WinnersOf, FoldLeft, MapThenFoldSet, Max, Folded, Folds, Taken, Latest

LEMMA LastIsIn ==
  ASSUME NEW S \in SUBSET Nat, IsFiniteSet(S), S # {}
  PROVE  Latest(S) \in S
<1>1. PICK m \in S : \A x \in S : x <= m
  BY LargestExists
<1>2. m \in S /\ \A x \in S : m >= x
  BY <1>1
<1> QED
  BY <1>2 DEF Latest

LEMMA FoldUnique ==
  ASSUME NEW replies, NEW ok, NEW S \in SUBSET Nat, IsFiniteSet(S),
         NEW g, NEW h, Folds(replies, ok, S, g), Folds(replies, ok, S, h)
  PROVE  g = h
<1> DEFINE Good == {T \in SUBSET S : g[T] = h[T]}
<1>1. ASSUME NEW T \in SUBSET S, \A U \in SUBSET T : U # T => U \in Good
      PROVE  T \in Good
  <2>1. CASE T = {}
    BY <2>1 DEF Folds
  <2>2. CASE T # {}
    <3>1. Latest(T) \in T
      BY <2>2, FS_Subset, LastIsIn
    <3>2. g[T \ {Latest(T)}] = h[T \ {Latest(T)}]
      BY <1>1, <3>1
    <3>3. /\ g[T] = Taken(g[T \ {Latest(T)}], replies[Latest(T)], ok)
          /\ h[T] = Taken(h[T \ {Latest(T)}], replies[Latest(T)], ok)
      BY <2>2 DEF Folds
    <3> QED BY <3>2, <3>3
  <2> QED BY <2>1, <2>2
<1>2. \A T \in SUBSET S : T \in Good
  <2> HIDE DEF Good
  <2> QED BY <1>1, SubsetInduction
<1>3. \A T \in SUBSET S : g[T] = h[T]
  BY <1>2
<1>4. /\ g = [s \in SUBSET S |-> g[s]]
      /\ h = [s \in SUBSET S |-> h[s]]
  BY DEF Folds
<1> QED
  BY <1>3, <1>4

(* A fold of a set is one of each of its subsets.                          *)
LEMMA FoldsAgree ==
  ASSUME NEW replies, NEW ok, NEW S \in SUBSET Nat, IsFiniteSet(S), NEW T \in SUBSET S,
         Folds(replies, ok, S, Folded(replies, ok, S)), Folds(replies, ok, T, Folded(replies, ok, T))
  PROVE  Folded(replies, ok, T)[T] = Folded(replies, ok, S)[T]
<1> DEFINE g == Folded(replies, ok, S)
           h == [s \in SUBSET T |-> g[s]]
<1>1. ASSUME NEW s \in SUBSET T
      PROVE  h[s] = IF s = {} THEN <<>>
                    ELSE Taken(h[s \ {Latest(s)}], replies[Latest(s)], ok)
  <2>1. g[s] = IF s = {} THEN <<>>
               ELSE Taken(g[s \ {Latest(s)}], replies[Latest(s)], ok)
    <3> HIDE DEF g
    <3> QED BY DEF g, Folds
  <2> HIDE DEF g
  <2> QED BY <2>1
<1>2. Folds(replies, ok, T, h)
  <2> HIDE DEF g
  <2> QED BY <1>1 DEF Folds
<1>3. Folded(replies, ok, T) = h
  <2> HIDE DEF h
  <2> QED BY <1>2, FS_Subset, FoldUnique
<1> QED
  BY <1>3

LEMMA FoldExists ==
  ASSUME NEW replies, NEW ok, NEW S \in SUBSET Nat, IsFiniteSet(S)
  PROVE  Folds(replies, ok, S, Folded(replies, ok, S))
<1> DEFINE F(T) == Folded(replies, ok, T)
           Good == {T \in SUBSET S : \E g : Folds(replies, ok, T, g)}
<1>1. ASSUME NEW T \in SUBSET S, \A U \in SUBSET T : U # T => U \in Good
      PROVE  T \in Good
  <2> DEFINE g == [s \in SUBSET T |-> IF s = {} THEN <<>>
                     ELSE Taken(F(s \ {Latest(s)})[s \ {Latest(s)}], replies[Latest(s)], ok)]
  <2>0. \A s \in SUBSET T : IsFiniteSet(s) /\ s \in SUBSET Nat /\ (s # {} => Latest(s) \in s)
    BY FS_Subset, LastIsIn
  <2>1. \A U \in SUBSET T : U # T => Folds(replies, ok, U, F(U))
    BY <1>1 DEF Folded
  <2>2. ASSUME NEW s \in SUBSET T, s # {}
        PROVE  g[s \ {Latest(s)}] = F(s \ {Latest(s)})[s \ {Latest(s)}]
    <3> DEFINE r == s \ {Latest(s)}
    <3>1. Latest(s) \in s
      BY <2>0, <2>2
    <3>2. r \in SUBSET T /\ r # T
      BY <3>1
    <3>3. Folds(replies, ok, r, F(r))
      BY <2>1, <3>2
    <3>4. CASE r = {}
      BY <3>2, <3>3, <3>4 DEF Folds
    <3>5. CASE r # {}
      <4> DEFINE q == r \ {Latest(r)}
      <4>1. Latest(r) \in r
        BY <2>0, <3>2, <3>5
      <4>2. q \in SUBSET r /\ q \in SUBSET T /\ q # T
        BY <3>2, <4>1
      <4>3. Folds(replies, ok, q, F(q)) /\ IsFiniteSet(r) /\ r \in SUBSET Nat
        BY <2>0, <2>1, <3>2, <4>2
      <4>4. F(q)[q] = F(r)[q]
        <5> HIDE DEF q, r, g, Good
        <5>1. /\ Folds(replies, ok, r, Folded(replies, ok, r))
              /\ Folds(replies, ok, q, Folded(replies, ok, q))
          BY <3>3, <4>3
        <5>2. r \in SUBSET Nat /\ IsFiniteSet(r) /\ q \in SUBSET r
          BY <4>2, <4>3
        <5>3. Folded(replies, ok, q)[q] = Folded(replies, ok, r)[q]
          BY <5>1, <5>2, FoldsAgree, Zenon
        <5> QED BY <5>3
      <4>5. F(r)[r] = Taken(F(r)[q], replies[Latest(r)], ok)
        <5> HIDE DEF F
        <5> QED BY <3>3, <3>5 DEF Folds
      <4>6. g[r] = Taken(F(q)[q], replies[Latest(r)], ok)
        BY <3>2, <3>5
      <4> QED BY <4>4, <4>5, <4>6
    <3> QED BY <3>4, <3>5
  <2>3. Folds(replies, ok, T, g)
    <3>1. ASSUME NEW s \in SUBSET T
          PROVE  g[s] = IF s = {} THEN <<>>
                        ELSE Taken(g[s \ {Latest(s)}], replies[Latest(s)], ok)
      BY <2>2
    <3>2. g = [s \in SUBSET T |-> g[s]]
      OBVIOUS
    <3> HIDE DEF g
    <3>3. [s \in SUBSET T |-> g[s]]
          = [s \in SUBSET T |-> IF s = {} THEN <<>>
                                 ELSE Taken(g[s \ {Latest(s)}], replies[Latest(s)], ok)]
      BY <3>1
    <3> QED BY <3>2, <3>3 DEF Folds
  <2> QED BY <2>3
<1>2. \A T \in SUBSET S : T \in Good
  <2> HIDE DEF Good
  <2> QED BY <1>1, SubsetInduction
<1> QED
  BY <1>2 DEF Folded

(* The first k replies, and then the one after them.                       *)
Grows(replies, ok, n, w) ==
    /\ w[0] = <<>>
    /\ \A k \in 0 .. (n - 1) : w[k + 1] = Taken(w[k], replies[k + 1], ok)

LEMMA WinnersGrow ==
  ASSUME NEW replies, NEW ok, NEW n \in Nat, DOMAIN replies = 1 .. n
  PROVE  \E w : Grows(replies, ok, n, w) /\ WinnersOf(replies, ok) = w[n]
<1> DEFINE g == Folded(replies, ok, 1 .. n)
           w == [k \in 0 .. n |-> g[1 .. k]]
<1>1. IsFiniteSet(1 .. n) /\ (1 .. n) \in SUBSET Nat
  BY FS_Interval
<1>2. Folds(replies, ok, 1 .. n, g)
  BY <1>1, FoldExists
<1> HIDE DEF g
<1>3. \A s \in SUBSET (1 .. n) : g[s] = IF s = {} THEN <<>>
                 ELSE Taken(g[s \ {Latest(s)}], replies[Latest(s)], ok)
  BY <1>2 DEF Folds
<1>4. w[0] = <<>>
  <2>1. (1 .. 0) = {} /\ {} \in SUBSET (1 .. n)
    OBVIOUS
  <2>2. g[{}] = <<>>
    BY <1>3
  <2> QED BY <2>1, <2>2
<1>5. ASSUME NEW k \in 0 .. (n - 1)
      PROVE  w[k + 1] = Taken(w[k], replies[k + 1], ok)
  <2> DEFINE s == 1 .. (k + 1)
  <2>1. s \in SUBSET (1 .. n) /\ s # {} /\ s \in SUBSET Nat /\ k + 1 \in s /\ k \in Nat
    <3>1. k \in Nat /\ k + 1 \in Nat /\ k + 1 <= n
      OBVIOUS
    <3>2. \A x \in s : x \in 1 .. n /\ x \in Nat
      BY <3>1
    <3>3. k + 1 \in s
      BY <3>1
    <3> HIDE DEF s
    <3> QED BY <3>1, <3>2, <3>3
  <2>2. Latest(s) = k + 1
    <3>1. Latest(s) \in s /\ \A y \in s : Latest(s) >= y
      <4>1. k + 1 \in s /\ \A y \in s : k + 1 >= y
        OBVIOUS
      <4> HIDE DEF s
      <4> QED BY <4>1 DEF Latest
    <3> QED BY <2>1, <3>1
  <2>3. s \ {k + 1} = 1 .. k
    BY <2>1
  <2>4. g[s] = Taken(g[s \ {Latest(s)}], replies[Latest(s)], ok)
    <3> HIDE DEF s
    <3> QED BY <1>3, <2>1
  <2>5. w[k + 1] = g[s] /\ w[k] = g[1 .. k]
    OBVIOUS
  <2> HIDE DEF s, w
  <2> QED BY <2>2, <2>3, <2>4, <2>5
<1>6. WinnersOf(replies, ok) = w[n]
  BY WinnersAreFolded DEF g
<1> HIDE DEF w
<1>7. Grows(replies, ok, n, w)
  BY <1>4, <1>5 DEF Grows
<1> QED
  BY <1>6, <1>7

(* What is said of the winners among the first k replies.                  *)
Counted(replies, ok, k, w) ==
    /\ w \in Seq({replies[i] : i \in 1 .. k})
    /\ \A i \in DOMAIN w : w[i].user \in ok \ {None, Author}
    /\ \A i, j \in DOMAIN w : i < j => w[i].floor < w[j].floor
    /\ \A i, j \in DOMAIN w : w[i].user = w[j].user => i = j
    /\ \A i \in 1 .. k : replies[i].user \in ok \ {None, Author} =>
          \E j \in DOMAIN w : w[j].user = replies[i].user /\ w[j].floor <= replies[i].floor

LEMMA TakenIsCounted ==
  ASSUME NEW replies, NEW ok, NEW k \in Nat, NEW w, Counted(replies, ok, k, w),
         \A i \in 1 .. (k + 1) : replies[i].floor \in Nat,
         \A i \in 1 .. k : replies[i].floor < replies[k + 1].floor
  PROVE  Counted(replies, ok, k + 1, Taken(w, replies[k + 1], ok))
<1> DEFINE r == replies[k + 1]
           R == {replies[i] : i \in 1 .. (k + 1)}
           m == Len(w)
<1>0. /\ w \in Seq({replies[i] : i \in 1 .. k}) /\ m \in Nat /\ DOMAIN w = 1 .. m
      /\ \A i \in 1 .. m : w[i] \in {replies[j] : j \in 1 .. k}
  BY DEF Counted
<1>1. /\ r \in R /\ w \in Seq(R) /\ \A i \in 1 .. m : w[i].floor < r.floor
      /\ k + 1 \in 1 .. (k + 1) /\ r.floor \in Nat
  <2>1. k + 1 \in 1 .. (k + 1) /\ \A i \in 1 .. k : i \in 1 .. (k + 1)
    OBVIOUS
  <2>2. {replies[j] : j \in 1 .. k} \subseteq R
    BY <2>1
  <2>3. w \in Seq(R)
    <3>1. \A i \in 1 .. m : w[i] \in R
      BY <1>0, <2>2
    <3>2. w = [i \in 1 .. m |-> w[i]]
      BY <1>0
    <3>3. m \in Nat
      BY <1>0
    <3> HIDE DEF R, m
    <3>4. w \in [1 .. m -> R]
      BY <3>1, <3>2
    <3> QED BY <3>3, <3>4, SeqDef
  <2> QED BY <1>0, <2>1, <2>3
<1>2. \A i \in 1 .. (k + 1) : i \in 1 .. k \/ i = k + 1
  OBVIOUS
<1>3. CASE ~Wins(r.user, w, ok)
  <2>1. Taken(w, r, ok) = w
    BY <1>3 DEF Taken
  <2>2. r.user \in ok \ {None, Author} =>
          \E j \in DOMAIN w : w[j].user = r.user /\ w[j].floor <= r.floor
    <3> SUFFICES ASSUME r.user \in ok \ {None, Author}
                 PROVE  \E j \in DOMAIN w : w[j].user = r.user /\ w[j].floor <= r.floor
      OBVIOUS
    <3>1. PICK j \in DOMAIN w : w[j].user = r.user
      BY <1>3 DEF Wins
    <3>2. w[j].floor < r.floor /\ w[j].floor \in Nat /\ r.floor \in Nat
      <4>1. PICK i \in 1 .. k : w[j] = replies[i]
        BY <1>0
      <4> QED BY <1>0, <1>1, <4>1
    <3> QED BY <3>1, <3>2
  <2> HIDE DEF r, R
  <2> QED BY <1>1, <1>2, <2>1, <2>2 DEF Counted, r, R
<1>4. CASE Wins(r.user, w, ok)
  <2> DEFINE v == Append(w, r)
  <2>1. Taken(w, r, ok) = v
    BY <1>4 DEF Taken
  <2>2. /\ r.user \in ok \ {None, Author}
        /\ \A i \in 1 .. m : w[i].user # r.user
    BY <1>0, <1>4 DEF Wins
  <2>3. /\ v \in Seq(R) /\ DOMAIN v = 1 .. (m + 1) /\ v[m + 1] = r
        /\ \A i \in 1 .. m : v[i] = w[i]
    <3> HIDE DEF R, r
    <3>1. v \in Seq(R) /\ Len(v) = m + 1 /\ v[m + 1] = r /\ \A i \in 1 .. m : v[i] = w[i]
      BY <1>1, AppendProperties
    <3> QED BY <3>1
  <2> HIDE DEF v
  <2>4. \A i \in 1 .. (m + 1) : i \in 1 .. m \/ i = m + 1
    BY <1>0
  <2>5. \A i \in DOMAIN v : v[i].user \in ok \ {None, Author}
    BY <1>0, <2>2, <2>3, <2>4 DEF Counted
  <2>6. ASSUME NEW i \in DOMAIN v, NEW j \in DOMAIN v, i < j
        PROVE  v[i].floor < v[j].floor
    <3>1. i \in 1 .. m
      BY <1>0, <2>3, <2>6
    <3>2. CASE j = m + 1
      BY <1>1, <2>3, <3>1, <3>2
    <3>3. CASE j \in 1 .. m
      <4>1. w[i].floor < w[j].floor
        BY <1>0, <2>6, <3>1, <3>3 DEF Counted
      <4> QED BY <2>3, <3>1, <3>3, <4>1
    <3> QED BY <2>3, <2>4, <3>2, <3>3
  <2>7. ASSUME NEW i \in DOMAIN v, NEW j \in DOMAIN v, v[i].user = v[j].user
        PROVE  i = j
    <3>1. CASE i \in 1 .. m /\ j \in 1 .. m
      BY <1>0, <2>3, <2>7, <3>1 DEF Counted
    <3>2. CASE i = m + 1 \/ j = m + 1
      BY <2>2, <2>3, <2>4, <2>7, <3>2
    <3> QED BY <2>3, <2>4, <3>1, <3>2
  <2>8. ASSUME NEW i \in 1 .. (k + 1), replies[i].user \in ok \ {None, Author}
        PROVE  \E j \in DOMAIN v : v[j].user = replies[i].user /\ v[j].floor <= replies[i].floor
    <3>1. CASE i = k + 1
      <4>1. m + 1 \in DOMAIN v /\ r.floor <= r.floor
        BY <1>0, <1>1, <2>3
      <4> QED BY <2>3, <3>1, <4>1
    <3>2. CASE i \in 1 .. k
      <4>1. PICK j \in DOMAIN w : w[j].user = replies[i].user /\ w[j].floor <= replies[i].floor
        BY <2>8, <3>2 DEF Counted
      <4>2. j \in DOMAIN v /\ v[j] = w[j]
        BY <1>0, <2>3
      <4> QED BY <4>1, <4>2
    <3> QED BY <1>2, <3>1, <3>2
  <2> HIDE DEF r, R
  <2>9. Counted(replies, ok, k + 1, v)
    BY <2>3, <2>5, <2>6, <2>7, <2>8 DEF Counted, R
  <2> QED BY <2>1, <2>9 DEF r
<1> QED
  BY <1>3, <1>4

(* Each reader who may be shown and has a reply on the rising floors wins  *)
(* once, on the lowest.                                                    *)
LEMMA WinnersAreCounted ==
  ASSUME NEW n \in Nat, NEW replies, DOMAIN replies = 1 .. n, NEW ok,
         \A i \in 1 .. n : replies[i].floor \in Nat,
         \A i, j \in 1 .. n : i < j => replies[i].floor < replies[j].floor
  PROVE  Counted(replies, ok, n, WinnersOf(replies, ok))
<1>0. PICK w : Grows(replies, ok, n, w) /\ WinnersOf(replies, ok) = w[n]
  <2>1. \E w : Grows(replies, ok, n, w) /\ WinnersOf(replies, ok) = w[n]
    BY WinnersGrow
  <2> QED BY <2>1
<1>1. /\ WinnersOf(replies, ok) = w[n] /\ w[0] = <<>>
      /\ \A k \in 0 .. (n - 1) : w[k + 1] = Taken(w[k], replies[k + 1], ok)
  BY <1>0 DEF Grows
<1> DEFINE Good == {k \in Nat : Counted(replies, ok, k, w[k])}
<1>2. 0 \in Good
  <2>1. (1 .. 0) = {} /\ w[0] = <<>> /\ DOMAIN <<>> = {} /\ \A S : <<>> \in Seq(S)
    BY <1>1
  <2>2. Counted(replies, ok, 0, w[0])
    BY <2>1 DEF Counted
  <2> QED BY <2>2
<1>3. ASSUME NEW k \in 0 .. (n - 1), k \in Good
      PROVE  k + 1 \in Good
  <2>1. k \in Nat /\ k + 1 \in Nat /\ \A i \in 1 .. (k + 1) : i \in 1 .. n
    OBVIOUS
  <2>2. \A i \in 1 .. k : i \in 1 .. n /\ k + 1 \in 1 .. n /\ i < k + 1
    OBVIOUS
  <2>3. Counted(replies, ok, k + 1, Taken(w[k], replies[k + 1], ok))
    BY <1>3, <2>1, <2>2, TakenIsCounted
  <2> QED BY <1>1, <2>1, <2>3
<1>4. n \in Good
  <2>1. n \in 0 .. n
    OBVIOUS
  <2> HIDE DEF Good
  <2>2. \A k \in 0 .. n : k \in Good
    BY <1>2, <1>3, CountUp
  <2> QED BY <2>1, <2>2
<1> QED
  BY <1>1, <1>4
-----------------------------------------------------------------------------
(* The invariant of the floors.                                            *)

FloorsTyped ==
    /\ slots \in SlotCounts /\ rule \in Rules /\ lastFloor \in Nat
    /\ holder \in [AllFloors -> Repliers \cup {None}]
    /\ visible \in [AllFloors -> BOOLEAN]
    /\ post \in [Repliers -> [open : BOOLEAN, max : 0 .. MaxFloor]]
    /\ edit \in [Editors -> [open : BOOLEAN, rewrite : BOOLEAN, rule : Rules, slots : SlotCounts]]

(* The counter has passed every floor that is held, or that the draw found *)
(* held; it gives none of them to anybody else.                            *)
Passed(f, u) == f \in AllFloors /\ f <= lastFloor /\ holder[f] \in {u, None}

CounterInv == \A f \in AllFloors : holder[f] # None => f <= lastFloor

(* What a draw found stays true of the floors but for replies that go.     *)
FoundInv ==
    /\ status = "drawn" => picked
    /\ picked => \E n \in Nat :
          /\ DOMAIN found = 1 .. n /\ winners = WinnersOf(found, renderable)
          /\ \A i \in 1 .. n : found[i].floor \in Nat
          /\ \A i, j \in 1 .. n : i < j => found[i].floor < found[j].floor
          /\ \A i \in 1 .. n : found[i].user # None => Passed(found[i].floor, found[i].user)

FloorsInv == FloorsTyped /\ CounterInv /\ FoundInv

LEMMA MaxHeldIsFloor ==
  ASSUME FloorsTyped
  PROVE  MaxHeld \in 0 .. MaxFloor
<1> DEFINE H == {f \in AllFloors : holder[f] # None}
<1>0. MaxFloor \in Nat /\ IsFiniteSet(AllFloors) /\ AllFloors \in SUBSET Nat
  BY FloorConstantsOK, FS_Interval DEF AllFloors
<1>1. \E m \in 0 .. MaxFloor : /\ m = 0 \/ holder[m] # None
                               /\ \A f \in AllFloors : holder[f] # None => f <= m
  <2>1. CASE H = {}
    <3>1. 0 \in 0 .. MaxFloor /\ \A f \in AllFloors : holder[f] = None
      BY <1>0, <2>1
    <3> QED BY <3>1
  <2>2. CASE H # {}
    <3>1. IsFiniteSet(H) /\ H \in SUBSET Nat
      BY <1>0, FS_Subset
    <3> HIDE DEF H
    <3>2. PICK m \in H : \A f \in H : f <= m
      BY <2>2, <3>1, LargestExists
    <3>3. m \in 0 .. MaxFloor /\ holder[m] # None
      BY <1>0, <3>2 DEF H, AllFloors
    <3>4. \A f \in AllFloors : holder[f] # None => f <= m
      BY <3>2 DEF H
    <3> QED BY <3>3, <3>4
  <2> QED BY <2>1, <2>2
<1> QED
  BY <1>1 DEF MaxHeld

LEMMA FoundKept ==
  ASSUME FoundInv, FloorsTyped, UNCHANGED draftVars,
         status' = "drawn" => status = "drawn" \/ picked,
         lastFloor' \in Nat, lastFloor' >= lastFloor,
         \A f \in AllFloors : f <= lastFloor => holder'[f] \in {holder[f], None}
  PROVE  FoundInv'
<1>0. UNCHANGED <<picked, found, renderable, winners>>
  BY DEF draftVars
<1>1. ASSUME NEW f, NEW u, Passed(f, u)
      PROVE  Passed(f, u)'
  <2>1. f \in AllFloors /\ f \in Nat /\ f <= lastFloor /\ holder[f] \in {u, None} /\ lastFloor \in Nat
    BY <1>1, FloorConstantsOK DEF Passed, FloorsTyped, AllFloors
  <2>2. f <= lastFloor'
    BY <2>1
  <2> QED BY <2>1, <2>2 DEF Passed, AllFloors
<1>2. WinnersOf(found, renderable)' = WinnersOf(found, renderable)
  BY <1>0
<1>3. CASE ~picked
  BY <1>0, <1>3 DEF FoundInv
<1>4. CASE picked
  <2>1. PICK n \in Nat :
          /\ DOMAIN found = 1 .. n /\ winners = WinnersOf(found, renderable)
          /\ \A i \in 1 .. n : found[i].floor \in Nat
          /\ \A i, j \in 1 .. n : i < j => found[i].floor < found[j].floor
          /\ \A i \in 1 .. n : found[i].user # None => Passed(found[i].floor, found[i].user)
    BY <1>4 DEF FoundInv
  <2>2. \A i \in 1 .. n : found[i].user # None => Passed(found[i].floor, found[i].user)'
    BY <1>0, <1>1, <2>1
  <2> QED BY <1>0, <1>2, <1>4, <2>1, <2>2 DEF FoundInv
<1> QED
  BY <1>3, <1>4

LEMMA RepliesKeep ==
  ASSUME FloorsInv, NEW u \in Repliers, PostBegin(u) \/ PostCommit(u)
  PROVE  FloorsInv'
<1>0. FloorsTyped /\ CounterInv /\ FoundInv /\ MaxFloor \in Nat
  BY FloorConstantsOK DEF FloorsInv
<1>1. CASE PostBegin(u)
  <2>1. /\ post' = [post EXCEPT ![u] = [open |-> TRUE, max |-> MaxHeld]]
        /\ UNCHANGED <<status, rule, slots, lastFloor, holder, visible, edit, draftVars>>
    BY <1>1 DEF PostBegin
  <2>2. FloorsTyped'
    <3>1. [open |-> TRUE, max |-> MaxHeld] \in [open : BOOLEAN, max : 0 .. MaxFloor]
      BY <1>0, MaxHeldIsFloor
    <3>2. post' \in [Repliers -> [open : BOOLEAN, max : 0 .. MaxFloor]]
      BY <1>0, <2>1, <3>1 DEF FloorsTyped
    <3> QED BY <1>0, <2>1, <3>2 DEF FloorsTyped
  <2>3. CounterInv'
    BY <1>0, <2>1 DEF CounterInv
  <2>4. lastFloor \in Nat
    BY <1>0 DEF FloorsTyped
  <2>5. FoundInv'
    BY <1>0, <2>1, <2>4, FoundKept
  <2> QED BY <2>2, <2>3, <2>5 DEF FloorsInv
<1>2. CASE PostCommit(u)
  <2> DEFINE g == NextReplyFloor(post[u].max)
  <2>1. /\ \/ /\ g \in AllFloors /\ holder[g] = None /\ lastFloor' = g
              /\ holder' = [holder EXCEPT ![g] = u]
              /\ visible' = [visible EXCEPT ![g] = TRUE]
           \/ UNCHANGED <<lastFloor, holder, visible>>
        /\ post' = [post EXCEPT ![u] = NoPost]
        /\ UNCHANGED <<status, rule, slots, edit, draftVars>>
    BY <1>2 DEF PostCommit
  <2>2. g \in Nat /\ g > lastFloor /\ lastFloor \in Nat
    <3>1. post[u].max \in Nat /\ lastFloor \in Nat
      BY <1>0 DEF FloorsTyped
    <3> QED BY <3>1 DEF NextReplyFloor, Bigger
  <2> HIDE DEF g
  <2>3. post' \in [Repliers -> [open : BOOLEAN, max : 0 .. MaxFloor]]
    <3>1. NoPost \in [open : BOOLEAN, max : 0 .. MaxFloor]
      BY <1>0 DEF NoPost
    <3> QED BY <1>0, <2>1, <3>1 DEF FloorsTyped
  <2>4. CASE UNCHANGED <<lastFloor, holder, visible>>
    <3>1. FloorsTyped'
      BY <1>0, <2>1, <2>3, <2>4 DEF FloorsTyped
    <3>2. CounterInv'
      BY <1>0, <2>4 DEF CounterInv
    <3>3. FoundInv'
      BY <1>0, <2>1, <2>2, <2>4, FoundKept
    <3> QED BY <3>1, <3>2, <3>3 DEF FloorsInv
  <2>5. CASE /\ g \in AllFloors /\ lastFloor' = g
             /\ holder' = [holder EXCEPT ![g] = u] /\ visible' = [visible EXCEPT ![g] = TRUE]
    <3>1. FloorsTyped'
      <4>1. holder' \in [AllFloors -> Repliers \cup {None}] /\ visible' \in [AllFloors -> BOOLEAN]
        BY <1>0, <2>5 DEF FloorsTyped
      <4> QED BY <1>0, <2>1, <2>2, <2>3, <2>5, <4>1 DEF FloorsTyped
    <3>2. \A f \in AllFloors : f \in Nat /\ holder'[f] = IF f = g THEN u ELSE holder[f]
      BY <1>0, <2>5 DEF FloorsTyped, AllFloors
    <3>3. CounterInv'
      BY <1>0, <2>2, <2>5, <3>2 DEF CounterInv
    <3>4. \A f \in AllFloors : f <= lastFloor => holder'[f] = holder[f]
      BY <2>2, <3>2
    <3>5. FoundInv'
      BY <1>0, <2>1, <2>2, <2>5, <3>4, FoundKept
    <3> QED BY <3>1, <3>3, <3>5 DEF FloorsInv
  <2> QED BY <2>1, <2>4, <2>5
<1> QED
  BY <1>1, <1>2

LEMMA FloorsKeep ==
  ASSUME FloorsInv, NEW f \in AllFloors, DeleteReply(f) \/ SetStatus(f)
  PROVE  FloorsInv'
<1>0. FloorsTyped /\ CounterInv /\ FoundInv /\ lastFloor \in Nat
  BY DEF FloorsInv, FloorsTyped
<1>1. /\ holder' = [holder EXCEPT ![f] = None] \/ holder' = holder
      /\ visible' = [visible EXCEPT ![f] = FALSE] \/ visible' = [visible EXCEPT ![f] = ~visible[f]]
      /\ UNCHANGED <<status, rule, slots, lastFloor, post, edit, draftVars>>
  BY DEF DeleteReply, SetStatus
<1>2. \A h \in AllFloors : holder'[h] \in {holder[h], None}
  BY <1>0, <1>1 DEF FloorsTyped
<1>3. FloorsTyped'
  <2>1. holder' \in [AllFloors -> Repliers \cup {None}] /\ visible' \in [AllFloors -> BOOLEAN]
    BY <1>0, <1>1 DEF FloorsTyped
  <2> QED BY <1>0, <1>1, <2>1 DEF FloorsTyped
<1>4. CounterInv'
  BY <1>0, <1>1, <1>2 DEF CounterInv
<1>5. FoundInv'
  BY <1>0, <1>1, <1>2, FoundKept
<1> QED
  BY <1>3, <1>4, <1>5 DEF FloorsInv

LEMMA EditsKeep ==
  ASSUME FloorsInv, NEW e \in Editors,
         \/ SaveEdit(e)
         \/ \E r \in Rules, n \in SlotCounts, rewrite \in BOOLEAN : PlanEdit(e, r, n, rewrite)
  PROVE  FloorsInv'
<1> DEFINE Edits == [open : BOOLEAN, rewrite : BOOLEAN, rule : Rules, slots : SlotCounts]
<1>0. FloorsTyped /\ CounterInv /\ FoundInv /\ lastFloor \in Nat
  BY DEF FloorsInv, FloorsTyped
<1>1. /\ rule' \in {rule, edit[e].rule} /\ slots' \in {slots, edit[e].slots}
      /\ \E d \in Edits : edit' = [edit EXCEPT ![e] = d]
      /\ UNCHANGED <<status, lastFloor, holder, visible, post, draftVars>>
  <2>1. CASE SaveEdit(e)
    <3>1. NoEdit \in Edits
      BY <1>0 DEF FloorsTyped, NoEdit
    <3> QED BY <2>1, <3>1 DEF SaveEdit, replyVars
  <2>2. ASSUME NEW r \in Rules, NEW n \in SlotCounts, NEW rewrite \in BOOLEAN,
               PlanEdit(e, r, n, rewrite)
        PROVE  /\ rule' \in {rule, edit[e].rule} /\ slots' \in {slots, edit[e].slots}
               /\ \E d \in Edits : edit' = [edit EXCEPT ![e] = d]
               /\ UNCHANGED <<status, lastFloor, holder, visible, post, draftVars>>
    <3>1. [open |-> TRUE, rewrite |-> rewrite, rule |-> r, slots |-> n] \in Edits
      OBVIOUS
    <3> QED BY <2>2, <3>1 DEF PlanEdit, replyVars
  <2> QED BY <2>1, <2>2
<1>2. FloorsTyped'
  <2>1. edit[e] \in Edits
    BY <1>0 DEF FloorsTyped
  <2>2. rule' \in Rules /\ slots' \in SlotCounts
    BY <1>0, <1>1, <2>1 DEF FloorsTyped
  <2>3. edit' \in [Editors -> Edits]
    BY <1>0, <1>1 DEF FloorsTyped
  <2> QED BY <1>0, <1>1, <2>2, <2>3 DEF FloorsTyped
<1>3. CounterInv'
  BY <1>0, <1>1 DEF CounterInv
<1>4. FoundInv'
  BY <1>0, <1>1, FoundKept
<1> QED
  BY <1>2, <1>3, <1>4 DEF FloorsInv

LEMMA DrawKeeps ==
  ASSUME FloorsInv,
         Claim \/ (\E ok \in SUBSET Repliers : PickFloors(ok)) \/ Commit
  PROVE  FloorsInv'
<1>0. FloorsTyped /\ CounterInv /\ FoundInv /\ lastFloor \in Nat
  BY DEF FloorsInv, FloorsTyped
<1>1. CASE Claim \/ Commit
  <2>1. /\ status' = "drawn" => picked
        /\ UNCHANGED <<rule, slots, lastFloor, holder, visible, post, edit, draftVars>>
    BY <1>1 DEF Claim, Commit, replyVars
  <2>2. FloorsTyped' /\ CounterInv'
    BY <1>0, <2>1 DEF FloorsTyped, CounterInv
  <2>3. FoundInv'
    BY <1>0, <2>1, FoundKept
  <2> QED BY <2>2, <2>3 DEF FloorsInv
<1>2. ASSUME NEW ok \in SUBSET Repliers, PickFloors(ok)
      PROVE  FloorsInv'
  <2>1. UNCHANGED <<rule, slots, lastFloor, holder, visible, post, edit>>
    BY <1>2 DEF PickFloors, replyVars
  <2>2. FloorsTyped' /\ CounterInv'
    BY <1>0, <2>1 DEF FloorsTyped, CounterInv
  <2>3. CASE ~Parses(rule, slots)
    <3>1. status' = "open" /\ UNCHANGED draftVars
      BY <1>2, <2>3 DEF PickFloors
    <3>2. FoundInv'
      BY <1>0, <2>1, <3>1, FoundKept
    <3> QED BY <2>2, <3>2 DEF FloorsInv
  <2>4. CASE Parses(rule, slots)
    <3> DEFINE at(i) == FloorsOf(rule, slots)[i]
    <3>1. /\ found' = [i \in 1 .. slots |->
                [floor |-> at(i),
                 user  |-> IF at(i) \in AllFloors /\ visible[at(i)]
                           THEN holder[at(i)] ELSE None]]
          /\ winners' = WinnersOf(found', ok) /\ picked' = TRUE /\ renderable' = ok
      BY <1>2, <2>4 DEF PickFloors
    <3>2. slots \in Nat /\ rule \in Rules
      BY <1>0, FloorConstantsOK DEF FloorsTyped
    <3>3. /\ \A i \in 1 .. slots : at(i) \in Nat
          /\ \A i, j \in 1 .. slots : i < j => at(i) < at(j)
      BY <2>4, <3>2, FloorsRise
    <3> HIDE DEF at
    <3>4. /\ DOMAIN found' = 1 .. slots
          /\ \A i \in 1 .. slots :
                /\ found'[i].floor = at(i)
                /\ found'[i].user # None => at(i) \in AllFloors /\ found'[i].user = holder[at(i)]
      BY <3>1
    <3>5. ASSUME NEW i \in 1 .. slots, found'[i].user # None
          PROVE  Passed(found[i].floor, found[i].user)'
      BY <1>0, <2>1, <3>4, <3>5 DEF Passed, CounterInv, AllFloors
    <3>6. FoundInv'
      BY <3>1, <3>2, <3>3, <3>4, <3>5 DEF FoundInv
    <3> QED BY <2>2, <3>6 DEF FloorsInv
  <2> QED BY <2>3, <2>4
<1> QED
  BY <1>1, <1>2

(* The inductive invariant holds while replies come and go around a draw.  *)
THEOREM FloorsInvariant == FloorsSpec => []FloorsInv
<1>1. ASSUME FloorsInit
      PROVE  FloorsInv
  <2>1. FloorsTyped
    <3>1. slots \in SlotCounts /\ rule \in Rules /\ MaxFloor \in Nat
      BY <1>1, FloorConstantsOK DEF FloorsInit
    <3>2. NoPost \in [open : BOOLEAN, max : 0 .. MaxFloor]
      BY <3>1 DEF NoPost
    <3>3. NoEdit \in [open : BOOLEAN, rewrite : BOOLEAN, rule : Rules, slots : SlotCounts]
      BY <3>1 DEF NoEdit
    <3> QED BY <1>1, <3>1, <3>2, <3>3 DEF FloorsInit, FloorsTyped
  <2>2. CounterInv /\ FoundInv
    BY <1>1 DEF FloorsInit, CounterInv, FoundInv
  <2> QED BY <2>1, <2>2 DEF FloorsInv
<1>2. ASSUME FloorsInv, [FloorsNext]_floorVars
      PROVE  FloorsInv'
  <2>1. CASE UNCHANGED floorVars
    <3>1. UNCHANGED <<status, rule, slots, lastFloor, holder, visible, post, edit, draftVars>>
      BY <2>1 DEF floorVars, replyVars
    <3>2. FloorsTyped /\ CounterInv /\ FoundInv /\ lastFloor \in Nat
      BY <1>2 DEF FloorsInv, FloorsTyped
    <3>3. FloorsTyped' /\ CounterInv'
      BY <3>1, <3>2 DEF FloorsTyped, CounterInv
    <3>4. FoundInv'
      BY <3>1, <3>2, FoundKept
    <3> QED BY <3>3, <3>4 DEF FloorsInv
  <2> QED BY <1>2, <2>1, RepliesKeep, FloorsKeep, EditsKeep, DrawKeeps DEF FloorsNext
<1> QED
  BY <1>1, <1>2, PTL DEF FloorsSpec

(* A reader counting the floors of the rule finds the winners: whoever may *)
(* be shown and is not the author wins once, on the lowest of their floors.*)
THEOREM CountingFindsWinners == FloorsSpec => []WinnersByCounting
<1>1. ASSUME FloorsInv, status = "drawn"
      PROVE  LET onFloors == {found[i].user : i \in DOMAIN found} \cap renderable IN
               /\ {winners[i].user : i \in DOMAIN winners} = onFloors \ {None, Author}
               /\ \A i, j \in DOMAIN winners : i < j => winners[i].floor < winners[j].floor
               /\ \A i \in DOMAIN winners : \A k \in DOMAIN found :
                     found[k].user = winners[i].user => winners[i].floor <= found[k].floor
  <2>1. PICK n \in Nat :
          /\ DOMAIN found = 1 .. n /\ winners = WinnersOf(found, renderable)
          /\ \A i \in 1 .. n : found[i].floor \in Nat
          /\ \A i, j \in 1 .. n : i < j => found[i].floor < found[j].floor
    BY <1>1 DEF FloorsInv, FoundInv
  <2>2. Counted(found, renderable, n, winners)
    BY <2>1, WinnersAreCounted
  <2>3. \A i \in DOMAIN winners : winners[i] \in {found[k] : k \in 1 .. n}
    BY <2>2 DEF Counted
  <2>4. \A i \in DOMAIN winners : winners[i].user \in renderable \ {None, Author}
    BY <2>2 DEF Counted
  <2>5. \A k \in 1 .. n : found[k].user \in renderable \ {None, Author} =>
          \E j \in DOMAIN winners : winners[j].user = found[k].user /\ winners[j].floor <= found[k].floor
    BY <2>2 DEF Counted
  <2>6. \A i, j \in DOMAIN winners : winners[i].user = winners[j].user => i = j
    BY <2>2 DEF Counted
  <2>7. \A i, j \in DOMAIN winners : i < j => winners[i].floor < winners[j].floor
    BY <2>2 DEF Counted
  <2>8. {winners[i].user : i \in DOMAIN winners}
          = ({found[i].user : i \in DOMAIN found} \cap renderable) \ {None, Author}
    BY <2>1, <2>3, <2>4, <2>5
  <2>9. ASSUME NEW i \in DOMAIN winners, NEW k \in DOMAIN found, found[k].user = winners[i].user
        PROVE  winners[i].floor <= found[k].floor
    <3>1. PICK j \in DOMAIN winners :
            winners[j].user = found[k].user /\ winners[j].floor <= found[k].floor
      BY <2>1, <2>4, <2>5, <2>9
    <3>2. j = i
      BY <2>6, <2>9, <3>1
    <3> QED BY <3>1, <3>2
  <2> QED BY <2>7, <2>8, <2>9
<1>2. FloorsInv => WinnersByCounting
  BY <1>1 DEF WinnersByCounting
<1> QED
  BY <1>2, FloorsInvariant, PTL

(* No floor is given twice, so that after the draw a winning floor is the  *)
(* winner's or nobody's, whatever is posted, deleted or hidden.            *)
THEOREM CountingStaysTrue == FloorsSpec => []CountingVerifies
<1>1. ASSUME FloorsInv, status = "drawn", NEW i \in DOMAIN winners
      PROVE  holder[winners[i].floor] \in {winners[i].user, None}
  <2>1. PICK n \in Nat :
          /\ DOMAIN found = 1 .. n /\ winners = WinnersOf(found, renderable)
          /\ \A k \in 1 .. n : found[k].floor \in Nat
          /\ \A k, j \in 1 .. n : k < j => found[k].floor < found[j].floor
          /\ \A k \in 1 .. n : found[k].user # None => Passed(found[k].floor, found[k].user)
    BY <1>1 DEF FloorsInv, FoundInv
  <2>2. Counted(found, renderable, n, winners)
    BY <2>1, WinnersAreCounted
  <2>3. winners[i] \in {found[k] : k \in 1 .. n} /\ winners[i].user # None
    BY <2>2 DEF Counted
  <2>4. PICK k \in 1 .. n : winners[i] = found[k] /\ found[k].user # None
    BY <2>3
  <2> QED BY <2>1, <2>4 DEF Passed
<1>2. FloorsInv => CountingVerifies
  BY <1>1 DEF CountingVerifies
<1> QED
  BY <1>2, FloorsInvariant, PTL

=============================================================================
