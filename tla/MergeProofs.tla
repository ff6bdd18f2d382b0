----------------------------- MODULE MergeProofs -----------------------------
(***************************************************************************)
(* Proofs about the folding of merged works: MergeLedger and its           *)
(* refinement of MergePages for the tables in which no row is dropped for  *)
(* another ("resource", and "daily", the buckets of views), then the types *)
(* of MergeSync; for any works, users and bounds.                          *)
(*                                                                         *)
(* The argument: what a user left on a work has been carried along a way   *)
(* of folds, its trail, the same way that MergePages keeps for it.  The    *)
(* folds of a way are in force, in order, each of the work the one before  *)
(* led to, and no fold in force of a work on the way lies between (Leads). *)
(* A fold goes on the ways that end at the work it folds away; an undo     *)
(* cuts the ways through its fold, and is of the newest fold of its work,  *)
(* so that no other way comes to that work later.  So the walk through the *)
(* later ledgers that an undo makes is the rest of the trail: a row is     *)
(* where its trail ends (Resources), a bucket counts those whose trails    *)
(* end on its work, and the bucket a fold noted those whose trails the     *)
(* fold is on (Views).                                                     *)
(*                                                                         *)
(* Folds over sets and sequences are given by choice, one element after    *)
(* another, and are reasoned about through a set of the subsets, or of the *)
(* lengths, for which a claim holds (SubsetInduction, CountUp).            *)
(***************************************************************************)
EXTENDS MergeLedger, MergeSync, FiniteSetTheorems, SequenceTheorems,
        WellFoundedInduction, TLAPS

(* Induction over the subsets of a finite set: Good holds all of them.     *)
LEMMA SubsetInduction ==
  ASSUME NEW S, IsFiniteSet(S), NEW Good,
         \A T \in SUBSET S : (\A U \in SUBSET T : U # T => U \in Good) => T \in Good
  PROVE  \A T \in SUBSET S : T \in Good
<1> DEFINE Bad == {T \in SUBSET S : T \notin Good}
           R == StrictSubsetOrdering(S)
<1> SUFFICES ASSUME Bad # {} PROVE FALSE
  OBVIOUS
<1>1. IsWellFoundedOn(R, FiniteSubsetsOf(S))
  BY FS_StrictSubsetOrderingWellFounded
<1>2. IsWellFoundedOn(R, SUBSET S)
  BY <1>1, FS_FiniteSubsetsOfFinite
<1>3. PICK T \in Bad : \A U \in Bad : <<U, T>> \notin R
  <2>1. Bad \subseteq SUBSET S
    OBVIOUS
  <2> HIDE DEF Bad, R
  <2> QED BY <1>2, <2>1, WFMin
<1>4. ASSUME NEW U \in SUBSET T, U # T PROVE U \in Good
  <2>1. U \in SUBSET S /\ <<U, T>> \in StrictSubsetOrdering(S)
    BY <1>4 DEF StrictSubsetOrdering
  <2> QED BY <1>3, <2>1
<1>5. T \in SUBSET S /\ T \notin Good
  BY <1>3
<1>6. \A U \in SUBSET T : U # T => U \in Good
  BY <1>4
<1> QED
  BY <1>5, <1>6

(* Induction over the numbers up to n.                                     *)
LEMMA CountUp ==
  ASSUME NEW n \in Nat, NEW Good, 0 \in Good,
         \A k \in 0 .. (n - 1) : k \in Good => k + 1 \in Good
  PROVE  \A k \in 0 .. n : k \in Good
<1> DEFINE Sets == {T \in SUBSET (0 .. n) : \A m \in 0 .. n : T = 0 .. m => m \in Good}
<1>1. ASSUME NEW T \in SUBSET (0 .. n), \A U \in SUBSET T : U # T => U \in Sets
      PROVE  T \in Sets
  <2> SUFFICES ASSUME NEW m \in 0 .. n, T = 0 .. m, m # 0
               PROVE  m \in Good
    OBVIOUS
  <2> DEFINE U == 0 .. (m - 1)
  <2>1. U \in SUBSET T /\ U # T /\ m - 1 \in 0 .. n
    <3>1. m \in T /\ m \notin U
      OBVIOUS
    <3> QED BY <3>1
  <2>2. U \in Sets
    BY <1>1, <2>1
  <2>3. m - 1 \in Good
    BY <2>1, <2>2
  <2> QED BY <2>3
<1>2. IsFiniteSet(0 .. n)
  BY FS_Interval
<1>3. \A T \in SUBSET (0 .. n) : T \in Sets
  <2> HIDE DEF Sets
  <2> QED BY <1>1, <1>2, SubsetInduction
<1>4. ASSUME NEW k \in 0 .. n PROVE k \in Good
  <2>1. 0 .. k \in SUBSET (0 .. n)
    OBVIOUS
  <2>2. 0 .. k \in Sets
    BY <1>3, <2>1
  <2> QED BY <2>2
<1> QED
  BY <1>4

-----------------------------------------------------------------------------
(* Folds over a finite set: F takes an element and what there is so far,   *)
(* c chooses the element that is taken last.                               *)

Chooses(c, S) == \A s \in SUBSET S : s # {} => c[s] \in s

FoldOf(F, base, c, S, g) ==
    g = [s \in SUBSET S |-> IF s = {} THEN base ELSE F[<<c[s], g[s \ {c[s]}]>>]]

FoldAt(F, base, c, S) == CHOOSE g : FoldOf(F, base, c, S, g)

LEMMA FoldUnique ==
  ASSUME NEW F, NEW base, NEW c, NEW S, IsFiniteSet(S), Chooses(c, S),
         NEW g, NEW h, FoldOf(F, base, c, S, g), FoldOf(F, base, c, S, h)
  PROVE  g = h
<1> DEFINE Good == {T \in SUBSET S : g[T] = h[T]}
<1>1. ASSUME NEW T \in SUBSET S, \A U \in SUBSET T : U # T => U \in Good
      PROVE  T \in Good
  <2>1. CASE T = {}
    BY <2>1 DEF FoldOf
  <2>2. CASE T # {}
    <3>1. c[T] \in T
      BY <2>2 DEF Chooses
    <3>2. g[T \ {c[T]}] = h[T \ {c[T]}]
      BY <1>1, <3>1
    <3>3. g[T] = F[<<c[T], g[T \ {c[T]}]>>] /\ h[T] = F[<<c[T], h[T \ {c[T]}]>>]
      BY <2>2 DEF FoldOf
    <3> QED BY <3>2, <3>3
  <2> QED BY <2>1, <2>2
<1>2. \A T \in SUBSET S : T \in Good
  <2> HIDE DEF Good
  <2> QED BY <1>1, SubsetInduction
<1>3. \A T \in SUBSET S : g[T] = h[T]
  BY <1>2
<1>4. /\ g = [s \in SUBSET S |-> g[s]]
      /\ h = [s \in SUBSET S |-> h[s]]
  BY DEF FoldOf
<1> QED
  BY <1>3, <1>4

(* A fold of a set is one of each of its subsets.                          *)
LEMMA FoldsAgree ==
  ASSUME NEW F, NEW base, NEW c, NEW S, IsFiniteSet(S), Chooses(c, S), NEW T \in SUBSET S,
         FoldOf(F, base, c, S, FoldAt(F, base, c, S)), FoldOf(F, base, c, T, FoldAt(F, base, c, T))
  PROVE  FoldAt(F, base, c, T)[T] = FoldAt(F, base, c, S)[T]
<1> DEFINE g == FoldAt(F, base, c, S)
           h == [s \in SUBSET T |-> g[s]]
<1>1. ASSUME NEW s \in SUBSET T
      PROVE  h[s] = IF s = {} THEN base ELSE F[<<c[s], h[s \ {c[s]}]>>]
  <2>1. g[s] = IF s = {} THEN base ELSE F[<<c[s], g[s \ {c[s]}]>>]
    <3> HIDE DEF g
    <3> QED BY DEF g, FoldOf
  <2> HIDE DEF g
  <2> QED BY <2>1
<1>2. FoldOf(F, base, c, T, h)
  <2> HIDE DEF g
  <2> QED BY <1>1 DEF FoldOf
<1>3. FoldAt(F, base, c, T) = h
  <2>1. IsFiniteSet(T) /\ Chooses(c, T)
    BY FS_Subset DEF Chooses
  <2> HIDE DEF h
  <2> QED BY <1>2, <2>1, FoldUnique
<1> QED
  BY <1>3

LEMMA FoldExists ==
  ASSUME NEW F, NEW base, NEW c, NEW S, IsFiniteSet(S), Chooses(c, S)
  PROVE  FoldOf(F, base, c, S, FoldAt(F, base, c, S))
<1> DEFINE At(T) == FoldAt(F, base, c, T)
           Good == {T \in SUBSET S : \E g : FoldOf(F, base, c, T, g)}
<1>1. ASSUME NEW T \in SUBSET S, \A U \in SUBSET T : U # T => U \in Good
      PROVE  T \in Good
  <2> DEFINE g == [s \in SUBSET T |-> IF s = {} THEN base
                     ELSE F[<<c[s], At(s \ {c[s]})[s \ {c[s]}]>>]]
  <2>0. \A s \in SUBSET T : IsFiniteSet(s) /\ Chooses(c, s) /\ (s # {} => c[s] \in s)
    BY FS_Subset DEF Chooses
  <2>1. \A U \in SUBSET T : U # T => FoldOf(F, base, c, U, At(U))
    BY <1>1 DEF FoldAt
  <2>2. ASSUME NEW s \in SUBSET T, s # {}
        PROVE  g[s \ {c[s]}] = At(s \ {c[s]})[s \ {c[s]}]
    <3> DEFINE r == s \ {c[s]}
    <3>1. c[s] \in s
      BY <2>0, <2>2
    <3>2. r \in SUBSET T /\ r # T
      BY <3>1
    <3>3. FoldOf(F, base, c, r, At(r))
      BY <2>1, <3>2
    <3>4. CASE r = {}
      BY <3>2, <3>3, <3>4 DEF FoldOf
    <3>5. CASE r # {}
      <4> DEFINE q == r \ {c[r]}
      <4>1. c[r] \in r
        BY <2>0, <3>2, <3>5
      <4>2. q \in SUBSET r /\ q \in SUBSET T /\ q # T
        BY <3>2, <4>1
      <4>3. FoldOf(F, base, c, q, At(q)) /\ IsFiniteSet(r) /\ Chooses(c, r)
        BY <2>0, <2>1, <3>2, <4>2
      <4>4. At(q)[q] = At(r)[q]
        <5> HIDE DEF q, r, g, Good
        <5>1. /\ FoldOf(F, base, c, r, FoldAt(F, base, c, r))
              /\ FoldOf(F, base, c, q, FoldAt(F, base, c, q))
          BY <3>3, <4>3
        <5>2. q \in SUBSET r /\ IsFiniteSet(r) /\ Chooses(c, r)
          BY <4>2, <4>3
        <5>3. FoldAt(F, base, c, q)[q] = FoldAt(F, base, c, r)[q]
          <6>1. \A C, U : IsFiniteSet(C) /\ Chooses(c, C) /\ U \in SUBSET C
                          /\ FoldOf(F, base, c, C, FoldAt(F, base, c, C))
                          /\ FoldOf(F, base, c, U, FoldAt(F, base, c, U))
                          => FoldAt(F, base, c, U)[U] = FoldAt(F, base, c, C)[U]
            BY FoldsAgree, SMTT(60)
          <6> QED BY <5>1, <5>2, <6>1
        <5> QED BY <5>3
      <4>5. At(r)[r] = F[<<c[r], At(r)[q]>>]
        <5> HIDE DEF At
        <5> QED BY <3>3, <3>5 DEF FoldOf
      <4>6. g[r] = F[<<c[r], At(q)[q]>>]
        BY <3>2, <3>5
      <4> QED BY <4>4, <4>5, <4>6
    <3> QED BY <3>4, <3>5
  <2>3. FoldOf(F, base, c, T, g)
    <3>1. ASSUME NEW s \in SUBSET T
          PROVE  g[s] = IF s = {} THEN base ELSE F[<<c[s], g[s \ {c[s]}]>>]
      BY <2>2
    <3>2. g = [s \in SUBSET T |-> g[s]]
      OBVIOUS
    <3> HIDE DEF g
    <3>3. [s \in SUBSET T |-> g[s]]
          = [s \in SUBSET T |-> IF s = {} THEN base ELSE F[<<c[s], g[s \ {c[s]}]>>]]
      BY <3>1
    <3> QED BY <3>2, <3>3 DEF FoldOf
  <2> QED BY <2>3
<1>2. \A T \in SUBSET S : T \in Good
  <2> HIDE DEF Good
  <2> QED BY <1>1, SubsetInduction
<1> QED
  BY <1>2 DEF FoldAt

(* A fold stays in a set that every step stays in.                         *)
LEMMA FoldTyped ==
  ASSUME NEW F, NEW base, NEW c, NEW S, IsFiniteSet(S), Chooses(c, S), NEW V, base \in V,
         \A x \in S, v \in V : F[<<x, v>>] \in V
  PROVE  \E g \in [SUBSET S -> V] : FoldOf(F, base, c, S, g)
<1> DEFINE g == FoldAt(F, base, c, S)
           Good == {T \in SUBSET S : g[T] \in V}
<1>0. FoldOf(F, base, c, S, g)
  BY FoldExists
<1> HIDE DEF g
<1>1. ASSUME NEW T \in SUBSET S, \A U \in SUBSET T : U # T => U \in Good
      PROVE  T \in Good
  <2>1. CASE T = {}
    BY <1>0, <2>1 DEF FoldOf
  <2>2. CASE T # {}
    <3>1. c[T] \in T
      BY <2>2 DEF Chooses
    <3>2. g[T \ {c[T]}] \in V
      BY <1>1, <3>1
    <3>3. g[T] = F[<<c[T], g[T \ {c[T]}]>>]
      BY <1>0, <2>2 DEF FoldOf
    <3> QED BY <3>1, <3>2, <3>3
  <2> QED BY <2>1, <2>2
<1>2. \A T \in SUBSET S : T \in Good
  <2> HIDE DEF Good
  <2> QED BY <1>1, SubsetInduction
<1>3. \A T \in SUBSET S : g[T] \in V
  BY <1>2
<1>4. g \in [SUBSET S -> V]
  BY <1>0, <1>3 DEF FoldOf
<1> QED
  BY <1>0, <1>4

-----------------------------------------------------------------------------
(* Walks over the ledger, from the fold after f to the newest.             *)

LEMMA UpTo ==
  ASSUME NEW k \in Nat
  PROVE  /\ Max(1 .. (k + 1)) = k + 1
         /\ (1 .. (k + 1)) \ {k + 1} = 1 .. k
         /\ 1 .. (k + 1) # {}
<1>1. k + 1 \in 1 .. (k + 1) /\ \A y \in 1 .. (k + 1) : k + 1 >= y
  OBVIOUS
<1>2. \A x \in 1 .. (k + 1) : (\A y \in 1 .. (k + 1) : x >= y) => x = k + 1
  BY <1>1
<1>3. Max(1 .. (k + 1)) = k + 1
  BY <1>1, <1>2 DEF Max
<1> QED
  BY <1>1, <1>3

LEMMA MaxIsThere ==
  ASSUME NEW n \in Nat, NEW S \in SUBSET (1 .. n), S # {}
  PROVE  Max(S) \in S /\ \A y \in S : Max(S) >= y
<1> DEFINE Good == {m \in 0 .. n : \A T \in SUBSET (1 .. m) : T # {} => \E x \in T : \A y \in T : x >= y}
<1>1. 0 \in Good
  <2>1. 1 .. 0 = {} /\ 0 \in 0 .. n
    OBVIOUS
  <2> QED BY <2>1
<1>2. ASSUME NEW k \in 0 .. (n - 1), k \in Good PROVE k + 1 \in Good
  <2> SUFFICES ASSUME NEW T \in SUBSET (1 .. (k + 1)), T # {}
               PROVE  \E x \in T : \A y \in T : x >= y
    OBVIOUS
  <2>1. CASE k + 1 \in T
    BY <2>1
  <2>2. CASE k + 1 \notin T
    <3>1. T \in SUBSET (1 .. k)
      BY <2>2
    <3> QED BY <1>2, <3>1
  <2> QED BY <2>1, <2>2
<1>3. n \in Good
  <2>1. \A k \in 0 .. (n - 1) : k \in Good => k + 1 \in Good
    <3> HIDE DEF Good
    <3> QED BY <1>2
  <2>2. \A k \in 0 .. n : k \in Good
    <3> HIDE DEF Good
    <3> QED BY <1>1, <2>1, CountUp
  <2>3. n \in 0 .. n
    OBVIOUS
  <2> QED BY <2>2, <2>3
<1>4. \E x \in S : \A y \in S : x >= y
  BY <1>3
<1> QED
  BY <1>4 DEF Max

(* What FoldLeft computes over the numbers up to n exists.                 *)
IsWalk(n, base, F, g) ==
    g = [s \in SUBSET (1 .. n) |-> IF s = {} THEN base ELSE F[<<Max(s), g[s \ {Max(s)}]>>]]

LEMMA WalkExists ==
  ASSUME NEW n \in Nat, NEW V, NEW base \in V, NEW F,
         \A k \in 1 .. n, v \in V : F[<<k, v>>] \in V
  PROVE  \E g \in [SUBSET (1 .. n) -> V] : IsWalk(n, base, F, g)
<1> DEFINE S == 1 .. n
           c == [s \in SUBSET S |-> Max(s)]
<1>1. IsFiniteSet(S)
  BY FS_Interval
<1>2. Chooses(c, S)
  BY MaxIsThere DEF Chooses
<1>3. PICK g \in [SUBSET S -> V] : FoldOf(F, base, c, S, g)
  <2> HIDE DEF c, S
  <2>1. \A x \in S, v \in V : F[<<x, v>>] \in V
    BY DEF S
  <2> QED BY <1>1, <1>2, <2>1, FoldTyped
<1>4. ASSUME NEW s \in SUBSET S
      PROVE  g[s] = IF s = {} THEN base ELSE F[<<Max(s), g[s \ {Max(s)}]>>]
  <2>1. g[s] = IF s = {} THEN base ELSE F[<<c[s], g[s \ {c[s]}]>>]
    <3> HIDE DEF c
    <3> QED BY <1>3 DEF FoldOf
  <2> QED BY <2>1
<1>5. g = [s \in SUBSET S |-> g[s]]
  OBVIOUS
<1>6. [s \in SUBSET S |-> g[s]]
      = [s \in SUBSET S |-> IF s = {} THEN base ELSE F[<<Max(s), g[s \ {Max(s)}]>>]]
  BY <1>4
<1> QED
  BY <1>5, <1>6 DEF IsWalk

-----------------------------------------------------------------------------
(* Tables without peers: no row is dropped for another.                    *)

PlainTables == {"resource", "daily", "work"}

Snap == [view : Int, published : BOOLEAN]
Bucket == Nat \cup {NoBucket}
PlainFold ==
    [old : Works, new : Works, undone : BOOLEAN, row : Snap, before : Snap, after : Snap,
     moved : SUBSET Row, summed : {{}}, bucket : Bucket, dropped : {{}}]
PlainDb ==
    [table : PlainTables, at : [Row -> Works \cup {0}], count : [Row -> Int],
     daily : [Works -> Bucket], local : [Works -> Snap], folds : Seq(PlainFold)]

(* A walk goes on through the folds in takes that are in force.            *)
Walks(d, f, takes, at, through) ==
    /\ at \in [0 .. (Len(d.folds) - f) -> Works]
    /\ through \in [0 .. (Len(d.folds) - f) -> SUBSET ((f + 1) .. Len(d.folds))]
    /\ at[0] = d.folds[f].new /\ through[0] = {}
    /\ \A k \in 0 .. (Len(d.folds) - f - 1) :
         IF ~d.folds[f + (k + 1)].undone /\ d.folds[f + (k + 1)].old = at[k] /\ f + (k + 1) \in takes
         THEN at[k + 1] = d.folds[f + (k + 1)].new /\ through[k + 1] = through[k] \cup {f + (k + 1)}
         ELSE at[k + 1] = at[k] /\ through[k + 1] = through[k]

Takes(d, r) == {g \in DOMAIN d.folds : r \in d.folds[g].moved}

LEMMA TraceWalks ==
  ASSUME NEW d \in PlainDb, NEW f \in DOMAIN d.folds, NEW r \in Row
  PROVE  \E at, through :
            /\ Walks(d, f, Takes(d, r), at, through)
            /\ Trace(d, f, r) = [at |-> at[Len(d.folds) - f],
                                 carried |-> through[Len(d.folds) - f], dropped |-> 0]
<1> DEFINE n == Len(d.folds) - f
           later == [i \in 1 .. n |-> f + i]
           base == [at |-> d.folds[f].new, carried |-> {}, dropped |-> 0]
           step(t, g) ==
             IF t.dropped # 0 \/ d.folds[g].undone \/ d.folds[g].old # t.at THEN t
             ELSE IF r \in d.folds[g].moved
                  THEN [t EXCEPT !.at = d.folds[g].new, !.carried = @ \cup {g}]
             ELSE IF DropOf(d, g, r) # {} THEN [t EXCEPT !.dropped = g]
             ELSE t
           V == [at : Works, carried : SUBSET ((f + 1) .. Len(d.folds)), dropped : {0}]
           F == [p \in (1 .. n) \X V |-> step(p[2], f + p[1])]
           It(g) == g = [s \in SUBSET (DOMAIN later) |->
                           IF s = {} THEN base ELSE step(g[s \ {Max(s)}], later[Max(s)])]
           it == CHOOSE g : It(g)
<1>1. /\ n \in Nat /\ DOMAIN later = 1 .. n /\ d.folds \in Seq(PlainFold) /\ Len(d.folds) \in Nat
      /\ \A i \in 1 .. n : later[i] = f + i /\ f + i \in DOMAIN d.folds /\ f + i \in (f + 1) .. Len(d.folds)
      /\ f \in Nat
  BY DEF PlainDb
<1>2. \A g \in DOMAIN d.folds : d.folds[g] \in PlainFold
  BY <1>1
<1>3. ASSUME NEW k \in 1 .. n, NEW v \in V
      PROVE  /\ step(v, f + k) \in V
             /\ IF ~d.folds[f + k].undone /\ d.folds[f + k].old = v.at /\ f + k \in Takes(d, r)
                THEN step(v, f + k).at = d.folds[f + k].new /\ step(v, f + k).carried = v.carried \cup {f + k}
                ELSE step(v, f + k).at = v.at /\ step(v, f + k).carried = v.carried
  <2>1. f + k \in DOMAIN d.folds /\ d.folds[f + k] \in PlainFold /\ f + k \in (f + 1) .. Len(d.folds)
    BY <1>1, <1>2
  <2>2. DropOf(d, f + k, r) = {}
    BY <2>1 DEF DropOf, PlainFold
  <2> QED BY <2>1, <2>2 DEF PlainFold, Takes
<1>4. base \in V
  BY <1>2 DEF PlainFold
<1>5. \E g : It(g)
  <2>0. PICK g \in [SUBSET (1 .. n) -> V] : IsWalk(n, base, F, g)
    <3>1. \A k \in 1 .. n, v \in V : F[<<k, v>>] \in V
      <4> HIDE DEF V, n, step
      <4> QED BY <1>3
    <3>2. n \in Nat /\ base \in V
      BY <1>1, <1>4
    <3> HIDE DEF V, n, F, base
    <3> QED BY <3>1, <3>2, WalkExists
  <2>1. g = [s \in SUBSET (1 .. n) |-> IF s = {} THEN base ELSE F[<<Max(s), g[s \ {Max(s)}]>>]]
    <3> HIDE DEF V, n, F, base
    <3> QED BY <2>0 DEF IsWalk
  <2>2. ASSUME NEW s \in SUBSET (1 .. n)
        PROVE  g[s] = IF s = {} THEN base ELSE step(g[s \ {Max(s)}], later[Max(s)])
    <3>1. CASE s = {}
      BY <2>1, <3>1
    <3>2. CASE s # {}
      <4>1. Max(s) \in 1 .. n
        BY <1>1, <3>2, MaxIsThere
      <4>2. s \ {Max(s)} \in SUBSET (1 .. n)
        OBVIOUS
      <4> HIDE DEF V, n, step, base
      <4>3. g[s] = F[<<Max(s), g[s \ {Max(s)}]>>]
        BY <2>1, <3>2
      <4>4. g[s \ {Max(s)}] \in V
        BY <2>1, <4>2
      <4>5. F[<<Max(s), g[s \ {Max(s)}]>>] = step(g[s \ {Max(s)}], f + Max(s))
        BY <4>1, <4>4
      <4>6. later[Max(s)] = f + Max(s)
        BY <4>1
      <4> QED BY <3>2, <4>3, <4>5, <4>6
    <3> QED BY <3>1, <3>2
  <2>3. g = [s \in SUBSET (1 .. n) |-> g[s]]
    BY <2>1
  <2> HIDE DEF n, step, base, later
  <2> QED BY <1>1, <2>2, <2>3
<1>6. It(it)
  <2> HIDE DEF It
  <2> QED BY <1>5
<1>7. Trace(d, f, r) = it[DOMAIN later]
  BY DEF Trace, FoldLeft, MapThenFoldSet
<1> HIDE DEF it
<1>8. /\ it[{}] = base
      /\ \A k \in 0 .. (n - 1) : it[1 .. (k + 1)] = step(it[1 .. k], f + (k + 1))
  <2>1. it[{}] = base
    <3> HIDE DEF base, step
    <3> QED BY <1>6
  <2>2. ASSUME NEW k \in 0 .. (n - 1)
        PROVE  it[1 .. (k + 1)] = step(it[1 .. k], f + (k + 1))
    <3> DEFINE s == 1 .. (k + 1)
    <3>0. k \in Nat /\ k + 1 \in 1 .. n /\ s \in SUBSET (1 .. n)
      BY <1>1
    <3>1. s # {} /\ Max(s) = k + 1 /\ s \ {Max(s)} = 1 .. k
      <4> HIDE DEF n
      <4> QED BY <3>0, UpTo
    <3>2. later[Max(s)] = f + (k + 1)
      BY <1>1, <3>0, <3>1
    <3>3. it[s] = step(it[s \ {Max(s)}], later[Max(s)])
      <4> HIDE DEF base, step, later, n, s
      <4> QED BY <1>1, <1>6, <3>0, <3>1
    <3> HIDE DEF step, later
    <3> QED BY <3>1, <3>2, <3>3
  <2> QED BY <2>1, <2>2
<1>9. \A k \in 0 .. n : it[1 .. k] \in V
  <2> DEFINE Good == {k \in 0 .. n : it[1 .. k] \in V}
  <2>1. 0 \in Good
    <3>1. 1 .. 0 = {} /\ 0 \in 0 .. n
      BY <1>1
    <3>2. it[1 .. 0] = base
      <4> HIDE DEF base, step
      <4> QED BY <1>8, <3>1
    <3> HIDE DEF base, V
    <3> QED BY <1>4, <3>1, <3>2
  <2>2. ASSUME NEW k \in 0 .. (n - 1), k \in Good PROVE k + 1 \in Good
    <3> HIDE DEF V, step
    <3>1. k + 1 \in 1 .. n
      BY <1>1
    <3> QED BY <1>3, <1>8, <2>2, <3>1
  <2>3. \A k \in 0 .. n : k \in Good
    <3> HIDE DEF Good, n
    <3> QED BY <1>1, <2>1, <2>2, CountUp
  <2> QED BY <2>3
<1> DEFINE at == [k \in 0 .. n |-> it[1 .. k].at]
           through == [k \in 0 .. n |-> it[1 .. k].carried]
<1>10. Walks(d, f, Takes(d, r), at, through)
  <2>1. at \in [0 .. n -> Works] /\ through \in [0 .. n -> SUBSET ((f + 1) .. Len(d.folds))]
    BY <1>9
  <2>2. at[0] = d.folds[f].new /\ through[0] = {}
    <3>1. 1 .. 0 = {} /\ 0 \in 0 .. n
      BY <1>1
    <3>2. at[0] = it[1 .. 0].at /\ through[0] = it[1 .. 0].carried
      BY <3>1
    <3>3. it[1 .. 0] = base
      <4> HIDE DEF base, step
      <4> QED BY <1>8, <3>1
    <3> HIDE DEF at, through
    <3> QED BY <3>2, <3>3
  <2>3. ASSUME NEW k \in 0 .. (n - 1)
        PROVE  IF ~d.folds[f + (k + 1)].undone /\ d.folds[f + (k + 1)].old = at[k] /\ f + (k + 1) \in Takes(d, r)
               THEN at[k + 1] = d.folds[f + (k + 1)].new /\ through[k + 1] = through[k] \cup {f + (k + 1)}
               ELSE at[k + 1] = at[k] /\ through[k + 1] = through[k]
    <3>1. k + 1 \in 1 .. n /\ k \in 0 .. n /\ k + 1 \in 0 .. n
      BY <1>1
    <3>2. at[k] = it[1 .. k].at /\ through[k] = it[1 .. k].carried
          /\ at[k + 1] = it[1 .. (k + 1)].at /\ through[k + 1] = it[1 .. (k + 1)].carried
      BY <3>1
    <3> HIDE DEF step, V, at, through, n
    <3> QED BY <1>3, <1>8, <1>9, <3>1, <3>2
  <2> HIDE DEF at, through
  <2> QED BY <2>1, <2>2, <2>3 DEF Walks
<1>11. Trace(d, f, r) = [at |-> at[n], carried |-> through[n], dropped |-> 0]
  <2>1. n \in 0 .. n /\ it[1 .. n] \in V
    BY <1>1, <1>9
  <2>2. at[n] = it[1 .. n].at /\ through[n] = it[1 .. n].carried
    BY <2>1
  <2> QED BY <1>1, <1>7, <2>1, <2>2
<1> QED
  BY <1>10, <1>11

(* A walk depends on what it passes: the works, what was undone, and takes. *)
SameFolds(d, x) ==
    /\ Len(x.folds) = Len(d.folds)
    /\ \A g \in DOMAIN d.folds :
         /\ x.folds[g].old = d.folds[g].old /\ x.folds[g].new = d.folds[g].new
         /\ x.folds[g].undone = d.folds[g].undone

LEMMA WalksSame ==
  ASSUME NEW d \in PlainDb, NEW x \in PlainDb, NEW f \in DOMAIN d.folds, SameFolds(d, x),
         NEW takes, NEW at, NEW through, Walks(d, f, takes, at, through),
         NEW at2, NEW through2, Walks(x, f, takes, at2, through2)
  PROVE  at2[Len(x.folds) - f] = at[Len(d.folds) - f]
         /\ through2[Len(x.folds) - f] = through[Len(d.folds) - f]
<1> DEFINE n == Len(d.folds) - f
           Good == {k \in 0 .. n : at2[k] = at[k] /\ through2[k] = through[k]}
<1>1. /\ n \in Nat /\ Len(d.folds) \in Nat /\ f \in Nat /\ Len(x.folds) - f = n
      /\ \A k \in 0 .. (n - 1) : f + (k + 1) \in DOMAIN d.folds
  BY DEF PlainDb, SameFolds
<1>2. 0 \in Good
  <2>1. at[0] = at2[0] /\ through[0] = through2[0]
    BY DEF Walks, SameFolds
  <2> QED BY <1>1, <2>1
<1>3. ASSUME NEW k \in 0 .. (n - 1), k \in Good PROVE k + 1 \in Good
  <2> DEFINE g == f + (k + 1)
  <2>1. IF ~d.folds[g].undone /\ d.folds[g].old = at[k] /\ g \in takes
        THEN at[k + 1] = d.folds[g].new /\ through[k + 1] = through[k] \cup {g}
        ELSE at[k + 1] = at[k] /\ through[k + 1] = through[k]
    BY DEF Walks
  <2>2. IF ~x.folds[g].undone /\ x.folds[g].old = at2[k] /\ g \in takes
        THEN at2[k + 1] = x.folds[g].new /\ through2[k + 1] = through2[k] \cup {g}
        ELSE at2[k + 1] = at2[k] /\ through2[k + 1] = through2[k]
    BY <1>1 DEF Walks
  <2>3. /\ x.folds[g].old = d.folds[g].old /\ x.folds[g].new = d.folds[g].new
        /\ x.folds[g].undone = d.folds[g].undone
    BY <1>1 DEF SameFolds
  <2>4. at2[k] = at[k] /\ through2[k] = through[k] /\ k + 1 \in 0 .. n
    BY <1>1, <1>3
  <2> HIDE DEF g
  <2>5. at2[k + 1] = at[k + 1] /\ through2[k + 1] = through[k + 1]
    BY <2>1, <2>2, <2>3, <2>4
  <2> QED BY <2>4, <2>5
<1>4. \A k \in 0 .. n : k \in Good
  <2>1. \A k \in 0 .. (n - 1) : k \in Good => k + 1 \in Good
    <3> HIDE DEF Good, n
    <3> QED BY <1>3
  <2> HIDE DEF Good, n
  <2> QED BY <1>1, <1>2, <2>1, CountUp
<1>5. n \in 0 .. n
  BY <1>1
<1>6. at2[n] = at[n] /\ through2[n] = through[n]
  BY <1>4, <1>5
<1> QED
  BY <1>1, <1>6

(* So a row's trace depends on the ledger only in the folds that moved it. *)
LEMMA TraceSame ==
  ASSUME NEW d \in PlainDb, NEW x \in PlainDb, NEW f \in DOMAIN d.folds, NEW r \in Row,
         SameFolds(d, x), Takes(x, r) = Takes(d, r)
  PROVE  Trace(x, f, r) = Trace(d, f, r)
<1>1. f \in DOMAIN x.folds
  BY DEF SameFolds, PlainDb
<1>2. PICK at, through :
            /\ Walks(d, f, Takes(d, r), at, through)
            /\ Trace(d, f, r) = [at |-> at[Len(d.folds) - f],
                                 carried |-> through[Len(d.folds) - f], dropped |-> 0]
  BY TraceWalks
<1>3. PICK at2, through2 :
            /\ Walks(x, f, Takes(x, r), at2, through2)
            /\ Trace(x, f, r) = [at |-> at2[Len(x.folds) - f],
                                 carried |-> through2[Len(x.folds) - f], dropped |-> 0]
  BY <1>1, TraceWalks
<1>4. at2[Len(x.folds) - f] = at[Len(d.folds) - f]
      /\ through2[Len(x.folds) - f] = through[Len(d.folds) - f]
  BY <1>2, <1>3, WalksSame
<1> QED
  BY <1>2, <1>3, <1>4

LEMMA TraceTyped ==
  ASSUME NEW d \in PlainDb, NEW f \in DOMAIN d.folds, NEW r \in Row
  PROVE  /\ Trace(d, f, r).at \in Works /\ Trace(d, f, r).dropped = 0
         /\ Trace(d, f, r).carried \in SUBSET ((f + 1) .. Len(d.folds))
<1>1. PICK at, through :
            /\ Walks(d, f, Takes(d, r), at, through)
            /\ Trace(d, f, r) = [at |-> at[Len(d.folds) - f],
                                 carried |-> through[Len(d.folds) - f], dropped |-> 0]
  BY TraceWalks
<1>2. Len(d.folds) - f \in 0 .. (Len(d.folds) - f)
  BY DEF PlainDb
<1>3. at[Len(d.folds) - f] \in Works /\ through[Len(d.folds) - f] \in SUBSET ((f + 1) .. Len(d.folds))
  BY <1>1, <1>2 DEF Walks
<1> QED
  BY <1>1, <1>3

-----------------------------------------------------------------------------
(* The folds of a way are in force and in order, each of the work the one  *)
(* before led to, and none in force that leaves a work of the way comes    *)
(* after the way has come there and before it goes on.                     *)
Leads(d, way) ==
    /\ way \in Seq(DOMAIN d.folds)
    /\ \A p \in DOMAIN way : ~d.folds[way[p]].undone
    /\ \A p, q \in DOMAIN way : p < q => way[p] < way[q]
    /\ \A p \in 1 .. (Len(way) - 1) : d.folds[way[p + 1]].old = d.folds[way[p]].new
    /\ \A p \in DOMAIN way, g \in DOMAIN d.folds :
         ~d.folds[g].undone /\ g > way[p] /\ d.folds[g].old = d.folds[way[p]].new
         => p < Len(way) /\ way[p + 1] <= g

Beyond(way, f) == {g \in Range(way) : g > f}

LEMMA WalkFollows ==
  ASSUME NEW d \in PlainDb, NEW way, Leads(d, way), NEW p \in DOMAIN way,
         NEW takes, Beyond(way, way[p]) \subseteq takes,
         NEW at, NEW through, Walks(d, way[p], takes, at, through)
  PROVE  /\ at[Len(d.folds) - way[p]] = d.folds[way[Len(way)]].new
         /\ through[Len(d.folds) - way[p]] = Beyond(way, way[p])
<1> DEFINE f == way[p]
           n == Len(d.folds) - f
           Is(k, q) == /\ at[k] = d.folds[way[q]].new /\ way[q] <= f + k
                       /\ \A j \in (q + 1) .. Len(way) : way[j] > f + k
                       /\ through[k] = {g \in Range(way) : f < g /\ g <= f + k}
           Good == {k \in 0 .. n : \E q \in p .. Len(way) : Is(k, q)}
<1>1. /\ way \in Seq(DOMAIN d.folds) /\ Len(way) \in Nat /\ DOMAIN way = 1 .. Len(way)
      /\ d.folds \in Seq(PlainFold) /\ Len(d.folds) \in Nat /\ DOMAIN d.folds = 1 .. Len(d.folds)
      /\ \A q \in 1 .. Len(way) : way[q] \in 1 .. Len(d.folds)
      /\ \A q, j \in 1 .. Len(way) : q < j => way[q] < way[j]
  <2>1. d.folds \in Seq(PlainFold) /\ Len(d.folds) \in Nat /\ DOMAIN d.folds = 1 .. Len(d.folds)
    BY DEF PlainDb
  <2>2. way \in Seq(DOMAIN d.folds) /\ \A q, j \in DOMAIN way : q < j => way[q] < way[j]
    BY DEF Leads
  <2> DEFINE D == DOMAIN d.folds
  <2>3. way \in Seq(D) /\ D = 1 .. Len(d.folds)
    BY <2>1, <2>2
  <2> HIDE DEF D
  <2>4. Len(way) \in Nat /\ DOMAIN way = 1 .. Len(way) /\ \A q \in 1 .. Len(way) : way[q] \in D
    BY <2>3
  <2> QED BY <2>1, <2>2, <2>3, <2>4
<1>2. n \in Nat /\ f \in 1 .. Len(d.folds) /\ p \in 1 .. Len(way)
      /\ f = way[p] /\ n = Len(d.folds) - f
  BY <1>1
<1>0. Walks(d, f, takes, at, through) /\ Beyond(way, f) \subseteq takes
  OBVIOUS
<1> HIDE DEF f, n
<1>10. /\ Len(way) \in Nat /\ Len(d.folds) \in Nat /\ f \in Nat /\ n \in Nat /\ p \in Nat
       /\ 1 <= p /\ p <= Len(way) /\ 1 <= f /\ f + n = Len(d.folds)
  <2>1. Len(way) \in Nat /\ Len(d.folds) \in Nat
    BY <1>1
  <2>2. f \in Nat /\ 1 <= f /\ f <= Len(d.folds) /\ p \in Nat /\ 1 <= p /\ p <= Len(way)
    BY <1>2, <2>1
  <2>3. n \in Nat /\ n = Len(d.folds) - f
    BY <1>2
  <2> QED BY <2>1, <2>2, <2>3
<1>11. /\ \A q \in 1 .. Len(way) : way[q] \in Nat /\ way[q] <= Len(d.folds)
       /\ \A q, j \in 1 .. Len(way) : q < j => way[q] < way[j]
  BY <1>1
<1>3. Is(0, p)
  <2>1. at[0] = d.folds[f].new /\ through[0] = {}
    BY <1>0 DEF Walks
  <2>2. ASSUME NEW j \in (p + 1) .. Len(way) PROVE way[j] > f + 0
    <3>1. j \in 1 .. Len(way) /\ p \in 1 .. Len(way) /\ p < j
      BY <1>10
    <3>2. way[j] \in Nat /\ way[p] < way[j] /\ way[p] = f
      BY <1>2, <1>11, <3>1
    <3> QED BY <1>10, <3>2
  <2>3. {g \in Range(way) : f < g /\ g <= f + 0} = {}
    <3>1. \A g \in Range(way) : g \in Nat
      BY <1>1 DEF Range
    <3> QED BY <1>10, <3>1
  <2>4. way[p] = f /\ f <= f + 0
    BY <1>2, <1>10
  <2> QED BY <2>1, <2>2, <2>3, <2>4
<1>4. 0 \in Good
  <2>1. 0 \in 0 .. n /\ p \in p .. Len(way)
    BY <1>10
  <2> QED BY <1>3, <2>1
<1>5. ASSUME NEW k \in 0 .. (n - 1), k \in Good PROVE k + 1 \in Good
  <2> DEFINE g == f + (k + 1)
  <2>1. PICK q \in p .. Len(way) : Is(k, q)
    BY <1>5
  <2>2. /\ k \in Nat /\ k + 1 \in 0 .. n /\ g \in 1 .. Len(d.folds) /\ q \in 1 .. Len(way)
        /\ g = (f + k) + 1 /\ f + (k + 1) = g /\ f + k \in Nat
        /\ q \in Nat /\ p <= q /\ q <= Len(way)
    BY <1>10
  <2>3. IF ~d.folds[g].undone /\ d.folds[g].old = at[k] /\ g \in takes
        THEN at[k + 1] = d.folds[g].new /\ through[k + 1] = through[k] \cup {g}
        ELSE at[k + 1] = at[k] /\ through[k + 1] = through[k]
    <3>1. k \in 0 .. (Len(d.folds) - f - 1)
      BY <1>2
    <3> QED BY <1>0, <3>1 DEF Walks
  <2> HIDE DEF g
  <2>4. CASE q < Len(way) /\ way[q + 1] = g
    <3>1. q + 1 \in 1 .. Len(way) /\ q + 1 \in p .. Len(way) /\ q \in 1 .. (Len(way) - 1)
      BY <1>1, <1>2, <2>2, <2>4
    <3>2. ~d.folds[g].undone /\ d.folds[g].old = at[k]
      BY <1>1, <2>1, <2>4, <3>1 DEF Leads
    <3>3. g \in Range(way) /\ g > f
      <4>1. g > f
        BY <1>2, <2>2
      <4> QED BY <1>1, <2>4, <3>1, <4>1 DEF Range
    <3>4. g \in takes
      BY <1>0, <3>3 DEF Beyond
    <3>5. at[k + 1] = d.folds[way[q + 1]].new /\ through[k + 1] = through[k] \cup {g}
      BY <2>3, <2>4, <3>2, <3>4
    <3>6. way[q + 1] <= f + (k + 1)
      BY <2>2, <2>4
    <3>7. \A j \in ((q + 1) + 1) .. Len(way) : way[j] > f + (k + 1)
      <4> SUFFICES ASSUME NEW j \in ((q + 1) + 1) .. Len(way) PROVE way[j] > f + (k + 1)
        OBVIOUS
      <4>1. j \in 1 .. Len(way) /\ q + 1 \in 1 .. Len(way) /\ q + 1 < j
        BY <1>10, <2>2
      <4>2. way[j] \in Nat /\ way[q + 1] < way[j] /\ way[q + 1] = f + (k + 1)
        BY <1>11, <2>2, <2>4, <4>1
      <4> QED BY <1>10, <2>2, <4>2
    <3>8. through[k + 1] = {h \in Range(way) : f < h /\ h <= f + (k + 1)}
      <4>1. through[k] = {h \in Range(way) : f < h /\ h <= f + k}
        BY <2>1
      <4>2. \A h \in Range(way) : h \in Nat
        BY <1>1 DEF Range
      <4>3. \A h \in Range(way) : (f < h /\ h <= f + (k + 1)) <=> (f < h /\ h <= f + k) \/ h = g
        <5> SUFFICES ASSUME NEW h \in Range(way)
                     PROVE  (f < h /\ h <= f + (k + 1)) <=> (f < h /\ h <= f + k) \/ h = g
          OBVIOUS
        <5>1. h \in Nat
          BY <4>2
        <5> QED BY <1>10, <2>2, <5>1
      <4> QED BY <3>3, <3>5, <4>1, <4>3
    <3>9. Is(k + 1, q + 1)
      BY <3>5, <3>6, <3>7, <3>8
    <3> QED BY <2>2, <3>1, <3>9
  <2>5. CASE ~(q < Len(way) /\ way[q + 1] = g)
    <3>1. \A j \in (q + 1) .. Len(way) : way[j] > f + (k + 1)
      <4> SUFFICES ASSUME NEW j \in (q + 1) .. Len(way)
                   PROVE  way[j] > f + (k + 1)
        OBVIOUS
      <4>1. q + 1 \in 1 .. Len(way) /\ q < Len(way) /\ j \in 1 .. Len(way) /\ q + 1 \in (q + 1) .. Len(way)
        BY <1>10, <2>2
      <4>2. way[q + 1] > f + k /\ way[q + 1] \in Nat /\ way[q + 1] # g
        BY <1>1, <2>1, <2>5, <4>1
      <4>3. way[q + 1] > f + (k + 1)
        <5> QED BY <1>10, <2>2, <4>2
      <4>5. j = q + 1 \/ q + 1 < j
        BY <2>2, <1>10
      <4>4. j = q + 1 \/ way[q + 1] < way[j]
        BY <1>1, <4>1, <4>5
      <4> QED BY <1>1, <1>2, <2>2, <4>1, <4>3, <4>4
    <3>2. g \notin Range(way)
      <4> SUFFICES ASSUME NEW j \in 1 .. Len(way), way[j] = g PROVE FALSE
        BY <1>1 DEF Range
      <4>1. CASE j \in (q + 1) .. Len(way)
        BY <1>1, <1>2, <2>2, <3>1, <4>1
      <4>2. CASE j <= q
        <5>0. way[j] \in Nat /\ way[q] \in Nat /\ (j = q \/ way[j] < way[q])
          BY <1>1, <2>2, <4>2
        <5>1. way[j] <= way[q] /\ way[q] <= f + k
          BY <2>1, <5>0
        <5> QED BY <1>1, <1>2, <2>2, <5>1
      <4> QED BY <1>1, <2>2, <4>1, <4>2
    <3>3. ~(~d.folds[g].undone /\ d.folds[g].old = at[k])
      <4> SUFFICES ASSUME ~d.folds[g].undone, d.folds[g].old = at[k] PROVE FALSE
        OBVIOUS
      <4>1. g > way[q] /\ d.folds[g].old = d.folds[way[q]].new
        BY <1>1, <1>2, <2>1, <2>2
      <4>2. q < Len(way) /\ way[q + 1] <= g
        BY <1>1, <2>2, <4>1 DEF Leads
      <4>5. q + 1 \in 1 .. Len(way) /\ q + 1 \in (q + 1) .. Len(way)
        BY <1>1, <2>2, <4>2
      <4>3. way[q + 1] > f + k /\ way[q + 1] \in Nat
        BY <1>1, <2>1, <4>5
      <4>4. way[q + 1] = g
        <5>1. g \in Nat /\ g = (f + k) + 1 /\ f + k \in Nat
          BY <2>2
        <5> QED BY <4>2, <4>3, <5>1
      <4> QED BY <2>5, <4>2, <4>4
    <3>4. at[k + 1] = at[k] /\ through[k + 1] = through[k]
      BY <2>3, <3>3
    <3>5. through[k + 1] = {h \in Range(way) : f < h /\ h <= f + (k + 1)}
      <4>1. through[k] = {h \in Range(way) : f < h /\ h <= f + k}
        BY <2>1
      <4>2. \A h \in Range(way) : h \in Nat
        BY <1>1 DEF Range
      <4>3. \A h \in Range(way) : (f < h /\ h <= f + (k + 1)) <=> (f < h /\ h <= f + k)
        <5> SUFFICES ASSUME NEW h \in Range(way) PROVE (f < h /\ h <= f + (k + 1)) <=> (f < h /\ h <= f + k)
          OBVIOUS
        <5>1. h \in Nat /\ h # g
          BY <3>2, <4>2
        <5> QED BY <1>10, <2>2, <5>1
      <4> QED BY <3>4, <4>1, <4>3
    <3>6. way[q] <= f + (k + 1)
      <4>1. way[q] <= f + k /\ way[q] \in Nat
        BY <1>11, <2>1, <2>2
      <4> QED BY <1>10, <2>2, <4>1
    <3>7. Is(k + 1, q)
      BY <2>1, <3>1, <3>4, <3>5, <3>6
    <3> QED BY <2>2, <3>7
  <2> QED BY <2>4, <2>5
<1>6. \A k \in 0 .. n : k \in Good
  <2>1. \A k \in 0 .. (n - 1) : k \in Good => k + 1 \in Good
    <3> HIDE DEF Good, n
    <3> QED BY <1>5
  <2> HIDE DEF Good, n
  <2> QED BY <1>2, <1>4, <2>1, CountUp
<1>7. PICK q \in p .. Len(way) : Is(n, q)
  <2>1. n \in 0 .. n
    BY <1>2
  <2> HIDE DEF Is
  <2> QED BY <1>6, <2>1
<1>8. q = Len(way) /\ f + n = Len(d.folds)
  <2>1. f + n = Len(d.folds)
    BY <1>1, <1>2
  <2>2. q < Len(way) => q + 1 \in (q + 1) .. Len(way) /\ q + 1 \in 1 .. Len(way)
    BY <1>1, <1>2
  <2>3. q < Len(way) => way[q + 1] > Len(d.folds) /\ way[q + 1] <= Len(d.folds) /\ way[q + 1] \in Nat
    BY <1>1, <1>7, <2>1, <2>2
  <2>4. q \in Nat /\ q <= Len(way)
    BY <1>10
  <2>5. ~(q < Len(way))
    <3> SUFFICES ASSUME q < Len(way) PROVE FALSE
      OBVIOUS
    <3>1. way[q + 1] > Len(d.folds) /\ way[q + 1] <= Len(d.folds) /\ way[q + 1] \in Nat
      BY <2>3
    <3> QED BY <1>10, <3>1
  <2> QED BY <1>10, <2>4, <2>5
<1>9. {g \in Range(way) : f < g /\ g <= f + n} = Beyond(way, f)
  <2>1. \A h \in Range(way) : h \in 1 .. Len(d.folds)
    BY <1>1 DEF Range
  <2>2. \A h \in Range(way) : (f < h /\ h <= f + n) <=> h > f
    BY <1>10, <2>1
  <2> QED BY <2>2 DEF Beyond
<1> QED
  BY <1>2, <1>7, <1>8, <1>9

(* Where a trace leads.                                                    *)
LEMMA TraceFollows ==
  ASSUME NEW d \in PlainDb, NEW way, Leads(d, way), NEW p \in DOMAIN way, NEW r \in Row,
         Beyond(way, way[p]) \subseteq Takes(d, r)
  PROVE  Trace(d, way[p], r) = [at |-> d.folds[way[Len(way)]].new,
                                carried |-> Beyond(way, way[p]), dropped |-> 0]
<1>1. way[p] \in DOMAIN d.folds
  BY DEF Leads
<1>2. PICK at, through :
            /\ Walks(d, way[p], Takes(d, r), at, through)
            /\ Trace(d, way[p], r) = [at |-> at[Len(d.folds) - way[p]],
                                 carried |-> through[Len(d.folds) - way[p]], dropped |-> 0]
  BY <1>1, TraceWalks
<1>3. /\ at[Len(d.folds) - way[p]] = d.folds[way[Len(way)]].new
      /\ through[Len(d.folds) - way[p]] = Beyond(way, way[p])
  BY <1>2, WalkFollows
<1> QED
  BY <1>2, <1>3

-----------------------------------------------------------------------------
(* What an undo does to a table without peers.                             *)

LEMMA RowsAreFinite == IsFiniteSet(Row) /\ \A S \in SUBSET Row : IsFiniteSet(S)
BY WorksOK, FS_Product, FS_Subset DEF Row

LEMMA PlainParts ==
  ASSUME NEW d \in PlainDb
  PROVE  /\ d.folds \in Seq(PlainFold) /\ Len(d.folds) \in Nat /\ DOMAIN d.folds = 1 .. Len(d.folds)
         /\ d.folds = [g \in DOMAIN d.folds |-> d.folds[g]]
         /\ \A g \in DOMAIN d.folds : d.folds[g] \in PlainFold
         /\ d.at \in [Row -> Works \cup {0}] /\ d.daily \in [Works -> Bucket]
         /\ d.local \in [Works -> Snap] /\ d.count \in [Row -> Int] /\ d.table \in PlainTables
         /\ \A r, w : Peers(d, r, w) = {}
BY DEF PlainDb, PlainTables, Peers, HasPeer

(* Another ledger of the same length in place of a database's own.         *)
LEMMA PlainLedger ==
  ASSUME NEW d \in PlainDb, NEW l \in [DOMAIN d.folds -> PlainFold]
  PROVE  /\ [d EXCEPT !.folds = l] \in PlainDb
         /\ [d EXCEPT !.folds = l].folds = l /\ Len(l) = Len(d.folds)
         /\ \A m : [[d EXCEPT !.folds = l] EXCEPT !.folds = m] = [d EXCEPT !.folds = m]
<1>1. Len(d.folds) \in Nat /\ DOMAIN d.folds = 1 .. Len(d.folds)
  BY PlainParts
<1>2. l \in Seq(PlainFold) /\ Len(l) = Len(d.folds)
  BY <1>1
<1> QED
  BY <1>2 DEF PlainDb

(* What is done to a set's elements one after another, if each step goes   *)
(* from g's value to g's value, comes to g's value of the set.             *)
Pick(s) == CHOOSE x \in s : TRUE

LEMMA OneByOne ==
  ASSUME NEW S, IsFiniteSet(S), NEW g, NEW h, g[{}] = h[{}],
         \A s \in SUBSET S : s # {} /\ g[s \ {Pick(s)}] = h[s \ {Pick(s)}] => g[s] = h[s]
  PROVE  g[S] = h[S]
<1> DEFINE Good == {T \in SUBSET S : g[T] = h[T]}
<1>1. ASSUME NEW T \in SUBSET S, \A U \in SUBSET T : U # T => U \in Good
      PROVE  T \in Good
  <2>1. CASE T = {}
    BY <2>1
  <2>2. CASE T # {}
    <3>1. Pick(T) \in T
      BY <2>2 DEF Pick
    <3>2. T \ {Pick(T)} \in Good
      BY <1>1, <3>1
    <3> QED BY <2>2, <3>2
  <2> QED BY <2>1, <2>2
<1>2. \A T \in SUBSET S : T \in Good
  <2> HIDE DEF Good
  <2> QED BY <1>1, SubsetInduction
<1> QED
  BY <1>2

Voiding(d, r, gs) ==
    [g \in DOMAIN d.folds |->
        IF g \in gs THEN [d.folds[g] EXCEPT !.moved = @ \ {r}] ELSE d.folds[g]]

LEMMA VoidMovesClosed ==
  ASSUME NEW d \in PlainDb, NEW r \in Row, NEW gs \in SUBSET (DOMAIN d.folds)
  PROVE  VoidMoves(d, r, gs) = [d EXCEPT !.folds = Voiding(d, r, gs)]
<1> DEFINE Ledger(s) == [g \in DOMAIN d.folds |->
               IF g \in s THEN [d.folds[g] EXCEPT !.moved = @ \ {r}] ELSE d.folds[g]]
           Closed(s) == [d EXCEPT !.folds = Ledger(s)]
           step(g, c) == [c EXCEPT !.folds[g].moved = @ \ {r}]
           It(i) == i = [s \in SUBSET gs |-> IF s = {} THEN d ELSE step(Pick(s), i[s \ {Pick(s)}])]
           closed == [s \in SUBSET gs |-> Closed(s)]
           it == CHOOSE i : It(i)
<1>1. \A s \in SUBSET gs : Ledger(s) \in [DOMAIN d.folds -> PlainFold]
  <2> SUFFICES ASSUME NEW s \in SUBSET gs, NEW g \in DOMAIN d.folds
               PROVE  Ledger(s)[g] \in PlainFold
    OBVIOUS
  <2>1. d.folds[g] \in PlainFold
    BY PlainParts
  <2>2. [d.folds[g] EXCEPT !.moved = @ \ {r}] \in PlainFold
    BY <2>1 DEF PlainFold
  <2> QED BY <2>1, <2>2
<1>2. Closed({}) = d
  <2>1. Ledger({}) = d.folds
    BY PlainParts
  <2> HIDE DEF Ledger
  <2> QED BY <2>1 DEF PlainDb
<1>3. ASSUME NEW s \in SUBSET gs, NEW x \in s
      PROVE  step(x, Closed(s \ {x})) = Closed(s)
  <2> DEFINE e == Closed(s \ {x})
             m == [e.folds EXCEPT ![x] = [e.folds[x] EXCEPT !.moved = @ \ {r}]]
  <2>1. step(x, e) = [e EXCEPT !.folds = m]
    <3> HIDE DEF Ledger
    <3> QED BY DEF PlainDb
  <2>2. e.folds = Ledger(s \ {x})
    <3> HIDE DEF Ledger
    <3> QED BY <1>1, PlainLedger
  <2>3. m = Ledger(s)
    <3> HIDE DEF e
    <3>1. x \in DOMAIN d.folds /\ x \notin s \ {x}
      OBVIOUS
    <3> QED BY <2>2, <3>1
  <2>4. [e EXCEPT !.folds = m] = Closed(s)
    <3> HIDE DEF m, Ledger
    <3> QED BY <1>1, <2>3, PlainLedger
  <2> QED BY <2>1, <2>4
<1> HIDE DEF Closed, step
<1>4. It(closed)
  <2>1. ASSUME NEW s \in SUBSET gs
        PROVE  closed[s] = IF s = {} THEN d ELSE step(Pick(s), closed[s \ {Pick(s)}])
    <3>1. CASE s = {}
      BY <1>2, <3>1
    <3>2. CASE s # {}
      <4>1. Pick(s) \in s
        BY <3>2 DEF Pick
      <4> QED BY <1>3, <3>2, <4>1
    <3> QED BY <3>1, <3>2
  <2>2. closed = [s \in SUBSET gs |-> closed[s]]
    OBVIOUS
  <2> HIDE DEF closed
  <2> QED BY <2>1, <2>2
<1>5. It(it)
  <2> HIDE DEF It, closed
  <2> QED BY <1>4
<1>6. VoidMoves(d, r, gs) = it[gs]
  BY DEF VoidMoves, FoldSet, MapThenFoldSet, Pick, step
<1> HIDE DEF it
<1>7. IsFiniteSet(gs)
  <2>1. Len(d.folds) \in Nat /\ DOMAIN d.folds = 1 .. Len(d.folds)
    BY PlainParts
  <2>2. IsFiniteSet(1 .. Len(d.folds))
    BY <2>1, FS_Interval
  <2> QED BY <2>1, <2>2, FS_Subset
<1>8. it[gs] = closed[gs]
  <2>1. it[{}] = closed[{}]
    BY <1>4, <1>5
  <2>2. \A s \in SUBSET gs : s # {} /\ it[s \ {Pick(s)}] = closed[s \ {Pick(s)}] => it[s] = closed[s]
    <3> HIDE DEF closed
    <3> QED BY <1>4, <1>5
  <2> HIDE DEF closed
  <2> QED BY <1>7, <2>1, <2>2, OneByOne
<1> QED
  BY <1>6, <1>8 DEF Closed, Voiding

Old(d, f) == d.folds[f].old

(* The rows an undo of fold f finds, and takes out of later ledgers.       *)
Back(d, f) == {r \in d.folds[f].moved : d.at[r] = Trace(d, f, r).at}
Voided(d, f, s, g) == {r \in s \cap Back(d, f) : g \in Trace(d, f, r).carried}
BackAt(d, f, s) == [r \in Row |-> IF r \in s \cap Back(d, f) THEN Old(d, f) ELSE d.at[r]]
BackLedger(d, f, s) ==
    [g \in DOMAIN d.folds |-> [d.folds[g] EXCEPT !.moved = @ \ Voided(d, f, s, g)]]
MovedBack(d, f, s) == [d EXCEPT !.at = BackAt(d, f, s), !.folds = BackLedger(d, f, s)]

LEMMA MovedBackPlain ==
  ASSUME NEW d \in PlainDb, NEW f \in DOMAIN d.folds, NEW s \in SUBSET Row
  PROVE  /\ MovedBack(d, f, s) \in PlainDb /\ SameFolds(d, MovedBack(d, f, s))
         /\ BackAt(d, f, s) \in [Row -> Works \cup {0}]
         /\ BackLedger(d, f, s) \in [DOMAIN d.folds -> PlainFold]
         /\ MovedBack(d, f, s).at = BackAt(d, f, s)
         /\ MovedBack(d, f, s).folds = BackLedger(d, f, s)
         /\ DOMAIN MovedBack(d, f, s).folds = DOMAIN d.folds
<1>1. Old(d, f) \in Works
  BY PlainParts DEF Old, PlainFold
<1>2. BackAt(d, f, s) \in [Row -> Works \cup {0}]
  BY <1>1, PlainParts DEF BackAt
<1>3. BackLedger(d, f, s) \in [DOMAIN d.folds -> PlainFold]
  <2> SUFFICES ASSUME NEW g \in DOMAIN d.folds
               PROVE  BackLedger(d, f, s)[g] \in PlainFold
    BY DEF BackLedger
  <2>1. d.folds[g] \in PlainFold
    BY PlainParts
  <2> QED BY <2>1 DEF BackLedger, PlainFold
<1>4. /\ [d EXCEPT !.folds = BackLedger(d, f, s)] \in PlainDb
      /\ Len(BackLedger(d, f, s)) = Len(d.folds)
  BY <1>3, PlainLedger
<1>5. /\ MovedBack(d, f, s) \in PlainDb /\ MovedBack(d, f, s).at = BackAt(d, f, s)
      /\ MovedBack(d, f, s).folds = BackLedger(d, f, s)
  BY <1>2, <1>4 DEF MovedBack, PlainDb
<1>6. SameFolds(d, MovedBack(d, f, s))
  BY <1>4, <1>5 DEF SameFolds, BackLedger
<1> QED
  BY <1>2, <1>3, <1>5, <1>6

LEMMA MoveBackOnce ==
  ASSUME NEW d \in PlainDb, NEW f \in DOMAIN d.folds, NEW s \in SUBSET (d.folds[f].moved), NEW r \in s
  PROVE  MoveBack(MovedBack(d, f, s \ {r}), f, r) = MovedBack(d, f, s)
<1> DEFINE T == s \ {r}
           x == MovedBack(d, f, T)
           t == Trace(d, f, r)
<1>0. s \in SUBSET Row /\ T \in SUBSET Row /\ r \in Row /\ r \in d.folds[f].moved
  BY PlainParts DEF PlainFold
<1>1. /\ x \in PlainDb /\ SameFolds(d, x) /\ x.at = BackAt(d, f, T)
      /\ x.folds = BackLedger(d, f, T) /\ DOMAIN x.folds = DOMAIN d.folds
  BY <1>0, MovedBackPlain
<1> HIDE DEF x
<1>2. Takes(x, r) = Takes(d, r)
  BY <1>0, <1>1 DEF Takes, BackLedger, Voided
<1>3. Trace(x, f, r) = t
  BY <1>0, <1>1, <1>2, TraceSame
<1>4. t.at \in Works /\ t.dropped = 0 /\ t.carried \in SUBSET (DOMAIN d.folds)
  <2>1. t.carried \in SUBSET ((f + 1) .. Len(d.folds)) /\ t.at \in Works /\ t.dropped = 0
    BY <1>0, TraceTyped
  <2>2. Len(d.folds) \in Nat /\ DOMAIN d.folds = 1 .. Len(d.folds)
    BY PlainParts
  <2> QED BY <2>1, <2>2
<1>5. x.at[r] = d.at[r] /\ x.folds[f].old = Old(d, f)
  BY <1>0, <1>1 DEF BackAt, SameFolds, Old
<1>6. MoveBack(x, f, r) = IF d.at[r] = t.at
                          THEN VoidMoves([x EXCEPT !.at[r] = Old(d, f)], r, t.carried) ELSE x
  BY <1>1, <1>3, <1>4, <1>5, PlainParts DEF MoveBack
<1>7. CASE d.at[r] = t.at
  <2> DEFINE y == [x EXCEPT !.at[r] = Old(d, f)]
             l == Voiding(y, r, t.carried)
  <2>1. Old(d, f) \in Works
    BY PlainParts DEF Old, PlainFold
  <2>2. y \in PlainDb /\ y.folds = x.folds /\ y.at = [x.at EXCEPT ![r] = Old(d, f)]
    BY <1>0, <1>1, <2>1 DEF PlainDb
  <2>3. VoidMoves(y, r, t.carried) = [y EXCEPT !.folds = l]
    <3>1. t.carried \in SUBSET (DOMAIN y.folds) /\ y \in PlainDb
      BY <1>1, <1>4, <2>2
    <3> HIDE DEF y, t
    <3> QED BY <1>0, <3>1, VoidMovesClosed
  <2>4. y.at = BackAt(d, f, s)
    BY <1>0, <1>1, <1>7, <2>2 DEF BackAt, Back
  <2>5. l = BackLedger(d, f, s)
    <3> SUFFICES ASSUME NEW g \in DOMAIN d.folds
                 PROVE  l[g] = BackLedger(d, f, s)[g]
      BY <1>1, <2>2 DEF BackLedger, Voiding
    <3>1. y.folds[g] = [d.folds[g] EXCEPT !.moved = @ \ Voided(d, f, T, g)]
      BY <1>1, <2>2 DEF BackLedger
    <3>2. d.folds[g] \in PlainFold
      BY PlainParts
    <3>3. Voided(d, f, s, g) = IF g \in t.carried THEN Voided(d, f, T, g) \cup {r} ELSE Voided(d, f, T, g)
      BY <1>0, <1>7 DEF Voided, Back
    <3> HIDE DEF y, t
    <3>4. l[g] = IF g \in t.carried THEN [y.folds[g] EXCEPT !.moved = @ \ {r}] ELSE y.folds[g]
      BY <1>1, <2>2 DEF Voiding
    <3>5. BackLedger(d, f, s)[g] = [d.folds[g] EXCEPT !.moved = @ \ Voided(d, f, s, g)]
      BY DEF BackLedger
    <3>6. [[d.folds[g] EXCEPT !.moved = @ \ Voided(d, f, T, g)] EXCEPT !.moved = @ \ {r}]
          = [d.folds[g] EXCEPT !.moved = @ \ (Voided(d, f, T, g) \cup {r})]
      BY <3>2 DEF PlainFold
    <3> QED BY <3>1, <3>3, <3>4, <3>5, <3>6
  <2>6. [y EXCEPT !.folds = BackLedger(d, f, s)] = MovedBack(d, f, s)
    <3>1. y = [x EXCEPT !.at = BackAt(d, f, s)]
      BY <1>1, <2>2, <2>4 DEF PlainDb
    <3>2. x = [d EXCEPT !.at = BackAt(d, f, T), !.folds = BackLedger(d, f, T)]
      BY DEF x, MovedBack
    <3> HIDE DEF y
    <3> QED BY <3>1, <3>2 DEF MovedBack, PlainDb
  <2> HIDE DEF y, l
  <2> QED BY <1>6, <1>7, <2>3, <2>5, <2>6 DEF y, x
<1>8. CASE d.at[r] # t.at
  <2>1. BackAt(d, f, s) = BackAt(d, f, T)
    BY <1>8 DEF BackAt, Back
  <2>2. \A g : Voided(d, f, s, g) = Voided(d, f, T, g)
    BY <1>8 DEF Voided, Back
  <2>3. BackLedger(d, f, s) = BackLedger(d, f, T)
    BY <2>2 DEF BackLedger
  <2> QED BY <1>6, <1>8, <2>1, <2>3 DEF MovedBack, x
<1> QED
  BY <1>7, <1>8

LEMMA RowsMoveBack ==
  ASSUME NEW d \in PlainDb, NEW f \in DOMAIN d.folds
  PROVE  FoldSet(LAMBDA r, x : MoveBack(x, f, r), d, d.folds[f].moved)
           = MovedBack(d, f, d.folds[f].moved)
<1> DEFINE S == d.folds[f].moved
           It(i) == i = [s \in SUBSET S |-> IF s = {} THEN d ELSE MoveBack(i[s \ {Pick(s)}], f, Pick(s))]
           closed == [s \in SUBSET S |-> MovedBack(d, f, s)]
           it == CHOOSE i : It(i)
<1>1. MovedBack(d, f, {}) = d
  <2>1. BackAt(d, f, {}) = d.at /\ \A g : Voided(d, f, {}, g) = {}
    BY PlainParts DEF BackAt, Voided
  <2>2. BackLedger(d, f, {}) = d.folds
    <3>1. ASSUME NEW g \in DOMAIN d.folds PROVE BackLedger(d, f, {})[g] = d.folds[g]
      <4>1. d.folds[g] \in PlainFold
        BY PlainParts
      <4> QED BY <2>1, <4>1 DEF BackLedger, PlainFold
    <3>2. BackLedger(d, f, {}) = [g \in DOMAIN d.folds |-> BackLedger(d, f, {})[g]]
      BY DEF BackLedger
    <3> QED BY <3>1, <3>2, PlainParts
  <2> QED BY <2>1, <2>2 DEF MovedBack, PlainDb
<1>2. It(closed)
  <2>1. ASSUME NEW s \in SUBSET S
        PROVE  closed[s] = IF s = {} THEN d ELSE MoveBack(closed[s \ {Pick(s)}], f, Pick(s))
    <3>1. CASE s = {}
      BY <1>1, <3>1
    <3>2. CASE s # {}
      <4>1. Pick(s) \in s
        BY <3>2 DEF Pick
      <4> QED BY <3>2, <4>1, MoveBackOnce
    <3> QED BY <3>1, <3>2
  <2>2. closed = [s \in SUBSET S |-> closed[s]]
    OBVIOUS
  <2> HIDE DEF closed
  <2> QED BY <2>1, <2>2
<1>3. It(it)
  <2> HIDE DEF It, closed
  <2> QED BY <1>2
<1>4. FoldSet(LAMBDA r, x : MoveBack(x, f, r), d, S) = it[S]
  BY DEF FoldSet, MapThenFoldSet, Pick
<1> HIDE DEF it
<1>5. IsFiniteSet(S)
  BY PlainParts, RowsAreFinite DEF PlainFold
<1>6. it[S] = closed[S]
  <2>1. it[{}] = closed[{}]
    BY <1>2, <1>3
  <2>2. \A s \in SUBSET S : s # {} /\ it[s \ {Pick(s)}] = closed[s \ {Pick(s)}] => it[s] = closed[s]
    <3> HIDE DEF closed
    <3> QED BY <1>2, <1>3
  <2> HIDE DEF closed, S
  <2> QED BY <1>5, <2>1, <2>2, OneByOne
<1>7. closed[S] = MovedBack(d, f, S)
  OBVIOUS
<1> HIDE DEF closed
<1> QED
  BY <1>4, <1>6, <1>7

(* An undo's views, where a walk through the buckets leads to.             *)
Summed(d) == {g \in DOMAIN d.folds : d.folds[g].bucket # NoBucket}

Unsummed(d, f, at, through) ==
    LET n == d.folds[f].bucket
        left == Less(d.daily[at], n)
        taken == [d.daily EXCEPT ![at] = IF left = 0 THEN NoBucket ELSE left]
    IN IF n = NoBucket THEN d
       ELSE [FoldSet(LAMBDA g, c : [c EXCEPT !.folds[g].bucket = Less(@, n)], d, through)
            EXCEPT !.daily = [taken EXCEPT ![Old(d, f)] = Plus(taken[Old(d, f)], n)]]

LEMMA ViewsWalk ==
  ASSUME NEW d \in PlainDb, NEW f \in DOMAIN d.folds
  PROVE  \E at, through :
            /\ Walks(d, f, Summed(d), at, through)
            /\ UnsumViews(d, f) = Unsummed(d, f, at[Len(d.folds) - f], through[Len(d.folds) - f])
<1> DEFINE n == Len(d.folds) - f
           later == [i \in 1 .. n |-> f + i]
           base == [at |-> d.folds[f].new, through |-> {}]
           step(t, g) ==
             IF d.folds[g].undone \/ d.folds[g].old # t.at \/ d.folds[g].bucket = NoBucket THEN t
             ELSE [at |-> d.folds[g].new, through |-> t.through \cup {g}]
           V == [at : Works, through : SUBSET ((f + 1) .. Len(d.folds))]
           F == [p \in (1 .. n) \X V |-> step(p[2], f + p[1])]
           It(g) == g = [s \in SUBSET (DOMAIN later) |->
                           IF s = {} THEN base ELSE step(g[s \ {Max(s)}], later[Max(s)])]
           it == CHOOSE g : It(g)
<1>1. /\ n \in Nat /\ DOMAIN later = 1 .. n /\ d.folds \in Seq(PlainFold) /\ Len(d.folds) \in Nat
      /\ \A i \in 1 .. n : later[i] = f + i /\ f + i \in DOMAIN d.folds /\ f + i \in (f + 1) .. Len(d.folds)
      /\ f \in Nat
  BY DEF PlainDb
<1>2. \A g \in DOMAIN d.folds : d.folds[g] \in PlainFold
  BY <1>1
<1>3. ASSUME NEW k \in 1 .. n, NEW v \in V
      PROVE  /\ step(v, f + k) \in V
             /\ IF ~d.folds[f + k].undone /\ d.folds[f + k].old = v.at /\ f + k \in Summed(d)
                THEN step(v, f + k).at = d.folds[f + k].new /\ step(v, f + k).through = v.through \cup {f + k}
                ELSE step(v, f + k).at = v.at /\ step(v, f + k).through = v.through
  <2>1. f + k \in DOMAIN d.folds /\ d.folds[f + k] \in PlainFold /\ f + k \in (f + 1) .. Len(d.folds)
    BY <1>1, <1>2
  <2> QED BY <2>1 DEF PlainFold, Summed
<1>4. base \in V
  BY <1>2 DEF PlainFold
<1>5. \E g : It(g)
  <2>0. PICK g \in [SUBSET (1 .. n) -> V] : IsWalk(n, base, F, g)
    <3>1. \A k \in 1 .. n, v \in V : F[<<k, v>>] \in V
      <4> HIDE DEF V, n, step
      <4> QED BY <1>3
    <3>2. n \in Nat /\ base \in V
      BY <1>1, <1>4
    <3> HIDE DEF V, n, F, base
    <3> QED BY <3>1, <3>2, WalkExists
  <2>1. g = [s \in SUBSET (1 .. n) |-> IF s = {} THEN base ELSE F[<<Max(s), g[s \ {Max(s)}]>>]]
    <3> HIDE DEF V, n, F, base
    <3> QED BY <2>0 DEF IsWalk
  <2>2. ASSUME NEW s \in SUBSET (1 .. n)
        PROVE  g[s] = IF s = {} THEN base ELSE step(g[s \ {Max(s)}], later[Max(s)])
    <3>1. CASE s = {}
      BY <2>1, <3>1
    <3>2. CASE s # {}
      <4>1. Max(s) \in 1 .. n
        BY <1>1, <3>2, MaxIsThere
      <4>2. s \ {Max(s)} \in SUBSET (1 .. n)
        OBVIOUS
      <4> HIDE DEF V, n, step, base
      <4>3. g[s] = F[<<Max(s), g[s \ {Max(s)}]>>]
        BY <2>1, <3>2
      <4>4. g[s \ {Max(s)}] \in V
        BY <2>1, <4>2
      <4>5. F[<<Max(s), g[s \ {Max(s)}]>>] = step(g[s \ {Max(s)}], f + Max(s))
        BY <4>1, <4>4
      <4>6. later[Max(s)] = f + Max(s)
        BY <4>1
      <4> QED BY <3>2, <4>3, <4>5, <4>6
    <3> QED BY <3>1, <3>2
  <2>3. g = [s \in SUBSET (1 .. n) |-> g[s]]
    BY <2>1
  <2> HIDE DEF n, step, base, later
  <2> QED BY <1>1, <2>2, <2>3
<1>6. It(it)
  <2> HIDE DEF It
  <2> QED BY <1>5
<1>7. UnsumViews(d, f) = Unsummed(d, f, it[DOMAIN later].at, it[DOMAIN later].through)
  BY DEF UnsumViews, Unsummed, Old, FoldLeft, MapThenFoldSet
<1> HIDE DEF it
<1>8. /\ it[{}] = base
      /\ \A k \in 0 .. (n - 1) : it[1 .. (k + 1)] = step(it[1 .. k], f + (k + 1))
  <2>1. it[{}] = base
    <3> HIDE DEF base, step
    <3> QED BY <1>6
  <2>2. ASSUME NEW k \in 0 .. (n - 1)
        PROVE  it[1 .. (k + 1)] = step(it[1 .. k], f + (k + 1))
    <3> DEFINE s == 1 .. (k + 1)
    <3>0. k \in Nat /\ k + 1 \in 1 .. n /\ s \in SUBSET (1 .. n)
      BY <1>1
    <3>1. s # {} /\ Max(s) = k + 1 /\ s \ {Max(s)} = 1 .. k
      <4> HIDE DEF n
      <4> QED BY <3>0, UpTo
    <3>2. later[Max(s)] = f + (k + 1)
      BY <1>1, <3>0, <3>1
    <3>3. it[s] = step(it[s \ {Max(s)}], later[Max(s)])
      <4> HIDE DEF base, step, later, n, s
      <4> QED BY <1>1, <1>6, <3>0, <3>1
    <3> HIDE DEF step, later
    <3> QED BY <3>1, <3>2, <3>3
  <2> QED BY <2>1, <2>2
<1>9. \A k \in 0 .. n : it[1 .. k] \in V
  <2> DEFINE Good == {k \in 0 .. n : it[1 .. k] \in V}
  <2>1. 0 \in Good
    <3>1. 1 .. 0 = {} /\ 0 \in 0 .. n
      BY <1>1
    <3>2. it[1 .. 0] = base
      <4> HIDE DEF base, step
      <4> QED BY <1>8, <3>1
    <3> HIDE DEF base, V
    <3> QED BY <1>4, <3>1, <3>2
  <2>2. ASSUME NEW k \in 0 .. (n - 1), k \in Good PROVE k + 1 \in Good
    <3> HIDE DEF V, step
    <3>1. k + 1 \in 1 .. n
      BY <1>1
    <3> QED BY <1>3, <1>8, <2>2, <3>1
  <2>3. \A k \in 0 .. n : k \in Good
    <3> HIDE DEF Good, n
    <3> QED BY <1>1, <2>1, <2>2, CountUp
  <2> QED BY <2>3
<1> DEFINE at == [k \in 0 .. n |-> it[1 .. k].at]
           through == [k \in 0 .. n |-> it[1 .. k].through]
<1>10. Walks(d, f, Summed(d), at, through)
  <2>1. at \in [0 .. n -> Works] /\ through \in [0 .. n -> SUBSET ((f + 1) .. Len(d.folds))]
    BY <1>9
  <2>2. at[0] = d.folds[f].new /\ through[0] = {}
    <3>1. 1 .. 0 = {} /\ 0 \in 0 .. n
      BY <1>1
    <3>2. at[0] = it[1 .. 0].at /\ through[0] = it[1 .. 0].through
      BY <3>1
    <3>3. it[1 .. 0] = base
      <4> HIDE DEF base, step
      <4> QED BY <1>8, <3>1
    <3> HIDE DEF at, through
    <3> QED BY <3>2, <3>3
  <2>3. ASSUME NEW k \in 0 .. (n - 1)
        PROVE  IF ~d.folds[f + (k + 1)].undone /\ d.folds[f + (k + 1)].old = at[k] /\ f + (k + 1) \in Summed(d)
               THEN at[k + 1] = d.folds[f + (k + 1)].new /\ through[k + 1] = through[k] \cup {f + (k + 1)}
               ELSE at[k + 1] = at[k] /\ through[k + 1] = through[k]
    <3>1. k + 1 \in 1 .. n /\ k \in 0 .. n /\ k + 1 \in 0 .. n
      BY <1>1
    <3>2. at[k] = it[1 .. k].at /\ through[k] = it[1 .. k].through
          /\ at[k + 1] = it[1 .. (k + 1)].at /\ through[k + 1] = it[1 .. (k + 1)].through
      BY <3>1
    <3> HIDE DEF step, V, at, through, n
    <3> QED BY <1>3, <1>8, <1>9, <3>1, <3>2
  <2> HIDE DEF at, through
  <2> QED BY <2>1, <2>2, <2>3 DEF Walks
<1>11. UnsumViews(d, f) = Unsummed(d, f, at[n], through[n])
  <2>1. n \in 0 .. n
    BY <1>1
  <2>2. at[n] = it[1 .. n].at /\ through[n] = it[1 .. n].through
    BY <2>1
  <2> HIDE DEF at, through, later
  <2> QED BY <1>1, <1>7, <2>2
<1> QED
  BY <1>10, <1>11

(* Entries of the ledger replaced one after another.                       *)
Put(l, x, v) == [l EXCEPT ![x] = v]
WithFolds(d, l) == [d EXCEPT !.folds = l]

Rewritten(d, E, s) ==
    [d EXCEPT !.folds = [g \in DOMAIN d.folds |-> IF g \in s THEN E[g] ELSE d.folds[g]]]

LEMMA RewriteOne ==
  ASSUME NEW d \in PlainDb, NEW E \in [DOMAIN d.folds -> PlainFold], NEW s \in SUBSET (DOMAIN d.folds)
  PROVE  /\ Rewritten(d, E, s) \in PlainDb /\ Rewritten(d, E, {}) = d
         /\ Rewritten(d, E, s).folds
              = [g \in DOMAIN d.folds |-> IF g \in s THEN E[g] ELSE d.folds[g]]
         /\ Len(Rewritten(d, E, s).folds) = Len(d.folds)
<1> DEFINE Ledger(u) == [g \in DOMAIN d.folds |-> IF g \in u THEN E[g] ELSE d.folds[g]]
<1>1. \A u : Ledger(u) \in [DOMAIN d.folds -> PlainFold]
  BY PlainParts
<1>2. Ledger({}) = d.folds
  BY PlainParts
<1>3. \A u : Rewritten(d, E, u) = [d EXCEPT !.folds = Ledger(u)]
  BY DEF Rewritten
<1> HIDE DEF Ledger
<1>4. \A u : /\ Rewritten(d, E, u) \in PlainDb /\ Rewritten(d, E, u).folds = Ledger(u)
             /\ Len(Rewritten(d, E, u).folds) = Len(d.folds)
             /\ \A m : [Rewritten(d, E, u) EXCEPT !.folds = m] = [d EXCEPT !.folds = m]
  <2> SUFFICES ASSUME NEW u
               PROVE  /\ Rewritten(d, E, u) \in PlainDb /\ Rewritten(d, E, u).folds = Ledger(u)
                      /\ Len(Rewritten(d, E, u).folds) = Len(d.folds)
                      /\ \A m : [Rewritten(d, E, u) EXCEPT !.folds = m] = [d EXCEPT !.folds = m]
    OBVIOUS
  <2> DEFINE l == Ledger(u)
  <2>1. l \in [DOMAIN d.folds -> PlainFold] /\ Rewritten(d, E, u) = [d EXCEPT !.folds = l]
    BY <1>1, <1>3
  <2>2. /\ [d EXCEPT !.folds = l] \in PlainDb
        /\ [d EXCEPT !.folds = l].folds = l /\ Len(l) = Len(d.folds)
        /\ \A m : [[d EXCEPT !.folds = l] EXCEPT !.folds = m] = [d EXCEPT !.folds = m]
    <3> HIDE DEF l
    <3> QED BY <2>1, PlainLedger
  <2> QED BY <2>1, <2>2
<1>5. Rewritten(d, E, {}) = d
  BY <1>2, <1>3 DEF PlainDb
<1> QED
  BY <1>4, <1>5 DEF Ledger

LEMMA RewriteStep ==
  ASSUME NEW d \in PlainDb, NEW E \in [DOMAIN d.folds -> PlainFold], NEW s \in SUBSET (DOMAIN d.folds),
         NEW x \in s
  PROVE  /\ Rewritten(d, E, s \ {x}).folds[x] = d.folds[x]
         /\ WithFolds(Rewritten(d, E, s \ {x}), Put(Rewritten(d, E, s \ {x}).folds, x, E[x]))
              = Rewritten(d, E, s)
<1> DEFINE Ledger(u) == [g \in DOMAIN d.folds |-> IF g \in u THEN E[g] ELSE d.folds[g]]
           e == Rewritten(d, E, s \ {x})
<1>1. s \ {x} \in SUBSET (DOMAIN d.folds)
  OBVIOUS
<1>2. e \in PlainDb /\ e.folds = Ledger(s \ {x})
  BY <1>1, RewriteOne
<1>3. Ledger(s \ {x})[x] = d.folds[x] /\ [Ledger(s \ {x}) EXCEPT ![x] = E[x]] = Ledger(s)
  OBVIOUS
<1>4. e = [d EXCEPT !.folds = Ledger(s \ {x})] /\ Rewritten(d, E, s) = [d EXCEPT !.folds = Ledger(s)]
  BY DEF Rewritten
<1> HIDE DEF Ledger, e
<1>5. WithFolds(e, Ledger(s)) = Rewritten(d, E, s)
  BY <1>4 DEF WithFolds, PlainDb
<1>6. Put(e.folds, x, E[x]) = Ledger(s)
  BY <1>2, <1>3 DEF Put
<1> QED
  BY <1>2, <1>3, <1>5, <1>6 DEF e

LEMMA LedgerSetsFinite ==
  ASSUME NEW d \in PlainDb, NEW gs \in SUBSET (DOMAIN d.folds)
  PROVE  IsFiniteSet(gs)
<1>1. Len(d.folds) \in Nat /\ DOMAIN d.folds = 1 .. Len(d.folds)
  BY PlainParts
<1>2. IsFiniteSet(1 .. Len(d.folds))
  BY <1>1, FS_Interval
<1> QED
  BY <1>1, <1>2, FS_Subset

Lessened(d, n) == [g \in DOMAIN d.folds |-> [d.folds[g] EXCEPT !.bucket = Less(@, n)]]

LEMMA BucketsLessen ==
  ASSUME NEW d \in PlainDb, NEW gs \in SUBSET (DOMAIN d.folds), NEW n \in Nat
  PROVE  /\ FoldSet(LAMBDA g, c : [c EXCEPT !.folds[g].bucket = Less(@, n)], d, gs)
              = Rewritten(d, Lessened(d, n), gs)
         /\ Lessened(d, n) \in [DOMAIN d.folds -> PlainFold]
<1> DEFINE E == Lessened(d, n)
           step(g, c) == [c EXCEPT !.folds[g].bucket = Less(@, n)]
           It(i) == i = [s \in SUBSET gs |-> IF s = {} THEN d ELSE step(Pick(s), i[s \ {Pick(s)}])]
           closed == [s \in SUBSET gs |-> Rewritten(d, E, s)]
           it == CHOOSE i : It(i)
<1>1. E \in [DOMAIN d.folds -> PlainFold]
  <2> SUFFICES ASSUME NEW g \in DOMAIN d.folds
               PROVE  [d.folds[g] EXCEPT !.bucket = Less(@, n)] \in PlainFold
    BY DEF Lessened
  <2>1. d.folds[g] \in PlainFold
    BY PlainParts
  <2>2. Less(d.folds[g].bucket, n) \in Nat
    BY <2>1 DEF PlainFold, Bucket, Less, NoBucket
  <2> QED BY <2>1, <2>2 DEF PlainFold, Bucket
<1>2. \A x \in gs : E[x] = [d.folds[x] EXCEPT !.bucket = Less(@, n)]
  BY DEF Lessened
<1> HIDE DEF E
<1>3. ASSUME NEW s \in SUBSET gs, NEW x \in s
      PROVE  step(x, Rewritten(d, E, s \ {x})) = Rewritten(d, E, s)
  <2> DEFINE e == Rewritten(d, E, s \ {x})
  <2>1. /\ e \in PlainDb /\ e.folds[x] = d.folds[x]
        /\ WithFolds(e, Put(e.folds, x, E[x])) = Rewritten(d, E, s)
    <3>1. s \in SUBSET (DOMAIN d.folds) /\ s \ {x} \in SUBSET (DOMAIN d.folds)
      OBVIOUS
    <3>2. e \in PlainDb
      BY <1>1, <3>1, RewriteOne
    <3>3. /\ e.folds[x] = d.folds[x]
          /\ WithFolds(e, Put(e.folds, x, E[x])) = Rewritten(d, E, s)
      BY <1>1, <3>1, RewriteStep
    <3> QED BY <3>2, <3>3
  <2>2. step(x, e) = WithFolds(e, Put(e.folds, x, [e.folds[x] EXCEPT !.bucket = Less(@, n)]))
    <3> HIDE DEF e
    <3> QED BY <2>1 DEF PlainDb, Put, WithFolds, step
  <2> HIDE DEF step, e
  <2>3. [e.folds[x] EXCEPT !.bucket = Less(@, n)] = E[x]
    BY <1>2, <2>1
  <2> QED BY <2>1, <2>2, <2>3 DEF e
<1> HIDE DEF step
<1>4. It(closed)
  <2>1. ASSUME NEW s \in SUBSET gs
        PROVE  closed[s] = IF s = {} THEN d ELSE step(Pick(s), closed[s \ {Pick(s)}])
    <3>1. CASE s = {}
      BY <1>1, <3>1, RewriteOne
    <3>2. CASE s # {}
      <4>1. Pick(s) \in s
        BY <3>2 DEF Pick
      <4> QED BY <1>3, <3>2, <4>1
    <3> QED BY <3>1, <3>2
  <2>2. closed = [s \in SUBSET gs |-> closed[s]]
    OBVIOUS
  <2> HIDE DEF closed
  <2> QED BY <2>1, <2>2
<1>5. It(it)
  <2> HIDE DEF It, closed
  <2> QED BY <1>4
<1>6. FoldSet(LAMBDA g, c : [c EXCEPT !.folds[g].bucket = Less(@, n)], d, gs) = it[gs]
  BY DEF FoldSet, MapThenFoldSet, Pick, step
<1> HIDE DEF it
<1>7. it[gs] = closed[gs]
  <2>1. it[{}] = closed[{}]
    BY <1>4, <1>5
  <2>2. \A s \in SUBSET gs : s # {} /\ it[s \ {Pick(s)}] = closed[s \ {Pick(s)}] => it[s] = closed[s]
    <3> HIDE DEF closed
    <3> QED BY <1>4, <1>5
  <2>3. IsFiniteSet(gs)
    BY LedgerSetsFinite
  <2> HIDE DEF closed
  <2> QED BY <2>1, <2>2, <2>3, OneByOne
<1> QED
  BY <1>1, <1>6, <1>7 DEF E

(* What an undo's views come to.                                           *)
Returned(daily, at, o, n) ==
    LET left == Less(daily[at], n)
        taken == [daily EXCEPT ![at] = IF left = 0 THEN NoBucket ELSE left]
    IN  [taken EXCEPT ![o] = Plus(taken[o], n)]

LEMMA ViewsUnsummed ==
  ASSUME NEW d \in PlainDb, NEW f \in DOMAIN d.folds
  PROVE  \E at \in Works, through \in SUBSET ((f + 1) .. Len(d.folds)) :
            /\ \E a, t : Walks(d, f, Summed(d), a, t)
                         /\ at = a[Len(d.folds) - f] /\ through = t[Len(d.folds) - f]
            /\ d.folds[f].bucket = NoBucket => UnsumViews(d, f) = d
            /\ d.folds[f].bucket # NoBucket =>
                 UnsumViews(d, f) =
                   [Rewritten(d, Lessened(d, d.folds[f].bucket), through) EXCEPT
                     !.daily = Returned(d.daily, at, Old(d, f), d.folds[f].bucket)]
<1>1. PICK a, t :
            /\ Walks(d, f, Summed(d), a, t)
            /\ UnsumViews(d, f) = Unsummed(d, f, a[Len(d.folds) - f], t[Len(d.folds) - f])
  BY ViewsWalk
<1> DEFINE at == a[Len(d.folds) - f]
           through == t[Len(d.folds) - f]
           n == d.folds[f].bucket
<1>2. Len(d.folds) \in Nat /\ f \in 1 .. Len(d.folds) /\ n \in Bucket
  BY PlainParts DEF PlainFold
<1>3. Len(d.folds) - f \in 0 .. (Len(d.folds) - f)
  BY <1>2
<1>4. at \in Works /\ through \in SUBSET ((f + 1) .. Len(d.folds))
  BY <1>1, <1>3 DEF Walks
<1>5. n = NoBucket => UnsumViews(d, f) = d
  BY <1>1 DEF Unsummed
<1>6. ASSUME n # NoBucket
      PROVE  UnsumViews(d, f) = [Rewritten(d, Lessened(d, n), through) EXCEPT
                                   !.daily = Returned(d.daily, at, Old(d, f), n)]
  <2> DEFINE b == FoldSet(LAMBDA g, c : [c EXCEPT !.folds[g].bucket = Less(@, n)], d, through)
  <2>1. n \in Nat /\ through \in SUBSET (DOMAIN d.folds)
    BY <1>2, <1>4, <1>6, PlainParts DEF Bucket
  <2>2. b = Rewritten(d, Lessened(d, n), through)
    <3> HIDE DEF through, n
    <3> QED BY <2>1, BucketsLessen
  <2>3. UnsumViews(d, f) = [b EXCEPT !.daily = Returned(d.daily, at, Old(d, f), n)]
    BY <1>1, <1>6 DEF Unsummed, Returned
  <2> HIDE DEF b, at, through, n
  <2> QED BY <2>2, <2>3
<1> QED
  BY <1>1, <1>4, <1>5, <1>6

(* What the work's own rows do not touch.                                  *)
Alike(d, x) ==
    /\ x \in PlainDb /\ SameFolds(d, x)
    /\ x.table = d.table /\ x.at = d.at /\ x.count = d.count /\ x.daily = d.daily
    /\ \A g \in DOMAIN d.folds : /\ x.folds[g].moved = d.folds[g].moved
                                 /\ x.folds[g].bucket = d.folds[g].bucket

LEMMA AlikeTwice ==
  ASSUME NEW d \in PlainDb, NEW x, Alike(d, x), NEW y, Alike(x, y)
  PROVE  Alike(d, y)
<1>1. DOMAIN x.folds = DOMAIN d.folds
  BY PlainParts DEF Alike, SameFolds
<1> QED
  BY <1>1 DEF Alike, SameFolds

LEMMA LocalAlike ==
  ASSUME NEW d \in PlainDb, NEW l \in [Works -> Snap]
  PROVE  Alike(d, [d EXCEPT !.local = l])
BY DEF Alike, SameFolds, PlainDb

Snapshot(d, f, t, g) ==
    LET fold == d.folds[f]
        row == d.folds[g].row
        was == fold.before # NoRow /\ fold.before.published
    IN IF row = NoRow THEN row
       ELSE [view |-> Less(row.view, fold.row.view),
             published |-> IF g = Head(t.through) /\ row.published = fold.after.published
                           THEN was ELSE row.published]

SurvivorAt(d, f, t) ==
    IF d.folds[f].row = NoRow THEN d
    ELSE [FoldSet(LAMBDA g, c : [c EXCEPT !.folds[g].row = Snapshot(d, f, t, g)], d, Range(t.through))
          EXCEPT !.local[t.at] = IF @ = NoRow THEN @
                                 ELSE [@ EXCEPT !.view = Less(d.local[t.at].view, d.folds[f].row.view)]]

LEMMA SurvivorWalk ==
  ASSUME NEW d \in PlainDb, NEW f \in DOMAIN d.folds
  PROVE  \E t \in [at : Works, through : Seq(DOMAIN d.folds)] :
            RestoreFoldedSurvivor(d, f) = SurvivorAt(d, f, t)
<1> DEFINE n == Len(d.folds) - f
           later == [i \in 1 .. n |-> f + i]
           base == [at |-> d.folds[f].new, through |-> <<>>]
           step(t, g) ==
             IF d.folds[g].undone \/ d.folds[g].old # t.at THEN t
             ELSE [at |-> d.folds[g].new, through |-> Append(t.through, g)]
           V == [at : Works, through : Seq(DOMAIN d.folds)]
           F == [p \in (1 .. n) \X V |-> step(p[2], f + p[1])]
           It(g) == g = [s \in SUBSET (DOMAIN later) |->
                           IF s = {} THEN base ELSE step(g[s \ {Max(s)}], later[Max(s)])]
           it == CHOOSE g : It(g)
<1>1. /\ n \in Nat /\ DOMAIN later = 1 .. n /\ d.folds \in Seq(PlainFold) /\ Len(d.folds) \in Nat
      /\ \A i \in 1 .. n : later[i] = f + i /\ f + i \in DOMAIN d.folds
      /\ f \in Nat
  BY DEF PlainDb
<1>2. \A g \in DOMAIN d.folds : d.folds[g] \in PlainFold
  BY <1>1
<1>3. ASSUME NEW k \in 1 .. n, NEW v \in V
      PROVE  step(v, f + k) \in V
  <2>1. f + k \in DOMAIN d.folds /\ d.folds[f + k] \in PlainFold
    BY <1>1, <1>2
  <2>2. v.through \in Seq(DOMAIN d.folds) /\ v.at \in Works
    OBVIOUS
  <2>0. Append(v.through, f + k) \in Seq(DOMAIN d.folds)
    BY <2>1, <2>2, AppendProperties
  <2>3. Append(v.through, f + k) \in Seq(DOMAIN d.folds) /\ d.folds[f + k].new \in Works
    BY <2>0, <2>1 DEF PlainFold
  <2>4. [at |-> d.folds[f + k].new, through |-> Append(v.through, f + k)] \in V
    BY <2>3
  <2> HIDE DEF V
  <2> QED BY <2>4
<1>4. base \in V
  BY <1>2 DEF PlainFold
<1>5. \E g : It(g)
  <2>0. PICK g \in [SUBSET (1 .. n) -> V] : IsWalk(n, base, F, g)
    <3>1. \A k \in 1 .. n, v \in V : F[<<k, v>>] \in V
      <4> HIDE DEF V, n, step
      <4> QED BY <1>3
    <3>2. n \in Nat /\ base \in V
      BY <1>1, <1>4
    <3> HIDE DEF V, n, F, base
    <3> QED BY <3>1, <3>2, WalkExists
  <2>1. g = [s \in SUBSET (1 .. n) |-> IF s = {} THEN base ELSE F[<<Max(s), g[s \ {Max(s)}]>>]]
    <3> HIDE DEF V, n, F, base
    <3> QED BY <2>0 DEF IsWalk
  <2>2. ASSUME NEW s \in SUBSET (1 .. n)
        PROVE  g[s] = IF s = {} THEN base ELSE step(g[s \ {Max(s)}], later[Max(s)])
    <3>1. CASE s = {}
      BY <2>1, <3>1
    <3>2. CASE s # {}
      <4>1. Max(s) \in 1 .. n
        BY <1>1, <3>2, MaxIsThere
      <4>2. s \ {Max(s)} \in SUBSET (1 .. n)
        OBVIOUS
      <4> HIDE DEF V, n, step, base
      <4>3. g[s] = F[<<Max(s), g[s \ {Max(s)}]>>]
        BY <2>1, <3>2
      <4>4. g[s \ {Max(s)}] \in V
        BY <2>1, <4>2
      <4>5. F[<<Max(s), g[s \ {Max(s)}]>>] = step(g[s \ {Max(s)}], f + Max(s))
        BY <4>1, <4>4
      <4>6. later[Max(s)] = f + Max(s)
        BY <4>1
      <4> QED BY <3>2, <4>3, <4>5, <4>6
    <3> QED BY <3>1, <3>2
  <2>3. g = [s \in SUBSET (1 .. n) |-> g[s]]
    BY <2>1
  <2> HIDE DEF n, step, base, later
  <2> QED BY <1>1, <2>2, <2>3
<1>6. It(it)
  <2> HIDE DEF It
  <2> QED BY <1>5
<1>7. RestoreFoldedSurvivor(d, f) = SurvivorAt(d, f, it[DOMAIN later])
  BY DEF RestoreFoldedSurvivor, SurvivorAt, Snapshot, FoldLeft, MapThenFoldSet
<1> HIDE DEF it
<1>8. \A s \in SUBSET (1 .. n) : it[s] \in V
  <2> DEFINE Good == {s \in SUBSET (1 .. n) : it[s] \in V}
  <2>1. ASSUME NEW s \in SUBSET (1 .. n), \A u \in SUBSET s : u # s => u \in Good
        PROVE  s \in Good
    <3>1. CASE s = {}
      <4>1. it[s] = base
        <5> HIDE DEF base, step
        <5> QED BY <1>1, <1>6, <3>1
      <4> QED BY <1>4, <4>1
    <3>2. CASE s # {}
      <4>1. Max(s) \in 1 .. n /\ Max(s) \in s
        BY <1>1, <3>2, MaxIsThere
      <4>2. it[s \ {Max(s)}] \in V
        BY <2>1, <4>1
      <4> HIDE DEF V, step, base
      <4>3. it[s] = step(it[s \ {Max(s)}], later[Max(s)])
        BY <1>1, <1>6, <3>2
      <4>4. later[Max(s)] = f + Max(s)
        BY <1>1, <4>1
      <4>5. it[s] \in V
        BY <1>3, <4>1, <4>2, <4>3, <4>4
      <4> QED BY <4>5
    <3> QED BY <3>1, <3>2
  <2>2. IsFiniteSet(1 .. n)
    BY <1>1, FS_Interval
  <2>3. \A s \in SUBSET (1 .. n) : s \in Good
    <3> HIDE DEF Good, n
    <3> QED BY <2>1, <2>2, SubsetInduction
  <2> QED BY <2>3
<1>9. it[DOMAIN later] \in V
  BY <1>1, <1>8
<1> QED
  BY <1>7, <1>9

LEMMA SurvivorAlike ==
  ASSUME NEW d \in PlainDb, NEW f \in DOMAIN d.folds, NEW t \in [at : Works, through : Seq(DOMAIN d.folds)]
  PROVE  Alike(d, SurvivorAt(d, f, t))
<1> DEFINE gs == Range(t.through)
           Sn(g) == Snapshot(d, f, t, g)
           E == [g \in DOMAIN d.folds |-> [d.folds[g] EXCEPT !.row = Sn(g)]]
           step(g, c) == [c EXCEPT !.folds[g].row = Sn(g)]
           It(i) == i = [s \in SUBSET gs |-> IF s = {} THEN d ELSE step(Pick(s), i[s \ {Pick(s)}])]
           closed == [s \in SUBSET gs |-> Rewritten(d, E, s)]
           it == CHOOSE i : It(i)
<1>0. gs \in SUBSET (DOMAIN d.folds) /\ d.folds[f] \in PlainFold /\ t.at \in Works
  <2>1. t.through \in Seq(DOMAIN d.folds) /\ t.at \in Works
    OBVIOUS
  <2>2. \A q \in DOMAIN t.through : t.through[q] \in DOMAIN d.folds
    BY <2>1
  <2>3. gs \in SUBSET (DOMAIN d.folds)
    BY <2>2 DEF Range
  <2> QED BY <2>1, <2>3, PlainParts
<1>1. ASSUME NEW g \in DOMAIN d.folds PROVE Sn(g) \in Snap
  <2>1. d.folds[g].row \in Snap /\ d.folds[f].row \in Snap /\ d.folds[f].before \in Snap
    BY <1>0, PlainParts DEF PlainFold
  <2>2. Less(d.folds[g].row.view, d.folds[f].row.view) \in Int
    BY <2>1 DEF Less, Snap
  <2> QED BY <2>1, <2>2 DEF Snapshot, Snap
<1>2. E \in [DOMAIN d.folds -> PlainFold] /\ \A x \in DOMAIN d.folds : E[x] = [d.folds[x] EXCEPT !.row = Sn(x)]
  <2> HIDE DEF Sn
  <2> SUFFICES ASSUME NEW g \in DOMAIN d.folds
               PROVE  [d.folds[g] EXCEPT !.row = Sn(g)] \in PlainFold
    OBVIOUS
  <2>1. d.folds[g] \in PlainFold /\ Sn(g) \in Snap
    BY <1>1, PlainParts
  <2> QED BY <2>1 DEF PlainFold
<1> HIDE DEF E, Sn, gs
<1>3. ASSUME NEW s \in SUBSET gs, NEW x \in s
      PROVE  step(x, Rewritten(d, E, s \ {x})) = Rewritten(d, E, s)
  <2> DEFINE e == Rewritten(d, E, s \ {x})
  <2>0. s \in SUBSET (DOMAIN d.folds) /\ s \ {x} \in SUBSET (DOMAIN d.folds) /\ x \in DOMAIN d.folds
    BY <1>0
  <2>1. e \in PlainDb
    BY <1>2, <2>0, RewriteOne
  <2>2. e.folds[x] = d.folds[x] /\ WithFolds(e, Put(e.folds, x, E[x])) = Rewritten(d, E, s)
    BY <1>2, <2>0, RewriteStep
  <2>3. step(x, e) = WithFolds(e, Put(e.folds, x, [e.folds[x] EXCEPT !.row = Sn(x)]))
    <3> HIDE DEF e
    <3> QED BY <2>1 DEF PlainDb, Put, WithFolds
  <2> HIDE DEF step, e
  <2>4. [e.folds[x] EXCEPT !.row = Sn(x)] = E[x]
    BY <1>2, <2>0, <2>2
  <2> QED BY <2>2, <2>3, <2>4 DEF e
<1> HIDE DEF step
<1>4. It(closed)
  <2>1. ASSUME NEW s \in SUBSET gs
        PROVE  closed[s] = IF s = {} THEN d ELSE step(Pick(s), closed[s \ {Pick(s)}])
    <3>1. CASE s = {}
      BY <1>2, <3>1, RewriteOne
    <3>2. CASE s # {}
      <4>1. Pick(s) \in s
        BY <3>2 DEF Pick
      <4> QED BY <1>3, <3>2, <4>1
    <3> QED BY <3>1, <3>2
  <2>2. closed = [s \in SUBSET gs |-> closed[s]]
    OBVIOUS
  <2> HIDE DEF closed
  <2> QED BY <2>1, <2>2
<1>5. It(it)
  <2> HIDE DEF It, closed
  <2> QED BY <1>4
<1>6. FoldSet(LAMBDA g, c : [c EXCEPT !.folds[g].row = Snapshot(d, f, t, g)], d, Range(t.through)) = it[gs]
  BY DEF FoldSet, MapThenFoldSet, Pick, step, Sn, gs
<1> HIDE DEF it
<1>7. it[gs] = closed[gs]
  <2>1. it[{}] = closed[{}]
    BY <1>4, <1>5
  <2>2. \A s \in SUBSET gs : s # {} /\ it[s \ {Pick(s)}] = closed[s \ {Pick(s)}] => it[s] = closed[s]
    <3> HIDE DEF closed
    <3> QED BY <1>4, <1>5
  <2>3. IsFiniteSet(gs)
    BY <1>0, LedgerSetsFinite
  <2> HIDE DEF closed
  <2> QED BY <2>1, <2>2, <2>3, OneByOne
<1> DEFINE r == Rewritten(d, E, gs)
<1>8. Alike(d, r) /\ r.local = d.local
  <2>1. /\ r \in PlainDb /\ Len(r.folds) = Len(d.folds)
        /\ r.folds = [g \in DOMAIN d.folds |-> IF g \in gs THEN E[g] ELSE d.folds[g]]
    BY <1>0, <1>2, RewriteOne
  <2>2. /\ r.table = d.table /\ r.at = d.at /\ r.count = d.count /\ r.daily = d.daily /\ r.local = d.local
    BY DEF Rewritten, PlainDb
  <2> HIDE DEF r
  <2>3. ASSUME NEW g \in DOMAIN d.folds
        PROVE  /\ r.folds[g].old = d.folds[g].old /\ r.folds[g].new = d.folds[g].new
               /\ r.folds[g].undone = d.folds[g].undone
               /\ r.folds[g].moved = d.folds[g].moved /\ r.folds[g].bucket = d.folds[g].bucket
    <3>1. d.folds[g] \in PlainFold
      BY PlainParts
    <3>2. r.folds[g] = d.folds[g] \/ r.folds[g] = [d.folds[g] EXCEPT !.row = Sn(g)]
      BY <1>2, <2>1
    <3> QED BY <3>1, <3>2 DEF PlainFold
  <2> QED BY <2>1, <2>2, <2>3 DEF Alike, SameFolds
<1> DEFINE l == [r.local EXCEPT ![t.at] = IF @ = NoRow THEN @
                              ELSE [@ EXCEPT !.view = Less(d.local[t.at].view, d.folds[f].row.view)]]
<1>9. l \in [Works -> Snap]
  <2>1. d.local \in [Works -> Snap] /\ d.folds[f].row \in Snap
    BY <1>0, PlainParts DEF PlainFold
  <2>2. d.local[t.at] \in Snap
    BY <1>0, <2>1
  <2>3. Less(d.local[t.at].view, d.folds[f].row.view) \in Int
    BY <2>1, <2>2 DEF Less, Snap
  <2>4. [d.local[t.at] EXCEPT !.view = Less(d.local[t.at].view, d.folds[f].row.view)] \in Snap
    BY <2>2, <2>3 DEF Snap
  <2> HIDE DEF r
  <2> QED BY <1>0, <1>8, <2>1, <2>2, <2>4
<1>10. Alike(d, [r EXCEPT !.local = l])
  <2>1. r \in PlainDb
    BY <1>8 DEF Alike
  <2> HIDE DEF r, l
  <2> QED BY <1>8, <1>9, <2>1, LocalAlike, AlikeTwice
<1>11. Alike(d, d)
  BY DEF Alike, SameFolds
<1>12. SurvivorAt(d, f, t) = IF d.folds[f].row = NoRow THEN d ELSE [r EXCEPT !.local = l]
  <2>1. FoldSet(LAMBDA g, c : [c EXCEPT !.folds[g].row = Snapshot(d, f, t, g)], d, Range(t.through)) = r
    BY <1>6, <1>7
  <2> HIDE DEF r
  <2> QED BY <2>1 DEF SurvivorAt
<1> QED
  BY <1>10, <1>11, <1>12

LEMMA OldRowAlike ==
  ASSUME NEW d \in PlainDb, NEW f \in DOMAIN d.folds
  PROVE  Alike(d, RestoreOldRow(d, f))
<1> DEFINE old == d.folds[f].old
           row == d.folds[f].row
<1>1. old \in Works /\ row \in Snap /\ d.local[old] \in Snap /\ d.local \in [Works -> Snap]
  BY PlainParts DEF PlainFold
<1>2. Alike(d, d)
  BY DEF Alike, SameFolds
<1> DEFINE l1 == [d.local EXCEPT ![old] = row]
           l2 == [d.local EXCEPT ![old] = [view |-> d.local[old].view + row.view,
                                           published |-> d.local[old].published \/ row.published]]
<1>3. l1 \in [Works -> Snap] /\ l2 \in [Works -> Snap]
  <2>1. [view |-> d.local[old].view + row.view,
         published |-> d.local[old].published \/ row.published] \in Snap
    BY <1>1 DEF Snap
  <2> QED BY <1>1, <2>1
<1>4. Alike(d, [d EXCEPT !.local = l1]) /\ Alike(d, [d EXCEPT !.local = l2])
  <2> HIDE DEF l1, l2
  <2> QED BY <1>3, LocalAlike
<1>5. [d EXCEPT !.local[old] = row] = [d EXCEPT !.local = l1]
  <2> HIDE DEF old, row
  <2> QED BY DEF PlainDb
<1>6. [d EXCEPT !.local[old].view = @ + row.view, !.local[old].published = @ \/ row.published]
      = [d EXCEPT !.local = l2]
  <2> DEFINE b == d.local[old]
  <2>1. b \in Snap
    BY <1>1
  <2>2. [[b EXCEPT !.view = @ + row.view] EXCEPT !.published = @ \/ row.published]
         = [view |-> b.view + row.view, published |-> b.published \/ row.published]
    <3>1. row \in Snap
      BY <1>1
    <3> DEFINE v == b.view + row.view
               p == b.published \/ row.published
    <3>2. b = [view |-> b.view, published |-> b.published]
      <4> HIDE DEF b
      <4> QED BY <2>1 DEF Snap
    <3>3. [b EXCEPT !.view = v] = [view |-> v, published |-> b.published]
      <4> HIDE DEF b, v
      <4> QED BY <3>2
    <3>4. [[view |-> v, published |-> b.published] EXCEPT !.published = p] = [view |-> v, published |-> p]
      <4> HIDE DEF v, p
      <4> QED OBVIOUS
    <3>5. [b EXCEPT !.view = v].published = b.published
      BY <3>3
    <3> QED BY <3>3, <3>4, <3>5
  <2> QED BY <1>1, <2>1, <2>2 DEF PlainDb
<1> QED
  BY <1>2, <1>4, <1>5, <1>6 DEF RestoreOldRow

LEMMA SurvivorRowAlike ==
  ASSUME NEW d \in PlainDb, NEW f \in DOMAIN d.folds
  PROVE  Alike(d, RestoreSurvivor(d, f))
<1> DEFINE fold == d.folds[f]
           w == fold.new
           row == d.local[w]
           was == fold.before # NoRow /\ fold.before.published
           views == IF fold.row = NoRow THEN 0 ELSE fold.row.view
           resources == d.table = "resource" /\ On(d, w) # {}
           less == [view |-> Less(row.view, views),
                    published |-> IF fold.after # NoRow /\ row.published = fold.after.published
                                  THEN was \/ resources ELSE row.published]
           l1 == [d.local EXCEPT ![w] = NoRow]
           l2 == [d.local EXCEPT ![w] = less]
<1>1. /\ fold \in PlainFold /\ fold.before \in Snap /\ fold.row \in Snap /\ w \in Works
      /\ row \in Snap /\ d.local \in [Works -> Snap]
  BY PlainParts DEF PlainFold
<1>2. less \in Snap
  <2>1. Less(row.view, views) \in Int
    BY <1>1 DEF Less, Snap
  <2>2. row.published \in BOOLEAN /\ was \in BOOLEAN /\ resources \in BOOLEAN
    BY <1>1 DEF Snap
  <2> HIDE DEF fold, was, resources, row, views
  <2> QED BY <2>1, <2>2 DEF Snap
<1>3. NoRow \in Snap
  BY DEF NoRow, Snap
<1>4. Alike(d, [d EXCEPT !.local = l1]) /\ Alike(d, [d EXCEPT !.local = l2])
  <2>1. l1 \in [Works -> Snap] /\ l2 \in [Works -> Snap]
    <3> HIDE DEF less, w
    <3> QED BY <1>1, <1>2, <1>3
  <2> HIDE DEF l1, l2
  <2> QED BY <2>1, LocalAlike
<1>5. Alike(d, RestoreFoldedSurvivor(d, f))
  BY SurvivorWalk, SurvivorAlike
<1>6. [d EXCEPT !.local[w] = NoRow] = [d EXCEPT !.local = l1]
      /\ [d EXCEPT !.local[w] = less] = [d EXCEPT !.local = l2]
  <2> HIDE DEF w, less
  <2> QED BY DEF PlainDb
<1>7. \/ RestoreSurvivor(d, f) = RestoreFoldedSurvivor(d, f)
      \/ RestoreSurvivor(d, f) = [d EXCEPT !.local[w] = NoRow]
      \/ RestoreSurvivor(d, f) = [d EXCEPT !.local[w] = less]
  BY DEF RestoreSurvivor
<1> HIDE DEF l1, l2
<1> QED
  BY <1>4, <1>5, <1>6, <1>7

LEMMA NothingUnsummed ==
  ASSUME NEW c \in PlainDb, NEW f \in DOMAIN c.folds, NEW none \in {{}}
  PROVE  FoldSet(LAMBDA s, x : UnsumContributor(x, f, s), c, none) = c
<1> DEFINE It(i) == i = [s \in SUBSET none |-> IF s = {} THEN c
                           ELSE UnsumContributor(i[s \ {Pick(s)}], f, Pick(s))]
           it == CHOOSE i : It(i)
<1>1. It([s \in SUBSET none |-> c])
  OBVIOUS
<1>2. It(it)
  <2> HIDE DEF It
  <2> QED BY <1>1
<1>3. FoldSet(LAMBDA s, x : UnsumContributor(x, f, s), c, none) = it[none]
  BY DEF FoldSet, MapThenFoldSet, Pick
<1> HIDE DEF it
<1> QED
  BY <1>2, <1>3

LEMMA NothingRestored ==
  ASSUME NEW c \in PlainDb, NEW f \in DOMAIN c.folds, NEW into \in Works, NEW none \in {{}}
  PROVE  FoldSet(LAMBDA e, x : RestoreSnapshot(x, f, e, into), c, none) = c
<1> DEFINE It(i) == i = [s \in SUBSET none |-> IF s = {} THEN c
                           ELSE RestoreSnapshot(i[s \ {Pick(s)}], f, Pick(s), into)]
           it == CHOOSE i : It(i)
<1>1. It([s \in SUBSET none |-> c])
  OBVIOUS
<1>2. It(it)
  <2> HIDE DEF It
  <2> QED BY <1>1
<1>3. FoldSet(LAMBDA e, x : RestoreSnapshot(x, f, e, into), c, none) = it[none]
  BY DEF FoldSet, MapThenFoldSet, Pick
<1> HIDE DEF it
<1> QED
  BY <1>2, <1>3

(* What undoing fold f makes of d.                                         *)
TakesBack(d, f, u) ==
    /\ u \in PlainDb /\ u.table = d.table /\ Len(u.folds) = Len(d.folds)
    /\ u.at = BackAt(d, f, d.folds[f].moved)
    /\ \A g \in DOMAIN d.folds :
         /\ u.folds[g].old = d.folds[g].old /\ u.folds[g].new = d.folds[g].new
         /\ u.folds[g].undone = (d.folds[g].undone \/ g = f)
         /\ u.folds[g].moved = d.folds[g].moved \ Voided(d, f, d.folds[f].moved, g)

ViewsBack(d, f, u) ==
    \E at \in Works, through \in SUBSET ((f + 1) .. Len(d.folds)) :
        /\ \E a, t : Walks(d, f, Summed(d), a, t)
                     /\ at = a[Len(d.folds) - f] /\ through = t[Len(d.folds) - f]
        /\ d.folds[f].bucket = NoBucket =>
              u.daily = d.daily /\ \A g \in DOMAIN d.folds : u.folds[g].bucket = d.folds[g].bucket
        /\ d.folds[f].bucket # NoBucket =>
              /\ u.daily = Returned(d.daily, at, Old(d, f), d.folds[f].bucket)
              /\ \A g \in DOMAIN d.folds :
                   u.folds[g].bucket = IF g \in through THEN Less(d.folds[g].bucket, d.folds[f].bucket)
                                       ELSE d.folds[g].bucket

LEMMA AlikeBack ==
  ASSUME NEW d \in PlainDb, NEW f \in DOMAIN d.folds, NEW x, Alike(d, x)
  PROVE  /\ f \in DOMAIN x.folds /\ Old(x, f) = Old(d, f) /\ x.folds[f].moved = d.folds[f].moved
         /\ BackAt(x, f, d.folds[f].moved) = BackAt(d, f, d.folds[f].moved)
         /\ \A g : Voided(x, f, d.folds[f].moved, g) = Voided(d, f, d.folds[f].moved, g)
<1>1. x \in PlainDb /\ SameFolds(d, x) /\ x.at = d.at /\ DOMAIN x.folds = DOMAIN d.folds
      /\ x.folds[f].moved = d.folds[f].moved /\ Old(x, f) = Old(d, f)
  BY PlainParts DEF Alike, SameFolds, Old
<1>2. d.folds[f].moved \in SUBSET Row
  BY PlainParts DEF PlainFold
<1>3. ASSUME NEW r \in d.folds[f].moved PROVE Trace(x, f, r) = Trace(d, f, r)
  <2>1. Takes(x, r) = Takes(d, r)
    BY <1>1 DEF Takes, Alike
  <2>2. r \in Row
    BY <1>2
  <2> QED BY <1>1, <2>1, <2>2, TraceSame
<1>4. Back(x, f) = Back(d, f)
  BY <1>1, <1>3 DEF Back
<1>5. BackAt(x, f, d.folds[f].moved) = BackAt(d, f, d.folds[f].moved)
  BY <1>1, <1>4 DEF BackAt
<1>6. ASSUME NEW g PROVE Voided(x, f, d.folds[f].moved, g) = Voided(d, f, d.folds[f].moved, g)
  BY <1>3, <1>4 DEF Voided
<1> QED
  BY <1>1, <1>5, <1>6

LEMMA WalksOn ==
  ASSUME NEW d \in PlainDb, NEW x, SameFolds(d, x), NEW f \in DOMAIN d.folds,
         NEW takes, NEW at, NEW through, Walks(x, f, takes, at, through)
  PROVE  Walks(d, f, takes, at, through)
<1>1. Len(d.folds) \in Nat /\ f \in 1 .. Len(d.folds) /\ Len(x.folds) = Len(d.folds)
      /\ DOMAIN d.folds = 1 .. Len(d.folds)
  BY PlainParts DEF SameFolds
<1>2. ASSUME NEW k \in 0 .. (Len(d.folds) - f - 1)
      PROVE  f + (k + 1) \in DOMAIN d.folds
  BY <1>1
<1>3. x.folds[f].new = d.folds[f].new
  BY DEF SameFolds
<1>4. ASSUME NEW k \in 0 .. (Len(d.folds) - f - 1)
      PROVE  IF ~d.folds[f + (k + 1)].undone /\ d.folds[f + (k + 1)].old = at[k] /\ f + (k + 1) \in takes
             THEN at[k + 1] = d.folds[f + (k + 1)].new /\ through[k + 1] = through[k] \cup {f + (k + 1)}
             ELSE at[k + 1] = at[k] /\ through[k + 1] = through[k]
  <2> DEFINE g == f + (k + 1)
  <2>1. /\ x.folds[g].old = d.folds[g].old /\ x.folds[g].new = d.folds[g].new
        /\ x.folds[g].undone = d.folds[g].undone
    BY <1>2 DEF SameFolds
  <2>2. IF ~x.folds[g].undone /\ x.folds[g].old = at[k] /\ g \in takes
        THEN at[k + 1] = x.folds[g].new /\ through[k + 1] = through[k] \cup {g}
        ELSE at[k + 1] = at[k] /\ through[k + 1] = through[k]
    BY <1>1 DEF Walks
  <2> HIDE DEF g
  <2>3. IF ~d.folds[g].undone /\ d.folds[g].old = at[k] /\ g \in takes
        THEN at[k + 1] = d.folds[g].new /\ through[k + 1] = through[k] \cup {g}
        ELSE at[k + 1] = at[k] /\ through[k + 1] = through[k]
    BY <2>1, <2>2
  <2> QED BY <2>3 DEF g
<1> QED
  BY <1>1, <1>3, <1>4 DEF Walks

LEMMA UnfoldTakesBack ==
  ASSUME NEW d \in PlainDb, NEW w, ActiveFold(d, w) \in DOMAIN d.folds
  PROVE  /\ TakesBack(d, ActiveFold(d, w), Unfold(d, w))
         /\ ViewsBack(d, ActiveFold(d, w), Unfold(d, w))
<1> DEFINE f == ActiveFold(d, w)
           a == RestoreOldRow(d, f)
           moved == d.folds[f].moved
           b == MovedBack(a, f, moved)
           c == UnsumViews(b, f)
           e == RestoreSurvivor(c, f)
           u == Unfold(d, w)
<1> HIDE DEF f
<1>1. f \in DOMAIN d.folds /\ d.folds[f] \in PlainFold /\ moved \in SUBSET Row
  BY PlainParts DEF f, PlainFold
<1>2. Alike(d, a)
  BY <1>1, OldRowAlike
<1>3. /\ a \in PlainDb /\ f \in DOMAIN a.folds /\ Old(a, f) = Old(d, f) /\ a.folds[f].moved = moved
      /\ BackAt(a, f, moved) = BackAt(d, f, moved)
      /\ \A g : Voided(a, f, moved, g) = Voided(d, f, moved, g)
  <2>1. a \in PlainDb
    BY <1>2 DEF Alike
  <2> HIDE DEF a
  <2> QED BY <1>1, <1>2, <2>1, AlikeBack
<1>4. u = [e EXCEPT !.folds[f].undone = TRUE]
  <2> DEFINE summed == d.folds[f].summed
             dropped == d.folds[f].dropped
             into == d.folds[f].new
  <2>1. summed \in {{}} /\ dropped \in {{}} /\ into \in Works
    BY <1>1 DEF PlainFold
  <2>2. FoldSet(LAMBDA s, x : UnsumContributor(x, f, s), a, summed) = a
    <3>1. a \in PlainDb /\ f \in DOMAIN a.folds /\ summed \in {{}}
      BY <1>3, <2>1
    <3> HIDE DEF a, summed, dropped
    <3> QED BY <3>1, NothingUnsummed
  <2>3. FoldSet(LAMBDA r, x : MoveBack(x, f, r), a, moved) = b
    <3> HIDE DEF a, moved
    <3> QED BY <1>3, RowsMoveBack
  <2>4. FoldSet(LAMBDA x1, x : RestoreSnapshot(x, f, x1, into), b, dropped) = b
    <3>1. b \in PlainDb /\ f \in DOMAIN b.folds
      <4> HIDE DEF a, moved
      <4> QED BY <1>1, <1>3, MovedBackPlain
    <3> HIDE DEF b, summed, dropped, into
    <3> QED BY <2>1, <3>1, NothingRestored
  <2> DEFINE unsummed == FoldSet(LAMBDA s, x : UnsumContributor(x, f, s), a, summed)
             back == FoldSet(LAMBDA r, x : MoveBack(x, f, r), unsummed, moved)
             after == FoldSet(LAMBDA x1, x : RestoreSnapshot(x, f, x1, into), back, dropped)
  <2>5. u = [RestoreSurvivor(UnsumViews(after, f), f) EXCEPT !.folds[f].undone = TRUE]
    BY DEF Unfold, f
  <2>6. after = b
    <3> HIDE DEF a, b, moved, summed, dropped, into
    <3> QED BY <2>2, <2>3, <2>4
  <2> HIDE DEF after
  <2> QED BY <2>5, <2>6
<1> HIDE DEF u
<1>5. /\ b \in PlainDb /\ SameFolds(a, b) /\ b.at = BackAt(a, f, moved)
      /\ b.folds = BackLedger(a, f, moved) /\ DOMAIN b.folds = DOMAIN a.folds
      /\ b.table = a.table /\ b.daily = a.daily
  <2> HIDE DEF a, moved
  <2>1. /\ b \in PlainDb /\ SameFolds(a, b) /\ b.at = BackAt(a, f, moved)
        /\ b.folds = BackLedger(a, f, moved) /\ DOMAIN b.folds = DOMAIN a.folds
    BY <1>1, <1>3, MovedBackPlain
  <2>2. b.table = a.table /\ b.daily = a.daily
    BY <1>3 DEF MovedBack, PlainDb
  <2> QED BY <2>1, <2>2
<1> HIDE DEF a, b
<1>6. /\ b.at = BackAt(d, f, moved) /\ b.table = d.table /\ b.daily = d.daily
      /\ Len(b.folds) = Len(d.folds) /\ DOMAIN b.folds = DOMAIN d.folds /\ SameFolds(d, b)
      /\ Old(b, f) = Old(d, f)
  <2>1. DOMAIN a.folds = DOMAIN d.folds /\ Len(a.folds) = Len(d.folds)
    BY <1>2, PlainParts DEF Alike, SameFolds
  <2>2. SameFolds(d, b)
    BY <1>2, <1>5, <2>1 DEF SameFolds, Alike
  <2>3. Old(b, f) = Old(d, f)
    BY <1>1, <2>2 DEF Old, SameFolds
  <2> QED BY <1>2, <1>3, <1>5, <2>1, <2>2, <2>3 DEF Alike, SameFolds
<1>7. \A g \in DOMAIN d.folds : /\ b.folds[g].moved = d.folds[g].moved \ Voided(d, f, moved, g)
                                /\ b.folds[g].bucket = d.folds[g].bucket
  <2> SUFFICES ASSUME NEW g \in DOMAIN d.folds
               PROVE  /\ b.folds[g].moved = d.folds[g].moved \ Voided(d, f, moved, g)
                      /\ b.folds[g].bucket = d.folds[g].bucket
    OBVIOUS
  <2>1. g \in DOMAIN a.folds /\ a.folds[g] \in PlainFold
    BY <1>3, <1>5, <1>6, PlainParts
  <2>2. a.folds[g].moved = d.folds[g].moved /\ a.folds[g].bucket = d.folds[g].bucket
    BY <1>2 DEF Alike
  <2>3. b.folds[g] = [a.folds[g] EXCEPT !.moved = @ \ Voided(a, f, moved, g)]
    BY <1>5, <2>1 DEF BackLedger
  <2>4. Voided(a, f, moved, g) = Voided(d, f, moved, g)
    BY <1>3
  <2> QED BY <2>1, <2>2, <2>3, <2>4 DEF PlainFold
<1>8. PICK at \in Works, through \in SUBSET ((f + 1) .. Len(b.folds)) :
            /\ \E a1, t : Walks(b, f, Summed(b), a1, t)
                         /\ at = a1[Len(b.folds) - f] /\ through = t[Len(b.folds) - f]
            /\ b.folds[f].bucket = NoBucket => c = b
            /\ b.folds[f].bucket # NoBucket =>
                 c = [Rewritten(b, Lessened(b, b.folds[f].bucket), through) EXCEPT
                       !.daily = Returned(b.daily, at, Old(b, f), b.folds[f].bucket)]
  BY <1>1, <1>5, <1>6, ViewsUnsummed
<1> DEFINE n == d.folds[f].bucket
<1>9. b.folds[f].bucket = n /\ n \in Bucket
  BY <1>1, <1>7 DEF PlainFold
<1>10. \E a1, t : /\ Walks(d, f, Summed(d), a1, t)
                  /\ at = a1[Len(d.folds) - f] /\ through = t[Len(d.folds) - f]
  <2>1. Summed(b) = Summed(d)
    BY <1>6, <1>7 DEF Summed
  <2>2. PICK a1, t : Walks(b, f, Summed(b), a1, t) /\ at = a1[Len(b.folds) - f] /\ through = t[Len(b.folds) - f]
    BY <1>8
  <2>3. Walks(d, f, Summed(d), a1, t)
    BY <1>1, <1>6, <2>1, <2>2, WalksOn
  <2> QED BY <1>6, <2>2, <2>3
<1> HIDE DEF c, n, moved
<1>11. /\ c \in PlainDb /\ SameFolds(b, c) /\ c.table = b.table /\ c.at = b.at
       /\ \A g \in DOMAIN b.folds : c.folds[g].moved = b.folds[g].moved
       /\ n = NoBucket => c.daily = b.daily /\ \A g \in DOMAIN b.folds : c.folds[g].bucket = b.folds[g].bucket
       /\ n # NoBucket => /\ c.daily = Returned(b.daily, at, Old(b, f), n)
                          /\ \A g \in DOMAIN b.folds :
                               c.folds[g].bucket = IF g \in through THEN Less(b.folds[g].bucket, n)
                                                   ELSE b.folds[g].bucket
  <2>1. CASE n = NoBucket
    <3>1. c = b
      BY <1>8, <1>9, <2>1
    <3> QED BY <1>5, <2>1, <3>1 DEF SameFolds
  <2>2. CASE n # NoBucket
    <3> DEFINE E == Lessened(b, n)
               q == Rewritten(b, E, through)
               y == Returned(b.daily, at, Old(b, f), n)
    <3>1. n \in Nat /\ through \in SUBSET (DOMAIN b.folds)
      <4>1. Len(b.folds) \in Nat /\ DOMAIN b.folds = 1 .. Len(b.folds) /\ f \in 1 .. Len(b.folds)
        BY <1>1, <1>5, <1>6, PlainParts
      <4>2. through \in SUBSET ((f + 1) .. Len(b.folds))
        BY <1>8
      <4>3. n \in Nat
        BY <1>9, <2>2 DEF Bucket
      <4>4. ASSUME NEW g \in (f + 1) .. Len(b.folds) PROVE g \in 1 .. Len(b.folds)
        BY <4>1
      <4> QED BY <4>1, <4>2, <4>3, <4>4
    <3>2. E \in [DOMAIN b.folds -> PlainFold]
      BY <1>5, <3>1, BucketsLessen
    <3>3. /\ q \in PlainDb /\ Len(q.folds) = Len(b.folds)
          /\ q.folds = [g \in DOMAIN b.folds |-> IF g \in through THEN E[g] ELSE b.folds[g]]
      <4> HIDE DEF E
      <4> QED BY <1>5, <3>1, <3>2, RewriteOne
    <3>4. q.table = b.table /\ q.at = b.at
      BY <1>5 DEF Rewritten, PlainDb
    <3>5. ASSUME NEW g \in DOMAIN b.folds
          PROVE  /\ q.folds[g].old = b.folds[g].old /\ q.folds[g].new = b.folds[g].new
                 /\ q.folds[g].undone = b.folds[g].undone /\ q.folds[g].moved = b.folds[g].moved
                 /\ q.folds[g].bucket = IF g \in through THEN Less(b.folds[g].bucket, n)
                                        ELSE b.folds[g].bucket
      <4>1. E[g] = [b.folds[g] EXCEPT !.bucket = Less(@, n)]
        BY DEF Lessened
      <4>2. b.folds[g] \in PlainFold
        BY <1>5, PlainParts
      <4>3. q.folds[g] = IF g \in through THEN E[g] ELSE b.folds[g]
        <5> HIDE DEF E, q
        <5> QED BY <3>3
      <4> HIDE DEF E, q
      <4> QED BY <4>1, <4>2, <4>3 DEF PlainFold
    <3>6. y \in [Works -> Bucket]
      <4>1. b.daily \in [Works -> Bucket] /\ Old(b, f) \in Works /\ at \in Works
        BY <1>1, <1>5, <1>6, PlainParts DEF Old, PlainFold
      <4>2. b.daily[at] \in Bucket
        BY <4>1
      <4>3. Less(b.daily[at], n) \in Nat
        BY <3>1, <4>2 DEF Less, Bucket, NoBucket
      <4> DEFINE taken == [b.daily EXCEPT ![at] = IF Less(b.daily[at], n) = 0 THEN NoBucket
                                                  ELSE Less(b.daily[at], n)]
      <4>4. taken \in [Works -> Bucket]
        BY <4>1, <4>3 DEF Bucket
      <4>5. y = [taken EXCEPT ![Old(b, f)] = Plus(taken[Old(b, f)], n)]
        BY DEF Returned
      <4> HIDE DEF taken, y
      <4>6. Plus(taken[Old(b, f)], n) \in Bucket
        <5>1. taken[Old(b, f)] \in Bucket
          BY <4>1, <4>4
        <5> QED BY <3>1, <5>1 DEF Plus, Bucket, NoBucket
      <4> QED BY <4>1, <4>4, <4>5, <4>6
    <3>7. c = [q EXCEPT !.daily = y]
      BY <1>8, <1>9, <2>2
    <3> HIDE DEF q, y
    <3>8. c \in PlainDb /\ c.daily = y /\ c.table = q.table /\ c.at = q.at /\ c.folds = q.folds
      BY <3>3, <3>6, <3>7 DEF PlainDb
    <3>9. SameFolds(b, c)
      BY <3>3, <3>5, <3>8 DEF SameFolds
    <3>10. c.daily = Returned(b.daily, at, Old(b, f), n)
      BY <3>8 DEF y
    <3> HIDE DEF E
    <3> QED BY <2>2, <3>4, <3>5, <3>8, <3>9, <3>10
  <2> QED BY <2>1, <2>2
<1>12. Alike(c, e)
  <2>1. f \in DOMAIN c.folds
    BY <1>1, <1>5, <1>6, <1>11, PlainParts DEF SameFolds
  <2> QED BY <1>11, <2>1, SurvivorRowAlike
<1> HIDE DEF e
<1>13. /\ e \in PlainDb /\ Len(e.folds) = Len(d.folds) /\ DOMAIN e.folds = DOMAIN d.folds
       /\ DOMAIN b.folds = DOMAIN d.folds /\ DOMAIN c.folds = DOMAIN d.folds
       /\ e.table = d.table /\ e.at = BackAt(d, f, moved) /\ e.daily = c.daily
       /\ \A g \in DOMAIN d.folds :
            /\ e.folds[g] \in PlainFold
            /\ e.folds[g].old = d.folds[g].old /\ e.folds[g].new = d.folds[g].new
            /\ e.folds[g].undone = d.folds[g].undone
            /\ e.folds[g].moved = d.folds[g].moved \ Voided(d, f, moved, g)
            /\ e.folds[g].bucket = c.folds[g].bucket
  <2>1. e \in PlainDb /\ SameFolds(c, e) /\ DOMAIN c.folds = DOMAIN d.folds /\ DOMAIN e.folds = DOMAIN d.folds
        /\ Len(e.folds) = Len(d.folds)
    BY <1>5, <1>6, <1>11, <1>12, PlainParts DEF SameFolds, Alike
  <2>2. e.table = d.table /\ e.at = BackAt(d, f, moved) /\ e.daily = c.daily
    BY <1>6, <1>11, <1>12 DEF Alike
  <2>3. ASSUME NEW g \in DOMAIN d.folds
        PROVE  /\ e.folds[g] \in PlainFold
               /\ e.folds[g].old = d.folds[g].old /\ e.folds[g].new = d.folds[g].new
               /\ e.folds[g].undone = d.folds[g].undone
               /\ e.folds[g].moved = d.folds[g].moved \ Voided(d, f, moved, g)
               /\ e.folds[g].bucket = c.folds[g].bucket
    <3>1. e.folds[g] \in PlainFold
      BY <2>1, PlainParts
    <3>2. /\ b.folds[g].old = d.folds[g].old /\ b.folds[g].new = d.folds[g].new
          /\ b.folds[g].undone = d.folds[g].undone
      BY <1>6 DEF SameFolds
    <3>3. /\ c.folds[g].old = b.folds[g].old /\ c.folds[g].new = b.folds[g].new
          /\ c.folds[g].undone = b.folds[g].undone
      BY <1>6, <1>11 DEF SameFolds
    <3>4. /\ e.folds[g].old = c.folds[g].old /\ e.folds[g].new = c.folds[g].new
          /\ e.folds[g].undone = c.folds[g].undone
      BY <2>1 DEF SameFolds
    <3>5. e.folds[g].moved = c.folds[g].moved /\ e.folds[g].bucket = c.folds[g].bucket
      BY <1>12, <2>1 DEF Alike
    <3>6. c.folds[g].moved = b.folds[g].moved /\ b.folds[g].moved = d.folds[g].moved \ Voided(d, f, moved, g)
      BY <1>6, <1>7, <1>11
    <3> QED BY <3>1, <3>2, <3>3, <3>4, <3>5, <3>6
  <2> QED BY <1>6, <2>1, <2>2, <2>3
<1> DEFINE l == [e.folds EXCEPT ![f] = [e.folds[f] EXCEPT !.undone = TRUE]]
<1>14. u = [e EXCEPT !.folds = l]
  BY <1>4, <1>13 DEF PlainDb
<1>15. l \in [DOMAIN e.folds -> PlainFold]
  <2>1. e.folds[f] \in PlainFold
    BY <1>1, <1>13
  <2>2. [e.folds[f] EXCEPT !.undone = TRUE] \in PlainFold
    BY <2>1 DEF PlainFold
  <2>3. e.folds = [g \in DOMAIN e.folds |-> e.folds[g]] /\ \A g \in DOMAIN e.folds : e.folds[g] \in PlainFold
    BY <1>13, PlainParts
  <2> QED BY <2>2, <2>3
<1>16. /\ \A g \in DOMAIN d.folds : g # f => l[g] = e.folds[g]
       /\ l[f] = [e.folds[f] EXCEPT !.undone = TRUE]
  BY <1>1, <1>13
<1> HIDE DEF l
<1>17. u \in PlainDb /\ u.folds = l /\ Len(u.folds) = Len(d.folds)
  <2>1. /\ [e EXCEPT !.folds = l] \in PlainDb
        /\ [e EXCEPT !.folds = l].folds = l /\ Len(l) = Len(e.folds)
    BY <1>13, <1>15, PlainLedger
  <2> QED BY <1>13, <1>14, <2>1
<1>18. u.table = e.table /\ u.at = e.at /\ u.daily = e.daily
  BY <1>13, <1>14 DEF PlainDb
<1>19. ASSUME NEW g \in DOMAIN d.folds
       PROVE  /\ u.folds[g].old = d.folds[g].old /\ u.folds[g].new = d.folds[g].new
              /\ u.folds[g].undone = (d.folds[g].undone \/ g = f)
              /\ u.folds[g].moved = d.folds[g].moved \ Voided(d, f, moved, g)
              /\ u.folds[g].bucket = c.folds[g].bucket
  <2>1. CASE g # f
    <3>1. d.folds[g] \in PlainFold
      BY PlainParts
    <3> QED BY <1>13, <1>16, <1>17, <2>1, <3>1 DEF PlainFold
  <2>2. CASE g = f
    <3>1. e.folds[f] \in PlainFold
      BY <1>1, <1>13
    <3>2. u.folds[g] = [e.folds[f] EXCEPT !.undone = TRUE]
      BY <1>16, <1>17, <2>2
    <3>3. /\ u.folds[g].old = e.folds[f].old /\ u.folds[g].new = e.folds[f].new
          /\ u.folds[g].undone = TRUE /\ u.folds[g].moved = e.folds[f].moved
          /\ u.folds[g].bucket = e.folds[f].bucket
      BY <3>1, <3>2 DEF PlainFold
    <3>4. d.folds[f].undone \in BOOLEAN
      BY <1>1 DEF PlainFold
    <3> QED BY <1>1, <1>13, <2>2, <3>3, <3>4
  <2> QED BY <2>1, <2>2
<1>20. TakesBack(d, f, u)
  BY <1>13, <1>17, <1>18, <1>19 DEF TakesBack, moved
<1>21. ViewsBack(d, f, u)
  <2>1. through \in SUBSET ((f + 1) .. Len(d.folds))
    BY <1>6
  <2>2. n = NoBucket => u.daily = d.daily /\ \A g \in DOMAIN d.folds : u.folds[g].bucket = d.folds[g].bucket
    BY <1>6, <1>7, <1>11, <1>13, <1>18, <1>19
  <2>3. n # NoBucket =>
              /\ u.daily = Returned(d.daily, at, Old(d, f), n)
              /\ \A g \in DOMAIN d.folds :
                   u.folds[g].bucket = IF g \in through THEN Less(d.folds[g].bucket, n)
                                       ELSE d.folds[g].bucket
    BY <1>6, <1>7, <1>11, <1>13, <1>18, <1>19
  <2> QED BY <1>10, <2>1, <2>2, <2>3 DEF ViewsBack, n
<1> QED
  BY <1>20, <1>21 DEF f, u

-----------------------------------------------------------------------------
(* The newest fold in force of a work, 0 if there is none.                 *)
LEMMA ActiveFoldIsNewest ==
  ASSUME NEW d \in PlainDb, NEW w
  PROVE  /\ ActiveFold(d, w) # 0 => /\ ActiveFold(d, w) \in DOMAIN d.folds
                                    /\ ~d.folds[ActiveFold(d, w)].undone
                                    /\ d.folds[ActiveFold(d, w)].old = w
         /\ \A g \in DOMAIN d.folds : ~d.folds[g].undone /\ d.folds[g].old = w
                                      => ActiveFold(d, w) # 0 /\ g <= ActiveFold(d, w)
<1> DEFINE S == {i \in DOMAIN d.folds : d.folds[i].old = w /\ ~d.folds[i].undone}
           a == ActiveFold(d, w)
<1>1. Len(d.folds) \in Nat /\ S \in SUBSET (1 .. Len(d.folds)) /\ DOMAIN d.folds = 1 .. Len(d.folds)
  BY PlainParts
<1>2. a = CHOOSE m \in {0} \cup S : \A y \in {0} \cup S : m >= y
  BY DEF ActiveFold, Max
<1>3. \E m \in {0} \cup S : \A y \in {0} \cup S : m >= y
  <2>1. CASE S = {}
    BY <2>1
  <2>2. CASE S # {}
    <3> DEFINE m == Max(S)
    <3>1. m \in S /\ \A y \in S : m >= y
      <4> HIDE DEF S
      <4> QED BY <1>1, <2>2, MaxIsThere
    <3> HIDE DEF m
    <3>2. m >= 0
      BY <1>1, <3>1
    <3> QED BY <3>1, <3>2
  <2> QED BY <2>1, <2>2
<1> HIDE DEF a
<1>4. a \in {0} \cup S /\ \A y \in {0} \cup S : a >= y
  <2> HIDE DEF S
  <2> QED BY <1>2, <1>3
<1>5. ASSUME NEW g \in S PROVE a # 0 /\ g <= a
  <2>1. g \in 1 .. Len(d.folds) /\ a >= g /\ a \in Nat
    BY <1>1, <1>4
  <2> QED BY <1>1, <2>1
<1> QED
  BY <1>4, <1>5 DEF a

-----------------------------------------------------------------------------
(* What a fold makes of a table without peers.                             *)

LEMMA SumOfNothing ==
  ASSUME NEW none \in {{}}
  PROVE  MapThenSumSet(LAMBDA s : s.count, none) = 0
<1> DEFINE It(i) == i = [s \in SUBSET none |-> IF s = {} THEN 0
                           ELSE Pick(s).count + i[s \ {Pick(s)}]]
           it == CHOOSE i : It(i)
<1>1. It([s \in SUBSET none |-> 0])
  OBVIOUS
<1>2. It(it)
  <2> HIDE DEF It
  <2> QED BY <1>1
<1>3. MapThenSumSet(LAMBDA s : s.count, none) = it[none]
  BY DEF MapThenSumSet, MapThenFoldSet, Pick
<1> HIDE DEF it
<1> QED
  BY <1>2, <1>3

CarriesOn(d, old, new, x) ==
    /\ x \in PlainDb /\ x.table = d.table /\ Len(x.folds) = Len(d.folds) + 1
    /\ x.at = [r \in Row |-> IF d.at[r] = old THEN new ELSE d.at[r]]
    /\ x.daily = [d.daily EXCEPT ![old] = NoBucket,
                                 ![new] = IF d.daily[old] = NoBucket THEN d.daily[new]
                                          ELSE Plus(d.daily[new], d.daily[old])]
    /\ \A g \in DOMAIN d.folds : x.folds[g] = d.folds[g]
    /\ LET f == Len(d.folds) + 1 IN
         /\ x.folds[f].old = old /\ x.folds[f].new = new /\ ~x.folds[f].undone
         /\ x.folds[f].moved = On(d, old) /\ x.folds[f].bucket = d.daily[old]

LEMMA FoldCarriesOn ==
  ASSUME NEW d \in PlainDb, NEW old \in Works, NEW new \in Works
  PROVE  CarriesOn(d, old, new, FoldTx(d, old, new))
<1> DEFINE gone    == d.local[old]
           before  == d.local[new]
           base    == IF before = NoRow THEN [view |-> 0, published |-> FALSE] ELSE before
           after   == IF gone = NoRow THEN before
                      ELSE [view |-> base.view + gone.view,
                            published |-> base.published \/ gone.published]
           drops   == {r \in On(d, old) : Peers(d, r, new) # {}}
           moves   == On(d, old) \ drops
           summed  == IF d.table = "contributor"
                      THEN UNION {{[into |-> q, absorbed |-> r, count |-> d.count[r]]
                                   : q \in Peers(d, r, new)} : r \in drops}
                      ELSE {}
           added(q) == MapThenSumSet(LAMBDA s : s.count, {s \in summed : s.into = q})
           at      == [r \in Row |-> CASE r \in moves -> new [] r \in drops -> 0 [] OTHER -> d.at[r]]
           count   == [r \in Row |-> IF r \in drops THEN 0 ELSE d.count[r] + added(r)]
           daily   == [d.daily EXCEPT ![old] = NoBucket,
                                  ![new] = IF d.daily[old] = NoBucket THEN d.daily[new]
                                           ELSE Plus(d.daily[new], d.daily[old])]
           local   == [d.local EXCEPT ![old] = NoRow, ![new] = after]
           fold    == [old |-> old, new |-> new, undone |-> FALSE,
                       row |-> gone, before |-> before, after |-> after,
                       moved |-> moves, summed |-> summed, bucket |-> d.daily[old],
                       dropped |-> {[row |-> r, count |-> d.count[r]] : r \in drops}]
           folds   == Append(d.folds, fold)
           x       == FoldTx(d, old, new)
<1>1. x = [d EXCEPT !.at = at, !.count = count, !.daily = daily, !.local = local, !.folds = folds]
  BY DEF FoldTx
<1> HIDE DEF x
<1>2. drops = {} /\ moves = On(d, old) /\ summed = {}
  BY PlainParts DEF PlainTables
<1>3. at = [r \in Row |-> IF d.at[r] = old THEN new ELSE d.at[r]]
  BY <1>2 DEF On
<1>4. at \in [Row -> Works \cup {0}]
  BY <1>3, PlainParts
<1>5. count \in [Row -> Int]
  <2>1. ASSUME NEW r \in Row PROVE added(r) = 0
    <3> DEFINE none == {s \in summed : s.into = r}
    <3>1. none \in {{}}
      BY <1>2
    <3> HIDE DEF none
    <3>2. MapThenSumSet(LAMBDA s : s.count, none) = 0
      BY <3>1, SumOfNothing
    <3> QED BY <3>2 DEF none
  <2> HIDE DEF added, drops
  <2>2. \A r \in Row : d.count[r] \in Int
    BY PlainParts
  <2> QED BY <2>1, <2>2
<1>6. daily \in [Works -> Bucket]
  <2>1. d.daily \in [Works -> Bucket] /\ d.daily[old] \in Bucket /\ d.daily[new] \in Bucket
    BY PlainParts
  <2>2. Plus(d.daily[new], d.daily[old]) \in Bucket
    BY <2>1 DEF Plus, Bucket, NoBucket
  <2> QED BY <2>1, <2>2 DEF Bucket
<1>7. gone \in Snap /\ before \in Snap /\ after \in Snap /\ local \in [Works -> Snap]
  <2>1. gone \in Snap /\ before \in Snap /\ d.local \in [Works -> Snap]
    BY PlainParts
  <2>2. base \in Snap
    BY <2>1 DEF Snap
  <2>3. after \in Snap
    <3> HIDE DEF gone, before, base
    <3> QED BY <2>1, <2>2 DEF Snap
  <2>4. NoRow \in Snap
    BY DEF NoRow, Snap
  <2> HIDE DEF after
  <2> QED BY <2>1, <2>3, <2>4
<1>8. fold \in PlainFold
  <2>1. {[row |-> r, count |-> d.count[r]] : r \in drops} = {}
    BY <1>2
  <2>2. moves \in SUBSET Row /\ d.daily[old] \in Bucket
    BY <1>2, PlainParts DEF On
  <2> HIDE DEF gone, before, after, moves, drops, summed
  <2> QED BY <1>2, <1>7, <2>1, <2>2 DEF PlainFold
<1>9. /\ folds \in Seq(PlainFold) /\ Len(folds) = Len(d.folds) + 1
      /\ \A g \in DOMAIN d.folds : folds[g] = d.folds[g]
      /\ folds[Len(d.folds) + 1] = fold
  <2> HIDE DEF fold
  <2>1. d.folds \in Seq(PlainFold) /\ Len(d.folds) \in Nat /\ DOMAIN d.folds = 1 .. Len(d.folds)
    BY PlainParts
  <2> QED BY <1>8, <2>1, AppendProperties
<1> HIDE DEF at, count, daily, local, folds
<1>10. /\ x \in PlainDb /\ x.table = d.table /\ x.at = at /\ x.daily = daily /\ x.folds = folds
  BY <1>1, <1>4, <1>5, <1>6, <1>7, <1>9 DEF PlainDb
<1>11. /\ fold.old = old /\ fold.new = new /\ ~fold.undone
       /\ fold.moved = On(d, old) /\ fold.bucket = d.daily[old]
  BY <1>2
<1> HIDE DEF fold
<1>12. CarriesOn(d, old, new, x)
  BY <1>3, <1>9, <1>10, <1>11 DEF CarriesOn, daily
<1> QED
  BY <1>12 DEF x

-----------------------------------------------------------------------------
(* Sums of numbers over a finite set, one element after another.           *)

Sum(f, S) == MapThenSumSet(LAMBDA x : f[x], S)

Adds(f, S, g) ==
    g = [s \in SUBSET S |-> IF s = {} THEN 0 ELSE f[Pick(s)] + g[s \ {Pick(s)}]]

Adder(f, S) == CHOOSE g : Adds(f, S, g)

LEMMA SumIsAdder ==
  ASSUME NEW f, NEW S
  PROVE  Sum(f, S) = Adder(f, S)[S]
BY DEF Sum, MapThenSumSet, MapThenFoldSet, Adder, Adds, Pick

LEMMA AdderExists ==
  ASSUME NEW S, IsFiniteSet(S), NEW f, \A x \in S : f[x] \in Nat
  PROVE  \E g \in [SUBSET S -> Nat] : Adds(f, S, g)
<1> DEFINE F == [p \in S \X Nat |-> f[p[1]] + p[2]]
           c == [s \in SUBSET S |-> Pick(s)]
<1>1. Chooses(c, S) /\ \A s \in SUBSET S : c[s] = Pick(s)
  BY DEF Chooses, Pick
<1>2. \A x \in S, v \in Nat : F[<<x, v>>] = f[x] + v /\ F[<<x, v>>] \in Nat
  OBVIOUS
<1> HIDE DEF F, c
<1>3. PICK g \in [SUBSET S -> Nat] : FoldOf(F, 0, c, S, g)
  BY <1>1, <1>2, FoldTyped
<1>4. ASSUME NEW s \in SUBSET S
      PROVE  g[s] = IF s = {} THEN 0 ELSE f[Pick(s)] + g[s \ {Pick(s)}]
  <2>1. g[s] = IF s = {} THEN 0 ELSE F[<<c[s], g[s \ {c[s]}]>>]
    BY <1>3 DEF FoldOf
  <2>2. CASE s = {}
    BY <2>1, <2>2
  <2>3. CASE s # {}
    <3>1. c[s] = Pick(s) /\ c[s] \in S /\ g[s \ {c[s]}] \in Nat
      BY <1>1, <1>3, <2>3 DEF Chooses
    <3> QED BY <1>2, <2>1, <2>3, <3>1
  <2> QED BY <2>2, <2>3
<1> QED
  BY <1>3, <1>4 DEF Adds

(* A sum is what any adder on a larger set finds.                          *)
LEMMA SumFound ==
  ASSUME NEW S, IsFiniteSet(S), NEW f, NEW g, Adds(f, S, g), NEW T \in SUBSET S
  PROVE  Sum(f, T) = g[T]
<1> DEFINE h == [s \in SUBSET T |-> g[s]]
           a == Adder(f, T)
<1>1. ASSUME NEW s \in SUBSET T
      PROVE  h[s] = IF s = {} THEN 0 ELSE f[Pick(s)] + h[s \ {Pick(s)}]
  <2>1. g[s] = IF s = {} THEN 0 ELSE f[Pick(s)] + g[s \ {Pick(s)}]
    BY DEF Adds
  <2> QED BY <2>1
<1>2. Adds(f, T, h)
  <2> HIDE DEF h
  <2>1. h = [s \in SUBSET T |-> h[s]]
    BY DEF h
  <2> QED BY <1>1, <2>1 DEF Adds
<1>3. Adds(f, T, a)
  <2> HIDE DEF h
  <2> QED BY <1>2 DEF Adder
<1>4. h[T] = a[T]
  <2>1. h[{}] = a[{}]
    <3> HIDE DEF h, a
    <3> QED BY <1>2, <1>3 DEF Adds
  <2>2. \A s \in SUBSET T : s # {} /\ h[s \ {Pick(s)}] = a[s \ {Pick(s)}] => h[s] = a[s]
    <3> HIDE DEF h, a
    <3> QED BY <1>2, <1>3 DEF Adds
  <2>3. IsFiniteSet(T)
    BY FS_Subset
  <2> HIDE DEF h, a
  <2> QED BY <2>1, <2>2, <2>3, OneByOne
<1> QED
  BY <1>4, SumIsAdder

LEMMA SumPicks ==
  ASSUME NEW S, IsFiniteSet(S), NEW f, \A x \in S : f[x] \in Nat
  PROVE  /\ Sum(f, S) \in Nat
         /\ Sum(f, S) = IF S = {} THEN 0 ELSE f[Pick(S)] + Sum(f, S \ {Pick(S)})
<1>1. PICK g \in [SUBSET S -> Nat] : Adds(f, S, g)
  BY AdderExists
<1>2. \A T \in SUBSET S : Sum(f, T) = g[T]
  BY <1>1, SumFound
<1>3. S \in SUBSET S /\ S \ {Pick(S)} \in SUBSET S
  OBVIOUS
<1>4. g[S] = IF S = {} THEN 0 ELSE f[Pick(S)] + g[S \ {Pick(S)}]
  BY <1>1, <1>3 DEF Adds
<1> QED
  BY <1>1, <1>2, <1>3, <1>4

(* Any element may be taken off first.                                     *)
LEMMA SumTakesOff ==
  ASSUME NEW S, IsFiniteSet(S), NEW f, \A x \in S : f[x] \in Nat
  PROVE  /\ Sum(f, {}) = 0
         /\ \A a \in S : /\ Sum(f, S \ {a}) \in Nat
                         /\ Sum(f, S) = f[a] + Sum(f, S \ {a})
<1> DEFINE Good == {T \in SUBSET S : \A a \in T : Sum(f, T) = f[a] + Sum(f, T \ {a})}
<1>0. Sum(f, {}) = 0
  BY SumPicks, FS_EmptySet
<1>1. \A T \in SUBSET S : IsFiniteSet(T) /\ Sum(f, T) \in Nat
  BY FS_Subset, SumPicks
<1>2. ASSUME NEW T \in SUBSET S, \A U \in SUBSET T : U # T => U \in Good
      PROVE  T \in Good
  <2> SUFFICES ASSUME NEW a \in T
               PROVE  Sum(f, T) = f[a] + Sum(f, T \ {a})
    OBVIOUS
  <2> DEFINE c == Pick(T)
  <2>1. c \in T
    BY DEF Pick
  <2>2. Sum(f, T) = f[c] + Sum(f, T \ {c})
    BY <1>1, SumPicks
  <2> HIDE DEF c
  <2>3. CASE a = c
    BY <2>2, <2>3
  <2>4. CASE a # c
    <3> DEFINE r == (T \ {c}) \ {a}
    <3>1. T \ {c} \in Good /\ T \ {a} \in Good
      BY <1>2, <2>1
    <3>2. Sum(f, T \ {c}) = f[a] + Sum(f, r)
      BY <2>4, <3>1
    <3>3. (T \ {a}) \ {c} = r
      OBVIOUS
    <3>4. Sum(f, T \ {a}) = f[c] + Sum(f, (T \ {a}) \ {c})
      BY <2>1, <2>4, <3>1
    <3>5. Sum(f, T \ {a}) = f[c] + Sum(f, r)
      <4> HIDE DEF r
      <4> QED BY <3>3, <3>4
    <3>6. f[a] \in Nat /\ f[c] \in Nat /\ Sum(f, r) \in Nat
      BY <1>1, <2>1
    <3> HIDE DEF r
    <3> QED BY <2>2, <3>2, <3>5, <3>6
  <2> QED BY <2>3, <2>4
<1>3. S \in Good
  <2>1. \A T \in SUBSET S : T \in Good
    <3> HIDE DEF Good
    <3> QED BY <1>2, SubsetInduction
  <2> HIDE DEF Good
  <2> QED BY <2>1
<1> QED
  BY <1>0, <1>1, <1>3

(* A sum changes only with the values it is over.                          *)
LEMMA SumSame ==
  ASSUME NEW S, IsFiniteSet(S), NEW f, NEW g, \A x \in S : f[x] \in Nat /\ g[x] = f[x]
  PROVE  Sum(g, S) = Sum(f, S)
<1> DEFINE Good == {T \in SUBSET S : Sum(g, T) = Sum(f, T)}
<1>1. ASSUME NEW T \in SUBSET S, \A U \in SUBSET T : U # T => U \in Good
      PROVE  T \in Good
  <2>1. /\ Sum(f, T) = IF T = {} THEN 0 ELSE f[Pick(T)] + Sum(f, T \ {Pick(T)})
        /\ Sum(g, T) = IF T = {} THEN 0 ELSE g[Pick(T)] + Sum(g, T \ {Pick(T)})
    BY FS_Subset, SumPicks
  <2>2. CASE T = {}
    BY <2>1, <2>2
  <2>3. CASE T # {}
    <3>1. Pick(T) \in T
      BY <2>3 DEF Pick
    <3>2. T \ {Pick(T)} \in Good /\ g[Pick(T)] = f[Pick(T)]
      BY <1>1, <3>1
    <3> QED BY <2>1, <2>3, <3>2
  <2> QED BY <2>2, <2>3
<1>2. \A T \in SUBSET S : T \in Good
  <2> HIDE DEF Good
  <2> QED BY <1>1, SubsetInduction
<1> QED
  BY <1>2

LEMMA SumOfUnion ==
  ASSUME NEW A, NEW B, IsFiniteSet(A), IsFiniteSet(B), A \cap B = {},
         NEW f, \A x \in A \cup B : f[x] \in Nat
  PROVE  Sum(f, A \cup B) = Sum(f, A) + Sum(f, B)
<1> DEFINE Good == {T \in SUBSET B : Sum(f, A \cup T) = Sum(f, A) + Sum(f, T)}
<1>0. Sum(f, A) \in Nat
  BY SumPicks
<1>1. ASSUME NEW T \in SUBSET B, \A U \in SUBSET T : U # T => U \in Good
      PROVE  T \in Good
  <2>1. IsFiniteSet(T) /\ IsFiniteSet(A \cup T)
    BY FS_Subset, FS_Union
  <2>2. CASE T = {}
    <3>1. Sum(f, {}) = 0 /\ A \cup T = A
      BY <2>2, SumTakesOff, FS_EmptySet
    <3>2. Sum(f, A \cup T) = Sum(f, A)
      BY <3>1
    <3> QED BY <1>0, <2>2, <3>1, <3>2
  <2>3. ASSUME NEW a \in T
        PROVE  T \in Good
    <3>1. T \ {a} \in Good
      BY <1>1
    <3>2. Sum(f, T) = f[a] + Sum(f, T \ {a}) /\ Sum(f, T \ {a}) \in Nat
      BY <2>1, SumTakesOff
    <3>3. Sum(f, A \cup T) = f[a] + Sum(f, (A \cup T) \ {a})
      BY <2>1, SumTakesOff
    <3>4. (A \cup T) \ {a} = A \cup (T \ {a}) /\ f[a] \in Nat
      OBVIOUS
    <3>5. Sum(f, A \cup (T \ {a})) = Sum(f, A) + Sum(f, T \ {a})
      BY <3>1
    <3>6. Sum(f, A \cup T) = f[a] + (Sum(f, A) + Sum(f, T \ {a}))
      BY <3>3, <3>4, <3>5, Zenon
    <3>7. Sum(f, A \cup T) = Sum(f, A) + Sum(f, T)
      BY <1>0, <3>2, <3>4, <3>6
    <3> QED BY <3>7
  <2> QED BY <2>2, <2>3
<1>2. B \in Good
  <2>1. \A T \in SUBSET B : T \in Good
    <3> HIDE DEF Good
    <3> QED BY <1>1, SubsetInduction
  <2> HIDE DEF Good
  <2> QED BY <2>1
<1> QED
  BY <1>2

LEMMA SumOfOnes ==
  ASSUME NEW S, IsFiniteSet(S), NEW f, \A x \in S : f[x] = 1
  PROVE  Sum(f, S) = Cardinality(S)
<1> DEFINE Good == {T \in SUBSET S : Sum(f, T) = Cardinality(T)}
<1>1. ASSUME NEW T \in SUBSET S, \A U \in SUBSET T : U # T => U \in Good
      PROVE  T \in Good
  <2>1. IsFiniteSet(T) /\ Cardinality(T) \in Nat
    BY FS_Subset, FS_CardinalityType
  <2>2. CASE T = {}
    BY <2>1, <2>2, SumTakesOff, FS_EmptySet
  <2>3. ASSUME NEW a \in T
        PROVE  T \in Good
    <3>1. Sum(f, T \ {a}) = Cardinality(T \ {a})
      BY <1>1
    <3>2. Sum(f, T) = 1 + Sum(f, T \ {a})
      <4>1. Sum(f, T) = f[a] + Sum(f, T \ {a})
        BY <2>1, SumTakesOff
      <4>2. f[a] = 1
        OBVIOUS
      <4> QED BY <4>1, <4>2
    <3>3. Cardinality(T \ {a}) = Cardinality(T) - 1
      BY <2>1, FS_RemoveElement
    <3>4. Sum(f, T) = Cardinality(T)
      BY <2>1, <3>1, <3>2, <3>3
    <3> QED BY <3>4
  <2> QED BY <2>2, <2>3
<1>2. \A T \in SUBSET S : T \in Good
  <2> HIDE DEF Good
  <2> QED BY <1>1, SubsetInduction
<1> QED
  BY <1>2

-----------------------------------------------------------------------------
(* What folds and undos do to the ways that things have been carried.      *)

LEMMA WayParts ==
  ASSUME NEW d \in PlainDb, NEW way, Leads(d, way)
  PROVE  /\ way \in Seq(1 .. Len(d.folds)) /\ way \in Seq(Nat)
         /\ Len(way) \in Nat /\ DOMAIN way = 1 .. Len(way)
         /\ \A p \in 1 .. Len(way) : way[p] \in 1 .. Len(d.folds) /\ way[p] \in Nat
         /\ way # <<>> => Len(way) >= 1 /\ Len(way) \in DOMAIN way /\ 1 \in DOMAIN way
         /\ way = <<>> => DOMAIN way = {} /\ Range(way) = {}
<1>1. Len(d.folds) \in Nat /\ DOMAIN d.folds = 1 .. Len(d.folds)
  BY PlainParts
<1>2. way \in Seq(1 .. Len(d.folds))
  BY <1>1 DEF Leads
<1>3. /\ Len(way) \in Nat /\ DOMAIN way = 1 .. Len(way)
      /\ \A p \in 1 .. Len(way) : way[p] \in 1 .. Len(d.folds)
  BY <1>2, LenProperties
<1>4. way \in Seq(Nat)
  <2>1. 1 .. Len(d.folds) \subseteq Nat
    BY <1>1
  <2> QED BY <1>2, <2>1, SeqMonotonic
<1>5. way # <<>> => Len(way) >= 1
  <2>1. way # <<>> => Len(way) \in Nat \ {0}
    BY <1>2, EmptySeq
  <2> QED BY <2>1
<1>6. way = <<>> => DOMAIN way = {} /\ Range(way) = {}
  BY DEF Range
<1> QED
  BY <1>1, <1>2, <1>3, <1>4, <1>5, <1>6

(* A fold is carried by whatever stands on the work it folds away.         *)
LEMMA WayGoesOn ==
  ASSUME NEW d \in PlainDb, NEW x \in Works, NEW y \in Works, NEW d2, CarriesOn(d, x, y, d2),
         NEW way, Leads(d, way), way # <<>> => d.folds[way[Len(way)]].new = x
  PROVE  /\ Leads(d2, Append(way, Len(d.folds) + 1))
         /\ Range(Append(way, Len(d.folds) + 1)) = Range(way) \cup {Len(d.folds) + 1}
         /\ Append(way, Len(d.folds) + 1)[Len(way) + 1] = Len(d.folds) + 1
         /\ Len(Append(way, Len(d.folds) + 1)) = Len(way) + 1
         /\ \A p \in 1 .. Len(way) : Append(way, Len(d.folds) + 1)[p] = way[p]
<1> DEFINE n == Len(d.folds)
           L == Len(way)
           way2 == Append(way, n + 1)
<1>1. /\ n \in Nat /\ DOMAIN d.folds = 1 .. n /\ way \in Seq(1 .. n) /\ L \in Nat
      /\ DOMAIN way = 1 .. L /\ \A p \in 1 .. L : way[p] \in 1 .. n
  BY PlainParts, WayParts
<1>2. /\ d2 \in PlainDb /\ Len(d2.folds) = n + 1 /\ DOMAIN d2.folds = 1 .. (n + 1)
      /\ \A g \in 1 .. n : d2.folds[g] = d.folds[g]
      /\ d2.folds[n + 1].old = x /\ d2.folds[n + 1].new = y /\ ~d2.folds[n + 1].undone
  BY <1>1, PlainParts DEF CarriesOn
<1>3. /\ way2 \in Seq(1 .. (n + 1)) /\ Len(way2) = L + 1 /\ DOMAIN way2 = 1 .. (L + 1)
      /\ way2[L + 1] = n + 1 /\ \A p \in 1 .. L : way2[p] = way[p]
  <2>1. 1 .. n \subseteq 1 .. (n + 1) /\ n + 1 \in 1 .. (n + 1)
    BY <1>1
  <2>2. way \in Seq(1 .. (n + 1))
    BY <1>1, <2>1, SeqMonotonic
  <2>3. way2 \in Seq(1 .. (n + 1)) /\ Len(way2) = L + 1 /\ way2[L + 1] = n + 1
        /\ \A p \in 1 .. L : way2[p] = way[p]
    BY <2>1, <2>2, AppendProperties
  <2>4. DOMAIN way2 = 1 .. Len(way2)
    BY <2>3, LenProperties
  <2> QED BY <2>3, <2>4
<1> HIDE DEF way2
<1>4. Range(way2) = Range(way) \cup {n + 1}
  <2>1. ASSUME NEW p \in 1 .. (L + 1) PROVE way2[p] \in Range(way) \cup {n + 1}
    <3>1. CASE p = L + 1
      BY <1>3, <3>1
    <3>2. CASE p # L + 1
      <4>1. p \in 1 .. L
        BY <1>1, <3>2
      <4> QED BY <1>1, <1>3, <4>1 DEF Range
    <3> QED BY <3>1, <3>2
  <2>2. ASSUME NEW p \in 1 .. L PROVE way[p] = way2[p] /\ p \in 1 .. (L + 1)
    BY <1>1, <1>3
  <2>3. L + 1 \in 1 .. (L + 1)
    BY <1>1
  <2>4. Range(way2) \subseteq Range(way) \cup {n + 1}
    BY <1>3, <2>1 DEF Range
  <2>5. Range(way) \subseteq Range(way2) /\ n + 1 \in Range(way2)
    BY <1>1, <1>3, <2>2, <2>3 DEF Range
  <2> QED BY <2>4, <2>5
<1>5. /\ \A p \in 1 .. L : ~d.folds[way[p]].undone
      /\ \A p, q \in 1 .. L : p < q => way[p] < way[q]
      /\ \A p \in 1 .. (L - 1) : d.folds[way[p + 1]].old = d.folds[way[p]].new
      /\ \A p \in 1 .. L, g \in 1 .. n :
           ~d.folds[g].undone /\ g > way[p] /\ d.folds[g].old = d.folds[way[p]].new
           => p < L /\ way[p + 1] <= g
  BY <1>1 DEF Leads
<1> HIDE DEF n, L
<1>6. ASSUME NEW p \in 1 .. (L + 1) PROVE ~d2.folds[way2[p]].undone
  <2>1. CASE p = L + 1
    BY <1>2, <1>3, <2>1
  <2>2. CASE p # L + 1
    <3>1. p \in 1 .. L
      BY <1>1, <2>2
    <3> QED BY <1>1, <1>2, <1>3, <1>5, <3>1
  <2> QED BY <2>1, <2>2
<1>7. ASSUME NEW p \in 1 .. (L + 1), NEW q \in 1 .. (L + 1), p < q PROVE way2[p] < way2[q]
  <2>1. p \in 1 .. L
    BY <1>1, <1>7
  <2>2. CASE q = L + 1
    <3>1. way2[q] = n + 1 /\ way2[p] = way[p] /\ way[p] \in 1 .. n
      BY <1>1, <1>3, <2>1, <2>2
    <3> QED BY <1>1, <3>1
  <2>3. CASE q # L + 1
    <3>1. q \in 1 .. L
      BY <1>1, <2>3
    <3> QED BY <1>3, <1>5, <1>7, <2>1, <3>1
  <2> QED BY <2>2, <2>3
<1>8. ASSUME NEW p \in 1 .. L PROVE d2.folds[way2[p + 1]].old = d2.folds[way2[p]].new
  <2>1. way2[p] = way[p] /\ d2.folds[way[p]] = d.folds[way[p]]
    BY <1>1, <1>2, <1>3
  <2>2. CASE p = L
    <3>1. way # <<>>
      BY <1>1, <2>2 DEF L
    <3>2. d.folds[way[L]].new = x
      BY <3>1 DEF L
    <3> QED BY <1>2, <1>3, <2>1, <2>2, <3>2
  <2>3. CASE p # L
    <3>1. p \in 1 .. (L - 1) /\ p + 1 \in 1 .. L
      BY <1>1, <2>3
    <3>2. way2[p + 1] = way[p + 1] /\ d2.folds[way[p + 1]] = d.folds[way[p + 1]]
      BY <1>1, <1>2, <1>3, <3>1
    <3> QED BY <1>5, <2>1, <3>1, <3>2
  <2> QED BY <2>2, <2>3
<1>9. ASSUME NEW p \in 1 .. (L + 1), NEW g \in 1 .. (n + 1),
             ~d2.folds[g].undone, g > way2[p], d2.folds[g].old = d2.folds[way2[p]].new
      PROVE  p < L + 1 /\ way2[p + 1] <= g
  <2>1. p # L + 1
    BY <1>1, <1>3, <1>9
  <2>2. p \in 1 .. L /\ p + 1 \in 1 .. (L + 1)
    BY <1>1, <2>1
  <2>3. way2[p] = way[p] /\ d2.folds[way[p]] = d.folds[way[p]]
    BY <1>1, <1>2, <1>3, <2>2
  <2>4. CASE g = n + 1
    <3>1. way2[p + 1] \in 1 .. (n + 1)
      BY <1>3, <2>2, ElementOfSeq
    <3> QED BY <1>1, <2>2, <2>4, <3>1
  <2>5. CASE g # n + 1
    <3>1. g \in 1 .. n
      BY <1>1, <2>5
    <3>2. p < L /\ way[p + 1] <= g
      BY <1>2, <1>5, <1>9, <2>2, <2>3, <3>1
    <3>3. p + 1 \in 1 .. L
      BY <1>1, <2>2, <3>2
    <3> QED BY <1>1, <1>3, <2>2, <3>2, <3>3
  <2> QED BY <2>4, <2>5
<1>10. Leads(d2, way2)
  <2>1. (L + 1) - 1 = L
    BY <1>1
  <2> QED BY <1>2, <1>3, <1>6, <1>7, <1>8, <1>9, <2>1 DEF Leads
<1> QED
  BY <1>3, <1>4, <1>10 DEF way2, n, L

LEMMA WayStays ==
  ASSUME NEW d \in PlainDb, NEW x \in Works, NEW y \in Works, NEW d2, CarriesOn(d, x, y, d2),
         NEW way, Leads(d, way), way # <<>> => d.folds[way[Len(way)]].new # x
  PROVE  Leads(d2, way)
<1> DEFINE n == Len(d.folds)
           L == Len(way)
<1>1. /\ n \in Nat /\ DOMAIN d.folds = 1 .. n /\ way \in Seq(1 .. n) /\ L \in Nat
      /\ DOMAIN way = 1 .. L /\ \A p \in 1 .. L : way[p] \in 1 .. n
  BY PlainParts, WayParts
<1>2. /\ d2 \in PlainDb /\ Len(d2.folds) = n + 1 /\ DOMAIN d2.folds = 1 .. (n + 1)
      /\ \A g \in 1 .. n : d2.folds[g] = d.folds[g]
      /\ d2.folds[n + 1].old = x
  BY <1>1, PlainParts DEF CarriesOn
<1>3. way \in Seq(1 .. (n + 1))
  <2>1. 1 .. n \subseteq 1 .. (n + 1)
    BY <1>1
  <2> QED BY <1>1, <2>1, SeqMonotonic
<1>5. /\ \A p \in 1 .. L : ~d.folds[way[p]].undone
      /\ \A p, q \in 1 .. L : p < q => way[p] < way[q]
      /\ \A p \in 1 .. (L - 1) : d.folds[way[p + 1]].old = d.folds[way[p]].new
      /\ \A p \in 1 .. L, g \in 1 .. n :
           ~d.folds[g].undone /\ g > way[p] /\ d.folds[g].old = d.folds[way[p]].new
           => p < L /\ way[p + 1] <= g
  BY <1>1 DEF Leads
<1>6. L # 0 => d.folds[way[L]].new # x
  BY <1>1
<1> HIDE DEF n, L
<1>8. ASSUME NEW p \in 1 .. (L - 1) PROVE d2.folds[way[p + 1]].old = d2.folds[way[p]].new
  <2>1. p \in 1 .. L /\ p + 1 \in 1 .. L
    BY <1>1
  <2> QED BY <1>1, <1>2, <1>5, <2>1
<1>9. ASSUME NEW p \in 1 .. L, NEW g \in 1 .. (n + 1),
             ~d2.folds[g].undone, g > way[p], d2.folds[g].old = d2.folds[way[p]].new
      PROVE  p < L /\ way[p + 1] <= g
  <2>1. d2.folds[way[p]] = d.folds[way[p]]
    BY <1>1, <1>2
  <2>2. CASE g = n + 1
    <3>1. p # L
      BY <1>1, <1>2, <1>6, <1>9, <2>1, <2>2
    <3>2. p < L /\ p + 1 \in 1 .. L
      BY <1>1, <3>1
    <3>3. way[p + 1] \in 1 .. n
      BY <1>1, <3>2
    <3> QED BY <1>1, <2>2, <3>2, <3>3
  <2>3. CASE g # n + 1
    <3>1. g \in 1 .. n
      BY <1>1, <2>3
    <3> QED BY <1>2, <1>5, <1>9, <2>1, <3>1
  <2> QED BY <2>2, <2>3
<1> QED
  BY <1>1, <1>2, <1>3, <1>5, <1>8, <1>9 DEF Leads, L

(* An undo takes the newest fold of its work.                              *)
NewestOfItsWork(d, f) ==
    \A g \in DOMAIN d.folds : ~d.folds[g].undone /\ d.folds[g].old = Old(d, f) => g <= f

LEMMA WayKept ==
  ASSUME NEW d \in PlainDb, NEW f \in DOMAIN d.folds, NEW u, TakesBack(d, f, u),
         NEW way, Leads(d, way), f \notin Range(way)
  PROVE  Leads(u, way)
<1>1. /\ DOMAIN d.folds = 1 .. Len(d.folds) /\ DOMAIN u.folds = DOMAIN d.folds
      /\ DOMAIN way = 1 .. Len(way) /\ Len(way) \in Nat
      /\ \A p \in DOMAIN way : way[p] \in DOMAIN d.folds /\ way[p] # f
      /\ \A g \in DOMAIN d.folds : /\ u.folds[g].old = d.folds[g].old /\ u.folds[g].new = d.folds[g].new
                                   /\ u.folds[g].undone = (d.folds[g].undone \/ g = f)
  BY PlainParts, WayParts DEF TakesBack, Range
<1>2. ASSUME NEW p \in 1 .. (Len(way) - 1) PROVE u.folds[way[p + 1]].old = u.folds[way[p]].new
  <2>1. p \in DOMAIN way /\ p + 1 \in DOMAIN way
    BY <1>1
  <2>2. d.folds[way[p + 1]].old = d.folds[way[p]].new
    BY DEF Leads
  <2> QED BY <1>1, <2>1, <2>2
<1>3. way \in Seq(DOMAIN u.folds)
  BY <1>1 DEF Leads
<1>4. ASSUME NEW p \in DOMAIN way PROVE ~u.folds[way[p]].undone
  BY <1>1 DEF Leads
<1>5. ASSUME NEW p \in DOMAIN way, NEW g \in DOMAIN u.folds,
             ~u.folds[g].undone, g > way[p], u.folds[g].old = u.folds[way[p]].new
      PROVE  p < Len(way) /\ way[p + 1] <= g
  <2>1. ~d.folds[g].undone /\ d.folds[g].old = d.folds[way[p]].new /\ g \in DOMAIN d.folds
    BY <1>1, <1>5
  <2> QED BY <1>5, <2>1 DEF Leads
<1>6. \A p, q \in DOMAIN way : p < q => way[p] < way[q]
  BY DEF Leads
<1> QED
  BY <1>2, <1>3, <1>4, <1>5, <1>6 DEF Leads

LEMMA WayShortened ==
  ASSUME NEW d \in PlainDb, NEW f \in DOMAIN d.folds, NEW u, TakesBack(d, f, u), NewestOfItsWork(d, f),
         NEW way, Leads(d, way), NEW p \in DOMAIN way, way[p] = f
  PROVE  /\ Leads(u, SubSeq(way, 1, p - 1))
         /\ Len(SubSeq(way, 1, p - 1)) = p - 1
         /\ Range(SubSeq(way, 1, p - 1)) = {g \in Range(way) : g < f}
         /\ \A q \in 1 .. (p - 1) : SubSeq(way, 1, p - 1)[q] = way[q]
<1> DEFINE L == Len(way)
           way2 == SubSeq(way, 1, p - 1)
           D == DOMAIN d.folds
<1>1. /\ D = 1 .. Len(d.folds) /\ Len(d.folds) \in Nat /\ DOMAIN u.folds = D /\ L \in Nat
      /\ DOMAIN way = 1 .. L /\ p \in 1 .. L /\ f \in Nat
      /\ \A q \in 1 .. L : way[q] \in D /\ way[q] \in Nat
      /\ \A g \in D : /\ u.folds[g].old = d.folds[g].old /\ u.folds[g].new = d.folds[g].new
                      /\ u.folds[g].undone = (d.folds[g].undone \/ g = f)
  BY PlainParts, WayParts DEF TakesBack
<1>2. /\ \A q \in 1 .. L : ~d.folds[way[q]].undone
      /\ \A q, j \in 1 .. L : q < j => way[q] < way[j]
      /\ \A q \in 1 .. (L - 1) : d.folds[way[q + 1]].old = d.folds[way[q]].new
      /\ \A q \in 1 .. L, g \in D :
           ~d.folds[g].undone /\ g > way[q] /\ d.folds[g].old = d.folds[way[q]].new
           => q < L /\ way[q + 1] <= g
  BY <1>1 DEF Leads
<1> HIDE DEF L, D
<1>3. /\ way2 \in Seq(D) /\ Len(way2) = p - 1 /\ DOMAIN way2 = 1 .. (p - 1)
      /\ \A q \in 1 .. (p - 1) : way2[q] = way[q]
  <2>1. \A q \in 1 .. (p - 1) : way[q] \in D
    BY <1>1
  <2>2. 1 \in Int /\ p - 1 \in Int /\ (1 <= p - 1 \/ p - 1 = 0)
    BY <1>1
  <2>3. /\ way2 \in Seq(D) /\ Len(way2) = (IF 1 <= p - 1 THEN (p - 1) - 1 + 1 ELSE 0)
        /\ \A q \in 1 .. ((p - 1) - 1 + 1) : way2[q] = way[1 + q - 1]
    BY <2>1, <2>2, SubSeqProperties
  <2>4. Len(way2) = p - 1
    BY <2>2, <2>3
  <2>5. DOMAIN way2 = 1 .. Len(way2)
    BY <2>3, LenProperties
  <2>6. ASSUME NEW q \in 1 .. (p - 1) PROVE way2[q] = way[q]
    <3>1. q \in 1 .. ((p - 1) - 1 + 1) /\ 1 + q - 1 = q
      BY <1>1
    <3> QED BY <2>3, <3>1
  <2> QED BY <2>3, <2>4, <2>5, <2>6
<1> HIDE DEF way2
<1>4. Range(way2) = {g \in Range(way) : g < f}
  <2>1. ASSUME NEW q \in 1 .. (p - 1) PROVE q \in 1 .. L /\ way[q] < f
    BY <1>1, <1>2
  <2>2. ASSUME NEW q \in 1 .. L, way[q] < f PROVE q \in 1 .. (p - 1)
    <3>1. ~(p < q) /\ p # q
      BY <1>1, <1>2, <2>2
    <3> QED BY <1>1, <3>1
  <2>3. \A q \in 1 .. (p - 1) : way2[q] \in Range(way) /\ way2[q] < f
    BY <1>1, <1>3, <2>1 DEF Range
  <2>4. Range(way2) \subseteq {g \in Range(way) : g < f}
    BY <1>3, <2>3 DEF Range
  <2>5. ASSUME NEW q \in 1 .. L, way[q] < f PROVE way[q] \in Range(way2)
    BY <1>3, <2>2, <2>5 DEF Range
  <2>6. {g \in Range(way) : g < f} \subseteq Range(way2)
    BY <1>1, <2>5 DEF Range
  <2> QED BY <2>4, <2>6
<1>5. ASSUME NEW q \in 1 .. (p - 1)
      PROVE  q \in 1 .. L /\ way2[q] = way[q] /\ way[q] \in D /\ way[q] # f /\ way[q] < f
  <2>1. q \in 1 .. L /\ q < p
    BY <1>1
  <2>2. way[q] < f
    BY <1>1, <1>2, <2>1
  <2>3. way[q] \in Nat /\ way[q] \in D /\ way2[q] = way[q]
    BY <1>1, <1>3, <2>1
  <2>4. way[q] # f
    BY <1>1, <2>2, <2>3
  <2> QED BY <2>1, <2>2, <2>3, <2>4
<1>6. ASSUME NEW q \in 1 .. (p - 1), NEW g \in D,
             ~u.folds[g].undone, g > way2[q], u.folds[g].old = u.folds[way2[q]].new
      PROVE  q < p - 1 /\ way2[q + 1] <= g
  <2>1. ~d.folds[g].undone /\ g # f /\ d.folds[g].old = d.folds[way[q]].new /\ g > way[q]
    BY <1>1, <1>5, <1>6
  <2>2. q < L /\ way[q + 1] <= g
    BY <1>2, <1>5, <2>1
  <2>3. q # p - 1
    <3> SUFFICES ASSUME q = p - 1 PROVE FALSE
      OBVIOUS
    <3>1. q + 1 = p /\ q \in 1 .. (L - 1)
      BY <1>1
    <3>2. d.folds[f].old = d.folds[way[q]].new /\ f <= g
      BY <1>2, <2>2, <3>1
    <3>3. g <= f
      BY <2>1, <3>2 DEF NewestOfItsWork, Old, D
    <3> QED BY <1>1, <2>1, <3>2, <3>3
  <2>4. q + 1 \in 1 .. (p - 1) /\ q < p - 1
    BY <1>1, <2>3
  <2> QED BY <1>3, <2>2, <2>4
<1>7. ASSUME NEW q \in 1 .. ((p - 1) - 1) PROVE u.folds[way2[q + 1]].old = u.folds[way2[q]].new
  <2>1. q \in 1 .. (p - 1) /\ q + 1 \in 1 .. (p - 1) /\ q \in 1 .. (L - 1)
    BY <1>1
  <2>2. /\ way2[q] = way[q] /\ way[q] \in D
        /\ way2[q + 1] = way[q + 1] /\ way[q + 1] \in D
    BY <1>5, <2>1
  <2>3. d.folds[way[q + 1]].old = d.folds[way[q]].new
    BY <1>2, <2>1
  <2> QED BY <1>1, <2>2, <2>3
<1>8. ASSUME NEW q \in 1 .. (p - 1) PROVE ~u.folds[way2[q]].undone
  BY <1>1, <1>2, <1>5
<1>9. ASSUME NEW q \in 1 .. (p - 1), NEW j \in 1 .. (p - 1), q < j PROVE way2[q] < way2[j]
  BY <1>2, <1>5, <1>9
<1>10. Leads(u, way2)
  BY <1>1, <1>3, <1>6, <1>7, <1>8, <1>9 DEF Leads
<1> QED
  BY <1>3, <1>4, <1>10 DEF way2

-----------------------------------------------------------------------------
(* The trails of what users left: a trail is a way that begins at the      *)
(* origin, and what was taken away has none.                               *)
Stands(d, tr, r) ==
    IF tr[r] = <<>> THEN Origin(r) ELSE d.folds[tr[r][Len(tr[r])]].new

TrailsOK(d, wt, tr) ==
    /\ d \in PlainDb /\ wt \in [Row -> Nat] /\ tr \in [Row -> Seq(Nat)]
    /\ \A r \in Row : Leads(d, tr[r])
    /\ \A r \in Row : wt[r] = 0 => tr[r] = <<>>
    /\ \A r \in Row : tr[r] # <<>> => d.folds[tr[r][1]].old = Origin(r)

CarryTrails(d, wt, tr, x) ==
    [r \in Row |-> IF wt[r] > 0 /\ Stands(d, tr, r) = x
                   THEN Append(tr[r], Len(d.folds) + 1) ELSE tr[r]]

ShortenTrails(tr, i) ==
    [r \in Row |-> IF \E p \in DOMAIN tr[r] : tr[r][p] = i
                   THEN SubSeq(tr[r], 1, (CHOOSE p \in DOMAIN tr[r] : tr[r][p] = i) - 1)
                   ELSE tr[r]]

LEMMA TrailsCarried ==
  ASSUME NEW d, NEW wt, NEW tr, TrailsOK(d, wt, tr),
         NEW x \in Works, NEW y \in Works, NEW d2, CarriesOn(d, x, y, d2)
  PROVE  /\ TrailsOK(d2, wt, CarryTrails(d, wt, tr, x))
         /\ \A r \in Row :
              /\ Stands(d2, CarryTrails(d, wt, tr, x), r)
                   = IF wt[r] > 0 /\ Stands(d, tr, r) = x THEN y ELSE Stands(d, tr, r)
              /\ Range(CarryTrails(d, wt, tr, x)[r])
                   = IF wt[r] > 0 /\ Stands(d, tr, r) = x
                     THEN Range(tr[r]) \cup {Len(d.folds) + 1} ELSE Range(tr[r])
<1> DEFINE n == Len(d.folds)
           tr2 == CarryTrails(d, wt, tr, x)
<1>1. /\ d \in PlainDb /\ wt \in [Row -> Nat] /\ tr \in [Row -> Seq(Nat)] /\ d2 \in PlainDb
      /\ n \in Nat /\ DOMAIN d.folds = 1 .. n /\ n + 1 \in Nat
      /\ \A g \in 1 .. n : d2.folds[g] = d.folds[g]
      /\ d2.folds[n + 1].old = x /\ d2.folds[n + 1].new = y
  BY PlainParts DEF TrailsOK, CarriesOn
<1>2. ASSUME NEW r \in Row
      PROVE  /\ tr2[r] \in Seq(Nat) /\ Leads(d2, tr2[r])
             /\ wt[r] = 0 => tr2[r] = <<>>
             /\ tr2[r] # <<>> => d2.folds[tr2[r][1]].old = Origin(r)
             /\ Stands(d2, tr2, r) = IF wt[r] > 0 /\ Stands(d, tr, r) = x THEN y ELSE Stands(d, tr, r)
             /\ Range(tr2[r]) = IF wt[r] > 0 /\ Stands(d, tr, r) = x
                                THEN Range(tr[r]) \cup {n + 1} ELSE Range(tr[r])
  <2> DEFINE way == tr[r]
             L == Len(way)
  <2>1. /\ Leads(d, way) /\ (wt[r] = 0 => way = <<>>)
        /\ (way # <<>> => d.folds[way[1]].old = Origin(r)) /\ wt[r] \in Nat
    BY <1>1 DEF TrailsOK
  <2>2. /\ L \in Nat /\ DOMAIN way = 1 .. L /\ \A p \in 1 .. L : way[p] \in 1 .. n
        /\ way \in Seq(Nat) /\ (way # <<>> => L >= 1)
    BY <1>1, <2>1, WayParts
  <2>3. Stands(d, tr, r) = IF way = <<>> THEN Origin(r) ELSE d.folds[way[L]].new
    BY DEF Stands
  <2>4. Stands(d2, tr2, r) = IF tr2[r] = <<>> THEN Origin(r) ELSE d2.folds[tr2[r][Len(tr2[r])]].new
    BY DEF Stands
  <2>5. tr2[r] = IF wt[r] > 0 /\ Stands(d, tr, r) = x THEN Append(way, n + 1) ELSE way
    BY DEF CarryTrails
  <2> HIDE DEF way, L, n, tr2
  <2>6. CASE wt[r] > 0 /\ Stands(d, tr, r) = x
    <3> DEFINE way2 == Append(way, n + 1)
    <3>1. way # <<>> => d.folds[way[Len(way)]].new = x
      BY <2>3, <2>6 DEF L
    <3>2. /\ Leads(d2, way2) /\ Range(way2) = Range(way) \cup {n + 1}
          /\ way2[L + 1] = n + 1 /\ Len(way2) = L + 1
          /\ \A p \in 1 .. L : way2[p] = way[p]
      BY <1>1, <2>1, <3>1, WayGoesOn DEF n, L
    <3>3. way2 \in Seq(Nat)
      BY <1>1, <2>2, AppendProperties
    <3> HIDE DEF way2
    <3>4. tr2[r] = way2
      BY <2>5, <2>6 DEF way2
    <3>5. way2 # <<>>
      <4>1. Len(<<>>) = 0 /\ L + 1 # 0
        BY <2>2
      <4> QED BY <3>2, <4>1
    <3>6. d2.folds[way2[1]].old = Origin(r)
      <4>1. CASE way = <<>>
        <5>1. L = 0
          BY <4>1 DEF L
        <5>2. way2[1] = n + 1
          BY <3>2, <5>1
        <5>3. Origin(r) = x
          BY <2>3, <2>6, <4>1
        <5> QED BY <1>1, <5>2, <5>3
      <4>2. CASE way # <<>>
        <5>1. 1 \in 1 .. L
          BY <2>2, <4>2
        <5> QED BY <1>1, <2>1, <2>2, <3>2, <4>2, <5>1
      <4> QED BY <4>1, <4>2
    <3>7. Stands(d2, tr2, r) = y
      BY <1>1, <2>4, <3>2, <3>4, <3>5
    <3>8. wt[r] # 0
      BY <2>1, <2>6
    <3> QED BY <2>6, <3>2, <3>3, <3>4, <3>5, <3>6, <3>7, <3>8 DEF way
  <2>7. CASE ~(wt[r] > 0 /\ Stands(d, tr, r) = x)
    <3>1. tr2[r] = way
      BY <2>5, <2>7
    <3>2. way # <<>> => d.folds[way[Len(way)]].new # x
      BY <2>1, <2>3, <2>7 DEF L
    <3>3. Leads(d2, way)
      BY <1>1, <2>1, <3>2, WayStays
    <3>4. way # <<>> => d2.folds[way[1]].old = Origin(r) /\ d2.folds[way[L]].new = d.folds[way[L]].new
      BY <1>1, <2>1, <2>2
    <3>5. Stands(d2, tr2, r) = Stands(d, tr, r)
      BY <2>3, <2>4, <3>1, <3>4 DEF L
    <3> QED BY <2>1, <2>2, <2>7, <3>1, <3>3, <3>4, <3>5 DEF way
  <2> QED BY <2>6, <2>7
<1>3. tr2 \in [Row -> Seq(Nat)]
  <2>1. tr2 = [r \in Row |-> tr2[r]]
    BY DEF CarryTrails
  <2> HIDE DEF tr2
  <2> QED BY <1>2, <2>1
<1> HIDE DEF tr2
<1>4. TrailsOK(d2, wt, tr2)
  BY <1>1, <1>2, <1>3 DEF TrailsOK
<1> QED
  BY <1>2, <1>4 DEF tr2

LEMMA TrailsShortened ==
  ASSUME NEW d, NEW wt, NEW tr, TrailsOK(d, wt, tr), NEW f \in DOMAIN d.folds,
         NEW u, TakesBack(d, f, u), NewestOfItsWork(d, f)
  PROVE  /\ TrailsOK(u, wt, ShortenTrails(tr, f))
         /\ \A r \in Row :
              /\ Stands(u, ShortenTrails(tr, f), r)
                   = IF f \in Range(tr[r]) THEN Old(d, f) ELSE Stands(d, tr, r)
              /\ Range(ShortenTrails(tr, f)[r])
                   = IF f \in Range(tr[r]) THEN {g \in Range(tr[r]) : g < f} ELSE Range(tr[r])
<1> DEFINE tr2 == ShortenTrails(tr, f)
<1>1. /\ d \in PlainDb /\ wt \in [Row -> Nat] /\ tr \in [Row -> Seq(Nat)] /\ u \in PlainDb
      /\ \A g \in DOMAIN d.folds : u.folds[g].old = d.folds[g].old /\ u.folds[g].new = d.folds[g].new
      /\ DOMAIN d.folds = 1 .. Len(d.folds)
  BY PlainParts DEF TrailsOK, TakesBack
<1>2. ASSUME NEW r \in Row
      PROVE  /\ tr2[r] \in Seq(Nat) /\ Leads(u, tr2[r])
             /\ wt[r] = 0 => tr2[r] = <<>>
             /\ tr2[r] # <<>> => u.folds[tr2[r][1]].old = Origin(r)
             /\ Stands(u, tr2, r) = IF f \in Range(tr[r]) THEN Old(d, f) ELSE Stands(d, tr, r)
             /\ Range(tr2[r]) = IF f \in Range(tr[r]) THEN {g \in Range(tr[r]) : g < f} ELSE Range(tr[r])
  <2> DEFINE way == tr[r]
             L == Len(way)
             p == CHOOSE q \in DOMAIN way : way[q] = f
  <2>1. /\ Leads(d, way) /\ (wt[r] = 0 => way = <<>>)
        /\ (way # <<>> => d.folds[way[1]].old = Origin(r)) /\ wt[r] \in Nat
    BY <1>1 DEF TrailsOK
  <2>2. /\ L \in Nat /\ DOMAIN way = 1 .. L /\ \A q \in 1 .. L : way[q] \in DOMAIN d.folds
        /\ way \in Seq(Nat) /\ (way # <<>> => L >= 1) /\ (way = <<>> => Range(way) = {})
        /\ \A q \in 1 .. L : way[q] \in Nat
    BY <1>1, <2>1, WayParts
  <2>3. Stands(d, tr, r) = IF way = <<>> THEN Origin(r) ELSE d.folds[way[L]].new
    BY DEF Stands
  <2>4. Stands(u, tr2, r) = IF tr2[r] = <<>> THEN Origin(r) ELSE u.folds[tr2[r][Len(tr2[r])]].new
    BY DEF Stands
  <2>5. tr2[r] = IF \E q \in DOMAIN way : way[q] = f THEN SubSeq(way, 1, p - 1) ELSE way
    BY DEF ShortenTrails
  <2>6. f \in Range(way) <=> \E q \in DOMAIN way : way[q] = f
    BY DEF Range
  <2>7. f \in Range(way) => p \in DOMAIN way /\ way[p] = f
    BY <2>6
  <2> HIDE DEF way, L, tr2, p
  <2>8. CASE f \in Range(way)
    <3> DEFINE way2 == SubSeq(way, 1, p - 1)
    <3>1. p \in DOMAIN way /\ way[p] = f /\ p \in 1 .. L
      BY <2>2, <2>7, <2>8
    <3>2. /\ Leads(u, way2) /\ Len(way2) = p - 1 /\ Range(way2) = {g \in Range(way) : g < f}
          /\ \A q \in 1 .. (p - 1) : way2[q] = way[q]
      BY <1>1, <2>1, <3>1, WayShortened
    <3>3. way2 \in Seq(Nat)
      BY <1>1, <3>2, WayParts
    <3>4. tr2[r] = way2
      BY <2>5, <2>6, <2>8
    <3> HIDE DEF way2
    <3>5. way # <<>>
      BY <2>2, <2>8
    <3>6. CASE p = 1
      <4>1. way2 = <<>>
        <5>1. Len(way2) = 0
          BY <3>2, <3>6
        <5> QED BY <3>3, <5>1, EmptySeq
      <4>2. Origin(r) = Old(d, f)
        BY <2>1, <3>1, <3>5, <3>6 DEF Old
      <4> QED BY <2>1, <2>4, <2>8, <3>2, <3>3, <3>4, <4>1, <4>2 DEF way
    <3>7. CASE p # 1
      <4>1. p - 1 \in 1 .. L /\ p - 1 \in 1 .. (L - 1) /\ (p - 1) + 1 = p /\ 1 \in 1 .. (p - 1) /\ 1 \in 1 .. L
            /\ p - 1 \in 1 .. (p - 1)
        BY <2>2, <3>1, <3>7
      <4>2. way2 # <<>>
        <5>1. Len(<<>>) = 0 /\ p - 1 # 0
          BY <4>1
        <5> QED BY <3>2, <5>1
      <4>3. way2[1] = way[1] /\ way2[p - 1] = way[p - 1]
        BY <3>2, <4>1
      <4>4. u.folds[way2[1]].old = Origin(r)
        BY <1>1, <2>1, <2>2, <3>5, <4>1, <4>3
      <4>5. d.folds[way[p]].old = d.folds[way[p - 1]].new
        <5>1. d.folds[way[(p - 1) + 1]].old = d.folds[way[p - 1]].new
          BY <2>1, <4>1 DEF Leads, L
        <5> QED BY <4>1, <5>1
      <4>6. Stands(u, tr2, r) = Old(d, f)
        <5>1. Stands(u, tr2, r) = u.folds[way2[p - 1]].new
          BY <2>4, <3>2, <3>4, <4>2
        <5> QED BY <1>1, <2>2, <3>1, <4>1, <4>3, <4>5, <5>1 DEF Old
      <4> QED BY <2>1, <2>8, <3>2, <3>3, <3>4, <3>5, <4>4, <4>6 DEF way
    <3> QED BY <3>6, <3>7
  <2>9. CASE f \notin Range(way)
    <3>1. tr2[r] = way
      BY <2>5, <2>6, <2>9
    <3>2. Leads(u, way)
      BY <1>1, <2>1, <2>9, WayKept
    <3>3. way # <<>> => u.folds[way[1]].old = Origin(r) /\ u.folds[way[L]].new = d.folds[way[L]].new
      <4>1. way # <<>> => way[1] \in DOMAIN d.folds /\ way[L] \in DOMAIN d.folds
        BY <2>2
      <4> QED BY <1>1, <2>1, <4>1
    <3>4. Stands(u, tr2, r) = Stands(d, tr, r)
      BY <2>3, <2>4, <3>1, <3>3 DEF L
    <3> QED BY <2>1, <2>2, <2>9, <3>1, <3>2, <3>3, <3>4 DEF way
  <2> QED BY <2>8, <2>9
<1>3. tr2 \in [Row -> Seq(Nat)]
  <2>1. tr2 = [r \in Row |-> tr2[r]]
    BY DEF ShortenTrails
  <2> HIDE DEF tr2
  <2> QED BY <1>2, <2>1
<1> HIDE DEF tr2
<1>4. TrailsOK(u, wt, tr2)
  BY <1>1, <1>2, <1>3 DEF TrailsOK
<1> QED
  BY <1>2, <1>4 DEF tr2

-----------------------------------------------------------------------------
(* Resources: a row is where its trail leads, and the folds in force that  *)
(* say they moved it are those of its trail.                               *)
Resources(d, wt, tr, rem) ==
    /\ TrailsOK(d, wt, tr) /\ d.table = "resource" /\ wt \in [Row -> {0, 1}]
    /\ \A r \in Row : d.at[r] = IF wt[r] > 0 THEN Stands(d, tr, r) ELSE 0
    /\ \A g \in DOMAIN d.folds : ~d.folds[g].undone =>
         \A r \in Row : /\ wt[r] > 0 => (r \in d.folds[g].moved <=> g \in Range(tr[r]))
                        /\ rem = 0 /\ wt[r] = 0 => r \notin d.folds[g].moved

LEMMA TrailParts ==
  ASSUME NEW d, NEW wt, NEW tr, TrailsOK(d, wt, tr), NEW r \in Row
  PROVE  /\ Leads(d, tr[r]) /\ Stands(d, tr, r) \in Works /\ wt[r] \in Nat
         /\ Range(tr[r]) \in SUBSET (DOMAIN d.folds)
         /\ \A g \in Range(tr[r]) : g \in Nat /\ ~d.folds[g].undone
<1>1. d \in PlainDb /\ Leads(d, tr[r]) /\ wt[r] \in Nat
  BY DEF TrailsOK
<1>2. /\ DOMAIN d.folds = 1 .. Len(d.folds) /\ Len(d.folds) \in Nat
      /\ DOMAIN tr[r] = 1 .. Len(tr[r])
      /\ \A p \in 1 .. Len(tr[r]) : tr[r][p] \in 1 .. Len(d.folds)
      /\ tr[r] # <<>> => Len(tr[r]) \in DOMAIN tr[r]
      /\ \A g \in DOMAIN d.folds : d.folds[g].new \in Works
  <2>1. \A g \in DOMAIN d.folds : d.folds[g].new \in Works
    BY <1>1, PlainParts DEF PlainFold
  <2> QED BY <1>1, <2>1, PlainParts, WayParts
<1>3. Origin(r) \in Works
  BY DEF Origin, Row
<1>4. Stands(d, tr, r) \in Works
  BY <1>2, <1>3 DEF Stands
<1>5. \A g \in Range(tr[r]) : g \in DOMAIN d.folds /\ ~d.folds[g].undone
  BY <1>1, <1>2 DEF Range, Leads
<1> QED
  BY <1>1, <1>2, <1>4, <1>5

LEMMA ResourcesFolded ==
  ASSUME NEW d, NEW wt, NEW tr, NEW rem, Resources(d, wt, tr, rem),
         NEW x \in Works, NEW y \in Works, NEW d2, CarriesOn(d, x, y, d2)
  PROVE  Resources(d2, wt, CarryTrails(d, wt, tr, x), rem)
<1> DEFINE tr2 == CarryTrails(d, wt, tr, x)
           n == Len(d.folds)
<1>1. /\ TrailsOK(d, wt, tr) /\ d.table = "resource" /\ wt \in [Row -> {0, 1}] /\ d \in PlainDb
      /\ \A r \in Row : d.at[r] = IF wt[r] > 0 THEN Stands(d, tr, r) ELSE 0
      /\ \A g \in DOMAIN d.folds : ~d.folds[g].undone =>
           \A r \in Row : /\ wt[r] > 0 => (r \in d.folds[g].moved <=> g \in Range(tr[r]))
                          /\ rem = 0 /\ wt[r] = 0 => r \notin d.folds[g].moved
  BY DEF Resources, TrailsOK
<1>2. /\ n \in Nat /\ DOMAIN d.folds = 1 .. n /\ DOMAIN d2.folds = 1 .. (n + 1)
      /\ \A g \in 1 .. n : d2.folds[g] = d.folds[g]
      /\ d2.folds[n + 1].moved = On(d, x) /\ d2.table = "resource"
      /\ d2.at = [r \in Row |-> IF d.at[r] = x THEN y ELSE d.at[r]]
  BY <1>1, PlainParts DEF CarriesOn
<1>3. /\ TrailsOK(d2, wt, tr2)
      /\ \A r \in Row :
              /\ Stands(d2, tr2, r) = IF wt[r] > 0 /\ Stands(d, tr, r) = x THEN y ELSE Stands(d, tr, r)
              /\ Range(tr2[r]) = IF wt[r] > 0 /\ Stands(d, tr, r) = x
                                 THEN Range(tr[r]) \cup {n + 1} ELSE Range(tr[r])
  <2>1. TrailsOK(d, wt, tr)
    BY <1>1
  <2> QED BY <2>1, TrailsCarried
<1> HIDE DEF tr2
<1>4. x # 0
  BY WorksOK
<1>5. ASSUME NEW r \in Row PROVE d2.at[r] = IF wt[r] > 0 THEN Stands(d2, tr2, r) ELSE 0
  <2>1. d2.at[r] = IF d.at[r] = x THEN y ELSE d.at[r]
    BY <1>2
  <2>2. d.at[r] = IF wt[r] > 0 THEN Stands(d, tr, r) ELSE 0
    BY <1>1
  <2>3. Stands(d2, tr2, r) = IF wt[r] > 0 /\ Stands(d, tr, r) = x THEN y ELSE Stands(d, tr, r)
    BY <1>3
  <2> QED BY <1>4, <2>1, <2>2, <2>3
<1>6. ASSUME NEW g \in 1 .. (n + 1), ~d2.folds[g].undone, NEW r \in Row
      PROVE  /\ wt[r] > 0 => (r \in d2.folds[g].moved <=> g \in Range(tr2[r]))
             /\ rem = 0 /\ wt[r] = 0 => r \notin d2.folds[g].moved
  <2>1. Range(tr[r]) \in SUBSET (1 .. n)
    BY <1>1, <1>2, TrailParts
  <2>2. CASE g = n + 1
    <3>1. g \notin Range(tr[r])
      BY <1>2, <2>1, <2>2
    <3>2. r \in d2.folds[g].moved <=> d.at[r] = x
      BY <1>2, <2>2 DEF On
    <3>3. wt[r] \in {0, 1}
      BY <1>1
    <3>4. d.at[r] = IF wt[r] > 0 THEN Stands(d, tr, r) ELSE 0
      BY <1>1
    <3>5. Range(tr2[r]) = IF wt[r] > 0 /\ Stands(d, tr, r) = x
                          THEN Range(tr[r]) \cup {g} ELSE Range(tr[r])
      BY <1>3, <2>2
    <3>6. wt[r] = 0 <=> ~(wt[r] > 0)
      BY <3>3
    <3> QED BY <1>4, <3>1, <3>2, <3>4, <3>5, <3>6
  <2>3. CASE g # n + 1
    <3>1. g \in 1 .. n /\ d2.folds[g] = d.folds[g]
      BY <1>2, <2>3
    <3>2. g \in Range(tr2[r]) <=> g \in Range(tr[r])
      BY <1>3, <2>3
    <3> QED BY <1>1, <1>2, <1>6, <3>1, <3>2
  <2> QED BY <2>2, <2>3
<1> HIDE DEF n
<1>7. Resources(d2, wt, tr2, rem)
  BY <1>1, <1>2, <1>3, <1>5, <1>6 DEF Resources
<1> QED
  BY <1>7 DEF tr2

(* The ledgers lead to a row that is on its trail.                         *)
LEMMA LedgersLead ==
  ASSUME NEW d, NEW wt, NEW tr, NEW rem, Resources(d, wt, tr, rem),
         NEW f \in DOMAIN d.folds, NEW r \in Row, wt[r] > 0, f \in Range(tr[r])
  PROVE  Trace(d, f, r) = [at |-> d.at[r], carried |-> Beyond(tr[r], f), dropped |-> 0]
<1>1. /\ d \in PlainDb /\ Leads(d, tr[r]) /\ TrailsOK(d, wt, tr)
      /\ d.at[r] = Stands(d, tr, r)
  BY DEF Resources, TrailsOK
<1>2. PICK p \in DOMAIN tr[r] : tr[r][p] = f
  BY DEF Range
<1>3. Beyond(tr[r], f) \subseteq Takes(d, r)
  <2>1. \A g \in Range(tr[r]) : g \in DOMAIN d.folds /\ ~d.folds[g].undone
    BY <1>1, TrailParts
  <2> QED BY <2>1 DEF Beyond, Takes, Resources
<1>4. Trace(d, f, r) = [at |-> d.folds[tr[r][Len(tr[r])]].new,
                        carried |-> Beyond(tr[r], f), dropped |-> 0]
  BY <1>1, <1>2, <1>3, TraceFollows
<1>5. tr[r] # <<>>
  BY <1>1, <1>2, WayParts
<1> QED
  BY <1>1, <1>4, <1>5 DEF Stands

LEMMA ResourcesUndone ==
  ASSUME NEW d, NEW wt, NEW tr, NEW rem, Resources(d, wt, tr, rem), NEW f \in DOMAIN d.folds,
         NEW u, TakesBack(d, f, u), NewestOfItsWork(d, f), ~d.folds[f].undone
  PROVE  Resources(u, wt, ShortenTrails(tr, f), rem)
<1> DEFINE tr2 == ShortenTrails(tr, f)
           moved == d.folds[f].moved
<1>1. /\ TrailsOK(d, wt, tr) /\ d.table = "resource" /\ wt \in [Row -> {0, 1}] /\ d \in PlainDb
      /\ \A r \in Row : d.at[r] = IF wt[r] > 0 THEN Stands(d, tr, r) ELSE 0
      /\ \A g \in DOMAIN d.folds : ~d.folds[g].undone =>
           \A r \in Row : /\ wt[r] > 0 => (r \in d.folds[g].moved <=> g \in Range(tr[r]))
                          /\ rem = 0 /\ wt[r] = 0 => r \notin d.folds[g].moved
  BY DEF Resources, TrailsOK
<1>2. /\ DOMAIN u.folds = DOMAIN d.folds /\ u.table = "resource" /\ f \in Nat
      /\ u.at = BackAt(d, f, moved)
      /\ \A g \in DOMAIN d.folds : /\ u.folds[g].undone = (d.folds[g].undone \/ g = f)
                                   /\ u.folds[g].moved = d.folds[g].moved \ Voided(d, f, moved, g)
  BY <1>1, PlainParts DEF TakesBack
<1>3. /\ TrailsOK(u, wt, tr2)
      /\ \A r \in Row :
              /\ Stands(u, tr2, r) = IF f \in Range(tr[r]) THEN Old(d, f) ELSE Stands(d, tr, r)
              /\ Range(tr2[r]) = IF f \in Range(tr[r]) THEN {g \in Range(tr[r]) : g < f} ELSE Range(tr[r])
  <2>1. TrailsOK(d, wt, tr)
    BY <1>1
  <2> QED BY <2>1, TrailsShortened
<1> HIDE DEF tr2, moved
<1>4. ASSUME NEW r \in Row
      PROVE  /\ r \in moved \cap Back(d, f) <=> wt[r] > 0 /\ f \in Range(tr[r])
             /\ wt[r] > 0 /\ f \in Range(tr[r]) => Trace(d, f, r).carried = Beyond(tr[r], f)
  <2>1. CASE wt[r] > 0 /\ f \in Range(tr[r])
    <3>1. Trace(d, f, r) = [at |-> d.at[r], carried |-> Beyond(tr[r], f), dropped |-> 0]
      BY <2>1, LedgersLead
    <3>2. r \in moved
      BY <1>1, <2>1 DEF moved
    <3> QED BY <2>1, <3>1, <3>2 DEF Back, moved
  <2>2. CASE wt[r] > 0 /\ f \notin Range(tr[r])
    <3>1. r \notin moved
      BY <1>1, <2>2 DEF moved
    <3> QED BY <2>2, <3>1
  <2>3. CASE ~(wt[r] > 0)
    <3>1. d.at[r] = 0 /\ Trace(d, f, r).at \in Works /\ 0 \notin Works
      BY <1>1, <2>3, TraceTyped, WorksOK
    <3> QED BY <2>3, <3>1 DEF Back
  <2> QED BY <2>1, <2>2, <2>3
<1>5. ASSUME NEW r \in Row PROVE u.at[r] = IF wt[r] > 0 THEN Stands(u, tr2, r) ELSE 0
  <2>1. u.at[r] = IF r \in moved \cap Back(d, f) THEN Old(d, f) ELSE d.at[r]
    BY <1>2 DEF BackAt
  <2> QED BY <1>1, <1>3, <1>4, <2>1
<1>6. ASSUME NEW g \in DOMAIN d.folds, ~u.folds[g].undone, NEW r \in Row
      PROVE  /\ wt[r] > 0 => (r \in u.folds[g].moved <=> g \in Range(tr2[r]))
             /\ rem = 0 /\ wt[r] = 0 => r \notin u.folds[g].moved
  <2>1. ~d.folds[g].undone /\ g # f
    BY <1>2, <1>6
  <2>2. g \in Nat
    <3>1. DOMAIN d.folds = 1 .. Len(d.folds)
      BY <1>1, PlainParts
    <3> QED BY <3>1
  <2>3. r \in u.folds[g].moved <=> r \in d.folds[g].moved /\ r \notin Voided(d, f, moved, g)
    BY <1>2
  <2>4. r \in Voided(d, f, moved, g)
        <=> r \in moved \cap Back(d, f) /\ g \in Trace(d, f, r).carried
    BY DEF Voided
  <2>5. wt[r] > 0 /\ f \in Range(tr[r]) => (r \in Voided(d, f, moved, g) <=> g \in Range(tr[r]) /\ g > f)
    BY <1>4, <2>4 DEF Beyond
  <2>6. wt[r] > 0 /\ f \notin Range(tr[r]) => r \notin Voided(d, f, moved, g)
    BY <1>4, <2>4
  <2>7. ~(g > f) <=> g < f
    BY <1>2, <2>1, <2>2
  <2> QED BY <1>1, <1>3, <2>1, <2>3, <2>5, <2>6, <2>7
<1>7. Resources(u, wt, tr2, rem)
  BY <1>1, <1>2, <1>3, <1>5, <1>6 DEF Resources
<1> QED
  BY <1>7 DEF tr2

(* The trails are about the ledger alone.                                  *)
LEMMA SameLedger ==
  ASSUME NEW d, NEW d2, d2.folds = d.folds
  PROVE  /\ \A way : Leads(d2, way) <=> Leads(d, way)
         /\ \A tr, r : Stands(d2, tr, r) = Stands(d, tr, r)
BY DEF Leads, Stands

LEMMA ResourceLeft ==
  ASSUME NEW d, NEW wt, NEW tr, Resources(d, wt, tr, 0), NEW r \in Row, wt[r] = 0
  PROVE  Resources(EnsureLocal([d EXCEPT !.at[r] = Origin(r)], Origin(r)),
                   [wt EXCEPT ![r] = 1], tr, 0)
<1> DEFINE w == Origin(r)
           row == IF d.local[w] = NoRow THEN [view |-> 0, published |-> FALSE] ELSE d.local[w]
           at == [d.at EXCEPT ![r] = w]
           local == [d.local EXCEPT ![w] = row]
           d2 == EnsureLocal([d EXCEPT !.at[r] = Origin(r)], Origin(r))
           wt2 == [wt EXCEPT ![r] = 1]
<1>1. TrailsOK(d, wt, tr) /\ d \in PlainDb /\ w \in Works
  BY DEF Resources, TrailsOK, Origin, Row
<1>2. at \in [Row -> Works \cup {0}] /\ local \in [Works -> Snap]
  <2>1. row \in Snap
    <3>1. d.local[w] \in Snap
      BY <1>1, PlainParts
    <3>2. [view |-> 0, published |-> FALSE] \in Snap
      BY DEF Snap
    <3> QED BY <3>1, <3>2
  <2> HIDE DEF row
  <2> QED BY <1>1, <2>1, PlainParts
<1>3. d2 = [d EXCEPT !.at = at, !.local = local]
  <2>1. d2 = [[d EXCEPT !.at = at] EXCEPT !.local = local]
    BY <1>1 DEF EnsureLocal, PlainDb
  <2> HIDE DEF at, local, d2
  <2> QED BY <1>1, <2>1 DEF PlainDb
<1> HIDE DEF d2, local
<1>4. d2 \in PlainDb /\ d2.folds = d.folds /\ d2.at = at /\ d2.table = d.table
  <2> HIDE DEF at
  <2> QED BY <1>1, <1>2, <1>3 DEF PlainDb
<1>5. wt2 \in [Row -> {0, 1}] /\ wt2 \in [Row -> Nat]
      /\ \A q \in Row : wt2[q] = IF q = r THEN 1 ELSE wt[q]
  BY DEF Resources
<1> HIDE DEF wt2
<1>6. tr[r] = <<>> /\ Stands(d, tr, r) = Origin(r)
  BY <1>1 DEF TrailsOK, Stands
<1>7. /\ \A way : Leads(d2, way) <=> Leads(d, way)
      /\ \A q \in Row : Stands(d2, tr, q) = Stands(d, tr, q)
  BY <1>4, SameLedger
<1>8. TrailsOK(d2, wt2, tr)
  BY <1>1, <1>4, <1>5, <1>6, <1>7 DEF TrailsOK
<1>9. ASSUME NEW q \in Row PROVE d2.at[q] = IF wt2[q] > 0 THEN Stands(d2, tr, q) ELSE 0
  <2>1. d2.at[q] = IF q = r THEN Origin(r) ELSE d.at[q]
    BY <1>1, <1>4, PlainParts
  <2> QED BY <1>5, <1>6, <1>7, <2>1 DEF Resources
<1>10. ASSUME NEW g \in DOMAIN d.folds, ~d.folds[g].undone, NEW q \in Row
       PROVE  /\ wt2[q] > 0 => (q \in d.folds[g].moved <=> g \in Range(tr[q]))
              /\ wt2[q] = 0 => q \notin d.folds[g].moved
  <2>1. Range(tr[r]) = {}
    BY <1>6 DEF Range
  <2> QED BY <1>5, <1>10, <2>1 DEF Resources
<1>11. Resources(d2, wt2, tr, 0)
  BY <1>4, <1>5, <1>8, <1>9, <1>10 DEF Resources
<1> QED
  BY <1>11 DEF d2, wt2

LEMMA ResourceTaken ==
  ASSUME NEW d, NEW wt, NEW tr, NEW rem, Resources(d, wt, tr, rem), NEW r \in Row, NEW more, more # 0
  PROVE  Resources([d EXCEPT !.at[r] = 0],
                   [q \in Row |-> IF q \in {r} THEN 0 ELSE wt[q]],
                   [q \in Row |-> IF q \in {r} THEN <<>> ELSE tr[q]], more)
<1> DEFINE at == [d.at EXCEPT ![r] = 0]
           d2 == [d EXCEPT !.at[r] = 0]
           wt2 == [q \in Row |-> IF q \in {r} THEN 0 ELSE wt[q]]
           tr2 == [q \in Row |-> IF q \in {r} THEN <<>> ELSE tr[q]]
<1>1. TrailsOK(d, wt, tr) /\ d \in PlainDb /\ tr \in [Row -> Seq(Nat)]
  BY DEF Resources, TrailsOK
<1>2. at \in [Row -> Works \cup {0}] /\ d2 = [d EXCEPT !.at = at]
  BY <1>1, PlainParts DEF PlainDb
<1> HIDE DEF d2
<1>3. d2 \in PlainDb /\ d2.folds = d.folds /\ d2.at = at /\ d2.table = d.table
  <2> HIDE DEF at
  <2> QED BY <1>1, <1>2 DEF PlainDb
<1>4. wt2 \in [Row -> {0, 1}] /\ wt2 \in [Row -> Nat] /\ tr2 \in [Row -> Seq(Nat)]
  <2>1. <<>> \in Seq(Nat)
    OBVIOUS
  <2> QED BY <1>1, <2>1 DEF Resources
<1>5. \A q \in Row : /\ q = r => wt2[q] = 0 /\ tr2[q] = <<>>
                     /\ q # r => wt2[q] = wt[q] /\ tr2[q] = tr[q] /\ d2.at[q] = d.at[q]
                     /\ d2.at[r] = 0
  BY <1>1, <1>3, PlainParts
<1> HIDE DEF wt2, tr2
<1>6. /\ \A way : Leads(d2, way) <=> Leads(d, way)
      /\ \A q \in Row : Stands(d2, tr2, q) = Stands(d, tr2, q)
  BY <1>3, SameLedger
<1>7. Leads(d2, <<>>)
  <2>1. <<>> \in Seq(DOMAIN d2.folds) /\ DOMAIN <<>> = {} /\ 1 .. (Len(<<>>) - 1) = {}
    OBVIOUS
  <2> QED BY <2>1 DEF Leads
<1>8. \A q \in Row : q # r => Stands(d2, tr2, q) = Stands(d, tr, q)
  BY <1>5, <1>6 DEF Stands
<1>9. TrailsOK(d2, wt2, tr2)
  <2>1. ASSUME NEW q \in Row
        PROVE  /\ Leads(d2, tr2[q]) /\ (wt2[q] = 0 => tr2[q] = <<>>)
               /\ (tr2[q] # <<>> => d2.folds[tr2[q][1]].old = Origin(q))
    <3>1. CASE q = r
      BY <1>5, <1>7, <3>1
    <3>2. CASE q # r
      BY <1>1, <1>3, <1>5, <1>6, <3>2 DEF TrailsOK
    <3> QED BY <3>1, <3>2
  <2> QED BY <1>3, <1>4, <2>1 DEF TrailsOK
<1>10. ASSUME NEW q \in Row PROVE d2.at[q] = IF wt2[q] > 0 THEN Stands(d2, tr2, q) ELSE 0
  BY <1>5, <1>8 DEF Resources
<1>11. ASSUME NEW g \in DOMAIN d.folds, ~d.folds[g].undone, NEW q \in Row, wt2[q] > 0
       PROVE  q \in d.folds[g].moved <=> g \in Range(tr2[q])
  BY <1>5, <1>11 DEF Resources
<1>12. Resources(d2, wt2, tr2, more)
  BY <1>3, <1>4, <1>9, <1>10, <1>11 DEF Resources
<1> QED
  BY <1>12 DEF d2, wt2, tr2

-----------------------------------------------------------------------------
(* Daily views: a bucket counts what stands on its work, and the bucket a  *)
(* fold in force noted what the fold still carries.                        *)
Val(b) == IF b = NoBucket THEN 0 ELSE b

Here(d, wt, tr, w) == {r \in Row : wt[r] > 0 /\ Stands(d, tr, r) = w}
CarriedBy(tr, g) == {r \in Row : g \in Range(tr[r])}

Views(d, wt, tr) ==
    /\ TrailsOK(d, wt, tr) /\ d.table = "daily"
    /\ \A r \in Row : d.at[r] = 0
    /\ \A g \in DOMAIN d.folds : d.folds[g].moved = {}
    /\ \A w \in Works : Val(d.daily[w]) = Sum(wt, Here(d, wt, tr, w))
    /\ \A g \in DOMAIN d.folds : ~d.folds[g].undone =>
         Val(d.folds[g].bucket) = Sum(wt, CarriedBy(tr, g))

LEMMA RowSums ==
  ASSUME NEW wt \in [Row -> Nat], NEW S \in SUBSET Row
  PROVE  /\ IsFiniteSet(S) /\ Sum(wt, S) \in Nat /\ Sum(wt, {}) = 0
         /\ \A T \in SUBSET S : Sum(wt, S) = Sum(wt, S \ T) + Sum(wt, T)
         /\ \A r \in S : wt[r] > 0 => Sum(wt, S) > 0
<1>1. IsFiniteSet(S) /\ \A r \in S : wt[r] \in Nat
  BY RowsAreFinite
<1>2. Sum(wt, S) \in Nat /\ Sum(wt, {}) = 0
  BY <1>1, SumPicks, SumTakesOff
<1>3. ASSUME NEW T \in SUBSET S PROVE Sum(wt, S) = Sum(wt, S \ T) + Sum(wt, T)
  <2> DEFINE A == S \ T
  <2>1. IsFiniteSet(A) /\ IsFiniteSet(T) /\ A \cap T = {} /\ A \cup T = S
    BY <1>1, FS_Subset
  <2>2. \A x \in A \cup T : wt[x] \in Nat
    BY <1>1
  <2> HIDE DEF A
  <2>3. Sum(wt, A \cup T) = Sum(wt, A) + Sum(wt, T)
    BY <2>1, <2>2, SumOfUnion
  <2> QED BY <2>1, <2>3 DEF A
<1>4. ASSUME NEW r \in S, wt[r] > 0 PROVE Sum(wt, S) > 0
  <2>1. Sum(wt, S \ {r}) \in Nat /\ Sum(wt, S) = wt[r] + Sum(wt, S \ {r})
    BY <1>1, SumTakesOff
  <2>2. wt[r] \in Nat
    BY <1>1
  <2> QED BY <1>4, <2>1, <2>2
<1> QED
  BY <1>1, <1>2, <1>3, <1>4

LEMMA ViewsFolded ==
  ASSUME NEW d, NEW wt, NEW tr, Views(d, wt, tr),
         NEW x \in Works, NEW y \in Works, x # y, NEW d2, CarriesOn(d, x, y, d2)
  PROVE  Views(d2, wt, CarryTrails(d, wt, tr, x))
<1> DEFINE tr2 == CarryTrails(d, wt, tr, x)
           n == Len(d.folds)
           H(w) == Here(d, wt, tr, w)
           H2(w) == Here(d2, wt, tr2, w)
<1>1. /\ TrailsOK(d, wt, tr) /\ d.table = "daily" /\ d \in PlainDb /\ wt \in [Row -> Nat]
      /\ \A r \in Row : d.at[r] = 0
      /\ \A g \in DOMAIN d.folds : d.folds[g].moved = {}
      /\ \A w \in Works : Val(d.daily[w]) = Sum(wt, H(w))
      /\ \A g \in DOMAIN d.folds : ~d.folds[g].undone =>
           Val(d.folds[g].bucket) = Sum(wt, CarriedBy(tr, g))
  BY DEF Views, TrailsOK
<1>2. /\ n \in Nat /\ DOMAIN d.folds = 1 .. n /\ DOMAIN d2.folds = 1 .. (n + 1)
      /\ \A g \in 1 .. n : d2.folds[g] = d.folds[g]
      /\ d2.folds[n + 1].moved = On(d, x) /\ d2.folds[n + 1].bucket = d.daily[x]
      /\ d2.table = "daily" /\ d2 \in PlainDb
      /\ d2.at = [r \in Row |-> IF d.at[r] = x THEN y ELSE d.at[r]]
      /\ d2.daily = [d.daily EXCEPT ![x] = NoBucket,
                                    ![y] = IF d.daily[x] = NoBucket THEN d.daily[y]
                                           ELSE Plus(d.daily[y], d.daily[x])]
  BY <1>1, PlainParts DEF CarriesOn
<1>3. /\ TrailsOK(d2, wt, tr2)
      /\ \A r \in Row :
              /\ Stands(d2, tr2, r) = IF wt[r] > 0 /\ Stands(d, tr, r) = x THEN y ELSE Stands(d, tr, r)
              /\ Range(tr2[r]) = IF wt[r] > 0 /\ Stands(d, tr, r) = x
                                 THEN Range(tr[r]) \cup {n + 1} ELSE Range(tr[r])
  <2>1. TrailsOK(d, wt, tr)
    BY <1>1
  <2> QED BY <2>1, TrailsCarried
<1> HIDE DEF tr2
<1>4. x # 0
  BY WorksOK
<1>5. ASSUME NEW r \in Row PROVE d2.at[r] = 0
  BY <1>1, <1>2, <1>4
<1>6. ASSUME NEW g \in 1 .. (n + 1) PROVE d2.folds[g].moved = {}
  <2>1. On(d, x) = {}
    BY <1>1, <1>4 DEF On
  <2>2. CASE g = n + 1
    BY <1>2, <2>1, <2>2
  <2>3. CASE g # n + 1
    <3>1. g \in 1 .. n
      BY <1>2, <2>3
    <3> QED BY <1>1, <1>2, <3>1
  <2> QED BY <2>2, <2>3
<1>7. /\ H2(x) = {} /\ H2(y) = H(y) \cup H(x) /\ H(y) \cap H(x) = {}
      /\ \A w \in Works : w # x /\ w # y => H2(w) = H(w)
  BY <1>3 DEF Here
<1>8. \A w : H(w) \in SUBSET Row
  BY DEF Here
<1>9. /\ d.daily[x] \in Bucket /\ d.daily[y] \in Bucket
      /\ Val(d.daily[x]) = Sum(wt, H(x)) /\ Val(d.daily[y]) = Sum(wt, H(y))
      /\ d2.daily[x] = NoBucket
      /\ d2.daily[y] = IF d.daily[x] = NoBucket THEN d.daily[y] ELSE Plus(d.daily[y], d.daily[x])
      /\ \A w \in Works : w # x /\ w # y => d2.daily[w] = d.daily[w]
  <2>1. d.daily \in [Works -> Bucket]
    BY <1>1, PlainParts
  <2> HIDE DEF H
  <2> QED BY <1>1, <1>2, <2>1
<1> HIDE DEF H, H2
<1>10. Sum(wt, H2(y)) = Sum(wt, H(y)) + Sum(wt, H(x))
  <2> DEFINE S == H(y) \cup H(x)
  <2>1. S \in SUBSET Row /\ H(x) \in SUBSET S /\ S \ H(x) = H(y)
    BY <1>7, <1>8
  <2>2. Sum(wt, S) = Sum(wt, S \ H(x)) + Sum(wt, H(x))
    <3> HIDE DEF S
    <3> QED BY <1>1, <2>1, RowSums
  <2> QED BY <1>7, <2>1, <2>2
<1>11. ASSUME NEW w \in Works PROVE Val(d2.daily[w]) = Sum(wt, H2(w))
  <2>1. CASE w = x
    <3>1. Sum(wt, {}) = 0
      BY <1>1, RowSums
    <3> QED BY <1>7, <1>9, <2>1, <3>1 DEF Val
  <2>2. CASE w = y
    <3>1. Val(d2.daily[y]) = Val(d.daily[y]) + Val(d.daily[x])
      BY <1>9 DEF Val, Plus, Bucket, NoBucket
    <3> QED BY <1>9, <1>10, <2>2, <3>1
  <2>3. CASE w # x /\ w # y
    BY <1>1, <1>7, <1>9, <2>3
  <2> QED BY <2>1, <2>2, <2>3
<1>12. ASSUME NEW g \in 1 .. (n + 1), ~d2.folds[g].undone
       PROVE  Val(d2.folds[g].bucket) = Sum(wt, CarriedBy(tr2, g))
  <2>0. \A r \in Row : Range(tr[r]) \in SUBSET (1 .. n)
    BY <1>1, <1>2, TrailParts
  <2>1. CASE g = n + 1
    <3>1. g \notin 1 .. n
      BY <1>2, <2>1
    <3>2. CarriedBy(tr2, g) = H(x)
      BY <1>3, <2>0, <2>1, <3>1 DEF CarriedBy, H, Here
    <3> QED BY <1>2, <1>9, <2>1, <3>2
  <2>2. CASE g # n + 1
    <3>1. g \in 1 .. n
      BY <1>2, <2>2
    <3>2. CarriedBy(tr2, g) = CarriedBy(tr, g)
      BY <1>3, <2>2 DEF CarriedBy
    <3> QED BY <1>1, <1>2, <1>12, <3>1, <3>2
  <2> QED BY <2>1, <2>2
<1>13. Views(d2, wt, tr2)
  BY <1>2, <1>3, <1>5, <1>6, <1>11, <1>12 DEF Views, H2
<1> QED
  BY <1>13 DEF tr2

LEMMA ViewsEdited ==
  ASSUME NEW d, NEW wt, NEW tr, Views(d, wt, tr), NEW r \in Row, tr[r] = <<>>
  PROVE  Views([d EXCEPT !.daily[Origin(r)] = Plus(@, 1)], [wt EXCEPT ![r] = @ + 1], tr)
<1> DEFINE w == Origin(r)
           daily == [d.daily EXCEPT ![w] = Plus(d.daily[w], 1)]
           d2 == [d EXCEPT !.daily[Origin(r)] = Plus(@, 1)]
           wt2 == [wt EXCEPT ![r] = @ + 1]
<1>1. /\ TrailsOK(d, wt, tr) /\ d.table = "daily" /\ d \in PlainDb /\ wt \in [Row -> Nat]
      /\ w \in Works /\ tr \in [Row -> Seq(Nat)]
  BY DEF Views, TrailsOK, Origin, Row
<1>2. daily \in [Works -> Bucket] /\ d2 = [d EXCEPT !.daily = daily]
  <2>1. d.daily[w] \in Bucket /\ Plus(d.daily[w], 1) \in Bucket
    <3>1. d.daily[w] \in Bucket
      BY <1>1, PlainParts
    <3> QED BY <3>1 DEF Plus, Bucket, NoBucket
  <2> QED BY <1>1, <2>1, PlainParts DEF PlainDb
<1> HIDE DEF d2
<1>3. /\ d2 \in PlainDb /\ d2.folds = d.folds /\ d2.at = d.at /\ d2.table = d.table
      /\ d2.daily = daily
  <2> HIDE DEF daily
  <2> QED BY <1>1, <1>2 DEF PlainDb
<1>4. wt2 \in [Row -> Nat] /\ wt2[r] = wt[r] + 1 /\ \A q \in Row : q # r => wt2[q] = wt[q]
  BY <1>1
<1> HIDE DEF wt2
<1>5. /\ \A way : Leads(d2, way) <=> Leads(d, way)
      /\ \A q \in Row : Stands(d2, tr, q) = Stands(d, tr, q)
  BY <1>3, SameLedger
<1>6. TrailsOK(d2, wt2, tr)
  <2>1. \A q \in Row : wt2[q] = 0 => tr[q] = <<>>
    BY <1>1, <1>4 DEF TrailsOK
  <2> QED BY <1>1, <1>3, <1>4, <1>5, <2>1 DEF TrailsOK
<1>7. ASSUME NEW S \in SUBSET Row, r \notin S PROVE Sum(wt2, S) = Sum(wt, S)
  <2>1. IsFiniteSet(S) /\ \A q \in S : wt[q] \in Nat /\ wt2[q] = wt[q]
    BY <1>1, <1>4, <1>7, RowsAreFinite
  <2> QED BY <2>1, SumSame
<1>8. Stands(d, tr, r) = w
  BY DEF Stands
<1>9. ASSUME NEW v \in Works PROVE Val(d2.daily[v]) = Sum(wt2, Here(d2, wt2, tr, v))
  <2> DEFINE S == Here(d, wt, tr, v)
             S2 == Here(d2, wt2, tr, v)
  <2>1. S \in SUBSET Row /\ S2 \in SUBSET Row /\ Val(d.daily[v]) = Sum(wt, S)
    BY DEF Here, Views
  <2>2. CASE v # w
    <3>1. S2 = S /\ r \notin S
      BY <1>4, <1>5, <1>8, <2>2 DEF Here
    <3>2. d2.daily[v] = d.daily[v]
      BY <1>1, <1>3, <2>2, PlainParts
    <3> HIDE DEF S, S2
    <3>3. Sum(wt2, S) = Sum(wt, S)
      BY <1>7, <2>1, <3>1
    <3> QED BY <2>1, <3>1, <3>2, <3>3 DEF S2
  <2>3. CASE v = w
    <3> DEFINE rest == S \ {r}
    <3>1. r \in S2 /\ S2 \ {r} = rest
      <4>1. wt2[r] > 0
        BY <1>1, <1>4
      <4> QED BY <1>4, <1>5, <1>8, <2>3, <4>1 DEF Here
    <3>2. wt[r] > 0 => r \in S
      BY <1>8, <2>3 DEF Here
    <3>3. wt[r] = 0 => rest = S
      BY DEF Here
    <3> HIDE DEF S, S2
    <3>4. Sum(wt2, S2) = wt2[r] + Sum(wt2, rest)
      <4>1. IsFiniteSet(S2) /\ \A q \in S2 : wt2[q] \in Nat
        BY <1>4, <2>1, RowsAreFinite
      <4> QED BY <3>1, <4>1, SumTakesOff
    <3>5. rest \in SUBSET Row /\ r \notin rest
      BY <2>1
    <3>6. Sum(wt, rest) \in Nat
      BY <1>1, <3>5, RowSums
    <3>7. Sum(wt, S) = wt[r] + Sum(wt, rest)
      <4>1. CASE wt[r] = 0
        BY <3>3, <3>6, <4>1
      <4>2. CASE wt[r] # 0
        <5>1. r \in S
          <6>1. wt[r] > 0
            BY <1>1, <4>2
          <6> QED BY <3>2, <6>1
        <5>2. IsFiniteSet(S) /\ \A q \in S : wt[q] \in Nat
          BY <1>1, <2>1, RowsAreFinite
        <5> QED BY <5>1, <5>2, SumTakesOff
      <4> QED BY <4>1, <4>2
    <3>8. Sum(wt2, rest) = Sum(wt, rest)
      BY <1>7, <3>5
    <3> HIDE DEF rest
    <3>9. Val(d2.daily[v]) = Val(d.daily[v]) + 1
      <4>1. d.daily[w] \in Bucket /\ d2.daily[w] = Plus(d.daily[w], 1)
        BY <1>1, <1>3, PlainParts
      <4> QED BY <2>3, <4>1 DEF Val, Plus, Bucket, NoBucket
    <3>10. wt[r] \in Nat
      BY <1>1
    <3>11. Sum(wt2, S2) = (wt[r] + Sum(wt, rest)) + 1
      BY <1>4, <3>4, <3>6, <3>8, <3>10
    <3> QED BY <2>1, <3>7, <3>9, <3>11 DEF S2
  <2> QED BY <2>2, <2>3
<1>10. ASSUME NEW g \in DOMAIN d2.folds, ~d2.folds[g].undone
       PROVE  Val(d2.folds[g].bucket) = Sum(wt2, CarriedBy(tr, g))
  <2>1. CarriedBy(tr, g) \in SUBSET Row /\ r \notin CarriedBy(tr, g)
    BY DEF CarriedBy, Range
  <2>2. Sum(wt2, CarriedBy(tr, g)) = Sum(wt, CarriedBy(tr, g))
    BY <1>7, <2>1
  <2> QED BY <1>3, <1>10, <2>2 DEF Views
<1>11. Views(d2, wt2, tr)
  BY <1>3, <1>6, <1>9, <1>10 DEF Views
<1> QED
  BY <1>11 DEF d2, wt2

(* What an undo leaves of the views, bucket by bucket.                     *)
LEMMA ViewsUndone ==
  ASSUME NEW d, NEW wt, NEW tr, Views(d, wt, tr), NEW f \in DOMAIN d.folds, ~d.folds[f].undone,
         NewestOfItsWork(d, f), NEW u, TakesBack(d, f, u), ViewsBack(d, f, u)
  PROVE  Views(u, wt, ShortenTrails(tr, f))
<1> DEFINE tr2 == ShortenTrails(tr, f)
           T == CarriedBy(tr, f)
           n == d.folds[f].bucket
           old == Old(d, f)
           H(w) == Here(d, wt, tr, w)
           H2(w) == Here(u, wt, tr2, w)
           C(g) == CarriedBy(tr, g)
           C2(g) == CarriedBy(tr2, g)
<1>1. /\ TrailsOK(d, wt, tr) /\ d.table = "daily" /\ d \in PlainDb /\ wt \in [Row -> Nat]
      /\ \A r \in Row : d.at[r] = 0
      /\ \A g \in DOMAIN d.folds : d.folds[g].moved = {}
      /\ \A w \in Works : Val(d.daily[w]) = Sum(wt, H(w))
      /\ \A g \in DOMAIN d.folds : ~d.folds[g].undone => Val(d.folds[g].bucket) = Sum(wt, C(g))
  BY DEF Views, TrailsOK
<1>2. /\ DOMAIN u.folds = DOMAIN d.folds /\ DOMAIN d.folds = 1 .. Len(d.folds) /\ Len(d.folds) \in Nat
      /\ u.table = "daily" /\ u \in PlainDb /\ f \in Nat
      /\ \A g \in DOMAIN d.folds : /\ u.folds[g].undone = (d.folds[g].undone \/ g = f)
                                   /\ u.folds[g].moved = {}
      /\ \A r \in Row : u.at[r] = 0
  <2>1. DOMAIN d.folds = 1 .. Len(d.folds) /\ Len(d.folds) \in Nat /\ DOMAIN u.folds = 1 .. Len(u.folds)
    BY <1>1, PlainParts DEF TakesBack
  <2>2. u.at = BackAt(d, f, {})
    BY <1>1 DEF TakesBack
  <2> QED BY <1>1, <2>1, <2>2 DEF TakesBack, BackAt
<1>3. /\ TrailsOK(u, wt, tr2)
      /\ \A r \in Row :
              /\ Stands(u, tr2, r) = IF f \in Range(tr[r]) THEN old ELSE Stands(d, tr, r)
              /\ Range(tr2[r]) = IF f \in Range(tr[r]) THEN {g \in Range(tr[r]) : g < f} ELSE Range(tr[r])
  <2>1. TrailsOK(d, wt, tr)
    BY <1>1
  <2> QED BY <2>1, TrailsShortened
<1> HIDE DEF tr2
<1>4. /\ \A w : H(w) \in SUBSET Row /\ H2(w) \in SUBSET Row
      /\ \A g : C(g) \in SUBSET Row
      /\ T \in SUBSET Row /\ T = C(f)
      /\ \A r \in T : wt[r] > 0
  <2>1. ASSUME NEW r \in T PROVE wt[r] > 0
    <3>1. tr[r] # <<>>
      BY DEF CarriedBy, Range
    <3> QED BY <1>1, <3>1 DEF TrailsOK, CarriedBy
  <2> QED BY <2>1 DEF Here, CarriedBy
<1>5. \A w : H2(w) = (H(w) \ T) \cup (IF w = old THEN T ELSE {})
  BY <1>3, <1>4 DEF Here, CarriedBy
<1>6. ASSUME NEW g \in DOMAIN d.folds, g # f
      PROVE  C2(g) = IF g < f THEN C(g) ELSE C(g) \ T
  BY <1>3 DEF CarriedBy
<1>7. Val(n) = Sum(wt, T) /\ n \in Bucket /\ old \in Works
  <2>1. d.folds[f] \in PlainFold
    BY <1>1, PlainParts
  <2> QED BY <1>1, <1>4, <2>1 DEF PlainFold, Old
<1>8. PICK at \in Works, through \in SUBSET ((f + 1) .. Len(d.folds)) :
        /\ \E a, t : Walks(d, f, Summed(d), a, t)
                     /\ at = a[Len(d.folds) - f] /\ through = t[Len(d.folds) - f]
        /\ n = NoBucket => u.daily = d.daily /\ \A g \in DOMAIN d.folds : u.folds[g].bucket = d.folds[g].bucket
        /\ n # NoBucket =>
              /\ u.daily = Returned(d.daily, at, old, n)
              /\ \A g \in DOMAIN d.folds :
                   u.folds[g].bucket = IF g \in through THEN Less(d.folds[g].bucket, n)
                                       ELSE d.folds[g].bucket
  BY DEF ViewsBack
<1>9. \A w \in Works : d.daily[w] \in Bucket
  BY <1>1, PlainParts
<1>10. \A g \in DOMAIN d.folds : d.folds[g].bucket \in Bucket
  <2> SUFFICES ASSUME NEW g \in DOMAIN d.folds PROVE d.folds[g].bucket \in Bucket
    OBVIOUS
  <2>1. d.folds[g] \in PlainFold
    BY <1>1, PlainParts
  <2> QED BY <2>1 DEF PlainFold
(* The walk follows the trail of each row the fold carried.                *)
<1>11. ASSUME NEW r \in T
       PROVE  at = Stands(d, tr, r) /\ through = {g \in Range(tr[r]) : g > f}
  <2> DEFINE way == tr[r]
  <2>1. r \in Row /\ f \in Range(way)
    BY DEF CarriedBy
  <2>2. PICK p \in DOMAIN way : way[p] = f
    BY <2>1 DEF Range
  <2>3. Leads(d, way) /\ \A g \in Range(way) : g \in DOMAIN d.folds /\ ~d.folds[g].undone
    BY <1>1, <2>1, TrailParts
  <2>4. ASSUME NEW g \in Range(way) PROVE g \in Summed(d)
    <3>1. g \in DOMAIN d.folds /\ Val(d.folds[g].bucket) = Sum(wt, C(g))
      BY <1>1, <2>3
    <3>2. r \in C(g)
      BY <2>1 DEF CarriedBy
    <3>3. Sum(wt, C(g)) > 0
      <4> HIDE DEF C, T
      <4>1. wt[r] > 0 /\ C(g) \in SUBSET Row
        BY <1>4
      <4> QED BY <1>1, <3>2, <4>1, RowSums
    <3>4. d.folds[g].bucket # NoBucket
      BY <3>1, <3>3 DEF Val
    <3> QED BY <3>1, <3>4 DEF Summed
  <2>5. PICK a, t : Walks(d, f, Summed(d), a, t)
                    /\ at = a[Len(d.folds) - f] /\ through = t[Len(d.folds) - f]
    BY <1>8
  <2> HIDE DEF way
  <2>6. Beyond(way, way[p]) \subseteq Summed(d) /\ Walks(d, way[p], Summed(d), a, t)
    BY <2>2, <2>4, <2>5 DEF Beyond
  <2>7. /\ a[Len(d.folds) - way[p]] = d.folds[way[Len(way)]].new
        /\ t[Len(d.folds) - way[p]] = Beyond(way, way[p])
    BY <1>1, <2>2, <2>3, <2>6, WalkFollows
  <2>8. way # <<>>
    BY <1>1, <2>2, <2>3, WayParts
  <2> QED BY <2>2, <2>5, <2>7, <2>8 DEF Beyond, Stands, way
<1> HIDE DEF T, n, old, H, H2, C, C2
<1>12. CASE T = {}
  <2>1. Val(n) = 0
    BY <1>1, <1>7, <1>12, RowSums
  <2>2. \A w : H2(w) = H(w)
    BY <1>5, <1>12
  <2>3. \A g \in DOMAIN d.folds : g # f => C2(g) = C(g)
    BY <1>6, <1>12
  <2>4. n = NoBucket \/ n = 0
    BY <2>1 DEF Val
  <2>5. ASSUME NEW w \in Works PROVE Val(u.daily[w]) = Val(d.daily[w])
    <3>1. CASE n = NoBucket
      BY <1>8, <3>1
    <3>2. CASE n = 0
      <4> DEFINE left == Less(d.daily[at], n)
                 taken == [d.daily EXCEPT ![at] = IF left = 0 THEN NoBucket ELSE left]
      <4>1. n # NoBucket
        BY <3>2 DEF NoBucket
      <4>2. u.daily = [taken EXCEPT ![old] = Plus(taken[old], n)]
        BY <1>8, <4>1 DEF Returned
      <4>3. d.daily \in [Works -> Bucket] /\ d.daily[at] \in Bucket
        BY <1>1, <1>9, PlainParts
      <4>4. \A v \in Works : Val(taken[v]) = Val(d.daily[v]) /\ (taken[v] = NoBucket \/ taken[v] \in Nat)
        <5>1. left = (IF d.daily[at] > 0 THEN d.daily[at] ELSE 0)
          BY <3>2, <4>3 DEF Less, Bucket, NoBucket
        <5>2. Val(IF left = 0 THEN NoBucket ELSE left) = Val(d.daily[at])
              /\ ((IF left = 0 THEN NoBucket ELSE left) = NoBucket
                  \/ (IF left = 0 THEN NoBucket ELSE left) \in Nat)
          <6> HIDE DEF left
          <6> QED BY <4>3, <5>1 DEF Val, Bucket, NoBucket
        <5> HIDE DEF left
        <5> QED BY <1>9, <4>3, <5>2 DEF Bucket
      <4>5. u.daily[w] = IF w = old THEN Plus(taken[old], n) ELSE taken[w]
        <5>1. DOMAIN taken = Works
          BY <4>3
        <5> HIDE DEF taken
        <5> QED BY <4>2, <5>1
      <4> HIDE DEF taken
      <4>6. Val(Plus(taken[old], n)) = Val(taken[old])
        BY <1>7, <3>2, <4>4 DEF Val, Plus, NoBucket
      <4> QED BY <1>7, <4>4, <4>5, <4>6
    <3> QED BY <2>4, <3>1, <3>2
  <2>6. ASSUME NEW g \in DOMAIN d.folds PROVE Val(u.folds[g].bucket) = Val(d.folds[g].bucket)
    <3>1. CASE n = NoBucket
      BY <1>8, <3>1
    <3>2. CASE n = 0
      <4>1. n # NoBucket
        BY <3>2 DEF NoBucket
      <4>2. u.folds[g].bucket = IF g \in through THEN Less(d.folds[g].bucket, n) ELSE d.folds[g].bucket
        BY <1>8, <4>1
      <4>3. d.folds[g].bucket \in Bucket
        BY <1>10
      <4> QED BY <3>2, <4>2, <4>3 DEF Val, Less, Bucket, NoBucket
    <3> QED BY <2>4, <3>1, <3>2
  <2>7. \A w \in Works : Val(u.daily[w]) = Sum(wt, H2(w))
    BY <1>1, <2>2, <2>5
  <2>8. \A g \in DOMAIN u.folds : ~u.folds[g].undone => Val(u.folds[g].bucket) = Sum(wt, C2(g))
    BY <1>1, <1>2, <2>3, <2>6
  <2> QED BY <1>2, <1>3, <2>7, <2>8 DEF Views, H2, C2, tr2
<1>13. CASE T # {}
  <2>1. PICK r0 \in T : TRUE
    BY <1>13
  <2>2. \A r \in T : Stands(d, tr, r) = at /\ r \in H(at)
    BY <1>4, <1>11 DEF H, Here
  <2>3. T \in SUBSET H(at) /\ H(at) \in SUBSET Row /\ Sum(wt, T) \in Nat /\ Sum(wt, T) > 0
    BY <1>1, <1>4, <2>1, <2>2, RowSums
  <2>4. n \in Nat /\ n = Sum(wt, T) /\ n # NoBucket
    BY <1>7, <2>3 DEF Val, Bucket, NoBucket
  <2>5. ASSUME NEW w \in Works, w # at PROVE H(w) \ T = H(w)
    <3>1. \A r \in T : r \notin H(w)
      BY <2>2, <2>5 DEF H, Here
    <3> QED BY <3>1
  <2>6. Sum(wt, H(at)) = Sum(wt, H(at) \ T) + n /\ Sum(wt, H(at) \ T) \in Nat
    <3>1. H(at) \ T \in SUBSET Row
      BY <2>3
    <3> QED BY <1>1, <2>3, <2>4, <3>1, RowSums
  <2> DEFINE left == Less(d.daily[at], n)
             taken == [d.daily EXCEPT ![at] = IF left = 0 THEN NoBucket ELSE left]
  <2>7. u.daily = [taken EXCEPT ![old] = Plus(taken[old], n)]
    BY <1>8, <2>4 DEF Returned
  <2>8. left = Sum(wt, H(at) \ T)
    <3>1. Val(d.daily[at]) = Sum(wt, H(at))
      BY <1>1
    <3>2. Sum(wt, H(at)) > 0
      BY <2>3, <2>4, <2>6
    <3>3. d.daily[at] = Sum(wt, H(at))
      BY <3>1, <3>2 DEF Val
    <3> QED BY <2>3, <2>4, <2>6, <3>3 DEF Less
  <2>9. /\ taken \in [Works -> Bucket]
        /\ \A w \in Works : Val(taken[w]) = Sum(wt, H(w) \ T)
    <3>1. d.daily \in [Works -> Bucket]
      BY <1>1, PlainParts
    <3>2. left \in Nat
      BY <2>6, <2>8
    <3>3. Val(IF left = 0 THEN NoBucket ELSE left) = left /\ (IF left = 0 THEN NoBucket ELSE left) \in Bucket
      <4> HIDE DEF left
      <4> QED BY <3>2 DEF Val, Bucket, NoBucket
    <3> HIDE DEF left
    <3>4. taken \in [Works -> Bucket]
      BY <3>1, <3>3
    <3>5. taken[at] = (IF left = 0 THEN NoBucket ELSE left) /\ \A w \in Works : w # at => taken[w] = d.daily[w]
      BY <3>1
    <3> HIDE DEF taken
    <3>6. ASSUME NEW w \in Works PROVE Val(taken[w]) = Sum(wt, H(w) \ T)
      <4>1. CASE w = at
        BY <2>8, <3>3, <3>5, <4>1
      <4>2. CASE w # at
        BY <1>1, <2>5, <3>5, <4>2
      <4> QED BY <4>1, <4>2
    <3> QED BY <3>4, <3>6
  <2> HIDE DEF left, taken
  <2>10. ASSUME NEW w \in Works PROVE Val(u.daily[w]) = Sum(wt, H2(w))
    <3>1. u.daily[w] = IF w = old THEN Plus(taken[old], n) ELSE taken[w]
      BY <1>7, <2>7, <2>9
    <3>2. CASE w # old
      <4>1. H2(w) = H(w) \ T
        BY <1>5, <3>2
      <4> QED BY <2>9, <3>1, <3>2, <4>1
    <3>3. CASE w = old
      <4>1. H2(w) = (H(w) \ T) \cup T
        BY <1>5, <3>3
      <4>2. H2(w) \in SUBSET Row /\ T \in SUBSET (H2(w)) /\ H2(w) \ T = H(w) \ T
        BY <1>4, <4>1
      <4>3. Sum(wt, H2(w)) = Sum(wt, H(w) \ T) + n
        BY <1>1, <2>4, <4>2, RowSums
      <4>4. Val(Plus(taken[old], n)) = Val(taken[old]) + n
        <5>1. taken[old] \in Bucket
          BY <1>7, <2>9
        <5> QED BY <2>4, <5>1 DEF Val, Plus, Bucket, NoBucket
      <4> QED BY <2>9, <3>1, <3>3, <4>3, <4>4
    <3> QED BY <3>2, <3>3
  <2>11. ASSUME NEW g \in DOMAIN d.folds, ~u.folds[g].undone
         PROVE  Val(u.folds[g].bucket) = Sum(wt, C2(g))
    <3>0. g \in 1 .. Len(d.folds) /\ Len(d.folds) \in Nat
      BY <1>2
    <3>10. g \in Nat
      BY <3>0
    <3>11. u.folds[g].undone = (d.folds[g].undone \/ g = f)
      BY <1>2
    <3>12. ~(d.folds[g].undone \/ g = f)
      BY <2>11, <3>11
    <3>1. ~d.folds[g].undone /\ g # f /\ g \in Nat
      BY <3>10, <3>12
    <3>2. /\ u.folds[g].bucket = IF g \in through THEN Less(d.folds[g].bucket, n) ELSE d.folds[g].bucket
          /\ d.folds[g].bucket \in Bucket /\ Val(d.folds[g].bucket) = Sum(wt, C(g))
      BY <1>1, <1>8, <1>10, <2>4, <3>1
    <3>3. CASE g < f
      <4>1. g \notin through
        BY <1>2, <3>1, <3>3
      <4>2. C2(g) = C(g)
        BY <1>6, <3>1, <3>3
      <4> QED BY <3>2, <4>1, <4>2
    <3>4. CASE g > f /\ g \in through
      <4>1. T \in SUBSET (C(g)) /\ C2(g) = C(g) \ T
        <5>1. \A r \in T : g \in Range(tr[r])
          BY <1>11, <3>4
        <5>2. C2(g) = C(g) \ T
          BY <1>2, <1>6, <3>1, <3>4
        <5> QED BY <1>4, <5>1, <5>2 DEF C, CarriedBy
      <4>2. Sum(wt, C(g)) = Sum(wt, C2(g)) + n /\ Sum(wt, C2(g)) \in Nat
        <5>1. C(g) \in SUBSET Row /\ C2(g) \in SUBSET Row
          BY <1>4, <4>1
        <5> QED BY <1>1, <2>4, <4>1, <5>1, RowSums
      <4>3. d.folds[g].bucket = Sum(wt, C(g))
        BY <2>3, <2>4, <3>2, <4>2 DEF Val
      <4>4. u.folds[g].bucket = Sum(wt, C2(g))
        BY <2>4, <3>2, <3>4, <4>2, <4>3 DEF Less
      <4> QED BY <4>2, <4>4 DEF Val, NoBucket
    <3>5. CASE g > f /\ g \notin through
      <4>1. \A r \in T : r \notin C(g)
        BY <1>11, <3>5 DEF C, CarriedBy
      <4>2. C2(g) = C(g)
        BY <1>2, <1>6, <3>1, <3>5, <4>1
      <4> QED BY <3>2, <3>5, <4>2
    <3>6. g < f \/ g > f
      BY <1>2, <3>1
    <3> QED BY <3>3, <3>4, <3>5, <3>6
  <2> QED BY <1>2, <1>3, <2>10, <2>11 DEF Views, H2, C2, tr2
<1> QED
  BY <1>12, <1>13


-----------------------------------------------------------------------------
(* What users have left on a work is counted user by user or row by row.   *)
SumsByUser(wt, w, g) ==
    g = [s \in SUBSET Users |-> IF s = {} THEN 0 ELSE wt[<<Pick(s), w>>] + g[s \ {Pick(s)}]]

UserSum(wt, w) == CHOOSE g : SumsByUser(wt, w, g)

LEMMA UserSumIsIt ==
  ASSUME NEW wt, NEW w
  PROVE  MapThenSumSet(LAMBDA u : wt[<<u, w>>], Users) = UserSum(wt, w)[Users]
BY DEF MapThenSumSet, MapThenFoldSet, UserSum, SumsByUser, Pick

LEMMA UserByUser ==
  ASSUME NEW wt \in [Row -> Nat], NEW w \in Works
  PROVE  MapThenSumSet(LAMBDA u : wt[<<u, w>>], Users)
            = Sum(wt, {r \in Row : wt[r] > 0 /\ Origin(r) = w})
<1> DEFINE f == [u \in Users |-> wt[<<u, w>>]]
           Left(T) == {r \in Row : wt[r] > 0 /\ Origin(r) = w /\ User(r) \in T}
           Good == {T \in SUBSET Users : Sum(f, T) = Sum(wt, Left(T))}
<1>1. IsFiniteSet(Users) /\ \A T \in SUBSET Users : IsFiniteSet(T)
  BY WorksOK, FS_Subset
<1>2. \A u \in Users : f[u] = wt[<<u, w>>] /\ f[u] \in Nat /\ <<u, w>> \in Row
  BY DEF Row
<1> HIDE DEF f
<1>3. MapThenSumSet(LAMBDA u : wt[<<u, w>>], Users) = Sum(f, Users)
  <2>1. PICK g \in [SUBSET Users -> Nat] : Adds(f, Users, g)
    BY <1>1, <1>2, AdderExists
  <2>2. ASSUME NEW s \in SUBSET Users
        PROVE  (IF s = {} THEN 0 ELSE f[Pick(s)] + g[s \ {Pick(s)}])
                  = (IF s = {} THEN 0 ELSE wt[<<Pick(s), w>>] + g[s \ {Pick(s)}])
    <3>1. s # {} => Pick(s) \in Users
      BY DEF Pick
    <3> QED BY <1>2, <3>1
  <2>3. SumsByUser(wt, w, g)
    BY <2>1, <2>2 DEF Adds, SumsByUser
  <2> DEFINE h == UserSum(wt, w)
  <2>4. SumsByUser(wt, w, h)
    BY <2>3 DEF UserSum
  <2> HIDE DEF h
  <2>5. ASSUME NEW s \in SUBSET Users
        PROVE  (IF s = {} THEN 0 ELSE f[Pick(s)] + h[s \ {Pick(s)}])
                  = (IF s = {} THEN 0 ELSE wt[<<Pick(s), w>>] + h[s \ {Pick(s)}])
    <3>1. s # {} => Pick(s) \in Users
      BY DEF Pick
    <3> QED BY <1>2, <3>1
  <2>6. Adds(f, Users, h)
    BY <2>4, <2>5 DEF Adds, SumsByUser
  <2>7. Sum(f, Users) = h[Users]
    BY <1>1, <2>6, SumFound
  <2> QED BY <2>7, UserSumIsIt DEF h
<1>4. ASSUME NEW T \in SUBSET Users, \A U \in SUBSET T : U # T => U \in Good
      PROVE  T \in Good
  <2>0. \A U \in SUBSET Users : Left(U) \in SUBSET Row
    OBVIOUS
  <2>1. CASE T = {}
    <3>1. Left(T) = {}
      BY <2>1
    <3>2. Sum(f, T) = 0
      BY <1>1, <2>1, SumTakesOff
    <3>3. Sum(wt, {}) = 0
      BY RowSums
    <3> QED BY <3>1, <3>2, <3>3
  <2>2. CASE T # {}
    <3>1. PICK a \in T : TRUE
      BY <2>2
    <3> DEFINE U == T \ {a}
               one == {r \in {<<a, w>>} : wt[r] > 0}
    <3>2. U \in SUBSET Users /\ U # T /\ U \in SUBSET T /\ a \in Users
      BY <3>1
    <3>3. Sum(f, U) = Sum(wt, Left(U))
      BY <1>4, <3>2
    <3>4. Sum(f, T) = f[a] + Sum(f, U)
      <4>1. IsFiniteSet(T) /\ \A x \in T : f[x] \in Nat
        BY <1>1, <1>2
      <4> HIDE DEF f
      <4> QED BY <3>1, <4>1, SumTakesOff
    <3>5. Left(T) \ one = Left(U) /\ one \in SUBSET Left(T)
      BY <1>2, <3>1 DEF Row, Origin, User
    <3>6. Sum(wt, Left(T)) = Sum(wt, Left(U)) + Sum(wt, one)
      <4> HIDE DEF Left, one, U
      <4> QED BY <2>0, <3>5, RowSums
    <3>7. Sum(wt, one) = wt[<<a, w>>]
      <4>1. <<a, w>> \in Row /\ wt[<<a, w>>] \in Nat
        BY <1>2, <3>2
      <4>2. CASE wt[<<a, w>>] = 0
        <5>1. one = {}
          BY <4>2
        <5> HIDE DEF one
        <5> QED BY <4>2, <5>1, RowSums
      <4>3. CASE wt[<<a, w>>] # 0
        <5>1. one = {<<a, w>>}
          BY <4>1, <4>3
        <5>2. IsFiniteSet({<<a, w>>}) /\ {<<a, w>>} \ {<<a, w>>} = {}
          BY FS_Singleton
        <5>3. Sum(wt, {<<a, w>>}) = wt[<<a, w>>] + Sum(wt, {}) /\ Sum(wt, {}) = 0
          BY <4>1, <5>2, SumTakesOff
        <5> QED BY <4>1, <5>1, <5>3
      <4> QED BY <4>2, <4>3
    <3>8. f[a] = wt[<<a, w>>] /\ f[a] \in Nat /\ Sum(wt, Left(U)) \in Nat
      <4>1. Left(U) \in SUBSET Row
        BY <2>0, <3>2
      <4> HIDE DEF Left, U
      <4> QED BY <1>2, <3>2, <4>1, RowSums
    <3>9. Sum(f, T) = Sum(wt, Left(T))
      <4> HIDE DEF Left, one, U
      <4> QED BY <3>3, <3>4, <3>6, <3>7, <3>8
    <3> QED BY <3>9
  <2> QED BY <2>1, <2>2
<1>5. Users \in Good
  <2> HIDE DEF Good
  <2>1. \A T \in SUBSET Users : T \in Good
    BY <1>1, <1>4, SubsetInduction
  <2> QED BY <2>1
<1>6. Left(Users) = {r \in Row : wt[r] > 0 /\ Origin(r) = w}
  BY DEF Row, User
<1> QED
  BY <1>3, <1>5, <1>6

-----------------------------------------------------------------------------
(* The invariant of the behaviours about resources, and about views.       *)
LedgerInv ==
    /\ removals \in Nat
    /\ db.table \in {"resource", "daily"}
    /\ db.table = "resource" => Resources(db, weight, trail, removals)
    /\ db.table = "daily" => Views(db, weight, trail)

LEMMA NoFoldsYet ==
  ASSUME NEW d \in PlainDb, d.folds = <<>>, NEW wt \in [Row -> {0, 1}],
         NEW tr, tr = [r \in Row |-> <<>>]
  PROVE  TrailsOK(d, wt, tr) /\ \A r \in Row : Stands(d, tr, r) = Origin(r) /\ Range(tr[r]) = {}
<1>2. wt \in [Row -> Nat]
  OBVIOUS
<1>3. tr \in [Row -> Seq(Nat)] /\ \A r \in Row : tr[r] = <<>>
  OBVIOUS
<1>4. Leads(d, <<>>)
  BY DEF Leads
<1> QED
  BY <1>2, <1>3, <1>4 DEF TrailsOK, Stands, Range

LEMMA LedgerStarts ==
  Init /\ db.table \in {"resource", "daily"} => LedgerInv
<1> SUFFICES ASSUME Init, db.table \in {"resource", "daily"} PROVE LedgerInv
  OBVIOUS
<1> DEFINE left(w) == MapThenSumSet(LAMBDA u : weight[<<u, w>>], Users)
<1>1. PICK t \in Tables, local \in SUBSET Works :
        /\ weight \in [Row -> {0, 1}]
        /\ db = [table |-> t,
                 at    |-> [r \in Row |-> IF RowTable(t) /\ weight[r] = 1 THEN Origin(r) ELSE 0],
                 count |-> [r \in Row |-> IF t = "contributor" THEN weight[r] ELSE 0],
                 daily |-> [w \in Works |-> IF t = "daily" /\ left(w) > 0 THEN left(w) ELSE NoBucket],
                 local |-> [w \in Works |-> IF w \in local
                              THEN [view |-> IF t = "work" THEN left(w) ELSE 0, published |-> FALSE]
                              ELSE NoRow],
                 folds |-> <<>>]
  BY DEF Init
<1>2. trail = [r \in Row |-> <<>>] /\ removals = 0 /\ weight \in [Row -> Nat]
  BY <1>1 DEF Init
<1>3. \A w \in Works : left(w) = Sum(weight, {r \in Row : weight[r] > 0 /\ Origin(r) = w})
  <2>1. ASSUME NEW w \in Works
        PROVE  MapThenSumSet(LAMBDA u : weight[<<u, w>>], Users)
                 = Sum(weight, {r \in Row : weight[r] > 0 /\ Origin(r) = w})
    BY <1>2, UserByUser
  <2> QED BY <2>1
<1>4. \A w \in Works : left(w) \in Nat
  <2>1. \A w : {r \in Row : weight[r] > 0 /\ Origin(r) = w} \in SUBSET Row
    OBVIOUS
  <2> HIDE DEF left
  <2> QED BY <1>2, <1>3, <2>1, RowSums
<1> HIDE DEF left
<1>5. /\ db.table = t /\ db.folds = <<>> /\ t \in {"resource", "daily"}
      /\ db.at = [r \in Row |-> IF RowTable(t) /\ weight[r] = 1 THEN Origin(r) ELSE 0]
      /\ db.daily = [w \in Works |-> IF t = "daily" /\ left(w) > 0 THEN left(w) ELSE NoBucket]
      /\ db.count = [r \in Row |-> IF t = "contributor" THEN weight[r] ELSE 0]
      /\ db.local = [w \in Works |-> IF w \in local THEN [view |-> IF t = "work" THEN left(w) ELSE 0, published |-> FALSE]
                                     ELSE NoRow]
  BY <1>1
<1>6. db = [table |-> t, at |-> db.at, count |-> db.count, daily |-> db.daily,
            local |-> db.local, folds |-> <<>>]
  BY <1>1, <1>5
<1>7. /\ db.at \in [Row -> Works \cup {0}] /\ db.count \in [Row -> Int]
      /\ db.daily \in [Works -> Bucket] /\ db.local \in [Works -> Snap]
  <2>1. \A r \in Row : Origin(r) \in Works /\ weight[r] \in Int
    BY <1>2 DEF Row, Origin
  <2>2. db.at \in [Row -> Works \cup {0}] /\ db.count \in [Row -> Int]
    BY <1>5, <2>1
  <2>3. db.daily \in [Works -> Bucket]
    BY <1>4, <1>5 DEF Bucket
  <2>4. db.local \in [Works -> Snap]
    <3>0. NoRow \in Snap
      BY DEF NoRow, Snap
    <3>1. \A w \in Works : db.local[w] = IF w \in local THEN [view |-> 0, published |-> FALSE] ELSE NoRow
      BY <1>5
    <3>2. [view |-> 0, published |-> FALSE] \in Snap
      BY DEF Snap
    <3>3. \A w \in Works : db.local[w] \in Snap
      BY <3>0, <3>1, <3>2
    <3> QED BY <1>5, <3>3
  <2> QED BY <2>2, <2>3, <2>4
<1>8. /\ TrailsOK(db, weight, trail)
      /\ \A r \in Row : Stands(db, trail, r) = Origin(r) /\ Range(trail[r]) = {}
  <2>1. <<>> \in Seq(PlainFold) /\ t \in PlainTables
    BY <1>5 DEF PlainTables
  <2>2. db \in PlainDb
    <3>1. PICK at \in [Row -> Works \cup {0}], count \in [Row -> Int],
               daily \in [Works -> Bucket], local2 \in [Works -> Snap] :
            db = [table |-> t, at |-> at, count |-> count, daily |-> daily,
                  local |-> local2, folds |-> <<>>]
      BY <1>6, <1>7, Zenon
    <3> QED BY <2>1, <3>1 DEF PlainDb
  <2> QED BY <1>1, <1>2, <1>5, <2>2, NoFoldsYet
<1>9. DOMAIN db.folds = {}
  BY <1>5
<1>10. db.table = "resource" => Resources(db, weight, trail, removals)
  <2> SUFFICES ASSUME db.table = "resource" PROVE Resources(db, weight, trail, removals)
    OBVIOUS
  <2>1. \A r \in Row : db.at[r] = IF weight[r] > 0 THEN Stands(db, trail, r) ELSE 0
    <3>1. \A r \in Row : weight[r] \in {0, 1}
      BY <1>1
    <3>2. RowTable(t)
      BY <1>5 DEF RowTable
    <3> QED BY <1>5, <1>8, <3>1, <3>2
  <2> QED BY <1>1, <1>8, <1>9, <2>1 DEF Resources
<1>11. db.table = "daily" => Views(db, weight, trail)
  <2> SUFFICES ASSUME db.table = "daily" PROVE Views(db, weight, trail)
    OBVIOUS
  <2>1. \A r \in Row : db.at[r] = 0
    BY <1>5 DEF RowTable
  <2>2. ASSUME NEW w \in Works PROVE Val(db.daily[w]) = Sum(weight, Here(db, weight, trail, w))
    <3>1. Here(db, weight, trail, w) = {r \in Row : weight[r] > 0 /\ Origin(r) = w}
      BY <1>8 DEF Here
    <3>2. Val(db.daily[w]) = left(w)
      BY <1>4, <1>5 DEF Val, NoBucket
    <3> QED BY <1>3, <3>1, <3>2
  <2> QED BY <1>8, <1>9, <2>1, <2>2 DEF Views
<1> QED
  BY <1>2, <1>5, <1>10, <1>11 DEF LedgerInv

-----------------------------------------------------------------------------
(* MergePages sees the folds, and where things stand, as the ledger does.  *)
StandIn(m, tr, r) == IF tr[r] = <<>> THEN Origin(r) ELSE m[tr[r][Len(tr[r])]].new

LEMMA MergesSeen ==
  ASSUME NEW d \in PlainDb
  PROVE  /\ Len(Merges(d)) = Len(d.folds) /\ DOMAIN Merges(d) = DOMAIN d.folds
         /\ Merges(d) \in Seq([old : Works, new : Works, undone : BOOLEAN])
         /\ \A i \in DOMAIN d.folds : /\ Merges(d)[i].old = d.folds[i].old
                                      /\ Merges(d)[i].new = d.folds[i].new
                                      /\ Merges(d)[i].undone = d.folds[i].undone
<1>1. DOMAIN d.folds = 1 .. Len(d.folds) /\ Len(d.folds) \in Nat
  BY PlainParts
<1>2. \A i \in DOMAIN d.folds :
         [old |-> d.folds[i].old, new |-> d.folds[i].new, undone |-> d.folds[i].undone]
            \in [old : Works, new : Works, undone : BOOLEAN]
  BY PlainParts DEF PlainFold
<1>3. Merges(d) \in Seq([old : Works, new : Works, undone : BOOLEAN])
  BY <1>1, <1>2 DEF Merges
<1>4. Len(Merges(d)) = Len(d.folds) /\ DOMAIN Merges(d) = DOMAIN d.folds
  BY <1>1 DEF Merges
<1>5. \A i \in DOMAIN d.folds : /\ Merges(d)[i].old = d.folds[i].old
                                /\ Merges(d)[i].new = d.folds[i].new
                                /\ Merges(d)[i].undone = d.folds[i].undone
  BY DEF Merges
<1> QED
  BY <1>3, <1>4, <1>5

LEMMA StandsSeen ==
  ASSUME NEW d, NEW wt, NEW tr, TrailsOK(d, wt, tr), NEW r \in Row
  PROVE  StandIn(Merges(d), tr, r) = Stands(d, tr, r)
<1>1. d \in PlainDb /\ Leads(d, tr[r])
  BY DEF TrailsOK
<1>2. tr[r] # <<>> => tr[r][Len(tr[r])] \in DOMAIN d.folds
  <2>1. DOMAIN d.folds = 1 .. Len(d.folds)
    BY <1>1, PlainParts
  <2> QED BY <1>1, <2>1, WayParts
<1> QED
  BY <1>1, <1>2, MergesSeen DEF StandIn, Stands

LEMMA CarriedOn ==
  ASSUME TrailsOK(db, weight, trail), NEW x, Pages!Carried(x)
  PROVE  trail' = CarryTrails(db, weight, trail, x)
<1>1. trail' = [r \in Row |-> IF weight[r] > 0 /\ StandIn(Merges(db), trail, r) = x
                              THEN Append(trail[r], Len(Merges(db)) + 1) ELSE trail[r]]
  BY DEF Pages!Carried, Pages!Stand, Pages!Row, Pages!Origin, Row, Origin, StandIn
<1>2. \A r \in Row : StandIn(Merges(db), trail, r) = Stands(db, trail, r)
  BY StandsSeen
<1>3. Len(Merges(db)) = Len(db.folds)
  BY MergesSeen DEF TrailsOK
<1> QED
  BY <1>1, <1>2, <1>3 DEF CarryTrails

LEMMA TakenOff ==
  ASSUME NEW i, Pages!TakenBack(i)
  PROVE  trail' = ShortenTrails(trail, i)
BY DEF Pages!TakenBack, Pages!Row, Row, ShortenTrails

LEMMA LedgerFolds ==
  ASSUME LedgerInv, NEW x \in Works, NEW y \in Works, Fold(x, y)
  PROVE  LedgerInv' /\ CarriesOn(db, x, y, db')
<1>1. db \in PlainDb /\ TrailsOK(db, weight, trail)
  BY DEF LedgerInv, Resources, Views, TrailsOK
<1>2. CarriesOn(db, x, y, db')
  BY <1>1, FoldCarriesOn DEF Fold
<1>3. trail' = CarryTrails(db, weight, trail, x) /\ weight' = weight /\ removals' = removals /\ x # y
  BY <1>1, CarriedOn DEF Fold
<1>4. db'.table = db.table
  BY <1>2 DEF CarriesOn
<1>5. CASE db.table = "resource"
  <2>1. Resources(db, weight, trail, removals)
    BY <1>5 DEF LedgerInv
  <2>2. Resources(db', weight, CarryTrails(db, weight, trail, x), removals)
    BY <1>2, <2>1, ResourcesFolded
  <2> QED BY <1>2, <1>3, <1>4, <1>5, <2>2 DEF LedgerInv
<1>6. CASE db.table = "daily"
  <2>1. Views(db, weight, trail)
    BY <1>6 DEF LedgerInv
  <2>2. Views(db', weight, CarryTrails(db, weight, trail, x))
    BY <1>2, <1>3, <2>1, ViewsFolded
  <2> QED BY <1>2, <1>3, <1>4, <1>6, <2>2 DEF LedgerInv
<1> QED
  BY <1>5, <1>6 DEF LedgerInv

LEMMA LedgerUndoes ==
  ASSUME LedgerInv, NEW x \in Works, Undo(x)
  PROVE  /\ LedgerInv' /\ TakesBack(db, ActiveFold(db, x), db')
         /\ ActiveFold(db, x) \in DOMAIN db.folds
<1> DEFINE f == ActiveFold(db, x)
<1>1. db \in PlainDb
  BY DEF LedgerInv, Resources, Views, TrailsOK
<1>2. f \in DOMAIN db.folds /\ ~db.folds[f].undone /\ db.folds[f].old = x
  BY <1>1, ActiveFoldIsNewest DEF Undo
<1>3. NewestOfItsWork(db, f)
  BY <1>1, <1>2, ActiveFoldIsNewest DEF NewestOfItsWork, Old
<1>4. TakesBack(db, f, db') /\ ViewsBack(db, f, db')
  BY <1>1, <1>2, UnfoldTakesBack DEF Undo
<1> HIDE DEF f
<1>5. trail' = ShortenTrails(trail, f) /\ weight' = weight /\ removals' = removals
  BY TakenOff DEF Undo, f
<1>6. db'.table = db.table
  BY <1>4 DEF TakesBack
<1>7. CASE db.table = "resource"
  <2>1. Resources(db, weight, trail, removals)
    BY <1>7 DEF LedgerInv
  <2>2. Resources(db', weight, ShortenTrails(trail, f), removals)
    BY <1>2, <1>3, <1>4, <2>1, ResourcesUndone
  <2> QED BY <1>2, <1>4, <1>5, <1>6, <1>7, <2>2 DEF LedgerInv, f
<1>8. CASE db.table = "daily"
  <2>1. Views(db, weight, trail)
    BY <1>8 DEF LedgerInv
  <2>2. Views(db', weight, ShortenTrails(trail, f))
    BY <1>2, <1>3, <1>4, <2>1, ViewsUndone
  <2> QED BY <1>2, <1>4, <1>5, <1>6, <1>8, <2>2 DEF LedgerInv, f
<1> QED
  BY <1>7, <1>8 DEF LedgerInv

LEMMA LedgerLeaves ==
  ASSUME LedgerInv, NEW r \in Row, Leave(r)
  PROVE  LedgerInv' /\ db.table = "resource" /\ db'.table = "resource" /\ weight[r] = 0
<1>1. db.table = "resource" /\ weight[r] = 0 /\ removals = 0
  BY DEF LedgerInv, Leave
<1>2. Resources(db, weight, trail, 0)
  BY <1>1 DEF LedgerInv
<1>3. /\ db' = EnsureLocal([db EXCEPT !.at[r] = Origin(r)], Origin(r))
      /\ weight' = [weight EXCEPT ![r] = 1] /\ trail' = trail /\ removals' = 0
  BY <1>1 DEF Leave
<1>4. Resources(db', weight', trail', 0)
  BY <1>1, <1>2, <1>3, ResourceLeft
<1>5. db'.table = "resource"
  BY <1>4 DEF Resources
<1> QED
  BY <1>1, <1>3, <1>4, <1>5 DEF LedgerInv

LEMMA LedgerEdited ==
  ASSUME LedgerInv, NEW u \in Users, NEW w \in Works, Edit(u, w)
  PROVE  /\ LedgerInv' /\ db.table = "daily" /\ db'.table = "daily" /\ <<u, w>> \in Row
         /\ weight' = [weight EXCEPT ![<<u, w>>] = @ + 1]
<1> DEFINE r == <<u, w>>
<1>1. db.table = "daily"
  BY DEF LedgerInv, Edit
<1>2. Views(db, weight, trail) /\ db \in PlainDb /\ TrailsOK(db, weight, trail)
  BY <1>1 DEF LedgerInv, Views, TrailsOK
<1>3. r \in Row /\ Origin(r) = w
  BY DEF Row, Origin
<1>4. trail[r] = <<>>
  <2>1. SUFFICES ASSUME trail[r] # <<>> PROVE FALSE
    OBVIOUS
  <2> HIDE DEF r
  <2>2. Leads(db, trail[r]) /\ db.folds[trail[r][1]].old = w
    BY <1>2, <1>3, <2>1 DEF TrailsOK
  <2>3. 1 \in DOMAIN trail[r] /\ trail[r][1] \in DOMAIN db.folds
    <3>1. DOMAIN db.folds = 1 .. Len(db.folds)
      BY <1>2, PlainParts
    <3> QED BY <1>2, <2>1, <2>2, <3>1, WayParts
  <2>4. ~db.folds[trail[r][1]].undone
    BY <2>2, <2>3 DEF Leads
  <2>5. ActiveFold(db, w) # 0
    BY <1>2, <2>2, <2>3, <2>4, ActiveFoldIsNewest
  <2> QED BY <2>5 DEF Edit
<1>5. /\ db' = [db EXCEPT !.daily[w] = Plus(@, 1)]
      /\ trail' = trail /\ removals' = removals
  BY <1>1 DEF Edit
<1>6. weight' = [weight EXCEPT ![r] = @ + 1]
  BY <1>1 DEF Edit
<1> HIDE DEF r
<1>7. Views(db', weight', trail')
  BY <1>2, <1>3, <1>4, <1>5, <1>6, ViewsEdited
<1>8. db'.table = "daily"
  BY <1>7 DEF Views
<1> QED
  BY <1>1, <1>3, <1>5, <1>6, <1>7, <1>8 DEF LedgerInv, r

LEMMA LedgerTakenFrom ==
  ASSUME LedgerInv, NEW r \in Row, TakeAway(r)
  PROVE  /\ LedgerInv' /\ db.table = "resource" /\ db'.table = "resource" /\ db.at[r] # 0
         /\ weight' = [q \in Row |-> IF q \in {r} THEN 0 ELSE weight[q]]
         /\ trail' = [q \in Row |-> IF q \in {r} THEN <<>> ELSE trail[q]]
         /\ db'.folds = db.folds
<1>1. db.table = "resource" /\ db.at[r] # 0
  BY DEF LedgerInv, TakeAway
<1>2. Resources(db, weight, trail, removals) /\ removals \in Nat
  BY <1>1 DEF LedgerInv
<1>3. /\ db' = [db EXCEPT !.at[r] = 0]
      /\ weight' = [q \in Row |-> IF q \in {r} THEN 0 ELSE weight[q]]
      /\ trail' = [q \in Row |-> IF q \in {r} THEN <<>> ELSE trail[q]]
      /\ removals' = removals + 1
  BY <1>1 DEF TakeAway
<1>4. removals' \in Nat /\ removals' # 0
  BY <1>2, <1>3
<1>5. Resources(db', weight', trail', removals')
  BY <1>2, <1>3, <1>4, ResourceTaken
<1>6. db'.table = "resource"
  BY <1>5 DEF Resources
<1>7. db'.folds = db.folds
  <2>1. db \in PlainDb
    BY <1>2 DEF Resources, TrailsOK
  <2> QED BY <1>3, <2>1 DEF PlainDb
<1> QED
  BY <1>1, <1>3, <1>4, <1>5, <1>6, <1>7 DEF LedgerInv

LEMMA LedgerSteps ==
  LedgerInv /\ [Next]_vars => LedgerInv'
<1> SUFFICES ASSUME LedgerInv, [Next]_vars PROVE LedgerInv'
  OBVIOUS
<1>1. ASSUME NEW x \in Works, NEW y \in Works, Fold(x, y) PROVE LedgerInv'
  BY <1>1, LedgerFolds
<1>2. ASSUME NEW x \in Works, Undo(x) PROVE LedgerInv'
  BY <1>2, LedgerUndoes
<1>3. ASSUME NEW r \in Row, Leave(r) PROVE LedgerInv'
  BY <1>3, LedgerLeaves
<1>4. ASSUME NEW r \in Row, TakeAway(r) PROVE LedgerInv'
  BY <1>4, LedgerTakenFrom
<1>5. ASSUME NEW u \in Users, NEW w \in Works, Edit(u, w) PROVE LedgerInv'
  BY <1>5, LedgerEdited
<1>6. CASE UNCHANGED vars
  BY <1>6 DEF vars, LedgerInv
<1> QED
  BY <1>1, <1>2, <1>3, <1>4, <1>5, <1>6 DEF Next

(* Every reachable state of a behaviour about resources or views.          *)
THEOREM LedgerInvariant ==
  Spec /\ db.table \in {"resource", "daily"} => []LedgerInv
<1>1. Init /\ db.table \in {"resource", "daily"} => LedgerInv
  BY LedgerStarts
<1>2. LedgerInv /\ [Next]_vars => LedgerInv'
  BY LedgerSteps
<1> QED
  BY <1>1, <1>2, PTL DEF Spec

(* Folds and undos in any order, between resources that are added and      *)
(* deleted: the ledgers of the folds in force lead to every row they say   *)
(* they moved.  (No fold moves a row of the day's views.)                  *)
THEOREM LedgersFindRows ==
  Spec /\ db.table \in {"resource", "daily"} => []LedgersLeadToRows
<1>1. LedgerInv => LedgersLeadToRows
  <2> SUFFICES ASSUME LedgerInv, NEW f \in DOMAIN db.folds, ~db.folds[f].undone,
                      NEW r \in db.folds[f].moved, weight[r] > 0
               PROVE  db.at[r] = IF Trace(db, f, r).dropped = 0 THEN Trace(db, f, r).at ELSE 0
    BY DEF LedgersLeadToRows
  <2>1. CASE db.table = "daily"
    BY <2>1 DEF LedgerInv, Views
  <2>2. CASE db.table = "resource"
    <3>1. Resources(db, weight, trail, removals) /\ db \in PlainDb
      BY <2>2 DEF LedgerInv, Resources, TrailsOK
    <3>2. db.folds[f] \in PlainFold
      BY <3>1, PlainParts
    <3>3. r \in Row
      BY <3>2 DEF PlainFold
    <3>4. f \in Range(trail[r])
      BY <3>1, <3>3 DEF Resources
    <3>5. Trace(db, f, r) = [at |-> db.at[r], carried |-> Beyond(trail[r], f), dropped |-> 0]
      BY <3>1, <3>3, <3>4, LedgersLead
    <3> QED BY <3>5
  <2> QED BY <2>1, <2>2 DEF LedgerInv
<1> QED
  BY <1>1, LedgerInvariant, PTL

(* Once every fold is undone, each resource is back on the work it was     *)
(* left on, whatever order they were undone in.                            *)
THEOREM AllComesBack ==
  Spec /\ db.table = "resource" => []AllUndoneAllBack
<1>1. LedgerInv => AllUndoneAllBack
  <2> SUFFICES ASSUME LedgerInv, \A i \in DOMAIN db.folds : db.folds[i].undone,
                      NEW r \in Row, weight[r] > 0, db.table \in {"resource", "like"}
               PROVE  db.at[r] = Origin(r)
    BY DEF AllUndoneAllBack
  <2>1. Resources(db, weight, trail, removals)
    BY DEF LedgerInv
  <2>2. Leads(db, trail[r]) /\ db \in PlainDb
    BY <2>1 DEF Resources, TrailsOK
  <2>3. trail[r] = <<>>
    <3>1. SUFFICES ASSUME trail[r] # <<>> PROVE FALSE
      OBVIOUS
    <3>2. 1 \in DOMAIN trail[r] /\ trail[r][1] \in DOMAIN db.folds
      <4>1. DOMAIN db.folds = 1 .. Len(db.folds)
        BY <2>2, PlainParts
      <4> QED BY <2>2, <3>1, <4>1, WayParts
    <3> QED BY <2>2, <3>2 DEF Leads
  <2> QED BY <2>1, <2>3 DEF Resources, Stands
<1>2. db.table = "resource" => db.table \in {"resource", "daily"}
  OBVIOUS
<1> QED
  BY <1>1, <1>2, LedgerInvariant, PTL

-----------------------------------------------------------------------------
(* The pages of MergePages, as a function of what they are made from.      *)
StandingIn(m, wt, tr, u, w) ==
    {r \in Row : User(r) = u /\ wt[r] > 0 /\ StandIn(m, tr, r) = w}

PageIn(m, wt, tr, once, total) ==
    LET told(u, w) == IF total THEN UNION {StandingIn(m, wt, tr, v, w) : v \in Users}
                      ELSE StandingIn(m, wt, tr, u, w)
    IN  [w \in Works |-> [u \in Users |->
            LET n == Sum(wt, told(u, w)) IN IF once /\ n > 1 THEN 1 ELSE n]]

PageOf(d, wt, tr) ==
    PageIn(Merges(d), wt, tr, d.table = "like", d.table \in {"daily", "work"})

LEMMA PageSeen ==
  /\ Pages!Page = PageOf(db, weight, trail)
  /\ Pages!Page' = PageOf(db', weight', trail')
<1>1. Pages!Page = PageOf(db, weight, trail)
  BY DEF Pages!Page, Pages!Standing, Pages!Stand, Pages!Row, Pages!Origin, Pages!User,
         Pages!MapThenSumSet, Pages!MapThenFoldSet, MapThenSumSet, MapThenFoldSet,
         PageOf, PageIn, StandingIn, StandIn, Row, Origin, User, Sum
<1>2. Pages!Page' = PageOf(db', weight', trail')
  BY DEF Pages!Page, Pages!Standing, Pages!Stand, Pages!Row, Pages!Origin, Pages!User,
         Pages!MapThenSumSet, Pages!MapThenFoldSet, MapThenSumSet, MapThenFoldSet,
         PageOf, PageIn, StandingIn, StandIn, Row, Origin, User, Sum, Merges
<1> QED BY <1>1, <1>2

LEMMA StandingSeen ==
  ASSUME NEW d, NEW wt, NEW tr, TrailsOK(d, wt, tr), NEW u, NEW w
  PROVE  StandingIn(Merges(d), wt, tr, u, w)
            = {r \in Row : User(r) = u /\ wt[r] > 0 /\ Stands(d, tr, r) = w}
BY StandsSeen DEF StandingIn

(* A page of resources counts the rows that are on it.                     *)
LEMMA ResourcePage ==
  ASSUME NEW d, NEW wt, NEW tr, NEW rem, Resources(d, wt, tr, rem)
  PROVE  Shown(d) = PageOf(d, wt, tr)
<1> DEFINE S(u, w) == StandingIn(Merges(d), wt, tr, u, w)
           C(u, w) == {r \in On(d, w) : User(r) = u}
<1>1. TrailsOK(d, wt, tr) /\ d.table = "resource"
  BY DEF Resources
<1>2. Shown(d) = [w \in Works |-> [u \in Users |-> Cardinality(C(u, w))]]
  BY <1>1 DEF Shown
<1>3. PageOf(d, wt, tr) = [w \in Works |-> [u \in Users |-> Sum(wt, S(u, w))]]
  BY <1>1 DEF PageOf, PageIn
<1>4. ASSUME NEW u \in Users, NEW w \in Works PROVE Sum(wt, S(u, w)) = Cardinality(C(u, w))
  <2>1. S(u, w) = {r \in Row : User(r) = u /\ wt[r] > 0 /\ Stands(d, tr, r) = w}
    BY <1>1, StandingSeen
  <2>2. w # 0
    BY WorksOK
  <2>3. S(u, w) = C(u, w)
    BY <2>1, <2>2 DEF Resources, On
  <2>4. \A r \in C(u, w) : wt[r] = 1
    BY <2>1, <2>3 DEF Resources
  <2>5. IsFiniteSet(C(u, w))
    BY RowsAreFinite DEF On
  <2> HIDE DEF S, C
  <2> QED BY <2>3, <2>4, <2>5, SumOfOnes
<1> QED
  BY <1>2, <1>3, <1>4

(* A page of views counts what everybody has left on it.                   *)
LEMMA ViewsPage ==
  ASSUME NEW d, NEW wt, NEW tr, Views(d, wt, tr)
  PROVE  Shown(d) = PageOf(d, wt, tr)
<1> DEFINE T(w) == UNION {StandingIn(Merges(d), wt, tr, v, w) : v \in Users}
<1>1. TrailsOK(d, wt, tr) /\ d.table = "daily"
  BY DEF Views
<1>2. Shown(d) = [w \in Works |-> [u \in Users |-> Val(d.daily[w])]]
  BY <1>1 DEF Shown, Val
<1>3. PageOf(d, wt, tr) = [w \in Works |-> [u \in Users |-> Sum(wt, T(w))]]
  BY <1>1 DEF PageOf, PageIn
<1>4. ASSUME NEW w \in Works PROVE Sum(wt, T(w)) = Val(d.daily[w])
  <2>1. \A v \in Users : StandingIn(Merges(d), wt, tr, v, w)
                            = {r \in Row : User(r) = v /\ wt[r] > 0 /\ Stands(d, tr, r) = w}
    BY <1>1, StandingSeen
  <2>2. \A r \in Row : User(r) \in Users
    BY DEF Row, User
  <2>3. T(w) = Here(d, wt, tr, w)
    BY <2>1, <2>2 DEF Here
  <2> QED BY <2>3 DEF Views
<1> QED
  BY <1>2, <1>3, <1>4

LEMMA PagesShow ==
  /\ LedgerInv => Shown(db) = Pages!Page
  /\ LedgerInv' => Shown(db)' = Pages!Page'
<1>1. LedgerInv => Shown(db) = Pages!Page
  <2>1. LedgerInv => Shown(db) = PageOf(db, weight, trail)
    BY ResourcePage, ViewsPage DEF LedgerInv
  <2> QED BY <2>1, PageSeen
<1>2. LedgerInv' => Shown(db)' = Pages!Page'
  <2>1. LedgerInv' => Shown(db') = PageOf(db', weight', trail')
    BY ResourcePage, ViewsPage DEF LedgerInv
  <2>2. Shown(db)' = Shown(db')
    BY DEF Shown
  <2> QED BY <2>1, <2>2, PageSeen
<1> QED BY <1>1, <1>2

-----------------------------------------------------------------------------
(* Each transaction is a step of MergePages.                               *)
LEMMA TypesOfLedger ==
  ASSUME LedgerInv
  PROVE  db \in PlainDb /\ TrailsOK(db, weight, trail)
BY DEF LedgerInv, Resources, Views, TrailsOK

LEMMA PagesStart ==
  Init /\ db.table \in {"resource", "daily"} => Pages!Init
<1> SUFFICES ASSUME Init, db.table \in {"resource", "daily"} PROVE Pages!Init
  OBVIOUS
<1>1. LedgerInv
  BY LedgerStarts
<1>2. Shown(db) = Pages!Page
  BY <1>1, PagesShow
<1>3. weight \in [Pages!Row -> {0, 1}] /\ trail = [r \in Pages!Row |-> <<>>]
  BY DEF Init, Pages!Row, Row
<1>4. Merges(db) = <<>>
  BY DEF Init, Merges
<1> QED
  BY <1>2, <1>3, <1>4 DEF Pages!Init

LEMMA Appended ==
  ASSUME NEW S, NEW m \in Seq(S), NEW e \in S, NEW n \in Nat, Len(m) = n
  PROVE  /\ DOMAIN Append(m, e) = 1 .. (n + 1) /\ Append(m, e)[n + 1] = e
         /\ \A i \in 1 .. n : Append(m, e)[i] = m[i]
         /\ Append(m, e) = [i \in 1 .. (n + 1) |-> Append(m, e)[i]]
<1>1. /\ Append(m, e) \in Seq(S) /\ Len(Append(m, e)) = n + 1 /\ Append(m, e)[n + 1] = e
      /\ \A i \in 1 .. n : Append(m, e)[i] = m[i]
  BY AppendProperties
<1> DEFINE a == Append(m, e)
<1> HIDE DEF a
<1>2. a \in Seq(S) /\ Len(a) = n + 1
  BY <1>1 DEF a
<1>3. DOMAIN a = 1 .. (n + 1) /\ a = [i \in 1 .. (n + 1) |-> a[i]]
  BY <1>2
<1> QED
  BY <1>1, <1>3 DEF a

LEMMA FlagSet ==
  ASSUME NEW r \in [old : Works, new : Works, undone : BOOLEAN], NEW t \in BOOLEAN
  PROVE  [r EXCEPT !.undone = t] = [old |-> r.old, new |-> r.new, undone |-> t]
<1> DEFINE Merge == [old : Works, new : Works, undone : BOOLEAN]
           x == [r EXCEPT !.undone = t]
           y == [old |-> r.old, new |-> r.new, undone |-> t]
<1>1. x \in Merge /\ y \in Merge
  OBVIOUS
<1>2. x.old = y.old /\ x.new = y.new /\ x.undone = y.undone
  OBVIOUS
<1> HIDE DEF x, y
<1>3. x = y
  BY <1>1, <1>2
<1> QED
  BY <1>3 DEF x, y

LEMMA PagesFold ==
  ASSUME LedgerInv, NEW x \in Works, NEW y \in Works, Fold(x, y)
  PROVE  Pages!Fold(x, y)
<1> DEFINE new == [old |-> x, new |-> y, undone |-> FALSE]
           n == Len(db.folds)
<1>1. LedgerInv' /\ CarriesOn(db, x, y, db')
  BY LedgerFolds
<1>2. db \in PlainDb /\ db' \in PlainDb /\ db'.table = db.table
  BY <1>1, TypesOfLedger DEF CarriesOn
<1>3. n \in Nat /\ DOMAIN db.folds = 1 .. n /\ DOMAIN db'.folds = 1 .. (n + 1) /\ Len(db'.folds) = n + 1
  <2>1. n \in Nat /\ DOMAIN db.folds = 1 .. n
    BY <1>2, PlainParts
  <2>2. DOMAIN db'.folds = 1 .. Len(db'.folds)
    BY <1>2, PlainParts
  <2> QED BY <1>1, <2>1, <2>2 DEF CarriesOn
<1>4. Merges(db)' = Append(Merges(db), new)
  <2>1. Merges(db)' = [i \in 1 .. (n + 1) |->
            [old |-> db'.folds[i].old, new |-> db'.folds[i].new, undone |-> db'.folds[i].undone]]
    BY <1>3 DEF Merges
  <2>2. Merges(db) = [i \in 1 .. n |->
            [old |-> db.folds[i].old, new |-> db.folds[i].new, undone |-> db.folds[i].undone]]
    BY <1>3 DEF Merges
  <2>3. \A i \in 1 .. n : db'.folds[i] = db.folds[i]
    BY <1>1, <1>3 DEF CarriesOn
  <2>4. db'.folds[n + 1].old = x /\ db'.folds[n + 1].new = y /\ db'.folds[n + 1].undone = FALSE
    <3>0. n + 1 \in DOMAIN db'.folds
      BY <1>3
    <3>1. db'.folds[n + 1] \in PlainFold
      BY <1>2, <3>0, PlainParts
    <3> QED BY <1>1, <3>1 DEF CarriesOn, PlainFold
  <2>5. Merges(db) \in Seq([old : Works, new : Works, undone : BOOLEAN]) /\ Len(Merges(db)) = n
    BY <1>2, MergesSeen
  <2> DEFINE m == Merges(db)
             m2 == Append(m, new)
  <2>6. /\ DOMAIN m2 = 1 .. (n + 1) /\ m2[n + 1] = new
        /\ \A i \in 1 .. n : m2[i] = m[i]
        /\ m2 = [i \in 1 .. (n + 1) |-> m2[i]]
    <3>1. new \in [old : Works, new : Works, undone : BOOLEAN]
      OBVIOUS
    <3>2. m \in Seq([old : Works, new : Works, undone : BOOLEAN]) /\ Len(m) = n /\ n \in Nat
      BY <1>3, <2>5
    <3> DEFINE S == [old : Works, new : Works, undone : BOOLEAN]
    <3>3. new \in S /\ m \in Seq(S) /\ Len(m) = n /\ n \in Nat
      BY <3>1, <3>2
    <3> HIDE DEF m, new, n, S, m2
    <3>4. /\ DOMAIN Append(m, new) = 1 .. (n + 1) /\ Append(m, new)[n + 1] = new
          /\ \A i \in 1 .. n : Append(m, new)[i] = m[i]
          /\ Append(m, new) = [i \in 1 .. (n + 1) |-> Append(m, new)[i]]
      BY <3>3, Appended
    <3> QED BY <3>4 DEF m2
  <2>7. \A i \in 1 .. (n + 1) : m2[i] =
            [old |-> db'.folds[i].old, new |-> db'.folds[i].new, undone |-> db'.folds[i].undone]
    <3>1. ASSUME NEW i \in 1 .. (n + 1)
          PROVE  m2[i] = [old |-> db'.folds[i].old, new |-> db'.folds[i].new, undone |-> db'.folds[i].undone]
      <4>1. CASE i = n + 1
        BY <2>4, <2>6, <4>1
      <4>2. CASE i # n + 1
        <5>1. i \in 1 .. n
          BY <1>3, <4>2
        <5>2. m2[i] = m[i] /\ db'.folds[i] = db.folds[i]
          BY <2>3, <2>6, <5>1
        <5> QED BY <2>2, <5>1, <5>2
      <4> QED BY <4>1, <4>2
    <3> QED BY <3>1
  <2> QED
    <3> HIDE DEF m2
    <3>1. Merges(db)' = m2
      BY <2>1, <2>6, <2>7
    <3> QED BY <3>1 DEF m2
<1>5. Shown(db)' = Pages!Page'
  BY <1>1, PagesShow
<1>6. x # y /\ Pages!Carried(x) /\ weight' = weight
  BY DEF Fold
<1>7. (db.table = "like")' = (db.table = "like") /\ (db.table \in {"daily", "work"})' = (db.table \in {"daily", "work"})
  BY <1>2
<1> QED
  BY <1>4, <1>5, <1>6, <1>7 DEF Pages!Fold

LEMMA NewestSeen ==
  ASSUME db \in PlainDb, NEW w
  PROVE  Pages!Newest(w) = ActiveFold(db, w)
<1>1. {i \in DOMAIN Merges(db) : Merges(db)[i].old = w /\ ~Merges(db)[i].undone}
        = {i \in DOMAIN db.folds : db.folds[i].old = w /\ ~db.folds[i].undone}
  BY MergesSeen
<1>2. Pages!Newest(w) = Max({0} \cup {i \in DOMAIN Merges(db) : Merges(db)[i].old = w /\ ~Merges(db)[i].undone})
  BY DEF Pages!Newest, Pages!Max, Max
<1> QED
  BY <1>1, <1>2 DEF ActiveFold

LEMMA PagesUndo ==
  ASSUME LedgerInv, NEW x \in Works, Undo(x)
  PROVE  Pages!Undo(x)
<1> DEFINE f == ActiveFold(db, x)
<1>1. LedgerInv' /\ TakesBack(db, f, db') /\ f \in DOMAIN db.folds /\ f # 0
  BY LedgerUndoes DEF Undo
<1>2. db \in PlainDb /\ db' \in PlainDb /\ db'.table = db.table
  BY <1>1, TypesOfLedger DEF TakesBack
<1>3. Pages!Newest(x) = f
  BY <1>2, NewestSeen
<1>4. Pages!TakenBack(f) /\ weight' = weight
  BY DEF Undo
<1> HIDE DEF f
<1>5. DOMAIN db'.folds = DOMAIN db.folds
  <2>1. DOMAIN db.folds = 1 .. Len(db.folds)
    BY <1>2, PlainParts
  <2>2. DOMAIN db'.folds = 1 .. Len(db'.folds)
    BY <1>2, PlainParts
  <2> QED BY <1>1, <2>1, <2>2 DEF TakesBack
<1>6. Merges(db)' = [Merges(db) EXCEPT ![f].undone = TRUE]
  <2> DEFINE m == Merges(db)
             D == DOMAIN db.folds
             m2 == [m EXCEPT ![f].undone = TRUE]
  <2>1. Merges(db)' = [i \in D |->
            [old |-> db'.folds[i].old, new |-> db'.folds[i].new, undone |-> db'.folds[i].undone]]
    BY <1>5 DEF Merges
  <2>2. m = [i \in D |->
            [old |-> db.folds[i].old, new |-> db.folds[i].new, undone |-> db.folds[i].undone]]
    BY DEF Merges
  <2>3. ASSUME NEW i \in D
        PROVE  m2[i] = [old |-> db'.folds[i].old, new |-> db'.folds[i].new, undone |-> db'.folds[i].undone]
    <3>1. /\ db'.folds[i].old = db.folds[i].old /\ db'.folds[i].new = db.folds[i].new
          /\ db'.folds[i].undone = (db.folds[i].undone \/ i = f)
      BY <1>1 DEF TakesBack
    <3>2. db.folds[i].undone \in BOOLEAN
      <4>1. db.folds[i] \in PlainFold
        BY <1>2, PlainParts
      <4> QED BY <4>1 DEF PlainFold
    <3>3. m[i] = [old |-> db.folds[i].old, new |-> db.folds[i].new, undone |-> db.folds[i].undone]
      BY <2>2
    <3>4. m2[i] = IF i = f THEN [m[i] EXCEPT !.undone = TRUE] ELSE m[i]
      BY <2>2
    <3>7. /\ db.folds[i].old \in Works /\ db.folds[i].new \in Works
          /\ m[i] \in [old : Works, new : Works, undone : BOOLEAN]
      <4>1. db.folds[i] \in PlainFold
        BY <1>2, PlainParts
      <4> QED BY <3>3, <4>1 DEF PlainFold
    <3>5. CASE i = f
      <4>1. m2[i] = [old |-> db.folds[i].old, new |-> db.folds[i].new, undone |-> TRUE]
        <5>1. m2[i] = [m[i] EXCEPT !.undone = TRUE]
          BY <3>4, <3>5
        <5>2. TRUE \in BOOLEAN
          OBVIOUS
        <5> DEFINE e == m[i]
        <5>3. e \in [old : Works, new : Works, undone : BOOLEAN]
              /\ e.old = db.folds[i].old /\ e.new = db.folds[i].new
          BY <3>3, <3>7
        <5> HIDE DEF e, m, m2
        <5>4. [e EXCEPT !.undone = TRUE] = [old |-> e.old, new |-> e.new, undone |-> TRUE]
          BY <5>2, <5>3, FlagSet, Zenon
        <5>5. m2[i] = [e EXCEPT !.undone = TRUE]
          BY <5>1 DEF e
        <5> QED BY <5>3, <5>4, <5>5
      <4>2. db'.folds[i].undone = TRUE
        BY <3>1, <3>5
      <4> QED BY <3>1, <4>1, <4>2
    <3>6. CASE i # f
      <4>1. db'.folds[i].undone = db.folds[i].undone
        BY <3>1, <3>2, <3>6
      <4> HIDE DEF m, m2
      <4> QED BY <3>1, <3>3, <3>4, <3>6, <4>1
    <3> QED BY <3>5, <3>6
  <2>4. m2 = [i \in D |-> m2[i]]
    BY <2>2
  <2> HIDE DEF m2
  <2>5. Merges(db)' = m2
    BY <2>1, <2>3, <2>4
  <2> QED BY <2>5 DEF m2
<1>7. Shown(db)' = Pages!Page'
  BY <1>1, PagesShow
<1>8. (db.table = "like")' = (db.table = "like") /\ (db.table \in {"daily", "work"})' = (db.table \in {"daily", "work"})
  BY <1>2
<1> QED
  BY <1>1, <1>3, <1>4, <1>6, <1>7, <1>8 DEF Pages!Undo

LEMMA PagesAdd ==
  ASSUME LedgerInv', db'.table = db.table, db'.folds = db.folds, NEW r \in Row,
         weight' = [weight EXCEPT ![r] = @ + 1], trail' = trail
  PROVE  Pages!Add(r)
<1>1. Shown(db)' = Pages!Page'
  BY PagesShow
<1>2. Merges(db)' = Merges(db)
  BY DEF Merges
<1> QED
  BY <1>1, <1>2 DEF Pages!Add

LEMMA PagesTakeAway ==
  ASSUME LedgerInv, NEW r \in Row, TakeAway(r)
  PROVE  \E u \in Users, w \in Works : Pages!TakeAway(u, w)
<1> DEFINE w == db.at[r]
           u == User(r)
<1>1. /\ LedgerInv' /\ db.table = "resource" /\ db'.table = "resource" /\ w # 0
      /\ weight' = [q \in Row |-> IF q \in {r} THEN 0 ELSE weight[q]]
      /\ trail' = [q \in Row |-> IF q \in {r} THEN <<>> ELSE trail[q]]
      /\ db'.folds = db.folds
  BY LedgerTakenFrom
<1>2. Resources(db, weight, trail, removals) /\ TrailsOK(db, weight, trail) /\ db \in PlainDb
  BY <1>1, TypesOfLedger DEF LedgerInv
<1>3. weight[r] > 0 /\ Stands(db, trail, r) = w
  BY <1>1, <1>2 DEF Resources
<1>4. u \in Users /\ w \in Works
  BY <1>1, <1>2, PlainParts DEF Row, User
<1>5. r \in Pages!Standing(u, w)
  <2>1. StandIn(Merges(db), trail, r) = w
    BY <1>2, <1>3, StandsSeen
  <2>2. Pages!Stand(r) = StandIn(Merges(db), trail, r)
    BY DEF Pages!Stand, Pages!Origin, StandIn, Origin
  <2>3. Pages!User(r) = User(r) /\ Pages!Row = Row
    BY DEF Pages!User, User, Pages!Row, Row
  <2> QED BY <1>3, <2>1, <2>2, <2>3 DEF Pages!Standing
<1>6. Shown(db)' = Pages!Page' /\ Merges(db)' = Merges(db)
  BY <1>1, PagesShow DEF Merges
<1>7. (db.table = "like")' = (db.table = "like") /\ (db.table \in {"daily", "work"})' = (db.table \in {"daily", "work"})
      /\ db.table # "like"
  BY <1>1
<1> HIDE DEF u, w
<1>8. {r} \in (SUBSET Pages!Standing(u, w)) \ {{}}
  <2>1. {r} \subseteq Pages!Standing(u, w)
    BY <1>5
  <2>2. {r} # {}
    OBVIOUS
  <2> QED BY <2>1, <2>2
<1>9. Pages!TakeAway(u, w)
  BY <1>1, <1>6, <1>7, <1>8 DEF Pages!TakeAway, Pages!Row, Row
<1> QED
  BY <1>4, <1>9

LEMMA PagesSteps ==
  LedgerInv /\ [Next]_vars => [Pages!Next]_(Pages!vars)
<1> SUFFICES ASSUME LedgerInv, [Next]_vars PROVE Pages!Next \/ UNCHANGED Pages!vars
  OBVIOUS
<1>0. Pages!Row = Row
  BY DEF Pages!Row, Row
<1>1. ASSUME NEW x \in Works, NEW y \in Works, Fold(x, y) PROVE Pages!Next
  BY <1>1, PagesFold DEF Pages!Next
<1>2. ASSUME NEW x \in Works, Undo(x) PROVE Pages!Next
  BY <1>2, PagesUndo DEF Pages!Next
<1>3. ASSUME NEW r \in Row, Leave(r) PROVE Pages!Next
  <2>1. LedgerInv' /\ db'.table = db.table /\ weight[r] = 0
    BY <1>3, LedgerLeaves
  <2>2. db \in PlainDb /\ TrailsOK(db, weight, trail)
    BY TypesOfLedger
  <2>3. db'.folds = db.folds /\ trail' = trail /\ weight' = [weight EXCEPT ![r] = 1]
    BY <1>3, <2>2 DEF Leave, EnsureLocal, PlainDb
  <2>4. weight' = [weight EXCEPT ![r] = @ + 1]
    BY <2>1, <2>2, <2>3 DEF TrailsOK
  <2>5. Pages!Add(r)
    BY <2>1, <2>3, <2>4, PagesAdd
  <2> QED BY <1>0, <2>5 DEF Pages!Next
<1>4. ASSUME NEW r \in Row, TakeAway(r) PROVE Pages!Next
  BY <1>4, PagesTakeAway DEF Pages!Next
<1>5. ASSUME NEW u \in Users, NEW w \in Works, Edit(u, w) PROVE Pages!Next
  <2>1. LedgerInv' /\ db.table = "daily" /\ db'.table = "daily" /\ <<u, w>> \in Row
        /\ weight' = [weight EXCEPT ![<<u, w>>] = @ + 1]
    BY <1>5, LedgerEdited
  <2>2. db \in PlainDb
    BY TypesOfLedger
  <2>3. db' = [db EXCEPT !.daily[w] = Plus(@, 1)] /\ trail' = trail
    BY <1>5, <2>1 DEF Edit
  <2>4. db'.folds = db.folds
    BY <2>2, <2>3 DEF PlainDb
  <2>5. Pages!Add(<<u, w>>)
    BY <2>1, <2>3, <2>4, PagesAdd
  <2> QED BY <1>0, <2>1, <2>5 DEF Pages!Next
<1>6. CASE UNCHANGED vars
  BY <1>6 DEF vars, Pages!vars, Merges, Shown
<1> QED
  BY <1>1, <1>2, <1>3, <1>4, <1>5, <1>6 DEF Next

(* The transactions implement MergePages: in whatever order folds are made *)
(* and undone, between what users add and delete, the page of every work   *)
(* shows what stands there, each resource once and each view counted once. *)
THEOREM PagesImplemented ==
  Spec /\ db.table \in {"resource", "daily"} => PagesSpec
<1>1. Init /\ db.table \in {"resource", "daily"} => Pages!Init
  BY PagesStart
<1>2. LedgerInv /\ [Next]_vars => [Pages!Next]_(Pages!vars)
  BY PagesSteps
<1> QED
  BY <1>1, <1>2, LedgerInvariant, PTL DEF Spec, PagesSpec, Pages!Spec

-----------------------------------------------------------------------------
(* The sync: every variable keeps its type.                                *)
LEMMA Largest ==
  ASSUME NEW S, IsFiniteSet(S), S \subseteq Nat, S # {}
  PROVE  /\ Max(S) \in S /\ \A x \in S : x <= Max(S)
         /\ Min(S) \in S
<1> DEFINE Good == {T \in SUBSET S : T # {} => /\ \E m \in T : \A x \in T : m >= x
                                               /\ \E m \in T : \A x \in T : m <= x}
<1>1. ASSUME NEW T \in SUBSET S, \A U \in SUBSET T : U # T => U \in Good
      PROVE  T \in Good
  <2>1. CASE T = {}
    BY <2>1
  <2>2. CASE T # {}
    <3>1. PICK a \in T : TRUE
      BY <2>2
    <3> DEFINE U == T \ {a}
    <3>2. U \in Good
      BY <1>1, <3>1
    <3>3. CASE U = {}
      <4>1. T = {a} /\ a \in Nat
        BY <3>1, <3>3
      <4> QED BY <4>1
    <3>4. CASE U # {}
      <4>1. PICK m \in U : \A x \in U : m >= x
        BY <3>2, <3>4
      <4>2. PICK l \in U : \A x \in U : l <= x
        BY <3>2, <3>4
      <4>3. m \in Nat /\ a \in Nat /\ l \in Nat /\ U \subseteq Nat /\ T = U \cup {a} /\ m \in T /\ l \in T
        BY <3>1
      <4> HIDE DEF U
      <4>4. \A x \in T : (IF a >= m THEN a ELSE m) >= x
        BY <4>1, <4>3
      <4>5. \A x \in T : (IF a <= l THEN a ELSE l) <= x
        BY <4>2, <4>3
      <4>6. (IF a >= m THEN a ELSE m) \in T /\ (IF a <= l THEN a ELSE l) \in T
        BY <3>1, <4>3
      <4> QED BY <4>4, <4>5, <4>6
    <3> QED BY <3>3, <3>4
  <2> QED BY <2>1, <2>2
<1>2. S \in Good
  <2> HIDE DEF Good
  <2>1. \A T \in SUBSET S : T \in Good
    BY <1>1, SubsetInduction
  <2> QED BY <2>1
<1>3. \E m \in S : \A x \in S : m >= x
  BY <1>2
<1>4. \E m \in S : \A x \in S : m <= x
  BY <1>2
<1>5. Max(S) \in S /\ \A x \in S : Max(S) >= x
  BY <1>3 DEF Max
<1>6. Min(S) \in S
  BY <1>4 DEF Min
<1>7. Max(S) \in Nat
  BY <1>5
<1> QED
  BY <1>5, <1>6, <1>7

(* Following catalog's merges leads to a work.                             *)
LEMMA CurrentIsWork ==
  ASSUME NEW p \in [Works -> Works], NEW w \in Works
  PROVE  CurrentIn(p, w) \in Works
<1> DEFINE n == Cardinality(Works)
           seq == [i \in 1 .. n |-> i]
           F == [x \in (1 .. n) \X Works |-> p[x[2]]]
           It(g) == g = [s \in SUBSET (DOMAIN seq) |-> IF s = {} THEN w ELSE p[g[s \ {Max(s)}]]]
           it == CHOOSE g : It(g)
<1>1. n \in Nat
  BY WorksOK, FS_CardinalityType
<1>2. \E g \in [SUBSET (1 .. n) -> Works] : It(g)
  <2>1. \A k \in 1 .. n, v \in Works : F[<<k, v>>] \in Works
    OBVIOUS
  <2>2. PICK g \in [SUBSET (1 .. n) -> Works] : IsWalk(n, w, F, g)
    <3> HIDE DEF F, n
    <3> QED BY <1>1, <2>1, WalkExists
  <2>3. g = [s \in SUBSET (1 .. n) |-> IF s = {} THEN w ELSE F[<<Max(s), g[s \ {Max(s)}]>>]]
    <3> HIDE DEF F, n
    <3> QED BY <2>2 DEF IsWalk
  <2>4. ASSUME NEW s \in SUBSET (1 .. n)
        PROVE  g[s] = IF s = {} THEN w ELSE p[g[s \ {Max(s)}]]
    <3>1. CASE s = {}
      BY <2>3, <3>1
    <3>2. CASE s # {}
      <4>1. Max(s) \in 1 .. n
        BY <1>1, <3>2, MaxIsThere
      <4>2. s \ {Max(s)} \in SUBSET (1 .. n)
        OBVIOUS
      <4> HIDE DEF n
      <4>3. g[s] = F[<<Max(s), g[s \ {Max(s)}]>>] /\ g[s \ {Max(s)}] \in Works
        BY <2>3, <2>2, <3>2, <4>2
      <4> QED BY <3>2, <4>1, <4>3
    <3> QED BY <3>1, <3>2
  <2>5. g = [s \in SUBSET (1 .. n) |-> g[s]]
    BY <2>2
  <2>6. DOMAIN seq = 1 .. n
    OBVIOUS
  <2>7. It(g)
    <3> HIDE DEF n, seq
    <3> QED BY <2>4, <2>5, <2>6
  <2> QED BY <2>2, <2>7
<1>3. It(it)
  <2> HIDE DEF It
  <2> QED BY <1>2
<1>4. CurrentIn(p, w) = it[DOMAIN seq]
  BY DEF CurrentIn, FoldLeft, MapThenFoldSet
<1>5. DOMAIN seq = 1 .. n
  OBVIOUS
<1> DEFINE Good == {k \in 0 .. n : it[1 .. k] \in Works}
<1>6. 0 \in Good
  <2>1. 1 .. 0 = {} /\ {} \in SUBSET (DOMAIN seq)
    OBVIOUS
  <2>2. it[{}] = w
    <3> HIDE DEF it, seq
    <3> QED BY <1>3, <2>1
  <2> HIDE DEF it
  <2> QED BY <1>1, <2>1, <2>2
<1>7. ASSUME NEW k \in 0 .. (n - 1), k \in Good
      PROVE  k + 1 \in Good
  <2>1. k \in Nat /\ k + 1 \in 0 .. n
    BY <1>1
  <2>2. Max(1 .. (k + 1)) = k + 1 /\ (1 .. (k + 1)) \ {k + 1} = 1 .. k /\ 1 .. (k + 1) # {}
    BY <2>1, UpTo
  <2>3. 1 .. (k + 1) \in SUBSET (DOMAIN seq)
    BY <2>1, <1>1, <1>5
  <2>4. it[1 .. (k + 1)] = p[it[1 .. k]]
    <3> HIDE DEF it, seq
    <3>1. it[1 .. (k + 1)] = p[it[(1 .. (k + 1)) \ {Max(1 .. (k + 1))}]]
      BY <1>3, <2>2, <2>3
    <3> QED BY <2>2, <3>1
  <2>5. it[1 .. k] \in Works
    BY <1>7
  <2> HIDE DEF it, n
  <2> QED BY <2>1, <2>4, <2>5
<1>8. n \in Good
  <2> HIDE DEF Good, n
  <2>1. \A k \in 0 .. n : k \in Good
    BY <1>1, <1>6, <1>7, CountUp
  <2>2. n \in 0 .. n
    BY <1>1
  <2> QED BY <2>1, <2>2
<1> HIDE DEF it, seq, n
<1> QED
  BY <1>4, <1>5, <1>8

(* A one-to-one function into a set of the same size reaches all of it.    *)
LEMMA OneToOneReaches ==
  ASSUME NEW S, NEW T, IsFiniteSet(T), IsFiniteSet(S), Cardinality(S) = Cardinality(T), NEW f \in [S -> T],
         \A x, y \in S : f[x] = f[y] => x = y
  PROVE  \A t \in T : \E s \in S : f[s] = t
<1>1. f \in Injection(S, T)
  BY DEF Injection, IsInjective
<1>2. f \in Surjection(S, T)
  BY <1>1, FS_Injection
<1> QED
  BY <1>2 DEF Surjection

(* No two redirects have one place in the feed.                            *)
TurnsApart == \A v, w \in Works : turn[v] = turn[w] /\ turn[v] # 0 => v = w

LEMMA PageIsWorks ==
  ASSUME turn \in [Works -> Nat], TurnsApart, NEW c \in Nat
  PROVE  /\ PageAfter(c) \in Seq(Works)
         /\ \A i \in DOMAIN PageAfter(c) : PageAfter(c)[i] \in Works
<1> DEFINE A == After(c)
           n == Cardinality(A)
           upto(w) == {v \in A : turn[v] <= turn[w]}
           rank == [w \in A |-> Cardinality(upto(w))]
           k == IF n < PageLimit THEN n ELSE PageLimit
<1>1. A \in SUBSET Works /\ IsFiniteSet(A) /\ n \in Nat
  <2>1. A \in SUBSET Works
    BY DEF After
  <2> QED BY <2>1, WorksOK, FS_Subset, FS_CardinalityType
<1>2. \A w \in A : turn[w] \in Nat /\ turn[w] # 0
  BY DEF After
<1>3. \A w \in A : /\ IsFiniteSet(upto(w)) /\ upto(w) \in SUBSET A /\ w \in upto(w)
                   /\ Cardinality(upto(w)) \in Nat /\ Cardinality(upto(w)) <= n
  <2> SUFFICES ASSUME NEW w \in A
               PROVE  /\ IsFiniteSet(upto(w)) /\ upto(w) \in SUBSET A /\ w \in upto(w)
                      /\ Cardinality(upto(w)) \in Nat /\ Cardinality(upto(w)) <= n
    OBVIOUS
  <2>1. upto(w) \in SUBSET A /\ w \in upto(w)
    BY <1>2
  <2> HIDE DEF upto, A
  <2> QED BY <1>1, <2>1, FS_Subset, FS_CardinalityType
<1>4. \A w \in A : rank[w] \in 1 .. n
  <2> SUFFICES ASSUME NEW w \in A PROVE rank[w] \in 1 .. n
    OBVIOUS
  <2>1. Cardinality(upto(w)) # 0
    <3> HIDE DEF upto, A
    <3> QED BY <1>3, FS_EmptySet
  <2>2. rank[w] = Cardinality(upto(w))
    OBVIOUS
  <2> HIDE DEF rank, upto, A, n
  <2> QED BY <1>1, <1>3, <2>1, <2>2
<1>5. \A v, w \in A : rank[v] = rank[w] => v = w
  <2> SUFFICES ASSUME NEW v \in A, NEW w \in A, rank[v] = rank[w], turn[v] <= turn[w] PROVE v = w
    BY <1>2
  <2>1. upto(v) \in SUBSET upto(w)
    BY <1>2
  <2>2. Cardinality(upto(v)) = Cardinality(upto(w))
    OBVIOUS
  <2>3. upto(v) = upto(w)
    <3> HIDE DEF upto, A
    <3> QED BY <1>3, <2>1, <2>2, FS_Subset
  <2>4. turn[w] <= turn[v]
    BY <1>3, <2>3
  <2>5. turn[v] = turn[w]
    BY <1>2, <2>4
  <2> QED BY <1>1, <1>2, <2>5 DEF TurnsApart
<1>6. \A i \in 1 .. n : \E w \in A : rank[w] = i
  <2>1. rank \in [A -> 1 .. n]
    BY <1>4
  <2>2. IsFiniteSet(1 .. n) /\ Cardinality(1 .. n) = n
    BY <1>1, FS_Interval
  <2> DEFINE T == 1 .. n
  <2>3. Cardinality(A) = Cardinality(T) /\ IsFiniteSet(T) /\ rank \in [A -> T]
    BY <2>1, <2>2
  <2> HIDE DEF rank, A, T
  <2>4. \A i \in T : \E w \in A : rank[w] = i
    BY <1>1, <1>5, <2>3, OneToOneReaches
  <2> QED BY <2>4 DEF T
<1>7. k \in Nat /\ k <= n
  BY <1>1, SyncBoundsOK
<1>8. ASSUME NEW i \in 1 .. k
      PROVE  (CHOOSE w \in A : Cardinality({v \in A : turn[v] <= turn[w]}) = i) \in Works
  <2>1. i \in 1 .. n
    BY <1>1, <1>7
  <2>2. \E w \in A : Cardinality({v \in A : turn[v] <= turn[w]}) = i
    BY <1>6, <2>1
  <2>3. (CHOOSE w \in A : Cardinality({v \in A : turn[v] <= turn[w]}) = i) \in A
    <3> HIDE DEF A
    <3> QED BY <2>2
  <2> QED BY <1>1, <2>3
<1>9. PageAfter(c) = [i \in 1 .. k |-> CHOOSE w \in A : Cardinality({v \in A : turn[v] <= turn[w]}) = i]
  BY DEF PageAfter
<1> HIDE DEF A, k
<1>10. PageAfter(c) \in [1 .. k -> Works]
  BY <1>8, <1>9
<1> QED
  BY <1>7, <1>10

(* A change of catalog puts the redirects it touches at the tail.          *)
LEMMA CatalogTypes ==
  ASSUME turn \in [Works -> Nat], TurnsApart, parent \in [Works -> Works],
         NEW p \in [Works -> Works], CatalogChanges(p)
  PROVE  parent' \in [Works -> Works] /\ turn' \in [Works -> Nat] /\ TurnsApart'
<1> DEFINE touched == {w \in Works : CurrentIn(p, w) # Current(w)}
           all == {0} \cup {turn[w] : w \in Works}
           tail == Max(all)
           n == Cardinality(touched)
<1>1. PICK order \in SetToSeqs(touched) :
         turn' = [w \in Works |-> IF w \in touched
                     THEN tail + (CHOOSE i \in DOMAIN order : order[i] = w) ELSE turn[w]]
  BY DEF CatalogChanges
<1>2. tail \in Nat /\ \A w \in Works : turn[w] <= tail
  <2>1. {turn[w] : w \in Works} \subseteq Nat /\ IsFiniteSet({turn[w] : w \in Works})
    <3> DEFINE T == {turn[w] : w \in Works}
    <3>1. turn \in Surjection(Works, T)
      BY DEF Surjection
    <3>2. IsFiniteSet(T)
      BY <3>1, WorksOK, FS_Surjection
    <3> QED BY <3>2
  <2> DEFINE T == {turn[w] : w \in Works}
  <2>3. IsFiniteSet({0} \cup T)
    <3>1. IsFiniteSet({0}) /\ IsFiniteSet(T)
      BY <2>1, FS_Singleton
    <3> HIDE DEF T
    <3> QED BY <3>1, FS_Union
  <2>2. IsFiniteSet(all) /\ all \subseteq Nat /\ all # {} /\ \A w \in Works : turn[w] \in all
    BY <2>1, <2>3
  <2> HIDE DEF all
  <2> QED BY <2>2, Largest
<1>3. touched \in SUBSET Works /\ IsFiniteSet(touched) /\ n \in Nat
  <2>1. touched \in SUBSET Works
    OBVIOUS
  <2> HIDE DEF touched
  <2> QED BY <2>1, WorksOK, FS_Subset, FS_CardinalityType
<1> HIDE DEF touched, tail, all
<1>4. order \in [1 .. n -> touched] /\ \A i, j \in 1 .. n : order[i] = order[j] => i = j
  BY DEF SetToSeqs
<1>5. \A w \in touched : \E i \in 1 .. n : order[i] = w
  <2>1. IsFiniteSet(1 .. n) /\ Cardinality(1 .. n) = n
    BY <1>3, FS_Interval
  <2> DEFINE T == 1 .. n
  <2>2. Cardinality(T) = Cardinality(touched) /\ IsFiniteSet(T) /\ order \in [T -> touched]
        /\ \A i, j \in T : order[i] = order[j] => i = j
    BY <1>4, <2>1
  <2> HIDE DEF T
  <2>3. \A w \in touched : \E i \in T : order[i] = w
    BY <1>3, <2>2, OneToOneReaches
  <2> QED BY <2>3 DEF T
<1> DEFINE place(w) == CHOOSE i \in DOMAIN order : order[i] = w
<1>6. \A w \in touched : place(w) \in Nat /\ place(w) > 0 /\ order[place(w)] = w
  <2> SUFFICES ASSUME NEW w \in touched PROVE place(w) \in Nat /\ place(w) > 0 /\ order[place(w)] = w
    OBVIOUS
  <2>1. \E i \in DOMAIN order : order[i] = w
    BY <1>4, <1>5
  <2>2. place(w) \in DOMAIN order /\ order[place(w)] = w
    BY <2>1
  <2> HIDE DEF place
  <2> QED BY <1>4, <2>2
<1>7. \A w \in Works : turn'[w] = IF w \in touched THEN tail + place(w) ELSE turn[w]
  BY <1>1
<1>8. DOMAIN turn' = Works /\ turn' = [w \in Works |-> turn'[w]]
  BY <1>1
<1> HIDE DEF place
<1>9. \A w \in Works : /\ turn'[w] \in Nat
                       /\ IF w \in touched THEN turn'[w] > tail ELSE turn'[w] <= tail
  BY <1>2, <1>6, <1>7
<1>10. ASSUME NEW v \in Works, NEW w \in Works, turn'[v] = turn'[w], turn'[v] # 0
       PROVE  v = w
  <2>1. v \in touched <=> w \in touched
    BY <1>2, <1>9, <1>10
  <2>2. CASE v \in touched
    <3>1. place(v) = place(w)
      BY <1>2, <1>6, <1>7, <1>10, <2>1, <2>2
    <3> QED BY <1>6, <2>1, <2>2, <3>1
  <2>3. CASE v \notin touched
    <3>1. turn[v] = turn[w] /\ turn[v] # 0
      BY <1>7, <1>10, <2>1, <2>3
    <3> QED BY <3>1 DEF TurnsApart
  <2> QED BY <2>2, <2>3
<1>11. parent' = p
  BY DEF CatalogChanges
<1>12. turn' \in [Works -> Nat]
  BY <1>8, <1>9
<1>13. TurnsApart'
  BY <1>10 DEF TurnsApart
<1> QED
  BY <1>11, <1>12, <1>13

SyncState ==
    [pc : {"idle", "refresh", "lookup", "fold", "fetch", "apply", "advance"}, retry : BOOLEAN,
     at : Nat, next : Nat, page : Seq([old : Works, current : Works]), undo : Works \cup {0},
     todo : SUBSET Works, batch : [Works -> Works \cup {0}], cand : SUBSET Works, rend : SUBSET Works]

SyncTypes(s) ==
    /\ s \in SyncState
    /\ \A w \in s.cand : s.batch[w] # 0
    /\ s.cand = {} <=> s.pc \notin {"lookup", "fold"}
    /\ s.undo # 0 => s.pc = "apply"

(* What is undone is in force: no step but an undo changes that.           *)
SyncInv ==
    /\ parent \in [Works -> Works] /\ hidden \subseteq Works
    /\ turn \in [Works -> Nat] /\ TurnsApart /\ cursor \in Nat
    /\ forum \in PlainDb /\ forum.table = "resource"
    /\ parked \in [Works -> Works \cup {0}]
    /\ mirror \in [work : Works \cup {0}, survivor : Works \cup {0}]
    /\ SyncTypes(sync)
    /\ sync.undo # 0 => ActiveFold(forum, sync.undo) # 0

LEMMA IdleTyped ==
  SyncIdle \in SyncState /\ SyncTypes(SyncIdle) /\ SyncIdle.undo = 0
<1>1. Nothing \in [Works -> Works \cup {0}] /\ <<>> \in Seq([old : Works, current : Works])
  BY DEF Nothing
<1>2. SyncIdle \in SyncState
  BY <1>1 DEF SyncIdle, SyncState
<1> QED
  BY <1>2 DEF SyncTypes, SyncIdle

LEMMA SyncStarts == SyncInit => SyncInv
<1> SUFFICES ASSUME SyncInit PROVE SyncInv
  OBVIOUS
<1>1. PICK made \in SUBSET Row, opened \in BOOLEAN :
        forum = [table |-> "resource",
                 at    |-> [r \in Row |-> IF r \in made THEN Origin(r) ELSE 0],
                 count |-> [r \in Row |-> 0],
                 daily |-> [w \in Works |-> NoBucket],
                 local |-> [w \in Works |-> IF opened /\ \E r \in made : Origin(r) = w
                              THEN [view |-> 0, published |-> FALSE] ELSE NoRow],
                 folds |-> <<>>]
  BY DEF SyncInit
<1>2. forum \in PlainDb /\ forum.table = "resource"
  <2> DEFINE at == [r \in Row |-> IF r \in made THEN Origin(r) ELSE 0]
             local == [w \in Works |-> IF opened /\ \E r \in made : Origin(r) = w
                              THEN [view |-> 0, published |-> FALSE] ELSE NoRow]
  <2>1. at \in [Row -> Works \cup {0}]
    BY DEF Row, Origin
  <2>2. [r \in Row |-> 0] \in [Row -> Int] /\ [w \in Works |-> NoBucket] \in [Works -> Bucket]
    BY DEF NoBucket, Bucket
  <2>3. local \in [Works -> Snap]
    <3>1. NoRow \in Snap /\ [view |-> 0, published |-> FALSE] \in Snap
      BY DEF NoRow, Snap
    <3> QED BY <3>1
  <2>4. <<>> \in Seq(PlainFold) /\ "resource" \in PlainTables
    BY DEF PlainTables
  <2>5. forum = [table |-> "resource", at |-> at, count |-> [r \in Row |-> 0],
                 daily |-> [w \in Works |-> NoBucket], local |-> local, folds |-> <<>>]
    BY <1>1
  <2> HIDE DEF at, local
  <2> QED BY <2>1, <2>2, <2>3, <2>4, <2>5 DEF PlainDb
<1>3. /\ parent \in [Works -> Works] /\ hidden \subseteq Works
      /\ turn \in [Works -> Nat] /\ TurnsApart /\ cursor \in Nat
      /\ parked \in [Works -> Works \cup {0}]
  BY DEF SyncInit, Nothing, TurnsApart
<1>4. mirror \in [work : Works \cup {0}, survivor : Works \cup {0}]
  BY DEF SyncInit, NoQuestion
<1>5. SyncTypes(sync) /\ sync.undo = 0
  BY IdleTyped DEF SyncInit
<1> QED
  BY <1>2, <1>3, <1>4, <1>5 DEF SyncInv

LEMMA CatalogKeeps ==
  ASSUME SyncInv, Catalog
  PROVE  SyncInv'
<1>1. ASSUME NEW p \in [Works -> Works], CatalogChanges(p) PROVE SyncInv'
  <2>1. parent' \in [Works -> Works] /\ turn' \in [Works -> Nat] /\ TurnsApart'
    BY <1>1, CatalogTypes DEF SyncInv
  <2>2. UNCHANGED <<hidden, forum, parked, cursor, sync, mirror>>
    BY <1>1 DEF CatalogChanges
  <2> QED BY <2>1, <2>2 DEF SyncInv
<1>2. ASSUME NEW x \in Works, NEW y \in Works, MergesAway(x, y) \/ Repoints(x, y) PROVE SyncInv'
  <2>1. [parent EXCEPT ![x] = y] \in [Works -> Works]
    BY DEF SyncInv
  <2> QED BY <1>1, <1>2, <2>1 DEF MergesAway, Repoints
<1>3. ASSUME NEW w \in Works, Unmerges(w) PROVE SyncInv'
  <2>1. [parent EXCEPT ![w] = w] \in [Works -> Works]
    BY DEF SyncInv
  <2> QED BY <1>1, <1>3, <2>1 DEF Unmerges
<1>4. ASSUME NEW w \in Works, HidesOrShows(w) PROVE SyncInv'
  <2>1. hidden' \subseteq Works
    BY <1>4 DEF HidesOrShows, SyncInv
  <2>2. UNCHANGED <<parent, turn, forum, parked, cursor, sync, mirror>>
    BY <1>4 DEF HidesOrShows
  <2> QED BY <2>1, <2>2 DEF SyncInv, TurnsApart
<1> QED
  BY <1>2, <1>3, <1>4 DEF Catalog

LEMMA RowKeeps ==
  ASSUME SyncInv, NEW r \in Row, LeaveRow(r)
  PROVE  SyncInv'
<1>1. forum \in PlainDb /\ forum.table = "resource" /\ Origin(r) \in Works
  BY DEF SyncInv, Row, Origin
<1> DEFINE at == [forum.at EXCEPT ![r] = Origin(r)]
           local == [forum.local EXCEPT ![Origin(r)] = IF @ = NoRow THEN [view |-> 0, published |-> FALSE] ELSE @]
<1>2. at \in [Row -> Works \cup {0}]
  BY <1>1, PlainParts
<1>3. local \in [Works -> Snap]
  <2>1. [view |-> 0, published |-> FALSE] \in Snap
    BY DEF Snap
  <2> QED BY <1>1, <2>1, PlainParts
<1>4. forum' = [forum EXCEPT !.at = at, !.local = local]
  BY DEF LeaveRow
<1> HIDE DEF at, local
<1>5. forum' \in PlainDb /\ forum'.table = "resource" /\ forum'.folds = forum.folds
  BY <1>1, <1>2, <1>3, <1>4 DEF PlainDb
<1>6. UNCHANGED <<parent, hidden, turn, parked, cursor, sync, mirror>>
  BY DEF LeaveRow, catalogVars
<1>7. \A w : ActiveFold(forum', w) = ActiveFold(forum, w)
  BY <1>5 DEF ActiveFold
<1> QED
  BY <1>5, <1>6, <1>7 DEF SyncInv, TurnsApart

LEMMA MirrorKeeps ==
  ASSUME SyncInv, Mirror
  PROVE  SyncInv'
<1>1. ASSUME NEW w \in Works, MirrorAsks(w) PROVE SyncInv'
  <2>1. Current(w) \in Works
    BY CurrentIsWork DEF SyncInv, Current
  <2>2. mirror' \in [work : Works \cup {0}, survivor : Works \cup {0}]
    BY <1>1, <2>1 DEF MirrorAsks
  <2>3. UNCHANGED <<parent, hidden, turn, forum, parked, cursor, sync>>
    BY <1>1 DEF MirrorAsks, catalogVars
  <2> QED BY <2>2, <2>3 DEF SyncInv, TurnsApart
<1>2. CASE Enqueue
  <2>1. mirror' \in [work : Works \cup {0}, survivor : Works \cup {0}]
    BY <1>2 DEF Enqueue, NoQuestion
  <2>2. parked' \in [Works -> Works \cup {0}]
    BY <1>2 DEF Enqueue, SyncInv
  <2>3. UNCHANGED <<parent, hidden, turn, forum, cursor, sync>>
    BY <1>2 DEF Enqueue, catalogVars
  <2> QED BY <2>1, <2>2, <2>3 DEF SyncInv, TurnsApart
<1> QED
  BY <1>1, <1>2 DEF Mirror

(* What a step of a run has to show.                                       *)
LEMMA RunKept ==
  ASSUME SyncInv, SyncTypes(sync'), UNCHANGED <<catalogVars, mirror>>, cursor' \in Nat,
         parked' \in [Works -> Works \cup {0}],
         forum' \in PlainDb, forum'.table = "resource",
         sync'.undo # 0 => ActiveFold(forum', sync'.undo) # 0
  PROVE  SyncInv'
BY DEF SyncInv, TurnsApart, catalogVars

LEMMA Parts ==
  ASSUME SyncInv
  PROVE  /\ sync \in SyncState /\ cursor \in Nat /\ parked \in [Works -> Works \cup {0}]
         /\ forum \in PlainDb /\ forum.table = "resource"
         /\ \A w \in sync.cand : w \in Works /\ sync.batch[w] \in Works
         /\ sync.cand = {} <=> sync.pc \notin {"lookup", "fold"}
         /\ sync.undo # 0 => sync.pc = "apply"
         /\ sync.undo # 0 => ActiveFold(forum, sync.undo) # 0
         /\ InBatch \in SUBSET Works /\ \A w \in InBatch : sync.batch[w] \in Works
         /\ \A w \in Works : Current(w) \in Works
<1>1. \A w \in Works : Current(w) \in Works
  BY CurrentIsWork DEF SyncInv, Current
<1>2. sync.batch \in [Works -> Works \cup {0}] /\ sync.cand \subseteq Works
  BY DEF SyncInv, SyncTypes, SyncState
<1> QED
  BY <1>1, <1>2 DEF SyncInv, SyncTypes, InBatch

LEMMA ParkTypes ==
  ASSUME SyncInv, NEW ws \in SUBSET Works
  PROVE  /\ Unpark(ws) \in [Works -> Works \cup {0}]
         /\ Park(ws) \in [Works -> Works \cup {0}]
<1>1. parked \in [Works -> Works \cup {0}] /\ sync.batch \in [Works -> Works \cup {0}]
  BY DEF SyncInv, SyncTypes, SyncState
<1> QED
  BY <1>1 DEF Park, Unpark

LEMMA DoneTypes ==
  ASSUME NEW s \in SyncState, s.undo = 0
  PROVE  SyncTypes(BatchDone(s)) /\ BatchDone(s).undo = 0
<1>1. Nothing \in [Works -> Works \cup {0}]
  BY DEF Nothing
<1>2. BatchDone(s) \in SyncState
  BY <1>1 DEF BatchDone, SyncState
<1>3. BatchDone(s).cand = {} /\ BatchDone(s).undo = 0 /\ BatchDone(s).pc \in {"fetch", "advance"}
  BY DEF BatchDone, SyncState
<1> QED
  BY <1>2, <1>3 DEF SyncTypes

LEMMA RefreshKeeps ==
  ASSUME SyncInv, NEW w \in Works, RefreshSurvivor(w) \/ RefreshFails(w)
  PROVE  SyncInv'
<1>0. sync \in SyncState /\ sync.pc = "refresh" /\ sync.cand = {} /\ sync.undo = 0
      /\ UNCHANGED <<catalogVars, forum, cursor, mirror>>
  BY Parts DEF RefreshSurvivor, RefreshFails
<1>1. sync' \in SyncState /\ sync'.cand = {} /\ sync'.pc = "refresh" /\ sync'.undo = 0
  <2>1. CASE RefreshSurvivor(w)
    <3> DEFINE b == [sync.batch EXCEPT ![w] = IF Live(w) THEN 0 ELSE Current(w)]
               t == sync.todo \ {w}
    <3>1. b \in [Works -> Works \cup {0}] /\ t \in SUBSET Works
      BY <1>0, Parts DEF SyncState
    <3>2. sync' = [sync EXCEPT !.todo = t, !.batch = b]
      BY <2>1 DEF RefreshSurvivor
    <3> HIDE DEF b, t
    <3> QED BY <1>0, <3>1, <3>2 DEF SyncState
  <2>2. CASE RefreshFails(w)
    BY <1>0, <2>2 DEF RefreshFails, SyncState
  <2> QED BY <2>1, <2>2
<1>2. parked' \in [Works -> Works \cup {0}]
  BY Parts, ParkTypes DEF RefreshSurvivor, RefreshFails
<1>3. SyncTypes(sync')
  BY <1>1 DEF SyncTypes
<1> QED
  BY <1>0, <1>1, <1>2, <1>3, Parts, RunKept

LEMMA BeginsKeeps ==
  ASSUME SyncInv, RunBegins
  PROVE  SyncInv'
<1>1. sync' = [SyncIdle EXCEPT !.at = cursor, !.batch = parked, !.retry = TRUE,
                    !.todo = {w \in Works : parked[w] # 0},
                    !.pc = IF parked = Nothing THEN "fetch" ELSE "refresh"]
      /\ UNCHANGED <<catalogVars, forum, parked, cursor, mirror>>
  BY DEF RunBegins
<1>2. sync' \in SyncState
  BY <1>1, IdleTyped, Parts DEF SyncState
<1>3. sync'.cand = {} /\ sync'.undo = 0 /\ sync'.pc \in {"fetch", "refresh"}
  BY <1>1 DEF SyncIdle
<1>4. SyncTypes(sync')
  BY <1>2, <1>3 DEF SyncTypes
<1> QED
  BY <1>1, <1>3, <1>4, Parts, RunKept

LEMMA CandidatesKeep ==
  ASSUME SyncInv, FindCandidates \/ FindCandidatesFails
  PROVE  SyncInv'
<1> DEFINE cand == {w \in InBatch : Referenced(forum, w)}
<1>0. sync \in SyncState /\ sync.undo = 0 /\ UNCHANGED <<catalogVars, forum, cursor, mirror>>
      /\ cand \in SUBSET InBatch /\ InBatch \in SUBSET Works
  BY Parts DEF FindCandidates, FindCandidatesFails, ReadyToFold
<1> HIDE DEF cand
<1>1. parked' \in [Works -> Works \cup {0}]
  <2>1. parked' = Unpark(InBatch \ cand) \/ parked' = Park(InBatch)
    BY DEF FindCandidates, FindCandidatesFails, cand
  <2> QED BY <1>0, <2>1, ParkTypes
<1>2. SyncTypes(sync') /\ sync'.undo = 0
  <2>1. CASE sync' = BatchDone(sync)
    BY <1>0, <2>1, DoneTypes
  <2>2. CASE cand # {} /\ sync' = [sync EXCEPT !.pc = "lookup", !.cand = cand]
    <3>1. sync' \in SyncState /\ sync'.cand = cand /\ sync'.pc = "lookup" /\ sync'.undo = 0
          /\ sync'.batch = sync.batch
      BY <1>0, <2>2 DEF SyncState
    <3>2. \A w \in cand : sync.batch[w] # 0
      BY <1>0 DEF InBatch
    <3> QED BY <2>2, <3>1, <3>2 DEF SyncTypes
  <2>3. sync' = BatchDone(sync) \/ (cand # {} /\ sync' = [sync EXCEPT !.pc = "lookup", !.cand = cand])
    BY DEF FindCandidates, FindCandidatesFails, cand
  <2> QED BY <2>1, <2>2, <2>3
<1> QED
  BY <1>0, <1>1, <1>2, Parts, RunKept

LEMMA LookUpKeeps ==
  ASSUME SyncInv, NEW ok \in BOOLEAN, LookUpSurvivors(ok)
  PROVE  SyncInv'
<1>0. sync \in SyncState /\ sync.pc = "lookup" /\ sync.cand # {} /\ sync.undo = 0
      /\ UNCHANGED <<catalogVars, forum, parked, cursor, mirror>>
  BY Parts DEF LookUpSurvivors
<1>1. PICK rend \in SUBSET Works : sync' = [sync EXCEPT !.pc = "fold", !.rend = rend]
  <2> DEFINE rend == IF ok THEN {sync.batch[w] : w \in sync.cand} \cap {w \in Works : Renderable(w)} ELSE {}
  <2>1. rend \in SUBSET Works
    OBVIOUS
  <2>2. sync' = [sync EXCEPT !.pc = "fold", !.rend = rend]
    BY DEF LookUpSurvivors
  <2> HIDE DEF rend
  <2> QED BY <2>1, <2>2
<1>2. sync' \in SyncState /\ sync'.cand = sync.cand /\ sync'.pc = "fold" /\ sync'.undo = 0
      /\ sync'.batch = sync.batch
  BY <1>0, <1>1 DEF SyncState
<1>3. SyncTypes(sync')
  <2>1. \A w \in sync'.cand : sync'.batch[w] # 0
    BY <1>2, Parts, WorksOK
  <2> QED BY <1>0, <1>2, <2>1 DEF SyncTypes
<1> QED
  BY <1>0, <1>2, <1>3, Parts, RunKept

LEMMA FoldKeeps ==
  ASSUME SyncInv, NEW ok \in BOOLEAN, FoldOne(ok)
  PROVE  SyncInv'
<1> DEFINE w == Min(sync.cand)
           new == sync.batch[w]
<1>0. sync \in SyncState /\ sync.pc = "fold" /\ sync.cand # {} /\ sync.undo = 0
      /\ UNCHANGED <<catalogVars, cursor, mirror>> /\ sync.cand \in SUBSET Works
  BY Parts DEF FoldOne, SyncState
<1>1. w \in sync.cand /\ w \in Works /\ new \in Works
  <2>1. IsFiniteSet(sync.cand) /\ sync.cand \subseteq Nat
    BY <1>0, WorksOK, FS_Subset
  <2>2. w \in sync.cand
    BY <1>0, <2>1, Largest
  <2> QED BY <1>0, <2>2, Parts
<1>2. forum' \in PlainDb /\ forum'.table = "resource"
  <2>1. forum' = forum \/ forum' = FoldTx(forum, w, new)
    BY DEF FoldOne
  <2> HIDE DEF w, new
  <2>2. CarriesOn(forum, w, new, FoldTx(forum, w, new))
    BY <1>1, Parts, FoldCarriesOn
  <2> QED BY <2>1, <2>2, Parts DEF CarriesOn
<1>3. parked' \in [Works -> Works \cup {0}]
  <2>1. parked' = Unpark({w}) \/ parked' = Park({w})
    BY DEF FoldOne
  <2> HIDE DEF w
  <2>2. {w} \in SUBSET Works
    BY <1>1
  <2> QED BY <2>1, <2>2, ParkTypes
<1>4. SyncTypes(sync') /\ sync'.undo = 0
  <2>1. CASE sync.cand = {w}
    <3>1. sync' = BatchDone(sync)
      BY <2>1 DEF FoldOne
    <3> QED BY <1>0, <3>1, DoneTypes
  <2>2. CASE sync.cand # {w}
    <3>1. sync' = [sync EXCEPT !.cand = @ \ {w}]
      BY <2>2 DEF FoldOne
    <3> HIDE DEF w
    <3>2. sync.cand \ {w} # {}
      BY <1>1, <2>2
    <3>3. sync' \in SyncState /\ sync'.cand = sync.cand \ {w} /\ sync'.pc = "fold" /\ sync'.undo = 0
          /\ sync'.batch = sync.batch
      BY <1>0, <3>1 DEF SyncState
    <3>4. \A v \in sync'.cand : sync'.batch[v] # 0
      BY <3>3, Parts, WorksOK
    <3> QED BY <3>2, <3>3, <3>4 DEF SyncTypes
  <2> QED BY <2>1, <2>2
<1> QED
  BY <1>0, <1>2, <1>3, <1>4, Parts, RunKept

LEMMA FetchKeeps ==
  ASSUME SyncInv, Fetch
  PROVE  SyncInv'
<1> DEFINE page == PageAfter(sync.at)
           next == IF Cardinality(After(sync.at)) > PageLimit THEN turn[Last(page)] ELSE 0
           items == [i \in DOMAIN page |-> [old |-> page[i], current |-> Current(page[i])]]
<1>0. sync \in SyncState /\ sync.pc = "fetch" /\ sync.cand = {} /\ sync.undo = 0
      /\ UNCHANGED <<catalogVars, forum, cursor, parked, mirror>>
  BY Parts DEF Fetch
<1>1. page \in Seq(Works)
  BY <1>0, PageIsWorks DEF SyncInv, SyncState
<1>2. SyncTypes(sync') /\ sync'.undo = 0
  <2>1. CASE page = <<>>
    BY <2>1, IdleTyped DEF Fetch
  <2>2. CASE page # <<>>
    <3>1. sync' = [sync EXCEPT !.pc = "apply", !.retry = FALSE, !.batch = Nothing,
                               !.next = next, !.page = items]
      BY <2>2 DEF Fetch
    <3>2. next \in Nat
      <4> HIDE DEF page
      <4>1. Last(page) \in Works
        BY <1>1, <2>2 DEF Last
      <4> QED BY <4>1 DEF SyncInv
    <3>3. items \in Seq([old : Works, current : Works])
      <4> HIDE DEF page
      <4>1. DOMAIN page = 1 .. Len(page) /\ Len(page) \in Nat /\ \A i \in DOMAIN page : page[i] \in Works
        BY <1>1
      <4>2. items \in [1 .. Len(page) -> [old : Works, current : Works]]
        BY <4>1, Parts
      <4> DEFINE Item == [old : Works, current : Works]
      <4> HIDE DEF items
      <4>3. items \in [1 .. Len(page) -> Item]
        BY <4>2
      <4> HIDE DEF Item
      <4>4. items \in Seq(Item)
        BY <4>1, <4>3
      <4> QED BY <4>4 DEF Item
    <3>4. Nothing \in [Works -> Works \cup {0}]
      BY DEF Nothing
    <3> HIDE DEF next, items
    <3>5. sync' \in SyncState /\ sync'.cand = {} /\ sync'.pc = "apply" /\ sync'.undo = 0
      BY <1>0, <3>1, <3>2, <3>3, <3>4 DEF SyncState
    <3> QED BY <3>5 DEF SyncTypes
  <2> QED BY <2>1, <2>2
<1> QED
  BY <1>0, <1>2, Parts, RunKept

LEMMA ApplyKeeps ==
  ASSUME SyncInv, ApplyItem
  PROVE  SyncInv'
<1> DEFINE it == Head(sync.page)
           undo == IF ActiveFold(forum, it.old) # 0
                      /\ (it.current = it.old \/ Repointed(it.old, it.current)) THEN it.old ELSE 0
           b == [sync.batch EXCEPT ![it.old] = IF it.current = it.old THEN @ ELSE it.current]
<1>0. sync \in SyncState /\ sync.pc = "apply" /\ sync.cand = {} /\ sync.page # <<>>
      /\ UNCHANGED <<catalogVars, forum, cursor, mirror>>
  BY Parts DEF ApplyItem
<1>1. it \in [old : Works, current : Works] /\ Tail(sync.page) \in Seq([old : Works, current : Works])
  <2> DEFINE Item == [old : Works, current : Works]
  <2>1. sync.page \in Seq(Item)
    BY <1>0 DEF SyncState
  <2> HIDE DEF Item
  <2>2. Head(sync.page) \in Item /\ Tail(sync.page) \in Seq(Item)
    BY <1>0, <2>1
  <2> QED BY <2>2 DEF Item
<1>2. sync' = [sync EXCEPT !.page = Tail(sync.page), !.undo = undo, !.batch = b]
  BY DEF ApplyItem
<1>3. undo \in Works \cup {0} /\ (undo # 0 => ActiveFold(forum, undo) # 0)
  BY <1>1
<1>4. b \in [Works -> Works \cup {0}]
  BY <1>0, <1>1 DEF SyncState
<1>5. parked' \in [Works -> Works \cup {0}]
  <2>1. parked' = Unpark({it.old}) \/ parked' = parked
    BY DEF ApplyItem
  <2>2. {it.old} \in SUBSET Works
    BY <1>1
  <2> HIDE DEF it
  <2> QED BY <2>1, <2>2, Parts, ParkTypes
<1>6. sync' \in SyncState /\ sync'.cand = {} /\ sync'.pc = "apply" /\ sync'.undo = undo
  <2> HIDE DEF undo, b
  <2> QED BY <1>0, <1>1, <1>2, <1>3, <1>4 DEF SyncState
<1>7. SyncTypes(sync') /\ (sync'.undo # 0 => ActiveFold(forum', sync'.undo) # 0)
  <2> HIDE DEF undo
  <2> QED BY <1>0, <1>3, <1>6 DEF SyncTypes
<1> QED
  BY <1>0, <1>5, <1>7, Parts, RunKept

LEMMA UnfoldKeeps ==
  ASSUME SyncInv, UnfoldOne
  PROVE  SyncInv'
<1> DEFINE w == sync.undo
           after == Unfold(forum, w)
           undo == IF ActiveFold(after, w) = 0 THEN 0 ELSE w
<1>0. sync \in SyncState /\ sync.pc = "apply" /\ sync.cand = {} /\ w \in Works /\ w # 0
      /\ UNCHANGED <<catalogVars, parked, cursor, mirror>> /\ forum' = after
  BY Parts DEF UnfoldOne, SyncState
<1>1. after \in PlainDb /\ after.table = "resource"
  <2>1. ActiveFold(forum, w) \in DOMAIN forum.folds
    BY <1>0, Parts, ActiveFoldIsNewest
  <2> HIDE DEF w
  <2>2. TakesBack(forum, ActiveFold(forum, w), Unfold(forum, w))
    BY <2>1, Parts, UnfoldTakesBack
  <2> QED BY <2>2, Parts DEF TakesBack
<1>2. sync' = [sync EXCEPT !.undo = undo]
  BY DEF UnfoldOne
<1>3. undo \in Works \cup {0} /\ (undo # 0 => ActiveFold(after, undo) # 0)
  BY <1>0
<1>4. sync' \in SyncState /\ sync'.cand = {} /\ sync'.pc = "apply" /\ sync'.undo = undo
  <2> HIDE DEF undo, w
  <2> QED BY <1>0, <1>2, <1>3 DEF SyncState
<1>5. SyncTypes(sync') /\ (sync'.undo # 0 => ActiveFold(forum', sync'.undo) # 0)
  <2> HIDE DEF undo, after
  <2> QED BY <1>0, <1>3, <1>4 DEF SyncTypes
<1> QED
  BY <1>0, <1>1, <1>5, Parts, RunKept

LEMMA AdvanceKeeps ==
  ASSUME SyncInv, Advance \/ RunStops
  PROVE  SyncInv'
<1>0. sync \in SyncState /\ UNCHANGED <<catalogVars, forum, parked, mirror>>
  BY Parts DEF Advance, RunStops
<1>1. sync' = SyncIdle \/ sync' = [SyncIdle EXCEPT !.pc = "fetch", !.at = sync.next]
  BY DEF Advance, RunStops
<1>2. cursor' \in Nat
  BY <1>0, Parts DEF Advance, RunStops, SyncState
<1>3. SyncTypes(sync') /\ sync'.undo = 0
  <2>1. CASE sync' = SyncIdle
    BY <2>1, IdleTyped
  <2>2. CASE sync' = [SyncIdle EXCEPT !.pc = "fetch", !.at = sync.next]
    <3>1. sync' \in SyncState
      BY <1>0, <2>2, IdleTyped DEF SyncState
    <3>2. sync'.cand = {} /\ sync'.pc = "fetch" /\ sync'.undo = 0
      BY <2>2 DEF SyncIdle
    <3> QED BY <3>1, <3>2 DEF SyncTypes
  <2> QED BY <1>1, <2>1, <2>2
<1> QED
  BY <1>0, <1>2, <1>3, Parts, RunKept

(* Every step of the sync keeps the invariant.                             *)
LEMMA SyncSteps ==
  ASSUME SyncInv, [SyncNext]_syncVars
  PROVE  SyncInv'
<1>1. CASE Catalog
  BY <1>1, CatalogKeeps
<1>2. CASE \E r \in Row : LeaveRow(r)
  BY <1>2, RowKeeps
<1>3. CASE Mirror
  BY <1>3, MirrorKeeps
<1>4. CASE Run
  <2>1. TRUE \in BOOLEAN
    OBVIOUS
  <2> QED BY <1>4, <2>1, BeginsKeeps, RefreshKeeps, CandidatesKeep, LookUpKeeps, FoldKeeps,
             FetchKeeps, ApplyKeeps, UnfoldKeeps, AdvanceKeeps DEF Run
<1>5. CASE RunFails
  <2>1. FALSE \in BOOLEAN
    OBVIOUS
  <2> QED BY <1>5, <2>1, RefreshKeeps, CandidatesKeep, LookUpKeeps, FoldKeeps, AdvanceKeeps DEF RunFails
<1>6. CASE UNCHANGED syncVars
  <2>1. UNCHANGED <<parent, hidden, turn, forum, parked, cursor, sync, mirror>>
    BY <1>6 DEF syncVars, catalogVars
  <2> QED BY <2>1 DEF SyncInv, TurnsApart
<1> QED
  BY <1>1, <1>2, <1>3, <1>4, <1>5, <1>6 DEF SyncNext

(* Every variable of the sync keeps its type; a run folds only what is in  *)
(* its batch and undoes folds only while it applies a page, through every  *)
(* change of catalog, failure and restart.                                 *)
THEOREM SyncTypeCorrect == SyncSpec => []TypeOK
<1>1. SyncInv => TypeOK
  <2> SUFFICES ASSUME SyncInv PROVE TypeOK
    OBVIOUS
  <2>1. forum.at \in [Row -> Works \cup {0}]
    BY Parts, PlainParts
  <2>2. sync.cand \subseteq InBatch /\ sync.rend \subseteq Works /\ sync.batch \in [Works -> Works \cup {0}]
    BY DEF SyncInv, SyncTypes, SyncState, InBatch
  <2> QED BY <2>1, <2>2, Parts DEF SyncInv, TypeOK
<1> QED
  BY <1>1, SyncStarts, SyncSteps, PTL DEF SyncSpec
=============================================================================
