----------------------------- MODULE FoldLemmas -----------------------------
(***************************************************************************)
(* What a fold over a sequence computes, for any operation: the last of a  *)
(* series of values, each made of the one before and the next item.  The   *)
(* proof is by induction on sets of numbers, so that an invariant of the   *)
(* series can be proved the same way.                                      *)
(***************************************************************************)
EXTENDS Naturals, Sequences, SequencesExt, FiniteSets, FiniteSetTheorems,
        WellFoundedInduction, TLAPS

CONSTANT Op(_, _)      \* the operation: of the value so far and the next item

(***************************************************************************)
(* Induction, with sets in the place of properties.                        *)
(***************************************************************************)
LEMMA LeastNumber ==
    ASSUME NEW T, T \subseteq Nat, T # {}
    PROVE  \E n \in T : \A m \in T : n <= m
<1>1. PICK n \in T : \A m \in T : <<m, n>> \notin OpToRel(<, Nat)
  BY NatLessThanWellFounded, WFMin
<1>2. ASSUME NEW m \in T
      PROVE  n <= m
  <2>1. ~(m < n)
    BY <1>1 DEF OpToRel
  <2> QED  BY <2>1
<1> QED  BY <1>2

LEMMA UpTo ==
    ASSUME NEW n \in Nat, NEW P, 0 \in P,
           \A k \in 1 .. n : k - 1 \in P => k \in P
    PROVE  0 .. n \subseteq P
<1> DEFINE Out == (0 .. n) \ P
<1>1. SUFFICES ASSUME Out # {}
               PROVE  FALSE
  OBVIOUS
<1>2. PICK k \in Out : \A m \in Out : k <= m
  <2>1. Out \subseteq Nat
    OBVIOUS
  <2> QED  BY <1>1, <2>1, LeastNumber
<1>3. k \in 1 .. n /\ k - 1 \notin Out /\ k - 1 \in 0 .. n
  <2>1. k \in 0 .. n /\ k # 0
    BY <1>2
  <2>2. k \in 1 .. n /\ k - 1 \in 0 .. n /\ ~(k <= k - 1)
    BY <2>1
  <2> HIDE DEF Out
  <2> QED  BY <1>2, <2>2
<1> QED  BY <1>2, <1>3

(***************************************************************************)
(* The fold.                                                               *)
(***************************************************************************)
LEMMA MaxOf ==
    ASSUME NEW n \in Nat, NEW S \in SUBSET (1 .. n), S # {}
    PROVE  Max(S) \in S /\ \A m \in S : m <= Max(S)
<1> DEFINE T == {n - m : m \in S}
<1>1. T \subseteq Nat /\ T # {}
  <2>1. ASSUME NEW m \in S
        PROVE  n - m \in Nat
    <3>1. m \in 1 .. n
      OBVIOUS
    <3> QED  BY <3>1
  <2> QED  BY <2>1
<1>2. PICK t \in T : \A u \in T : t <= u
  BY <1>1, LeastNumber
<1>3. PICK m \in S : t = n - m
  BY <1>2
<1>4. ASSUME NEW k \in S
      PROVE  m >= k
  <2>1. n - m <= n - k
    BY <1>2, <1>3
  <2> QED  BY <2>1
<1> HIDE DEF T
<1>5. Max(S) \in S /\ \A k \in S : Max(S) >= k
  BY <1>3, <1>4 DEF Max
<1> QED  BY <1>5

\* The value that MapThenFoldSet gives a set of places.
Value(base, seq, it, S) == IF S = {} THEN base ELSE Op(it[S \ {Max(S)}], seq[Max(S)])
Sized(n, k) == {S \in SUBSET (1 .. n) : Cardinality(S) <= k}
Values(base, seq, n, k, it) == it = [S \in Sized(n, k) |-> Value(base, seq, it, S)]

LEMMA Sizes ==
    ASSUME NEW n \in Nat, NEW S \in SUBSET (1 .. n)
    PROVE  /\ Cardinality(S) \in 0 .. n
           /\ Cardinality(S) = 0 => S = {}
           /\ S # {} => /\ Max(S) \in S
                        /\ Cardinality(S \ {Max(S)}) = Cardinality(S) - 1
<1>1. IsFiniteSet(1 .. n) /\ Cardinality(1 .. n) = n
  BY FS_Interval
<1>2. IsFiniteSet(S) /\ Cardinality(S) \in Nat /\ Cardinality(S) <= n
  BY <1>1, FS_Subset, FS_CardinalityType
<1>3. Cardinality(S) = 0 => S = {}
  BY <1>2, FS_EmptySet
<1>4. ASSUME S # {}
      PROVE  /\ Max(S) \in S
             /\ Cardinality(S \ {Max(S)}) = Cardinality(S) - 1
  BY <1>2, <1>4, MaxOf, FS_RemoveElement
<1> QED  BY <1>2, <1>3, <1>4

LEMMA ValuesExist ==
    ASSUME NEW base, NEW seq, NEW n \in Nat
    PROVE  \E it : Values(base, seq, n, n, it)
<1> DEFINE P == {k \in 0 .. n : \E it : Values(base, seq, n, k, it)}
<1>1. 0 \in P
  <2> DEFINE it == [S \in Sized(n, 0) |-> base]
  <2>1. ASSUME NEW S \in Sized(n, 0)
        PROVE  S = {}
    <3>1. S \in SUBSET (1 .. n) /\ Cardinality(S) <= 0
      BY DEF Sized
    <3>2. Cardinality(S) \in 0 .. n /\ (Cardinality(S) = 0 => S = {})
      BY <3>1, Sizes
    <3> QED  BY <3>1, <3>2
  <2>2. Values(base, seq, n, 0, it)
    BY <2>1 DEF Values, Value
  <2> QED  BY <2>2
<1>2. ASSUME NEW k \in 1 .. n, k - 1 \in P
      PROVE  k \in P
  <2>1. PICK less : Values(base, seq, n, k - 1, less)
    BY <1>2
  <2> DEFINE it == [S \in Sized(n, k) |-> Value(base, seq, less, S)]
  <2>2. ASSUME NEW S \in Sized(n, k)
        PROVE  Value(base, seq, less, S) = Value(base, seq, it, S)
    <3>1. CASE S = {}
      BY <3>1 DEF Value
    <3>2. CASE S # {}
      <4> DEFINE R == S \ {Max(S)}
      <4>1. S \in SUBSET (1 .. n) /\ Cardinality(S) <= k
        BY DEF Sized
      <4>2. R \in SUBSET (1 .. n) /\ Cardinality(R) = Cardinality(S) - 1 /\ Cardinality(S) \in 0 .. n
        BY <3>2, <4>1, Sizes
      <4>3. Cardinality(R) <= k - 1 /\ Cardinality(R) <= k
        BY <4>1, <4>2
      <4>4. R \in Sized(n, k - 1) /\ R \in Sized(n, k)
        BY <4>2, <4>3 DEF Sized
      <4> HIDE DEF R
      <4>5. less[R] = Value(base, seq, less, R)
        BY <2>1, <4>4 DEF Values
      <4>6. it[R] = Value(base, seq, less, R)
        BY <4>4
      <4> QED  BY <3>2, <4>5, <4>6 DEF Value, R
    <3> QED  BY <3>1, <3>2
  <2>3. Values(base, seq, n, k, it)
    BY <2>2 DEF Values
  <2> QED  BY <2>3
<1> HIDE DEF P
<1>3. 0 .. n \subseteq P
  BY <1>1, <1>2, UpTo
<1>4. n \in P
  BY <1>3
<1> QED  BY <1>4 DEF P

\* What FoldLeft(Op, base, seq) is once its definition is expanded.
Folded(base, seq) ==
    (CHOOSE it : it = [S \in SUBSET (DOMAIN seq) |-> Value(base, seq, it, S)])[DOMAIN seq]

LEMMA FoldIs ==
    ASSUME NEW base, NEW seq
    PROVE  FoldLeft(Op, base, seq) = Folded(base, seq)
BY DEF FoldLeft, MapThenFoldSet, Folded, Value

\* The values of the fold from the first item to the last.
Series(base, seq, n, at) == /\ at[0] = base
                            /\ \A k \in 1 .. n : at[k] = Op(at[k - 1], seq[k])
                            /\ at[n] = Folded(base, seq)

LEMMA LeftFold ==
    ASSUME NEW base, NEW seq, NEW n \in Nat, DOMAIN seq = 1 .. n
    PROVE  \E at : Series(base, seq, n, at)
<1>1. Sized(n, n) = SUBSET (1 .. n)
  <2>1. ASSUME NEW S \in SUBSET (1 .. n)
        PROVE  Cardinality(S) <= n
    <3>1. Cardinality(S) \in 0 .. n
      BY Sizes
    <3> QED  BY <3>1
  <2> QED  BY <2>1 DEF Sized
<1>2. PICK it : Values(base, seq, n, n, it)
  BY ValuesExist
<1>3. it = [S \in SUBSET (1 .. n) |-> Value(base, seq, it, S)]
  BY <1>1, <1>2 DEF Values
<1> DEFINE f == CHOOSE g : g = [S \in SUBSET (DOMAIN seq) |-> Value(base, seq, g, S)]
<1>4. f = [S \in SUBSET (1 .. n) |-> Value(base, seq, f, S)]
  BY <1>3
<1> HIDE DEF f
<1> DEFINE at == [k \in 0 .. n |-> f[1 .. k]]
<1>5. at[0] = base
  <2>1. 1 .. 0 = {} /\ 1 .. 0 \in SUBSET (1 .. n)
    OBVIOUS
  <2>2. f[1 .. 0] = Value(base, seq, f, 1 .. 0)
    BY <1>4, <2>1
  <2> QED  BY <2>1, <2>2 DEF Value
<1>6. ASSUME NEW k \in 1 .. n
      PROVE  at[k] = Op(at[k - 1], seq[k])
  <2>1. 1 .. k \in SUBSET (1 .. n) /\ 1 .. k # {} /\ k \in 1 .. k
    <3>1. k \in 1 .. k /\ \A m \in 1 .. k : m \in 1 .. n
      OBVIOUS
    <3> QED  BY <3>1
  <2>2. Max(1 .. k) = k
    <3>1. Max(1 .. k) \in 1 .. k /\ k <= Max(1 .. k)
      BY <2>1, MaxOf
    <3> QED  BY <3>1
  <2>3. (1 .. k) \ {k} = 1 .. (k - 1)
    OBVIOUS
  <2>4. f[1 .. k] = Value(base, seq, f, 1 .. k)
    BY <1>4, <2>1
  <2>5. f[1 .. k] = Op(f[1 .. (k - 1)], seq[k])
    BY <2>1, <2>2, <2>3, <2>4 DEF Value
  <2>6. k \in 0 .. n /\ k - 1 \in 0 .. n
    OBVIOUS
  <2> QED  BY <2>5, <2>6
<1>7. Folded(base, seq) = f[1 .. n]
  BY DEF f, Folded
<1>8. at[n] = f[1 .. n]
  OBVIOUS
<1> HIDE DEF at
<1>9. Series(base, seq, n, at)
  BY <1>5, <1>6, <1>7, <1>8 DEF Series
<1> QED  BY <1>9
=============================================================================
