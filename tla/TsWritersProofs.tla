-------------------------- MODULE TsWritersProofs --------------------------
(***************************************************************************)
(* What each writer of runtime/ts/src does to an encoder, for values of    *)
(* any size: it appends the bytes of the format, or throws, and what was   *)
(* written before stays.                                                   *)
(*                                                                         *)
(* Kept says which cells of which arrays stay: those before the position,  *)
(* in the array in use and, unless transfer() detached it, in the one that *)
(* was outgrown.  Writes adds what follows them.  It composes (WritesBoth, *)
(* SlabFold), so that a value is followed from its bytes to its field and  *)
(* its list.  Grown and Slab are Writes for encoders that grow their array *)
(* and for those that do not.                                              *)
(***************************************************************************)
EXTENDS TsRuntimes, SequenceTheorems, WellFoundedInduction, TLAPS

-----------------------------------------------------------------------------
(* Numbers, sequences and folds.                                           *)

\* A set of naturals that is not empty has a lowest element.
LEMMA NatLowest ==
  ASSUME NEW S \in SUBSET Nat, S # {}
  PROVE  \E n \in S : \A m \in S : n <= m
<1>1. PICK n \in S : \A m \in S : ~ (<<m, n>> \in OpToRel(<, Nat))
  BY NatLessThanWellFounded, WFMin
<1>2. ASSUME NEW m \in S
      PROVE  n <= m
  <2>1. m \in Nat /\ n \in Nat
    OBVIOUS
  <2>2. ~(m < n)
    BY <1>1, <2>1 DEF OpToRel
  <2> QED
    BY <2>1, <2>2
<1> QED
  BY <1>2

\* Induction up to n: the set S of the numbers for which something holds has n.
LEMMA Reaches ==
  ASSUME NEW n \in Nat, NEW S, 0 \in S, \A i \in 1..n : i - 1 \in S => i \in S
  PROVE  n \in S
<1> DEFINE T == {i \in 0..n : i \notin S}
<1>1. CASE T # {}
  <2>1. PICK i \in T : \A j \in T : i <= j
    <3>1. T \in SUBSET Nat
      OBVIOUS
    <3> HIDE DEF T
    <3> QED
      BY <1>1, <3>1, NatLowest
  <2>2. i \in 1..n /\ i - 1 \in 0..n /\ i - 1 \notin T
    BY <2>1
  <2> QED
    BY <2>1, <2>2
<1>2. CASE T = {}
  BY <1>2
<1> QED
  BY <1>1, <1>2

\* The same of every number.
LEMMA ReachesAll ==
  ASSUME NEW S, 0 \in S, \A i \in Nat \ {0} : i - 1 \in S => i \in S
  PROVE  \A n \in Nat : n \in S
<1> SUFFICES ASSUME NEW n \in Nat PROVE n \in S
  OBVIOUS
<1> QED
  BY Reaches

LEMMA MaxOfUpTo ==
  ASSUME NEW n \in Nat, NEW s \in SUBSET (1..n), NEW k \in s, \A i \in s : i <= k
  PROVE  Max(s) = k
<1>1. \A x \in s : (\A y \in s : x >= y) => x = k
  OBVIOUS
<1> QED
  BY <1>1 DEF Max

\* A set of numbers with a bound has a greatest.
LEMMA MaxIsIn ==
  ASSUME NEW n \in Nat, NEW s \in SUBSET (0..n), s # {}
  PROVE  Max(s) \in s /\ \A i \in s : i <= Max(s)
<1> DEFINE T == {n - i : i \in s}
<1>1. T \in SUBSET Nat /\ T # {}
  <2>1. \A i \in s : n - i \in Nat
    OBVIOUS
  <2> QED
    BY <2>1
<1>2. PICK k \in T : \A j \in T : k <= j
  <2> HIDE DEF T
  <2> QED
    BY <1>1, NatLowest
<1>3. PICK m \in s : k = n - m
  BY <1>2
<1>4. \A i \in s : m >= i
  BY <1>2, <1>3
<1> QED
  BY <1>3, <1>4 DEF Max

\* f folds from b: for s, g of the last number in s and of what f has without it.
Folds(f, n, V, b, g) ==
  /\ f = [s \in SUBSET (1..n) |-> f[s]] /\ f[{}] = b
  /\ \A s \in SUBSET (1..n) : s # {} =>
       /\ Max(s) \in 1..n /\ f[s \ {Max(s)}] \in V
       /\ f[s] = g[<<Max(s), f[s \ {Max(s)}]>>]

LEMMA FoldsExist ==
  ASSUME NEW V, NEW n \in Nat, NEW b \in V, NEW g \in [(1..n) \X V -> V]
  PROVE  \E f : Folds(f, n, V, b, g)
<1> DEFINE Solves(f, k) ==
             \A s \in SUBSET (1..k) :
               f[s] = IF s = {} THEN b ELSE g[<<Max(s), f[s \ {Max(s)}]>>]
           Solvable(k) == \E f \in [SUBSET (1..k) -> V] : Solves(f, k)
           S == {k \in 0..n : Solvable(k)}
<1>1. Solvable(0)
  <2> DEFINE f == [s \in SUBSET (1..0) |-> b]
  <2>1. SUBSET (1..0) = {{}}
    OBVIOUS
  <2>2. f \in [SUBSET (1..0) -> V] /\ Solves(f, 0)
    BY <2>1
  <2> HIDE DEF f, Solves
  <2> QED
    BY <2>2
<1>2. ASSUME NEW k \in 1..n, Solvable(k - 1)
      PROVE  Solvable(k)
  <2>1. PICK f \in [SUBSET (1..(k - 1)) -> V] : Solves(f, k - 1)
    BY <1>2
  <2> DEFINE h == [s \in SUBSET (1..k) |-> IF k \in s THEN g[<<k, f[s \ {k}]>>] ELSE f[s]]
  <2>2. ASSUME NEW s \in SUBSET (1..k)
        PROVE  /\ s \ {k} \in SUBSET (1..(k - 1)) /\ s \ {k} \in SUBSET (1..k)
               /\ k \notin s => s \in SUBSET (1..(k - 1)) /\ s = s \ {k}
    OBVIOUS
  <2>3. ASSUME NEW s \in SUBSET (1..k)
        PROVE  h[s] \in V
    <3>1. k \in 1..n /\ f[s \ {k}] \in V
      BY <2>2
    <3> QED
      BY <2>2, <3>1
  <2>4. h \in [SUBSET (1..k) -> V]
    BY <2>3
  <2>5. ASSUME NEW s \in SUBSET (1..k)
        PROVE  h[s] = IF s = {} THEN b ELSE g[<<Max(s), h[s \ {Max(s)}]>>]
    <3>1. CASE k \in s
      <4>1. Max(s) = k
        <5>1. k \in Nat /\ \A i \in s : i <= k
          OBVIOUS
        <5> QED
          BY <3>1, <5>1, MaxOfUpTo
      <4>2. h[s \ {k}] = f[s \ {k}]
        BY <2>2
      <4> QED
        BY <3>1, <4>1, <4>2
    <3>2. CASE k \notin s
      <4>1. h[s] = f[s] /\ s \in SUBSET (1..(k - 1))
        BY <3>2, <2>2
      <4>2. s # {} => Max(s) \in s
        BY MaxIsIn, s \in SUBSET (0..k), k \in Nat
      <4>3. s # {} => h[s \ {Max(s)}] = f[s \ {Max(s)}]
        BY <3>2, <4>1, <4>2
      <4> QED
        BY <2>1, <4>1, <4>3
    <3> QED
      BY <3>1, <3>2
  <2>6. Solves(h, k)
    <3> HIDE DEF h
    <3> QED
      BY <2>5
  <2> HIDE DEF h, Solves
  <2> QED
    BY <2>4, <2>6
<1>3. n \in S
  <2>1. 0 \in S /\ \A k \in 1..n : k - 1 \in S => k \in S
    <3> HIDE DEF Solvable
    <3> QED
      BY <1>1, <1>2
  <2> HIDE DEF S
  <2> QED
    BY <2>1, Reaches
<1>4. PICK f \in [SUBSET (1..n) -> V] : Solves(f, n)
  BY <1>3
<1>5. ASSUME NEW s \in SUBSET (1..n), s # {}
      PROVE  Max(s) \in 1..n /\ f[s \ {Max(s)}] \in V
  <2>1. s \in SUBSET (0..n)
    OBVIOUS
  <2>2. Max(s) \in s
    BY <1>5, <2>1, MaxIsIn
  <2>3. s \ {Max(s)} \in SUBSET (1..n)
    OBVIOUS
  <2> QED
    BY <2>2, <2>3
<1>6. {} \in SUBSET (1..n)
  OBVIOUS
<1> QED
  BY <1>4, <1>5, <1>6 DEF Folds

\* What each step of a fold keeps, the fold has.
LEMMA FoldStays ==
  ASSUME NEW n \in Nat, NEW h, NEW W, h[{}] \in W[0],
         \A i \in 1..n : h[1..(i - 1)] \in W[i - 1] => h[1..i] \in W[i]
  PROVE  h[1..n] \in W[n]
<1> DEFINE S == {i \in 0..n : h[1..i] \in W[i]}
<1>1. 0 \in S
  <2>1. 1..0 = {}
    OBVIOUS
  <2> QED
    BY <2>1
<1>2. \A i \in 1..n : i - 1 \in S => i \in S
  OBVIOUS
<1>3. n \in S
  <2> HIDE DEF S
  <2> QED
    BY <1>1, <1>2, Reaches
<1> QED
  BY <1>3

\* The sets that a fold over n items goes through.
LEMMA UpToStep ==
  ASSUME NEW n \in Nat, NEW i \in 1..n
  PROVE  /\ 1..i \in SUBSET (1..n) /\ 1..(i - 1) \in SUBSET (1..n)
         /\ 1..i # {} /\ Max(1..i) = i /\ (1..i) \ {i} = 1..(i - 1)
<1>1. Max(1..i) = i
  <2>1. /\ 1..i \in SUBSET (1..n) /\ i \in 1..i /\ \A j \in 1..i : j <= i
    OBVIOUS
  <2> QED
    BY <2>1, MaxOfUpTo
<1> QED
  BY <1>1

-----------------------------------------------------------------------------
\* f[i] is the first i sequences of ss, one after another.
Joins(f, ss) ==
  f[0] = <<>> /\ \A i \in 1..Len(ss) : f[i] = f[i - 1] \o ss[i]

LEMMA JoinsExists ==
  ASSUME NEW A, NEW ss \in Seq(Seq(A))
  PROVE  \E f \in [0..Len(ss) -> Seq(A)] : Joins(f, ss)
<1> DEFINE n == Len(ss)
           Solves(f, k) == f[0] = <<>> /\ \A i \in 1..k : f[i] = f[i - 1] \o ss[i]
           Solvable(k) == \E f \in [0..k -> Seq(A)] : Solves(f, k)
           S == {k \in 0..n : Solvable(k)}
<1>1. Solvable(0)
  <2> DEFINE f == [i \in 0..0 |-> <<>>]
  <2>1. <<>> \in Seq(A)
    OBVIOUS
  <2>2. f \in [0..0 -> Seq(A)] /\ Solves(f, 0)
    BY <2>1
  <2> HIDE DEF f, Solves
  <2> QED
    BY <2>2
<1>2. ASSUME NEW k \in 1..n, Solvable(k - 1)
      PROVE  Solvable(k)
  <2>1. PICK f \in [0..(k - 1) -> Seq(A)] : Solves(f, k - 1)
    BY <1>2
  <2> DEFINE h == [i \in 0..k |-> IF i = k THEN f[k - 1] \o ss[k] ELSE f[i]]
  <2>2. f[k - 1] \in Seq(A) /\ ss[k] \in Seq(A)
    BY k - 1 \in 0..(k - 1)
  <2>3. f[k - 1] \o ss[k] \in Seq(A)
    BY <2>2
  <2>4. \A i \in 0..k : i # k => i \in 0..(k - 1) /\ f[i] \in Seq(A)
    OBVIOUS
  <2>5. h \in [0..k -> Seq(A)]
    BY <2>3, <2>4
  <2>6. Solves(h, k)
    <3>1. h[0] = <<>>
      BY <2>1
    <3>2. ASSUME NEW i \in 1..k
          PROVE  h[i] = h[i - 1] \o ss[i]
      <4>1. h[i - 1] = f[i - 1]
        OBVIOUS
      <4>2. CASE i = k
        <5>1. h[k] = f[k - 1] \o ss[k]
          <6>1. k \in 0..k
            OBVIOUS
          <6> QED
            BY <6>1
        <5> HIDE DEF h
        <5> QED
          BY <4>1, <4>2, <5>1
      <4>3. CASE i # k
        <5>1. h[i] = f[i] /\ i \in 1..(k - 1)
          BY <4>3
        <5>2. f[i] = f[i - 1] \o ss[i]
          BY <2>1, <5>1
        <5> HIDE DEF h
        <5> QED
          BY <4>1, <5>1, <5>2
      <4> QED
        BY <4>2, <4>3
    <3> QED
      BY <3>1, <3>2
  <2> HIDE DEF h, Solves
  <2> QED
    BY <2>5, <2>6
<1>3. n \in S
  <2>1. 0 \in S /\ (\A k \in 1..n : k - 1 \in S => k \in S) /\ n \in Nat
    <3> HIDE DEF Solvable
    <3> QED
      BY <1>1, <1>2
  <2> HIDE DEF S
  <2> QED
    BY <2>1, Reaches
<1> QED
  BY <1>3 DEF Joins

LEMMA JoinsGivesFlatten ==
  ASSUME NEW A, NEW ss \in Seq(Seq(A)), NEW f, Joins(f, ss)
  PROVE  /\ \A i \in 0..Len(ss) : f[i] \in Seq(A)
         /\ FlattenSeq(ss) = f[Len(ss)]
<1> DEFINE n == Len(ss)
<1>1. n \in Nat /\ (\A i \in 1..n : ss[i] \in Seq(A)) /\ (n = 0 => ss = <<>>)
  OBVIOUS
<1>2. f[0] = <<>> /\ \A i \in 1..n : f[i] = f[i - 1] \o ss[i]
  BY DEF Joins
<1>3. n = Len(ss)
  OBVIOUS
<1> HIDE DEF n
<1>4. ASSUME NEW k \in 0..n
      PROVE  f[k] \in Seq(A)
  <2> DEFINE S == {i \in 0..k : f[i] \in Seq(A)}
  <2>1. 0 \in S /\ \A i \in 1..k : i - 1 \in S => i \in S
    <3>1. <<>> \in Seq(A)
      OBVIOUS
    <3>2. ASSUME NEW i \in 1..k, f[i - 1] \in Seq(A)
          PROVE  f[i] \in Seq(A)
      <4>1. i \in 1..n
        BY <1>1
      <4>2. f[i] = f[i - 1] \o ss[i] /\ ss[i] \in Seq(A)
        BY <1>2, <1>1, <4>1
      <4> QED
        BY <3>2, <4>2
    <3>3. 0 \in 0..k /\ \A i \in 1..k : i \in 0..k
      BY <1>1
    <3> QED
      BY <1>2, <3>1, <3>2, <3>3
  <2>2. k \in S
    <3> HIDE DEF S
    <3> QED
      BY <1>1, <2>1, Reaches
  <2> QED
    BY <2>2
<1>5. CASE n = 0
  <2>1. FlattenSeq(ss) = <<>> /\ f[n] = <<>>
    BY <1>2, <1>1, <1>5, <1>3 DEF FlattenSeq
  <2> QED
    BY <1>4, <1>3, <2>1
<1>6. CASE n # 0
  <2> DEFINE Step(h) == [i \in 1..n |-> IF i = 1 THEN ss[i] ELSE h[i - 1] \o ss[i]]
             F == [i \in 1..n |-> f[i]]
             flatten == CHOOSE h : h = Step(h)
  <2>1. f[1] = ss[1]
    <3>1. 1 \in 1..n /\ 1 - 1 = 0
      BY <1>1, <1>6
    <3>2. f[1] = <<>> \o ss[1] /\ ss[1] \in Seq(A)
      BY <1>2, <1>1, <3>1
    <3> QED
      BY <3>2
  <2>2. F = Step(F)
    <3>1. ASSUME NEW i \in 1..n
          PROVE  f[i] = IF i = 1 THEN ss[i] ELSE F[i - 1] \o ss[i]
      <4>1. CASE i = 1
        BY <2>1, <4>1
      <4>2. CASE i # 1
        <5>1. i - 1 \in 1..n
          BY <1>1, <4>2
        <5>2. F[i - 1] = f[i - 1]
          BY <5>1
        <5> HIDE DEF F
        <5> QED
          BY <1>2, <4>2, <5>2
      <4> QED
        BY <4>1, <4>2
    <3> QED
      BY <3>1
  <2>3. flatten = Step(flatten)
    <3> HIDE DEF Step, F
    <3> QED
      BY <2>2
  <2>4. FlattenSeq(ss) = flatten[n]
    BY <1>6, <1>3 DEF FlattenSeq
  <2>5. \A i \in 1..n : flatten[i] = IF i = 1 THEN ss[i] ELSE flatten[i - 1] \o ss[i]
    <3> HIDE DEF flatten
    <3> QED
      BY <2>3
  <2> DEFINE S == {i \in 0..n : i > 0 => flatten[i] = f[i]}
  <2>6. 0 \in S /\ \A i \in 1..n : i - 1 \in S => i \in S
    <3> HIDE DEF flatten
    <3>1. ASSUME NEW i \in 1..n, i - 1 \in S
          PROVE  flatten[i] = f[i]
      <4>1. CASE i = 1
        BY <2>1, <2>5, <4>1
      <4>2. CASE i # 1
        <5>1. flatten[i - 1] = f[i - 1]
          BY <1>1, <3>1, <4>2
        <5> QED
          BY <1>2, <2>5, <4>2, <5>1
      <4> QED
        BY <4>1, <4>2
    <3> QED
      BY <1>1, <3>1
  <2>7. n \in S
    <3> HIDE DEF S
    <3> QED
      BY <1>1, <2>6, Reaches
  <2> HIDE DEF flatten
  <2> QED
    BY <1>1, <1>4, <1>6, <1>3, <2>4, <2>7
<1> QED
  BY <1>4, <1>5, <1>6

LEMMA FlattenIsSeq ==
  ASSUME NEW A, NEW ss \in Seq(Seq(A))
  PROVE  FlattenSeq(ss) \in Seq(A)
<1>1. PICK f : Joins(f, ss)
  BY JoinsExists
<1>2. Len(ss) \in 0..Len(ss)
  OBVIOUS
<1> QED
  BY <1>1, <1>2, JoinsGivesFlatten

LEMMA FlattenNone == FlattenSeq(<<>>) = <<>>
BY DEF FlattenSeq

LEMMA FlattenCat ==
  ASSUME NEW A, NEW ss \in Seq(Seq(A)), NEW tt \in Seq(Seq(A))
  PROVE  FlattenSeq(ss \o tt) = FlattenSeq(ss) \o FlattenSeq(tt)
<1> DEFINE m == Len(ss)
           n == Len(tt)
<1>1. PICK f \in [0..m -> Seq(A)] : Joins(f, ss)
  BY JoinsExists
<1>2. PICK g \in [0..n -> Seq(A)] : Joins(g, tt)
  BY JoinsExists
<1>3. FlattenSeq(ss) = f[m] /\ FlattenSeq(tt) = g[n]
  BY <1>1, <1>2, JoinsGivesFlatten
<1> DEFINE h == [i \in 0..(m + n) |-> IF i <= m THEN f[i] ELSE f[m] \o g[i - m]]
<1>4. m \in Nat /\ n \in Nat /\ Len(ss \o tt) = m + n /\ ss \o tt \in Seq(Seq(A))
  OBVIOUS
<1>5. f[m] \in Seq(A) /\ g[0] = <<>> /\ f[0] = <<>>
  <2>1. f[m] \in Seq(A)
    BY <1>4, m \in 0..m
  <2> QED
    BY <1>1, <1>2, <2>1 DEF Joins
<1>6. ASSUME NEW i \in 1..(m + n)
      PROVE  h[i] = h[i - 1] \o (ss \o tt)[i]
  <2>1. CASE i <= m
    <3>1. i \in 1..m /\ (ss \o tt)[i] = ss[i] /\ h[i] = f[i] /\ h[i - 1] = f[i - 1]
      BY <1>4, <2>1
    <3> QED
      BY <1>1, <3>1 DEF Joins
  <2>2. CASE i > m
    <3> DEFINE j == i - m
    <3>1. j \in 1..n /\ (ss \o tt)[i] = tt[j] /\ h[i] = f[m] \o g[j]
      BY <1>4, <2>2
    <3>2. h[i - 1] = f[m] \o g[j - 1]
      <4>1. CASE j = 1
        <5>1. f[m] \o <<>> = f[m]
          BY <1>5
        <5> QED
          BY <1>4, <1>5, <4>1, <5>1
      <4>2. CASE j # 1
        BY <1>4, <2>2, <4>2, SMTT(30)
      <4> QED
        BY <4>1, <4>2
    <3> HIDE DEF j, h
    <3>3. g[j - 1] \in Seq(A) /\ tt[j] \in Seq(A)
      <4>1. j - 1 \in 0..n
        BY <1>4, <3>1
      <4>2. tt[j] \in Seq(A)
        BY <3>1
      <4>3. g[j - 1] \in Seq(A)
        BY <4>1
      <4> QED
        BY <4>2, <4>3
    <3>4. g[j] = g[j - 1] \o tt[j]
      BY <1>2, <3>1 DEF Joins
    <3>5. (f[m] \o g[j - 1]) \o tt[j] = f[m] \o (g[j - 1] \o tt[j])
      <4> DEFINE x == f[m]
                 y == g[j - 1]
                 z == tt[j]
      <4>1. x \in Seq(A) /\ y \in Seq(A) /\ z \in Seq(A)
        BY <1>5, <3>3
      <4> HIDE DEF x, y, z
      <4>2. (x \o y) \o z = x \o (y \o z)
        BY <4>1, SMTT(30)
      <4> QED
        BY <4>2 DEF x, y, z
    <3> QED
      BY <3>1, <3>2, <3>4, <3>5
  <2>3. i <= m \/ i > m
    BY <1>4
  <2> HIDE DEF h
  <2> QED
    BY <2>1, <2>2, <2>3
<1>7. Joins(h, ss \o tt)
  <2>1. h[0] = <<>>
    BY <1>4, <1>5
  <2> HIDE DEF h
  <2> QED
    BY <1>4, <1>6, <2>1 DEF Joins
<1>8. FlattenSeq(ss \o tt) = h[m + n]
  <2> HIDE DEF h
  <2> QED
    BY <1>4, <1>7, JoinsGivesFlatten
<1>9. h[m + n] = f[m] \o g[n]
  <2>1. CASE n = 0
    <3>1. f[m] \o <<>> = f[m]
      BY <1>5
    <3> QED
      BY <1>4, <1>5, <2>1, <3>1
  <2>2. CASE n # 0
    BY <1>4, <2>2
  <2> QED
    BY <2>1, <2>2
<1> QED
  BY <1>3, <1>8, <1>9

LEMMA FlattenOne ==
  ASSUME NEW A, NEW s \in Seq(A)
  PROVE  FlattenSeq(<<s>>) = s
<1> DEFINE f == [i \in 0..1 |-> IF i = 0 THEN <<>> ELSE s]
<1>1. <<s>> \in Seq(Seq(A)) /\ Len(<<s>>) = 1 /\ <<s>>[1] = s
  OBVIOUS
<1>2. <<>> \o s = s
  OBVIOUS
<1>3. Joins(f, <<s>>)
  BY <1>1, <1>2 DEF Joins
<1>4. f[1] = s
  OBVIOUS
<1> HIDE DEF f
<1> QED
  BY <1>1, <1>3, <1>4, JoinsGivesFlatten

\* What \o gives.
LEMMA CatIs ==
  ASSUME NEW A, NEW a \in Seq(A), NEW b \in Seq(A)
  PROVE  /\ a \o b \in Seq(A) /\ Len(a \o b) = Len(a) + Len(b)
         /\ Len(a) \in Nat /\ Len(b) \in Nat
         /\ \A i \in 1..Len(a) : (a \o b)[i] = a[i]
         /\ \A i \in 1..Len(b) : (a \o b)[Len(a) + i] = b[i]
OBVIOUS

LEMMA CatAssoc ==
  ASSUME NEW A, NEW a \in Seq(A), NEW b \in Seq(A), NEW c \in Seq(A)
  PROVE  a \o (b \o c) = (a \o b) \o c
OBVIOUS

LEMMA SeqIs ==
  ASSUME NEW A, NEW s \in Seq(A)
  PROVE  /\ Len(s) \in Nat /\ DOMAIN s = 1..Len(s) /\ (\A i \in 1..Len(s) : s[i] \in A)
         /\ SubSeq(s, 1, Len(s)) = s /\ (Len(s) = 0 => s = <<>>)
OBVIOUS

LEMMA ListIs ==
  ASSUME NEW A, NEW n \in Nat, NEW f \in [1..n -> A]
  PROVE  f \in Seq(A) /\ Len(f) = n
OBVIOUS

LEMMA SameSeq ==
  ASSUME NEW A, NEW B, NEW a \in Seq(A), NEW b \in Seq(B), Len(a) = Len(b),
         \A i \in 1..Len(a) : a[i] = b[i]
  PROVE  a = b
OBVIOUS

-----------------------------------------------------------------------------
(* Bytes: digits of three bits, numbers of four and of eight digits.       *)

\* The value of a byte that is preceded by k, a name that the provers take as it is.
Power(k) == Base^k

LEMMA PowerIs ==
  /\ Base = 8 /\ Bytes = 0..7 /\ CompactLengthThreshold = 6 /\ CompactLengthMarker = 7
  /\ Power(0) = 1 /\ Power(1) = 8 /\ Power(2) = 64 /\ Power(3) = 512 /\ Power(4) = 4096
  /\ Power(5) = 32768 /\ Power(6) = 262144 /\ Power(7) = 2097152 /\ Power(8) = 16777216
<1>1. /\ 8^0 = 1 /\ 8^1 = 8 /\ 8^2 = 64 /\ 8^3 = 512 /\ 8^4 = 4096
      /\ 8^5 = 32768 /\ 8^6 = 262144 /\ 8^7 = 2097152 /\ 8^8 = 16777216
  OBVIOUS
<1> QED
  BY <1>1, TsTextAssumption DEF Bytes, CompactLengthThreshold, CompactLengthMarker, Power

LEMMA Places ==
  ASSUME NEW i \in 1..8
  PROVE  Power(i - 1) \in {1, 8, 64, 512, 4096, 32768, 262144, 2097152}
<1>1. i - 1 \in {0, 1, 2, 3, 4, 5, 6, 7}
  OBVIOUS
<1> QED
  BY <1>1, PowerIs

LEMMA LittleEndianIs ==
  ASSUME NEW n \in Int, NEW k \in {4, 8}
  PROVE  /\ LittleEndian(n, k) \in Seq(Bytes) /\ Len(LittleEndian(n, k)) = k
         /\ \A i \in 1..k : LittleEndian(n, k)[i] = (n \div Power(i - 1)) % 8
<1>1. ASSUME NEW i \in 1..k
      PROVE  (n \div Power(i - 1)) % 8 \in 0..7
  <2> DEFINE d == Power(i - 1)
  <2>1. d \in {1, 8, 64, 512, 4096, 32768, 262144, 2097152}
    BY Places, i \in 1..8
  <2> HIDE DEF d
  <2>2. n \div d \in Int
    BY <2>1
  <2>3. (n \div d) % 8 \in 0..7
    BY <2>2
  <2> QED
    BY <2>3 DEF d
<1>2. LittleEndian(n, k) = [i \in 1..k |-> (n \div Power(i - 1)) % Base]
  BY DEF LittleEndian, Power
<1>3. LittleEndian(n, k) = [i \in 1..k |-> (n \div Power(i - 1)) % 8]
  BY <1>2, PowerIs
<1>4. LittleEndian(n, k) \in [1..k -> 0..7]
  BY <1>1, <1>3
<1>5. \A i \in 1..k : LittleEndian(n, k)[i] = (n \div Power(i - 1)) % 8
  BY <1>3
<1>6. LittleEndian(n, k) \in Seq(0..7) /\ Len(LittleEndian(n, k)) = k
  BY <1>4, k \in Nat
<1> QED
  BY <1>5, <1>6, PowerIs

LEMMA NumericIs ==
  /\ \A t \in Numeric : IsFixed(t) /\ Width(t) \in {1, 4, 8}
  /\ Width("bool") = 1 /\ Width("int32") = 4 /\ Width("uint32") = 4 /\ Width("float32") = 4
  /\ Width("int64") = 8 /\ Width("uint64") = 8 /\ Width("float64") = 8
  /\ ValuesOf("bool") = BOOLEAN
  /\ \A t \in Numeric \ {"bool"} : ValuesOf(t) = Int /\ Width(t) \in {4, 8}
  /\ \A t : IsFixed(t) <=> t \in Numeric
  /\ SizeBool = 1 /\ SizeInt32 = 4 /\ SizeInt64 = 8
BY DEF Numeric, IsFixed, Width, SizeBool, SizeInt32, SizeInt64, ValuesOf

LEMMA BoolByteIs ==
  ASSUME NEW v
  PROVE  BoolByte(v) \in Seq(Bytes) /\ Len(BoolByte(v)) = 1
BY PowerIs DEF BoolByte

\* Fixed bytes, with the names that the provers take.
LEMMA FixedBytesIsLittleEndian ==
  ASSUME NEW t, t # "bool", NEW v
  PROVE  FixedBytes(t, v) = LittleEndian(v % Power(Width(t)), Width(t))
BY DEF FixedBytes, Power

LEMMA FixedBytesIs ==
  ASSUME NEW t \in Numeric, NEW v \in ValuesOf(t)
  PROVE  FixedBytes(t, v) \in Seq(Bytes) /\ Len(FixedBytes(t, v)) = Width(t)
<1>1. CASE t = "bool"
  <2>1. FixedBytes(t, v) = BoolByte(v)
    BY <1>1 DEF FixedBytes
  <2> QED
    BY <1>1, <2>1, BoolByteIs, NumericIs
<1>2. CASE t # "bool"
  <2>1. v \in Int /\ Width(t) \in {4, 8}
    BY <1>2, NumericIs
  <2>2. v % Power(Width(t)) \in Int
    <3>1. Power(Width(t)) \in {4096, 16777216}
      BY <2>1, PowerIs
    <3> QED
      BY <2>1, <3>1
  <2> QED
    BY <1>2, <2>1, <2>2, LittleEndianIs, FixedBytesIsLittleEndian
<1> QED
  BY <1>1, <1>2

\* A count, as writeInt32 and OnWire have it.
LEMMA CountIs ==
  ASSUME NEW n \in Int
  PROVE  FixedBytes("int32", n) = LittleEndian(n, SizeInt32)
<1>1. FixedBytes("int32", n) = LittleEndian(n % 4096, 4)
  BY NumericIs, PowerIs, FixedBytesIsLittleEndian
<1>2. n % 4096 \in Int
  OBVIOUS
<1>3. ASSUME NEW i \in 1..4
      PROVE  ((n % 4096) \div Power(i - 1)) % 8 = (n \div Power(i - 1)) % 8
  <2>1. Power(i - 1) \in {1, 8, 64, 512}
    <3>1. i - 1 \in {0, 1, 2, 3}
      OBVIOUS
    <3> QED
      BY <3>1, PowerIs
  <2>2. ((n % 4096) \div 1) % 8 = (n \div 1) % 8
    OBVIOUS
  <2>3. ((n % 4096) \div 8) % 8 = (n \div 8) % 8
    OBVIOUS
  <2>4. ((n % 4096) \div 64) % 8 = (n \div 64) % 8
    OBVIOUS
  <2>5. ((n % 4096) \div 512) % 8 = (n \div 512) % 8
    OBVIOUS
  <2> QED
    BY <2>1, <2>2, <2>3, <2>4, <2>5
<1> DEFINE a == LittleEndian(n % 4096, 4)
           b == LittleEndian(n, 4)
<1>4. /\ a \in Seq(Bytes) /\ Len(a) = 4 /\ b \in Seq(Bytes) /\ Len(b) = 4
      /\ \A i \in 1..4 : a[i] = ((n % 4096) \div Power(i - 1)) % 8
      /\ \A i \in 1..4 : b[i] = (n \div Power(i - 1)) % 8
  BY <1>2, LittleEndianIs
<1> HIDE DEF a, b
<1>5. \A i \in 1..4 : a[i] = b[i]
  BY <1>3, <1>4
<1>6. a = b
  BY <1>4, <1>5
<1> QED
  BY <1>1, <1>6, NumericIs DEF a, b

\* A number of 8 digits in two halves of 4.
LEMMA TwoHalves ==
  ASSUME NEW v \in Int, NEW u \in Int, NEW q \in Int, NEW lo \in Int, NEW hi \in Int,
         0 <= lo, lo < 4096, 0 <= hi, hi < 4096, v = 4096 * u + lo, u = 4096 * q + hi
  PROVE  /\ v % 16777216 = 4096 * hi + lo
         /\ (4096 * hi + lo) \div 4096 = hi
<1>1. v = 16777216 * q + (4096 * hi + lo)
  BY SMT
<1>2. 0 <= 4096 * hi + lo /\ 4096 * hi + lo < 16777216
  BY SMT
<1>3. v % 16777216 = 4096 * hi + lo
  BY <1>1, <1>2, SMT
<1>4. (4096 * hi + lo) \div 4096 = hi
  BY SMT
<1> QED
  BY <1>3, <1>4

\* The halves of a 64-bit number make the number.
LEMMA HalvesIs ==
  ASSUME NEW v \in Int
  PROVE  Halves(v) = FixedBytes("int64", v) /\ Halves(v) = FixedBytes("uint64", v)
<1> DEFINE w == v % 16777216
           lo == v % 4096
           hi == (v \div 4096) % 4096
<1>1. v \div 4096 \in Int /\ w \in Int /\ lo \in Int /\ hi \in Int
  OBVIOUS
<1>2. Halves(v) = LittleEndian(lo, 4) \o LittleEndian(hi, 4)
  <2>1. Halves(v) = FixedBytes("uint32", v) \o FixedBytes("uint32", v \div Power(SizeInt32))
    BY DEF Halves, Power
  <2>2. /\ FixedBytes("uint32", v) = LittleEndian(lo, 4)
        /\ FixedBytes("uint32", v \div 4096) = LittleEndian(hi, 4)
    BY NumericIs, PowerIs, FixedBytesIsLittleEndian
  <2>3. v \div Power(SizeInt32) = v \div 4096
    BY NumericIs, PowerIs
  <2> HIDE DEF lo, hi
  <2> QED
    BY <2>1, <2>2, <2>3
<1>3. FixedBytes("int64", v) = LittleEndian(w, 8) /\ FixedBytes("uint64", v) = LittleEndian(w, 8)
  BY NumericIs, PowerIs, FixedBytesIsLittleEndian
<1>4. /\ w = 4096 * hi + lo /\ lo \in 0..4095 /\ hi \in 0..4095
      /\ w \div 4096 = hi
  <2> DEFINE u == v \div 4096
             q == u \div 4096
  <2>1. v = 4096 * u + lo /\ lo \in 0..4095 /\ u \in Int
    BY SMT
  <2>2. u = 4096 * q + hi /\ hi \in 0..4095 /\ q \in Int
    BY <2>1, SMT
  <2> HIDE DEF u, q, lo, hi
  <2>3. v % 16777216 = 4096 * hi + lo /\ (4096 * hi + lo) \div 4096 = hi
    BY <2>1, <2>2, TwoHalves
  <2> QED
    BY <2>1, <2>2, <2>3
<1> HIDE DEF w, lo, hi
<1>5. /\ (lo \div 1) % 8 = (w \div 1) % 8
      /\ (lo \div 8) % 8 = (w \div 8) % 8
  BY <1>4, SMT
<1>6. /\ (lo \div 64) % 8 = (w \div 64) % 8
      /\ (lo \div 512) % 8 = (w \div 512) % 8
  BY <1>4, SMT
<1>7. (hi \div 1) % 8 = (w \div 4096) % 8
  BY <1>4, SMT
<1>8. (hi \div 8) % 8 = (w \div 32768) % 8
  BY <1>4, SMT
<1>9. /\ (hi \div 64) % 8 = (w \div 262144) % 8
      /\ (hi \div 512) % 8 = (w \div 2097152) % 8
  <2>1. w \div 262144 = (w \div 4096) \div 64
    BY <1>1, SMT
  <2>2. w \div 2097152 = (w \div 4096) \div 512
    BY <1>1, SMT
  <2> QED
    BY <1>4, <2>1, <2>2
<1>10. /\ 1 - 1 = 0 /\ 2 - 1 = 1 /\ 3 - 1 = 2 /\ 4 - 1 = 3 /\ 5 - 1 = 4 /\ 6 - 1 = 5
       /\ 7 - 1 = 6 /\ 8 - 1 = 7
  OBVIOUS
<1> DEFINE a == LittleEndian(lo, 4)
           b == LittleEndian(hi, 4)
           c == LittleEndian(w, 8)
<1>11. /\ a \in Seq(Bytes) /\ Len(a) = 4 /\ b \in Seq(Bytes) /\ Len(b) = 4
       /\ c \in Seq(Bytes) /\ Len(c) = 8
       /\ \A i \in 1..4 : a[i] = (lo \div Power(i - 1)) % 8
       /\ \A i \in 1..4 : b[i] = (hi \div Power(i - 1)) % 8
       /\ \A i \in 1..8 : c[i] = (w \div Power(i - 1)) % 8
  BY <1>1, LittleEndianIs
<1> HIDE DEF a, b, c
<1>12. a[1] = c[1] /\ a[2] = c[2] /\ a[3] = c[3] /\ a[4] = c[4]
  <2>1. 1 \in 1..4 /\ 2 \in 1..4 /\ 3 \in 1..4 /\ 4 \in 1..4
    OBVIOUS
  <2>2. 1 \in 1..8 /\ 2 \in 1..8 /\ 3 \in 1..8 /\ 4 \in 1..8
    OBVIOUS
  <2>3. /\ a[1] = (lo \div 1) % 8 /\ a[2] = (lo \div 8) % 8
        /\ a[3] = (lo \div 64) % 8 /\ a[4] = (lo \div 512) % 8
    BY <1>10, <1>11, <2>1, PowerIs
  <2>4. /\ c[1] = (w \div 1) % 8 /\ c[2] = (w \div 8) % 8
        /\ c[3] = (w \div 64) % 8 /\ c[4] = (w \div 512) % 8
    BY <1>10, <1>11, <2>2, PowerIs
  <2> QED
    BY <1>5, <1>6, <2>3, <2>4
<1>13. b[1] = c[5] /\ b[2] = c[6] /\ b[3] = c[7] /\ b[4] = c[8]
  <2>1. 1 \in 1..4 /\ 2 \in 1..4 /\ 3 \in 1..4 /\ 4 \in 1..4
    OBVIOUS
  <2>2. 5 \in 1..8 /\ 6 \in 1..8 /\ 7 \in 1..8 /\ 8 \in 1..8
    OBVIOUS
  <2>3. /\ b[1] = (hi \div 1) % 8 /\ b[2] = (hi \div 8) % 8
        /\ b[3] = (hi \div 64) % 8 /\ b[4] = (hi \div 512) % 8
    BY <1>10, <1>11, <2>1, PowerIs
  <2>4. /\ c[5] = (w \div 4096) % 8 /\ c[6] = (w \div 32768) % 8
        /\ c[7] = (w \div 262144) % 8 /\ c[8] = (w \div 2097152) % 8
    BY <1>10, <1>11, <2>2, PowerIs
  <2> QED
    BY <1>6, <1>7, <1>8, <1>9, <2>3, <2>4
<1>14. a \in Seq(Bytes) /\ Len(a) = 4 /\ b \in Seq(Bytes) /\ Len(b) = 4 /\ c \in Seq(Bytes) /\ Len(c) = 8
  BY <1>11
<1>15. a \o b = c
  <2>1. /\ a \o b \in Seq(Bytes) /\ Len(a \o b) = 8
        /\ \A i \in 1..4 : (a \o b)[i] = a[i]
        /\ \A i \in 1..4 : (a \o b)[4 + i] = b[i]
    <3>1. /\ a \o b \in Seq(Bytes) /\ Len(a \o b) = Len(a) + Len(b)
          /\ \A i \in 1..Len(a) : (a \o b)[i] = a[i]
          /\ \A i \in 1..Len(b) : (a \o b)[Len(a) + i] = b[i]
      <4>1. a \in Seq(Bytes) /\ b \in Seq(Bytes)
        BY <1>14
      <4> HIDE DEF Bytes
      <4> QED
        BY <4>1, CatIs
    <3>2. Len(a) = 4 /\ Len(b) = 4
      BY <1>14
    <3>3. 4 + 4 = 8
      OBVIOUS
    <3> QED
      BY <3>1, <3>2, <3>3
  <2>2. /\ (a \o b)[1] = a[1] /\ (a \o b)[2] = a[2] /\ (a \o b)[3] = a[3] /\ (a \o b)[4] = a[4]
        /\ (a \o b)[5] = b[1] /\ (a \o b)[6] = b[2] /\ (a \o b)[7] = b[3] /\ (a \o b)[8] = b[4]
    <3>1. /\ 1 \in 1..4 /\ 2 \in 1..4 /\ 3 \in 1..4 /\ 4 \in 1..4
          /\ 4 + 1 = 5 /\ 4 + 2 = 6 /\ 4 + 3 = 7 /\ 4 + 4 = 8
      OBVIOUS
    <3> QED
      BY <2>1, <3>1
  <2>3. ASSUME NEW i \in 1..8
        PROVE  (a \o b)[i] = c[i]
    <3>1. i = 1 \/ i = 2 \/ i = 3 \/ i = 4 \/ i = 5 \/ i = 6 \/ i = 7 \/ i = 8
      OBVIOUS
    <3> QED
      BY <1>12, <1>13, <2>2, <3>1
  <2> DEFINE d == a \o b
  <2>4. d \in Seq(Bytes) /\ Len(d) = 8 /\ \A i \in 1..8 : d[i] = c[i]
    BY <2>1, <2>3
  <2> HIDE DEF d
  <2>5. d = c
    BY <1>14, <2>4, SameSeq
  <2> QED
    BY <2>5 DEF d
<1> QED
  BY <1>2, <1>3, <1>15 DEF a, b, c

-----------------------------------------------------------------------------
(* Lengths, text and varints.                                              *)

\* UTF-16 units.
Units == 0..Replaced

LEMMA CompactLengthIs ==
  ASSUME NEW n \in Nat
  PROVE  /\ AppendCompactLength(n) \in Seq(Bytes) /\ Len(AppendCompactLength(n)) \in 1..5
         /\ n <= CompactLengthThreshold => AppendCompactLength(n) = <<n>>
<1>1. CASE n <= CompactLengthThreshold
  <2>1. AppendCompactLength(n) = <<n>>
    BY <1>1 DEF AppendCompactLength
  <2>2. n \in 0..7
    BY <1>1, PowerIs
  <2>3. n \in Bytes
    BY <2>2, PowerIs
  <2> QED
    BY <2>1, <2>3
<1>2. CASE ~(n <= CompactLengthThreshold)
  <2> DEFINE b == LittleEndian(n, 4)
  <2>1. AppendCompactLength(n) = <<CompactLengthMarker>> \o b
    BY <1>2, NumericIs DEF AppendCompactLength
  <2>2. b \in Seq(Bytes) /\ Len(b) = 4
    BY LittleEndianIs
  <2>3. CompactLengthMarker \in Bytes
    BY PowerIs
  <2> HIDE DEF b
  <2>4. <<CompactLengthMarker>> \in Seq(Bytes) /\ Len(<<CompactLengthMarker>>) = 1
    BY <2>3
  <2>5. /\ <<CompactLengthMarker>> \o b \in Seq(Bytes)
        /\ Len(<<CompactLengthMarker>> \o b) = Len(<<CompactLengthMarker>>) + Len(b)
    BY <2>2, <2>4, CatIs
  <2> QED
    BY <1>2, <2>1, <2>2, <2>4, <2>5
<1> QED
  BY <1>1, <1>2

LEMMA AppendBytesIs ==
  ASSUME NEW s \in Seq(Bytes)
  PROVE  /\ AppendBytes(s) \in Seq(Bytes)
         /\ Len(AppendBytes(s)) = Len(AppendCompactLength(Len(s))) + Len(s)
         /\ Len(s) <= CompactLengthThreshold => AppendBytes(s) = <<Len(s)>> \o s
<1>1. Len(s) \in Nat
  OBVIOUS
<1> QED
  BY <1>1, CompactLengthIs, CatIs DEF AppendBytes

LEMMA Utf8UnitIs ==
  ASSUME NEW u \in Units
  PROVE  /\ Utf8Unit(u) \in Seq(Bytes) /\ Len(Utf8Unit(u)) \in 1..3
         /\ u < 4 => Utf8Unit(u) = <<u>>
<1>1. u \in 0..8
  BY DEF Replaced, Units
<1>2. CASE u < 4
  <2>1. Utf8Unit(u) = <<u>>
    BY <1>2 DEF Utf8Unit
  <2>2. u \in Bytes
    BY <1>1, <1>2, PowerIs
  <2> QED
    BY <2>1, <2>2
<1>3. CASE u \in 4..5
  <2>1. u \in 0..7 /\ Utf8Unit(u) = <<6, u>>
    BY <1>1, <1>3 DEF Utf8Unit
  <2> QED
    BY <1>3, <2>1, PowerIs
<1>4. CASE u \in 6..7
  <2>1. u - 2 \in 0..7 /\ Utf8Unit(u) = <<7, 4, u - 2>>
    BY <1>1, <1>4 DEF Utf8Unit
  <2>2. 7 \in Bytes /\ 4 \in Bytes /\ u - 2 \in Bytes
    BY <2>1, PowerIs
  <2> QED
    BY <1>4, <2>1, <2>2
<1>5. CASE u = 8
  <2>1. Utf8Unit(u) = <<7, 5, 5>>
    BY <1>5 DEF Utf8Unit
  <2>2. 7 \in Bytes /\ 5 \in Bytes
    BY PowerIs
  <2>3. ~(u < 4)
    BY <1>5
  <2> QED
    BY <2>1, <2>2, <2>3
<1>6. u < 4 \/ u \in 4..5 \/ u \in 6..7 \/ u = 8
  BY <1>1
<1> QED
  BY <1>2, <1>3, <1>4, <1>5, <1>6

\* A unit takes no more than three bytes, and ASCII is its own UTF-8.
LEMMA Utf8Is ==
  ASSUME NEW s \in Seq(Units)
  PROVE  /\ Utf8(s) \in Seq(Bytes) /\ Len(Utf8(s)) <= 3 * Len(s)
         /\ IsAscii(s) => Utf8(s) = s
<1> DEFINE n == Len(s)
           ss == [i \in DOMAIN s |-> Utf8Unit(s[i])]
<1>1. n \in Nat /\ DOMAIN s = 1..n /\ \A i \in 1..n : s[i] \in Units
  BY SeqIs
<1>2. ss \in Seq(Seq(Bytes)) /\ Len(ss) = n /\ \A i \in 1..n : ss[i] = Utf8Unit(s[i])
  <2>1. \A i \in 1..n : Utf8Unit(s[i]) \in Seq(Bytes)
    BY <1>1, Utf8UnitIs
  <2>2. ss \in [1..n -> Seq(Bytes)]
    BY <1>1, <2>1
  <2> QED
    BY <1>1, <2>2
<1>3. Utf8(s) = FlattenSeq(ss)
  BY DEF Utf8
<1> HIDE DEF ss
<1>4. PICK f : Joins(f, ss)
  BY <1>2, JoinsExists
<1>5. (\A i \in 0..n : f[i] \in Seq(Bytes)) /\ Utf8(s) = f[n]
  BY <1>2, <1>3, <1>4, JoinsGivesFlatten
<1>6. f[0] = <<>> /\ \A i \in 1..n : f[i] = f[i - 1] \o Utf8Unit(s[i])
  BY <1>2, <1>4 DEF Joins
<1> HIDE DEF n
<1>7. Len(f[n]) <= 3 * n
  <2> DEFINE S == {i \in 0..n : Len(f[i]) <= 3 * i}
  <2>1. 0 \in S
    BY <1>1, <1>6
  <2>2. ASSUME NEW i \in 1..n, i - 1 \in S
        PROVE  i \in S
    <3>1. f[i - 1] \in Seq(Bytes) /\ Len(f[i - 1]) <= 3 * (i - 1) /\ i - 1 \in 0..n
      BY <1>5, <2>2
    <3>2. s[i] \in Units
      BY <1>1
    <3>3. Utf8Unit(s[i]) \in Seq(Bytes) /\ Len(Utf8Unit(s[i])) \in 1..3
      BY <3>2, Utf8UnitIs
    <3> DEFINE u == Utf8Unit(s[i])
    <3> HIDE DEF u
    <3>4. Len(f[i]) = Len(f[i - 1]) + Len(u)
      BY <1>6, <3>1, <3>3, CatIs, ZenonT(30) DEF u
    <3>5. Len(u) \in 1..3 /\ Len(f[i - 1]) \in Nat
      <4>1. Len(f[i - 1]) \in Nat
        BY <3>1
      <4> QED
        BY <3>3, <4>1 DEF u
    <3>6. Len(f[i]) <= 3 * i
      <4> DEFINE p == Len(f[i - 1])
                 q == Len(u)
      <4>1. p \in Nat /\ q \in Nat /\ q <= 3 /\ p <= 3 * (i - 1) /\ i \in Nat
        <5>1. i \in Nat
          BY <1>1
        <5>2. p \in Nat /\ p <= 3 * (i - 1)
          BY <3>1, <3>5
        <5>3. q \in 1..3
          BY <3>5
        <5> HIDE DEF p, q
        <5> QED
          BY <5>1, <5>2, <5>3
      <4> HIDE DEF p, q
      <4>2. p + q <= 3 * i
        BY <4>1
      <4> QED
        BY <3>4, <4>2 DEF p, q
    <3> QED
      BY <1>1, <3>6
  <2>3. n \in S
    <3> HIDE DEF S
    <3> QED
      BY <1>1, <2>1, <2>2, Reaches
  <2> QED
    BY <2>3
<1>8. ASSUME IsAscii(s)
      PROVE  f[n] = s
  <2> DEFINE S == {i \in 0..n : Len(f[i]) = i /\ \A j \in 1..i : f[i][j] = s[j]}
  <2>1. 0 \in S
    BY <1>1, <1>6
  <2>2. ASSUME NEW i \in 1..n, i - 1 \in S
        PROVE  i \in S
    <3>1. f[i - 1] \in Seq(Bytes) /\ Len(f[i - 1]) = i - 1 /\ i - 1 \in 0..n
      BY <1>5, <2>2
    <3>2. \A j \in 1..(i - 1) : f[i - 1][j] = s[j]
      BY <2>2
    <3>3. s[i] \in Units /\ s[i] < 4
      <4>1. s[i] < Base \div 2
        BY <1>1, <1>8 DEF IsAscii
      <4> QED
        BY <1>1, <4>1, PowerIs
    <3>4. Utf8Unit(s[i]) = <<s[i]>> /\ <<s[i]>> \in Seq(Bytes)
      BY <3>3, Utf8UnitIs
    <3> DEFINE a == f[i - 1]
               b == <<s[i]>>
    <3>5. f[i] = a \o b /\ Len(a) = i - 1 /\ Len(b) = 1 /\ b[1] = s[i] /\ a \in Seq(Bytes)
      BY <1>6, <3>1, <3>4
    <3>6. \A j \in 1..(i - 1) : a[j] = s[j]
      BY <3>2
    <3>7. b \in Seq(Bytes)
      BY <3>4
    <3> HIDE DEF a, b
    <3>8. /\ Len(a \o b) = Len(a) + Len(b)
          /\ \A j \in 1..Len(a) : (a \o b)[j] = a[j]
          /\ \A j \in 1..Len(b) : (a \o b)[Len(a) + j] = b[j]
      <4>1. a \in Seq(Bytes)
        BY <3>5
      <4> QED
        BY <3>7, <4>1, CatIs
    <3>9. \A j \in 1..i : f[i][j] = s[j]
      <4>1. ASSUME NEW j \in 1..i
            PROVE  f[i][j] = s[j]
        <5>1. CASE j = i
          <6>1. (a \o b)[(i - 1) + 1] = b[1]
            BY <3>5, <3>8
          <6>2. (i - 1) + 1 = i
            OBVIOUS
          <6> QED
            BY <3>5, <5>1, <6>1, <6>2
        <5>2. CASE j # i
          <6>1. j \in 1..(i - 1)
            BY <5>2
          <6> QED
            BY <3>5, <3>6, <3>8, <6>1
        <5> QED
          BY <5>1, <5>2
      <4> QED
        BY <4>1
    <3>10. Len(f[i]) = i /\ i \in 0..n
      BY <1>1, <3>5, <3>8
    <3> QED
      BY <3>9, <3>10
  <2>3. n \in S
    <3> HIDE DEF S
    <3> QED
      BY <1>1, <2>1, <2>2, Reaches
  <2>4. f[n] \in Seq(Bytes) /\ Len(f[n]) = n /\ \A j \in 1..n : f[n][j] = s[j]
    BY <1>1, <1>5, <2>3
  <2>5. Len(s) = n /\ n \in Nat
    BY <1>1 DEF n
  <2> DEFINE d == f[n]
  <2> HIDE DEF d
  <2>6. d \in Seq(Bytes) /\ Len(d) = Len(s) /\ \A j \in 1..Len(d) : d[j] = s[j]
    BY <2>4, <2>5 DEF d
  <2>7. d = s
    BY <2>6, SameSeq
  <2> QED
    BY <2>7 DEF d
<1>9. f[n] \in Seq(Bytes)
  BY <1>1, <1>5
<1> QED
  BY <1>5, <1>7, <1>8, <1>9 DEF n

\* What encodeInto stores are bytes, and all of them where there is room.
LEMMA FittingIs ==
  ASSUME NEW s \in Seq(Units), NEW n \in Int
  PROVE  /\ FittingUtf8(s, n) \in Seq(Bytes)
         /\ Len(Utf8(s)) <= n => FittingUtf8(s, n) = Utf8(s)
<1> DEFINE fitting == {k \in 1..Len(s) : Len(Utf8(SubSeq(s, 1, k))) <= n}
           m == Max({0} \cup fitting)
<1>1. FittingUtf8(s, n) = Utf8(SubSeq(s, 1, m))
  BY DEF FittingUtf8
<1>2. Len(s) \in Nat /\ {0} \cup fitting \in SUBSET (0..Len(s))
  OBVIOUS
<1>3. m \in {0} \cup fitting /\ \A i \in {0} \cup fitting : i <= m
  <2> HIDE DEF fitting
  <2> QED
    BY <1>2, MaxIsIn
<1>4. m \in 0..Len(s)
  BY <1>2, <1>3
<1>5. SubSeq(s, 1, m) \in Seq(Units)
  <2> HIDE DEF m
  <2> QED
    BY <1>2, <1>4
<1>6. ASSUME Len(Utf8(s)) <= n
      PROVE  SubSeq(s, 1, m) = s
  <2>1. SubSeq(s, 1, Len(s)) = s
    BY SeqIs
  <2>2. CASE Len(s) = 0
    BY <1>4, <2>1, <2>2
  <2>3. CASE Len(s) # 0
    <3>1. Len(s) \in 1..Len(s) /\ Len(Utf8(SubSeq(s, 1, Len(s)))) <= n
      <4>1. Len(s) \in 1..Len(s)
        BY <1>2, <2>3
      <4> QED
        BY <1>6, <2>1, <4>1
    <3>2. Len(s) \in fitting
      BY <3>1
    <3> HIDE DEF fitting, m
    <3>3. m = Len(s)
      BY <1>2, <1>3, <1>4, <3>2
    <3> QED
      BY <2>1, <3>3
  <2> QED
    BY <2>2, <2>3
<1> HIDE DEF m
<1> QED
  BY <1>1, <1>5, <1>6, Utf8Is

-----------------------------------------------------------------------------
\* The digits of n, less than VarintRadix, made from those of f.
Digits(f, n) ==
  IF n < VarintRadix THEN <<n>> ELSE <<(n % VarintRadix) + VarintRadix>> \o f[n \div VarintRadix]

LEMMA VarintRadixIs == VarintRadix = 4
BY PowerIs DEF VarintRadix

LEMMA DigitsAre ==
  ASSUME NEW f, NEW n \in Nat, n >= 4 => f[n \div 4] \in Seq(Bytes)
  PROVE  Digits(f, n) \in Seq(Bytes) /\ Len(Digits(f, n)) >= 1
<1>1. CASE n < 4
  <2>1. Digits(f, n) = <<n>> /\ n \in 0..7
    BY <1>1, VarintRadixIs DEF Digits
  <2>2. n \in Bytes
    BY <2>1, PowerIs
  <2> QED
    BY <2>1, <2>2
<1>2. CASE ~(n < 4)
  <2> DEFINE d == (n % 4) + 4
             rest == f[n \div 4]
  <2>1. Digits(f, n) = <<d>> \o rest
    BY <1>2, VarintRadixIs DEF Digits
  <2>2. d \in Bytes
    BY PowerIs
  <2>3. rest \in Seq(Bytes)
    BY <1>2
  <2> HIDE DEF d, rest
  <2>4. <<d>> \in Seq(Bytes) /\ Len(<<d>>) = 1
    BY <2>2
  <2>5. <<d>> \o rest \in Seq(Bytes) /\ Len(<<d>> \o rest) = 1 + Len(rest) /\ Len(rest) \in Nat
    BY <2>3, <2>4, CatIs
  <2> QED
    BY <2>1, <2>5
<1> QED
  BY <1>1, <1>2

\* A number has digits, and they are bytes.
LEMMA VarintIs ==
  ASSUME NEW m \in Nat
  PROVE  Varint[m] \in Seq(Bytes) /\ Varint[m] = Digits(Varint, m)
<1> DEFINE Solves(f, k) == \A n \in 0..k : f[n] = Digits(f, n)
           Solvable(k) == \E f \in [0..k -> Seq(Bytes)] : Solves(f, k)
           S == {k \in Nat : Solvable(k)}
<1>1. Solvable(0)
  <2> DEFINE f == [n \in 0..0 |-> <<0>>]
  <2>1. 0 \in Bytes
    BY PowerIs
  <2>2. f \in [0..0 -> Seq(Bytes)]
    BY <2>1
  <2>3. Solves(f, 0)
    BY VarintRadixIs DEF Digits
  <2> HIDE DEF f, Solves
  <2> QED
    BY <2>2, <2>3
<1>2. ASSUME NEW k \in Nat \ {0}, Solvable(k - 1)
      PROVE  Solvable(k)
  <2>1. PICK f \in [0..(k - 1) -> Seq(Bytes)] : Solves(f, k - 1)
    BY <1>2
  <2> DEFINE h == [n \in 0..k |-> IF n = k THEN Digits(f, k) ELSE f[n]]
  <2>2. k >= 4 => k \div 4 \in 0..(k - 1)
    OBVIOUS
  <2>3. Digits(f, k) \in Seq(Bytes)
    BY <2>2, DigitsAre
  <2>4. h \in [0..k -> Seq(Bytes)]
    BY <2>3
  <2>5. ASSUME NEW n \in 0..k
        PROVE  h[n] = Digits(h, n)
    <3>1. n >= 4 => n \div 4 \in 0..(k - 1) /\ n \div 4 # k
      OBVIOUS
    <3>2. n >= 4 => h[n \div 4] = f[n \div 4]
      BY <3>1
    <3>3. h[n] = Digits(f, n)
      <4>1. CASE n = k
        BY <4>1
      <4>2. CASE n # k
        <5>1. n \in 0..(k - 1) /\ h[n] = f[n]
          BY <4>2
        <5> QED
          BY <2>1, <5>1
      <4> QED
        BY <4>1, <4>2
    <3>4. Digits(f, n) = Digits(h, n)
      <4> HIDE DEF h
      <4>1. n < 4 \/ n >= 4
        OBVIOUS
      <4> QED
        BY <3>2, <4>1, VarintRadixIs DEF Digits
    <3> HIDE DEF h
    <3> QED
      BY <3>3, <3>4
  <2>6. Solves(h, k)
    <3> HIDE DEF h
    <3> QED
      BY <2>5
  <2> HIDE DEF h, Solves
  <2> QED
    BY <2>4, <2>6
<1>3. \A k \in Nat : Solvable(k)
  <2>1. 0 \in S /\ \A k \in Nat \ {0} : k - 1 \in S => k \in S
    <3> HIDE DEF Solvable
    <3> QED
      BY <1>1, <1>2
  <2>2. \A k \in Nat : k \in S
    <3> HIDE DEF S
    <3> QED
      BY <2>1, ReachesAll
  <2> HIDE DEF Solvable
  <2> QED
    BY <2>2
<1>4. ASSUME NEW j \in Nat, NEW k \in Nat, j <= k, NEW f, NEW g, Solves(f, j), Solves(g, k)
      PROVE  f[j] = g[j]
  <2> DEFINE T == {n \in 0..j : f[n] # g[n]}
  <2>1. CASE T # {}
    <3>1. PICK n \in T : \A i \in T : n <= i
      <4>1. T \in SUBSET Nat
        OBVIOUS
      <4> HIDE DEF T
      <4> QED
        BY <2>1, <4>1, NatLowest
    <3>2. n \in 0..j /\ n \in 0..k /\ f[n] # g[n]
      BY <1>4
    <3>3. n >= 4 => f[n \div 4] = g[n \div 4]
      <4>1. n >= 4 => n \div 4 \in 0..j /\ n \div 4 < n
        BY <3>2
      <4> QED
        BY <3>1, <3>2, <4>1
    <3>4. Digits(f, n) = Digits(g, n)
      <4>1. n < 4 \/ n >= 4
        BY <3>2
      <4> QED
        BY <3>3, <4>1, VarintRadixIs DEF Digits
    <3>5. f[n] = Digits(f, n) /\ g[n] = Digits(g, n)
      BY <1>4, <3>2
    <3> QED
      BY <3>2, <3>4, <3>5
  <2>2. CASE T = {}
    BY <2>2
  <2> QED
    BY <2>1, <2>2
<1> DEFINE P(k, f) == f \in [0..k -> Seq(Bytes)] /\ Solves(f, k)
           F == [n \in Nat |-> (CHOOSE f : P(n, f))[n]]
<1>5. ASSUME NEW k \in Nat
      PROVE  P(k, CHOOSE f : P(k, f))
  <2>1. \E f : P(k, f)
    BY <1>3
  <2> HIDE DEF P
  <2> QED
    BY <2>1
<1>6. F = [n \in Nat |-> Digits(F, n)]
  <2>1. ASSUME NEW n \in Nat
        PROVE  F[n] = Digits(F, n)
    <3> DEFINE f == CHOOSE f : P(n, f)
    <3>1. F[n] = f[n] /\ P(n, f)
      BY <1>5
    <3> HIDE DEF f
    <3>2. f[n] = Digits(f, n)
      BY <3>1
    <3>3. n >= 4 => f[n \div 4] = F[n \div 4]
      <4>1. SUFFICES ASSUME n >= 4 PROVE f[n \div 4] = F[n \div 4]
        OBVIOUS
      <4> DEFINE j == n \div 4
                 g == CHOOSE g : P(j, g)
      <4>2. j \in Nat /\ j <= n
        BY <4>1
      <4> HIDE DEF j
      <4>3. F[j] = g[j] /\ P(j, g)
        BY <1>5, <4>2
      <4> HIDE DEF g
      <4>4. Solves(g, j) /\ Solves(f, n)
        BY <3>1, <4>3
      <4> HIDE DEF Solves
      <4>5. g[j] = f[j]
        BY <1>4, <4>2, <4>4
      <4> HIDE DEF F
      <4> QED
        BY <4>3, <4>5 DEF j
    <3>4. Digits(f, n) = Digits(F, n)
      <4> HIDE DEF F
      <4>1. n < 4 \/ n >= 4
        OBVIOUS
      <4> QED
        BY <3>3, <4>1, VarintRadixIs DEF Digits
    <3> HIDE DEF F
    <3> QED
      BY <3>1, <3>2, <3>4
  <2>2. F = [n \in Nat |-> F[n]]
    OBVIOUS
  <2> HIDE DEF F
  <2> QED
    BY <2>1, <2>2
<1>7. Varint = [n \in Nat |-> Digits(Varint, n)]
  <2> DEFINE V == CHOOSE V : V = [n \in Nat |-> Digits(V, n)]
  <2>1. Varint = V
    BY DEF Varint, Digits
  <2>2. V = [n \in Nat |-> Digits(V, n)]
    <3> HIDE DEF F
    <3> QED
      BY <1>6
  <2> HIDE DEF V
  <2> QED
    BY <2>1, <2>2
<1>8. Solves(Varint, m)
  <2>1. ASSUME NEW n \in 0..m
        PROVE  Varint[n] = Digits(Varint, n)
    <3> DEFINE V == Varint
    <3>1. V = [i \in Nat |-> Digits(V, i)]
      BY <1>7
    <3> HIDE DEF V
    <3>2. V[n] = Digits(V, n)
      BY <3>1
    <3> QED
      BY <3>2 DEF V
  <2> QED
    BY <2>1
<1>9. PICK f \in [0..m -> Seq(Bytes)] : Solves(f, m)
  BY <1>3
<1>10. Varint[m] = f[m]
  <2> HIDE DEF Solves
  <2> QED
    BY <1>4, <1>8, <1>9
<1>11. Varint[m] = Digits(Varint, m)
  BY <1>8, m \in 0..m
<1> QED
  BY <1>9, <1>10, <1>11, m \in 0..m

LEMMA VarintIsSome ==
  ASSUME NEW m \in Nat
  PROVE  Len(Varint[m]) \in Nat /\ Len(Varint[m]) >= 1
<1>1. m >= 4 => Varint[m \div 4] \in Seq(Bytes)
  <2>1. m \div 4 \in Nat
    OBVIOUS
  <2> QED
    BY <2>1, VarintIs
<1> DEFINE V == Varint
<1> HIDE DEF V
<1>2. Digits(V, m) \in Seq(Bytes) /\ Len(Digits(V, m)) >= 1
  BY <1>1, DigitsAre DEF V
<1>3. V[m] = Digits(V, m) /\ V[m] \in Seq(Bytes)
  BY VarintIs DEF V
<1> QED
  BY <1>2, <1>3, SeqIs DEF V

-----------------------------------------------------------------------------
(* Encoders.                                                               *)

Array == [cells : Seq(Bytes), detached : BOOLEAN]

\* What a program reaches: only an array that was outgrown is detached.
Heaps ==
  {h \in Seq(Array) : h # <<>> /\ \A k \in 1..Len(h) : h[k].detached => k < Len(h)}

Encoders == [heap : Heaps, pos : Nat, ok : BOOLEAN]

\* d has what c has, up to p.
SameFront(c, d, p) == Len(c) <= Len(d) /\ \A i \in 1..Len(c) : i <= p => d[i] = c[i]

\* What follows on h leaves its first p cells: in the array that is in use, and
\* in the one that was, unless transfer() detached it.
Kept(h, g, p, transfer) ==
  LET k == Len(h)
  IN  /\ k <= Len(g)
      /\ \A i \in 1..(k - 1) : g[i] = h[i]
      /\ \/ transfer /\ g[k].detached
         \/ /\ ~g[k].detached /\ SameFront(h[k].cells, g[k].cells, p)
            /\ Len(g[k].cells) = Len(h[k].cells)
      /\ SameFront(h[k].cells, g[Len(g)].cells, p)

LEMMA HeapIs ==
  ASSUME NEW h \in Heaps
  PROVE  /\ h \in Seq(Array) /\ Len(h) \in Nat /\ Len(h) >= 1 /\ Len(h) \in 1..Len(h)
         /\ \A k \in 1..Len(h) : /\ h[k] \in Array /\ h[k].cells \in Seq(Bytes)
                                 /\ h[k].detached \in BOOLEAN
                                 /\ h[k].detached => k < Len(h)
         /\ ~h[Len(h)].detached
<1>1. h \in Seq(Array) /\ h # <<>> /\ \A k \in 1..Len(h) : h[k].detached => k < Len(h)
  BY DEF Heaps
<1>2. Len(h) \in Nat /\ Len(h) # 0 /\ \A k \in 1..Len(h) : h[k] \in Array
  BY <1>1, SeqIs
<1>3. \A a \in Array : a.cells \in Seq(Bytes) /\ a.detached \in BOOLEAN
  BY DEF Array
<1>4. Len(h) \in 1..Len(h) /\ Len(h) >= 1
  BY <1>2
<1>5. ~h[Len(h)].detached
  BY <1>1, <1>2, <1>4
<1> QED
  BY <1>1, <1>2, <1>3, <1>4, <1>5

LEMMA EncoderIs ==
  ASSUME NEW e \in Encoders
  PROVE  /\ e.heap \in Heaps /\ e.pos \in Nat /\ e.ok \in BOOLEAN
         /\ e = [heap |-> e.heap, pos |-> e.pos, ok |-> e.ok]
         /\ Len(e.heap) \in Nat /\ Len(e.heap) >= 1
         /\ Cells(e) = e.heap[Len(e.heap)].cells
         /\ Cells(e) \in Seq(Bytes) /\ Room(e) = Len(Cells(e)) /\ Room(e) \in Nat
         /\ \A i \in 1..Room(e) : Cells(e)[i] \in Bytes
<1>1. /\ e.heap \in Heaps /\ e.pos \in Nat /\ e.ok \in BOOLEAN
      /\ e = [heap |-> e.heap, pos |-> e.pos, ok |-> e.ok]
  BY DEF Encoders
<1>2. Cells(e) = e.heap[Len(e.heap)].cells /\ Room(e) = Len(Cells(e))
  BY DEF Cells, Room, Last
<1>3. Cells(e) \in Seq(Bytes) /\ Len(e.heap) \in Nat /\ Len(e.heap) >= 1
  BY <1>1, <1>2, HeapIs
<1>4. Room(e) \in Nat /\ \A i \in 1..Room(e) : Cells(e)[i] \in Bytes
  BY <1>2, <1>3, SeqIs
<1> QED
  BY <1>1, <1>2, <1>3, <1>4

LEMMA KeptSame ==
  ASSUME NEW h \in Heaps, NEW p, NEW transfer
  PROVE  Kept(h, h, p, transfer)
<1> DEFINE k == Len(h)
           c == h[k].cells
<1>1. k \in Nat /\ ~h[k].detached /\ c \in Seq(Bytes)
  BY HeapIs
<1>2. SameFront(c, c, p)
  <2> HIDE DEF c
  <2>1. Len(c) <= Len(c)
    BY <1>1
  <2> QED
    BY <2>1 DEF SameFront
<1> QED
  BY <1>1, <1>2 DEF Kept

LEMMA KeptLess ==
  ASSUME NEW h, NEW g, NEW p \in Int, NEW q \in Int, q <= p, NEW transfer,
         Kept(h, g, p, transfer)
  PROVE  Kept(h, g, q, transfer)
<1>1. ASSUME NEW c, NEW d, SameFront(c, d, p)
      PROVE  SameFront(c, d, q)
  BY <1>1 DEF SameFront
<1> QED
  BY <1>1 DEF Kept

LEMMA FrontTrans ==
  ASSUME NEW b, NEW c, NEW d, NEW p, Len(b) \in Nat, Len(c) \in Nat, Len(d) \in Nat,
         SameFront(b, c, p), SameFront(c, d, p)
  PROVE  SameFront(b, d, p)
<1>1. \A i \in 1..Len(b) : i \in 1..Len(c)
  BY DEF SameFront
<1> QED
  BY <1>1 DEF SameFront

LEMMA KeptTrans ==
  ASSUME NEW f \in Heaps, NEW g \in Heaps, NEW h \in Heaps, NEW p, NEW transfer \in BOOLEAN,
         Kept(f, g, p, transfer), Kept(g, h, p, transfer)
  PROVE  Kept(f, h, p, transfer)
<1> DEFINE k == Len(f)
           m == Len(g)
           n == Len(h)
<1>1. /\ k \in Nat /\ m \in Nat /\ n \in Nat /\ k >= 1 /\ m >= 1 /\ n >= 1
      /\ ~f[k].detached /\ ~g[m].detached /\ ~h[n].detached
  BY HeapIs
<1>2. k <= m /\ m <= n
  BY DEF Kept
<1>3. \A i \in 1..(k - 1) : h[i] = f[i]
  <2>1. \A i \in 1..(k - 1) : g[i] = f[i]
    BY DEF Kept
  <2>2. \A i \in 1..(m - 1) : h[i] = g[i]
    BY DEF Kept
  <2>3. \A i \in 1..(k - 1) : i \in 1..(m - 1)
    BY <1>1, <1>2
  <2> QED
    BY <2>1, <2>2, <2>3
<1>4. k \in 1..m /\ m \in 1..n /\ k \in 1..n /\ k \in 1..k /\ n \in 1..n
  BY <1>1, <1>2
<1>5. /\ Len(f[k].cells) \in Nat /\ Len(g[k].cells) \in Nat /\ Len(g[m].cells) \in Nat
      /\ Len(h[k].cells) \in Nat /\ Len(h[n].cells) \in Nat
  <2>1. \A c \in Seq(Bytes) : Len(c) \in Nat
    OBVIOUS
  <2> QED
    BY <1>4, <2>1, HeapIs
<1>6. SameFront(f[k].cells, h[n].cells, p)
  <2>1. SameFront(f[k].cells, g[m].cells, p) /\ SameFront(g[m].cells, h[n].cells, p)
    BY DEF Kept
  <2> QED
    BY <1>5, <2>1, FrontTrans
<1>7. \/ transfer /\ h[k].detached
      \/ /\ ~h[k].detached /\ SameFront(f[k].cells, h[k].cells, p)
         /\ Len(h[k].cells) = Len(f[k].cells)
  <2>1. \/ transfer /\ g[k].detached
        \/ /\ ~g[k].detached /\ SameFront(f[k].cells, g[k].cells, p)
           /\ Len(g[k].cells) = Len(f[k].cells)
    BY DEF Kept
  <2>2. CASE k < m
    <3>1. k \in 1..(m - 1)
      BY <1>1, <2>2
    <3>2. h[k] = g[k]
      BY <3>1 DEF Kept
    <3> QED
      BY <2>1, <3>2
  <2>3. CASE k = m
    <3>1. \/ transfer /\ h[k].detached
          \/ /\ ~h[k].detached /\ SameFront(g[k].cells, h[k].cells, p)
             /\ Len(h[k].cells) = Len(g[k].cells)
      BY <2>3 DEF Kept
    <3>2. SameFront(f[k].cells, g[k].cells, p) /\ Len(g[k].cells) = Len(f[k].cells)
      BY <1>1, <2>1, <2>3
    <3> QED
      BY <1>5, <3>1, <3>2, FrontTrans
  <2> QED
    BY <1>1, <1>2, <2>2, <2>3
<1> QED
  BY <1>1, <1>2, <1>3, <1>6, <1>7 DEF Kept

-----------------------------------------------------------------------------
\* b is in the array that x uses, after p.
Holds(x, p, b) ==
  p + Len(b) <= Room(x) /\ \A i \in 1..Len(b) : Cells(x)[p + i] = b[i]

\* Replacing the cells of the array in use.
LEMMA NewCellsAre ==
  ASSUME NEW e \in Encoders, NEW cells \in Seq(Bytes), Len(cells) = Room(e), NEW p \in Nat,
         \A i \in 1..Room(e) : i <= p => cells[i] = Cells(e)[i],
         NEW transfer
  PROVE  LET x == [e EXCEPT !.heap = [e.heap EXCEPT ![Len(e.heap)] =
                                        [e.heap[Len(e.heap)] EXCEPT !.cells = cells]]]
         IN  /\ x \in Encoders /\ x.pos = e.pos /\ x.ok = e.ok
             /\ Cells(x) = cells /\ Room(x) = Room(e) /\ Len(x.heap) = Len(e.heap)
             /\ Kept(e.heap, x.heap, p, transfer)
<1> DEFINE k == Len(e.heap)
           a == [e.heap[k] EXCEPT !.cells = cells]
           h == [e.heap EXCEPT ![k] = a]
           x == [e EXCEPT !.heap = h]
<1>1. /\ k \in Nat /\ k >= 1 /\ e.heap \in Heaps /\ Cells(e) = e.heap[k].cells
      /\ e.pos \in Nat /\ e.ok \in BOOLEAN
  BY EncoderIs
<1>2. /\ e.heap \in Seq(Array) /\ k \in 1..k /\ e.heap[k] \in Array /\ ~e.heap[k].detached
      /\ \A i \in 1..k : e.heap[i].detached => i < k
  BY <1>1, HeapIs
<1>3. a \in Array /\ a.cells = cells /\ a.detached = e.heap[k].detached
  <2> DEFINE b == e.heap[k]
  <2>1. b \in Array
    BY <1>2
  <2> HIDE DEF b
  <2>2. [b EXCEPT !.cells = cells] \in Array
    BY <2>1 DEF Array
  <2>3. [b EXCEPT !.cells = cells].cells = cells /\ [b EXCEPT !.cells = cells].detached = b.detached
    BY <2>1 DEF Array
  <2> QED
    BY <2>2, <2>3 DEF b
<1> HIDE DEF a
<1>4. h \in Seq(Array) /\ Len(h) = k /\ h[k] = a /\ \A i \in 1..k : i # k => h[i] = e.heap[i]
  BY <1>2, <1>3
<1> HIDE DEF h
<1>5. h \in Heaps
  <2>1. \A i \in 1..k : h[i].detached => i < k
    BY <1>2, <1>3, <1>4
  <2>2. h # <<>>
    BY <1>1, <1>4
  <2> QED
    BY <1>4, <2>1, <2>2 DEF Heaps
<1>6. x.heap = h /\ x.pos = e.pos /\ x.ok = e.ok /\ x \in Encoders
  BY <1>1, <1>5 DEF Encoders
<1> HIDE DEF x
<1>7. Cells(x) = cells /\ Room(x) = Room(e) /\ Len(x.heap) = k
  <2>1. Cells(x) = h[k].cells
    BY <1>4, <1>6, EncoderIs
  <2>2. Room(x) = Len(Cells(x))
    BY DEF Room
  <2> QED
    BY <1>3, <1>4, <1>6, <2>1, <2>2
<1>8. Kept(e.heap, x.heap, p, transfer)
  <2>1. Len(e.heap[k].cells) = Room(e) /\ Room(e) \in Nat
    BY <1>1, EncoderIs
  <2>2. SameFront(e.heap[k].cells, cells, p)
    BY <1>1, <2>1 DEF SameFront
  <2>3. \A i \in 1..(k - 1) : i \in 1..k /\ i # k
    BY <1>1
  <2>4. ~h[k].detached /\ h[k].cells = cells
    BY <1>2, <1>3, <1>4
  <2>5. \A i \in 1..(k - 1) : h[i] = e.heap[i]
    BY <1>4, <2>3
  <2>6. k <= k
    BY <1>1
  <2> QED
    BY <1>4, <1>6, <2>1, <2>2, <2>4, <2>5, <2>6 DEF Kept
<1> QED
  BY <1>6, <1>7, <1>8 DEF x, h, a

LEMMA StoreIs ==
  ASSUME NEW e \in Encoders, NEW p \in Nat, NEW b \in Seq(Bytes), NEW transfer
  PROVE  LET x == Store(e, p, b)
         IN  /\ x \in Encoders /\ x.pos = e.pos /\ x.ok = e.ok
             /\ Room(x) = Room(e) /\ Len(x.heap) = Len(e.heap)
             /\ \A i \in 1..Room(e) :
                  Cells(x)[i] = IF i - p \in 1..Len(b) THEN b[i - p] ELSE Cells(e)[i]
             /\ Kept(e.heap, x.heap, p, transfer)
             /\ p + Len(b) <= Room(e) => Holds(x, p, b)
<1> DEFINE k == Len(e.heap)
           c == Cells(e)
           n == Room(e)
           cells == [i \in DOMAIN c |-> IF i - p \in DOMAIN b THEN b[i - p] ELSE c[i]]
           x == Store(e, p, b)
<1>1. /\ k \in Nat /\ k >= 1 /\ c = e.heap[k].cells /\ c \in Seq(Bytes) /\ n = Len(c)
      /\ n \in Nat /\ e.heap \in Heaps
  BY EncoderIs
<1>2. DOMAIN c = 1..n /\ DOMAIN b = 1..Len(b) /\ Len(b) \in Nat
  BY <1>1, SeqIs
<1>3. ASSUME NEW i \in 1..n
      PROVE  (IF i - p \in 1..Len(b) THEN b[i - p] ELSE c[i]) \in Bytes
  BY <1>1, SeqIs
<1>4. cells = [i \in 1..n |-> IF i - p \in 1..Len(b) THEN b[i - p] ELSE c[i]]
  BY <1>2
<1>5. cells \in [1..n -> Bytes]
  BY <1>3, <1>4
<1>6. cells \in Seq(Bytes) /\ Len(cells) = n
  <2>1. n \in Nat
    BY <1>1
  <2> HIDE DEF cells, n
  <2> QED
    BY <1>5, <2>1, ListIs
<1>7. \A i \in 1..n : cells[i] = IF i - p \in 1..Len(b) THEN b[i - p] ELSE c[i]
  BY <1>4
<1>8. \A i \in 1..n : i <= p => cells[i] = c[i]
  <2>1. \A i \in 1..n : i <= p => ~(i - p \in 1..Len(b))
    OBVIOUS
  <2> QED
    BY <1>7, <2>1
<1>9. x = [e EXCEPT !.heap = [e.heap EXCEPT ![k] = [e.heap[k] EXCEPT !.cells = cells]]]
  <2>1. k \in DOMAIN e.heap /\ e.heap[k] \in Array
    BY <1>1, HeapIs, SeqIs
  <2>2. x = [e EXCEPT !.heap[k].cells = [i \in DOMAIN e.heap[k].cells |->
                IF i - p \in DOMAIN b THEN b[i - p] ELSE e.heap[k].cells[i]]]
    BY DEF Store
  <2>3. x = [e EXCEPT !.heap[k].cells = cells]
    BY <1>1, <2>2
  <2> HIDE DEF cells, k, x
  <2> QED
    BY <2>3
<1> HIDE DEF cells, x
<1>10. /\ x \in Encoders /\ x.pos = e.pos /\ x.ok = e.ok
       /\ Cells(x) = cells /\ Room(x) = n /\ Len(x.heap) = k
       /\ Kept(e.heap, x.heap, p, transfer)
  BY <1>6, <1>8, <1>9, NewCellsAre
<1>11. ASSUME p + Len(b) <= n
       PROVE  Holds(x, p, b)
  <2>1. ASSUME NEW i \in 1..Len(b)
        PROVE  cells[p + i] = b[i]
    <3>1. p + i \in 1..n /\ (p + i) - p = i
      BY <1>1, <1>2, <1>11
    <3> QED
      BY <1>7, <3>1
  <2> QED
    BY <1>10, <1>11, <2>1 DEF Holds
<1> QED
  BY <1>7, <1>10, <1>11 DEF x

LEMMA PutIs ==
  ASSUME NEW e \in Encoders, NEW b \in Seq(Bytes), NEW transfer
  PROVE  LET x == Put(e, b)
         IN  /\ x \in Encoders /\ x.ok = e.ok
             /\ x.pos = IF e.ok THEN e.pos + Len(b) ELSE e.pos
             /\ Room(x) = Room(e) /\ Len(x.heap) = Len(e.heap)
             /\ Kept(e.heap, x.heap, e.pos, transfer)
             /\ e.ok /\ e.pos + Len(b) <= Room(e) => Holds(x, e.pos, b)
<1> DEFINE x == Put(e, b)
<1>1. e.heap \in Heaps /\ e.pos \in Nat /\ e.ok \in BOOLEAN
  BY EncoderIs
<1>2. CASE e.ok
  <2> DEFINE y == Store(e, e.pos, b)
  <2>1. x = [y EXCEPT !.pos = y.pos + Len(b)]
    BY <1>2 DEF Put
  <2>2. /\ y \in Encoders /\ y.pos = e.pos /\ y.ok = e.ok
        /\ Room(y) = Room(e) /\ Len(y.heap) = Len(e.heap)
        /\ Kept(e.heap, y.heap, e.pos, transfer)
        /\ e.pos + Len(b) <= Room(e) => Holds(y, e.pos, b)
    BY <1>1, StoreIs
  <2>3. Len(b) \in Nat
    BY SeqIs
  <2> HIDE DEF x, y
  <2>4. x \in Encoders /\ x.heap = y.heap /\ x.ok = y.ok /\ x.pos = e.pos + Len(b)
    BY <1>1, <2>1, <2>2, <2>3 DEF Encoders
  <2>5. Cells(x) = Cells(y) /\ Room(x) = Room(y)
    BY <2>4 DEF Cells, Room
  <2>6. Holds(y, e.pos, b) => Holds(x, e.pos, b)
    BY <2>5 DEF Holds
  <2> QED
    BY <1>2, <2>2, <2>4, <2>5, <2>6 DEF x
<1>3. CASE ~e.ok
  <2>1. x = e
    BY <1>3 DEF Put
  <2>2. Kept(e.heap, e.heap, e.pos, transfer)
    BY <1>1, KeptSame
  <2> QED
    BY <1>3, <2>1, <2>2
<1> QED
  BY <1>1, <1>2, <1>3

LEMMA ThrowIs ==
  ASSUME NEW e \in Encoders
  PROVE  LET x == Throw(e)
         IN  /\ x \in Encoders /\ x.ok = FALSE /\ x.pos = e.pos /\ x.heap = e.heap
             /\ Cells(x) = Cells(e) /\ Room(x) = Room(e)
<1>1. Throw(e) = [e EXCEPT !.ok = FALSE]
  BY DEF Throw
<1>2. /\ Throw(e) \in Encoders /\ Throw(e).ok = FALSE /\ Throw(e).pos = e.pos
      /\ Throw(e).heap = e.heap
  BY <1>1 DEF Encoders
<1> QED
  BY <1>2 DEF Cells, Room

\* The same array, another position.
LEMMA AtIs ==
  ASSUME NEW e \in Encoders, NEW p \in Nat
  PROVE  LET x == [e EXCEPT !.pos = p]
         IN  /\ x \in Encoders /\ x.ok = e.ok /\ x.pos = p /\ x.heap = e.heap
             /\ Cells(x) = Cells(e) /\ Room(x) = Room(e)
<1> DEFINE x == [e EXCEPT !.pos = p]
<1>1. x \in Encoders /\ x.ok = e.ok /\ x.pos = p /\ x.heap = e.heap
  BY DEF Encoders
<1> HIDE DEF x
<1>2. Cells(x) = Cells(e) /\ Room(x) = Room(e)
  BY <1>1 DEF Cells, Room
<1> QED
  BY <1>1, <1>2 DEF x

LEMMA PutCheckedIs ==
  ASSUME NEW e \in Encoders, NEW b \in Seq(Bytes), NEW transfer
  PROVE  LET x == PutChecked(e, b)
         IN  /\ x \in Encoders /\ Room(x) = Room(e) /\ Len(x.heap) = Len(e.heap)
             /\ e.pos <= x.pos
             /\ Kept(e.heap, x.heap, e.pos, transfer)
             /\ x.ok => e.ok /\ x.pos = e.pos + Len(b) /\ Holds(x, e.pos, b)
<1>1. e.heap \in Heaps /\ e.pos \in Nat /\ e.ok \in BOOLEAN /\ Room(e) \in Nat
  BY EncoderIs
<1>2. Len(b) \in Nat
  BY SeqIs
<1>3. CASE e.pos + Len(b) > Room(e)
  <2>1. PutChecked(e, b) = Throw(e)
    BY <1>3 DEF PutChecked
  <2>2. Kept(e.heap, e.heap, e.pos, transfer)
    BY <1>1, KeptSame
  <2>3. e.pos <= e.pos
    BY <1>1
  <2> QED
    BY <2>1, <2>2, <2>3, ThrowIs
<1>4. CASE ~(e.pos + Len(b) > Room(e))
  <2>1. PutChecked(e, b) = Put(e, b)
    BY <1>4 DEF PutChecked
  <2>2. e.pos + Len(b) <= Room(e) /\ e.pos <= e.pos + Len(b) /\ e.pos <= e.pos
    BY <1>1, <1>2, <1>4
  <2> DEFINE x == Put(e, b)
  <2>3. /\ x \in Encoders /\ x.ok = e.ok
        /\ x.pos = IF e.ok THEN e.pos + Len(b) ELSE e.pos
        /\ Room(x) = Room(e) /\ Len(x.heap) = Len(e.heap)
        /\ Kept(e.heap, x.heap, e.pos, transfer)
        /\ e.ok /\ e.pos + Len(b) <= Room(e) => Holds(x, e.pos, b)
    BY PutIs
  <2> HIDE DEF x
  <2> QED
    BY <1>1, <2>1, <2>2, <2>3 DEF x
<1> QED
  BY <1>3, <1>4

LEMMA OtherCells ==
  ASSUME NEW c, NEW d
  PROVE  [[cells |-> c, detached |-> FALSE] EXCEPT !.cells = d] = [cells |-> d, detached |-> FALSE]
<1> DEFINE a == [cells |-> c, detached |-> FALSE]
           b == [a EXCEPT !.cells = d]
           R == [cells : {c, d}, detached : {FALSE}]
<1>1. a \in R
  OBVIOUS
<1>2. b \in R /\ b.cells = d /\ b.detached = FALSE
  <2> HIDE DEF a
  <2> QED
    BY <1>1
<1> HIDE DEF b
<1>3. b = [cells |-> d, detached |-> FALSE]
  BY <1>2
<1> QED
  BY <1>3 DEF b

\* A larger array has what the old one has, and room for what is needed.
LEMMA EnsureCapacityIs ==
  ASSUME NEW e \in Encoders, NEW transfer \in BOOLEAN, NEW needed \in Nat
  PROVE  LET x == EnsureCapacity(e, transfer, needed)
         IN  /\ x \in Encoders /\ x.pos = e.pos /\ x.ok = e.ok
             /\ Room(e) <= Room(x)
             /\ e.ok => e.pos + needed <= Room(x)
             /\ \A i \in 1..Room(e) : Cells(x)[i] = Cells(e)[i]
             /\ \A p : Kept(e.heap, x.heap, p, transfer)
             /\ ~e.ok => x = e
<1> DEFINE x == EnsureCapacity(e, transfer, needed)
           k == Len(e.heap)
           n == Room(e)
           c == Cells(e)
<1>1. /\ e.heap \in Heaps /\ e.pos \in Nat /\ e.ok \in BOOLEAN /\ n \in Nat
      /\ k \in Nat /\ k >= 1 /\ c = e.heap[k].cells /\ n = Len(c) /\ c \in Seq(Bytes)
      /\ \A i \in 1..n : c[i] \in Bytes
  BY EncoderIs
<1>2. CASE ~e.ok \/ e.pos + needed <= n
  <2>1. x = e
    BY <1>2 DEF EnsureCapacity
  <2>2. \A p : Kept(e.heap, e.heap, p, transfer)
    BY <1>1, KeptSame
  <2>3. n <= n
    BY <1>1
  <2> QED
    BY <1>2, <2>1, <2>2, <2>3
<1>3. CASE ~(~e.ok \/ e.pos + needed <= n)
  <2> DEFINE size == Max({2 * n, e.pos + needed})
             cells == [i \in 1..size |-> IF i <= n THEN c[i] ELSE 0]
             larger == [cells |-> cells, detached |-> FALSE]
             g == IF transfer THEN [e.heap EXCEPT ![k] = Detached] ELSE e.heap
             h == Append(g, larger)
  <2>1. size \in Nat /\ n <= size /\ e.pos + needed <= size
    <3> DEFINE s == {2 * n, e.pos + needed}
               m == 2 * n + (e.pos + needed)
    <3>1. m \in Nat /\ s \in SUBSET (0..m) /\ s # {} /\ 2 * n \in s /\ e.pos + needed \in s
      <4> DEFINE q == e.pos + needed
                 r == 2 * n
      <4>1. q \in Nat /\ r \in Nat
        BY <1>1
      <4> HIDE DEF q, r
      <4>2. r + q \in Nat /\ {r, q} \in SUBSET (0..(r + q)) /\ {r, q} # {} /\ r \in {r, q} /\ q \in {r, q}
        BY <4>1
      <4> QED
        BY <4>2 DEF q, r
    <3>2. Max(s) \in s /\ \A i \in s : i <= Max(s)
      <4> HIDE DEF s, m
      <4> QED
        BY <3>1, MaxIsIn
    <3>3. size = Max(s)
      OBVIOUS
    <3> HIDE DEF size
    <3>4. size \in Nat /\ 2 * n <= size /\ e.pos + needed <= size
      <4> HIDE DEF s, m
      <4>1. size \in 0..m /\ 2 * n <= size /\ e.pos + needed <= size
        BY <3>1, <3>2, <3>3
      <4> QED
        BY <3>1, <4>1
    <3>5. n <= size
      BY <1>1, <3>4
    <3> QED
      BY <3>4, <3>5
  <2>2. x = [e EXCEPT !.heap = h]
    <3>1. [NewArray(size) EXCEPT !.cells =
             [i \in DOMAIN NewArray(size).cells |-> IF i <= n THEN c[i] ELSE NewArray(size).cells[i]]]
            = larger
      <4> HIDE DEF size
      <4>1. NewArray(size) = [cells |-> [i \in 1..size |-> 0], detached |-> FALSE]
        BY DEF NewArray
      <4>2. DOMAIN NewArray(size).cells = 1..size /\ \A i \in 1..size : NewArray(size).cells[i] = 0
        BY <4>1
      <4>3. [i \in DOMAIN NewArray(size).cells |-> IF i <= n THEN c[i] ELSE NewArray(size).cells[i]]
              = cells
        BY <4>2
      <4> DEFINE a == NewArray(size)
                 d == [i \in DOMAIN a.cells |-> IF i <= n THEN c[i] ELSE a.cells[i]]
                 zeros == [i \in 1..size |-> 0]
      <4>4. a = [cells |-> zeros, detached |-> FALSE] /\ d = cells
        BY <4>1, <4>3
      <4> HIDE DEF cells, a, d, zeros
      <4>5. [a EXCEPT !.cells = d] = [cells |-> cells, detached |-> FALSE]
        BY <4>4, OtherCells
      <4> QED
        BY <4>5 DEF a, d
    <3> HIDE DEF larger
    <3> QED
      BY <1>3, <3>1 DEF EnsureCapacity
  <2> HIDE DEF size
  <2>3. cells \in Seq(Bytes) /\ Len(cells) = size /\ \A i \in 1..n : cells[i] = c[i]
    <3>1. 0 \in Bytes
      BY PowerIs
    <3>2. cells \in [1..size -> Bytes]
      BY <1>1, <2>1, <3>1
    <3>3. \A i \in 1..n : i \in 1..size
      BY <1>1, <2>1
    <3>4. \A i \in 1..n : cells[i] = c[i]
      BY <3>3
    <3> HIDE DEF cells
    <3> QED
      BY <2>1, <3>2, <3>4, ListIs
  <2> HIDE DEF cells
  <2>4. larger \in Array /\ larger.cells = cells /\ larger.detached = FALSE
    BY <2>3 DEF Array
  <2> HIDE DEF larger
  <2>5. /\ e.heap \in Seq(Array) /\ k \in 1..k /\ ~e.heap[k].detached
        /\ \A i \in 1..k : e.heap[i].detached => i < k
    BY <1>1, HeapIs
  <2>6. /\ g \in Seq(Array) /\ Len(g) = k /\ \A i \in 1..(k - 1) : g[i] = e.heap[i]
        /\ g[k] = IF transfer THEN Detached ELSE e.heap[k]
    <3>1. Detached \in Array
      BY DEF Detached, Array
    <3> QED
      BY <2>5, <3>1
  <2> HIDE DEF g
  <2>7. /\ h \in Seq(Array) /\ Len(h) = k + 1 /\ h[k + 1] = larger
        /\ \A i \in 1..k : h[i] = g[i]
    BY <2>4, <2>6
  <2> HIDE DEF h
  <2>8. h \in Heaps
    <3>1. \A i \in 1..Len(h) : h[i].detached => i < Len(h)
      <4>1. SUFFICES ASSUME NEW i \in 1..(k + 1), h[i].detached
                     PROVE  i < k + 1
        BY <2>7
      <4>2. i # k + 1
        BY <2>4, <2>7, <4>1
      <4> QED
        BY <1>1, <4>2
    <3>2. h # <<>>
      BY <1>1, <2>7
    <3> QED
      BY <2>7, <3>1, <3>2 DEF Heaps
  <2>9. x \in Encoders /\ x.heap = h /\ x.pos = e.pos /\ x.ok = e.ok
    BY <1>1, <2>2, <2>8 DEF Encoders
  <2> HIDE DEF x
  <2>10. Cells(x) = cells /\ Room(x) = size
    <3>1. Cells(x) = h[k + 1].cells
      BY <2>7, <2>9, EncoderIs
    <3> QED
      BY <2>3, <2>4, <2>7, <3>1 DEF Room
  <2>11. ASSUME NEW p
         PROVE  Kept(e.heap, h, p, transfer)
    <3>1. SameFront(c, cells, p)
      BY <1>1, <2>1, <2>3 DEF SameFront
    <3>2. SameFront(c, c, p)
      <4>1. Len(c) <= Len(c)
        BY <1>1
      <4> QED
        BY <4>1 DEF SameFront
    <3>3. k <= Len(h) /\ \A i \in 1..(k - 1) : h[i] = e.heap[i]
      <4>1. k <= k + 1 /\ \A i \in 1..(k - 1) : i \in 1..k
        BY <1>1
      <4> QED
        BY <2>6, <2>7, <4>1
    <3>4. h[k] = IF transfer THEN Detached ELSE e.heap[k]
      BY <1>1, <2>6, <2>7
    <3>5. h[Len(h)].cells = cells
      BY <2>4, <2>7
    <3>6. \/ transfer /\ h[k].detached
          \/ /\ ~h[k].detached /\ SameFront(c, h[k].cells, p) /\ Len(h[k].cells) = Len(c)
      BY <1>1, <2>5, <3>2, <3>4 DEF Detached
    <3> HIDE DEF k, c
    <3>7. c = e.heap[k].cells
      BY <1>1
    <3> QED
      BY <3>1, <3>3, <3>5, <3>6, <3>7 DEF Kept, k
  <2> QED
    BY <1>3, <2>1, <2>3, <2>9, <2>10, <2>11 DEF x
<1> QED
  BY <1>2, <1>3

-----------------------------------------------------------------------------
(* What a call that writes does.                                           *)

LEMMA BytesAreNat ==
  ASSUME NEW b \in Seq(Bytes)
  PROVE  b \in Seq(Nat)
<1>1. Bytes \subseteq Nat
  BY PowerIs
<1>2. Len(b) \in Nat /\ b \in [1..Len(b) -> Bytes]
  OBVIOUS
<1>3. b \in [1..Len(b) -> Nat]
  BY <1>1, <1>2
<1> QED
  BY <1>2, <1>3, ListIs

LEMMA ListsAreNat ==
  ASSUME NEW ss \in Seq(Seq(Bytes))
  PROVE  ss \in Seq(Seq(Nat))
<1> DEFINE n == Len(ss)
<1>1. n \in Nat /\ ss = [i \in 1..n |-> ss[i]] /\ \A i \in 1..n : ss[i] \in Seq(Bytes)
  OBVIOUS
<1>2. \A i \in 1..n : ss[i] \in Seq(Nat)
  BY <1>1, BytesAreNat
<1>3. ss \in [1..n -> Seq(Nat)]
  BY <1>1, <1>2
<1> QED
  BY <1>1, <1>3, ListIs

\* From e, x is reached: nothing before its position is lost, and if x did not
\* throw, and what is to be written fits, x has it.
Writes(e, x, b, fits, transfer) ==
  /\ x \in Encoders /\ e.pos <= x.pos
  /\ Kept(e.heap, x.heap, e.pos, transfer)
  /\ x.ok => e.ok
  /\ fits /\ x.ok => x.pos = e.pos + Len(b) /\ Holds(x, e.pos, b)

LEMMA HoldsKept ==
  ASSUME NEW x \in Encoders, NEW y \in Encoders, NEW p \in Nat, NEW q \in Nat, NEW b \in Seq(Nat),
         NEW transfer, Holds(x, p, b), p + Len(b) <= q, Kept(x.heap, y.heap, q, transfer)
  PROVE  Holds(y, p, b)
<1>1. /\ Cells(x) = x.heap[Len(x.heap)].cells /\ Room(x) = Len(Cells(x)) /\ Room(x) \in Nat
      /\ Cells(y) = y.heap[Len(y.heap)].cells /\ Room(y) = Len(Cells(y)) /\ Room(y) \in Nat
  BY EncoderIs
<1>2. SameFront(Cells(x), Cells(y), q)
  BY <1>1 DEF Kept
<1>3. Room(x) <= Room(y) /\ \A i \in 1..Room(x) : i <= q => Cells(y)[i] = Cells(x)[i]
  BY <1>1, <1>2 DEF SameFront
<1>4. Len(b) \in Nat
  BY SeqIs
<1>5. p + Len(b) <= Room(x) /\ \A i \in 1..Len(b) : Cells(x)[p + i] = b[i]
  BY DEF Holds
<1> DEFINE l == Len(b)
           k == Room(x)
           n == Room(y)
<1>6. l \in Nat /\ k \in Nat /\ n \in Nat /\ p + l <= k /\ k <= n /\ p + l <= q
  BY <1>1, <1>3, <1>4, <1>5
<1> HIDE DEF l, k, n
<1>7. p + l <= n
  BY <1>6
<1>8. ASSUME NEW i \in 1..l
      PROVE  p + i \in 1..k /\ p + i <= q
  BY <1>6
<1>9. \A i \in 1..l : Cells(y)[p + i] = b[i]
  BY <1>3, <1>5, <1>8 DEF l, k
<1> QED
  BY <1>7, <1>9 DEF Holds, l, n

LEMMA HoldsCat ==
  ASSUME NEW y \in Encoders, NEW p \in Nat, NEW b \in Seq(Nat), NEW c \in Seq(Nat),
         Holds(y, p, b), Holds(y, p + Len(b), c)
  PROVE  Holds(y, p, b \o c)
<1> DEFINE d == b \o c
           m == Len(b)
           n == Len(c)
<1>1. /\ m \in Nat /\ n \in Nat /\ Len(d) = m + n
      /\ \A i \in 1..m : d[i] = b[i]
      /\ \A i \in 1..n : d[m + i] = c[i]
  BY CatIs
<1>2. /\ \A i \in 1..m : Cells(y)[p + i] = b[i]
      /\ \A i \in 1..n : Cells(y)[(p + m) + i] = c[i]
      /\ (p + m) + n <= Room(y)
  BY DEF Holds
<1> HIDE DEF d, m, n
<1>3. ASSUME NEW i \in 1..(m + n)
      PROVE  Cells(y)[p + i] = d[i]
  <2>1. CASE i <= m
    <3>1. i \in 1..m
      BY <1>1, <2>1
    <3> QED
      BY <1>1, <1>2, <3>1
  <2>2. CASE i > m
    <3> DEFINE j == i - m
    <3>1. j \in 1..n /\ i = m + j /\ p + i = (p + m) + j
      BY <1>1, <2>2
    <3> HIDE DEF j
    <3>2. d[m + j] = c[j] /\ Cells(y)[(p + m) + j] = c[j]
      BY <1>1, <1>2, <3>1
    <3> QED
      BY <3>1, <3>2
  <2> QED
    BY <1>1, <2>1, <2>2
<1>4. p + (m + n) <= Room(y)
  <2>1. (p + m) + n = p + (m + n)
    BY <1>1
  <2> QED
    BY <1>2, <2>1
<1>5. Holds(y, p, d)
  BY <1>1, <1>3, <1>4 DEF Holds
<1> QED
  BY <1>5 DEF d

LEMMA WritesNothing ==
  ASSUME NEW e \in Encoders, NEW fits, NEW transfer,
         fits => e.pos <= Room(e)
  PROVE  Writes(e, e, <<>>, fits, transfer)
<1>1. e.heap \in Heaps /\ e.pos \in Nat /\ Room(e) \in Nat
  BY EncoderIs
<1>2. Kept(e.heap, e.heap, e.pos, transfer)
  BY <1>1, KeptSame
<1>3. fits => Holds(e, e.pos, <<>>)
  <2>1. Len(<<>>) = 0 /\ e.pos + 0 = e.pos
    BY <1>1
  <2> QED
    BY <2>1 DEF Holds
<1>4. e.pos = e.pos + Len(<<>>) /\ e.pos <= e.pos
  BY <1>1
<1> QED
  BY <1>2, <1>3, <1>4 DEF Writes

\* One call after another.
LEMMA WritesBoth ==
  ASSUME NEW e \in Encoders, NEW x, NEW y, NEW b \in Seq(Nat), NEW c \in Seq(Nat),
         NEW first, NEW second, NEW transfer \in BOOLEAN,
         Writes(e, x, b, first, transfer), Writes(x, y, c, second, transfer)
  PROVE  Writes(e, y, b \o c, first /\ second, transfer)
<1>1. x \in Encoders /\ y \in Encoders /\ e.pos <= x.pos /\ x.pos <= y.pos
  BY DEF Writes
<1>2. /\ e.heap \in Heaps /\ x.heap \in Heaps /\ y.heap \in Heaps
      /\ e.pos \in Nat /\ x.pos \in Nat /\ y.pos \in Nat
  BY <1>1, EncoderIs
<1>3. Kept(e.heap, x.heap, e.pos, transfer) /\ Kept(x.heap, y.heap, x.pos, transfer)
  BY DEF Writes
<1>4. Kept(e.heap, y.heap, e.pos, transfer)
  <2>1. Kept(x.heap, y.heap, e.pos, transfer)
    <3> DEFINE p == x.pos
               q == e.pos
    <3>1. p \in Int /\ q \in Int /\ q <= p /\ Kept(x.heap, y.heap, p, transfer)
      BY <1>1, <1>2, <1>3
    <3> HIDE DEF p, q
    <3>2. Kept(x.heap, y.heap, q, transfer)
      BY <3>1, KeptLess
    <3> QED
      BY <3>2 DEF q
  <2> QED
    BY <1>2, <1>3, <2>1, KeptTrans
<1>5. ASSUME first, second, y.ok
      PROVE  y.pos = e.pos + Len(b \o c) /\ Holds(y, e.pos, b \o c)
  <2>1. x.ok /\ y.pos = x.pos + Len(c) /\ Holds(y, x.pos, c)
    BY <1>5 DEF Writes
  <2>2. x.pos = e.pos + Len(b) /\ Holds(x, e.pos, b)
    BY <1>5, <2>1 DEF Writes
  <2>3. Len(b) \in Nat /\ Len(c) \in Nat /\ Len(b \o c) = Len(b) + Len(c)
    BY CatIs
  <2>4. Holds(y, e.pos, b)
    <3>1. e.pos + Len(b) <= x.pos
      BY <1>2, <2>2, <2>3
    <3> QED
      BY <1>1, <1>2, <1>3, <2>2, <3>1, HoldsKept
  <2>5. Holds(y, e.pos, b \o c)
    BY <1>1, <1>2, <2>1, <2>2, <2>4, HoldsCat
  <2>6. y.pos = e.pos + Len(b \o c)
    BY <1>2, <2>1, <2>2, <2>3
  <2> QED
    BY <2>5, <2>6
<1>6. e.pos <= y.pos /\ (y.ok => e.ok)
  <2>1. y.ok => e.ok
    BY DEF Writes
  <2> QED
    BY <1>1, <1>2, <2>1
<1> QED
  BY <1>1, <1>4, <1>5, <1>6 DEF Writes

\* Throwing afterwards promises less.
LEMMA WritesThrow ==
  ASSUME NEW e \in Encoders, NEW x, NEW b, NEW c, NEW fits, NEW other, NEW transfer,
         Writes(e, x, b, fits, transfer)
  PROVE  Writes(e, Throw(x), c, other, transfer)
<1>1. x \in Encoders
  BY DEF Writes
<1>2. Throw(x) \in Encoders /\ Throw(x).ok = FALSE /\ Throw(x).pos = x.pos /\ Throw(x).heap = x.heap
  BY <1>1, ThrowIs
<1> QED
  BY <1>2 DEF Writes

LEMMA WritesPut ==
  ASSUME NEW e \in Encoders, NEW b \in Seq(Bytes), NEW fits, NEW transfer,
         fits /\ e.ok => e.pos + Len(b) <= Room(e)
  PROVE  Writes(e, Put(e, b), b, fits, transfer)
<1> DEFINE x == Put(e, b)
<1>1. /\ x \in Encoders /\ x.ok = e.ok
      /\ x.pos = IF e.ok THEN e.pos + Len(b) ELSE e.pos
      /\ Kept(e.heap, x.heap, e.pos, transfer)
      /\ e.ok /\ e.pos + Len(b) <= Room(e) => Holds(x, e.pos, b)
  BY PutIs
<1>2. Len(b) \in Nat /\ e.pos \in Nat /\ e.ok \in BOOLEAN
  BY EncoderIs, SeqIs
<1> HIDE DEF x
<1>3. e.pos <= x.pos
  BY <1>1, <1>2
<1>4. Writes(e, x, b, fits, transfer)
  BY <1>1, <1>3 DEF Writes
<1> QED
  BY <1>4 DEF x

LEMMA WritesEnsure ==
  ASSUME NEW e \in Encoders, NEW needed \in Nat, NEW fits, NEW transfer \in BOOLEAN,
         fits => e.ok \/ e.pos <= Room(e)
  PROVE  Writes(e, EnsureCapacity(e, transfer, needed), <<>>, fits, transfer)
<1> DEFINE x == EnsureCapacity(e, transfer, needed)
<1>1. /\ x \in Encoders /\ x.pos = e.pos /\ x.ok = e.ok
      /\ Room(e) <= Room(x) /\ (e.ok => e.pos + needed <= Room(x))
      /\ Kept(e.heap, x.heap, e.pos, transfer)
  BY EnsureCapacityIs
<1> HIDE DEF x
<1>2. e.pos \in Nat /\ Room(e) \in Nat /\ Room(x) \in Nat
  BY <1>1, EncoderIs
<1>3. e.pos <= x.pos /\ x.pos = e.pos + Len(<<>>)
  BY <1>1, <1>2
<1>4. fits => Holds(x, e.pos, <<>>)
  <2>1. fits => e.pos <= Room(x)
    BY <1>1, <1>2
  <2>2. Len(<<>>) = 0 /\ e.pos + 0 = e.pos
    BY <1>2
  <2> QED
    BY <2>1, <2>2 DEF Holds
<1>5. Writes(e, x, <<>>, fits, transfer)
  BY <1>1, <1>3, <1>4 DEF Writes
<1> QED
  BY <1>5 DEF x

-----------------------------------------------------------------------------
(* The encoders that grow.                                                 *)

\* A call appends b, or throws, and the array has room for what was written.
Grown(e, x, b, transfer) == Writes(e, x, b, TRUE, transfer) /\ x.pos <= Room(x)

LEMMA GrownIs ==
  ASSUME NEW e \in Encoders, NEW x, NEW b, NEW transfer, Grown(e, x, b, transfer)
  PROVE  x \in Encoders /\ x.pos <= Room(x)
BY DEF Grown, Writes

LEMMA GrownNothing ==
  ASSUME NEW e \in Encoders, e.pos <= Room(e), NEW transfer
  PROVE  Grown(e, e, <<>>, transfer)
BY WritesNothing DEF Grown

LEMMA GrownBoth ==
  ASSUME NEW e \in Encoders, NEW x, NEW y, NEW b \in Seq(Nat), NEW c \in Seq(Nat),
         NEW transfer \in BOOLEAN, Grown(e, x, b, transfer), Grown(x, y, c, transfer)
  PROVE  Grown(e, y, b \o c, transfer)
<1>1. Writes(e, x, b, TRUE, transfer) /\ Writes(x, y, c, TRUE, transfer) /\ y.pos <= Room(y)
  BY DEF Grown
<1>2. Writes(e, y, b \o c, TRUE /\ TRUE, transfer)
  BY <1>1, WritesBoth
<1>3. Writes(e, y, b \o c, TRUE, transfer)
  BY <1>2 DEF Writes
<1> QED
  BY <1>1, <1>3 DEF Grown

LEMMA GrownThrow ==
  ASSUME NEW e \in Encoders, NEW x, NEW b, NEW c, NEW transfer, Grown(e, x, b, transfer)
  PROVE  Grown(e, Throw(x), c, transfer)
<1>1. Writes(e, x, b, TRUE, transfer) /\ x.pos <= Room(x) /\ x \in Encoders
  BY GrownIs DEF Grown
<1>2. Writes(e, Throw(x), c, TRUE, transfer)
  BY <1>1, WritesThrow
<1>3. Throw(x).pos <= Room(Throw(x))
  BY <1>1, ThrowIs
<1> QED
  BY <1>2, <1>3 DEF Grown

LEMMA GrownEnsure ==
  ASSUME NEW e \in Encoders, e.pos <= Room(e), NEW needed \in Nat, NEW transfer \in BOOLEAN
  PROVE  Grown(e, EnsureCapacity(e, transfer, needed), <<>>, transfer)
<1> DEFINE x == EnsureCapacity(e, transfer, needed)
<1>1. Writes(e, x, <<>>, TRUE, transfer)
  BY WritesEnsure
<1>2. x \in Encoders /\ x.pos = e.pos /\ Room(e) <= Room(x)
  BY EnsureCapacityIs
<1> HIDE DEF x
<1>3. e.pos \in Nat /\ Room(e) \in Nat /\ Room(x) \in Nat
  BY <1>2, EncoderIs
<1>4. x.pos <= Room(x)
  BY <1>2, <1>3
<1> QED
  BY <1>1, <1>4 DEF Grown, x

LEMMA GrownPut ==
  ASSUME NEW e \in Encoders, e.pos <= Room(e), NEW b \in Seq(Bytes), NEW transfer,
         e.ok => e.pos + Len(b) <= Room(e)
  PROVE  Grown(e, Put(e, b), b, transfer)
<1> DEFINE x == Put(e, b)
<1>1. Writes(e, x, b, TRUE, transfer)
  BY WritesPut
<1>2. x.pos = (IF e.ok THEN e.pos + Len(b) ELSE e.pos) /\ Room(x) = Room(e)
  BY PutIs
<1> HIDE DEF x
<1>3. x.pos <= Room(x)
  BY <1>2
<1> QED
  BY <1>1, <1>3 DEF Grown, x

LEMMA GrownReserved ==
  ASSUME NEW e \in Encoders, e.pos <= Room(e), NEW runtime, runtime.transfer \in BOOLEAN,
         NEW b \in Seq(Bytes), NEW needed \in Nat, Len(b) <= needed
  PROVE  Grown(e, Reserved(e, runtime, needed, b), b, runtime.transfer)
<1> DEFINE x == EnsureCapacity(e, runtime.transfer, needed)
<1>1. Grown(e, x, <<>>, runtime.transfer) /\ Reserved(e, runtime, needed, b) = Put(x, b)
  BY GrownEnsure DEF Reserved
<1>2. x \in Encoders /\ x.pos = e.pos /\ x.ok = e.ok /\ (e.ok => e.pos + needed <= Room(x))
  BY EnsureCapacityIs
<1>3. x.pos <= Room(x)
  BY <1>1, GrownIs
<1> HIDE DEF x
<1>4. e.pos \in Nat /\ Room(x) \in Nat /\ Len(b) \in Nat
  BY <1>2, EncoderIs, SeqIs
<1>5. x.ok => x.pos + Len(b) <= Room(x)
  BY <1>2, <1>4
<1>6. Grown(x, Put(x, b), b, runtime.transfer)
  BY <1>2, <1>3, <1>5, GrownPut
<1>7. <<>> \in Seq(Nat) /\ b \in Seq(Nat)
  BY BytesAreNat
<1>8. Grown(e, Put(x, b), <<>> \o b, runtime.transfer)
  BY <1>1, <1>6, <1>7, GrownBoth
<1>9. <<>> \o b = b
  OBVIOUS
<1> QED
  BY <1>1, <1>8, <1>9

-----------------------------------------------------------------------------
(* index.ts, browser.ts, node.ts.                                          *)

\* Encoders that have room for what they wrote.
Ready == {e \in Encoders : e.pos <= Room(e)}

LEMMA ReadyIs ==
  /\ \A e \in Ready : e \in Encoders /\ e.pos <= Room(e)
  /\ \A e, x, b, transfer : e \in Ready /\ Grown(e, x, b, transfer) => x \in Ready
BY GrownIs DEF Ready

WireTypes == Numeric \cup {"string", "bytes", "message", "base64", "not_base64", "pair"}

LEMMA ValuesAre ==
  /\ ValuesOf("string") = Seq(Units)
  /\ ValuesOf("pair") = Seq(Units) \X Seq(Units)
  /\ \A t \in {"bytes", "message", "base64"} : ValuesOf(t) = Seq(Bytes)
  /\ \A t \in {"bytes", "message", "base64", "not_base64"} : ValuesOf(t) \subseteq Seq(Bytes)
  /\ \A t \in {"string", "pair", "bytes", "message", "base64", "not_base64"} : ~IsFixed(t)
BY DEF ValuesOf, IsFixed, Units

LEMMA OnWireIs ==
  ASSUME NEW t \in WireTypes, NEW v \in ValuesOf(t)
  PROVE  /\ ScalarOnWire(t, v) \in Seq(Bytes)
         /\ IsFixed(t) => ScalarOnWire(t, v) = FixedBytes(t, v)
         /\ t = "string" => ScalarOnWire(t, v) = AppendBytes(Utf8(v))
         /\ t = "pair" => ScalarOnWire(t, v) = AppendBytes(Utf8(v[1])) \o AppendBytes(Utf8(v[2]))
         /\ t \in {"bytes", "message", "base64", "not_base64"} => ScalarOnWire(t, v) = AppendBytes(v)
<1>1. CASE t \in Numeric
  <2>1. IsFixed(t) /\ t \notin {"string", "pair", "bytes", "message", "base64", "not_base64"}
    BY <1>1 DEF Numeric, IsFixed
  <2>2. ScalarOnWire(t, v) = FixedBytes(t, v)
    BY <2>1 DEF ScalarOnWire
  <2> QED
    BY <1>1, <2>1, <2>2, FixedBytesIs
<1>2. CASE t = "string"
  <2>1. ScalarOnWire(t, v) = AppendBytes(Utf8(v)) /\ v \in Seq(Units) /\ ~IsFixed(t)
    BY <1>2, ValuesAre DEF ScalarOnWire
  <2>2. Utf8(v) \in Seq(Bytes)
    BY <2>1, Utf8Is
  <2> QED
    BY <1>2, <2>1, <2>2, AppendBytesIs
<1>3. CASE t = "pair"
  <2>1. /\ ScalarOnWire(t, v) = AppendBytes(Utf8(v[1])) \o AppendBytes(Utf8(v[2]))
        /\ v[1] \in Seq(Units) /\ v[2] \in Seq(Units) /\ ~IsFixed(t)
    BY <1>3, ValuesAre DEF ScalarOnWire
  <2>2. Utf8(v[1]) \in Seq(Bytes) /\ Utf8(v[2]) \in Seq(Bytes)
    BY <2>1, Utf8Is
  <2>3. AppendBytes(Utf8(v[1])) \in Seq(Bytes) /\ AppendBytes(Utf8(v[2])) \in Seq(Bytes)
    BY <2>2, AppendBytesIs
  <2>4. AppendBytes(Utf8(v[1])) \o AppendBytes(Utf8(v[2])) \in Seq(Bytes)
    BY <2>3, CatIs
  <2> QED
    BY <1>3, <2>1, <2>4
<1>4. CASE t \in {"bytes", "message", "base64", "not_base64"}
  <2>1. ScalarOnWire(t, v) = AppendBytes(v) /\ v \in Seq(Bytes) /\ ~IsFixed(t)
    BY <1>4, ValuesAre DEF ScalarOnWire
  <2> QED
    BY <1>4, <2>1, AppendBytesIs
<1> QED
  BY <1>1, <1>2, <1>3, <1>4 DEF WireTypes

LEMMA WriteFixedIs ==
  ASSUME NEW e \in Ready, NEW runtime, runtime.transfer \in BOOLEAN, NEW t \in Numeric, NEW v \in ValuesOf(t)
  PROVE  /\ Grown(e, WriteFixed(e, runtime, t, v), FixedBytes(t, v), runtime.transfer)
         /\ Grown(e, BrowserWriteFixed(e, runtime, t, v), FixedBytes(t, v), runtime.transfer)
         /\ Grown(e, NodeWriteFixed(e, runtime, t, v), FixedBytes(t, v), runtime.transfer)
<1> DEFINE b == FixedBytes(t, v)
           n == Width(t)
<1>1. b \in Seq(Bytes) /\ Len(b) = n /\ n \in Nat
  BY FixedBytesIs, NumericIs
<1>2. e \in Encoders /\ e.pos <= Room(e)
  BY ReadyIs
<1>3. BrowserWriteFixed(e, runtime, t, v) = Reserved(e, runtime, n, b)
  <2>1. CASE t \in {"int64", "uint64"}
    <3>1. v \in Int
      BY <2>1, NumericIs
    <3>2. Halves(v) = b
      BY <2>1, <3>1, HalvesIs
    <3> QED
      BY <2>1, <3>2 DEF BrowserWriteFixed
  <2>2. CASE t \notin {"int64", "uint64"}
    BY <2>2 DEF BrowserWriteFixed
  <2> QED
    BY <2>1, <2>2
<1>4. WriteFixed(e, runtime, t, v) = Reserved(e, runtime, n, b)
  BY DEF WriteFixed
<1>5. Grown(e, Reserved(e, runtime, n, b), b, runtime.transfer)
  <2> HIDE DEF b, n
  <2>1. Len(b) <= n
    BY <1>1
  <2> QED
    BY <1>1, <1>2, <2>1, GrownReserved
<1>6. Grown(e, NodeWriteFixed(e, runtime, t, v), b, runtime.transfer)
  <2>1. CASE InRange(t, v)
    BY <1>4, <1>5, <2>1 DEF NodeWriteFixed
  <2>2. CASE ~InRange(t, v)
    <3>1. Grown(e, EnsureCapacity(e, runtime.transfer, n), <<>>, runtime.transfer)
      BY <1>1, <1>2, GrownEnsure
    <3>2. NodeWriteFixed(e, runtime, t, v) = Throw(EnsureCapacity(e, runtime.transfer, n))
      BY <2>2 DEF NodeWriteFixed
    <3> QED
      BY <1>2, <3>1, <3>2, GrownThrow
  <2> QED
    BY <2>1, <2>2
<1> QED
  BY <1>3, <1>4, <1>5, <1>6

LEMMA WriteBytesIs ==
  ASSUME NEW e \in Ready, NEW runtime, runtime.transfer \in BOOLEAN, NEW b \in Seq(Bytes)
  PROVE  Grown(e, WriteBytes(e, runtime, b), AppendBytes(b), runtime.transfer)
<1> DEFINE n == Len(b)
           a == AppendCompactLength(n)
           x == WriteCompactLength(e, runtime, n)
<1>1. e \in Encoders /\ e.pos <= Room(e) /\ n \in Nat
  BY ReadyIs, SeqIs
<1>2. a \in Seq(Bytes) /\ Len(a) \in Nat /\ Len(a) <= Len(a) /\ n <= n
  BY <1>1, CompactLengthIs, SeqIs
<1>3. x = Reserved(e, runtime, Len(a), a)
  BY DEF WriteCompactLength
<1> HIDE DEF a, x
<1>4. Grown(e, x, a, runtime.transfer)
  BY <1>1, <1>2, <1>3, GrownReserved
<1>5. x \in Encoders /\ x.pos <= Room(x)
  BY <1>1, <1>4, GrownIs
<1>6. Grown(x, Reserved(x, runtime, n, b), b, runtime.transfer)
  BY <1>1, <1>2, <1>5, GrownReserved
<1>7. a \in Seq(Nat) /\ b \in Seq(Nat)
  BY <1>2, BytesAreNat
<1>8. Grown(e, Reserved(x, runtime, n, b), a \o b, runtime.transfer)
  BY <1>1, <1>4, <1>6, <1>7, GrownBoth
<1>9. AppendBytes(b) = a \o b /\ WriteBytes(e, runtime, b) = Reserved(x, runtime, n, b)
  BY DEF AppendBytes, WriteBytes, a, x
<1> QED
  BY <1>8, <1>9

\* The room a short text is tried in.
LEMMA TriedShortIs ==
  ASSUME NEW e \in Ready, NEW runtime, runtime.transfer \in BOOLEAN, NEW s \in Seq(Units)
  PROVE  LET x == TriedShort(e, runtime, s)
         IN  /\ x \in Ready /\ Grown(e, x, <<>>, runtime.transfer)
             /\ Len(s) < ShortWrite /\ x.ok => x.pos + (Len(s) + 1) <= Room(x)
<1>1. e \in Encoders /\ e.pos <= Room(e) /\ Len(s) \in Nat /\ Len(s) + 1 \in Nat
  BY ReadyIs, SeqIs
<1>2. CASE Len(s) < ShortWrite
  <2> DEFINE x == EnsureCapacity(e, runtime.transfer, Len(s) + 1)
  <2>1. TriedShort(e, runtime, s) = x
    BY <1>2 DEF TriedShort
  <2>2. Grown(e, x, <<>>, runtime.transfer)
    BY <1>1, GrownEnsure
  <2>3. x.pos = e.pos /\ x.ok = e.ok /\ (e.ok => e.pos + (Len(s) + 1) <= Room(x))
    BY <1>1, EnsureCapacityIs
  <2> HIDE DEF x
  <2>4. x \in Ready
    BY <2>2, ReadyIs
  <2> QED
    BY <2>1, <2>2, <2>3, <2>4
<1>3. CASE ~(Len(s) < ShortWrite)
  <2>1. TriedShort(e, runtime, s) = e
    BY <1>3 DEF TriedShort
  <2> QED
    BY <1>1, <1>3, <2>1, GrownNothing
<1> QED
  BY <1>2, <1>3

\* ASCII text of less than ShortWrite units is written as it is.
LEMMA ShortTextIs ==
  ASSUME NEW s \in Seq(Units), IsAscii(s), Len(s) <= CompactLengthThreshold
  PROVE  /\ <<Len(s)>> \o s \in Seq(Bytes) /\ Len(<<Len(s)>> \o s) = Len(s) + 1
         /\ AppendBytes(Utf8(s)) = <<Len(s)>> \o s
<1>1. Utf8(s) = s /\ Utf8(s) \in Seq(Bytes)
  BY Utf8Is
<1> DEFINE u == Utf8(s)
<1> HIDE DEF u
<1>2. u = s /\ u \in Seq(Bytes) /\ Len(u) \in Nat /\ Len(u) <= CompactLengthThreshold
  BY <1>1, SeqIs DEF u
<1>3. AppendBytes(u) = <<Len(u)>> \o u /\ AppendBytes(u) \in Seq(Bytes)
  BY <1>2, AppendBytesIs
<1>4. Len(u) \in Bytes
  <2> DEFINE n == Len(u)
  <2>1. n \in Nat /\ n <= 6
    BY <1>2, PowerIs
  <2> HIDE DEF n
  <2>2. n \in Bytes
    BY <2>1, PowerIs
  <2> QED
    BY <2>2 DEF n
<1>5. <<Len(u)>> \in Seq(Bytes) /\ Len(<<Len(u)>>) = 1
  BY <1>4
<1>6. Len(<<Len(u)>> \o u) = Len(<<Len(u)>>) + Len(u)
  BY <1>2, <1>5, CatIs
<1>7. Len(<<Len(u)>> \o u) = Len(u) + 1
  BY <1>2, <1>5, <1>6
<1> QED
  BY <1>2, <1>3, <1>7 DEF u

LEMMA ShortWriteIs ==
  ASSUME NEW e \in Ready, NEW runtime, runtime.transfer \in BOOLEAN, NEW s \in Seq(Units),
         Len(s) < ShortWrite, IsAscii(s)
  PROVE  Grown(e, Put(TriedShort(e, runtime, s), <<Len(s)>> \o s), AppendBytes(Utf8(s)), runtime.transfer)
<1> DEFINE x == TriedShort(e, runtime, s)
           b == <<Len(s)>> \o s
<1>1. /\ x \in Ready /\ Grown(e, x, <<>>, runtime.transfer)
      /\ x.ok => x.pos + (Len(s) + 1) <= Room(x)
  BY TriedShortIs
<1>2. Len(s) \in Nat /\ Len(s) <= CompactLengthThreshold
  BY SeqIs, TsTextAssumption, PowerIs
<1>3. b \in Seq(Bytes) /\ Len(b) = Len(s) + 1 /\ AppendBytes(Utf8(s)) = b
  BY <1>2, ShortTextIs
<1> HIDE DEF x, b
<1>4. Grown(x, Put(x, b), b, runtime.transfer)
  <2>1. x \in Encoders /\ x.pos <= Room(x) /\ (x.ok => x.pos + Len(b) <= Room(x))
    BY <1>1, <1>3, ReadyIs
  <2> QED
    BY <1>3, <2>1, GrownPut
<1>5. e \in Encoders /\ <<>> \in Seq(Nat) /\ b \in Seq(Nat) /\ <<>> \o b = b
  BY <1>3, BytesAreNat, ReadyIs
<1>6. Grown(e, Put(x, b), <<>> \o b, runtime.transfer)
  BY <1>1, <1>4, <1>5, GrownBoth
<1>7. Grown(e, Put(x, b), b, runtime.transfer)
  BY <1>5, <1>6
<1> QED
  BY <1>3, <1>7 DEF x, b

\* Text, by the encoders that try it as ASCII first and by the one that does not.
LEMMA WriteStringIs ==
  ASSUME NEW e \in Ready, NEW runtime, runtime.transfer \in BOOLEAN, NEW s \in Seq(Units)
  PROVE  /\ Grown(e, WriteString(e, runtime, s), AppendBytes(Utf8(s)), runtime.transfer)
         /\ Grown(e, BrowserWriteString(e, runtime, s), AppendBytes(Utf8(s)), runtime.transfer)
         /\ Grown(e, NodeWriteString(e, runtime, s), AppendBytes(Utf8(s)), runtime.transfer)
<1> DEFINE u == Utf8(s)
           b == AppendBytes(u)
           x == TriedShort(e, runtime, s)
           long == 3 * Len(s) + 5
<1>1. u \in Seq(Bytes) /\ Len(u) <= 3 * Len(s) /\ Len(u) \in Nat
  BY Utf8Is, SeqIs
<1>2. Grown(e, NodeWriteString(e, runtime, s), b, runtime.transfer)
  BY <1>1, WriteBytesIs DEF NodeWriteString
<1>3. ASSUME Len(s) < ShortWrite /\ IsAscii(s)
      PROVE  /\ Grown(e, WriteString(e, runtime, s), b, runtime.transfer)
             /\ Grown(e, BrowserWriteString(e, runtime, s), b, runtime.transfer)
  <2>1. /\ WriteString(e, runtime, s) = Put(x, <<Len(s)>> \o s)
        /\ BrowserWriteString(e, runtime, s) = Put(x, <<Len(s)>> \o s)
    BY <1>3 DEF WriteString, BrowserWriteString
  <2> QED
    BY <1>3, <2>1, ShortWriteIs
<1>4. ASSUME ~(Len(s) < ShortWrite /\ IsAscii(s))
      PROVE  /\ Grown(e, WriteString(e, runtime, s), b, runtime.transfer)
             /\ Grown(e, BrowserWriteString(e, runtime, s), b, runtime.transfer)
  <2>1. /\ WriteString(e, runtime, s) = WriteBytes(x, runtime, u)
        /\ BrowserWriteString(e, runtime, s) = Reserved(x, runtime, long, b)
    BY <1>4 DEF WriteString, BrowserWriteString
  <2>2. x \in Ready /\ Grown(e, x, <<>>, runtime.transfer)
    BY TriedShortIs
  <2>3. b \in Seq(Bytes) /\ Len(b) <= long /\ long \in Nat
    <3> DEFINE a == AppendCompactLength(Len(u))
    <3>1. b \in Seq(Bytes) /\ Len(b) = Len(a) + Len(u)
      BY <1>1, AppendBytesIs
    <3>2. Len(a) \in 1..5 /\ Len(s) \in Nat
      BY <1>1, CompactLengthIs, SeqIs
    <3> HIDE DEF a, b, u
    <3>3. Len(b) <= long /\ long \in Nat
      <4> DEFINE k == Len(a)
                 l == Len(u)
                 n == Len(s)
      <4>1. k \in 1..5 /\ l \in Nat /\ n \in Nat /\ l <= 3 * n
        BY <1>1, <3>2
      <4> HIDE DEF k, l, n
      <4>2. k + l <= 3 * n + 5 /\ 3 * n + 5 \in Nat
        BY <4>1
      <4> QED
        BY <3>1, <4>2 DEF k, l, n
    <3> QED
      BY <3>1, <3>3
  <2> HIDE DEF x, b, u, long
  <2>4. x \in Encoders /\ x.pos <= Room(x) /\ e \in Encoders
    BY <2>2, ReadyIs
  <2>5. Grown(x, WriteBytes(x, runtime, u), b, runtime.transfer)
    BY <1>1, <2>2, WriteBytesIs DEF b
  <2>6. Grown(x, Reserved(x, runtime, long, b), b, runtime.transfer)
    BY <2>3, <2>4, GrownReserved
  <2>7. <<>> \in Seq(Nat) /\ b \in Seq(Nat) /\ <<>> \o b = b
    BY <2>3, BytesAreNat
  <2>8. /\ Grown(e, WriteBytes(x, runtime, u), <<>> \o b, runtime.transfer)
        /\ Grown(e, Reserved(x, runtime, long, b), <<>> \o b, runtime.transfer)
    BY <2>2, <2>4, <2>5, <2>6, <2>7, GrownBoth
  <2> QED
    BY <2>1, <2>7, <2>8
<1> QED
  BY <1>2, <1>3, <1>4

LEMMA WriteBase64Is ==
  ASSUME NEW e \in Ready, NEW runtime, runtime.transfer \in BOOLEAN, NEW b \in Seq(Bytes)
  PROVE  /\ Grown(e, WriteBase64AsBytes(e, runtime, b), AppendBytes(b), runtime.transfer)
         /\ Grown(e, BrowserWriteBase64(e, runtime, b), AppendBytes(b), runtime.transfer)
<1> DEFINE c == AppendBytes(b)
           n == Base64Room(b)
<1>1. c \in Seq(Bytes) /\ Len(c) <= n /\ n \in Nat
  <2> DEFINE a == AppendCompactLength(Len(b))
             m == Len(b)
  <2>1. m \in Nat
    BY SeqIs
  <2>2. c \in Seq(Bytes) /\ Len(c) = Len(a) + m /\ Len(a) \in 1..5
    BY <2>1, AppendBytesIs, CompactLengthIs
  <2>3. n = 3 * ((m + 2) \div 3) + 5
    BY DEF Base64Room
  <2> HIDE DEF a, c, m, n
  <2>4. 3 * ((m + 2) \div 3) >= m /\ 3 * ((m + 2) \div 3) \in Nat
    BY <2>1
  <2>5. Len(c) <= n /\ n \in Nat
    <3> DEFINE k == Len(a)
               l == 3 * ((m + 2) \div 3)
    <3>1. k \in 1..5 /\ l \in Nat /\ m <= l
      BY <2>2, <2>4
    <3> HIDE DEF k, l
    <3>2. k + m <= l + 5 /\ l + 5 \in Nat
      BY <2>1, <3>1
    <3> QED
      BY <2>2, <2>3, <3>2 DEF k, l
  <2> QED
    BY <2>2, <2>5
<1>2. e \in Encoders /\ e.pos <= Room(e)
  BY ReadyIs
<1>3. Grown(e, WriteBytes(e, runtime, b), c, runtime.transfer)
  BY WriteBytesIs
<1>4. /\ WriteBase64AsBytes(e, runtime, b) = IF runtime.base64 THEN Reserved(e, runtime, n, c)
                                        ELSE Throw(EnsureCapacity(e, runtime.transfer, n))
      /\ BrowserWriteBase64(e, runtime, b) = IF runtime.base64 THEN Reserved(e, runtime, n, c)
                                        ELSE WriteBytes(e, runtime, b)
  BY DEF WriteBase64AsBytes, BrowserWriteBase64
<1> HIDE DEF c, n
<1>5. Grown(e, Reserved(e, runtime, n, c), c, runtime.transfer)
  BY <1>1, <1>2, GrownReserved
<1>6. Grown(e, EnsureCapacity(e, runtime.transfer, n), <<>>, runtime.transfer)
  BY <1>1, <1>2, GrownEnsure
<1>7. Grown(e, Throw(EnsureCapacity(e, runtime.transfer, n)), c, runtime.transfer)
  BY <1>2, <1>6, GrownThrow
<1> QED
  BY <1>3, <1>4, <1>5, <1>7 DEF c

\* What setFromBase64 has stored before it throws is past the position.
Thrown(e, x, transfer) ==
  /\ x \in Encoders /\ x.ok = FALSE /\ x.pos = e.pos
  /\ Kept(e.heap, x.heap, e.pos, transfer)
  /\ e.pos <= Room(x) /\ (e.ok => e.pos + 1 <= Room(x))

LEMMA StoreAndThrowIs ==
  ASSUME NEW e \in Ready, NEW runtime, runtime.transfer \in BOOLEAN, NEW b \in Seq(Bytes),
         NEW gap \in Nat
  PROVE  Thrown(e, StoreAndThrow(e, runtime, gap, b), runtime.transfer)
<1> DEFINE n == Base64Room(b) + 3
           tr == runtime.transfer
           y == EnsureCapacity(e, tr, n)
           z == Store(y, y.pos + gap, b)
           w == IF e.ok /\ runtime.base64 THEN z ELSE y
<1>1. n \in Nat /\ n >= 1
  BY SeqIs DEF Base64Room
<1>2. e \in Encoders /\ e.pos <= Room(e)
  BY ReadyIs
<1>3. e.pos \in Nat /\ Room(e) \in Nat /\ e.heap \in Heaps
  BY <1>2, EncoderIs
<1>4. StoreAndThrow(e, runtime, gap, b) = Throw(w)
  BY DEF StoreAndThrow
<1> HIDE DEF n
<1>5. /\ y \in Encoders /\ y.pos = e.pos /\ y.ok = e.ok /\ Room(e) <= Room(y)
      /\ e.ok => e.pos + n <= Room(y)
      /\ Kept(e.heap, y.heap, e.pos, tr)
  BY <1>1, <1>2, EnsureCapacityIs
<1> HIDE DEF y
<1>6. Room(y) \in Nat /\ y.heap \in Heaps /\ y.pos + gap \in Nat
  BY <1>3, <1>5, EncoderIs
<1>7. /\ z \in Encoders /\ z.pos = y.pos /\ Room(z) = Room(y)
      /\ Kept(y.heap, z.heap, y.pos + gap, tr)
  BY <1>5, <1>6, StoreIs
<1> HIDE DEF z
<1>8. Kept(e.heap, z.heap, e.pos, tr)
  <2>1. Kept(y.heap, z.heap, e.pos, tr)
    BY <1>3, <1>5, <1>6, <1>7, KeptLess
  <2>2. z.heap \in Heaps
    BY <1>7, EncoderIs
  <2> QED
    BY <1>3, <1>5, <1>6, <2>1, <2>2, KeptTrans
<1>9. /\ w \in Encoders /\ w.pos = e.pos /\ Room(w) = Room(y)
      /\ Kept(e.heap, w.heap, e.pos, tr)
  BY <1>5, <1>7, <1>8
<1> HIDE DEF w
<1>10. e.pos <= Room(y) /\ (e.ok => e.pos + 1 <= Room(y))
  BY <1>1, <1>2, <1>3, <1>5, <1>6
<1> QED
  <2>1. /\ Throw(w) \in Encoders /\ Throw(w).ok = FALSE /\ Throw(w).pos = e.pos
        /\ Throw(w).heap = w.heap /\ Room(Throw(w)) = Room(y)
    BY <1>9, ThrowIs
  <2> QED
    BY <1>4, <1>9, <1>10, <2>1 DEF Thrown

\* A text that is no Base64 throws.
LEMMA NotBase64Is ==
  ASSUME NEW e \in Ready, NEW runtime, runtime.transfer \in BOOLEAN, NEW b \in Seq(Bytes), NEW c
  PROVE  /\ Grown(e, IndexNotBase64(e, runtime, b), c, runtime.transfer)
         /\ Grown(e, BrowserNotBase64(e, runtime, b), c, runtime.transfer)
<1> DEFINE five == 5
           one == 1
<1>0. five \in Nat /\ one \in Nat
  OBVIOUS
<1> HIDE DEF five, one
<1> DEFINE x == StoreAndThrow(e, runtime, five, b)
           y == StoreAndThrow(e, runtime, one, b)
           tr == runtime.transfer
<1>1. e \in Encoders /\ e.pos \in Nat /\ e.pos <= Room(e)
  BY ReadyIs, EncoderIs
<1>2. Thrown(e, x, tr) /\ Thrown(e, y, tr)
  BY <1>0, StoreAndThrowIs
<1>3. Grown(e, x, c, tr)
  <2>1. /\ x \in Encoders /\ x.ok = FALSE /\ x.pos = e.pos /\ Kept(e.heap, x.heap, e.pos, tr)
        /\ e.pos <= Room(x)
    BY <1>2 DEF Thrown
  <2> HIDE DEF x
  <2> QED
    BY <1>1, <2>1 DEF Grown, Writes
<1>4. Grown(e, Throw(e), c, tr)
  <2>1. Grown(e, e, <<>>, tr)
    BY <1>1, GrownNothing
  <2> QED
    BY <1>1, <2>1, GrownThrow
<1>5. ASSUME e.ok
      PROVE  Grown(e, [y EXCEPT !.pos = @ + 1], c, tr)
  <2>1. /\ y \in Encoders /\ y.ok = FALSE /\ y.pos = e.pos /\ Kept(e.heap, y.heap, e.pos, tr)
        /\ e.pos + 1 <= Room(y)
    BY <1>2, <1>5 DEF Thrown
  <2> DEFINE z == [y EXCEPT !.pos = e.pos + 1]
  <2>2. [y EXCEPT !.pos = @ + 1] = z
    BY <2>1
  <2> HIDE DEF y
  <2>3. /\ z \in Encoders /\ z.ok = FALSE /\ z.pos = e.pos + 1 /\ z.heap = y.heap
        /\ Room(z) = Room(y)
    <3> DEFINE p == e.pos + 1
    <3>1. p \in Nat
      BY <1>1
    <3> HIDE DEF p
    <3>2. z = [y EXCEPT !.pos = p]
      BY DEF p
    <3>3. [y EXCEPT !.pos = p].ok = y.ok
      BY <2>1, <3>1, AtIs
    <3> QED
      BY <2>1, <3>1, <3>2, <3>3, AtIs DEF p
  <2> HIDE DEF z
  <2>4. Grown(e, z, c, tr)
    BY <1>1, <2>1, <2>3 DEF Grown, Writes
  <2> QED
    BY <2>2, <2>4 DEF y
<1>6. IndexNotBase64(e, runtime, b) = x
  BY DEF IndexNotBase64, five
<1>7. BrowserNotBase64(e, runtime, b) =
        IF e.ok /\ runtime.base64 THEN [y EXCEPT !.pos = @ + 1] ELSE Throw(e)
  BY DEF BrowserNotBase64, one
<1> HIDE DEF x, y
<1> QED
  BY <1>3, <1>4, <1>5, <1>6, <1>7

\* A pair of texts.
LEMMA WritePairIs ==
  ASSUME NEW e \in Ready, NEW runtime, runtime.transfer \in BOOLEAN,
         NEW v \in Seq(Units) \X Seq(Units)
  PROVE  LET b == AppendBytes(Utf8(v[1])) \o AppendBytes(Utf8(v[2]))
         IN  /\ Grown(e, WriteString(WriteString(e, runtime, v[1]), runtime, v[2]), b,
                      runtime.transfer)
             /\ Grown(e, BrowserWriteString(BrowserWriteString(e, runtime, v[1]), runtime, v[2]), b,
                      runtime.transfer)
             /\ Grown(e, NodeWriteString(NodeWriteString(e, runtime, v[1]), runtime, v[2]), b,
                      runtime.transfer)
<1> DEFINE first == AppendBytes(Utf8(v[1]))
           second == AppendBytes(Utf8(v[2]))
<1>1. v[1] \in Seq(Units) /\ v[2] \in Seq(Units)
  OBVIOUS
<1>2. first \in Seq(Nat) /\ second \in Seq(Nat)
  <2>1. Utf8(v[1]) \in Seq(Bytes) /\ Utf8(v[2]) \in Seq(Bytes)
    BY <1>1, Utf8Is
  <2>2. first \in Seq(Bytes) /\ second \in Seq(Bytes)
    BY <2>1, AppendBytesIs
  <2> QED
    BY <2>2, BytesAreNat
<1>3. e \in Encoders
  BY ReadyIs
<1>4. ASSUME NEW x, NEW y, Grown(e, x, first, runtime.transfer),
             x \in Ready => Grown(x, y, second, runtime.transfer)
      PROVE  Grown(e, y, first \o second, runtime.transfer)
  <2> HIDE DEF first, second
  <2>1. x \in Ready
    BY <1>4, ReadyIs
  <2> QED
    BY <1>2, <1>3, <1>4, <2>1, GrownBoth
<1>5. Grown(e, WriteString(WriteString(e, runtime, v[1]), runtime, v[2]), first \o second,
            runtime.transfer)
  <2> DEFINE x == WriteString(e, runtime, v[1])
             y == WriteString(x, runtime, v[2])
  <2>1. Grown(e, x, first, runtime.transfer)
    BY <1>1, WriteStringIs
  <2>2. x \in Ready => Grown(x, y, second, runtime.transfer)
    <3> HIDE DEF x
    <3> QED
      BY <1>1, WriteStringIs
  <2> HIDE DEF x, y, first, second
  <2>3. Grown(e, y, first \o second, runtime.transfer)
    BY <1>4, <2>1, <2>2
  <2> QED
    BY <2>3 DEF x, y
<1>6. Grown(e, BrowserWriteString(BrowserWriteString(e, runtime, v[1]), runtime, v[2]),
            first \o second, runtime.transfer)
  <2> DEFINE x == BrowserWriteString(e, runtime, v[1])
             y == BrowserWriteString(x, runtime, v[2])
  <2>1. Grown(e, x, first, runtime.transfer)
    BY <1>1, WriteStringIs
  <2>2. x \in Ready => Grown(x, y, second, runtime.transfer)
    <3> HIDE DEF x
    <3> QED
      BY <1>1, WriteStringIs
  <2> HIDE DEF x, y, first, second
  <2>3. Grown(e, y, first \o second, runtime.transfer)
    BY <1>4, <2>1, <2>2
  <2> QED
    BY <2>3 DEF x, y
<1>7. Grown(e, NodeWriteString(NodeWriteString(e, runtime, v[1]), runtime, v[2]),
            first \o second, runtime.transfer)
  <2> DEFINE x == NodeWriteString(e, runtime, v[1])
             y == NodeWriteString(x, runtime, v[2])
  <2>1. Grown(e, x, first, runtime.transfer)
    BY <1>1, WriteStringIs
  <2>2. x \in Ready => Grown(x, y, second, runtime.transfer)
    <3> HIDE DEF x
    <3> QED
      BY <1>1, WriteStringIs
  <2> HIDE DEF x, y, first, second
  <2>3. Grown(e, y, first \o second, runtime.transfer)
    BY <1>4, <2>1, <2>2
  <2> QED
    BY <2>3 DEF x, y
<1> QED
  BY <1>5, <1>6, <1>7

\* The three runtimes that write values one by one.
GrowingRuntimes ==
  [kind : {"index", "browser", "node"}, transfer : BOOLEAN, base64 : BOOLEAN, buffer : BOOLEAN]

\* A value of any type, by any of the three: its bytes, or a throw.
LEMMA WriteScalarIs ==
  ASSUME NEW e \in Ready, NEW runtime \in GrowingRuntimes, NEW t \in WireTypes, NEW v \in ValuesOf(t)
  PROVE  Grown(e, WriteScalar(e, runtime, t, v), ScalarOnWire(t, v), runtime.transfer)
<1> DEFINE b == ScalarOnWire(t, v)
           tr == runtime.transfer
<1>1. runtime.kind \in {"index", "browser", "node"} /\ tr \in BOOLEAN
  BY DEF GrowingRuntimes
<1>2. WriteScalar(e, runtime, t, v) = CASE runtime.kind = "index" -> IndexScalar(e, runtime, t, v)
                                       [] runtime.kind = "browser" -> BrowserScalar(e, runtime, t, v)
                                       [] runtime.kind = "node" -> NodeScalar(e, runtime, t, v)
  BY DEF WriteScalar
<1>3. SUFFICES /\ Grown(e, IndexScalar(e, runtime, t, v), b, tr)
               /\ Grown(e, BrowserScalar(e, runtime, t, v), b, tr)
               /\ Grown(e, NodeScalar(e, runtime, t, v), b, tr)
  <2>1. CASE runtime.kind = "index"
    BY <1>2, <2>1
  <2>2. CASE runtime.kind = "browser"
    BY <1>2, <2>2
  <2>3. CASE runtime.kind = "node"
    BY <1>2, <2>3
  <2> QED
    BY <1>1, <2>1, <2>2, <2>3
<1>4. CASE t \in Numeric
  <2>1. IsFixed(t) /\ b = FixedBytes(t, v)
    BY <1>4, NumericIs, OnWireIs
  <2>2. /\ IndexScalar(e, runtime, t, v) = WriteFixed(e, runtime, t, v)
        /\ BrowserScalar(e, runtime, t, v) = BrowserWriteFixed(e, runtime, t, v)
        /\ NodeScalar(e, runtime, t, v) = NodeWriteFixed(e, runtime, t, v)
    <3>1. t \notin {"string", "pair", "base64", "not_base64"}
      BY <1>4 DEF Numeric
    <3> QED
      BY <2>1, <3>1 DEF IndexScalar, BrowserScalar, NodeScalar
  <2> QED
    BY <1>1, <1>4, <2>1, <2>2, WriteFixedIs
<1>5. CASE t = "string"
  <2>1. v \in Seq(Units) /\ ~IsFixed(t) /\ b = AppendBytes(Utf8(v))
    BY <1>5, ValuesAre, OnWireIs
  <2>2. /\ IndexScalar(e, runtime, t, v) = WriteString(e, runtime, v)
        /\ BrowserScalar(e, runtime, t, v) = BrowserWriteString(e, runtime, v)
        /\ NodeScalar(e, runtime, t, v) = NodeWriteString(e, runtime, v)
    BY <1>5, <2>1 DEF IndexScalar, BrowserScalar, NodeScalar
  <2> QED
    BY <1>1, <2>1, <2>2, WriteStringIs
<1>6. CASE t = "pair"
  <2>1. /\ v \in Seq(Units) \X Seq(Units) /\ ~IsFixed(t)
        /\ b = AppendBytes(Utf8(v[1])) \o AppendBytes(Utf8(v[2]))
    BY <1>6, ValuesAre, OnWireIs
  <2>2. /\ IndexScalar(e, runtime, t, v)
             = WriteString(WriteString(e, runtime, v[1]), runtime, v[2])
        /\ BrowserScalar(e, runtime, t, v)
             = BrowserWriteString(BrowserWriteString(e, runtime, v[1]), runtime, v[2])
        /\ NodeScalar(e, runtime, t, v)
             = NodeWriteString(NodeWriteString(e, runtime, v[1]), runtime, v[2])
    BY <1>6, <2>1 DEF IndexScalar, BrowserScalar, NodeScalar
  <2> QED
    BY <1>1, <2>1, <2>2, WritePairIs
<1>7. CASE t \in {"bytes", "message", "base64", "not_base64"}
  <2>1. v \in Seq(Bytes) /\ ~IsFixed(t) /\ b = AppendBytes(v) /\ t # "string" /\ t # "pair"
    BY <1>7, ValuesAre, OnWireIs
  <2>2. /\ IndexScalar(e, runtime, t, v)
             \in {WriteBase64AsBytes(e, runtime, v), IndexNotBase64(e, runtime, v), WriteBytes(e, runtime, v)}
        /\ BrowserScalar(e, runtime, t, v)
             \in {BrowserWriteBase64(e, runtime, v), BrowserNotBase64(e, runtime, v), WriteBytes(e, runtime, v)}
        /\ NodeScalar(e, runtime, t, v) = WriteBytes(e, runtime, v)
    BY <2>1 DEF IndexScalar, BrowserScalar, NodeScalar
  <2>3. /\ Grown(e, WriteBytes(e, runtime, v), b, tr)
        /\ Grown(e, WriteBase64AsBytes(e, runtime, v), b, tr)
        /\ Grown(e, BrowserWriteBase64(e, runtime, v), b, tr)
        /\ Grown(e, IndexNotBase64(e, runtime, v), b, tr)
        /\ Grown(e, BrowserNotBase64(e, runtime, v), b, tr)
    BY <1>1, <2>1, WriteBytesIs, WriteBase64Is, NotBase64Is
  <2> QED
    BY <2>2, <2>3
<1> QED
  BY <1>4, <1>5, <1>6, <1>7 DEF WireTypes

\* The bytes of the elements of a list.
LEMMA ElementsAre ==
  ASSUME NEW t \in WireTypes, NEW vs \in Seq(ValuesOf(t))
  PROVE  LET ss == [i \in DOMAIN vs |-> ScalarOnWire(t, vs[i])]
         IN  /\ ss \in Seq(Seq(Bytes)) /\ Len(ss) = Len(vs)
             /\ \A i \in 1..Len(vs) : ss[i] = ScalarOnWire(t, vs[i])
<1> DEFINE V == ValuesOf(t)
           n == Len(vs)
           ss == [i \in DOMAIN vs |-> ScalarOnWire(t, vs[i])]
<1>1. \A v \in V : ScalarOnWire(t, v) \in Seq(Bytes)
  BY OnWireIs
<1> HIDE DEF V
<1>2. n \in Nat /\ DOMAIN vs = 1..n /\ \A i \in 1..n : vs[i] \in V
  BY SeqIs DEF V
<1>3. ss = [i \in 1..n |-> ScalarOnWire(t, vs[i])]
  BY <1>2
<1>4. ss \in [1..n -> Seq(Bytes)] /\ \A i \in 1..n : ss[i] = ScalarOnWire(t, vs[i])
  BY <1>1, <1>2, <1>3
<1> HIDE DEF ss, n
<1>5. ss \in Seq(Seq(Bytes)) /\ Len(ss) = n
  BY <1>2, <1>4, ListIs
<1> QED
  BY <1>4, <1>5 DEF ss, n

\* The count, then the elements.
LEMMA WriteArrayIs ==
  ASSUME NEW e \in Ready, NEW runtime \in GrowingRuntimes, NEW t \in WireTypes,
         NEW vs \in Seq(ValuesOf(t))
  PROVE  Grown(e, WriteArray(e, runtime, t, vs),
               LittleEndian(Len(vs), SizeInt32)
                 \o FlattenSeq([i \in DOMAIN vs |-> ScalarOnWire(t, vs[i])]),
               runtime.transfer)
<1> DEFINE n == Len(vs)
           tr == runtime.transfer
           start == WriteScalar(e, runtime, "int32", n)
           count == LittleEndian(n, SizeInt32)
           ss == [i \in DOMAIN vs |-> ScalarOnWire(t, vs[i])]
           g == [p \in (1..n) \X Ready |-> WriteScalar(p[2], runtime, t, vs[p[1]])]
           Step(f) == [s \in SUBSET (DOMAIN vs) |->
                         IF s = {} THEN start
                         ELSE WriteScalar(f[s \ {Max(s)}], runtime, t, vs[Max(s)])]
           f == CHOOSE f : f = Step(f)
<1>1. n \in Nat /\ DOMAIN vs = 1..n /\ \A i \in 1..n : vs[i] \in ValuesOf(t)
  BY SeqIs
<1>2. tr \in BOOLEAN /\ e \in Encoders
  BY ReadyIs DEF GrowingRuntimes
<1>3. Grown(e, start, count, tr) /\ start \in Ready /\ count \in Seq(Bytes)
  <2>1. "int32" \in WireTypes /\ "int32" \in Numeric /\ n \in ValuesOf("int32")
    BY <1>1, NumericIs DEF WireTypes, Numeric
  <2>2. Grown(e, start, ScalarOnWire("int32", n), tr)
    BY <2>1, WriteScalarIs
  <2>3. ScalarOnWire("int32", n) = count
    BY <1>1, <2>1, OnWireIs, NumericIs, CountIs
  <2>4. ScalarOnWire("int32", n) \in Seq(Bytes)
    BY <2>1, OnWireIs
  <2> QED
    BY <2>2, <2>3, <2>4, ReadyIs
<1>4. WriteArray(e, runtime, t, vs) = f[DOMAIN vs]
  BY DEF WriteArray, FoldLeft, MapThenFoldSet
<1> HIDE DEF start, count
<1>5. ASSUME NEW x \in Ready, NEW i \in 1..n
      PROVE  WriteScalar(x, runtime, t, vs[i]) \in Ready
  BY <1>1, WriteScalarIs, ReadyIs
<1>6. f = Step(f)
  <2>1. g \in [(1..n) \X Ready -> Ready]
    BY <1>5
  <2>2. PICK h : Folds(h, n, Ready, start, g)
    <3> HIDE DEF g
    <3> QED
      BY <1>1, <1>3, <2>1, FoldsExist
  <2>3. ASSUME NEW s \in SUBSET (1..n)
        PROVE  h[s] = IF s = {} THEN start
                      ELSE WriteScalar(h[s \ {Max(s)}], runtime, t, vs[Max(s)])
    BY <2>2 DEF Folds
  <2>4. h = [s \in SUBSET (1..n) |-> h[s]]
    BY <2>2 DEF Folds
  <2>5. h = Step(h)
    BY <1>1, <2>3, <2>4
  <2> HIDE DEF Step
  <2> QED
    BY <2>5
<1>7. f[{}] = start /\ \A i \in 1..n : f[1..i] = WriteScalar(f[1..(i - 1)], runtime, t, vs[i])
  <2> HIDE DEF f
  <2>1. \A s \in SUBSET (1..n) :
          f[s] = IF s = {} THEN start ELSE WriteScalar(f[s \ {Max(s)}], runtime, t, vs[Max(s)])
    BY <1>1, <1>6
  <2> QED
    BY <1>1, <2>1, UpToStep
<1>8. ss \in Seq(Seq(Bytes)) /\ Len(ss) = n /\ \A i \in 1..n : ss[i] = ScalarOnWire(t, vs[i])
  BY ElementsAre
<1> HIDE DEF f, ss, g
<1>9. PICK j : Joins(j, ss)
  BY <1>8, JoinsExists
<1>10. (\A i \in 0..n : j[i] \in Seq(Bytes)) /\ FlattenSeq(ss) = j[n]
  BY <1>8, <1>9, JoinsGivesFlatten
<1> DEFINE W == [i \in 0..n |-> {x \in Ready : Grown(e, x, count \o j[i], tr)}]
<1>11. f[{}] \in W[0]
  <2>1. j[0] = <<>> /\ count \o <<>> = count
    BY <1>3, <1>9 DEF Joins
  <2>2. f[{}] \in Ready /\ Grown(e, f[{}], count \o j[0], tr)
    BY <1>3, <1>7, <2>1
  <2>3. 0 \in 0..n
    BY <1>1
  <2> QED
    BY <2>2, <2>3
<1>12. ASSUME NEW i \in 1..n, f[1..(i - 1)] \in W[i - 1]
       PROVE  f[1..i] \in W[i]
  <2> DEFINE x == f[1..(i - 1)]
             y == f[1..i]
             a == count \o j[i - 1]
             b == ScalarOnWire(t, vs[i])
  <2>1. i - 1 \in 0..n /\ i \in 0..n
    BY <1>1
  <2>2. x \in Ready /\ Grown(e, x, a, tr)
    BY <1>12, <2>1
  <2>3. y = WriteScalar(x, runtime, t, vs[i])
    BY <1>7
  <2>4. vs[i] \in ValuesOf(t)
    BY <1>1
  <2> HIDE DEF x, y
  <2>5. Grown(x, y, b, tr) /\ y \in Ready
    BY <2>2, <2>3, <2>4, WriteScalarIs, ReadyIs
  <2>6. count \in Seq(Bytes) /\ j[i - 1] \in Seq(Bytes) /\ b \in Seq(Bytes)
    BY <1>3, <1>10, <2>1, <2>4, OnWireIs
  <2>7. j[i] = j[i - 1] \o b
    BY <1>8, <1>9 DEF Joins
  <2>8. count \o j[i] = a \o b
    <3> DEFINE c == j[i - 1]
    <3>1. c \in Seq(Bytes)
      BY <2>6
    <3> HIDE DEF b, c
    <3>2. count \o (c \o b) = (count \o c) \o b
      BY <2>6, <3>1, SMTT(30)
    <3> QED
      BY <2>7, <3>2 DEF c
  <2>9. a \in Seq(Nat) /\ b \in Seq(Nat)
    BY <2>6, CatIs, BytesAreNat
  <2> HIDE DEF a, b
  <2>10. Grown(e, y, a \o b, tr)
    BY <1>2, <2>2, <2>5, <2>9, GrownBoth
  <2>11. y \in Ready /\ Grown(e, y, count \o j[i], tr)
    BY <2>5, <2>8, <2>10
  <2>12. y \in W[i]
    BY <2>1, <2>11
  <2> QED
    BY <2>12 DEF y
<1>13. f[1..n] \in W[n]
  <2> HIDE DEF W
  <2> QED
    BY <1>1, <1>11, <1>12, FoldStays
<1>14. Grown(e, f[1..n], count \o FlattenSeq(ss), tr)
  <2>1. n \in 0..n
    BY <1>1
  <2> QED
    BY <1>10, <1>13, <2>1
<1> QED
  BY <1>1, <1>4, <1>14 DEF count, ss

\* The writers of these runtimes, for the fields they can be given.
LEMMA WriteFieldIs ==
  ASSUME NEW e \in Ready, NEW runtime \in GrowingRuntimes, NEW f, IsField(runtime.kind, f)
  PROVE  Grown(e, WriteField(e, runtime, f), OnWire(f), runtime.transfer)
<1>1. f.t \in WireTypes /\ f.many \in BOOLEAN
  BY DEF IsField, TypesOf, GrowingRuntimes, WireTypes
<1>2. CASE f.many
  <2>1. f.v \in Seq(ValuesOf(f.t))
    BY <1>2 DEF IsField
  <2>2. WriteField(e, runtime, f) = WriteArray(e, runtime, f.t, f.v)
    BY <1>2 DEF WriteField
  <2>3. OnWire(f) = LittleEndian(Len(f.v), SizeInt32)
                      \o FlattenSeq([i \in DOMAIN f.v |-> ScalarOnWire(f.t, f.v[i])])
    BY <1>2 DEF OnWire
  <2> QED
    BY <1>1, <2>1, <2>2, <2>3, WriteArrayIs
<1>3. CASE ~f.many
  <2>1. f.v \in ValuesOf(f.t)
    BY <1>3 DEF IsField
  <2>2. WriteField(e, runtime, f) = WriteScalar(e, runtime, f.t, f.v)
    BY <1>3 DEF WriteField
  <2>3. OnWire(f) = ScalarOnWire(f.t, f.v)
    BY <1>3 DEF OnWire
  <2> QED
    BY <1>1, <2>1, <2>2, <2>3, WriteScalarIs
<1> QED
  BY <1>1, <1>2, <1>3

LEMMA HybridFieldIs ==
  ASSUME NEW e \in Ready,
         NEW runtime \in [kind : {"hybrid"}, transfer : BOOLEAN, base64 : BOOLEAN, buffer : BOOLEAN],
         NEW f, IsField("hybrid", f)
  PROVE  Grown(e, HybridField(e, runtime, f), OnWire(f), runtime.transfer)
<1> DEFINE index == [runtime EXCEPT !.kind = "index"]
<1>1. /\ index \in GrowingRuntimes /\ index.transfer = runtime.transfer
      /\ index.kind = "index"
  BY DEF GrowingRuntimes
<1>2. IsField("index", f)
  BY DEF IsField, TypesOf
<1>3. HybridField(e, runtime, f) = WriteField(e, index, f)
  BY DEF HybridField
<1> HIDE DEF index
<1>4. IsField(index.kind, f)
  BY <1>1, <1>2
<1>5. Grown(e, WriteField(e, index, f), OnWire(f), index.transfer)
  BY <1>1, <1>4, WriteFieldIs
<1> QED
  BY <1>1, <1>3, <1>5

-----------------------------------------------------------------------------
(* The encoders that do not grow, or whose caller makes them grow.         *)

\* A call appends b where b is carried and fits, or throws, or writes something
\* else; the array stays the one it was.
Slab(e, x, b, carried) ==
  /\ Writes(e, x, b, carried /\ e.pos + Len(b) <= Room(e), FALSE)
  /\ Room(x) = Room(e) /\ Len(x.heap) = Len(e.heap)

LEMMA SlabIs ==
  ASSUME NEW e \in Encoders, NEW x, NEW b, NEW carried, Slab(e, x, b, carried)
  PROVE  /\ x \in Encoders /\ e.pos <= x.pos /\ Room(x) = Room(e) /\ Len(x.heap) = Len(e.heap)
         /\ Kept(e.heap, x.heap, e.pos, FALSE) /\ (x.ok => e.ok)
         /\ carried /\ e.pos + Len(b) <= Room(e) /\ x.ok =>
              x.pos = e.pos + Len(b) /\ Holds(x, e.pos, b)
BY DEF Slab, Writes

LEMMA SlabIntro ==
  ASSUME NEW e \in Encoders, NEW x \in Encoders, NEW b, NEW carried,
         e.pos <= x.pos, Room(x) = Room(e), Len(x.heap) = Len(e.heap),
         Kept(e.heap, x.heap, e.pos, FALSE), x.ok => e.ok,
         carried /\ e.pos + Len(b) <= Room(e) /\ x.ok =>
              x.pos = e.pos + Len(b) /\ Holds(x, e.pos, b)
  PROVE  Slab(e, x, b, carried)
BY DEF Slab, Writes

LEMMA SlabLess ==
  ASSUME NEW e \in Encoders, NEW x, NEW b, NEW carried, NEW other, Slab(e, x, b, carried),
         other => carried
  PROVE  Slab(e, x, b, other)
BY DEF Slab, Writes

LEMMA SlabBoth ==
  ASSUME NEW e \in Encoders, NEW x, NEW y, NEW b \in Seq(Nat), NEW c \in Seq(Nat),
         NEW first, NEW second, Slab(e, x, b, first), Slab(x, y, c, second)
  PROVE  Slab(e, y, b \o c, first /\ second)
<1> DEFINE f == first /\ e.pos + Len(b) <= Room(e)
           g == second /\ x.pos + Len(c) <= Room(x)
<1>1. Writes(e, x, b, f, FALSE) /\ Writes(x, y, c, g, FALSE)
  BY DEF Slab
<1>2. Room(x) = Room(e) /\ Room(y) = Room(e) /\ Len(y.heap) = Len(e.heap) /\ x \in Encoders
  BY DEF Slab, Writes
<1>3. ASSUME first, second, e.pos + Len(b \o c) <= Room(e), y.ok
      PROVE  f /\ g
  <2>1. Len(b) \in Nat /\ Len(c) \in Nat /\ Len(b \o c) = Len(b) + Len(c)
    BY CatIs
  <2>2. e.pos \in Nat /\ Room(e) \in Nat
    BY EncoderIs
  <2>3. e.pos + Len(b) <= Room(e)
    BY <1>3, <2>1, <2>2
  <2>4. x.ok /\ x.pos = e.pos + Len(b)
    BY <1>1, <1>3, <2>3 DEF Writes
  <2>5. x.pos + Len(c) <= Room(x)
    BY <1>2, <1>3, <2>1, <2>2, <2>4
  <2> QED
    BY <1>3, <2>3, <2>5
<1> HIDE DEF f, g
<1>4. Writes(e, y, b \o c, f /\ g, FALSE)
  BY <1>1, WritesBoth
<1>5. Writes(e, y, b \o c, (first /\ second) /\ e.pos + Len(b \o c) <= Room(e), FALSE)
  BY <1>3, <1>4 DEF Writes
<1> QED
  BY <1>2, <1>5 DEF Slab

\* Nothing is written after a throw, nor where what is to be written is left out.
LEMMA SlabSame ==
  ASSUME NEW e \in Encoders, NEW b, NEW carried, e.ok => ~carried
  PROVE  Slab(e, e, b, carried)
<1>1. e.heap \in Heaps /\ e.pos \in Nat /\ e.pos <= e.pos
  BY EncoderIs
<1>2. Kept(e.heap, e.heap, e.pos, FALSE)
  BY <1>1, KeptSame
<1> QED
  BY <1>1, <1>2, SlabIntro

LEMMA SlabThrow ==
  ASSUME NEW e \in Encoders, NEW x, NEW b, NEW c, NEW carried, NEW other, Slab(e, x, b, carried)
  PROVE  Slab(e, Throw(x), c, other)
<1>1. x \in Encoders
  BY SlabIs
<1>2. /\ Throw(x) \in Encoders /\ Throw(x).ok = FALSE /\ Throw(x).pos = x.pos
      /\ Throw(x).heap = x.heap /\ Room(Throw(x)) = Room(x)
  BY <1>1, ThrowIs
<1> QED
  BY <1>2 DEF Slab, Writes

LEMMA SlabPut ==
  ASSUME NEW e \in Encoders, NEW b \in Seq(Bytes), NEW c, NEW carried,
         carried /\ e.pos + Len(c) <= Room(e) => b = c
  PROVE  /\ Slab(e, Put(e, b), c, carried)
         /\ Slab(e, PutChecked(e, b), c, carried)
<1> DEFINE x == Put(e, b)
           y == PutChecked(e, b)
<1>1. /\ x \in Encoders /\ x.ok = e.ok
      /\ x.pos = (IF e.ok THEN e.pos + Len(b) ELSE e.pos)
      /\ Room(x) = Room(e) /\ Len(x.heap) = Len(e.heap)
      /\ Kept(e.heap, x.heap, e.pos, FALSE)
      /\ e.ok /\ e.pos + Len(b) <= Room(e) => Holds(x, e.pos, b)
  BY PutIs
<1>2. /\ y \in Encoders /\ Room(y) = Room(e) /\ Len(y.heap) = Len(e.heap)
      /\ e.pos <= y.pos /\ Kept(e.heap, y.heap, e.pos, FALSE)
      /\ y.ok => e.ok /\ y.pos = e.pos + Len(b) /\ Holds(y, e.pos, b)
  BY PutCheckedIs
<1>3. e.pos \in Nat /\ e.ok \in BOOLEAN /\ Len(b) \in Nat
  BY EncoderIs, SeqIs
<1> HIDE DEF x, y
<1>4. e.pos <= x.pos
  BY <1>1, <1>3
<1>5. Slab(e, x, c, carried)
  <2>1. carried /\ e.pos + Len(c) <= Room(e) /\ x.ok => x.pos = e.pos + Len(c) /\ Holds(x, e.pos, c)
    BY <1>1
  <2>2. x.ok => e.ok
    BY <1>1
  <2> QED
    BY <1>1, <1>4, <2>1, <2>2, SlabIntro
<1>6. Slab(e, y, c, carried)
  <2>1. carried /\ e.pos + Len(c) <= Room(e) /\ y.ok => y.pos = e.pos + Len(c) /\ Holds(y, e.pos, c)
    BY <1>2
  <2>2. y.ok => e.ok
    BY <1>2
  <2> QED
    BY <1>2, <2>1, <2>2, SlabIntro
<1> QED
  BY <1>5, <1>6 DEF x, y

\* One call for each of several items: f[1..i] is what the first i of them made.
LEMMA SlabFold ==
  ASSUME NEW n \in Nat, NEW f, NEW ss \in Seq(Seq(Nat)), Len(ss) = n, NEW e \in Encoders,
         NEW b \in Seq(Nat), NEW carried, Slab(e, f[{}], b, carried),
         \A i \in 1..n : f[1..(i - 1)] \in Encoders =>
           Slab(f[1..(i - 1)], f[1..i], ss[i], carried)
  PROVE  Slab(e, f[1..n], b \o FlattenSeq(ss), carried)
<1>1. PICK j : Joins(j, ss)
  BY JoinsExists
<1>2. (\A i \in 0..n : j[i] \in Seq(Nat)) /\ FlattenSeq(ss) = j[n]
  BY <1>1, JoinsGivesFlatten
<1> DEFINE W == [i \in 0..n |-> {x \in Encoders : Slab(e, x, b \o j[i], carried)}]
<1>3. f[{}] \in W[0]
  <2>1. j[0] = <<>> /\ b \o <<>> = b
    BY <1>1 DEF Joins
  <2>2. f[{}] \in Encoders /\ Slab(e, f[{}], b \o j[0], carried)
    BY <2>1, SlabIs
  <2>3. 0 \in 0..n
    OBVIOUS
  <2> QED
    BY <2>2, <2>3
<1>4. ASSUME NEW i \in 1..n, f[1..(i - 1)] \in W[i - 1]
      PROVE  f[1..i] \in W[i]
  <2> DEFINE x == f[1..(i - 1)]
             y == f[1..i]
             a == b \o j[i - 1]
             c == ss[i]
  <2>1. i - 1 \in 0..n /\ i \in 0..n
    OBVIOUS
  <2>2. x \in Encoders /\ Slab(e, x, a, carried)
    BY <1>4, <2>1
  <2>3. Slab(x, y, c, carried)
    BY <2>2
  <2>4. j[i - 1] \in Seq(Nat)
    BY <1>2, <2>1
  <2>5. c \in Seq(Nat)
    BY SeqIs
  <2>6. j[i] = j[i - 1] \o c
    BY <1>1 DEF Joins
  <2> HIDE DEF x, y
  <2>7. b \o j[i] = a \o c
    <3> DEFINE d == j[i - 1]
    <3>1. d \in Seq(Nat)
      BY <2>4
    <3> HIDE DEF c, d
    <3>2. b \o (d \o c) = (b \o d) \o c
      BY <2>5, <3>1, CatAssoc, SMTT(30)
    <3> QED
      BY <2>6, <3>2 DEF d
  <2>8. a \in Seq(Nat)
    BY <2>4, CatIs
  <2> HIDE DEF a, c
  <2>9. Slab(e, y, a \o c, carried /\ carried)
    BY <2>2, <2>3, <2>5, <2>8, SlabBoth
  <2>10. Slab(e, y, b \o j[i], carried)
    BY <2>7, <2>9, SlabLess
  <2>11. y \in Encoders
    BY <2>10, SlabIs
  <2>12. y \in W[i]
    BY <2>1, <2>10, <2>11
  <2> QED
    BY <2>12 DEF y
<1>5. f[1..n] \in W[n]
  <2> HIDE DEF W
  <2> QED
    BY <1>3, <1>4, FoldStays
<1> QED
  BY <1>2, <1>5, n \in 0..n

-----------------------------------------------------------------------------
(* The compiled encoders.                                                  *)

\* Texts that the length of one byte can be of.
LEMMA ShortIs ==
  ASSUME NEW s \in Seq(Units), Len(Utf8(s)) <= CompactLengthThreshold
  PROVE  /\ AppendBytes(Utf8(s)) = <<Len(Utf8(s))>> \o Utf8(s)
         /\ AppendBytes(Utf8(s)) \in Seq(Bytes) /\ Utf8(s) \in Seq(Bytes)
         /\ Len(AppendBytes(Utf8(s))) = Len(Utf8(s)) + 1
         /\ Len(Utf8(s)) % Base = Len(Utf8(s))
<1>1. Utf8(s) \in Seq(Bytes)
  BY Utf8Is
<1> DEFINE u == Utf8(s)
           k == Len(u)
<1> HIDE DEF u
<1>2. k \in Nat /\ k <= 6 /\ k <= CompactLengthThreshold
  BY <1>1, PowerIs, SeqIs DEF u
<1>3. AppendBytes(u) \in Seq(Bytes) /\ AppendBytes(u) = <<k>> \o u
  BY <1>1, <1>2, AppendBytesIs DEF u
<1>4. Len(<<k>> \o u) = k + 1
  <2>1. <<k>> \in Seq(Nat) /\ Len(<<k>>) = 1 /\ u \in Seq(Nat)
    BY <1>1, <1>2, BytesAreNat DEF u
  <2>2. Len(<<k>> \o u) = Len(<<k>>) + Len(u)
    BY <2>1, CatIs
  <2> HIDE DEF k
  <2> QED
    BY <1>2, <2>1, <2>2 DEF k
<1>5. k % Base = k
  <2> HIDE DEF k
  <2> QED
    BY <1>2, PowerIs
<1> QED
  BY <1>1, <1>3, <1>4, <1>5 DEF u

LEMMA JitStringIs ==
  ASSUME NEW e \in Encoders, NEW runtime, NEW s \in Seq(Units)
  PROVE  Slab(e, JitString(e, runtime, s), AppendBytes(Utf8(s)),
              Len(Utf8(s)) <= CompactLengthThreshold)
<1> DEFINE c == AppendBytes(Utf8(s))
           carried == Len(Utf8(s)) <= CompactLengthThreshold
           n == Room(e) - (e.pos + 1)
           written == FittingUtf8(s, n)
           b == <<Len(written) % Base>> \o written
<1>1. e.pos \in Nat /\ Room(e) \in Nat
  BY EncoderIs
<1>2. CASE Len(s) < JitShort /\ IsAscii(s)
  <2>1. Len(s) \in Nat /\ CompactLengthThreshold = 6 /\ JitShort \in 1..CompactLengthThreshold
    BY PowerIs, SeqIs, TsTextAssumption
  <2>2. Len(s) <= CompactLengthThreshold
    BY <1>2, <2>1
  <2>3. <<Len(s)>> \o s \in Seq(Bytes) /\ c = <<Len(s)>> \o s
    BY <1>2, <2>2, ShortTextIs
  <2>4. JitString(e, runtime, s) = Put(e, <<Len(s)>> \o s)
    BY <1>2 DEF JitString
  <2> QED
    BY <2>3, <2>4, SlabPut
<1>3. CASE ~(Len(s) < JitShort /\ IsAscii(s)) /\ runtime.buffer /\ e.pos + 1 > Room(e)
  <2>1. JitString(e, runtime, s) = Throw(e)
    BY <1>3 DEF JitString
  <2>2. Slab(e, e, c, FALSE)
    BY SlabSame
  <2> QED
    BY <2>1, <2>2, SlabThrow
<1>4. CASE ~(Len(s) < JitShort /\ IsAscii(s)) /\ ~(runtime.buffer /\ e.pos + 1 > Room(e))
  <2>1. JitString(e, runtime, s) = Put(e, b)
    BY <1>4 DEF JitString
  <2>2. n \in Int
    BY <1>1
  <2>3. written \in Seq(Bytes)
    BY <2>2, FittingIs
  <2>4. b \in Seq(Bytes)
    <3> HIDE DEF written
    <3> DEFINE k == Len(written) % Base
    <3>1. k \in Bytes
      BY <2>3, PowerIs, SeqIs
    <3> HIDE DEF k
    <3>2. <<k>> \in Seq(Bytes)
      BY <3>1
    <3> QED
      BY <2>3, <3>2, CatIs DEF k
  <2>5. ASSUME carried, e.pos + Len(c) <= Room(e)
        PROVE  b = c
    <3>1. c = <<Len(Utf8(s))>> \o Utf8(s) /\ Len(c) = Len(Utf8(s)) + 1
          /\ Len(Utf8(s)) % Base = Len(Utf8(s)) /\ Utf8(s) \in Seq(Bytes)
      BY <2>5, ShortIs
    <3>2. Len(Utf8(s)) \in Nat
      BY <3>1, SeqIs
    <3>3. Len(Utf8(s)) <= n
      <4> DEFINE k == Len(Utf8(s))
                 l == Len(c)
      <4>1. k \in Nat /\ l = k + 1 /\ e.pos + l <= Room(e)
        BY <2>5, <3>1, <3>2
      <4> HIDE DEF k, l
      <4>2. k <= n
        BY <1>1, <4>1
      <4> QED
        BY <4>2 DEF k
    <3>4. written = Utf8(s)
      BY <2>2, <3>3, FittingIs
    <3> QED
      BY <3>1, <3>4
  <2> HIDE DEF b, c, carried
  <2>6. Slab(e, Put(e, b), c, carried)
    BY <2>4, <2>5, SlabPut
  <2> QED
    BY <2>1, <2>6 DEF c, carried
<1> QED
  BY <1>2, <1>3, <1>4

JitTypes == Numeric \cup {"string", "bytes"}

\* Values that the compiled encoders put into the format.
ShortValue(t, v) == t # "bytes" /\ (t = "string" => Len(Utf8(v)) <= CompactLengthThreshold)

LEMMA JitScalarIs ==
  ASSUME NEW e \in Encoders, NEW runtime, NEW t \in JitTypes, NEW v \in ValuesOf(t)
  PROVE  Slab(e, JitScalar(e, runtime, t, v), ScalarOnWire(t, v), ShortValue(t, v))
<1>1. t \in WireTypes
  BY DEF JitTypes, WireTypes
<1>2. CASE t \in Numeric
  <2>1. ScalarOnWire(t, v) = FixedBytes(t, v)
    BY <1>1, <1>2, OnWireIs, NumericIs
  <2>2. FixedBytes(t, v) \in Seq(Bytes)
    BY <1>2, FixedBytesIs
  <2>3. CASE IsFloat(t)
    <3>1. JitScalar(e, runtime, t, v) = PutChecked(e, FixedBytes(t, v))
      BY <2>3 DEF JitScalar, IsFloat
    <3> QED
      BY <2>1, <2>2, <3>1, SlabPut
  <2>4. CASE t \in {"int64", "uint64"}
    <3>1. JitScalar(e, runtime, t, v) = Put(e, Halves(v))
      BY <2>4 DEF JitScalar, IsFloat
    <3>2. v \in Int
      BY <1>2, <2>4, NumericIs
    <3>3. Halves(v) = FixedBytes(t, v)
      BY <2>4, <3>2, HalvesIs
    <3> QED
      BY <2>1, <2>2, <3>1, <3>3, SlabPut
  <2>5. CASE t \in {"bool", "int32", "uint32"}
    <3>1. JitScalar(e, runtime, t, v) = Put(e, FixedBytes(t, v))
      BY <2>5 DEF JitScalar, IsFloat
    <3> QED
      BY <2>1, <2>2, <3>1, SlabPut
  <2> QED
    BY <1>2, <2>3, <2>4, <2>5 DEF Numeric, IsFloat
<1>3. CASE t = "string"
  <2>1. v \in Seq(Units) /\ ScalarOnWire(t, v) = AppendBytes(Utf8(v))
    BY <1>1, <1>3, ValuesAre, OnWireIs
  <2>2. JitScalar(e, runtime, t, v) = JitString(e, runtime, v)
    BY <1>3 DEF JitScalar, IsFloat
  <2>3. Slab(e, JitString(e, runtime, v), AppendBytes(Utf8(v)),
             Len(Utf8(v)) <= CompactLengthThreshold)
    BY <2>1, JitStringIs
  <2> QED
    BY <1>3, <2>1, <2>2, <2>3, SlabLess DEF ShortValue
<1>4. CASE t = "bytes"
  <2>1. JitScalar(e, runtime, t, v) = e
    BY <1>4 DEF JitScalar, IsFloat
  <2> QED
    BY <1>4, <2>1, SlabSame DEF ShortValue
<1> QED
  BY <1>2, <1>3, <1>4 DEF JitTypes

\* Fields that a compiled encoder puts into the format.
ShortField(f) == f.t # "bytes" /\ (f.t = "string" => \A s \in Scalars(f) : Short(s))

\* A count, where it fits and where it does not.
LEMMA SlabCount ==
  ASSUME NEW e \in Encoders, NEW n \in Int, NEW carried
  PROVE  /\ LittleEndian(n, SizeInt32) \in Seq(Bytes)
         /\ Slab(e, Put(e, FixedBytes("int32", n)), LittleEndian(n, SizeInt32), carried)
<1>1. FixedBytes("int32", n) = LittleEndian(n, SizeInt32)
  BY CountIs
<1>2. "int32" \in Numeric /\ n \in ValuesOf("int32")
  BY NumericIs DEF Numeric
<1>3. LittleEndian(n, SizeInt32) \in Seq(Bytes)
  BY <1>1, <1>2, FixedBytesIs
<1> QED
  BY <1>1, <1>3, SlabPut

LEMMA JitListIs ==
  ASSUME NEW e \in Encoders, NEW runtime, NEW f, f.t \in JitTypes, f.many,
         f.v \in Seq(ValuesOf(f.t))
  PROVE  Slab(e, JitField(e, runtime, f), OnWire(f), ShortField(f))
<1> DEFINE t == f.t
           vs == f.v
           n == Len(vs)
           carried == ShortField(f)
           start == Put(e, FixedBytes("int32", n))
           count == LittleEndian(n, SizeInt32)
           ss == [i \in DOMAIN vs |-> ScalarOnWire(t, vs[i])]
           g == [p \in (1..n) \X Encoders |-> JitScalar(p[2], runtime, t, vs[p[1]])]
           Step(h) == [s \in SUBSET (DOMAIN vs) |->
                         IF s = {} THEN start
                         ELSE JitScalar(h[s \ {Max(s)}], runtime, t, vs[Max(s)])]
           h == CHOOSE h : h = Step(h)
<1>1. n \in Nat /\ DOMAIN vs = 1..n /\ \A i \in 1..n : vs[i] \in ValuesOf(t)
  BY SeqIs
<1>2. count \in Seq(Bytes) /\ Slab(e, start, count, carried) /\ start \in Encoders
  <2>1. n \in Int
    BY <1>1
  <2>2. count \in Seq(Bytes) /\ Slab(e, start, count, carried)
    BY <2>1, SlabCount
  <2> HIDE DEF start, count, carried
  <2> QED
    BY <2>2, SlabIs
<1>3. JitField(e, runtime, f) = h[DOMAIN vs]
  BY DEF JitField, FoldLeft, MapThenFoldSet
<1>4. OnWire(f) = count \o FlattenSeq(ss)
  BY DEF OnWire, count
<1>5. t \in WireTypes /\ t \in JitTypes
  BY DEF JitTypes, WireTypes
<1>6. \A i \in 1..n : t = "string" => vs[i] \in Scalars(f)
  BY <1>1 DEF Scalars, Range
<1>7. carried => t # "bytes" /\ (t = "string" => \A s \in Scalars(f) : Short(s))
  BY DEF ShortField
<1> HIDE DEF start, count, carried, n, t, vs
<1>8. ASSUME NEW x \in Encoders, NEW i \in 1..n
      PROVE  JitScalar(x, runtime, t, vs[i]) \in Encoders
  <2>1. vs[i] \in ValuesOf(t)
    BY <1>1
  <2>2. Slab(x, JitScalar(x, runtime, t, vs[i]), ScalarOnWire(t, vs[i]), ShortValue(t, vs[i]))
    BY <1>5, <2>1, JitScalarIs
  <2> QED
    BY <2>2, SlabIs
<1>9. h = Step(h)
  <2>1. g \in [(1..n) \X Encoders -> Encoders]
    BY <1>8
  <2>2. PICK k : Folds(k, n, Encoders, start, g)
    <3> HIDE DEF g
    <3> QED
      BY <1>1, <1>2, <2>1, FoldsExist
  <2>3. ASSUME NEW s \in SUBSET (1..n)
        PROVE  k[s] = IF s = {} THEN start
                      ELSE JitScalar(k[s \ {Max(s)}], runtime, t, vs[Max(s)])
    BY <2>2 DEF Folds
  <2>4. k = [s \in SUBSET (1..n) |-> k[s]]
    BY <2>2 DEF Folds
  <2>5. k = Step(k)
    BY <1>1, <2>3, <2>4
  <2> HIDE DEF Step
  <2> QED
    BY <2>5
<1>10. h[{}] = start /\ \A i \in 1..n : h[1..i] = JitScalar(h[1..(i - 1)], runtime, t, vs[i])
  <2> HIDE DEF h
  <2>1. \A s \in SUBSET (1..n) :
          h[s] = IF s = {} THEN start ELSE JitScalar(h[s \ {Max(s)}], runtime, t, vs[Max(s)])
    BY <1>1, <1>9
  <2>2. h[{}] = start
    BY <2>1
  <2>3. ASSUME NEW i \in 1..n
        PROVE  h[1..i] = JitScalar(h[1..(i - 1)], runtime, t, vs[i])
    <3>1. /\ 1..i \in SUBSET (1..n) /\ 1..i # {} /\ Max(1..i) = i
          /\ (1..i) \ {i} = 1..(i - 1)
      BY <1>1, UpToStep
    <3> QED
      BY <2>1, <3>1
  <2> QED
    BY <2>2, <2>3
<1>11. ss \in Seq(Seq(Bytes)) /\ Len(ss) = n /\ \A i \in 1..n : ss[i] = ScalarOnWire(t, vs[i])
  <2>1. vs \in Seq(ValuesOf(t))
    BY DEF vs, t
  <2> QED
    BY <1>5, <2>1, ElementsAre DEF n
<1>12. ASSUME NEW i \in 1..n, carried
      PROVE  ShortValue(t, vs[i])
  BY <1>12, <1>6, <1>7 DEF ShortValue, Short
<1> HIDE DEF h, ss, g
<1>13. ASSUME NEW i \in 1..n, h[1..(i - 1)] \in Encoders
       PROVE  Slab(h[1..(i - 1)], h[1..i], ss[i], carried)
  <2>1. h[1..i] = JitScalar(h[1..(i - 1)], runtime, t, vs[i])
    BY <1>10
  <2>2. vs[i] \in ValuesOf(t)
    BY <1>1
  <2>3. Slab(h[1..(i - 1)], h[1..i], ScalarOnWire(t, vs[i]), ShortValue(t, vs[i]))
    BY <1>5, <1>13, <2>1, <2>2, JitScalarIs
  <2>4. Slab(h[1..(i - 1)], h[1..i], ScalarOnWire(t, vs[i]), carried)
    BY <1>12, <1>13, <2>3, SlabLess
  <2> QED
    BY <1>11, <2>4
<1>14. Slab(e, h[1..n], count \o FlattenSeq(ss), carried)
  <2>1. count \in Seq(Nat) /\ ss \in Seq(Seq(Nat))
    BY <1>2, <1>11, BytesAreNat, ListsAreNat
  <2>2. Slab(e, h[{}], count, carried)
    BY <1>2, <1>10
  <2> QED
    BY <1>1, <1>11, <1>13, <2>1, <2>2, SlabFold
<1> QED
  BY <1>1, <1>3, <1>4, <1>14 DEF carried

LEMMA JitFieldIs ==
  ASSUME NEW e \in Encoders, NEW runtime, NEW f, f.t \in JitTypes, f.many \in BOOLEAN,
         IF f.many THEN f.v \in Seq(ValuesOf(f.t)) ELSE f.v \in ValuesOf(f.t)
  PROVE  /\ Slab(e, JitField(e, runtime, f), OnWire(f), ShortField(f))
         /\ ~f.many => Slab(e, BrowserJitField(e, runtime, f), OnWire(f), ShortField(f))
<1>1. CASE f.many
  BY <1>1, JitListIs
<1>2. CASE ~f.many
  <2>1. /\ JitField(e, runtime, f) = JitScalar(e, runtime, f.t, f.v)
        /\ BrowserJitField(e, runtime, f) = JitScalar(e, runtime, f.t, f.v)
        /\ OnWire(f) = ScalarOnWire(f.t, f.v)
    BY <1>2 DEF JitField, BrowserJitField, OnWire
  <2>2. Slab(e, JitScalar(e, runtime, f.t, f.v), ScalarOnWire(f.t, f.v), ShortValue(f.t, f.v))
    BY <1>2, JitScalarIs
  <2>3. ShortField(f) => ShortValue(f.t, f.v)
    BY <1>2 DEF ShortField, ShortValue, Short, Scalars
  <2> QED
    BY <2>1, <2>2, <2>3, SlabLess
<1> QED
  BY <1>1, <1>2

\* A field's bytes.
LEMMA OnWireFieldIs ==
  ASSUME NEW f, f.t \in WireTypes, f.many \in BOOLEAN,
         IF f.many THEN f.v \in Seq(ValuesOf(f.t)) ELSE f.v \in ValuesOf(f.t)
  PROVE  OnWire(f) \in Seq(Bytes)
<1>1. CASE f.many
  <2> DEFINE ss == [i \in DOMAIN f.v |-> ScalarOnWire(f.t, f.v[i])]
             count == LittleEndian(Len(f.v), SizeInt32)
  <2>1. OnWire(f) = count \o FlattenSeq(ss)
    BY <1>1 DEF OnWire
  <2>2. f.v \in Seq(ValuesOf(f.t))
    BY <1>1
  <2>3. ss \in Seq(Seq(Bytes))
    BY <2>2, ElementsAre
  <2>4. count \in Seq(Bytes)
    <3>1. Len(f.v) \in Int
      BY <2>2, SeqIs
    <3>2. SizeInt32 \in {4, 8}
      BY NumericIs
    <3> QED
      BY <3>1, <3>2, LittleEndianIs
  <2> HIDE DEF ss, count
  <2>5. FlattenSeq(ss) \in Seq(Bytes)
    BY <2>3, FlattenIsSeq
  <2> QED
    BY <2>1, <2>4, <2>5, CatIs
<1>2. CASE ~f.many
  <2>1. OnWire(f) = ScalarOnWire(f.t, f.v) /\ f.v \in ValuesOf(f.t)
    BY <1>2 DEF OnWire
  <2> QED
    BY <2>1, OnWireIs
<1> QED
  BY <1>1, <1>2

LEMMA SlabNothing ==
  ASSUME NEW e \in Encoders, NEW carried
  PROVE  Slab(e, e, <<>>, carried)
<1>1. e.heap \in Heaps /\ e.pos \in Nat /\ Room(e) \in Nat
  BY EncoderIs
<1>2. Kept(e.heap, e.heap, e.pos, FALSE)
  BY <1>1, KeptSame
<1> DEFINE b == <<>>
<1>3. e.pos + Len(b) <= Room(e) => e.pos = e.pos + Len(b) /\ Holds(e, e.pos, b)
  BY <1>1 DEF Holds
<1>4. e.pos <= e.pos
  BY <1>1
<1> HIDE DEF b
<1>5. Slab(e, e, b, carried)
  BY <1>2, <1>3, <1>4, SlabIntro
<1> QED
  BY <1>5 DEF b

\* The bytes of an object of a compiled encoder.
ObjectOnWire(fields) == FlattenSeq([i \in DOMAIN fields |-> OnWire(fields[i])])

ObjectCarried(fields) == \A i \in 1..Len(fields) : ShortField(fields[i])

IsObject(kind, fields) ==
  /\ Len(fields) \in Nat /\ DOMAIN fields = 1..Len(fields)
  /\ \A i \in 1..Len(fields) : IsField(kind, fields[i])

\* One field of an object, unless one before it threw.
LEMMA JitStepIs ==
  ASSUME NEW x \in Encoders, NEW runtime, runtime.kind \in {"jit", "browser_jit"},
         NEW f, IsField(runtime.kind, f)
  PROVE  Slab(x, CASE ~x.ok -> x
                   [] x.ok /\ runtime.kind = "jit" -> JitField(x, runtime, f)
                   [] x.ok /\ runtime.kind = "browser_jit" -> BrowserJitField(x, runtime, f),
              OnWire(f), ShortField(f))
<1> DEFINE y == CASE ~x.ok -> x
                  [] x.ok /\ runtime.kind = "jit" -> JitField(x, runtime, f)
                  [] x.ok /\ runtime.kind = "browser_jit" -> BrowserJitField(x, runtime, f)
<1>1. /\ f.t \in JitTypes /\ f.many \in BOOLEAN
      /\ IF f.many THEN f.v \in Seq(ValuesOf(f.t)) ELSE f.v \in ValuesOf(f.t)
      /\ runtime.kind = "browser_jit" => ~f.many
  BY DEF IsField, TypesOf, JitTypes
<1>2. CASE ~x.ok
  <2>1. y = x
    BY <1>2
  <2> QED
    BY <1>2, <2>1, SlabSame
<1>3. CASE x.ok /\ runtime.kind = "jit"
  <2>1. y = JitField(x, runtime, f)
    BY <1>3
  <2> QED
    BY <1>1, <2>1, JitFieldIs
<1>4. CASE x.ok /\ runtime.kind = "browser_jit"
  <2>1. y = BrowserJitField(x, runtime, f)
    BY <1>4
  <2> QED
    BY <1>1, <1>4, <2>1, JitFieldIs
<1> QED
  BY <1>2, <1>3, <1>4

LEMMA JitEncodeIs ==
  ASSUME NEW e \in Encoders, NEW runtime, runtime.kind \in {"jit", "browser_jit"},
         NEW fields, IsObject(runtime.kind, fields)
  PROVE  Slab(e, JitEncode(e, runtime, fields), ObjectOnWire(fields), ObjectCarried(fields))
<1> DEFINE vs == fields
           n == Len(vs)
           carried == ObjectCarried(fields)
           start == e
           ss == [i \in DOMAIN vs |-> OnWire(vs[i])]
           JitStep(x, f) == CASE ~x.ok -> x
                              [] x.ok /\ runtime.kind = "jit" -> JitField(x, runtime, f)
                              [] x.ok /\ runtime.kind = "browser_jit" -> BrowserJitField(x, runtime, f)
           g == [p \in (1..n) \X Encoders |-> JitStep(p[2], vs[p[1]])]
           Step(h) == [s \in SUBSET (DOMAIN vs) |->
                         IF s = {} THEN start ELSE JitStep(h[s \ {Max(s)}], vs[Max(s)])]
           h == CHOOSE h : h = Step(h)
           r == h[DOMAIN vs]
<1>1. n \in Nat /\ DOMAIN vs = 1..n /\ \A i \in 1..n : IsField(runtime.kind, vs[i])
  BY DEF IsObject
<1>2. start \in Encoders
  OBVIOUS
<1>3. JitEncode(e, runtime, fields) = IF r.ok THEN r ELSE [r EXCEPT !.pos = e.pos]
  BY DEF JitEncode, FoldLeft, MapThenFoldSet
<1>4. \A x \in Encoders : \A f : IsField(runtime.kind, f) =>
         Slab(x, JitStep(x, f), OnWire(f), ShortField(f))
  BY JitStepIs
<1> HIDE DEF JitStep, n, vs, start, carried
<1>5. ASSUME NEW x \in Encoders, NEW i \in 1..n
      PROVE  JitStep(x, vs[i]) \in Encoders
  <2>1. Slab(x, JitStep(x, vs[i]), OnWire(vs[i]), ShortField(vs[i]))
    BY <1>1, <1>4
  <2> QED
    BY <2>1, SlabIs
<1>6. h = Step(h)
  <2>1. g \in [(1..n) \X Encoders -> Encoders]
    BY <1>5
  <2>2. PICK k : Folds(k, n, Encoders, start, g)
    <3> HIDE DEF g
    <3> QED
      BY <1>1, <1>2, <2>1, FoldsExist
  <2>3. ASSUME NEW s \in SUBSET (1..n)
        PROVE  k[s] = IF s = {} THEN start
                      ELSE JitStep(k[s \ {Max(s)}], vs[Max(s)])
    BY <2>2 DEF Folds
  <2>4. k = [s \in SUBSET (1..n) |-> k[s]]
    BY <2>2 DEF Folds
  <2>5. k = Step(k)
    BY <1>1, <2>3, <2>4
  <2> HIDE DEF Step
  <2> QED
    BY <2>5
<1>7. h[{}] = start /\ \A i \in 1..n : h[1..i] = JitStep(h[1..(i - 1)], vs[i])
  <2> HIDE DEF h
  <2>1. \A s \in SUBSET (1..n) :
          h[s] = IF s = {} THEN start
                 ELSE JitStep(h[s \ {Max(s)}], vs[Max(s)])
    BY <1>1, <1>6
  <2>2. h[{}] = start
    BY <2>1
  <2>3. ASSUME NEW i \in 1..n
        PROVE  h[1..i] = JitStep(h[1..(i - 1)], vs[i])
    <3>1. /\ 1..i \in SUBSET (1..n) /\ 1..i # {} /\ Max(1..i) = i
          /\ (1..i) \ {i} = 1..(i - 1)
      BY <1>1, UpToStep
    <3> QED
      BY <2>1, <3>1
  <2> QED
    BY <2>2, <2>3
<1>8. ss \in Seq(Seq(Bytes)) /\ Len(ss) = n /\ \A i \in 1..n : ss[i] = OnWire(vs[i])
  <2>1. ASSUME NEW i \in 1..n
        PROVE  OnWire(vs[i]) \in Seq(Bytes)
    <3>1. IsField(runtime.kind, vs[i])
      BY <1>1
    <3> DEFINE f == vs[i]
    <3> HIDE DEF f
    <3>2. /\ f.t \in WireTypes /\ f.many \in BOOLEAN
          /\ IF f.many THEN f.v \in Seq(ValuesOf(f.t)) ELSE f.v \in ValuesOf(f.t)
      BY <3>1 DEF f, IsField, TypesOf, WireTypes
    <3> QED
      BY <3>2, OnWireFieldIs DEF f
  <2>2. ss \in [1..n -> Seq(Bytes)] /\ \A i \in 1..n : ss[i] = OnWire(vs[i])
    BY <1>1, <2>1
  <2> HIDE DEF ss
  <2> QED
    BY <1>1, <2>2, ListIs
<1>9. ObjectOnWire(fields) = FlattenSeq(ss)
  BY DEF ObjectOnWire, vs
<1>10. \A i \in 1..n : carried => ShortField(vs[i])
  BY DEF carried, ObjectCarried, n, vs
<1> HIDE DEF h, ss, g
<1>11. ASSUME NEW i \in 1..n, h[1..(i - 1)] \in Encoders
       PROVE  Slab(h[1..(i - 1)], h[1..i], ss[i], carried)
  <2>1. h[1..i] = JitStep(h[1..(i - 1)], vs[i])
    BY <1>7
  <2>2. Slab(h[1..(i - 1)], h[1..i], OnWire(vs[i]), ShortField(vs[i]))
    BY <1>1, <1>11, <1>4, <2>1
  <2>3. Slab(h[1..(i - 1)], h[1..i], OnWire(vs[i]), carried)
    BY <1>10, <1>11, <2>2, SlabLess
  <2> QED
    BY <1>8, <2>3
<1>12. Slab(e, h[1..n], FlattenSeq(ss), carried)
  <2> DEFINE b == <<>>
  <2>1. b \in Seq(Nat) /\ ss \in Seq(Seq(Nat))
    BY <1>8, ListsAreNat
  <2>2. Slab(e, h[{}], b, carried)
    BY <1>7, SlabNothing DEF start
  <2>3. b \o FlattenSeq(ss) = FlattenSeq(ss)
    <3>1. FlattenSeq(ss) \in Seq(Nat)
      BY <2>1, FlattenIsSeq
    <3> QED
      BY <3>1
  <2> HIDE DEF b
  <2>4. Slab(e, h[1..n], b \o FlattenSeq(ss), carried)
    BY <1>1, <1>8, <1>11, <2>1, <2>2, SlabFold
  <2> QED
    BY <2>3, <2>4
<1>13. Slab(e, r, FlattenSeq(ss), carried)
  BY <1>1, <1>12
<1> HIDE DEF r
<1>14. CASE r.ok
  BY <1>3, <1>9, <1>13, <1>14 DEF carried
<1>15. CASE ~r.ok
  <2> DEFINE y == [r EXCEPT !.pos = e.pos]
  <2>1. r \in Encoders /\ Room(r) = Room(e) /\ Len(r.heap) = Len(e.heap)
        /\ Kept(e.heap, r.heap, e.pos, FALSE)
    BY <1>13, SlabIs
  <2>2. e.pos \in Nat
    BY EncoderIs
  <2>3. y \in Encoders /\ y.ok = r.ok /\ y.pos = e.pos /\ y.heap = r.heap /\ Room(y) = Room(r)
    BY <2>1, <2>2, AtIs
  <2> HIDE DEF y
  <2>4. Slab(e, y, FlattenSeq(ss), carried)
    <3>1. e.pos <= y.pos
      BY <2>2, <2>3
    <3> QED
      BY <1>15, <2>1, <2>3, <3>1, SlabIntro
  <2> QED
    BY <1>3, <1>9, <1>15, <2>4 DEF carried, y
<1> QED
  BY <1>14, <1>15

-----------------------------------------------------------------------------
(* collections.ts.                                                         *)

\* One byte a unit: bytes, and for short ASCII text those of the format.
LEMMA RawTextIs ==
  ASSUME NEW s \in Seq(Units)
  PROVE  /\ RawText(s) \in Seq(Bytes)
         /\ Short(s) /\ IsAscii(s) => RawText(s) = AppendBytes(Utf8(s))
<1> DEFINE n == Len(s)
           raw == [i \in DOMAIN s |-> s[i] % Base]
<1>1. n \in Nat /\ DOMAIN s = 1..n /\ \A i \in 1..n : s[i] \in Units
  BY SeqIs
<1>2. Base = 8 /\ Bytes = 0..7 /\ Units \subseteq Nat
  BY PowerIs DEF Units
<1>3. RawText(s) = <<n % Base>> \o raw
  BY DEF RawText
<1>4. raw \in [1..n -> Bytes] /\ \A i \in 1..n : raw[i] = s[i] % Base
  <2>1. \A i \in 1..n : s[i] % Base \in Bytes
    <3>1. \A m \in Nat : m % 8 \in 0..7
      OBVIOUS
    <3> QED
      BY <1>1, <1>2, <3>1
  <2> HIDE DEF n
  <2> QED
    BY <1>1, <2>1
<1> HIDE DEF raw, n
<1>5. raw \in Seq(Bytes) /\ Len(raw) = n
  BY <1>1, <1>4, ListIs
<1>6. RawText(s) \in Seq(Bytes)
  <2> DEFINE k == n % Base
  <2>1. k \in Bytes
    BY <1>1, <1>2
  <2> HIDE DEF k
  <2>2. <<k>> \in Seq(Bytes)
    BY <2>1
  <2> QED
    BY <1>3, <1>5, <2>2, CatIs DEF k
<1>7. ASSUME Short(s), IsAscii(s)
      PROVE  RawText(s) = AppendBytes(Utf8(s))
  <2>1. Utf8(s) = s
    BY <1>7, Utf8Is
  <2>2. Len(Utf8(s)) <= CompactLengthThreshold
    BY <1>7 DEF Short
  <2>3. AppendBytes(Utf8(s)) = <<n>> \o s /\ n % Base = n
    BY <2>1, <2>2, ShortIs DEF n
  <2>4. \A i \in 1..n : s[i] < 4
    BY <1>1, <1>2, <1>7 DEF IsAscii
  <2>5. \A i \in 1..n : raw[i] = s[i]
    <3>1. \A m \in Nat : m < 4 => m % 8 = m
      OBVIOUS
    <3>2. ASSUME NEW i \in 1..n
          PROVE  raw[i] = s[i]
      <4> DEFINE m == s[i]
      <4>1. m \in Nat /\ m < 4 /\ raw[i] = m % Base
        BY <1>1, <1>2, <1>4, <2>4
      <4> HIDE DEF m
      <4>2. raw[i] = m
        BY <1>2, <3>1, <4>1
      <4> QED
        BY <4>2 DEF m
    <3> QED
      BY <3>2
  <2>6. raw = s
    BY <1>5, <2>5, SameSeq DEF n
  <2> QED
    BY <1>3, <2>3, <2>6
<1> QED
  BY <1>6, <1>7

\* From nothing, where the items are all there is.
LEMMA SlabFoldOnly ==
  ASSUME NEW n \in Nat, NEW f, NEW ss \in Seq(Seq(Bytes)), Len(ss) = n, NEW e \in Encoders,
         NEW carried, Slab(e, f[{}], <<>>, carried),
         \A i \in 1..n : f[1..(i - 1)] \in Encoders =>
           Slab(f[1..(i - 1)], f[1..i], ss[i], carried)
  PROVE  Slab(e, f[1..n], FlattenSeq(ss), carried)
<1> DEFINE b == <<>>
<1>1. b \in Seq(Nat) /\ ss \in Seq(Seq(Nat))
  BY ListsAreNat
<1>2. Slab(e, f[{}], b, carried)
  OBVIOUS
<1>3. b \o FlattenSeq(ss) = FlattenSeq(ss)
  <2>1. FlattenSeq(ss) \in Seq(Nat)
    BY <1>1, FlattenIsSeq
  <2> QED
    BY <2>1
<1> HIDE DEF b
<1>4. Slab(e, f[1..n], b \o FlattenSeq(ss), carried)
  BY <1>1, <1>2, SlabFold
<1> QED
  BY <1>3, <1>4

\* Texts, each in one byte of length.
LEMMA EncodeStringArrayIs ==
  ASSUME NEW start \in Encoders, NEW vs \in Seq(ValuesOf("string")), NEW carried,
         \A i \in 1..Len(vs) : carried => Short(vs[i]) /\ IsAscii(vs[i])
  PROVE  Slab(start, EncodeStringArray(start, vs),
              FlattenSeq([i \in DOMAIN vs |-> ScalarOnWire("string", vs[i])]), carried)
<1> DEFINE n == Len(vs)
           ss == [i \in DOMAIN vs |-> ScalarOnWire("string", vs[i])]
           g == [p \in (1..n) \X Encoders |-> Put(p[2], RawText(vs[p[1]]))]
           Step(h) == [s \in SUBSET (DOMAIN vs) |->
                         IF s = {} THEN start
                         ELSE Put(h[s \ {Max(s)}], RawText(vs[Max(s)]))]
           h == CHOOSE h : h = Step(h)
<1>1. n \in Nat /\ DOMAIN vs = 1..n /\ \A i \in 1..n : vs[i] \in ValuesOf("string")
  BY SeqIs
<1>2. start \in Encoders
  OBVIOUS
<1>3. EncodeStringArray(start, vs) = h[DOMAIN vs]
  BY DEF EncodeStringArray, FoldLeft, MapThenFoldSet
<1>4. ASSUME NEW x \in Encoders, NEW i \in 1..n
      PROVE  /\ Slab(x, Put(x, RawText(vs[i])), ScalarOnWire("string", vs[i]), carried)
             /\ Put(x, RawText(vs[i])) \in Encoders
  <2>1. vs[i] \in Seq(Units) /\ ScalarOnWire("string", vs[i]) = AppendBytes(Utf8(vs[i]))
    BY <1>1, ValuesAre, OnWireIs DEF WireTypes
  <2>2. RawText(vs[i]) \in Seq(Bytes)
    BY <2>1, RawTextIs
  <2>3. carried => RawText(vs[i]) = ScalarOnWire("string", vs[i])
    BY <2>1, RawTextIs
  <2>4. Slab(x, Put(x, RawText(vs[i])), ScalarOnWire("string", vs[i]), carried)
    BY <2>2, <2>3, SlabPut
  <2> QED
    BY <2>4, SlabIs
<1>5. h = Step(h)
  <2>1. g \in [(1..n) \X Encoders -> Encoders]
    BY <1>4
  <2>2. PICK k : Folds(k, n, Encoders, start, g)
    <3> HIDE DEF g
    <3> QED
      BY <1>1, <1>2, <2>1, FoldsExist
  <2>3. ASSUME NEW s \in SUBSET (1..n)
        PROVE  k[s] = IF s = {} THEN start
                      ELSE Put(k[s \ {Max(s)}], RawText(vs[Max(s)]))
    BY <2>2 DEF Folds
  <2>4. k = [s \in SUBSET (1..n) |-> k[s]]
    BY <2>2 DEF Folds
  <2>5. k = Step(k)
    BY <1>1, <2>3, <2>4
  <2> HIDE DEF Step
  <2> QED
    BY <2>5
<1>6. h[{}] = start /\ \A i \in 1..n : h[1..i] = Put(h[1..(i - 1)], RawText(vs[i]))
  <2> HIDE DEF h
  <2>1. \A s \in SUBSET (1..n) :
          h[s] = IF s = {} THEN start
                 ELSE Put(h[s \ {Max(s)}], RawText(vs[Max(s)]))
    BY <1>1, <1>5
  <2>2. h[{}] = start
    BY <2>1
  <2>3. ASSUME NEW i \in 1..n
        PROVE  h[1..i] = Put(h[1..(i - 1)], RawText(vs[i]))
    <3>1. /\ 1..i \in SUBSET (1..n) /\ 1..i # {} /\ Max(1..i) = i
          /\ (1..i) \ {i} = 1..(i - 1)
      BY <1>1, UpToStep
    <3> QED
      BY <2>1, <3>1
  <2> QED
    BY <2>2, <2>3
<1>7. ss \in Seq(Seq(Bytes)) /\ Len(ss) = n /\ \A i \in 1..n : ss[i] = ScalarOnWire("string", vs[i])
  <2>1. "string" \in WireTypes
    BY DEF WireTypes, Numeric
  <2> QED
    BY <2>1, ElementsAre
<1> HIDE DEF h, ss, g, n
<1>8. ASSUME NEW i \in 1..n, h[1..(i - 1)] \in Encoders
      PROVE  Slab(h[1..(i - 1)], h[1..i], ss[i], carried)
  BY <1>4, <1>6, <1>7, <1>8
<1>9. Slab(start, h[{}], <<>>, carried)
  BY <1>6, SlabNothing
<1>10. Slab(start, h[1..n], FlattenSeq(ss), carried)
  BY <1>1, <1>7, <1>8, <1>9, SlabFoldOnly
<1> QED
  BY <1>1, <1>3, <1>10 DEF ss

\* Numbers, through a DataView.
LEMMA EncodeInt32ArrayIs ==
  ASSUME NEW start \in Encoders, NEW vs \in Seq(ValuesOf("int32")), NEW carried
  PROVE  Slab(start, EncodeInt32Array(start, vs),
              FlattenSeq([i \in DOMAIN vs |-> ScalarOnWire("int32", vs[i])]), carried)
<1> DEFINE n == Len(vs)
           ss == [i \in DOMAIN vs |-> ScalarOnWire("int32", vs[i])]
           g == [p \in (1..n) \X Encoders |-> PutChecked(p[2], FixedBytes("int32", vs[p[1]]))]
           Step(h) == [s \in SUBSET (DOMAIN vs) |->
                         IF s = {} THEN start
                         ELSE PutChecked(h[s \ {Max(s)}], FixedBytes("int32", vs[Max(s)]))]
           h == CHOOSE h : h = Step(h)
<1>1. n \in Nat /\ DOMAIN vs = 1..n /\ \A i \in 1..n : vs[i] \in ValuesOf("int32")
  BY SeqIs
<1>2. start \in Encoders
  OBVIOUS
<1>3. EncodeInt32Array(start, vs) = h[DOMAIN vs]
  BY DEF EncodeInt32Array, FoldLeft, MapThenFoldSet
<1>4. ASSUME NEW x \in Encoders, NEW i \in 1..n
      PROVE  /\ Slab(x, PutChecked(x, FixedBytes("int32", vs[i])), ScalarOnWire("int32", vs[i]), carried)
             /\ PutChecked(x, FixedBytes("int32", vs[i])) \in Encoders
  <2>1. "int32" \in Numeric /\ vs[i] \in ValuesOf("int32") /\ "int32" \in WireTypes
    BY <1>1 DEF Numeric, WireTypes
  <2>2. /\ FixedBytes("int32", vs[i]) \in Seq(Bytes)
        /\ ScalarOnWire("int32", vs[i]) = FixedBytes("int32", vs[i])
    BY <2>1, FixedBytesIs, OnWireIs, NumericIs
  <2>3. Slab(x, PutChecked(x, FixedBytes("int32", vs[i])), ScalarOnWire("int32", vs[i]), carried)
    BY <2>2, SlabPut
  <2> QED
    BY <2>3, SlabIs
<1>5. h = Step(h)
  <2>1. g \in [(1..n) \X Encoders -> Encoders]
    BY <1>4
  <2>2. PICK k : Folds(k, n, Encoders, start, g)
    <3> HIDE DEF g
    <3> QED
      BY <1>1, <1>2, <2>1, FoldsExist
  <2>3. ASSUME NEW s \in SUBSET (1..n)
        PROVE  k[s] = IF s = {} THEN start
                      ELSE PutChecked(k[s \ {Max(s)}], FixedBytes("int32", vs[Max(s)]))
    BY <2>2 DEF Folds
  <2>4. k = [s \in SUBSET (1..n) |-> k[s]]
    BY <2>2 DEF Folds
  <2>5. k = Step(k)
    BY <1>1, <2>3, <2>4
  <2> HIDE DEF Step
  <2> QED
    BY <2>5
<1>6. h[{}] = start /\ \A i \in 1..n : h[1..i] = PutChecked(h[1..(i - 1)], FixedBytes("int32", vs[i]))
  <2> HIDE DEF h
  <2>1. \A s \in SUBSET (1..n) :
          h[s] = IF s = {} THEN start
                 ELSE PutChecked(h[s \ {Max(s)}], FixedBytes("int32", vs[Max(s)]))
    BY <1>1, <1>5
  <2>2. h[{}] = start
    BY <2>1
  <2>3. ASSUME NEW i \in 1..n
        PROVE  h[1..i] = PutChecked(h[1..(i - 1)], FixedBytes("int32", vs[i]))
    <3>1. /\ 1..i \in SUBSET (1..n) /\ 1..i # {} /\ Max(1..i) = i
          /\ (1..i) \ {i} = 1..(i - 1)
      BY <1>1, UpToStep
    <3> QED
      BY <2>1, <3>1
  <2> QED
    BY <2>2, <2>3
<1>7. ss \in Seq(Seq(Bytes)) /\ Len(ss) = n /\ \A i \in 1..n : ss[i] = ScalarOnWire("int32", vs[i])
  <2>1. "int32" \in WireTypes
    BY DEF WireTypes, Numeric
  <2> QED
    BY <2>1, ElementsAre
<1> HIDE DEF h, ss, g, n
<1>8. ASSUME NEW i \in 1..n, h[1..(i - 1)] \in Encoders
      PROVE  Slab(h[1..(i - 1)], h[1..i], ss[i], carried)
  BY <1>4, <1>6, <1>7, <1>8
<1>9. Slab(start, h[{}], <<>>, carried)
  BY <1>6, SlabNothing
<1>10. Slab(start, h[1..n], FlattenSeq(ss), carried)
  BY <1>1, <1>7, <1>8, <1>9, SlabFoldOnly
<1> QED
  BY <1>1, <1>3, <1>10 DEF ss

\* Keys and their values.
LEMMA EncodeStringMapIs ==
  ASSUME NEW start \in Encoders, NEW vs \in Seq(ValuesOf("pair")), NEW carried,
         \A i \in 1..Len(vs) : carried => /\ Short(vs[i][1]) /\ IsAscii(vs[i][1])
                                           /\ Short(vs[i][2]) /\ IsAscii(vs[i][2])
  PROVE  Slab(start, EncodeStringMap(start, vs),
              FlattenSeq([i \in DOMAIN vs |-> ScalarOnWire("pair", vs[i])]), carried)
<1> DEFINE n == Len(vs)
           ss == [i \in DOMAIN vs |-> ScalarOnWire("pair", vs[i])]
           g == [p \in (1..n) \X Encoders |-> Put(p[2], RawText(vs[p[1]][1]) \o RawText(vs[p[1]][2]))]
           Step(h) == [s \in SUBSET (DOMAIN vs) |->
                         IF s = {} THEN start
                         ELSE Put(h[s \ {Max(s)}], RawText(vs[Max(s)][1]) \o RawText(vs[Max(s)][2]))]
           h == CHOOSE h : h = Step(h)
<1>1. n \in Nat /\ DOMAIN vs = 1..n /\ \A i \in 1..n : vs[i] \in ValuesOf("pair")
  BY SeqIs
<1>2. start \in Encoders
  OBVIOUS
<1>3. EncodeStringMap(start, vs) = h[DOMAIN vs]
  BY DEF EncodeStringMap, FoldLeft, MapThenFoldSet
<1>4. ASSUME NEW x \in Encoders, NEW i \in 1..n
      PROVE  /\ Slab(x, Put(x, RawText(vs[i][1]) \o RawText(vs[i][2])), ScalarOnWire("pair", vs[i]), carried)
             /\ Put(x, RawText(vs[i][1]) \o RawText(vs[i][2])) \in Encoders
  <2> DEFINE b == RawText(vs[i][1]) \o RawText(vs[i][2])
             c == ScalarOnWire("pair", vs[i])
  <2>1. /\ vs[i][1] \in Seq(Units) /\ vs[i][2] \in Seq(Units)
        /\ c = AppendBytes(Utf8(vs[i][1])) \o AppendBytes(Utf8(vs[i][2]))
    <3>1. vs[i] \in Seq(Units) \X Seq(Units)
      BY <1>1, ValuesAre
    <3>2. "pair" \in WireTypes
      BY DEF WireTypes
    <3>3. c = AppendBytes(Utf8(vs[i][1])) \o AppendBytes(Utf8(vs[i][2]))
      BY <1>1, <3>2, OnWireIs
    <3> QED
      BY <3>1, <3>3
  <2>2. RawText(vs[i][1]) \in Seq(Bytes) /\ RawText(vs[i][2]) \in Seq(Bytes)
    BY <2>1, RawTextIs
  <2>3. b \in Seq(Bytes)
    BY <2>2, CatIs
  <2>4. carried => /\ RawText(vs[i][1]) = AppendBytes(Utf8(vs[i][1]))
                   /\ RawText(vs[i][2]) = AppendBytes(Utf8(vs[i][2]))
    BY <2>1, RawTextIs
  <2>5. carried => b = c
    BY <2>1, <2>4
  <2> HIDE DEF b, c
  <2>6. Slab(x, Put(x, b), c, carried)
    BY <2>3, <2>5, SlabPut
  <2> QED
    BY <2>6, SlabIs DEF b, c
<1>5. h = Step(h)
  <2>1. g \in [(1..n) \X Encoders -> Encoders]
    BY <1>4
  <2>2. PICK k : Folds(k, n, Encoders, start, g)
    <3> HIDE DEF g
    <3> QED
      BY <1>1, <1>2, <2>1, FoldsExist
  <2>3. ASSUME NEW s \in SUBSET (1..n)
        PROVE  k[s] = IF s = {} THEN start
                      ELSE Put(k[s \ {Max(s)}], RawText(vs[Max(s)][1]) \o RawText(vs[Max(s)][2]))
    BY <2>2 DEF Folds
  <2>4. k = [s \in SUBSET (1..n) |-> k[s]]
    BY <2>2 DEF Folds
  <2>5. k = Step(k)
    BY <1>1, <2>3, <2>4
  <2> HIDE DEF Step
  <2> QED
    BY <2>5
<1>6. h[{}] = start /\ \A i \in 1..n : h[1..i] = Put(h[1..(i - 1)], RawText(vs[i][1]) \o RawText(vs[i][2]))
  <2> HIDE DEF h
  <2>1. \A s \in SUBSET (1..n) :
          h[s] = IF s = {} THEN start
                 ELSE Put(h[s \ {Max(s)}], RawText(vs[Max(s)][1]) \o RawText(vs[Max(s)][2]))
    BY <1>1, <1>5
  <2>2. h[{}] = start
    BY <2>1
  <2>3. ASSUME NEW i \in 1..n
        PROVE  h[1..i] = Put(h[1..(i - 1)], RawText(vs[i][1]) \o RawText(vs[i][2]))
    <3>1. /\ 1..i \in SUBSET (1..n) /\ 1..i # {} /\ Max(1..i) = i
          /\ (1..i) \ {i} = 1..(i - 1)
      BY <1>1, UpToStep
    <3> QED
      BY <2>1, <3>1
  <2> QED
    BY <2>2, <2>3
<1>7. ss \in Seq(Seq(Bytes)) /\ Len(ss) = n /\ \A i \in 1..n : ss[i] = ScalarOnWire("pair", vs[i])
  <2>1. "pair" \in WireTypes
    BY DEF WireTypes, Numeric
  <2> QED
    BY <2>1, ElementsAre
<1> HIDE DEF h, ss, g, n
<1>8. ASSUME NEW i \in 1..n, h[1..(i - 1)] \in Encoders
      PROVE  Slab(h[1..(i - 1)], h[1..i], ss[i], carried)
  BY <1>4, <1>6, <1>7, <1>8
<1>9. Slab(start, h[{}], <<>>, carried)
  BY <1>6, SlabNothing
<1>10. Slab(start, h[1..n], FlattenSeq(ss), carried)
  BY <1>1, <1>7, <1>8, <1>9, SlabFoldOnly
<1> QED
  BY <1>1, <1>3, <1>10 DEF ss

\* Each call encodes from the front of the slab.
LEMMA CollectionEncodeIs ==
  ASSUME NEW e \in Encoders, NEW f, IsField("collections", f)
  PROVE  Slab([e EXCEPT !.pos = 0], CollectionEncode(e, f), OnWire(f),
              \A s \in Texts(f) : Short(s) /\ IsAscii(s))
<1> DEFINE zero == [e EXCEPT !.pos = 0]
           t == f.t
           vs == f.v
           n == Len(vs)
           carried == \A s \in Texts(f) : Short(s) /\ IsAscii(s)
           start == Put(zero, FixedBytes("int32", n))
           count == LittleEndian(n, SizeInt32)
           elements == FlattenSeq([i \in DOMAIN vs |-> ScalarOnWire(t, vs[i])])
           r == CASE t = "string" -> EncodeStringArray(start, vs)
                  [] t = "int32" -> EncodeInt32Array(start, vs)
                  [] t = "pair" -> EncodeStringMap(start, vs)
<1>1. t \in {"string", "int32", "pair"} /\ vs \in Seq(ValuesOf(t)) /\ f.many
  BY DEF IsField, TypesOf
<1>2. n \in Nat /\ DOMAIN vs = 1..n /\ \A i \in 1..n : vs[i] \in ValuesOf(t)
  BY <1>1, SeqIs
<1>3. /\ zero \in Encoders /\ zero.ok = e.ok /\ zero.pos = 0 /\ zero.heap = e.heap
      /\ Room(zero) = Room(e)
  BY AtIs
<1>4. CollectionEncode(e, f) = IF r.ok THEN r ELSE [r EXCEPT !.pos = 0]
  BY DEF CollectionEncode
<1>5. OnWire(f) = count \o elements
  BY <1>1 DEF OnWire
<1> HIDE DEF zero
<1>6. count \in Seq(Bytes) /\ Slab(zero, start, count, carried) /\ start \in Encoders
  <2>1. n \in Int
    BY <1>2
  <2> HIDE DEF n, carried
  <2>2. count \in Seq(Bytes) /\ Slab(zero, start, count, carried)
    BY <1>3, <2>1, SlabCount
  <2> HIDE DEF start, count
  <2> QED
    BY <1>3, <2>2, SlabIs
<1>7. ASSUME t \in {"string", "pair"}, carried, NEW i \in 1..n
      PROVE  /\ t = "string" => Short(vs[i]) /\ IsAscii(vs[i])
             /\ t = "pair" => /\ Short(vs[i][1]) /\ IsAscii(vs[i][1])
                              /\ Short(vs[i][2]) /\ IsAscii(vs[i][2])
  <2>1. vs[i] \in Scalars(f)
    BY <1>1, <1>2 DEF Scalars, Range
  <2>2. CASE t = "string"
    BY <1>7, <2>1, <2>2 DEF Texts
  <2>3. CASE t = "pair"
    <3>1. vs[i][1] \in Texts(f) /\ vs[i][2] \in Texts(f)
      BY <2>1, <2>3 DEF Texts
    <3> QED
      BY <1>7, <2>3, <3>1
  <2> QED
    BY <1>7, <2>2, <2>3
<1> HIDE DEF start, count, carried
<1>8. Slab(start, r, elements, carried)
  <2>1. CASE t = "string"
    <3>1. r = EncodeStringArray(start, vs) /\ vs \in Seq(ValuesOf("string"))
      BY <1>1, <2>1
    <3>2. \A i \in 1..Len(vs) : carried => Short(vs[i]) /\ IsAscii(vs[i])
      BY <1>7, <2>1
    <3>3. Slab(start, EncodeStringArray(start, vs),
               FlattenSeq([i \in DOMAIN vs |-> ScalarOnWire("string", vs[i])]), carried)
      BY <1>6, <3>1, <3>2, EncodeStringArrayIs
    <3> QED
      BY <2>1, <3>1, <3>3
  <2>2. CASE t = "int32"
    <3>1. r = EncodeInt32Array(start, vs) /\ vs \in Seq(ValuesOf("int32"))
      BY <1>1, <2>2
    <3>2. Slab(start, EncodeInt32Array(start, vs),
               FlattenSeq([i \in DOMAIN vs |-> ScalarOnWire("int32", vs[i])]), carried)
      BY <1>6, <3>1, EncodeInt32ArrayIs
    <3> QED
      BY <2>2, <3>1, <3>2
  <2>3. CASE t = "pair"
    <3>1. r = EncodeStringMap(start, vs) /\ vs \in Seq(ValuesOf("pair"))
      BY <1>1, <2>3
    <3>2. \A i \in 1..Len(vs) : carried => /\ Short(vs[i][1]) /\ IsAscii(vs[i][1])
                                           /\ Short(vs[i][2]) /\ IsAscii(vs[i][2])
      BY <1>7, <2>3
    <3>3. Slab(start, EncodeStringMap(start, vs),
               FlattenSeq([i \in DOMAIN vs |-> ScalarOnWire("pair", vs[i])]), carried)
      BY <1>6, <3>1, <3>2, EncodeStringMapIs
    <3> QED
      BY <2>3, <3>1, <3>3
  <2> QED
    BY <1>1, <2>1, <2>2, <2>3
<1>9. elements \in Seq(Bytes)
  <2> DEFINE ss == [i \in DOMAIN vs |-> ScalarOnWire(t, vs[i])]
  <2>1. t \in WireTypes
    BY <1>1 DEF WireTypes, Numeric
  <2>2. ss \in Seq(Seq(Bytes))
    BY <1>1, <2>1, ElementsAre
  <2> HIDE DEF ss
  <2>3. FlattenSeq(ss) \in Seq(Bytes)
    BY <2>2, FlattenIsSeq
  <2> QED
    BY <2>3 DEF ss
<1> HIDE DEF r, elements
<1>10. Slab(zero, r, count \o elements, carried)
  <2>1. count \in Seq(Nat) /\ elements \in Seq(Nat)
    BY <1>6, <1>9, BytesAreNat
  <2>2. Slab(zero, r, count \o elements, carried /\ carried)
    BY <1>3, <1>6, <1>8, <2>1, SlabBoth
  <2> DEFINE b == count \o elements
  <2> HIDE DEF b
  <2> QED
    BY <1>3, <2>2, SlabLess DEF b
<1>11. CASE r.ok
  BY <1>4, <1>5, <1>10, <1>11 DEF zero, carried
<1>12. CASE ~r.ok
  <2> DEFINE y == [r EXCEPT !.pos = 0]
             b == count \o elements
  <2>1. r \in Encoders /\ Room(r) = Room(zero) /\ Len(r.heap) = Len(zero.heap)
        /\ Kept(zero.heap, r.heap, zero.pos, FALSE)
    BY <1>3, <1>10, SlabIs
  <2>2. y \in Encoders /\ y.ok = r.ok /\ y.pos = 0 /\ y.heap = r.heap /\ Room(y) = Room(r)
    BY <2>1, AtIs
  <2> HIDE DEF y, b
  <2>3. Slab(zero, y, b, carried)
    <3>1. zero.pos <= y.pos
      BY <1>3, <2>2
    <3> QED
      BY <1>3, <1>12, <2>1, <2>2, <3>1, SlabIntro
  <2> QED
    BY <1>4, <1>5, <1>12, <2>3 DEF y, b, zero, carried
<1> QED
  BY <1>11, <1>12

-----------------------------------------------------------------------------
(* hyper.ts and unsafe.ts.                                                 *)

TaggedTypes == Numeric \cup {"sint32", "string", "bytes"}

\* What follows the tag.
Payload(f) ==
  CASE f.t = "bool" -> BoolByte(f.v)
    [] f.t \in {"sint32", "int64"} -> Varint[Zigzag(f.v)]
    [] f.t \in {"uint32", "uint64"} -> Varint[f.v % Base^Width(f.t)]
    [] f.t = "string" -> Varint[Len(Utf8(f.v))] \o Utf8(f.v)
    [] f.t = "bytes" -> Varint[Len(f.v)] \o f.v
    [] OTHER -> FixedBytes(f.t, f.v)

TagOf(f) == f.n * TagRadix + WireType(f.t)

LEMMA TagIs ==
  ASSUME NEW f, f.n \in Nat, f.t \in TaggedTypes
  PROVE  /\ TagOf(f) \in Nat /\ (f.n <= 1 => TagOf(f) % Base = TagOf(f))
         /\ TagOf(f) % Base \in Bytes
         /\ Varint[TagOf(f)] \in Seq(Bytes)
<1> DEFINE w == WireType(f.t)
<1>1. w \in 0..3
  BY DEF WireType, TaggedTypes, Numeric
<1>2. TagOf(f) = f.n * 4 + w
  BY DEF TagOf, TagRadix
<1> HIDE DEF w
<1>3. TagOf(f) \in Nat /\ (f.n <= 1 => TagOf(f) \in 0..7)
  BY <1>1, <1>2
<1> DEFINE tag == TagOf(f)
<1> HIDE DEF tag
<1>4. tag % 8 \in 0..7 /\ (f.n <= 1 => tag % 8 = tag)
  BY <1>3 DEF tag
<1>5. Varint[tag] \in Seq(Bytes)
  BY <1>3, VarintIs DEF tag
<1> QED
  BY <1>3, <1>4, <1>5, PowerIs DEF tag

\* The values that a tagged field has.
IsTaggedField(f) ==
  /\ f.n \in Nat /\ f.t \in TaggedTypes
  /\ f.t = "sint32" => f.v \in Int
  /\ f.t # "sint32" => f.v \in ValuesOf(f.t)

LEMMA TaggedFieldIs ==
  ASSUME NEW kind \in {"hyper", "batch", "unsafe"}, NEW f, IsField(kind, f)
  PROVE  /\ IsTaggedField(f) /\ f.t \in TypesOf(kind)
<1>1. f.n \in Nat /\ f.t \in TypesOf(kind) /\ f.v \in ValuesOf(f.t)
  BY DEF IsField
<1>2. f.t \in TaggedTypes
  BY <1>1 DEF TypesOf, TaggedTypes, Numeric
<1>3. ASSUME f.t = "sint32"
      PROVE  f.v \in Int
  <2> DEFINE half == Base^SizeInt32 \div 2
  <2>1. ValuesOf("sint32") = -half .. half - 1
    BY DEF ValuesOf, IsFixed
  <2>2. half \in Int
    <3>1. Base^SizeInt32 = 4096
      BY PowerIs, NumericIs DEF Power
    <3> QED
      BY <3>1
  <2> HIDE DEF half
  <2> QED
    BY <1>1, <1>3, <2>1, <2>2
<1> QED
  BY <1>1, <1>2, <1>3 DEF IsTaggedField

LEMMA ZigzagIs ==
  ASSUME NEW v \in Int
  PROVE  Zigzag(v) \in Nat
BY DEF Zigzag

LEMMA PayloadIs ==
  ASSUME NEW f, IsTaggedField(f)
  PROVE  Payload(f) \in Seq(Bytes)
<1>1. CASE f.t = "bool"
  BY <1>1, BoolByteIs DEF Payload
<1>2. CASE f.t \in {"sint32", "int64"}
  <2>1. f.v \in Int
    BY <1>2, NumericIs DEF IsTaggedField, Numeric
  <2>2. Zigzag(f.v) \in Nat
    BY <2>1, ZigzagIs
  <2>3. Payload(f) = Varint[Zigzag(f.v)]
    BY <1>2 DEF Payload
  <2> QED
    BY <2>2, <2>3, VarintIs
<1>3. CASE f.t \in {"uint32", "uint64"}
  <2> DEFINE m == f.v % Base^Width(f.t)
  <2>1. f.v \in Int
    BY <1>3, NumericIs DEF IsTaggedField, Numeric
  <2>2. Base^Width(f.t) \in {4096, 16777216}
    <3>1. Width(f.t) \in {4, 8}
      BY <1>3, NumericIs
    <3>2. Power(Width(f.t)) \in {4096, 16777216}
      BY <3>1, PowerIs
    <3> QED
      BY <3>2 DEF Power
  <2>3. m \in Nat
    BY <2>1, <2>2
  <2>4. Payload(f) = Varint[m]
    BY <1>3 DEF Payload
  <2> HIDE DEF m
  <2> QED
    BY <2>3, <2>4, VarintIs
<1>4. CASE f.t = "string"
  <2> DEFINE u == Utf8(f.v)
  <2>1. u \in Seq(Bytes)
    BY <1>4, ValuesAre, Utf8Is DEF IsTaggedField
  <2>2. Payload(f) = Varint[Len(u)] \o u
    BY <1>4 DEF Payload
  <2> HIDE DEF u
  <2>3. Varint[Len(u)] \in Seq(Bytes)
    BY <2>1, SeqIs, VarintIs
  <2> QED
    BY <2>1, <2>2, <2>3, CatIs
<1>5. CASE f.t = "bytes"
  <2> DEFINE u == f.v
  <2>1. u \in Seq(Bytes)
    BY <1>5, ValuesAre DEF IsTaggedField
  <2>2. Payload(f) = Varint[Len(u)] \o u
    BY <1>5 DEF Payload
  <2> HIDE DEF u
  <2>3. Varint[Len(u)] \in Seq(Bytes)
    BY <2>1, SeqIs, VarintIs
  <2> QED
    BY <2>1, <2>2, <2>3, CatIs
<1>6. CASE f.t \in {"int32", "float32", "float64"}
  <2>1. f.v \in ValuesOf(f.t) /\ f.t \in Numeric
    BY <1>6 DEF IsTaggedField, Numeric
  <2>2. Payload(f) = FixedBytes(f.t, f.v)
    BY <1>6 DEF Payload
  <2> QED
    BY <2>1, <2>2, FixedBytesIs
<1> QED
  BY <1>1, <1>2, <1>3, <1>4, <1>5, <1>6 DEF IsTaggedField, TaggedTypes, Numeric

\* A tag and a payload.
LEMMA TaggedIs ==
  ASSUME NEW f, IsTaggedField(f)
  PROVE  /\ Tagged("unsafe", f) = Varint[TagOf(f)] \o Payload(f)
         /\ \A d : d # "unsafe" => Tagged(d, f) = <<TagOf(f)>> \o Payload(f)
         /\ <<TagOf(f)>> \in Seq(Nat) /\ Varint[TagOf(f)] \in Seq(Bytes)
         /\ \A d : Tagged(d, f) \in Seq(Nat)
<1>1. /\ Tagged("unsafe", f) = Varint[TagOf(f)] \o Payload(f)
      /\ \A d : d # "unsafe" => Tagged(d, f) = <<TagOf(f)>> \o Payload(f)
  BY DEF Tagged, TagOf, Payload
<1>2. TagOf(f) \in Nat /\ Varint[TagOf(f)] \in Seq(Bytes)
  BY TagIs DEF IsTaggedField
<1> DEFINE a == <<TagOf(f)>>
           b == Varint[TagOf(f)]
           c == Payload(f)
<1>3. a \in Seq(Nat)
  BY <1>2
<1>4. b \in Seq(Nat) /\ c \in Seq(Nat)
  BY <1>2, PayloadIs, BytesAreNat
<1> HIDE DEF a, b, c
<1>5. a \o c \in Seq(Nat) /\ b \o c \in Seq(Nat)
  BY <1>3, <1>4, CatIs
<1>6. \A d : Tagged(d, f) \in Seq(Nat)
  BY <1>1, <1>5 DEF a, b, c
<1> QED
  BY <1>1, <1>2, <1>3, <1>6 DEF a

\* Numbers that are not lost for a sign bit.
SignFits(f) == f.t = "sint32" => Zigzag(f.v) < Base^SizeInt32 \div 2

LEMMA Zigzag32Is ==
  ASSUME NEW v \in Int
  PROVE  /\ ZigzagVarint32(v) \in Seq(Bytes)
         /\ Zigzag(v) < Base^SizeInt32 \div 2 => ZigzagVarint32(v) = Varint[Zigzag(v)]
<1> DEFINE z == Zigzag(v)
           half == Base^SizeInt32 \div 2
<1>1. z \in Nat
  BY ZigzagIs
<1>2. half \in Int
  <2>1. Base^SizeInt32 = 4096
    BY PowerIs, NumericIs DEF Power
  <2> QED
    BY <2>1
<1>3. ZigzagVarint32(v) = IF z >= half THEN <<z % Base>> ELSE Varint[z]
  BY DEF ZigzagVarint32
<1> HIDE DEF z, half
<1>4. CASE z >= half
  <2>1. z % Base \in Bytes
    BY <1>1, PowerIs
  <2>2. <<z % Base>> \in Seq(Bytes)
    BY <2>1
  <2>3. ~(z < half)
    BY <1>1, <1>2, <1>4
  <2> QED
    BY <1>3, <1>4, <2>2, <2>3 DEF z, half
<1>5. CASE ~(z >= half)
  <2>1. Varint[z] \in Seq(Bytes)
    BY <1>1, VarintIs
  <2> QED
    BY <1>3, <1>5, <2>1 DEF z
<1> QED
  BY <1>4, <1>5

\* Writing w where the length that is added is that of c.
LEMMA SlabStore ==
  ASSUME NEW e \in Encoders, NEW w \in Seq(Bytes), NEW c \in Seq(Bytes),
         e.pos + Len(c) <= Room(e) => w = c
  PROVE  Slab(e, [Store(e, e.pos, w) EXCEPT !.pos = @ + Len(c)], c, TRUE)
<1> DEFINE x == Store(e, e.pos, w)
           y == [x EXCEPT !.pos = @ + Len(c)]
           k == Len(c)
<1>1. e.pos \in Nat /\ k \in Nat
  BY EncoderIs, SeqIs
<1>2. /\ x \in Encoders /\ x.pos = e.pos /\ x.ok = e.ok
      /\ Room(x) = Room(e) /\ Len(x.heap) = Len(e.heap)
      /\ Kept(e.heap, x.heap, e.pos, FALSE)
      /\ e.pos + Len(w) <= Room(e) => Holds(x, e.pos, w)
  BY <1>1, StoreIs
<1> HIDE DEF x, k
<1>3. e.pos + k \in Nat /\ e.pos <= e.pos + k
  BY <1>1
<1>4. y = [x EXCEPT !.pos = e.pos + k]
  BY <1>2 DEF k
<1>5. /\ y \in Encoders /\ y.ok = x.ok /\ y.pos = e.pos + k /\ y.heap = x.heap
      /\ Cells(y) = Cells(x) /\ Room(y) = Room(x)
  BY <1>2, <1>3, <1>4, AtIs, ZenonT(30)
<1> HIDE DEF y
<1>6. e.pos + Len(c) <= Room(e) => y.pos = e.pos + Len(c) /\ Holds(y, e.pos, c)
  BY <1>2, <1>5 DEF Holds, k
<1>7. Slab(e, y, c, TRUE)
  BY <1>2, <1>3, <1>5, <1>6, SlabIntro
<1> QED
  BY <1>7 DEF x, y, k

\* The tags of each: one byte, and a varint.
LEMMA HyperTagIs ==
  ASSUME NEW e \in Encoders, NEW f, IsTaggedField(f)
  PROVE  Slab(e, HyperTag(e, f), <<TagOf(f)>>, f.n <= 1)
<1> DEFINE k == TagOf(f) % Base
<1>1. k \in Bytes /\ (f.n <= 1 => k = TagOf(f))
  BY TagIs DEF IsTaggedField
<1>2. HyperTag(e, f) = Put(e, <<k>>)
  BY DEF HyperTag, TagOf
<1> HIDE DEF k
<1>3. <<k>> \in Seq(Bytes)
  BY <1>1
<1>4. f.n <= 1 => <<k>> = <<TagOf(f)>>
  BY <1>1
<1> QED
  BY <1>2, <1>3, <1>4, SlabPut

LEMMA UnsafeTagIs ==
  ASSUME NEW e \in Encoders, NEW f, IsTaggedField(f)
  PROVE  Slab(e, UnsafeTag(e, f), Varint[TagOf(f)], TRUE)
<1>1. UnsafeTag(e, f) = Put(e, Varint[TagOf(f)])
  BY DEF UnsafeTag, TagOf
<1>2. Varint[TagOf(f)] \in Seq(Bytes)
  BY TagIs DEF IsTaggedField
<1> QED
  BY <1>1, <1>2, SlabPut

\* A length and what it is of, after x.
LEMMA DelimitedIs ==
  ASSUME NEW x \in Encoders, NEW u \in Seq(Bytes), NEW y,
         Slab(Put(x, Varint[Len(u)]), y, u, TRUE)
  PROVE  Slab(x, y, Varint[Len(u)] \o u, TRUE)
<1> DEFINE a == Varint[Len(u)]
           z == Put(x, a)
<1>1. a \in Seq(Bytes)
  BY SeqIs, VarintIs
<1> HIDE DEF a
<1>2. Slab(x, z, a, TRUE)
  BY <1>1, SlabPut
<1>3. a \in Seq(Nat) /\ u \in Seq(Nat)
  BY <1>1, BytesAreNat
<1>4. Slab(z, y, u, TRUE)
  BY DEF a
<1> HIDE DEF z
<1>5. Slab(x, y, a \o u, TRUE /\ TRUE)
  BY <1>2, <1>3, <1>4, SlabBoth
<1> DEFINE b == a \o u
<1> HIDE DEF b
<1>6. Slab(x, y, b, TRUE)
  BY <1>5, SlabLess DEF b
<1> QED
  BY <1>6 DEF a, b

\* What was written after the tag is the payload.
LEMMA SlabTagged ==
  ASSUME NEW e \in Encoders, NEW f, IsTaggedField(f), NEW x, NEW y, NEW a \in Seq(Nat),
         NEW first, NEW second, Slab(e, x, a, first), Slab(x, y, Payload(f), second)
  PROVE  Slab(e, y, a \o Payload(f), first /\ second)
<1>1. Payload(f) \in Seq(Nat)
  BY PayloadIs, BytesAreNat
<1> QED
  BY <1>1, SlabBoth

LEMMA HyperStringIs ==
  ASSUME NEW e \in Encoders, NEW f, IsTaggedField(f), f.t = "string"
  PROVE  Slab(HyperTag(e, f), HyperString(e, f), Payload(f), TRUE)
<1> DEFINE s == Utf8(f.v)
           tagged == HyperTag(e, f)
           x == HyperDelimited(e, f, Len(s))
           w == FittingUtf8(f.v, Room(x) - x.pos)
           y == [Store(x, x.pos, w) EXCEPT !.pos = @ + Len(s)]
<1>1. f.v \in Seq(Units)
  BY ValuesAre DEF IsTaggedField
<1>2. s \in Seq(Bytes) /\ Len(s) \in Nat
  BY <1>1, Utf8Is, SeqIs
<1>3. Payload(f) = Varint[Len(s)] \o s
  BY DEF Payload
<1>4. tagged \in Encoders
  BY HyperTagIs, SlabIs
<1>5. x = Put(tagged, Varint[Len(s)]) /\ x \in Encoders
  <2>1. x = Put(tagged, Varint[Len(s)])
    BY DEF HyperDelimited
  <2>2. Varint[Len(s)] \in Seq(Bytes)
    BY <1>2, VarintIs
  <2> QED
    BY <1>4, <2>1, <2>2, PutIs
<1>6. HyperString(e, f) = IF x.pos > Room(x) \/ Len(s) > Room(x) THEN Throw(x) ELSE y
  BY DEF HyperString
<1>7. w \in Seq(Bytes) /\ (x.pos + Len(s) <= Room(x) => w = s)
  <2>1. x.pos \in Nat /\ Room(x) \in Nat
    BY <1>5, EncoderIs
  <2> DEFINE n == Room(x) - x.pos
  <2>2. n \in Int
    BY <2>1
  <2>3. x.pos + Len(s) <= Room(x) => Len(s) <= n
    BY <1>2, <2>1
  <2> HIDE DEF n
  <2>4. FittingUtf8(f.v, n) \in Seq(Bytes) /\ (Len(s) <= n => FittingUtf8(f.v, n) = s)
    BY <1>1, <2>2, FittingIs
  <2> QED
    BY <2>3, <2>4 DEF n
<1> HIDE DEF s, x, w, tagged
<1>8. Slab(x, y, s, TRUE)
  BY <1>2, <1>5, <1>7, SlabStore
<1>9. Slab(x, Throw(x), s, TRUE)
  <2>1. Slab(x, x, s, FALSE)
    BY <1>5, SlabSame
  <2> QED
    BY <1>5, <2>1, SlabThrow
<1>10. Slab(x, HyperString(e, f), s, TRUE)
  <2> HIDE DEF y
  <2> QED
    BY <1>6, <1>8, <1>9
<1>11. Slab(tagged, HyperString(e, f), Varint[Len(s)] \o s, TRUE)
  BY <1>2, <1>4, <1>5, <1>10, DelimitedIs
<1> QED
  BY <1>3, <1>11 DEF tagged

LEMMA HyperPayloadIs ==
  ASSUME NEW e \in Encoders, NEW f, IsTaggedField(f), f.t \in TypesOf("hyper")
  PROVE  Slab(HyperTag(e, f), HyperField(e, f), Payload(f), SignFits(f))
<1> DEFINE x == HyperTag(e, f)
<1>1. x \in Encoders
  BY HyperTagIs, SlabIs
<1>2. CASE f.t = "bool"
  <2>1. HyperField(e, f) = Put(x, BoolByte(f.v)) /\ Payload(f) = BoolByte(f.v)
    BY <1>2 DEF HyperField, Payload
  <2> HIDE DEF x
  <2> QED
    BY <1>1, <2>1, BoolByteIs, SlabPut DEF x
<1>3. CASE f.t = "sint32"
  <2>1. HyperField(e, f) = Put(x, ZigzagVarint32(f.v)) /\ Payload(f) = Varint[Zigzag(f.v)]
    BY <1>3 DEF HyperField, Payload
  <2>2. f.v \in Int
    BY <1>3 DEF IsTaggedField
  <2>3. ZigzagVarint32(f.v) \in Seq(Bytes) /\ (SignFits(f) => ZigzagVarint32(f.v) = Varint[Zigzag(f.v)])
    BY <1>3, <2>2, Zigzag32Is DEF SignFits
  <2> HIDE DEF x
  <2>4. Slab(x, Put(x, ZigzagVarint32(f.v)), Varint[Zigzag(f.v)], SignFits(f))
    BY <1>1, <2>3, SlabPut
  <2> QED
    BY <2>1, <2>4 DEF x
<1>4. CASE f.t = "string"
  <2>1. HyperField(e, f) = HyperString(e, f)
    BY <1>4 DEF HyperField
  <2>2. Slab(x, HyperString(e, f), Payload(f), TRUE)
    BY <1>4, HyperStringIs
  <2> HIDE DEF x
  <2> QED
    BY <1>1, <2>1, <2>2, SlabLess DEF x
<1>5. CASE f.t = "bytes"
  <2> DEFINE u == f.v
             z == Put(x, Varint[Len(u)])
  <2>1. u \in Seq(Bytes)
    BY <1>5, ValuesAre DEF IsTaggedField
  <2>2. HyperField(e, f) = PutChecked(z, u) /\ Payload(f) = Varint[Len(u)] \o u
    BY <1>5 DEF HyperField, Payload, HyperDelimited
  <2> HIDE DEF u, x
  <2>3. z \in Encoders
    <3>1. Varint[Len(u)] \in Seq(Bytes)
      BY <2>1, SeqIs, VarintIs
    <3> QED
      BY <1>1, <3>1, PutIs
  <2>4. Slab(z, PutChecked(z, u), u, TRUE)
    <3> HIDE DEF z
    <3> QED
      BY <2>1, <2>3, SlabPut
  <2>5. Slab(x, PutChecked(z, u), Varint[Len(u)] \o u, TRUE)
    BY <1>1, <2>1, <2>4, DelimitedIs
  <2> HIDE DEF z
  <2>6. Slab(x, HyperField(e, f), Payload(f), TRUE)
    BY <2>2, <2>5
  <2> QED
    BY <1>1, <2>6, SlabLess DEF x
<1>6. CASE f.t \in {"int32", "float32", "float64"}
  <2> DEFINE b == FixedBytes(f.t, f.v)
  <2>1. f.v \in ValuesOf(f.t) /\ f.t \in Numeric
    BY <1>6 DEF IsTaggedField, Numeric
  <2>2. b \in Seq(Bytes) /\ Payload(f) = b
    BY <1>6, <2>1, FixedBytesIs DEF Payload
  <2>3. HyperField(e, f) = IF InRange(f.t, f.v) THEN PutChecked(x, b) ELSE Throw(x)
    BY <1>6 DEF HyperField
  <2> HIDE DEF b, x
  <2>4. Slab(x, PutChecked(x, b), b, SignFits(f))
    BY <1>1, <2>2, SlabPut
  <2>5. Slab(x, Throw(x), b, SignFits(f))
    <3>1. Slab(x, x, b, FALSE)
      BY <1>1, SlabSame
    <3> QED
      BY <1>1, <3>1, SlabThrow
  <2> QED
    BY <2>2, <2>3, <2>4, <2>5 DEF x
<1> QED
  BY <1>2, <1>3, <1>4, <1>5, <1>6 DEF TypesOf

\* A call of the hyper encoder writes the field, where the tag is a byte, the room
\* is there and the number is not too large.
LEMMA HyperFieldIs ==
  ASSUME NEW e \in Encoders, NEW f, IsTaggedField(f), f.t \in TypesOf("hyper")
  PROVE  Slab(e, HyperField(e, f), Tagged("hyper", f), f.n <= 1 /\ SignFits(f))
<1>1. Slab(e, HyperTag(e, f), <<TagOf(f)>>, f.n <= 1)
  BY HyperTagIs
<1>2. Slab(HyperTag(e, f), HyperField(e, f), Payload(f), SignFits(f))
  BY HyperPayloadIs
<1>3. Tagged("hyper", f) = <<TagOf(f)>> \o Payload(f) /\ <<TagOf(f)>> \in Seq(Nat)
  BY TaggedIs
<1> DEFINE a == <<TagOf(f)>>
<1> HIDE DEF a
<1>4. Slab(e, HyperField(e, f), a \o Payload(f), f.n <= 1 /\ SignFits(f))
  BY <1>1, <1>2, <1>3, SlabTagged DEF a
<1> QED
  BY <1>3, <1>4 DEF a

\* The four bytes of a length.
LEMMA CountBytesAre ==
  ASSUME NEW n \in Int
  PROVE  FixedBytes("uint32", n) \in Seq(Bytes) /\ Len(FixedBytes("uint32", n)) = 4
<1>1. "uint32" \in Numeric /\ n \in ValuesOf("uint32") /\ Width("uint32") = 4
  BY NumericIs DEF Numeric
<1> QED
  BY <1>1, FixedBytesIs

\* The fields of an item, and whether the encoder can put them there.
TaggedBytes(fields) == FlattenSeq([i \in DOMAIN fields |-> Tagged("batch", fields[i])])

ItemCarried(fields) == \A i \in 1..Len(fields) : fields[i].n <= 1 /\ SignFits(fields[i])

LEMMA TaggedBytesIs ==
  ASSUME NEW fields, IsObject("batch", fields)
  PROVE  LET ss == [i \in DOMAIN fields |-> Tagged("batch", fields[i])]
         IN  /\ ss \in Seq(Seq(Nat)) /\ Len(ss) = Len(fields)
             /\ \A i \in 1..Len(fields) : ss[i] = Tagged("batch", fields[i])
             /\ TaggedBytes(fields) \in Seq(Nat)
<1> DEFINE n == Len(fields)
           ss == [i \in DOMAIN fields |-> Tagged("batch", fields[i])]
<1>1. n \in Nat /\ DOMAIN fields = 1..n /\ \A i \in 1..n : IsField("batch", fields[i])
  BY DEF IsObject
<1>2. \A i \in 1..n : Tagged("batch", fields[i]) \in Seq(Nat)
  BY <1>1, TaggedFieldIs, TaggedIs
<1>3. ss \in [1..n -> Seq(Nat)] /\ \A i \in 1..n : ss[i] = Tagged("batch", fields[i])
  BY <1>1, <1>2
<1>4. TaggedBytes(fields) = FlattenSeq(ss)
  BY DEF TaggedBytes
<1> HIDE DEF n, ss
<1>5. ss \in Seq(Seq(Nat)) /\ Len(ss) = n
  BY <1>1, <1>3, ListIs
<1>6. FlattenSeq(ss) \in Seq(Nat)
  BY <1>5, FlattenIsSeq
<1> QED
  BY <1>3, <1>4, <1>5, <1>6 DEF n, ss

\* The fields of an item, one after another.
LEMMA ItemFieldsAre ==
  ASSUME NEW start \in Encoders, NEW fields, IsObject("batch", fields)
  PROVE  Slab(start, FoldLeft(LAMBDA x, f : IF x.ok THEN HyperField(x, f) ELSE x, start, fields),
              TaggedBytes(fields), ItemCarried(fields))
<1> DEFINE vs == fields
           n == Len(vs)
           carried == ItemCarried(fields)
           ss == [i \in DOMAIN vs |-> Tagged("batch", vs[i])]
           ItemStep(x, f) == IF x.ok THEN HyperField(x, f) ELSE x
           g == [p \in (1..n) \X Encoders |-> ItemStep(p[2], vs[p[1]])]
           Step(h) == [s \in SUBSET (DOMAIN vs) |->
                         IF s = {} THEN start ELSE ItemStep(h[s \ {Max(s)}], vs[Max(s)])]
           h == CHOOSE h : h = Step(h)
<1>1. n \in Nat /\ DOMAIN vs = 1..n /\ \A i \in 1..n : IsField("batch", vs[i])
  BY DEF IsObject
<1>2. start \in Encoders
  OBVIOUS
<1>3. FoldLeft(LAMBDA x, f : IF x.ok THEN HyperField(x, f) ELSE x, start, fields) = h[DOMAIN vs]
  BY DEF FoldLeft, MapThenFoldSet
<1>4. ASSUME NEW x \in Encoders, NEW i \in 1..n
      PROVE  /\ ItemStep(x, vs[i]) \in Encoders
             /\ Slab(x, ItemStep(x, vs[i]), Tagged("batch", vs[i]), carried)
  <2> DEFINE f == vs[i]
  <2>1. IsTaggedField(f) /\ f.t \in TypesOf("hyper") /\ (carried => f.n <= 1 /\ SignFits(f))
    <3>1. IsField("batch", f)
      BY <1>1
    <3>2. carried => f.n <= 1 /\ SignFits(f)
      BY DEF ItemCarried
    <3> HIDE DEF f, carried
    <3> QED
      BY <3>1, <3>2, TaggedFieldIs DEF TypesOf
  <2> HIDE DEF f, carried
  <2>2. Tagged("batch", f) = Tagged("hyper", f)
    BY DEF Tagged
  <2>3. Slab(x, ItemStep(x, f), Tagged("batch", f), carried)
    <3>1. CASE x.ok
      <4>1. Slab(x, HyperField(x, f), Tagged("hyper", f), f.n <= 1 /\ SignFits(f))
        BY <2>1, HyperFieldIs
      <4>2. Slab(x, HyperField(x, f), Tagged("hyper", f), carried)
        BY <2>1, <4>1, SlabLess
      <4> QED
        BY <2>2, <3>1, <4>2
    <3>2. CASE ~x.ok
      BY <3>2, SlabSame
    <3> QED
      BY <3>1, <3>2
  <2> HIDE DEF ItemStep
  <2> QED
    BY <2>3, SlabIs DEF f
<1> HIDE DEF ItemStep, n, vs, carried
<1>5. h = Step(h)
  <2>1. g \in [(1..n) \X Encoders -> Encoders]
    BY <1>4
  <2>2. PICK k : Folds(k, n, Encoders, start, g)
    <3> HIDE DEF g
    <3> QED
      BY <1>1, <1>2, <2>1, FoldsExist
  <2>3. ASSUME NEW s \in SUBSET (1..n)
        PROVE  k[s] = IF s = {} THEN start
                      ELSE ItemStep(k[s \ {Max(s)}], vs[Max(s)])
    BY <2>2 DEF Folds
  <2>4. k = [s \in SUBSET (1..n) |-> k[s]]
    BY <2>2 DEF Folds
  <2>5. k = Step(k)
    BY <1>1, <2>3, <2>4
  <2> HIDE DEF Step
  <2> QED
    BY <2>5
<1>6. h[{}] = start /\ \A i \in 1..n : h[1..i] = ItemStep(h[1..(i - 1)], vs[i])
  <2> HIDE DEF h
  <2>1. \A s \in SUBSET (1..n) :
          h[s] = IF s = {} THEN start
                 ELSE ItemStep(h[s \ {Max(s)}], vs[Max(s)])
    BY <1>1, <1>5
  <2>2. h[{}] = start
    BY <2>1
  <2>3. ASSUME NEW i \in 1..n
        PROVE  h[1..i] = ItemStep(h[1..(i - 1)], vs[i])
    <3>1. /\ 1..i \in SUBSET (1..n) /\ 1..i # {} /\ Max(1..i) = i
          /\ (1..i) \ {i} = 1..(i - 1)
      BY <1>1, UpToStep
    <3> QED
      BY <2>1, <3>1
  <2> QED
    BY <2>2, <2>3
<1>7. /\ ss \in Seq(Seq(Nat)) /\ Len(ss) = n /\ TaggedBytes(fields) = FlattenSeq(ss)
      /\ \A i \in 1..n : ss[i] = Tagged("batch", vs[i])
  BY TaggedBytesIs DEF TaggedBytes, n, vs
<1> HIDE DEF h, ss, g
<1>8. ASSUME NEW i \in 1..n, h[1..(i - 1)] \in Encoders
      PROVE  Slab(h[1..(i - 1)], h[1..i], ss[i], carried)
  BY <1>4, <1>6, <1>7, <1>8
<1>9. Slab(start, h[1..n], FlattenSeq(ss), carried)
  <2> DEFINE b == <<>>
  <2>1. b \in Seq(Nat) /\ Slab(start, h[{}], b, carried)
    BY <1>6, SlabNothing
  <2>2. b \o FlattenSeq(ss) = FlattenSeq(ss)
    <3>1. FlattenSeq(ss) \in Seq(Nat)
      BY <1>7, FlattenIsSeq
    <3> QED
      BY <3>1
  <2> HIDE DEF b
  <2>3. Slab(start, h[1..n], b \o FlattenSeq(ss), carried)
    BY <1>1, <1>7, <1>8, <2>1, SlabFold
  <2> QED
    BY <2>2, <2>3
<1> QED
  BY <1>1, <1>3, <1>7, <1>9 DEF carried

\* The bytes of an item: its length, written last, and its fields.
ItemBytes(fields) ==
  FixedBytes("uint32", Len(TaggedBytes(fields))) \o TaggedBytes(fields)

LEMMA ItemBytesAre ==
  ASSUME NEW fields, IsObject("batch", fields)
  PROVE  /\ TaggedBytes(fields) \in Seq(Nat) /\ ItemBytes(fields) \in Seq(Nat)
         /\ Len(ItemBytes(fields)) = 4 + Len(TaggedBytes(fields))
<1> DEFINE b == TaggedBytes(fields)
           c == FixedBytes("uint32", Len(b))
<1>1. b \in Seq(Nat)
  BY TaggedBytesIs
<1> HIDE DEF b
<1>2. c \in Seq(Bytes) /\ Len(c) = 4
  BY <1>1, SeqIs, CountBytesAre
<1>3. c \in Seq(Nat)
  BY <1>2, BytesAreNat
<1> HIDE DEF c
<1>4. c \o b \in Seq(Nat) /\ Len(c \o b) = Len(c) + Len(b)
  BY <1>1, <1>3, CatIs
<1> QED
  BY <1>1, <1>2, <1>4 DEF ItemBytes, b, c

LEMMA BatchItemIs ==
  ASSUME NEW e \in Encoders, NEW fields, IsObject("batch", fields)
  PROVE  Slab(e, BatchItem(e, fields), ItemBytes(fields), ItemCarried(fields))
<1> DEFINE start == [e EXCEPT !.pos = @ + SizeInt32]
           r == FoldLeft(LAMBDA x, f : IF x.ok THEN HyperField(x, f) ELSE x, start, fields)
           b == TaggedBytes(fields)
           n == r.pos - (e.pos + SizeInt32)
           count == FixedBytes("uint32", n)
           y == Store(r, e.pos, count)
           carried == ItemCarried(fields)
           p == e.pos + 4
<1>1. e.pos \in Nat /\ p \in Nat /\ SizeInt32 = 4 /\ e.heap \in Heaps
  BY EncoderIs, NumericIs
<1>2. /\ start \in Encoders /\ start.ok = e.ok /\ start.pos = p /\ start.heap = e.heap
      /\ Room(start) = Room(e)
  BY <1>1, AtIs
<1>3. Slab(start, r, b, carried)
  BY <1>2, ItemFieldsAre
<1>4. BatchItem(e, fields) = IF r.ok /\ p <= Room(r) THEN y ELSE Throw(r)
  BY <1>1 DEF BatchItem
<1> HIDE DEF start, r, b, carried
<1>5. /\ r \in Encoders /\ p <= r.pos /\ Room(r) = Room(e) /\ Len(r.heap) = Len(e.heap)
      /\ Kept(e.heap, r.heap, p, FALSE) /\ (r.ok => e.ok)
      /\ carried /\ p + Len(b) <= Room(e) /\ r.ok => r.pos = p + Len(b) /\ Holds(r, p, b)
  <2>1. /\ r \in Encoders /\ start.pos <= r.pos /\ Room(r) = Room(start)
        /\ Len(r.heap) = Len(start.heap)
        /\ Kept(start.heap, r.heap, start.pos, FALSE) /\ (r.ok => start.ok)
        /\ carried /\ start.pos + Len(b) <= Room(start) /\ r.ok =>
             r.pos = start.pos + Len(b) /\ Holds(r, start.pos, b)
    BY <1>2, <1>3, SlabIs
  <2> HIDE DEF p
  <2> QED
    BY <1>2, <2>1
<1>6. Kept(e.heap, r.heap, e.pos, FALSE) /\ e.pos <= r.pos /\ r.pos \in Nat /\ r.heap \in Heaps
  <2>1. r.pos \in Nat /\ r.heap \in Heaps
    BY <1>5, EncoderIs
  <2>2. p \in Int /\ e.pos \in Int /\ e.pos <= p /\ e.pos <= r.pos
    BY <1>1, <1>5, <2>1
  <2> HIDE DEF p
  <2> QED
    BY <1>5, <2>1, <2>2, KeptLess
<1>7. b \in Seq(Nat) /\ ItemBytes(fields) = FixedBytes("uint32", Len(b)) \o b
      /\ Len(ItemBytes(fields)) = 4 + Len(b) /\ Len(b) \in Nat
  BY ItemBytesAre, SeqIs DEF ItemBytes, b
<1>8. n \in Int
  BY <1>1, <1>6
<1>9. count \in Seq(Bytes) /\ Len(count) = 4
  <2> HIDE DEF n
  <2> QED
    BY <1>8, CountBytesAre
<1> HIDE DEF count
<1>10. /\ y \in Encoders /\ y.pos = r.pos /\ y.ok = r.ok
       /\ Room(y) = Room(r) /\ Len(y.heap) = Len(r.heap)
       /\ Kept(r.heap, y.heap, e.pos, FALSE)
       /\ e.pos + Len(count) <= Room(r) => Holds(y, e.pos, count)
       /\ \A i \in 1..Room(r) :
            Cells(y)[i] = IF i - e.pos \in 1..Len(count) THEN count[i - e.pos] ELSE Cells(r)[i]
  BY <1>1, <1>5, <1>9, StoreIs, ZenonT(30)
<1> HIDE DEF y
<1>11. Kept(e.heap, y.heap, e.pos, FALSE)
  <2>1. y.heap \in Heaps /\ FALSE \in BOOLEAN
    BY <1>10, EncoderIs
  <2> QED
    BY <1>1, <1>6, <1>10, <2>1, KeptTrans
<1>12. ASSUME carried, e.pos + Len(ItemBytes(fields)) <= Room(e), y.ok
       PROVE  /\ y.pos = e.pos + Len(ItemBytes(fields))
              /\ Holds(y, e.pos, ItemBytes(fields))
  <2>1. Room(e) \in Nat
    BY EncoderIs
  <2>2. p + Len(b) <= Room(e) /\ r.ok
    BY <1>1, <1>7, <1>10, <1>12, <2>1
  <2>3. r.pos = p + Len(b) /\ Holds(r, p, b)
    BY <1>5, <1>12, <2>2
  <2>4. n = Len(b)
    BY <1>1, <1>7, <2>3
  <2>5. y.pos = e.pos + Len(ItemBytes(fields))
    BY <1>1, <1>7, <1>10, <2>3
  <2>6. e.pos + Len(count) <= Room(r)
    BY <1>1, <1>5, <1>7, <1>9, <2>1, <2>2
  <2>7. Holds(y, e.pos, count)
    BY <1>10, <2>6
  <2>8. Holds(y, p, b)
    <3>1. p + Len(b) <= Room(y) /\ p + Len(b) <= Room(r)
      BY <1>5, <1>10, <2>2
    <3>2. ASSUME NEW i \in 1..Len(b)
          PROVE  Cells(y)[p + i] = b[i]
      <4> DEFINE j == p + i
      <4>1. Room(r) \in Nat
        BY <1>5, <2>1
      <4>2. j \in 1..Room(r) /\ ~(j - e.pos \in 1..4)
        <5> DEFINE k == Len(b)
                   l == Room(r)
                   q == e.pos
        <5>1. k \in Nat /\ l \in Nat /\ i \in 1..k /\ q \in Nat /\ q + 4 + k <= l
          BY <1>1, <1>7, <3>1, <4>1
        <5> HIDE DEF k, l, q
        <5>2. i \in Nat /\ 1 <= i /\ i <= k
          BY <5>1
        <5>3. q + 4 + i \in 1..l /\ (q + 4 + i) - q = 4 + i
          BY <5>1, <5>2
        <5>4. ~((q + 4 + i) - q \in 1..4)
          BY <5>2, <5>3
        <5> QED
          BY <5>3, <5>4 DEF l, q
      <4> HIDE DEF j
      <4>3. Cells(y)[j] = Cells(r)[j]
        BY <1>9, <1>10, <4>2
      <4>4. Cells(r)[p + i] = b[i]
        BY <2>3 DEF Holds
      <4> QED
        BY <4>3, <4>4 DEF j
    <3> HIDE DEF p
    <3> QED
      BY <3>1, <3>2 DEF Holds
  <2>9. Holds(y, e.pos, count \o b)
    <3>1. count \in Seq(Nat)
      BY <1>9, BytesAreNat
    <3>2. Holds(y, e.pos + Len(count), b)
      BY <1>9, <2>8
    <3> QED
      BY <1>1, <1>7, <1>10, <2>7, <3>1, <3>2, HoldsCat
  <2>10. count = FixedBytes("uint32", Len(b))
    <3> HIDE DEF n
    <3> QED
      BY <2>4 DEF count
  <2> QED
    BY <1>7, <2>5, <2>9, <2>10
<1>13. Slab(e, y, ItemBytes(fields), carried)
  <2>1. e.pos <= y.pos /\ Room(y) = Room(e) /\ Len(y.heap) = Len(e.heap) /\ (y.ok => e.ok)
    BY <1>5, <1>6, <1>10
  <2> QED
    BY <1>10, <1>11, <1>12, <2>1, SlabIntro
<1>14. Slab(e, Throw(r), ItemBytes(fields), carried)
  <2>1. Slab(e, r, ItemBytes(fields), FALSE)
    BY <1>5, <1>6, SlabIntro
  <2> QED
    BY <1>5, <2>1, SlabThrow
<1> QED
  BY <1>4, <1>13, <1>14 DEF carried

\* Numbers that unsafe.ts writes in its format.
UnsafeFits(f) == SignFits(f) /\ (f.t \in {"int64", "uint64"} => InRange(f.t, f.v))

\* A bigint out of range is written too, as bytes that are not its payload.
LEMMA BigintIs ==
  ASSUME NEW m \in Int
  PROVE  /\ Varint[Zigzag64(m)] \in Seq(Bytes)
         /\ BigVarint(m) \in Seq(Bytes)
         /\ InRange("int64", m) => Zigzag64(m) = Zigzag(m)
         /\ InRange("uint64", m) => BigVarint(m) = Varint[m % Base^Width("uint64")]
<1>1. Base^Width("uint64") = 16777216 /\ Base^Width("int64") = 16777216
  <2>1. Width("uint64") = 8 /\ Width("int64") = 8
    BY NumericIs
  <2>2. Power(8) = 16777216
    BY PowerIs
  <2> QED
    BY <2>1, <2>2 DEF Power
<1> DEFINE n == Base^Width("uint64")
           h == Base^Width("int64") \div 2
<1>2. m = 0 => InRange("int64", m)
  <2>1. InRange("int64", m) <=> m \in -h .. h - 1
    BY SMT DEF InRange
  <2>2. h \in Int /\ h > 0
    BY <1>1, SMT
  <2> HIDE DEF h
  <2> QED
    BY <2>1, <2>2, SMT
<1>3. InRange("uint64", m) => m >= 0 /\ m < n
  <2>1. InRange("uint64", m) <=> m \in 0 .. n - 1
    BY SMT DEF InRange
  <2>2. n \in Int
    BY <1>1, SMT
  <2> HIDE DEF n
  <2> QED
    BY <2>1, <2>2, SMT
<1>4. InRange("int64", m) => Zigzag64(m) = Zigzag(m)
  BY DEF Zigzag64
<1>5. Zigzag64(m) \in Nat
  <2>1. Zigzag(m) \in Nat /\ (m < 0 => Zigzag(m) = -2 * m - 1)
    BY DEF Zigzag
  <2>2. CASE InRange("int64", m)
    BY <1>4, <2>1, <2>2
  <2>3. CASE ~InRange("int64", m) /\ m > 0
    BY <2>1, <2>3 DEF Zigzag64
  <2>4. CASE ~InRange("int64", m) /\ ~(m > 0)
    <3>1. Zigzag64(m) = Zigzag(m) - 1
      BY <2>4 DEF Zigzag64
    <3>2. m < 0
      BY <1>2, <2>4
    <3> QED
      BY <2>1, <3>1, <3>2
  <2> QED
    BY <2>2, <2>3, <2>4
<1>6. m < 0 => <<m % Base>> \in Seq(Bytes)
  <2>1. m % 8 \in 0..7
    OBVIOUS
  <2> QED
    BY <2>1, PowerIs
<1>7. m >= 0 => Varint[m] \in Seq(Bytes)
  BY VarintIs
<1>8. BigVarint(m) \in Seq(Bytes)
  BY <1>6, <1>7 DEF BigVarint
<1>9. ASSUME InRange("uint64", m)
      PROVE  BigVarint(m) = Varint[m % Base^Width("uint64")]
  <2>1. n \in Int
    BY <1>1, SMT
  <2> HIDE DEF n
  <2>2. m >= 0 /\ m % n = m
    BY <1>3, <1>9, <2>1, SMT
  <2> QED
    BY <2>2 DEF BigVarint, n
<1> QED
  BY <1>4, <1>5, <1>8, <1>9, VarintIs

\* The payloads of unsafe.ts that leave the array as it is.
LEMMA UnsafePayloadIs ==
  ASSUME NEW e \in Encoders, NEW f, IsTaggedField(f), f.t \in TypesOf("unsafe"), f.t # "string"
  PROVE  Slab(UnsafeTag(e, f), UnsafeField(e, f), Payload(f), UnsafeFits(f))
<1> DEFINE x == UnsafeTag(e, f)
<1>1. x \in Encoders
  BY UnsafeTagIs, SlabIs
<1>2. Payload(f) \in Seq(Bytes)
  BY PayloadIs
<1>3. CASE f.t = "sint32"
  <2>1. UnsafeField(e, f) = Put(x, ZigzagVarint32(f.v)) /\ Payload(f) = Varint[Zigzag(f.v)]
    BY <1>3 DEF UnsafeField, Payload
  <2>2. f.v \in Int
    BY <1>3 DEF IsTaggedField
  <2>3. ZigzagVarint32(f.v) \in Seq(Bytes) /\ (UnsafeFits(f) => ZigzagVarint32(f.v) = Varint[Zigzag(f.v)])
    BY <1>3, <2>2, Zigzag32Is DEF UnsafeFits, SignFits
  <2> HIDE DEF x
  <2>4. Slab(x, Put(x, ZigzagVarint32(f.v)), Varint[Zigzag(f.v)], UnsafeFits(f))
    BY <1>1, <2>3, SlabPut
  <2> QED
    BY <2>1, <2>4 DEF x
<1>4. CASE f.t \in {"int64", "uint64"}
  <2> DEFINE s == IF f.t = "int64" THEN Varint[Zigzag64(f.v)] ELSE BigVarint(f.v)
  <2>1. UnsafeField(e, f) = Put(x, s)
    BY <1>4 DEF UnsafeField
  <2>2. f.v \in Int
    BY <1>4, NumericIs DEF IsTaggedField, Numeric
  <2>3. s \in Seq(Bytes)
    BY <2>2, BigintIs
  <2>4. UnsafeFits(f) => s = Payload(f)
    BY <1>4, <2>2, BigintIs DEF UnsafeFits, Payload
  <2> HIDE DEF s, x
  <2>5. Slab(x, Put(x, s), Payload(f), UnsafeFits(f))
    <3>1. Slab(x, Put(x, s), s, TRUE)
      BY <1>1, <2>3, SlabPut
    <3>2. CASE UnsafeFits(f)
      BY <2>4, <3>1, <3>2, SlabLess
    <3>3. CASE ~UnsafeFits(f)
      BY <3>1, <3>3 DEF Slab, Writes
    <3> QED
      BY <3>2, <3>3
  <2> QED
    BY <2>1, <2>5 DEF x
<1>6. CASE f.t \in {"bool", "uint32", "float32", "float64"}
  <2>1. UnsafeField(e, f) = Put(x, Payload(f)) \/ UnsafeField(e, f) = PutChecked(x, Payload(f))
    <3>1. CASE f.t = "bool"
      BY <3>1 DEF UnsafeField, Payload
    <3>2. CASE f.t = "uint32"
      BY <3>2, NumericIs DEF UnsafeField, Payload
    <3>3. CASE f.t = "float32"
      BY <3>3 DEF UnsafeField, Payload
    <3>4. CASE f.t = "float64"
      BY <3>4 DEF UnsafeField, Payload
    <3> QED
      BY <1>6, <3>1, <3>2, <3>3, <3>4
  <2> HIDE DEF x
  <2> QED
    BY <1>1, <1>2, <2>1, SlabPut DEF x
<1>5. CASE f.t = "bytes"
  <2> DEFINE u == f.v
             z == Put(x, Varint[Len(u)])
  <2>1. u \in Seq(Bytes)
    BY <1>5, ValuesAre DEF IsTaggedField
  <2>2. UnsafeField(e, f) = PutChecked(z, u) /\ Payload(f) = Varint[Len(u)] \o u
    BY <1>5 DEF UnsafeField, Payload
  <2> HIDE DEF u, x
  <2>3. z \in Encoders
    <3>1. Varint[Len(u)] \in Seq(Bytes)
      BY <2>1, SeqIs, VarintIs
    <3> QED
      BY <1>1, <3>1, PutIs
  <2>4. Slab(z, PutChecked(z, u), u, TRUE)
    <3> HIDE DEF z
    <3> QED
      BY <2>1, <2>3, SlabPut
  <2>5. Slab(x, PutChecked(z, u), Varint[Len(u)] \o u, TRUE)
    BY <1>1, <2>1, <2>4, DelimitedIs
  <2> HIDE DEF z
  <2>6. Slab(x, UnsafeField(e, f), Payload(f), TRUE)
    BY <2>2, <2>5
  <2> QED
    BY <1>1, <2>6, SlabLess DEF x
<1> QED
  BY <1>3, <1>4, <1>5, <1>6 DEF TypesOf, Numeric

\* Room for the tag before it is written, and for the rest where it is written.
TaggedFits(e, x, f, b) ==
  e.pos + Len(Varint[TagOf(f)]) <= Room(e) /\ e.pos + Len(b) <= Room(x)

\* Text: the array may grow between the tag and the length.
LEMMA UnsafeStringIs ==
  ASSUME NEW e \in Encoders, NEW f, IsTaggedField(f), f.t = "string"
  PROVE  LET b == Tagged("unsafe", f)
             r == UnsafeString(e, f)
         IN  Writes(e, r, b, TaggedFits(e, r, f, b), FALSE)
<1> DEFINE u == Utf8(f.v)
           tag == Varint[TagOf(f)]
           x == UnsafeTag(e, f)
           z == [x EXCEPT !.pos = @ + 1]
           needed == 3 * Len(f.v)
           y == EnsureCapacity(z, FALSE, needed)
           w == [y EXCEPT !.pos = x.pos]
           written == FittingUtf8(f.v, Room(y) - y.pos)
           c == Varint[Len(written)] \o written
           r == Put(w, c)
           p == Payload(f)
           b == Tagged("unsafe", f)
<1>1. f.v \in Seq(Units) /\ needed \in Nat
  BY ValuesAre, SeqIs DEF IsTaggedField
<1>2. u \in Seq(Bytes) /\ Len(u) \in Nat
  BY <1>1, Utf8Is, SeqIs
<1>3. p = Varint[Len(u)] \o u /\ p \in Seq(Bytes)
  BY PayloadIs DEF Payload
<1>4. b = tag \o p /\ tag \in Seq(Bytes)
  BY TaggedIs
<1>5. UnsafeString(e, f) = r
  BY DEF UnsafeString
<1> HIDE DEF u, tag, p, b, needed
<1>6. Slab(e, x, tag, TRUE)
  BY UnsafeTagIs DEF tag
<1> HIDE DEF x
<1>7. /\ x \in Encoders /\ e.pos <= x.pos /\ Room(x) = Room(e)
      /\ Kept(e.heap, x.heap, e.pos, FALSE) /\ (x.ok => e.ok)
      /\ e.pos + Len(tag) <= Room(e) /\ x.ok =>
           x.pos = e.pos + Len(tag) /\ Holds(x, e.pos, tag)
  BY <1>6, SlabIs
<1>8. x.pos \in Nat /\ x.heap \in Heaps /\ e.pos \in Nat /\ e.heap \in Heaps
      /\ x.pos + 1 \in Nat
  BY <1>7, EncoderIs
<1>9. /\ z \in Encoders /\ z.ok = x.ok /\ z.pos = x.pos + 1 /\ z.heap = x.heap
  <2>1. z = [x EXCEPT !.pos = x.pos + 1]
    OBVIOUS
  <2> HIDE DEF z
  <2> QED
    BY <1>7, <1>8, <2>1, AtIs
<1> HIDE DEF z
<1>10. /\ y \in Encoders /\ y.pos = x.pos + 1 /\ y.ok = x.ok
       /\ Kept(x.heap, y.heap, x.pos, FALSE)
  BY <1>1, <1>9, EnsureCapacityIs
<1> HIDE DEF y
<1>11. w \in Encoders /\ w.ok = x.ok /\ w.pos = x.pos /\ w.heap = y.heap /\ Room(w) = Room(y)
  BY <1>8, <1>10, AtIs
<1>12. written \in Seq(Bytes) /\ (y.pos + Len(u) <= Room(y) => written = u)
  <2>1. y.pos \in Nat /\ Room(y) \in Nat
    BY <1>10, EncoderIs
  <2> DEFINE n == Room(y) - y.pos
  <2>2. n \in Int
    BY <2>1
  <2>3. y.pos + Len(u) <= Room(y) => Len(u) <= n
    BY <1>2, <2>1
  <2> HIDE DEF n
  <2>4. FittingUtf8(f.v, n) \in Seq(Bytes) /\ (Len(u) <= n => FittingUtf8(f.v, n) = u)
    BY <1>1, <2>2, FittingIs DEF u
  <2> QED
    BY <2>3, <2>4 DEF n
<1> HIDE DEF w, written
<1>13. c \in Seq(Bytes) /\ Len(c) \in Nat
  <2>1. Varint[Len(written)] \in Seq(Bytes)
    BY <1>12, SeqIs, VarintIs
  <2> QED
    BY <1>12, <2>1, CatIs
<1>14. written = u => c = p
  BY <1>3
<1> HIDE DEF c
<1>15. /\ r \in Encoders /\ r.ok = w.ok
       /\ r.pos = (IF w.ok THEN w.pos + Len(c) ELSE w.pos)
       /\ Room(r) = Room(w) /\ Kept(w.heap, r.heap, w.pos, FALSE)
       /\ w.ok /\ w.pos + Len(c) <= Room(w) => Holds(r, w.pos, c)
  BY <1>11, <1>13, PutIs
<1> HIDE DEF r
<1>16. Kept(x.heap, r.heap, x.pos, FALSE)
  <2>1. y.heap \in Heaps /\ r.heap \in Heaps /\ FALSE \in BOOLEAN
    BY <1>10, <1>15, EncoderIs
  <2> QED
    BY <1>8, <1>10, <1>11, <1>15, <2>1, KeptTrans
<1>17. Kept(e.heap, r.heap, e.pos, FALSE)
  <2>1. r.heap \in Heaps /\ FALSE \in BOOLEAN /\ e.pos \in Int /\ x.pos \in Int
    BY <1>8, <1>15, EncoderIs
  <2>2. Kept(x.heap, r.heap, e.pos, FALSE)
    BY <1>7, <1>16, <2>1, KeptLess
  <2> QED
    BY <1>7, <1>8, <2>1, <2>2, KeptTrans
<1>18. Len(b) = Len(tag) + Len(p) /\ Len(tag) \in Nat /\ Len(p) \in Nat /\ Len(u) + 1 <= Len(p)
  <2>1. Len(b) = Len(tag) + Len(p) /\ Len(tag) \in Nat /\ Len(p) \in Nat
    BY <1>3, <1>4, CatIs
  <2> DEFINE d == Varint[Len(u)]
  <2>2. d \in Seq(Bytes) /\ Len(d) >= 1
    BY <1>2, VarintIs, VarintIsSome
  <2> HIDE DEF d
  <2>3. Len(d \o u) = Len(d) + Len(u) /\ Len(d) \in Nat
    BY <1>2, <2>2, CatIs
  <2>4. Len(u) + 1 <= Len(d) + Len(u)
    BY <1>2, <2>2, <2>3
  <2> QED
    BY <1>3, <2>1, <2>3, <2>4 DEF d
<1>19. ASSUME TaggedFits(e, r, f, b), r.ok
       PROVE  r.pos = e.pos + Len(b) /\ Holds(r, e.pos, b)
  <2>1. e.pos + Len(tag) <= Room(e) /\ e.pos + Len(b) <= Room(r) /\ x.ok /\ w.ok
    BY <1>11, <1>15, <1>19 DEF TaggedFits, tag
  <2>2. x.pos = e.pos + Len(tag) /\ Holds(x, e.pos, tag)
    BY <1>7, <2>1
  <2>3. Room(r) = Room(y) /\ Room(r) \in Nat
    BY <1>11, <1>15, EncoderIs
  <2>4. y.pos + Len(u) <= Room(y)
    <3> DEFINE k == Len(u)
               l == Len(p)
               m == Len(tag)
               n == Room(y)
               q == e.pos
               s == Len(b)
    <3>1. k \in Nat /\ l \in Nat /\ m \in Nat /\ n \in Nat /\ q \in Nat /\ s = m + l /\ k + 1 <= l
      BY <1>2, <1>8, <1>18, <2>3
    <3>2. q + s <= n /\ y.pos = (q + m) + 1
      BY <1>10, <2>1, <2>2, <2>3
    <3> HIDE DEF k, l, m, n, q, s
    <3>3. ((q + m) + 1) + k <= n
      BY <3>1, <3>2
    <3> QED
      BY <3>2, <3>3 DEF k, n
  <2>5. c = p
    BY <1>12, <1>14, <2>4
  <2>6. w.pos + Len(c) = e.pos + Len(b)
    BY <1>8, <1>11, <1>18, <2>2, <2>5
  <2>7. r.pos = e.pos + Len(b)
    BY <1>15, <2>1, <2>6
  <2>8. Holds(r, x.pos, p)
    BY <1>11, <1>15, <2>1, <2>3, <2>5, <2>6
  <2>9. tag \in Seq(Nat) /\ p \in Seq(Nat)
    BY <1>3, <1>4, BytesAreNat
  <2>10. Holds(r, e.pos, tag)
    <3>1. e.pos + Len(tag) <= x.pos
      BY <1>8, <2>2
    <3> QED
      BY <1>7, <1>8, <1>15, <1>16, <2>2, <2>9, <3>1, HoldsKept
  <2>11. Holds(r, e.pos, tag \o p)
    BY <1>8, <1>15, <2>2, <2>8, <2>9, <2>10, HoldsCat
  <2> QED
    BY <1>4, <2>7, <2>11
<1>20. e.pos <= r.pos
  <2>1. x.pos <= r.pos
    <3> DEFINE k == Len(c)
    <3>1. k \in Nat
      BY <1>13
    <3>2. r.pos = (IF w.ok THEN x.pos + k ELSE x.pos)
      BY <1>11, <1>15
    <3> HIDE DEF k
    <3> QED
      BY <1>8, <3>1, <3>2
  <2>2. r.pos \in Nat
    BY <1>15, EncoderIs
  <2> QED
    BY <1>7, <1>8, <2>1, <2>2
<1>21. Writes(e, r, b, TaggedFits(e, r, f, b), FALSE)
  BY <1>7, <1>11, <1>15, <1>17, <1>19, <1>20 DEF Writes
<1> QED
  BY <1>5, <1>21 DEF b

\* A call of the unsafe encoder, with room for what it writes.
LEMMA UnsafeFieldIs ==
  ASSUME NEW e \in Encoders, NEW f, IsTaggedField(f), f.t \in TypesOf("unsafe")
  PROVE  LET b == Tagged("unsafe", f)
             r == UnsafeField(e, f)
         IN  Writes(e, r, b, UnsafeFits(f) /\ TaggedFits(e, r, f, b), FALSE)
<1> DEFINE b == Tagged("unsafe", f)
           r == UnsafeField(e, f)
<1>1. CASE f.t = "string"
  <2>1. r = UnsafeString(e, f)
    BY <1>1 DEF UnsafeField
  <2>2. Writes(e, UnsafeString(e, f), b, TaggedFits(e, UnsafeString(e, f), f, b), FALSE)
    BY <1>1, UnsafeStringIs
  <2> HIDE DEF r, b
  <2>3. Writes(e, r, b, TaggedFits(e, r, f, b), FALSE)
    BY <2>1, <2>2
  <2> QED
    BY <2>3 DEF Writes, r, b
<1>2. CASE f.t # "string"
  <2> DEFINE tag == Varint[TagOf(f)]
  <2>1. Slab(e, UnsafeTag(e, f), tag, TRUE)
    BY UnsafeTagIs
  <2>2. Slab(UnsafeTag(e, f), r, Payload(f), UnsafeFits(f))
    BY <1>2, UnsafePayloadIs
  <2>3. b = tag \o Payload(f) /\ tag \in Seq(Nat)
    BY TaggedIs, BytesAreNat
  <2> HIDE DEF tag, r, b
  <2> DEFINE fits == UnsafeFits(f)
  <2> HIDE DEF fits
  <2>4. Slab(e, r, tag \o Payload(f), fits /\ fits)
    <3>1. Slab(e, UnsafeTag(e, f), tag, fits)
      BY <2>1, SlabLess
    <3>2. Slab(UnsafeTag(e, f), r, Payload(f), fits)
      BY <2>2 DEF fits
    <3> QED
      BY <2>3, <3>1, <3>2, SlabTagged
  <2>5. Slab(e, r, b, UnsafeFits(f))
    BY <2>3, <2>4, SlabLess DEF fits
  <2>6. Writes(e, r, b, UnsafeFits(f) /\ TaggedFits(e, r, f, b), FALSE)
    BY <2>5 DEF Slab, Writes, TaggedFits
  <2> QED
    BY <2>6 DEF r, b
<1> QED
  BY <1>1, <1>2
=============================================================================
