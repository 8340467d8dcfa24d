---------------------------- MODULE SequenceFacts ----------------------------
(* Facts about numbers, finite sets and sequences that several proofs rest *)
(* on.  The last part is what a loop over a list computes: a fold is a     *)
(* function of how many elements were taken.                               *)
EXTENDS Integers, FiniteSets, SequencesExt,
        FiniteSetTheorems, SequenceTheorems, WellFoundedInduction, TLAPS

(* Every non-empty set of numbers has a least one.                         *)
LEMMA LeastExists ==
  ASSUME NEW S, S \subseteq Nat, S # {}
  PROVE  \E m \in S : \A k \in S : m <= k
  <1>1. PICK m \in S : \A k \in S : ~ (<<k, m>> \in OpToRel(<, Nat))
    BY WFMin, NatLessThanWellFounded, Zenon
  <1>2. \A k \in S : ~ (k < m)
    BY <1>1 DEF OpToRel
  <1> QED
    BY <1>2

(* Induction up to a bound, with a set in place of a predicate.            *)
LEMMA CountingUp ==
  ASSUME NEW N \in Nat, NEW S, 0 \in S,
         \A n \in 0 .. N - 1 : n \in S => n + 1 \in S
  PROVE  0..N \subseteq S
  <1> SUFFICES ASSUME ~ (0..N \subseteq S) PROVE FALSE
    OBVIOUS
  <1> DEFINE Out == {n \in 0..N : n \notin S}
  <1>1. PICK m \in Out : \A k \in Out : m <= k
    <2>1. Out \subseteq Nat /\ Out # {}
      OBVIOUS
    <2> HIDE DEF Out
    <2> QED
      BY <2>1, LeastExists
  <1>2. m # 0 /\ m \in Nat /\ m - 1 \in 0 .. N - 1
    BY <1>1
  <1>3. m - 1 \in S
    BY <1>1, <1>2
  <1>4. (m - 1) + 1 = m
    BY <1>2
  <1> QED
    BY <1>1, <1>2, <1>3, <1>4

(* A finite set of integers that is not empty has a least and a greatest   *)
(* element, which Min and Max choose.                                      *)
LEMMA ExtremesExist ==
  ASSUME NEW S, S \subseteq Int, S # {}, IsFiniteSet(S)
  PROVE  /\ \E m \in S : \A k \in S : m <= k
         /\ \E m \in S : \A k \in S : k <= m
  <1>1. PICK n \in Nat : ExistsBijection(1..n, S)
    BY FS_NatBijection
  <1>2. PICK f \in [1..n -> S] : \A x \in S : \E i \in 1..n : f[i] = x
    BY <1>1 DEF ExistsBijection, Bijection, Surjection
  <1>3. n # 0
    <2>1. 1..0 = {}
      OBVIOUS
    <2> QED
      BY <1>2, <2>1
  <1> DEFINE Low(i) == \E m \in S : \A k \in 1..i : m <= f[k]
             High(i) == \E m \in S : \A k \in 1..i : f[k] <= m
             R == {i \in 0..n : Low(i) /\ High(i)}
  <1>4. 0 \in R
    <2>1. 1..0 = {} /\ 0 \in 0..n
      OBVIOUS
    <2>2. Low(0) /\ High(0)
      BY <2>1
    <2> QED
      BY <2>1, <2>2
  <1>5. ASSUME NEW i \in 0 .. n - 1, i \in R PROVE i + 1 \in R
    <2>1. PICK l \in S : \A k \in 1..i : l <= f[k]
      BY <1>5
    <2>2. PICK h \in S : \A k \in 1..i : f[k] <= h
      BY <1>5
    <2>3. /\ f[i + 1] \in S /\ i + 1 \in 0..n /\ l \in Int /\ h \in Int /\ f[i + 1] \in Int
          /\ \A k \in 1 .. i + 1 : k \in 1..i \/ k = i + 1
          /\ \A k \in 1 .. i + 1 : f[k] \in Int
      <3>1. i \in Nat /\ i + 1 \in 1..n /\ \A k \in 1 .. i + 1 : k \in 1..n
        OBVIOUS
      <3>2. \A k \in 1..n : f[k] \in S /\ f[k] \in Int
        BY <1>2
      <3> QED
        BY <3>1, <3>2
    <2>4. Low(i + 1)
      <3>1. CASE l <= f[i + 1]
        BY <2>1, <2>3, <3>1
      <3>2. CASE f[i + 1] < l
        <4>1. \A k \in 1 .. i + 1 : f[i + 1] <= f[k]
          BY <2>1, <2>3, <3>2
        <4> QED
          BY <2>3, <4>1
      <3> QED
        BY <2>1, <2>3, <3>1, <3>2
    <2>5. High(i + 1)
      <3>1. CASE f[i + 1] <= h
        BY <2>2, <2>3, <3>1
      <3>2. CASE h < f[i + 1]
        <4>1. \A k \in 1 .. i + 1 : f[k] <= f[i + 1]
          BY <2>2, <2>3, <3>2
        <4> QED
          BY <2>3, <4>1
      <3> QED
        BY <2>2, <2>3, <3>1, <3>2
    <2> QED
      BY <2>3, <2>4, <2>5
  <1> HIDE DEF R
  <1>6. n \in R
    <2>1. 0..n \subseteq R
      BY <1>4, <1>5, CountingUp
    <2> QED
      BY <2>1
  <1>7. Low(n) /\ High(n)
    BY <1>6 DEF R
  <1> QED
    BY <1>2, <1>7

LEMMA TwoExtremes ==
  ASSUME NEW a \in Int, NEW b \in Int
  PROVE  /\ Min({a, b}) = IF a <= b THEN a ELSE b
         /\ Max({a, b}) = IF a >= b THEN a ELSE b
  BY DEF Min, Max

(* The values of a function on 1..N are finitely many.                     *)
LEMMA FiniteValues ==
  ASSUME NEW N \in Nat, NEW f, DOMAIN f = 1..N, f = [i \in 1..N |-> f[i]]
  PROVE  IsFiniteSet({f[i] : i \in 1..N})
  <1> DEFINE S == {f[i] : i \in 1..N}
  <1>1. f \in [1..N -> S]
    OBVIOUS
  <1>2. f \in Surjection(1..N, S)
    BY <1>1 DEF Surjection
  <1>3. IsFiniteSet(1..N)
    BY FS_Interval
  <1> HIDE DEF S
  <1>4. IsFiniteSet(S)
    BY <1>2, <1>3, FS_Surjection
  <1> QED
    BY <1>4 DEF S

LEMMA ExtremesOf ==
  ASSUME NEW S, S \subseteq Int, S # {}, IsFiniteSet(S)
  PROVE  /\ Min(S) \in S /\ \A x \in S : Min(S) <= x
         /\ Max(S) \in S /\ \A x \in S : x <= Max(S)
  <1>1. PICK m \in S : \A k \in S : m <= k
    BY ExtremesExist
  <1>2. PICK h \in S : \A k \in S : k <= h
    BY ExtremesExist
  <1>3. Min(S) \in S /\ \A x \in S : Min(S) <= x
    BY <1>1 DEF Min
  <1>4. \E x \in S : \A y \in S : x >= y
    <2>1. \A k \in S : h >= k
      BY <1>2
    <2> QED
      BY <2>1
  <1>5. Max(S) \in S /\ \A y \in S : Max(S) >= y
    BY <1>4 DEF Max
  <1>6. \A x \in S : x <= Max(S)
    BY <1>5
  <1> QED
    BY <1>3, <1>5, <1>6

(* A total order by what lies below each element: the numbers of elements  *)
(* below are 0, 1, ..., each once.                                         *)
LEMMA Ranks ==
  ASSUME NEW D, IsFiniteSet(D), NEW below \in [D -> SUBSET D],
         \A i \in D : i \notin below[i],
         \A i, j \in D : i = j \/ i \in below[j] \/ j \in below[i],
         \A i, j \in D : j \in below[i] => below[j] \subseteq below[i]
  PROVE  /\ Cardinality(D) \in Nat
         /\ \A i \in D : Cardinality(below[i]) \in 0 .. Cardinality(D) - 1
         /\ \A i, j \in D : j \in below[i] => Cardinality(below[j]) < Cardinality(below[i])
         /\ \A k \in 1..Cardinality(D) : \E i \in D : Cardinality(below[i]) = k - 1
  <1> DEFINE N == Cardinality(D)
             rank == [i \in D |-> Cardinality(below[i])]
  <1>1. N \in Nat
    BY FS_CardinalityType
  <1>2. ASSUME NEW i \in D
        PROVE  IsFiniteSet(below[i]) /\ rank[i] \in 0 .. N - 1
    <2>1. below[i] \in SUBSET D /\ below[i] # D
      BY <1>2
    <2>2. IsFiniteSet(below[i]) /\ Cardinality(below[i]) <= N /\ Cardinality(below[i]) # N
      BY <2>1, FS_Subset
    <2>3. Cardinality(below[i]) \in Nat
      BY <2>2, FS_CardinalityType
    <2> QED
      BY <1>1, <2>2, <2>3
  <1>3. ASSUME NEW i \in D, NEW j \in D, j \in below[i]
        PROVE  rank[j] < rank[i]
    <2>1. below[j] \in SUBSET below[i] /\ below[j] # below[i]
      BY <1>3
    <2>2. Cardinality(below[j]) <= Cardinality(below[i])
          /\ Cardinality(below[j]) # Cardinality(below[i])
      BY <1>2, <2>1, FS_Subset
    <2>3. rank[i] \in 0 .. N - 1 /\ rank[j] \in 0 .. N - 1
      BY <1>2
    <2> QED
      BY <2>2, <2>3
  <1>4. rank \in Surjection(D, 0 .. N - 1)
    <2>1. rank \in [D -> 0 .. N - 1]
      BY <1>2
    <2>2. \A i, j \in D : rank[i] = rank[j] => i = j
      <3> SUFFICES ASSUME NEW i \in D, NEW j \in D, i # j PROVE rank[i] # rank[j]
        OBVIOUS
      <3>1. rank[i] < rank[j] \/ rank[j] < rank[i]
        BY <1>3
      <3>2. rank[i] \in 0 .. N - 1 /\ rank[j] \in 0 .. N - 1
        BY <1>2
      <3> HIDE DEF rank, N
      <3> QED
        BY <3>1, <3>2
    <2>3. rank \in Injection(D, 0 .. N - 1)
      BY <2>1, <2>2 DEF Injection, IsInjective
    <2>4. IsFiniteSet(0 .. N - 1) /\ Cardinality(0 .. N - 1) = N
      BY <1>1, FS_Interval, SMTT(30)
    <2> HIDE DEF rank
    <2> QED
      BY <2>3, <2>4, FS_Injection
  <1>5. ASSUME NEW k \in 1..N PROVE \E i \in D : rank[i] = k - 1
    <2>1. k - 1 \in 0 .. N - 1
      BY <1>1
    <2> HIDE DEF rank
    <2> QED
      BY <1>4, <2>1 DEF Surjection
  <1> QED
    BY <1>1, <1>2, <1>3, <1>5

(* A loop: step[n] takes the result of n - 1 rounds to that of n rounds.   *)
Rounds(V, N, first, step, f) ==
    /\ f \in [0..N -> V]
    /\ f[0] = first
    /\ \A n \in 1..N : f[n] = step[n][f[n - 1]]

LEMMA RoundsDefined ==
  ASSUME NEW V, NEW N \in Nat, NEW first \in V, NEW step \in [1..N -> [V -> V]]
  PROVE  \E f : Rounds(V, N, first, step, f)
  <1> DEFINE Good(n, f) == /\ f \in [0..n -> V] /\ f[0] = first
                           /\ \A i \in 1..n : f[i] = step[i][f[i - 1]]
             S == {n \in 0..N : \E f : Good(n, f)}
  <1>1. 0 \in S
    <2> DEFINE g == [i \in 0..0 |-> first]
    <2>1. g \in [0..0 -> V] /\ g[0] = first /\ 1..0 = {}
      OBVIOUS
    <2>2. Good(0, g)
      BY <2>1
    <2> HIDE DEF Good, g
    <2> QED
      BY <2>2
  <1>2. ASSUME NEW n \in 0 .. N - 1, n \in S PROVE n + 1 \in S
    <2>1. PICK f : Good(n, f)
      BY <1>2
    <2> DEFINE g == [i \in 0 .. n + 1 |-> IF i <= n THEN f[i] ELSE step[n + 1][f[n]]]
    <2>2. n \in Nat /\ n + 1 \in 1..N /\ f[n] \in V
      BY <2>1
    <2>3. step[n + 1][f[n]] \in V
      BY <2>2
    <2>4. g \in [0 .. n + 1 -> V] /\ g[0] = first
      BY <2>1, <2>2, <2>3
    <2>5. ASSUME NEW i \in 1 .. n + 1 PROVE g[i] = step[i][g[i - 1]]
      BY <2>1, <2>2, <2>5
    <2>6. Good(n + 1, g)
      BY <2>4, <2>5
    <2>7. n + 1 \in 0..N
      BY <2>2
    <2> HIDE DEF Good
    <2> QED
      BY <2>6, <2>7
  <1> HIDE DEF S
  <1>3. N \in S
    <2>1. 0..N \subseteq S
      BY <1>1, <1>2, CountingUp
    <2> QED
      BY <2>1
  <1>4. PICK f : Good(N, f)
    BY <1>3 DEF S
  <1> QED
    BY <1>4 DEF Rounds

(* FlattenSeq is such a loop over the sequences it joins.                  *)
LEMMA FlattenByRounds ==
  ASSUME NEW T, NEW seqs \in Seq(Seq(T))
  PROVE  \E f \in [0..Len(seqs) -> Seq(T)] :
            /\ f[0] = <<>>
            /\ \A n \in 1..Len(seqs) : f[n] = f[n - 1] \o seqs[n]
            /\ FlattenSeq(seqs) = f[Len(seqs)]
  <1> DEFINE N == Len(seqs)
             step == [n \in 1..N |-> [v \in Seq(T) |-> v \o seqs[n]]]
  <1>1. N \in Nat /\ \A n \in 1..N : seqs[n] \in Seq(T)
    OBVIOUS
  <1>2. step \in [1..N -> [Seq(T) -> Seq(T)]]
    <2>1. \A n \in 1..N : [v \in Seq(T) |-> v \o seqs[n]] \in [Seq(T) -> Seq(T)]
      BY <1>1
    <2> QED
      BY <2>1
  <1>3. PICK f \in [0..N -> Seq(T)] : f[0] = <<>> /\ \A n \in 1..N : f[n] = step[n][f[n - 1]]
    <2> DEFINE V == Seq(T)
               none == <<>>
    <2>1. none \in V /\ step \in [1..N -> [V -> V]] /\ N \in Nat
      BY <1>1, <1>2
    <2>2. PICK f : Rounds(V, N, none, step, f)
      <3> HIDE DEF step, N, V, none
      <3> QED
        BY <2>1, RoundsDefined, Zenon
    <2> QED
      BY <2>2 DEF Rounds
  <1>4. \A n \in 1..N : f[n - 1] \in Seq(T) /\ f[n] = f[n - 1] \o seqs[n]
    <2> TAKE n \in 1..N
    <2>1. n - 1 \in 0..N
      BY <1>1
    <2> QED
      BY <1>3, <2>1
  <1>5. CASE N = 0
    <2>1. seqs = <<>> /\ FlattenSeq(seqs) = seqs
      BY <1>5 DEF FlattenSeq
    <2> QED
      BY <1>3, <1>4, <1>5, <2>1
  <1>6. CASE N # 0
    <2> DEFINE Is(h) == h = [n \in 1..N |-> IF n = 1 THEN seqs[n] ELSE h[n - 1] \o seqs[n]]
               g == [n \in 1..N |-> f[n]]
    <2>1. FlattenSeq(seqs) = (CHOOSE h : Is(h))[N]
      BY <1>6 DEF FlattenSeq
    <2>2. Is(g)
      <3>1. \A n \in 1..N : f[n] = IF n = 1 THEN seqs[n] ELSE g[n - 1] \o seqs[n]
        <4> TAKE n \in 1..N
        <4>1. CASE n = 1
          <5>1. 1 \in 1..N /\ 1 - 1 = 0
            BY <4>1
          <5>2. f[1] = f[1 - 1] \o seqs[1]
            BY <1>4, <5>1
          <5>3. f[1] = <<>> \o seqs[1]
            BY <1>3, <5>1, <5>2
          <5> QED
            BY <1>1, <4>1, <5>1, <5>3
        <4>2. CASE n # 1
          <5>1. n - 1 \in 1..N
            BY <1>1, <4>2
          <5> QED
            BY <1>4, <4>2, <5>1
        <4> QED
          BY <4>1, <4>2
      <3> QED
        BY <3>1
    <2> DEFINE c == CHOOSE h : Is(h)
    <2>3. Is(c)
      <3> HIDE DEF Is
      <3> QED
        BY <2>2
    <2> HIDE DEF c
    <2> DEFINE R == {n \in 0..N : n > 0 => c[n] = f[n]}
    <2>4. 0 \in R
      BY <1>1
    <2>5. ASSUME NEW n \in 0 .. N - 1, n \in R PROVE n + 1 \in R
      <3>1. n + 1 \in 1..N /\ n \in Nat /\ (n + 1) - 1 = n
        BY <1>1
      <3>2. c[n + 1] = IF n + 1 = 1 THEN seqs[n + 1] ELSE c[n] \o seqs[n + 1]
        BY <2>3, <3>1
      <3>3. CASE n = 0
        <4>0. 1 \in 1..N /\ 1 - 1 = 0
          BY <3>1, <3>3
        <4>1. c[1] = seqs[1] /\ f[1] = f[1 - 1] \o seqs[1]
          <5>1. n + 1 = 1
            BY <3>3
          <5>2. c[1] = seqs[1]
            BY <3>2, <5>1, Zenon
          <5> QED
            BY <1>4, <4>0, <5>2
        <4>2. f[1] = <<>> \o seqs[1] /\ seqs[1] \in Seq(T)
          BY <1>1, <1>3, <4>0, <4>1
        <4>3. n + 1 = 1
          BY <3>3
        <4>4. c[n + 1] = f[n + 1]
          BY <4>1, <4>2, <4>3
        <4> QED
          BY <3>1, <4>4
      <3>4. CASE n # 0
        <4>0. n > 0 /\ n + 1 # 1
          BY <3>1, <3>4
        <4>1. c[n] = f[n] /\ c[n + 1] = c[n] \o seqs[n + 1]
          BY <2>5, <3>2, <4>0, Zenon
        <4>2. f[n + 1] = f[(n + 1) - 1] \o seqs[n + 1]
          BY <1>4, <3>1
        <4>3. f[n + 1] = f[n] \o seqs[n + 1]
          BY <3>1, <4>2, Zenon
        <4>4. c[n + 1] = f[n + 1]
          BY <4>1, <4>3, Zenon
        <4> QED
          BY <3>1, <4>4
      <3> QED
        BY <3>3, <3>4
    <2>6. N \in R
      <3> HIDE DEF R
      <3>1. 0..N \subseteq R
        BY <1>1, <2>4, <2>5, CountingUp
      <3> QED
        BY <1>1, <3>1
    <2>7. FlattenSeq(seqs) = f[N]
      BY <1>1, <1>6, <2>1, <2>6 DEF c
    <2> QED
      BY <1>3, <1>4, <2>7
  <1> QED
    BY <1>5, <1>6

LEMMA FlattenType ==
  ASSUME NEW T, NEW seqs \in Seq(Seq(T))
  PROVE  FlattenSeq(seqs) \in Seq(T)
  <1>1. PICK f \in [0..Len(seqs) -> Seq(T)] : FlattenSeq(seqs) = f[Len(seqs)]
    BY FlattenByRounds
  <1>2. Len(seqs) \in 0..Len(seqs)
    OBVIOUS
  <1> QED
    BY <1>1, <1>2

LEMMA FlattenAppend ==
  ASSUME NEW T, NEW seqs \in Seq(Seq(T)), NEW s \in Seq(T)
  PROVE  FlattenSeq(Append(seqs, s)) = FlattenSeq(seqs) \o s
  <1> DEFINE more == Append(seqs, s)
             N == Len(seqs)
  <1>1. /\ N \in Nat /\ more \in Seq(Seq(T)) /\ Len(more) = N + 1
        /\ more[N + 1] = s /\ \A n \in 1..N : more[n] = seqs[n]
    OBVIOUS
  <1>2. PICK f \in [0..N -> Seq(T)] :
                /\ f[0] = <<>> /\ \A n \in 1..N : f[n] = f[n - 1] \o seqs[n]
                /\ FlattenSeq(seqs) = f[N]
    BY FlattenByRounds
  <1> HIDE DEF more
  <1>3. PICK g \in [0 .. N + 1 -> Seq(T)] :
                /\ g[0] = <<>> /\ \A n \in 1 .. N + 1 : g[n] = g[n - 1] \o more[n]
                /\ FlattenSeq(more) = g[N + 1]
    <2>1. \E g \in [0..Len(more) -> Seq(T)] :
                /\ g[0] = <<>> /\ \A n \in 1..Len(more) : g[n] = g[n - 1] \o more[n]
                /\ FlattenSeq(more) = g[Len(more)]
      BY <1>1, FlattenByRounds
    <2> QED
      BY <1>1, <2>1
  <1> DEFINE R == {n \in 0..N : f[n] = g[n]}
  <1> HIDE DEF N
  <1>4. 0 \in R
    BY <1>1, <1>2, <1>3
  <1>5. ASSUME NEW n \in 0 .. N - 1, n \in R PROVE n + 1 \in R
    <2>1. n + 1 \in 1..N /\ n + 1 \in 1 .. N + 1 /\ (n + 1) - 1 = n
      BY <1>1
    <2>2. f[n + 1] = f[(n + 1) - 1] \o seqs[n + 1] /\ g[n + 1] = g[(n + 1) - 1] \o more[n + 1]
      BY <1>2, <1>3, <2>1
    <2>3. f[n + 1] = g[n + 1]
      BY <1>1, <1>5, <2>1, <2>2
    <2> QED
      BY <2>1, <2>3
  <1>6. f[N] = g[N]
    <2> HIDE DEF R
    <2>1. 0..N \subseteq R
      BY <1>1, <1>4, <1>5, CountingUp
    <2>2. N \in R
      BY <1>1, <2>1
    <2> QED
      BY <2>2 DEF R
  <1>7. g[N + 1] = g[N] \o more[N + 1]
    <2>1. N + 1 \in 1 .. N + 1 /\ (N + 1) - 1 = N
      BY <1>1
    <2>2. g[N + 1] = g[(N + 1) - 1] \o more[N + 1]
      BY <1>3, <2>1
    <2> QED
      BY <2>1, <2>2
  <1> QED
    BY <1>1, <1>2, <1>3, <1>6, <1>7 DEF more

----------------------------------------------------------------------------
(* What a sequence holds, and that it holds it once.                       *)
LEMMA ElementsOf ==
  ASSUME NEW T, NEW s \in Seq(T)
  PROVE  ToSet(s) = {s[i] : i \in 1..Len(s)} /\ ToSet(s) \subseteq T
  BY DEF ToSet

LEMMA ElementsOfConcat ==
  ASSUME NEW T, NEW s \in Seq(T), NEW t \in Seq(T)
  PROVE  ToSet(s \o t) = ToSet(s) \cup ToSet(t)
  <1> DEFINE st == s \o t
  <1>1. /\ st \in Seq(T) /\ Len(st) = Len(s) + Len(t) /\ Len(s) \in Nat /\ Len(t) \in Nat
        /\ \A i \in 1..Len(s) : st[i] = s[i]
        /\ \A i \in 1..Len(t) : st[Len(s) + i] = t[i]
    BY ConcatProperties
  <1>2. /\ ToSet(st) = {st[i] : i \in 1..Len(st)}
        /\ ToSet(s) = {s[i] : i \in 1..Len(s)} /\ ToSet(t) = {t[i] : i \in 1..Len(t)}
    BY <1>1, ElementsOf
  <1> HIDE DEF st
  <1>3. ASSUME NEW x \in ToSet(st) PROVE x \in ToSet(s) \cup ToSet(t)
    <2>1. PICK i \in 1..Len(st) : x = st[i]
      BY <1>2
    <2>2. i <= Len(s) \/ (i - Len(s) \in 1..Len(t) /\ i = Len(s) + (i - Len(s)))
      BY <1>1
    <2>3. CASE i <= Len(s)
      <3>1. i \in 1..Len(s)
        BY <1>1, <2>3
      <3> QED
        BY <1>1, <1>2, <2>1, <3>1
    <2>4. CASE ~ (i <= Len(s))
      <3>1. i - Len(s) \in 1..Len(t) /\ x = st[Len(s) + (i - Len(s))]
        BY <2>1, <2>2, <2>4
      <3>2. x = t[i - Len(s)]
        BY <1>1, <3>1
      <3> QED
        BY <1>2, <3>1, <3>2
    <2> QED
      BY <2>3, <2>4
  <1>4. ToSet(s) \cup ToSet(t) \subseteq ToSet(st)
    <2>1. \A i \in 1..Len(s) : i \in 1..Len(st)
      BY <1>1
    <2>2. \A i \in 1..Len(t) : Len(s) + i \in 1..Len(st)
      BY <1>1
    <2> QED
      BY <1>1, <1>2, <2>1, <2>2
  <1> QED
    BY <1>3, <1>4 DEF st

LEMMA ConcatInjective ==
  ASSUME NEW T, NEW s \in Seq(T), NEW t \in Seq(T),
         IsInjective(s), IsInjective(t), ToSet(s) \cap ToSet(t) = {}
  PROVE  IsInjective(s \o t)
  <1> DEFINE st == s \o t
  <1>1. /\ st \in Seq(T) /\ Len(st) = Len(s) + Len(t) /\ Len(s) \in Nat /\ Len(t) \in Nat
        /\ \A i \in 1..Len(s) : st[i] = s[i]
        /\ \A i \in 1..Len(t) : st[Len(s) + i] = t[i]
        /\ DOMAIN st = 1..Len(st) /\ DOMAIN s = 1..Len(s) /\ DOMAIN t = 1..Len(t)
    BY ConcatProperties
  <1>2. \A i \in 1..Len(s), j \in 1..Len(t) : s[i] # t[j]
    <2> TAKE i \in 1..Len(s), j \in 1..Len(t)
    <2>1. s[i] \in ToSet(s) /\ t[j] \in ToSet(t)
      BY <1>1 DEF ToSet
    <2> QED
      BY <2>1
  <1> HIDE DEF st
  <1> SUFFICES ASSUME NEW i \in 1..Len(st), NEW j \in 1..Len(st), st[i] = st[j] PROVE i = j
    BY <1>1 DEF IsInjective, st
  <1>3. \A k \in 1..Len(st) : \/ k \in 1..Len(s)
                              \/ k - Len(s) \in 1..Len(t) /\ k = Len(s) + (k - Len(s))
    BY <1>1
  <1>4. CASE i \in 1..Len(s) /\ j \in 1..Len(s)
    BY <1>1, <1>4 DEF IsInjective
  <1>5. CASE i \in 1..Len(s) /\ j \notin 1..Len(s)
    <2>1. j - Len(s) \in 1..Len(t) /\ st[j] = st[Len(s) + (j - Len(s))]
      BY <1>3, <1>5
    <2>2. st[i] = s[i] /\ st[j] = t[j - Len(s)]
      BY <1>1, <1>5, <2>1
    <2> QED
      BY <1>2, <1>5, <2>1, <2>2
  <1>6. CASE i \notin 1..Len(s) /\ j \in 1..Len(s)
    <2>1. i - Len(s) \in 1..Len(t) /\ st[i] = st[Len(s) + (i - Len(s))]
      BY <1>3, <1>6
    <2>2. st[j] = s[j] /\ st[i] = t[i - Len(s)]
      BY <1>1, <1>6, <2>1
    <2> QED
      BY <1>2, <1>6, <2>1, <2>2
  <1>7. CASE i \notin 1..Len(s) /\ j \notin 1..Len(s)
    <2>1. /\ i - Len(s) \in 1..Len(t) /\ st[i] = t[i - Len(s)]
          /\ j - Len(s) \in 1..Len(t) /\ st[j] = t[j - Len(s)]
      BY <1>1, <1>3, <1>7
    <2>2. i - Len(s) = j - Len(s)
      BY <1>1, <2>1 DEF IsInjective
    <2> QED
      BY <1>1, <2>1, <2>2
  <1> QED
    BY <1>4, <1>5, <1>6, <1>7

LEMMA FlattenElements ==
  ASSUME NEW T, NEW seqs \in Seq(Seq(T))
  PROVE  ToSet(FlattenSeq(seqs)) = UNION {ToSet(seqs[n]) : n \in 1..Len(seqs)}
  <1> DEFINE N == Len(seqs)
  <1>1. N \in Nat /\ \A n \in 1..N : seqs[n] \in Seq(T)
    OBVIOUS
  <1>2. PICK f \in [0..N -> Seq(T)] :
                /\ f[0] = <<>> /\ \A n \in 1..N : f[n] = f[n - 1] \o seqs[n]
                /\ FlattenSeq(seqs) = f[N]
    BY FlattenByRounds
  <1> HIDE DEF N
  <1> DEFINE R == {n \in 0..N : ToSet(f[n]) = UNION {ToSet(seqs[m]) : m \in 1..n}}
  <1>3. 0 \in R
    <2>1. ToSet(f[0]) = {}
      BY <1>2 DEF ToSet
    <2>2. 1..0 = {} /\ 0 \in 0..N
      BY <1>1
    <2> QED
      BY <2>1, <2>2
  <1>4. ASSUME NEW n \in 0 .. N - 1, n \in R PROVE n + 1 \in R
    <2>1. n \in 0..N /\ n + 1 \in 1..N /\ n + 1 \in 0..N /\ (n + 1) - 1 = n
      BY <1>1
    <2>2. f[n + 1] = f[n] \o seqs[n + 1]
      BY <1>2, <2>1
    <2>3. ToSet(f[n + 1]) = ToSet(f[n]) \cup ToSet(seqs[n + 1])
      BY <1>1, <1>2, <2>1, <2>2, ElementsOfConcat
    <2>4. 1 .. n + 1 = (1..n) \cup {n + 1}
      BY <2>1
    <2> QED
      BY <1>4, <2>1, <2>3, <2>4
  <1> HIDE DEF R
  <1>5. N \in R
    <2>1. 0..N \subseteq R
      BY <1>1, <1>3, <1>4, CountingUp
    <2> QED
      BY <1>1, <2>1
  <1> QED
    BY <1>2, <1>5 DEF R, N

LEMMA FlattenInjective ==
  ASSUME NEW T, NEW seqs \in Seq(Seq(T)),
         \A n \in 1..Len(seqs) : IsInjective(seqs[n]),
         \A m, n \in 1..Len(seqs) : m # n => ToSet(seqs[m]) \cap ToSet(seqs[n]) = {}
  PROVE  IsInjective(FlattenSeq(seqs))
  <1> DEFINE N == Len(seqs)
  <1>1. N \in Nat /\ \A n \in 1..N : seqs[n] \in Seq(T)
    OBVIOUS
  <1>2. PICK f \in [0..N -> Seq(T)] :
                /\ f[0] = <<>> /\ \A n \in 1..N : f[n] = f[n - 1] \o seqs[n]
                /\ FlattenSeq(seqs) = f[N]
    BY FlattenByRounds
  <1> HIDE DEF N
  <1> DEFINE R == {n \in 0..N : /\ IsInjective(f[n])
                                /\ \A x \in ToSet(f[n]) : \E m \in 1..n : x \in ToSet(seqs[m])}
  <1>3. 0 \in R
    <2>1. ToSet(f[0]) = {} /\ IsInjective(f[0])
      BY <1>2 DEF ToSet, IsInjective
    <2>2. 0 \in 0..N
      BY <1>1
    <2> QED
      BY <2>1, <2>2
  <1>4. ASSUME NEW n \in 0 .. N - 1, n \in R PROVE n + 1 \in R
    <2>1. n \in 0..N /\ n + 1 \in 1..N /\ n + 1 \in 0..N /\ (n + 1) - 1 = n
          /\ \A m \in 1..n : m \in 1..N /\ m # n + 1
      BY <1>1
    <2>2. f[n + 1] = f[n] \o seqs[n + 1] /\ f[n] \in Seq(T) /\ seqs[n + 1] \in Seq(T)
      BY <1>1, <1>2, <2>1
    <2>3. ToSet(f[n + 1]) = ToSet(f[n]) \cup ToSet(seqs[n + 1])
      BY <2>2, ElementsOfConcat
    <2>4. ASSUME NEW x \in ToSet(f[n]) PROVE x \notin ToSet(seqs[n + 1])
      <3>1. PICK m \in 1..n : x \in ToSet(seqs[m])
        BY <1>4
      <3>2. ToSet(seqs[m]) \cap ToSet(seqs[n + 1]) = {}
        BY <2>1 DEF N
      <3> QED
        BY <3>1, <3>2
    <2>5. ToSet(f[n]) \cap ToSet(seqs[n + 1]) = {}
      BY <2>4
    <2>6. IsInjective(f[n]) /\ IsInjective(seqs[n + 1])
      BY <1>4, <2>1 DEF N
    <2>7. IsInjective(f[n + 1])
      BY <2>2, <2>5, <2>6, ConcatInjective
    <2>8. ASSUME NEW x \in ToSet(f[n + 1]) PROVE \E m \in 1 .. n + 1 : x \in ToSet(seqs[m])
      <3>1. CASE x \in ToSet(f[n])
        <4>1. PICK m \in 1..n : x \in ToSet(seqs[m])
          BY <1>4, <3>1
        <4>2. m \in 1 .. n + 1
          BY <2>1
        <4> QED
          BY <4>1, <4>2
      <3>2. CASE x \in ToSet(seqs[n + 1])
        <4>1. n + 1 \in 1 .. n + 1
          BY <2>1
        <4> QED
          BY <3>2, <4>1
      <3> QED
        BY <2>3, <2>8, <3>1, <3>2
    <2> QED
      BY <2>1, <2>7, <2>8
  <1> HIDE DEF R
  <1>5. N \in R
    <2>1. 0..N \subseteq R
      BY <1>1, <1>3, <1>4, CountingUp
    <2> QED
      BY <1>1, <2>1
  <1> QED
    BY <1>2, <1>5 DEF R

(* A sequence that holds each of 1..N once has N elements.                 *)
LEMMA OnceEach ==
  ASSUME NEW T, NEW s \in Seq(T), NEW N \in Nat, IsInjective(s), ToSet(s) = 1..N
  PROVE  Len(s) = N
  <1>1. Len(s) \in Nat /\ DOMAIN s = 1..Len(s)
    OBVIOUS
  <1>2. s \in [1..Len(s) -> 1..N] /\ 1..N = {s[i] : i \in 1..Len(s)}
    <2>1. ToSet(s) = {s[i] : i \in 1..Len(s)}
      BY ElementsOf
    <2>2. \A i \in 1..Len(s) : s[i] \in 1..N
      BY <2>1
    <2>3. s \in [1..Len(s) -> T]
      OBVIOUS
    <2> QED
      BY <2>1, <2>2, <2>3
  <1>3. s \in Bijection(1..Len(s), 1..N)
    <2>1. s \in Injection(1..Len(s), 1..N)
      BY <1>2 DEF Injection
    <2>2. \A x \in 1..N : \E i \in 1..Len(s) : s[i] = x
      BY <1>2
    <2>3. s \in Surjection(1..Len(s), 1..N)
      BY <1>2, <2>2 DEF Surjection
    <2> QED
      BY <2>1, <2>3 DEF Bijection
  <1>4. ExistsBijection(1..Len(s), 1..N)
    BY <1>3 DEF ExistsBijection
  <1>5. Cardinality(1..N) = Len(s)
    BY <1>1, <1>4, FS_CountingElements
  <1>6. Cardinality(1..N) = N
    <2>1. Cardinality(1..N) = IF 1 > N THEN 0 ELSE N - 1 + 1
      BY FS_Interval
    <2> QED
      BY <2>1
  <1> QED
    BY <1>5, <1>6

(* Where the elements of a flattened sequence come from: in the order of   *)
(* the sequences and of the positions in them, and from every position.    *)
Placed(F, seqs, n, row, col) ==
    /\ row \in [1..Len(F) -> 1..n] /\ col \in [1..Len(F) -> Nat]
    /\ \A i \in 1..Len(F) : col[i] \in 1..Len(seqs[row[i]]) /\ F[i] = seqs[row[i]][col[i]]
    /\ \A i, j \in 1..Len(F) : i < j => row[i] < row[j] \/ (row[i] = row[j] /\ col[i] < col[j])
    /\ \A m \in 1..n : \A k \in 1..Len(seqs[m]) : \E i \in 1..Len(F) : row[i] = m /\ col[i] = k

LEMMA PlacedConcat ==
  ASSUME NEW T, NEW seqs \in Seq(Seq(T)), NEW n \in 0 .. Len(seqs) - 1, NEW F \in Seq(T),
         NEW row, NEW col, Placed(F, seqs, n, row, col)
  PROVE  \E r, c : Placed(F \o seqs[n + 1], seqs, n + 1, r, c)
  <1> DEFINE s == seqs[n + 1]
             G == F \o s
             a == Len(F)
             b == Len(s)
             r == [i \in 1..Len(G) |-> IF i <= a THEN row[i] ELSE n + 1]
             c == [i \in 1..Len(G) |-> IF i <= a THEN col[i] ELSE i - a]
  <1>1. n \in Nat /\ n + 1 \in 1..Len(seqs) /\ s \in Seq(T) /\ a \in Nat /\ b \in Nat
    OBVIOUS
  <1>2. /\ row \in [1..a -> 1..n] /\ col \in [1..a -> Nat]
        /\ \A i \in 1..a : col[i] \in 1..Len(seqs[row[i]]) /\ F[i] = seqs[row[i]][col[i]]
        /\ \A i, j \in 1..a : i < j => row[i] < row[j] \/ (row[i] = row[j] /\ col[i] < col[j])
        /\ \A m \in 1..n : \A k \in 1..Len(seqs[m]) : \E i \in 1..a : row[i] = m /\ col[i] = k
    BY DEF Placed
  <1>3. /\ Len(G) = a + b
        /\ \A i \in 1..a : G[i] = F[i]
        /\ \A i \in 1..b : G[a + i] = s[i]
    BY <1>1, ConcatProperties
  <1> HIDE DEF G, a
  <1>4. \A i \in 1..Len(G) : IF i <= a THEN i \in 1..a ELSE i - a \in 1..b /\ a + (i - a) = i
    BY <1>1, <1>3, SMTT(30)
  <1>5. r \in [1..Len(G) -> 1 .. n + 1] /\ c \in [1..Len(G) -> Nat]
    BY <1>1, <1>2, <1>4
  <1>6. ASSUME NEW i \in 1..Len(G)
        PROVE  c[i] \in 1..Len(seqs[r[i]]) /\ G[i] = seqs[r[i]][c[i]]
    <2>1. CASE i <= a
      BY <1>2, <1>3, <1>4, <2>1
    <2>2. CASE ~ (i <= a)
      BY <1>3, <1>4, <2>2
    <2> QED
      BY <2>1, <2>2
  <1>7. ASSUME NEW i \in 1..Len(G), NEW j \in 1..Len(G), i < j
        PROVE  r[i] < r[j] \/ (r[i] = r[j] /\ c[i] < c[j])
    <2>1. CASE j <= a
      <3>1. i \in 1..a /\ j \in 1..a
        BY <1>1, <1>7, <2>1
      <3>2. /\ i \in 1..Len(G) /\ j \in 1..Len(G) /\ i <= a
            /\ r[i] = row[i] /\ c[i] = col[i] /\ r[j] = row[j] /\ c[j] = col[j]
        BY <1>1, <2>1, <3>1
      <3> HIDE DEF r, c
      <3> QED
        BY <1>2, <1>7, <3>1, <3>2
    <2>2. CASE i <= a /\ ~ (j <= a)
      <3>1. i \in 1..a /\ row[i] \in 1..n
        BY <1>2, <1>4, <2>2
      <3> QED
        BY <1>1, <2>2, <3>1
    <2>3. CASE ~ (i <= a)
      <3>1. ~ (j <= a) /\ i - a < j - a
        BY <1>1, <1>7, <2>3
      <3> QED
        BY <2>3, <3>1
    <2> QED
      BY <2>1, <2>2, <2>3
  <1>8. ASSUME NEW m \in 1 .. n + 1, NEW k \in 1..Len(seqs[m])
        PROVE  \E i \in 1..Len(G) : r[i] = m /\ c[i] = k
    <2>1. CASE m = n + 1
      <3>1. a + k \in 1..Len(G) /\ ~ (a + k <= a) /\ (a + k) - a = k
        BY <1>1, <1>3, <2>1
      <3> QED
        BY <2>1, <3>1
    <2>2. CASE m # n + 1
      <3>1. m \in 1..n
        BY <1>1, <2>2
      <3>2. PICK i \in 1..a : row[i] = m /\ col[i] = k
        BY <1>2, <3>1
      <3>3. i \in 1..Len(G) /\ i <= a
        BY <1>1, <1>3
      <3> QED
        BY <3>2, <3>3
    <2> QED
      BY <2>1, <2>2
  <1> HIDE DEF r, c
  <1>9. Placed(G, seqs, n + 1, r, c)
    BY <1>5, <1>6, <1>7, <1>8 DEF Placed
  <1> QED
    BY <1>9 DEF G

LEMMA FlattenPlaced ==
  ASSUME NEW T, NEW seqs \in Seq(Seq(T))
  PROVE  \E row, col : Placed(FlattenSeq(seqs), seqs, Len(seqs), row, col)
  <1> DEFINE N == Len(seqs)
  <1>1. N \in Nat
    OBVIOUS
  <1>2. PICK f \in [0..N -> Seq(T)] :
                /\ f[0] = <<>> /\ \A n \in 1..N : f[n] = f[n - 1] \o seqs[n]
                /\ FlattenSeq(seqs) = f[N]
    BY FlattenByRounds
  <1> DEFINE R == {n \in 0..N : \E row, col : Placed(f[n], seqs, n, row, col)}
  <1>3. 0 \in R
    <2> DEFINE none == [i \in 1..0 |-> 1]
    <2>1. Len(f[0]) = 0 /\ 1..0 = {} /\ 0 \in 0..N
      BY <1>1, <1>2
    <2>2. none \in [1..0 -> 1..0] /\ none \in [1..0 -> Nat]
      OBVIOUS
    <2> HIDE DEF none
    <2>3. Placed(f[0], seqs, 0, none, none)
      BY <2>1, <2>2 DEF Placed
    <2> QED
      BY <2>1, <2>3
  <1>4. ASSUME NEW n \in 0 .. N - 1, n \in R PROVE n + 1 \in R
    <2>1. n \in 0..N /\ n + 1 \in 1..N /\ n + 1 \in 0..N /\ (n + 1) - 1 = n
      BY <1>1
    <2>2. f[n + 1] = f[n] \o seqs[n + 1] /\ f[n] \in Seq(T)
      BY <1>2, <2>1
    <2>3. PICK row, col : Placed(f[n], seqs, n, row, col)
      BY <1>4
    <2>4. \E r, c : Placed(f[n] \o seqs[n + 1], seqs, n + 1, r, c)
      BY <2>2, <2>3, PlacedConcat
    <2> QED
      BY <2>1, <2>2, <2>4
  <1>5. N \in R
    <2> HIDE DEF R, N
    <2>1. 0..N \subseteq R
      BY <1>1, <1>3, <1>4, CountingUp
    <2> QED
      BY <1>1, <2>1
  <1> QED
    BY <1>2, <1>5

Associates(T) == \A a, b, c \in Seq(T) : (a \o b) \o c = a \o (b \o c)

LEMMA ConcatAssociates ==
  ASSUME NEW T
  PROVE  Associates(T)
  BY ConcatAssociative DEF Associates

(* More for the last of the sequences comes last.                          *)
LEMMA FlattenLonger ==
  ASSUME NEW T, NEW seqs \in Seq(Seq(T)), NEW s \in Seq(T), NEW t \in Seq(T)
  PROVE  FlattenSeq(Append(seqs, s \o t)) = FlattenSeq(Append(seqs, s)) \o t
  <1> DEFINE a == FlattenSeq(seqs)
             short == FlattenSeq(Append(seqs, s))
             long == FlattenSeq(Append(seqs, s \o t))
  <1>1. s \o t \in Seq(T)
    OBVIOUS
  <1>2. short = a \o s /\ long = a \o (s \o t)
    BY <1>1, FlattenAppend
  <1>3. a \in Seq(T)
    BY FlattenType
  <1> HIDE DEF a, short, long
  <1>4. (a \o s) \o t = a \o (s \o t)
    <2>1. Associates(T)
      BY ConcatAssociates
    <2> QED
      BY <1>3, <2>1, Zenon DEF Associates
  <1> QED
    BY <1>2, <1>4 DEF short, long
=============================================================================
