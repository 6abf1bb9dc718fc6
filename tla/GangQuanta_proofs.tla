------------------------- MODULE GangQuanta_proofs -------------------------
(***************************************************************************)
(* Proofs about GangQuanta for any programs, cores, limits and workloads.  *)
(* First the folds and the quicksort, then what each of the four choices   *)
(* makes of its list, by an invariant of its loop, and last the actions.   *)
(***************************************************************************)
EXTENDS GangQuanta, FiniteSetTheorems, SequenceTheorems, WellFoundedInduction, TLAPS

-----------------------------------------------------------------------------
(* Induction.                                                               *)

\* A set of natural numbers that is not empty has a least element.
LEMMA LeastNat ==
    ASSUME NEW T \in SUBSET Nat, T # {}
    PROVE  \E n \in T : \A m \in T : n <= m
  <1>1. PICK n \in T : \A m \in T : ~ (<<m, n>> \in OpToRel(<, Nat))
    BY NatLessThanWellFounded, WFMin
  <1>2. ASSUME NEW m \in T PROVE n <= m
    <2>1. m \in Nat /\ n \in Nat /\ ~(m < n)
      BY <1>1 DEF OpToRel
    <2> QED
      BY <2>1
  <1> QED
    BY <1>2

\* A set of numbers that has 0, and with a number the next, has them all.
LEMMA Induct ==
    ASSUME NEW Q, 0 \in Q, \A n \in Nat : n \in Q => n + 1 \in Q
    PROVE  \A n \in Nat : n \in Q
  <1> SUFFICES ASSUME Nat \ Q # {} PROVE FALSE
    OBVIOUS
  <1>1. PICK n \in Nat \ Q : \A m \in Nat \ Q : n <= m
    BY LeastNat
  <1>2. n # 0 /\ n - 1 \in Nat
    BY <1>1
  <1>3. n - 1 \in Q
    BY <1>1, <1>2
  <1>4. (n - 1) + 1 = n
    BY <1>1
  <1> QED
    BY <1>1, <1>2, <1>3, <1>4

\* The same from 0 to n: what is so at 0, and with i at i + 1.
LEMMA InductTo ==
    ASSUME NEW n \in Nat, NEW Q, 0 \in Q, \A i \in 1..n : i - 1 \in Q => i \in Q
    PROVE  \A i \in 0..n : i \in Q
  <1> DEFINE R == {i \in Nat : i <= n => i \in Q}
  <1>1. 0 \in R
    OBVIOUS
  <1>2. ASSUME NEW i \in Nat, i \in R PROVE i + 1 \in R
    <2>1. SUFFICES ASSUME i + 1 <= n PROVE i + 1 \in Q
      OBVIOUS
    <2>2. i \in Q /\ i + 1 \in 1..n /\ (i + 1) - 1 = i
      BY <1>2, <2>1
    <2> QED
      BY <2>2
  <1>3. \A i \in Nat : i \in R
    <2> HIDE DEF R
    <2> QED
      BY <1>1, <1>2, Induct
  <1> QED
    BY <1>3

-----------------------------------------------------------------------------
(* The loops over a list are folds.  What FoldLeft chooses is the function  *)
(* of the states the loop goes through.                                     *)

\* f tells where a loop is that starts at a and takes step[i] in turn i, on
\* every set of turns.
FoldIs(f, a, step, n) ==
    f = [T \in SUBSET (1..n) |-> IF T = {} THEN a ELSE step[Max(T)][f[T \ {Max(T)}]]]

\* The greatest of the turns up to n, if n is one.
LEMMA MaxTurn ==
    ASSUME NEW n \in Nat \ {0}, NEW T \in SUBSET (1..n), n \in T
    PROVE  Max(T) = n
  <1>1. \A y \in T : n >= y
    OBVIOUS
  <1>2. \A x \in T : (\A y \in T : x >= y) => x = n
    BY <1>1
  <1>3. Max(T) \in T /\ \A y \in T : Max(T) >= y
    BY <1>1 DEF Max
  <1> QED
    BY <1>2, <1>3

\* Some numbers up to n have a greatest.
LEMMA GreatestNat ==
    ASSUME NEW n \in Nat, NEW T \in SUBSET (0..n), T # {}
    PROVE  Max(T) \in T /\ \A y \in T : Max(T) >= y
  <1> DEFINE Above == {k \in Nat : \A y \in T : k >= y}
  <1>1. n \in Above /\ Above \in SUBSET Nat
    OBVIOUS
  <1>2. PICK x \in Above : \A k \in Above : x <= k
    <2> HIDE DEF Above
    <2> QED
      BY <1>1, LeastNat
  <1>3. x \in T
    <2>1. SUFFICES ASSUME x \notin T PROVE FALSE
      OBVIOUS
    <2>2. \A y \in T : x > y /\ y >= 0
      BY <1>2, <2>1
    <2>3. PICK y0 : y0 \in T /\ y0 \in Nat
      <3>1. PICK y0 : y0 \in T
        OBVIOUS
      <3> QED
        BY <3>1
    <2>4. x \in Nat /\ x > y0 /\ y0 >= 0
      BY <1>2, <2>2, <2>3
    <2>5. x - 1 \in Nat
      BY <2>3, <2>4
    <2>6. \A y \in T : x - 1 >= y
      BY <2>2, <2>4
    <2>7. x - 1 \in Above
      BY <2>5, <2>6
    <2> QED
      BY <1>2, <2>4, <2>7
  <1>4. \A y \in T : x >= y
    BY <1>2
  <1> QED
    BY <1>3, <1>4 DEF Max

\* Some turns have a greatest.
LEMMA GreatestTurn ==
    ASSUME NEW n \in Nat, NEW T \in SUBSET (1..n), T # {}
    PROVE  Max(T) \in T
  <1>1. T \in SUBSET (0..n)
    OBVIOUS
  <1> QED
    BY <1>1, GreatestNat

\* There is such a function when the steps stay in V.
LEMMA FoldExists ==
    ASSUME NEW V, NEW a \in V, NEW n \in Nat, NEW step \in [1..n -> [V -> V]]
    PROVE  \E f \in [SUBSET (1..n) -> V] : FoldIs(f, a, step, n)
  <1> DEFINE Value(f, T) == IF T = {} THEN a ELSE step[Max(T)][f[T \ {Max(T)}]]
             Right(f, k) == \A T \in SUBSET (1..k) : f[T] = Value(f, T)
             Q == {k \in 0..n : \E f \in [SUBSET (1..k) -> V] : Right(f, k)}
  <1>1. 0 \in Q
    <2> DEFINE f == [T \in SUBSET (1..0) |-> a]
    <2>1. ASSUME NEW T \in SUBSET (1..0) PROVE f[T] = Value(f, T)
      OBVIOUS
    <2>2. f \in [SUBSET (1..0) -> V] /\ Right(f, 0)
      BY <2>1
    <2>3. 0 \in 0..n
      OBVIOUS
    <2> HIDE DEF f, Right
    <2> QED
      BY <2>2, <2>3
  <1>2. ASSUME NEW k \in 1..n, k - 1 \in Q PROVE k \in Q
    <2>1. PICK f \in [SUBSET (1..(k - 1)) -> V] : Right(f, k - 1)
      BY <1>2
    <2> DEFINE h == [T \in SUBSET (1..k) |-> IF k \in T THEN step[k][f[T \ {k}]] ELSE f[T]]
    <2>2. \A T \in SUBSET (1..k) : T \ {k} \in SUBSET (1..(k - 1))
      OBVIOUS
    <2>3. h \in [SUBSET (1..k) -> V]
      <3>1. ASSUME NEW T \in SUBSET (1..k) PROVE h[T] \in V
        <4>1. step[k] \in [V -> V]
          OBVIOUS
        <4>2. f[T \ {k}] \in V
          BY <2>2
        <4>3. k \notin T => T = T \ {k}
          OBVIOUS
        <4> QED
          BY <4>1, <4>2, <4>3
      <3> QED
        BY <3>1
    <2>4. ASSUME NEW T \in SUBSET (1..k) PROVE h[T] = Value(h, T)
      <3>1. CASE k \in T
        <4>1. Max(T) = k
          BY <3>1, MaxTurn
        <4>2. h[T] = step[k][f[T \ {k}]]
          BY <3>1
        <4>3. T \ {k} \in SUBSET (1..k) /\ k \notin T \ {k}
          OBVIOUS
        <4>4. h[T \ {k}] = f[T \ {k}]
          BY <4>3
        <4> HIDE DEF h
        <4> QED
          BY <3>1, <4>1, <4>2, <4>4
      <3>2. CASE k \notin T
        <4>1. T \in SUBSET (1..(k - 1)) /\ h[T] = f[T]
          BY <3>2
        <4>2. f[T] = Value(f, T)
          BY <2>1, <4>1
        <4>3. T \ {Max(T)} \in SUBSET (1..k) /\ k \notin T \ {Max(T)}
          BY <3>2
        <4>4. h[T \ {Max(T)}] = f[T \ {Max(T)}]
          BY <4>3
        <4> HIDE DEF h
        <4> QED
          BY <4>1, <4>2, <4>4
      <3> QED
        BY <3>1, <3>2
    <2> HIDE DEF h
    <2>5. Right(h, k)
      BY <2>4
    <2>6. k \in 0..n
      OBVIOUS
    <2> HIDE DEF Right
    <2> QED
      BY <2>3, <2>5, <2>6
  <1>3. n \in Q
    <2>1. \A k \in 0..n : k \in Q
      <3> HIDE DEF Q
      <3> QED
        BY <1>1, <1>2, InductTo
    <2>2. n \in 0..n
      OBVIOUS
    <2> HIDE DEF Q
    <2> QED
      BY <2>1, <2>2
  <1>4. PICK f \in [SUBSET (1..n) -> V] : Right(f, n)
    BY <1>3
  <1>5. f = [T \in SUBSET (1..n) |-> Value(f, T)]
    BY <1>4
  <1> QED
    BY <1>5 DEF FoldIs

\* The turns up to i, and those before it.
LEMMA Turns ==
    ASSUME NEW n \in Nat, NEW i \in 1..n
    PROVE  /\ 1..i \in SUBSET (1..n) /\ 1..i # {} /\ Max(1..i) = i
           /\ (1..i) \ {i} = 1..(i - 1) /\ i - 1 \in 0..n /\ 1..(i - 1) \in SUBSET (1..n)
  <1>1. 1..i \in SUBSET (1..i) /\ i \in 1..i /\ i \in Nat \ {0}
    OBVIOUS
  <1>2. Max(1..i) = i
    BY <1>1, MaxTurn
  <1> QED
    BY <1>2

\* C is right on every set of turns, as long as it stays in V.
FoldOf(C, a, step, n, V) ==
    /\ C[{}] = a
    /\ \A T \in SUBSET (1..n) :
         T # {} /\ C[T \ {Max(T)}] \in V => C[T] = step[Max(T)][C[T \ {Max(T)}]]

\* The states a loop goes through.
RunOf(r, a, step, n) == r[0] = a /\ \A i \in 1..n : r[i] = step[i][r[i - 1]]
Reaches(V, a, step, n, b) == \E r \in [0..n -> V] : RunOf(r, a, step, n) /\ b = r[n]

\* What a fold chooses, C, goes through states in V.
LEMMA FoldRuns ==
    ASSUME NEW V, NEW a \in V, NEW n \in Nat, NEW step \in [1..n -> [V -> V]],
           NEW C, FoldOf(C, a, step, n, V)
    PROVE  Reaches(V, a, step, n, C[1..n])
  <1> DEFINE r == [i \in 0..n |-> C[1..i]]
             Q == {i \in 0..n : r[i] \in V}
  <1>1. r[0] = a
    <2>1. 0 \in 0..n /\ 1..0 = {}
      OBVIOUS
    <2> QED
      BY <2>1 DEF FoldOf
  <1>2. ASSUME NEW i \in 1..n, r[i - 1] \in V PROVE r[i] = step[i][r[i - 1]]
    <2>1. i \in 0..n /\ i - 1 \in 0..n
      OBVIOUS
    <2>2. PICK T \in SUBSET (1..n) : T = 1..i /\ T # {} /\ Max(T) = i /\ T \ {i} = 1..(i - 1)
      BY Turns
    <2>3. C[T \ {Max(T)}] \in V
      BY <1>2, <2>1, <2>2
    <2>4. C[T] = step[Max(T)][C[T \ {Max(T)}]]
      BY <2>2, <2>3 DEF FoldOf
    <2> QED
      BY <2>1, <2>2, <2>4
  <1>3. r[n] = C[1..n]
    <2>1. n \in 0..n
      OBVIOUS
    <2> QED
      BY <2>1
  <1>4. DOMAIN r = 0..n /\ r = [i \in 0..n |-> r[i]]
    OBVIOUS
  <1> HIDE DEF r
  <1>5. 0 \in Q
    <2>1. 0 \in 0..n
      OBVIOUS
    <2> QED
      BY <1>1, <2>1
  <1>6. ASSUME NEW i \in 1..n, i - 1 \in Q PROVE i \in Q
    <2>1. r[i - 1] \in V /\ i \in 0..n
      BY <1>6
    <2>2. step[i] \in [V -> V]
      OBVIOUS
    <2> QED
      BY <1>2, <2>1, <2>2
  <1>7. \A i \in 0..n : i \in Q
    <2> HIDE DEF Q
    <2> QED
      BY <1>5, <1>6, InductTo
  <1>8. r \in [0..n -> V]
    BY <1>4, <1>7
  <1>9. ASSUME NEW i \in 1..n PROVE r[i] = step[i][r[i - 1]]
    <2>1. r[i - 1] \in V
      BY <1>8
    <2> QED
      BY <1>2, <2>1
  <1> QED
    BY <1>1, <1>3, <1>8, <1>9 DEF RunOf, Reaches

-----------------------------------------------------------------------------
(* Lists.                                                                   *)

\* The loop that keeps the entries of a list that are in S.
KeptUpTo(r, list, S) ==
    /\ r[0] = <<>>
    /\ \A i \in 1..Len(list) :
         r[i] = IF list[i] \in S THEN Append(r[i - 1], list[i]) ELSE r[i - 1]

LEMMA KeepRun ==
    ASSUME NEW A, NEW list \in Seq(A), NEW S
    PROVE  \E r \in [0..Len(list) -> Seq(A)] : KeptUpTo(r, list, S) /\ Keep(list, S) = r[Len(list)]
  <1> DEFINE n == Len(list)
             One(i, kept) == IF list[i] \in S THEN Append(kept, list[i]) ELSE kept
             step == [i \in 1..n |-> [kept \in Seq(A) |-> One(i, kept)]]
             Is(f) == f = [T \in SUBSET (1..n) |-> IF T = {} THEN <<>> ELSE One(Max(T), f[T \ {Max(T)}])]
  <1>1. n \in Nat /\ DOMAIN list = 1..n /\ <<>> \in Seq(A) /\ \A i \in 1..n : list[i] \in A
    BY LenProperties, EmptySeq
  <1>2. ASSUME NEW i \in 1..n, NEW kept \in Seq(A) PROVE One(i, kept) \in Seq(A)
    BY <1>1, AppendProperties
  <1>3. step \in [1..n -> [Seq(A) -> Seq(A)]]
    BY <1>2
  <1>4. PICK f \in [SUBSET (1..n) -> Seq(A)] : FoldIs(f, <<>>, step, n)
    <2> HIDE DEF step, n
    <2> QED
      BY <1>1, <1>3, FoldExists
  <1>5. Is(f)
    <2>1. ASSUME NEW T \in SUBSET (1..n), T # {}
          PROVE  step[Max(T)][f[T \ {Max(T)}]] = One(Max(T), f[T \ {Max(T)}])
      <3>1. Max(T) \in 1..n
        BY <2>1, <1>1, GreatestTurn
      <3> QED
        BY <3>1
    <2> HIDE DEF One, step, n
    <2> QED
      BY <1>4, <2>1 DEF FoldIs
  <1>6. PICK C : C = (CHOOSE g : Is(g)) /\ Is(C)
    BY <1>5
  <1>7. Keep(list, S) = C[1..n]
    BY <1>1, <1>6 DEF Keep, FoldLeft, MapThenFoldSet
  <1>8. C[{}] = <<>>
    BY <1>6
  <1>9. ASSUME NEW T \in SUBSET (1..n), T # {}, C[T \ {Max(T)}] \in Seq(A)
        PROVE  C[T] = step[Max(T)][C[T \ {Max(T)}]]
    <2>1. Max(T) \in 1..n
      BY <1>1, <1>9, GreatestTurn
    <2>2. C[T] = One(Max(T), C[T \ {Max(T)}])
      <3> HIDE DEF One, n
      <3> QED
        BY <1>6, <1>9
    <2> HIDE DEF One, n, Is
    <2> QED
      BY <1>9, <2>1, <2>2
  <1>10. FoldOf(C, <<>>, step, n, Seq(A))
    <2> HIDE DEF step, n, Is
    <2> QED
      BY <1>8, <1>9 DEF FoldOf
  <1>11. PICK r \in [0..n -> Seq(A)] : RunOf(r, <<>>, step, n) /\ C[1..n] = r[n]
    <2> HIDE DEF step, n, Is
    <2>1. PICK V, a : V = Seq(A) /\ a = <<>>
      OBVIOUS
    <2>2. a \in V /\ step \in [1..n -> [V -> V]] /\ FoldOf(C, a, step, n, V)
      BY <1>1, <1>3, <1>10, <2>1
    <2>3. Reaches(V, a, step, n, C[1..n])
      BY <1>1, <2>2, FoldRuns
    <2> QED
      BY <2>1, <2>3 DEF Reaches
  <1>12. ASSUME NEW i \in 1..n PROVE r[i] = One(i, r[i - 1])
    <2>1. r[i - 1] \in Seq(A)
      <3> HIDE DEF n, One, step, Is
      <3>1. i - 1 \in 0..n
        BY <1>1
      <3> QED
        BY <1>11, <3>1
    <2> QED
      BY <1>11, <2>1 DEF RunOf
  <1> HIDE DEF step, Is
  <1> QED
    BY <1>7, <1>11, <1>12 DEF RunOf, KeptUpTo

\* The entries of a list.
LEMMA Entries ==
    ASSUME NEW A, NEW s \in Seq(A)
    PROVE  /\ Len(s) \in Nat /\ DOMAIN s = 1..Len(s) /\ ToSet(s) \in SUBSET A
           /\ \A i \in 1..Len(s) : s[i] \in ToSet(s)
           /\ \A x \in ToSet(s) : \E i \in 1..Len(s) : s[i] = x
           /\ (s = <<>>) <=> (Len(s) = 0)
           /\ (s = <<>>) <=> (ToSet(s) = {})
  <1>1. Len(s) \in Nat /\ DOMAIN s = 1..Len(s) /\ \A i \in 1..Len(s) : s[i] \in A
    BY LenProperties
  <1>2. (s = <<>>) <=> (Len(s) = 0)
    BY EmptySeq
  <1>3. ToSet(s) = {s[i] : i \in 1..Len(s)}
    BY <1>1 DEF ToSet
  <1>4. Len(s) # 0 => s[1] \in ToSet(s)
    BY <1>1, <1>3
  <1> QED
    BY <1>1, <1>2, <1>3, <1>4

\* No two entries of a list are equal.
LEMMA Distinct ==
    ASSUME NEW A, NEW s \in Seq(A)
    PROVE  IsInjective(s) <=> \A i, j \in 1..Len(s) : s[i] = s[j] => i = j
  BY LenProperties DEF IsInjective

\* A list with one more entry.
LEMMA Appended ==
    ASSUME NEW A, NEW s \in Seq(A), NEW x \in A
    PROVE  /\ Append(s, x) \in Seq(A) /\ Len(Append(s, x)) = Len(s) + 1
           /\ ToSet(Append(s, x)) = ToSet(s) \union {x}
           /\ IsInjective(s) /\ x \notin ToSet(s) => IsInjective(Append(s, x))
  <1>1. PICK t \in Seq(A) : /\ t = Append(s, x) /\ Len(t) = Len(s) + 1
                            /\ t[Len(s) + 1] = x /\ \A i \in 1..Len(s) : t[i] = s[i]
    <2>1. /\ Append(s, x) \in Seq(A) /\ Len(Append(s, x)) = Len(s) + 1
          /\ Append(s, x)[Len(s) + 1] = x
          /\ \A i \in 1..Len(s) : Append(s, x)[i] = s[i]
      BY AppendProperties
    <2> QED
      BY <2>1
  <1>2. Len(s) \in Nat /\ 1..Len(t) = 1..Len(s) \union {Len(s) + 1}
    BY <1>1, Entries
  <1>3. ToSet(t) = ToSet(s) \union {x}
    <2>1. ToSet(t) = {t[i] : i \in 1..Len(t)} /\ ToSet(s) = {s[i] : i \in 1..Len(s)}
      BY <1>1, Entries DEF ToSet
    <2> QED
      BY <1>1, <1>2, <2>1
  <1>4. ASSUME IsInjective(s), x \notin ToSet(s) PROVE IsInjective(t)
    <2>1. \A i \in 1..Len(s) : s[i] # x
      BY <1>4, Entries
    <2>2. \A i, j \in 1..Len(s) : s[i] = s[j] => i = j
      BY <1>4, Distinct
    <2>3. \A i, j \in 1..Len(t) : t[i] = t[j] => i = j
      BY <1>1, <1>2, <2>1, <2>2
    <2> QED
      BY <1>1, <2>3, Distinct
  <1> QED
    BY <1>1, <1>3, <1>4

\* u is s and then t; u is the part of s from m on that has as many entries.
Cat(u, s, t) ==
    /\ Len(u) = Len(s) + Len(t)
    /\ \A i \in 1..Len(s) : u[i] = s[i]
    /\ \A i \in 1..Len(t) : u[Len(s) + i] = t[i]
PartOf(u, s, m) == \A i \in 1..Len(u) : u[i] = s[m + i - 1]

LEMMA CatIs ==
    ASSUME NEW A, NEW s \in Seq(A), NEW t \in Seq(A)
    PROVE  s \o t \in Seq(A) /\ Cat(s \o t, s, t)
  <1>1. Len(s) \in Nat /\ Len(t) \in Nat
    BY Entries
  <1>2. /\ s \o t \in Seq(A) /\ Len(s \o t) = Len(s) + Len(t)
        /\ \A i \in 1..Len(s) + Len(t) : (s \o t)[i] = IF i <= Len(s) THEN s[i] ELSE t[i - Len(s)]
    <2>1. \A a, b \in Seq(A) :
            /\ a \o b \in Seq(A) /\ Len(a \o b) = Len(a) + Len(b)
            /\ \A i \in 1..Len(a) + Len(b) : (a \o b)[i] = IF i <= Len(a) THEN a[i] ELSE b[i - Len(a)]
      BY ConcatProperties
    <2> QED
      BY <2>1
  <1>3. ASSUME NEW i \in 1..Len(t) PROVE (s \o t)[Len(s) + i] = t[i]
    <2>1. PICK k \in Nat : k = Len(s) + i /\ k \in 1..Len(s) + Len(t) /\ ~(k <= Len(s)) /\ k - Len(s) = i
      BY <1>1
    <2> QED
      BY <1>2, <2>1
  <1>4. \A i \in 1..Len(s) : i \in 1..Len(s) + Len(t) /\ i <= Len(s)
    BY <1>1
  <1> QED
    BY <1>2, <1>3, <1>4 DEF Cat

LEMMA PartIs ==
    ASSUME NEW A, NEW s \in Seq(A), NEW m \in Nat, NEW n \in Nat, 1 <= m, m <= n + 1, n <= Len(s)
    PROVE  /\ SubSeq(s, m, n) \in Seq(A) /\ Len(SubSeq(s, m, n)) = n - m + 1
           /\ PartOf(SubSeq(s, m, n), s, m)
  <1>1. Len(s) \in Nat /\ \A i \in 1..Len(s) : s[i] \in A
    BY LenProperties
  <1>2. \A i \in m..n : s[i] \in A
    BY <1>1
  <1>3. /\ SubSeq(s, m, n) \in Seq(A)
        /\ Len(SubSeq(s, m, n)) = IF m <= n THEN n - m + 1 ELSE 0
        /\ \A i \in 1..n - m + 1 : SubSeq(s, m, n)[i] = s[m + i - 1]
    <2>1. m \in Int /\ n \in Int
      OBVIOUS
    <2> QED
      BY <1>2, <2>1, SubSeqProperties
  <1>4. Len(SubSeq(s, m, n)) = n - m + 1
    BY <1>3
  <1> QED
    BY <1>3, <1>4 DEF PartOf

\* A list and another after it.
LEMMA Joined ==
    ASSUME NEW A, NEW s \in Seq(A), NEW t \in Seq(A)
    PROVE  /\ s \o t \in Seq(A) /\ Len(s \o t) = Len(s) + Len(t)
           /\ ToSet(s \o t) = ToSet(s) \union ToSet(t)
           /\ IsInjective(s) /\ IsInjective(t) /\ ToSet(s) \intersect ToSet(t) = {}
                => IsInjective(s \o t)
  <1>1. PICK u \in Seq(A) : u = s \o t /\ Cat(u, s, t)
    BY CatIs
  <1>2. Len(s) \in Nat /\ Len(t) \in Nat /\ Len(u) = Len(s) + Len(t)
    BY <1>1, Entries DEF Cat
  <1>3. \A i \in 1..Len(s) : i \in 1..Len(u) /\ u[i] = s[i]
    BY <1>1, <1>2 DEF Cat
  <1>4. \A i \in 1..Len(t) : Len(s) + i \in 1..Len(u) /\ u[Len(s) + i] = t[i]
    BY <1>1, <1>2 DEF Cat
  <1>5. ASSUME NEW i \in 1..Len(u), i \notin 1..Len(s)
        PROVE  i - Len(s) \in 1..Len(t) /\ u[i] = t[i - Len(s)]
    <2>1. i \in Nat /\ 1 <= i /\ i <= Len(s) + Len(t) /\ ~(i <= Len(s))
      BY <1>2, <1>5
    <2>2. PICK k \in Nat : k = i - Len(s)
      BY <1>2, <2>1
    <2>3. k \in 1..Len(t) /\ Len(s) + k = i
      BY <1>2, <2>1, <2>2
    <2> QED
      BY <1>4, <2>2, <2>3
  <1>6. ToSet(u) = ToSet(s) \union ToSet(t)
    <2>1. /\ ToSet(u) = {u[i] : i \in 1..Len(u)} /\ ToSet(s) = {s[i] : i \in 1..Len(s)}
          /\ ToSet(t) = {t[i] : i \in 1..Len(t)}
      BY <1>1, Entries DEF ToSet
    <2> QED
      BY <1>3, <1>4, <1>5, <2>1
  <1>7. ASSUME IsInjective(s), IsInjective(t), ToSet(s) \intersect ToSet(t) = {}
        PROVE  IsInjective(u)
    <2>1. \A i, j \in 1..Len(s) : s[i] = s[j] => i = j
      BY <1>7, Distinct
    <2>2. \A i, j \in 1..Len(t) : t[i] = t[j] => i = j
      BY <1>7, Distinct
    <2>3. \A i \in 1..Len(s) : \A j \in 1..Len(t) : s[i] # t[j]
      BY <1>7, Entries
    <2>4. SUFFICES ASSUME NEW i \in 1..Len(u), NEW j \in 1..Len(u), u[i] = u[j] PROVE i = j
      BY <1>1, Distinct
    <2>5. CASE i \in 1..Len(s) /\ j \in 1..Len(s)
      BY <1>3, <2>1, <2>4, <2>5
    <2>6. CASE i \notin 1..Len(s) /\ j \notin 1..Len(s)
      <3>1. i - Len(s) = j - Len(s)
        BY <1>5, <2>2, <2>4, <2>6
      <3> QED
        BY <1>2, <3>1
    <2>7. CASE i \in 1..Len(s) /\ j \notin 1..Len(s)
      BY <1>3, <1>5, <2>3, <2>4, <2>7
    <2>8. CASE i \notin 1..Len(s) /\ j \in 1..Len(s)
      BY <1>3, <1>5, <2>3, <2>4, <2>8
    <2> QED
      BY <2>5, <2>6, <2>7, <2>8
  <1> QED
    BY <1>1, <1>6, <1>7

\* t is s without its entry m.
CutAt(t, s, m) ==
    Len(t) = Len(s) - 1 /\ \A k \in 1..Len(t) : t[k] = IF k < m THEN s[k] ELSE s[k + 1]

\* A list without the first of the entries p.
LEMMA Removed ==
    ASSUME NEW A, NEW s \in Seq(A), NEW p
    PROVE  /\ RemoveFirst(s, p) \in Seq(A)
           /\ p \in ToSet(s) => \E m \in 1..Len(s) : /\ s[m] = p /\ CutAt(RemoveFirst(s, p), s, m)
                                                     /\ \A k \in 1..(m - 1) : s[k] # p
  <1>1. Len(s) \in Nat /\ \A i \in 1..Len(s) : s[i] \in A
    BY LenProperties
  <1>2. CASE p \in ToSet(s)
    <2> DEFINE I == {i \in 1..Len(s) : s[i] = p}
    <2>1. I \in SUBSET Nat /\ I # {}
      BY <1>2, Entries
    <2>2. PICK m \in Nat : m = Min(I) /\ m \in I /\ \A k \in I : m <= k
      <3>1. \E m \in I : \A k \in I : m <= k
        <4> HIDE DEF I
        <4> QED
          BY <2>1, LeastNat
      <3>2. Min(I) \in I /\ \A k \in I : Min(I) <= k
        BY <3>1 DEF Min
      <3> HIDE DEF I
      <3> QED
        BY <2>1, <3>2
    <2>3. RemoveFirst(s, p) = RemoveAt(s, m)
      BY <2>1, <2>2 DEF RemoveFirst, SelectInSeq
    <2>4. m \in 1..Len(s) /\ s[m] = p
      BY <2>2
    <2>5. \A k \in 1..(m - 1) : s[k] # p
      BY <1>1, <2>2, <2>4
    <2> HIDE DEF I
    <2>6. PICK u \in Seq(A) : u = SubSeq(s, 1, m - 1) /\ Len(u) = m - 1 /\ PartOf(u, s, 1)
      <3>1. PICK n \in Nat : n = m - 1 /\ 1 <= n + 1 /\ n <= Len(s)
        BY <1>1, <2>4
      <3>2. PICK u \in Seq(A) : u = SubSeq(s, 1, n) /\ Len(u) = n - 1 + 1 /\ PartOf(u, s, 1)
        <4>1. /\ SubSeq(s, 1, n) \in Seq(A) /\ Len(SubSeq(s, 1, n)) = n - 1 + 1
              /\ PartOf(SubSeq(s, 1, n), s, 1)
          BY <3>1, PartIs
        <4> QED
          BY <4>1
      <3>3. u = SubSeq(s, 1, m - 1)
        BY <3>1, <3>2
      <3>4. Len(u) = m - 1
        BY <3>1, <3>2
      <3> QED
        BY <3>2, <3>3, <3>4
    <2>7. PICK v \in Seq(A) : /\ v = SubSeq(s, m + 1, Len(s)) /\ Len(v) = Len(s) - m
                              /\ PartOf(v, s, m + 1)
      <3>1. PICK b \in Nat : b = m + 1 /\ 1 <= b /\ b <= Len(s) + 1 /\ Len(s) <= Len(s)
        BY <1>1, <2>4
      <3>2. PICK v \in Seq(A) : v = SubSeq(s, b, Len(s)) /\ Len(v) = Len(s) - b + 1 /\ PartOf(v, s, b)
        BY <1>1, <3>1, PartIs
      <3>3. v = SubSeq(s, m + 1, Len(s)) /\ PartOf(v, s, m + 1)
        BY <3>1, <3>2
      <3>4. Len(v) = Len(s) - m
        BY <1>1, <3>1, <3>2
      <3> QED
        BY <3>2, <3>3, <3>4
    <2>8. RemoveFirst(s, p) = u \o v
      BY <2>3, <2>6, <2>7 DEF RemoveAt
    <2>9. PICK t \in Seq(A) : t = u \o v /\ Cat(t, u, v)
      BY CatIs
    <2>10. CutAt(t, s, m)
      <3>1. Len(t) = Len(s) - 1
        <4>1. Len(t) = Len(u) + Len(v)
          BY <2>9 DEF Cat
        <4> QED
          BY <1>1, <2>4, <2>6, <2>7, <4>1
      <3>2. ASSUME NEW k \in 1..Len(t) PROVE t[k] = IF k < m THEN s[k] ELSE s[k + 1]
        <4>1. CASE k < m
          <5>1. k \in 1..Len(u) /\ 1 + k - 1 = k
            BY <1>1, <2>4, <2>6, <3>1, <4>1
          <5> QED
            BY <2>6, <2>9, <4>1, <5>1 DEF Cat, PartOf
        <4>2. CASE ~(k < m)
          <5>1. PICK i \in 1..Len(v) : Len(u) + i = k /\ m + 1 + i - 1 = k + 1
            <6>1. k - (m - 1) \in 1..Len(v)
              BY <1>1, <2>4, <2>7, <3>1, <4>2
            <6>2. Len(u) + (k - (m - 1)) = k /\ m + 1 + (k - (m - 1)) - 1 = k + 1
              BY <1>1, <2>4, <2>6, <3>1
            <6> QED
              BY <6>1, <6>2
          <5>2. t[Len(u) + i] = v[i] /\ v[i] = s[m + 1 + i - 1]
            BY <2>7, <2>9, <5>1 DEF Cat, PartOf
          <5> QED
            BY <4>2, <5>1, <5>2
        <4> QED
          BY <4>1, <4>2
      <3> QED
        BY <3>1, <3>2 DEF CutAt
    <2> QED
      BY <2>4, <2>5, <2>8, <2>9, <2>10
  <1>3. CASE p \notin ToSet(s)
    <2>1. RemoveFirst(s, p) = s
      BY <1>3, Entries DEF RemoveFirst
    <2> QED
      BY <1>3, <2>1
  <1> QED
    BY <1>2, <1>3

\* What is left of a list of different entries without one of them.
LEMMA CutEntries ==
    ASSUME NEW A, NEW s \in Seq(A), IsInjective(s), NEW m \in 1..Len(s),
           NEW t \in Seq(A), CutAt(t, s, m)
    PROVE  IsInjective(t) /\ ToSet(t) = ToSet(s) \ {s[m]}
  <1>1. Len(s) \in Nat /\ Len(t) = Len(s) - 1
    BY Entries DEF CutAt
  <1>2. \A i, j \in 1..Len(s) : s[i] = s[j] => i = j
    BY Distinct
  <1> DEFINE from(k) == IF k < m THEN k ELSE k + 1
  <1>3. \A k \in 1..Len(t) : from(k) \in 1..Len(s) /\ from(k) # m /\ t[k] = s[from(k)]
    BY <1>1 DEF CutAt
  <1>4. \A i \in 1..Len(s) : i # m => \E k \in 1..Len(t) : t[k] = s[i]
    <2> SUFFICES ASSUME NEW i \in 1..Len(s), i # m PROVE \E k \in 1..Len(t) : t[k] = s[i]
      OBVIOUS
    <2>1. CASE i < m
      BY <1>1, <1>3, <2>1
    <2>2. CASE ~(i < m)
      <3>1. PICK k \in 1..Len(t) : k = i - 1
        BY <1>1, <2>2
      <3>2. from(k) = i
        BY <2>2, <3>1
      <3> QED
        BY <1>3, <3>2
    <2> QED
      BY <2>1, <2>2
  <1>5. \A i, j \in 1..Len(t) : from(i) = from(j) => i = j
    BY <1>1
  <1>6. IsInjective(t)
    <2>1. \A i, j \in 1..Len(t) : t[i] = t[j] => i = j
      <3> HIDE DEF from
      <3> QED
        BY <1>2, <1>3, <1>5
    <2> QED
      BY <2>1, Distinct
  <1>7. ToSet(t) = ToSet(s) \ {s[m]}
    <2>1. ToSet(s) = {s[i] : i \in 1..Len(s)} /\ ToSet(t) = {t[i] : i \in 1..Len(t)}
      BY Entries DEF ToSet
    <2> HIDE DEF from
    <2> QED
      BY <1>2, <1>3, <1>4, <2>1
  <1> QED
    BY <1>6, <1>7

\* Moving an entry of a list of different ones.
LEMMA RemovedEntries ==
    ASSUME NEW A, NEW s \in Seq(A), IsInjective(s), NEW p \in ToSet(s)
    PROVE  /\ RemoveFirst(s, p) \in Seq(A) /\ IsInjective(RemoveFirst(s, p))
           /\ Len(RemoveFirst(s, p)) = Len(s) - 1 /\ ToSet(RemoveFirst(s, p)) = ToSet(s) \ {p}
  <1>1. PICK t \in Seq(A) : t = RemoveFirst(s, p)
    BY Removed
  <1>2. PICK m \in 1..Len(s) : s[m] = p /\ CutAt(t, s, m)
    BY <1>1, Removed
  <1>3. IsInjective(t) /\ ToSet(t) = ToSet(s) \ {s[m]}
    BY <1>2, CutEntries
  <1> QED
    BY <1>1, <1>2, <1>3 DEF CutAt

\* All entries of a list but the first.
LEMMA TailCut ==
    ASSUME NEW A, NEW s \in Seq(A), s # <<>>
    PROVE  Tail(s) \in Seq(A) /\ CutAt(Tail(s), s, 1) /\ 1 \in 1..Len(s) /\ s[1] \in A
  <1>1. Len(s) \in Nat \ {0} /\ 1 \in 1..Len(s) /\ s[1] \in A
    BY EmptySeq, LenProperties
  <1>2. PICK t \in Seq(A) : t = Tail(s) /\ Len(t) = Len(s) - 1 /\ \A i \in 1..Len(t) : t[i] = s[i + 1]
    BY HeadTailProperties
  <1>3. CutAt(t, s, 1)
    BY <1>1, <1>2 DEF CutAt
  <1> QED
    BY <1>1, <1>2, <1>3

\* A list of different entries is as long as their set is large.
LEMMA Sized ==
    ASSUME NEW A, NEW s \in Seq(A), IsInjective(s)
    PROVE  IsFiniteSet(ToSet(s)) /\ Cardinality(ToSet(s)) = Len(s) /\ Len(s) \in Nat
  <1>1. Len(s) \in Nat /\ DOMAIN s = 1..Len(s) /\ s \in [1..Len(s) -> ToSet(s)]
    <2>1. s \in [1..Len(s) -> A]
      BY LenProperties
    <2> QED
      BY <2>1, Entries
  <1>2. IsFiniteSet(1..Len(s)) /\ Cardinality(1..Len(s)) = Len(s)
    <2>1. PICK n \in Nat : n = Len(s)
      BY <1>1
    <2>2. IsFiniteSet(1..n) /\ Cardinality(1..n) = IF 1 > n THEN 0 ELSE n - 1 + 1
      BY FS_Interval
    <2>3. Cardinality(1..n) = n
      BY <2>2
    <2> QED
      BY <2>1, <2>2, <2>3
  <1>3. s \in Bijection(1..Len(s), ToSet(s))
    <2>1. \A i, j \in 1..Len(s) : s[i] = s[j] => i = j
      BY Distinct
    <2>2. \A x \in ToSet(s) : \E i \in 1..Len(s) : s[i] = x
      BY Entries
    <2> QED
      BY <1>1, <2>1, <2>2 DEF Bijection, Injection, Surjection, IsInjective
  <1> QED
    BY <1>1, <1>2, <1>3, FS_Bijection DEF ExistsBijection

\* What Keep leaves of a list.
LEMMA Kept ==
    ASSUME NEW A, NEW list \in Seq(A), NEW S
    PROVE  /\ Keep(list, S) \in Seq(A) /\ Len(Keep(list, S)) <= Len(list)
           /\ ToSet(Keep(list, S)) = ToSet(list) \intersect S
           /\ IsInjective(list) => IsInjective(Keep(list, S))
           /\ ToSet(list) \subseteq S => Keep(list, S) = list
  <1> DEFINE n == Len(list)
             Up(i) == {list[k] : k \in 1..i}
  <1>1. n \in Nat /\ ToSet(list) = Up(n) /\ \A i \in 1..n : list[i] \in A
    BY Entries, LenProperties DEF ToSet
  <1>2. PICK r \in [0..n -> Seq(A)] : KeptUpTo(r, list, S) /\ Keep(list, S) = r[n]
    BY KeepRun
  <1> DEFINE Good(i) == /\ Len(r[i]) <= i /\ ToSet(r[i]) = Up(i) \intersect S
                        /\ IsInjective(list) => IsInjective(r[i])
                        /\ ToSet(list) \subseteq S => Len(r[i]) = i /\ \A k \in 1..i : r[i][k] = list[k]
             Q == {i \in 0..n : Good(i)}
  <1>3. 0 \in Q
    <2>1. 0 \in 0..n /\ Up(0) = {}
      BY <1>1
    <2>2. r[0] \in Seq(A) /\ Len(r[0]) = 0 /\ ToSet(r[0]) = {}
      BY <1>2, Entries, EmptySeq DEF KeptUpTo
    <2>3. IsInjective(r[0])
      BY <2>2, Distinct
    <2>4. \A k \in 1..0 : r[0][k] = list[k]
      OBVIOUS
    <2> HIDE DEF n, Up
    <2> QED
      BY <2>1, <2>2, <2>3, <2>4
  <1>4. ASSUME NEW i \in 1..n, i - 1 \in Q PROVE i \in Q
    <2>1. PICK kept \in Seq(A) : kept = r[i - 1]
      BY <1>1, <1>2
    <2>2. PICK x \in A : x = list[i]
      BY <1>1
    <2>3. Up(i) = Up(i - 1) \union {x}
      <3>1. 1..i = 1..(i - 1) \union {i}
        BY <1>1
      <3> QED
        BY <2>2, <3>1
    <2>4. /\ Len(kept) <= i - 1 /\ ToSet(kept) = Up(i - 1) \intersect S
          /\ IsInjective(list) => IsInjective(kept)
          /\ ToSet(list) \subseteq S => Len(kept) = i - 1 /\ \A k \in 1..(i - 1) : kept[k] = list[k]
      <3> HIDE DEF Up, n
      <3> QED
        BY <1>4, <2>1
    <2>5. i \in 0..n /\ r[i] = IF x \in S THEN Append(kept, x) ELSE kept
      BY <1>1, <1>2, <2>1, <2>2 DEF KeptUpTo
    <2>6. CASE x \in S
      <3>1. PICK more \in Seq(A) :
               /\ more = Append(kept, x) /\ Len(more) = Len(kept) + 1
               /\ ToSet(more) = ToSet(kept) \union {x}
               /\ IsInjective(kept) /\ x \notin ToSet(kept) => IsInjective(more)
               /\ more[Len(kept) + 1] = x /\ \A k \in 1..Len(kept) : more[k] = kept[k]
        <4> DEFINE more == Append(kept, x)
        <4>1. /\ more \in Seq(A) /\ Len(more) = Len(kept) + 1
              /\ ToSet(more) = ToSet(kept) \union {x}
              /\ IsInjective(kept) /\ x \notin ToSet(kept) => IsInjective(more)
          BY Appended
        <4>2. more[Len(kept) + 1] = x /\ \A k \in 1..Len(kept) : more[k] = kept[k]
          BY AppendProperties
        <4> HIDE DEF more
        <4> QED
          BY <4>1, <4>2 DEF more
      <3>2. IsInjective(list) => x \notin ToSet(kept)
        <4>1. SUFFICES ASSUME IsInjective(list), x \in Up(i - 1) PROVE FALSE
          BY <2>4
        <4>2. PICK k \in 1..(i - 1) : list[k] = list[i]
          BY <2>2, <4>1
        <4>3. k \in 1..n /\ k # i
          BY <1>1, <4>2
        <4> QED
          BY <4>1, <4>2, <4>3, Distinct
      <3>3. Len(more) <= i
        BY <1>1, <2>4, <3>1, Entries
      <3>4. ToSet(more) = Up(i) \intersect S
        <4> HIDE DEF Up
        <4> QED
          BY <2>3, <2>4, <2>6, <3>1
      <3>5. ASSUME ToSet(list) \subseteq S
            PROVE  Len(more) = i /\ \A k \in 1..i : more[k] = list[k]
        <4>1. Len(kept) = i - 1 /\ \A k \in 1..(i - 1) : kept[k] = list[k]
          BY <2>4, <3>5
        <4> QED
          BY <2>2, <3>1, <4>1
      <3>6. r[i] = more
        BY <2>5, <2>6, <3>1
      <3> HIDE DEF Up, n
      <3> QED
        BY <2>4, <2>5, <3>1, <3>2, <3>3, <3>4, <3>5, <3>6
    <2>7. CASE x \notin S
      <3>1. r[i] = kept /\ ~(ToSet(list) \subseteq S)
        <4>1. x \in ToSet(list)
          BY <1>1, <2>2, Entries
        <4> QED
          BY <2>5, <2>7, <4>1
      <3>2. Up(i - 1) \intersect S = Up(i) \intersect S
        <4> HIDE DEF Up
        <4> QED
          BY <2>3, <2>7
      <3>3. Len(kept) <= i
        BY <1>1, <2>4, Entries
      <3> HIDE DEF Up, n
      <3> QED
        BY <2>4, <2>5, <3>1, <3>2, <3>3
    <2> QED
      BY <2>6, <2>7
  <1>5. Good(n)
    <2>1. \A i \in 0..n : i \in Q
      <3> HIDE DEF Q, n
      <3> QED
        BY <1>1, <1>3, <1>4, InductTo
    <2>2. n \in 0..n
      BY <1>1
    <2> QED
      BY <2>1, <2>2
  <1>6. ASSUME ToSet(list) \subseteq S PROVE Keep(list, S) = list
    <2>1. r[n] \in Seq(A) /\ Len(r[n]) = n /\ \A k \in 1..n : r[n][k] = list[k]
      BY <1>1, <1>2, <1>5, <1>6
    <2> QED
      BY <1>2, <2>1, SeqEqual
  <1>7. r[n] \in Seq(A)
    BY <1>1
  <1> QED
    BY <1>1, <1>2, <1>5, <1>6, <1>7

-----------------------------------------------------------------------------
(* The sort.                                                                *)

\* Where the scans stop, and what they pass.
LEMMA ScanUpStops ==
    ASSUME NEW list, Len(list) \in Nat, NEW val, NEW pivot \in Int, NEW i \in 0..Len(list),
           \A k \in 1..Len(list) : val[list[k]] \in Int
    PROVE  \E k \in (i + 1)..(Len(list) + 1) :
              /\ k = ScanUp(list, val, pivot, i)
              /\ k > Len(list) \/ val[list[k]] >= pivot
              /\ \A m \in (i + 1)..(k - 1) : val[list[m]] < pivot
  <1> DEFINE I == {k \in (i + 1)..(Len(list) + 1) : k > Len(list) \/ val[list[k]] >= pivot}
  <1>1. Len(list) + 1 \in I /\ I \in SUBSET Nat
    OBVIOUS
  <1>2. PICK k \in I : k = Min(I) /\ \A m \in I : k <= m
    <2>1. \E k \in I : \A m \in I : k <= m
      <3> HIDE DEF I
      <3> QED
        BY <1>1, LeastNat
    <2>2. Min(I) \in I /\ \A m \in I : Min(I) <= m
      <3> HIDE DEF I
      <3> QED
        BY <2>1 DEF Min
    <2> HIDE DEF I
    <2> QED
      BY <2>2
  <1>3. k \in (i + 1)..(Len(list) + 1) /\ (k > Len(list) \/ val[list[k]] >= pivot)
    OBVIOUS
  <1>4. ASSUME NEW m \in (i + 1)..(k - 1) PROVE val[list[m]] < pivot
    <2>1. m \in (i + 1)..(Len(list) + 1) /\ m < k /\ m \in 1..Len(list)
      BY <1>3
    <2>2. m \notin I
      BY <1>2, <1>3, <2>1
    <2> QED
      BY <2>1, <2>2
  <1>5. k = ScanUp(list, val, pivot, i)
    BY <1>2 DEF ScanUp
  <1> HIDE DEF I
  <1> QED
    BY <1>3, <1>4, <1>5

LEMMA ScanDownStops ==
    ASSUME NEW list, Len(list) \in Nat, NEW val, NEW pivot \in Int, NEW j \in 1..(Len(list) + 1),
           \A k \in 1..Len(list) : val[list[k]] \in Int
    PROVE  \E k \in 0..(j - 1) :
              /\ k = ScanDown(list, val, pivot, j)
              /\ k = 0 \/ val[list[k]] <= pivot
              /\ \A m \in (k + 1)..(j - 1) : val[list[m]] > pivot
  <1> DEFINE I == {k \in 0..(j - 1) : k = 0 \/ val[list[k]] <= pivot}
  <1>1. 0 \in I /\ I \in SUBSET (0..(j - 1)) /\ j - 1 \in Nat
    OBVIOUS
  <1>2. PICK k \in I : k = Max(I) /\ \A m \in I : k >= m
    <2> HIDE DEF I
    <2>1. I # {}
      BY <1>1
    <2> QED
      BY <1>1, <2>1, GreatestNat
  <1>3. k \in 0..(j - 1) /\ (k = 0 \/ val[list[k]] <= pivot)
    OBVIOUS
  <1>4. ASSUME NEW m \in (k + 1)..(j - 1) PROVE val[list[m]] > pivot
    <2>1. m \in 0..(j - 1) /\ m > k /\ m \in 1..Len(list)
      BY <1>3
    <2>2. m \notin I
      BY <1>2, <1>3, <2>1
    <2> QED
      BY <2>1, <2>2
  <1>5. k = ScanDown(list, val, pivot, j)
    BY <1>2 DEF ScanDown
  <1> HIDE DEF I
  <1> QED
    BY <1>3, <1>4, <1>5

\* t has the entries of s in another order.
Shuffled(t, s) ==
    Len(t) = Len(s) /\ ToSet(t) = ToSet(s) /\ (IsInjective(s) => IsInjective(t))

\* Two nodes change places.
LEMMA Swapped ==
    ASSUME NEW A, NEW s \in Seq(A), NEW i \in 1..Len(s), NEW j \in 1..Len(s), i # j
    PROVE  /\ SwapNodes(s, i, j) \in Seq(A) /\ Shuffled(SwapNodes(s, i, j), s)
           /\ SwapNodes(s, i, j)[i] = s[j] /\ SwapNodes(s, i, j)[j] = s[i]
           /\ \A k \in 1..Len(s) : k # i /\ k # j => SwapNodes(s, i, j)[k] = s[k]
  <1>1. Len(s) \in Nat /\ \A k \in 1..Len(s) : s[k] \in A
    BY LenProperties
  <1>2. PICK u \in Seq(A) : /\ u = [s EXCEPT ![i] = s[j]] /\ Len(u) = Len(s)
                            /\ \A k \in 1..Len(s) : u[k] = IF k = i THEN s[j] ELSE s[k]
    <2>1. PICK e \in A : e = s[j]
      BY <1>1
    <2>2. /\ [s EXCEPT ![i] = e] \in Seq(A) /\ Len([s EXCEPT ![i] = e]) = Len(s)
          /\ \A k \in 1..Len(s) : [s EXCEPT ![i] = e][k] = IF k = i THEN e ELSE s[k]
      BY ExceptSeq
    <2> QED
      BY <2>1, <2>2
  <1>3. PICK t \in Seq(A) : /\ t = [u EXCEPT ![j] = s[i]] /\ Len(t) = Len(u)
                            /\ \A k \in 1..Len(u) : t[k] = IF k = j THEN s[i] ELSE u[k]
    <2>1. PICK e \in A : e = s[i]
      BY <1>1
    <2>2. j \in 1..Len(u)
      BY <1>2
    <2>3. /\ [u EXCEPT ![j] = e] \in Seq(A) /\ Len([u EXCEPT ![j] = e]) = Len(u)
          /\ \A k \in 1..Len(u) : [u EXCEPT ![j] = e][k] = IF k = j THEN e ELSE u[k]
      BY <2>2, ExceptSeq
    <2> QED
      BY <2>1, <2>3
  <1>4. SwapNodes(s, i, j) = t
    BY <1>2, <1>3 DEF SwapNodes
  <1>5. /\ Len(t) = Len(s) /\ t[i] = s[j] /\ t[j] = s[i]
        /\ \A k \in 1..Len(s) : k # i /\ k # j => t[k] = s[k]
    BY <1>2, <1>3
  <1>6. ToSet(t) = ToSet(s)
    <2>1. ToSet(s) = {s[k] : k \in 1..Len(s)} /\ ToSet(t) = {t[k] : k \in 1..Len(s)}
      BY <1>5, Entries DEF ToSet
    <2>2. ASSUME NEW k \in 1..Len(s) PROVE t[k] \in ToSet(s) /\ s[k] \in ToSet(t)
      BY <1>5, <2>1
    <2> QED
      BY <2>1, <2>2
  <1>7. ASSUME IsInjective(s) PROVE IsInjective(t)
    <2>1. \A k, m \in 1..Len(s) : s[k] = s[m] => k = m
      BY <1>7, Distinct
    <2>2. \A k, m \in 1..Len(t) : t[k] = t[m] => k = m
      BY <1>5, <2>1
    <2> QED
      BY <2>2, Distinct
  <1> QED
    BY <1>4, <1>5, <1>6, <1>7 DEF Shuffled

\* Where the two scans are: what they have passed is on the right side of the
\* pivot, which stops them before the head in the first turn.
Parts(A, n) == [list : Seq(A), i : 0..(n + 1), j : 0..(n + 1), met : BOOLEAN, head : BOOLEAN]
AtMost(s, val, pivot, i) == \A k \in 1..i : val[s[k]] <= pivot
AtLeast(s, val, pivot, j) == \A k \in j..Len(s) : val[s[k]] >= pivot

Scanned(part, l, val, pivot) ==
    /\ Shuffled(part.list, l) /\ part.head = FALSE
    /\ \/ /\ part.met /\ 1 <= part.j /\ part.j < Len(l)
          /\ AtMost(part.list, val, pivot, part.j) /\ AtLeast(part.list, val, pivot, part.j + 1)
       \/ /\ ~part.met /\ part.i = 0 /\ part.j = Len(l) + 1 /\ val[part.list[1]] = pivot
       \/ /\ ~part.met /\ 1 <= part.i /\ part.i < part.j /\ part.j <= Len(l)
          /\ AtMost(part.list, val, pivot, part.i) /\ AtLeast(part.list, val, pivot, part.j)

\* What a turn finds when the scans have not met: neither reaches the head.
Found(s, val, pivot, i, j, i1, j1) ==
    /\ i1 = ScanUp(s, val, pivot, i) /\ j1 = ScanDown(s, val, pivot, j)
    /\ i1 \in 1..Len(s) /\ i < i1 /\ j1 \in 1..Len(s) /\ j1 < j
    /\ val[s[i1]] >= pivot /\ val[s[j1]] <= pivot
    /\ \A m \in 1..Len(s) : m < i1 => val[s[m]] <= pivot
    /\ \A m \in 1..Len(s) : m > j1 => val[s[m]] >= pivot
    /\ i1 >= j1 => j1 < Len(s)

LEMMA TurnFinds ==
    ASSUME NEW A, NEW val, \A x \in A : val[x] \in Int, NEW l \in Seq(A), Len(l) >= 2,
           NEW pivot \in Int, NEW part \in Parts(A, Len(l)), Scanned(part, l, val, pivot), ~part.met
    PROVE  \E i1, j1 \in Nat : Found(part.list, val, pivot, part.i, part.j, i1, j1)
  <1>1. PICK s \in Seq(A), n \in Nat : s = part.list /\ n = Len(s) /\ n = Len(l) /\ n >= 2
    <2>1. part.list \in Seq(A) /\ Len(part.list) = Len(l) /\ Len(l) \in Nat
      BY Entries DEF Scanned, Shuffled, Parts
    <2> QED
      BY <2>1
  <1>2. PICK i \in Nat, j \in Nat : i = part.i /\ j = part.j
    BY <1>1 DEF Parts
  <1>3. \A k \in 1..n : val[s[k]] \in Int
    BY <1>1, LenProperties
  <1>4. \/ i = 0 /\ j = n + 1 /\ val[s[1]] = pivot
        \/ 1 <= i /\ i < j /\ j <= n /\ AtMost(s, val, pivot, i) /\ AtLeast(s, val, pivot, j)
    BY <1>1, <1>2 DEF Scanned
  <1>5. PICK i1 \in (i + 1)..(n + 1) :
           /\ i1 = ScanUp(s, val, pivot, i) /\ (i1 > n \/ val[s[i1]] >= pivot)
           /\ \A m \in (i + 1)..(i1 - 1) : val[s[m]] < pivot
    <2>1. i \in 0..Len(s) /\ \A k \in 1..Len(s) : val[s[k]] \in Int
      BY <1>1, <1>3, <1>4
    <2> QED
      BY <1>1, <2>1, ScanUpStops
  <1>6. PICK j1 \in 0..(j - 1) :
           /\ j1 = ScanDown(s, val, pivot, j) /\ (j1 = 0 \/ val[s[j1]] <= pivot)
           /\ \A m \in (j1 + 1)..(j - 1) : val[s[m]] > pivot
    <2>1. j \in 1..(Len(s) + 1) /\ \A k \in 1..Len(s) : val[s[k]] \in Int
      BY <1>1, <1>3, <1>4
    <2> QED
      BY <1>1, <2>1, ScanDownStops
  <1>7. CASE i = 0 /\ j = n + 1 /\ val[s[1]] = pivot
    <2>1. i1 = 1
      <3>1. SUFFICES ASSUME i1 > 1 PROVE FALSE
        BY <1>5, <1>7
      <3>2. 1 \in (i + 1)..(i1 - 1)
        BY <1>5, <1>7, <3>1
      <3>3. val[s[1]] < pivot
        BY <1>5, <3>2
      <3> QED
        BY <1>7, <3>3
    <2>2. j1 >= 1 /\ j1 <= n
      <3>1. SUFFICES ASSUME j1 = 0 PROVE FALSE
        BY <1>6, <1>7
      <3>2. 1 \in (j1 + 1)..(j - 1)
        BY <1>1, <1>7, <3>1
      <3>3. val[s[1]] > pivot
        BY <1>6, <3>2
      <3> QED
        BY <1>7, <3>3
    <2>3. \A m \in 1..n : m > j1 => val[s[m]] >= pivot
      <3>1. \A m \in 1..n : m > j1 => m \in (j1 + 1)..(j - 1)
        BY <1>7, <2>2
      <3> QED
        BY <1>3, <1>6, <3>1
    <2>4. val[s[1]] >= pivot /\ \A m \in 1..n : ~(m < 1)
      BY <1>7
    <2>5. i1 \in 1..n /\ j1 \in 1..n /\ i < i1 /\ j1 < j /\ val[s[j1]] <= pivot
      BY <1>1, <1>6, <1>7, <2>1, <2>2
    <2>6. i1 >= j1 => j1 < n
      BY <1>1, <2>1, <2>2
    <2>7. Found(s, val, pivot, i, j, i1, j1)
      BY <1>1, <1>5, <1>6, <2>1, <2>3, <2>4, <2>5, <2>6 DEF Found
    <2> QED
      BY <1>1, <1>2, <2>5, <2>7
  <1>8. CASE 1 <= i /\ i < j /\ j <= n /\ AtMost(s, val, pivot, i) /\ AtLeast(s, val, pivot, j)
    <2>1. (\A k \in 1..i : val[s[k]] <= pivot) /\ \A k \in j..n : val[s[k]] >= pivot
      BY <1>1, <1>8 DEF AtMost, AtLeast
    <2>2. i1 <= j
      <3>1. SUFFICES ASSUME i1 > j PROVE FALSE
        BY <1>5
      <3>2. j \in (i + 1)..(i1 - 1) /\ j \in j..n /\ j \in 1..n
        BY <1>5, <1>8, <3>1
      <3>3. val[s[j]] < pivot /\ val[s[j]] >= pivot /\ val[s[j]] \in Int
        BY <1>3, <1>5, <2>1, <3>2
      <3> QED
        BY <3>3
    <2>3. j1 >= i
      <3>1. SUFFICES ASSUME j1 < i PROVE FALSE
        BY <1>6
      <3>2. i \in (j1 + 1)..(j - 1) /\ i \in 1..i /\ i \in 1..n
        BY <1>6, <1>8, <3>1
      <3>3. val[s[i]] > pivot /\ val[s[i]] <= pivot /\ val[s[i]] \in Int
        BY <1>3, <1>6, <2>1, <3>2
      <3> QED
        BY <3>3
    <2>4. ASSUME NEW m \in 1..n, m < i1 PROVE val[s[m]] <= pivot
      <3>1. m \in 1..i \/ m \in (i + 1)..(i1 - 1)
        BY <1>5, <2>4
      <3> QED
        BY <1>3, <1>5, <2>1, <3>1
    <2>5. ASSUME NEW m \in 1..n, m > j1 PROVE val[s[m]] >= pivot
      <3>1. m \in j..n \/ m \in (j1 + 1)..(j - 1)
        BY <1>6, <2>5
      <3> QED
        BY <1>3, <1>6, <2>1, <3>1
    <2>6. i1 \in 1..n /\ j1 \in 1..n /\ i < i1 /\ j1 < j /\ j1 < n
      BY <1>1, <1>5, <1>6, <1>8, <2>2, <2>3
    <2>7. val[s[i1]] >= pivot /\ val[s[j1]] <= pivot
      BY <1>5, <1>6, <2>6
    <2>8. Found(s, val, pivot, i, j, i1, j1)
      BY <1>1, <1>5, <1>6, <2>4, <2>5, <2>6, <2>7 DEF Found
    <2>9. i1 \in Nat /\ j1 \in Nat
      BY <2>6
    <2> QED
      BY <1>1, <1>2, <2>8, <2>9
  <1> QED
    BY <1>4, <1>7, <1>8

\* A turn keeps that, and brings i on until the scans meet.
LEMMA TurnScanned ==
    ASSUME NEW A, NEW val, \A x \in A : val[x] \in Int, NEW l \in Seq(A), Len(l) >= 2,
           NEW pivot \in Int, NEW part \in Parts(A, Len(l)), Scanned(part, l, val, pivot)
    PROVE  /\ Turn(part, val, pivot) \in Parts(A, Len(l))
           /\ Scanned(Turn(part, val, pivot), l, val, pivot)
           /\ Turn(part, val, pivot).met \/ Turn(part, val, pivot).i > part.i
  <1>1. CASE part.met
    <2>1. Turn(part, val, pivot) = part
      BY <1>1, Zenon DEF Turn
    <2> QED
      BY <1>1, <2>1
  <1>2. CASE ~part.met
    <2>1. PICK s \in Seq(A), n \in Nat : s = part.list /\ n = Len(s) /\ n = Len(l) /\ n >= 2 /\ Shuffled(s, l)
      <3>1. part.list \in Seq(A) /\ Len(part.list) = Len(l) /\ Len(l) \in Nat /\ Shuffled(part.list, l)
        BY Entries DEF Scanned, Shuffled, Parts
      <3> QED
        BY <3>1
    <2>2. PICK i1 \in Nat, j1 \in Nat : Found(s, val, pivot, part.i, part.j, i1, j1)
      BY <1>2, <2>1, TurnFinds
    <2>3. /\ i1 = ScanUp(s, val, pivot, part.i) /\ j1 = ScanDown(s, val, pivot, part.j)
          /\ i1 \in 1..n /\ part.i < i1 /\ j1 \in 1..n /\ j1 < part.j
          /\ val[s[i1]] >= pivot /\ val[s[j1]] <= pivot
          /\ \A m \in 1..n : m < i1 => val[s[m]] <= pivot
          /\ \A m \in 1..n : m > j1 => val[s[m]] >= pivot
          /\ i1 >= j1 => j1 < n
      BY <2>1, <2>2 DEF Found
    <2>4. part.head = FALSE /\ part.met = FALSE /\ part.list = s
      BY <1>2, <2>1 DEF Scanned, Parts
    <2>5. CASE i1 >= j1
      <3>1. j1 \in 0..(Len(l) + 1) /\ FALSE \in BOOLEAN
        BY <2>1, <2>3
      <3> DEFINE new == [part EXCEPT !.met = TRUE, !.j = j1, !.head = FALSE]
      <3>2. /\ new.list = s /\ new.i = part.i /\ new.j = j1 /\ new.met = TRUE /\ new.head = FALSE
            /\ new \in Parts(A, Len(l))
        BY <2>4, <3>1 DEF Parts
      <3>3. Turn(part, val, pivot) = new
        <4>1. Turn(part, val, pivot) = [part EXCEPT !.met = TRUE, !.j = j1, !.head = i1 > Len(s) \/ j1 = 0]
          BY <1>2, <2>1, <2>3, <2>5 DEF Turn
        <4>2. (i1 > Len(s) \/ j1 = 0) = FALSE
          BY <2>1, <2>3
        <4> QED
          BY <4>1, <4>2, Zenon
      <3> HIDE DEF new
      <3>4. AtMost(s, val, pivot, j1)
        <4>1. ASSUME NEW k \in 1..j1 PROVE val[s[k]] <= pivot
          <5>1. k \in 1..n /\ (k < i1 \/ k = j1)
            BY <2>3, <2>5
          <5> QED
            BY <2>3, <5>1
        <4> QED
          BY <4>1 DEF AtMost
      <3>5. AtLeast(s, val, pivot, j1 + 1)
        <4>1. ASSUME NEW k \in (j1 + 1)..n PROVE val[s[k]] >= pivot
          BY <2>3
        <4> QED
          BY <2>1, <4>1 DEF AtLeast
      <3>6. Scanned(new, l, val, pivot)
        BY <2>1, <2>3, <2>5, <3>2, <3>4, <3>5 DEF Scanned
      <3> QED
        BY <3>2, <3>3, <3>6
    <2>6. CASE i1 < j1
      <3>1. PICK t \in Seq(A) :
               /\ t = SwapNodes(s, i1, j1) /\ Shuffled(t, s) /\ t[i1] = s[j1] /\ t[j1] = s[i1]
               /\ \A k \in 1..n : k # i1 /\ k # j1 => t[k] = s[k]
        <4>1. i1 \in 1..Len(s) /\ j1 \in 1..Len(s) /\ i1 # j1
          BY <2>1, <2>3, <2>6
        <4>2. /\ SwapNodes(s, i1, j1) \in Seq(A) /\ Shuffled(SwapNodes(s, i1, j1), s)
              /\ SwapNodes(s, i1, j1)[i1] = s[j1] /\ SwapNodes(s, i1, j1)[j1] = s[i1]
              /\ \A k \in 1..Len(s) : k # i1 /\ k # j1 => SwapNodes(s, i1, j1)[k] = s[k]
          BY <4>1, Swapped
        <4> QED
          BY <2>1, <4>2
      <3>2. i1 \in 0..(Len(l) + 1) /\ j1 \in 0..(Len(l) + 1) /\ FALSE \in BOOLEAN
        BY <2>1, <2>3
      <3> DEFINE new == [part EXCEPT !.list = t, !.i = i1, !.j = j1]
      <3>3. /\ new.list = t /\ new.i = i1 /\ new.j = j1 /\ new.met = FALSE /\ new.head = FALSE
            /\ new \in Parts(A, Len(l))
        BY <2>4, <3>2 DEF Parts
      <3>4. Turn(part, val, pivot) = new
        <4>1. Turn(part, val, pivot) = [part EXCEPT !.list = SwapNodes(s, i1, j1), !.i = i1, !.j = j1]
          BY <1>2, <2>1, <2>3, <2>6 DEF Turn
        <4> QED
          BY <3>1, <4>1, Zenon
      <3> HIDE DEF new
      <3>5. AtMost(t, val, pivot, i1)
        <4>1. ASSUME NEW k \in 1..i1 PROVE val[t[k]] <= pivot
          <5>1. k \in 1..n /\ k # j1 /\ (k = i1 \/ k < i1)
            BY <2>3, <2>6
          <5> QED
            BY <2>3, <3>1, <5>1
        <4> QED
          BY <4>1 DEF AtMost
      <3>6. AtLeast(t, val, pivot, j1)
        <4>1. ASSUME NEW k \in j1..n PROVE val[t[k]] >= pivot
          <5>1. k \in 1..n /\ k # i1 /\ (k = j1 \/ k > j1)
            BY <2>3, <2>6
          <5> QED
            BY <2>3, <3>1, <5>1
        <4> QED
          BY <2>1, <3>1, <4>1 DEF AtLeast, Shuffled
      <3>7. Shuffled(t, l)
        BY <2>1, <3>1 DEF Shuffled
      <3>8. Scanned(new, l, val, pivot)
        BY <2>1, <2>3, <2>6, <3>3, <3>5, <3>6, <3>7 DEF Scanned
      <3> QED
        BY <2>3, <3>3, <3>4, <3>8
    <2> QED
      BY <2>3, <2>5, <2>6
  <1> QED
    BY <1>1, <1>2

\* What the loop leaves: two parts, and the head has not been read.
Parted(part, l, val) ==
    /\ part \in Parts(ToSet(l), Len(l)) /\ Shuffled(part.list, l) /\ part.head = FALSE
    /\ 1 <= part.j /\ part.j < Len(l)
    /\ \A i \in 1..part.j : \A k \in (part.j + 1)..Len(l) : val[part.list[i]] <= val[part.list[k]]

LEMMA PartitionParts ==
    ASSUME NEW A, NEW val, \A x \in A : val[x] \in Int, NEW l \in Seq(A), Len(l) >= 2
    PROVE  Parted(Partition(l, val), l, val)
  <1> DEFINE B == ToSet(l)
             pivot == val[l[1]]
             turns == Append(l, l[1])
             n == Len(turns)
             V == {part \in Parts(B, Len(l)) : Scanned(part, l, val, pivot)}
             a == [list |-> l, i |-> 0, j |-> Len(l) + 1, met |-> FALSE, head |-> FALSE]
             step == [i \in 1..n |-> [part \in V |-> Turn(part, val, pivot)]]
             Is(f) == f = [T \in SUBSET (1..n) |-> IF T = {} THEN a ELSE Turn(f[T \ {Max(T)}], val, pivot)]
  <1>1. /\ Len(l) \in Nat /\ B \in SUBSET A /\ l \in Seq(B) /\ \A x \in B : val[x] \in Int
        /\ l[1] \in B /\ pivot \in Int
    <2>1. Len(l) \in Nat /\ B \in SUBSET A /\ \A i \in 1..Len(l) : l[i] \in B
      BY Entries
    <2>2. l \in [1..Len(l) -> B]
      <3>1. l \in [1..Len(l) -> A]
        BY LenProperties
      <3> QED
        BY <2>1, <3>1
    <2>3. l \in Seq(B)
      BY <2>1, <2>2, SeqDef
    <2>4. 1 \in 1..Len(l)
      BY <2>1
    <2> QED
      BY <2>1, <2>3, <2>4
  <1>2. n \in Nat /\ n = Len(l) + 1 /\ DOMAIN turns = 1..n
    <2>1. turns \in Seq(B) /\ n = Len(l) + 1
      BY <1>1, Appended
    <2> QED
      BY <1>1, <2>1, LenProperties
  <1>3. a \in V
    <2>1. a \in Parts(B, Len(l))
      BY <1>1 DEF Parts
    <2>2. Shuffled(l, l)
      BY DEF Shuffled
    <2>3. Scanned(a, l, val, pivot)
      BY <2>2 DEF Scanned
    <2> QED
      BY <2>1, <2>3
  <1>4. ASSUME NEW part \in V
        PROVE  /\ Turn(part, val, pivot) \in V
               /\ Turn(part, val, pivot).met \/ Turn(part, val, pivot).i > part.i
    <2>1. part \in Parts(B, Len(l)) /\ Scanned(part, l, val, pivot)
      OBVIOUS
    <2> HIDE DEF B, pivot
    <2> QED
      BY <1>1, <2>1, TurnScanned
  <1>5. step \in [1..n -> [V -> V]]
    <2> HIDE DEF V, n, pivot
    <2> QED
      BY <1>4
  <1>6. PICK f \in [SUBSET (1..n) -> V] : FoldIs(f, a, step, n)
    <2> HIDE DEF step, n, a, V
    <2> QED
      BY <1>2, <1>3, <1>5, FoldExists
  <1>7. Is(f)
    <2>1. ASSUME NEW T \in SUBSET (1..n), T # {}
          PROVE  step[Max(T)][f[T \ {Max(T)}]] = Turn(f[T \ {Max(T)}], val, pivot)
      <3> HIDE DEF V, n, pivot
      <3>1. Max(T) \in 1..n
        BY <2>1, <1>2, GreatestTurn
      <3>2. f[T \ {Max(T)}] \in V
        BY <1>6
      <3> QED
        BY <3>1, <3>2
    <2> HIDE DEF step, n, a, V, pivot
    <2> QED
      BY <1>6, <2>1 DEF FoldIs
  <1>8. PICK C : C = (CHOOSE g : Is(g)) /\ Is(C)
    BY <1>7
  <1>9. Partition(l, val) = C[1..n]
    <2>1. C = CHOOSE g : g = [T \in SUBSET (1..n) |->
                 IF T = {} THEN a ELSE Turn(g[T \ {Max(T)}], val, pivot)]
      BY <1>8
    <2> HIDE DEF Is, V
    <2> QED
      BY <1>2, <2>1 DEF Partition, FoldLeft, MapThenFoldSet
  <1>10. C[{}] = a
    <2>1. {} \in SUBSET (1..n)
      OBVIOUS
    <2> HIDE DEF n, a, pivot
    <2> QED
      BY <1>8, <2>1
  <1>11. ASSUME NEW T \in SUBSET (1..n), T # {}, C[T \ {Max(T)}] \in V
         PROVE  C[T] = step[Max(T)][C[T \ {Max(T)}]]
    <2> HIDE DEF V, n, a, pivot
    <2>1. Max(T) \in 1..n
      BY <1>2, <1>11, GreatestTurn
    <2>2. C[T] = Turn(C[T \ {Max(T)}], val, pivot)
      BY <1>8, <1>11
    <2> HIDE DEF Is
    <2> QED
      BY <1>11, <2>1, <2>2
  <1>12. FoldOf(C, a, step, n, V)
    <2> HIDE DEF step, n, a, Is, V
    <2> QED
      BY <1>10, <1>11 DEF FoldOf
  <1>13. PICK r \in [0..n -> V] : RunOf(r, a, step, n) /\ C[1..n] = r[n]
    <2> HIDE DEF step, n, a, Is, V
    <2>1. Reaches(V, a, step, n, C[1..n])
      BY <1>2, <1>3, <1>5, <1>12, FoldRuns
    <2> QED
      BY <2>1 DEF Reaches
  <1>14. ASSUME NEW i \in 1..n PROVE r[i] = Turn(r[i - 1], val, pivot)
    <2>1. r[i - 1] \in V
      <3> HIDE DEF V
      <3>1. i - 1 \in 0..n
        BY <1>2
      <3> QED
        BY <3>1, <1>13
    <2> HIDE DEF V, n, pivot
    <2> QED
      BY <1>13, <2>1 DEF RunOf
  <1> DEFINE Q == {i \in 0..n : r[i].met \/ r[i].i >= i}
  <1>15. 0 \in Q
    <2>1. r[0] \in V /\ 0 \in 0..n
      <3> HIDE DEF V
      <3> QED
        BY <1>2, <1>13
    <2>2. r[0].i \in 0..(Len(l) + 1)
      BY <2>1 DEF Parts
    <2> HIDE DEF V, n
    <2> QED
      BY <2>1, <2>2
  <1>16. ASSUME NEW i \in 1..n, i - 1 \in Q PROVE i \in Q
    <2>1. r[i - 1] \in V /\ r[i] \in V /\ i \in 0..n
      <3>1. i - 1 \in 0..n /\ i \in 0..n
        BY <1>2
      <3> HIDE DEF V, n
      <3> QED
        BY <1>13, <3>1
    <2>2. r[i].met \/ r[i].i > r[i - 1].i
      <3> HIDE DEF V, pivot
      <3> QED
        BY <1>4, <1>14, <2>1
    <2>3. r[i - 1].i \in Nat /\ r[i].i \in Nat
      BY <1>1, <2>1 DEF Parts
    <2>4. CASE r[i - 1].met
      <3>1. r[i] = r[i - 1]
        <4> HIDE DEF V, pivot, n
        <4> QED
          BY <1>14, <2>4, Zenon DEF Turn
      <3> HIDE DEF V, n
      <3> QED
        BY <2>1, <2>4, <3>1, Zenon
    <2>5. CASE ~r[i - 1].met
      <3>1. r[i - 1].i >= i - 1
        <4> HIDE DEF V, n
        <4> QED
          BY <1>16, <2>5
      <3> HIDE DEF V, n
      <3> QED
        BY <2>1, <2>2, <2>3, <3>1
    <2> QED
      BY <2>4, <2>5
  <1>17. n \in Q
    <2>1. n \in 0..n
      BY <1>2
    <2> HIDE DEF Q, n
    <2> QED
      BY <1>2, <1>15, <1>16, <2>1, InductTo
  <1>18. PICK part : part = Partition(l, val) /\ part = r[n]
    BY <1>9, <1>13
  <1>19. part \in V /\ (part.met \/ part.i >= n)
    <2>1. r[n] \in V
      <3> HIDE DEF V, n
      <3> QED
        BY <1>2, <1>13
    <2> HIDE DEF V, n
    <2> QED
      BY <1>17, <1>18, <2>1
  <1>20. part \in Parts(B, Len(l)) /\ Scanned(part, l, val, pivot)
    BY <1>19
  <1> HIDE DEF B, n, pivot, V, a, step, Is, Q
  <1>21. part.met
    <2>1. SUFFICES ASSUME ~part.met PROVE FALSE
      OBVIOUS
    <2>2. part.i = 0 \/ (part.i < part.j /\ part.j <= Len(l))
      BY <1>20, <2>1 DEF Scanned
    <2>3. part.i \in Nat /\ part.j \in Nat /\ part.i >= n
      BY <1>1, <1>19, <1>20, <2>1 DEF Parts
    <2> QED
      BY <1>1, <1>2, <2>2, <2>3
  <1>22. /\ Shuffled(part.list, l) /\ part.head = FALSE /\ 1 <= part.j /\ part.j < Len(l)
         /\ AtMost(part.list, val, pivot, part.j) /\ AtLeast(part.list, val, pivot, part.j + 1)
    BY <1>20, <1>21 DEF Scanned
  <1>23. ASSUME NEW i \in 1..part.j, NEW k \in (part.j + 1)..Len(l)
         PROVE  val[part.list[i]] <= val[part.list[k]]
    <2>1. Len(part.list) = Len(l)
      BY <1>22 DEF Shuffled
    <2>2. val[part.list[i]] <= pivot /\ val[part.list[k]] >= pivot
      BY <1>22, <2>1 DEF AtMost, AtLeast
    <2>3. part.j \in Nat /\ part.list \in Seq(B)
      BY <1>1, <1>20 DEF Parts
    <2>4. i \in 1..Len(l) /\ k \in 1..Len(l)
      BY <1>1, <1>22, <2>3
    <2>5. part.list[i] \in B /\ part.list[k] \in B
      BY <2>1, <2>3, <2>4, LenProperties
    <2>6. val[part.list[i]] \in Int /\ val[part.list[k]] \in Int
      BY <1>1, <2>5
    <2> QED
      BY <1>1, <2>2, <2>6
  <1> QED
    BY <1>18, <1>20, <1>22, <1>23 DEF Parted, B

\* The two parts of a list that is cut behind its entry j.
Cuts(u, v, s, A, j) ==
    /\ u \in Seq(A) /\ v \in Seq(A) /\ u = SubSeq(s, 1, j) /\ v = SubSeq(s, j + 1, Len(s))
    /\ Len(u) = j /\ Len(v) = Len(s) - j
    /\ Cat(s, u, v) /\ ToSet(s) = ToSet(u) \union ToSet(v)
    /\ IsInjective(s) => /\ IsInjective(u) /\ IsInjective(v)
                         /\ ToSet(u) \intersect ToSet(v) = {}

LEMMA CutInTwo ==
    ASSUME NEW A, NEW s \in Seq(A), NEW j \in Nat, 1 <= j, j < Len(s)
    PROVE  \E u, v : Cuts(u, v, s, A, j)
  <1>1. Len(s) \in Nat /\ \A i \in 1..Len(s) : s[i] \in A
    BY LenProperties
  <1>2. PICK u \in Seq(A) : u = SubSeq(s, 1, j) /\ Len(u) = j /\ \A i \in 1..j : u[i] = s[i]
    <2>1. 1 \in Nat /\ 1 <= j + 1 /\ j <= Len(s)
      BY <1>1
    <2>2. /\ SubSeq(s, 1, j) \in Seq(A) /\ Len(SubSeq(s, 1, j)) = j - 1 + 1
          /\ PartOf(SubSeq(s, 1, j), s, 1)
      BY <2>1, PartIs
    <2>3. PICK u \in Seq(A) : u = SubSeq(s, 1, j) /\ Len(u) = j - 1 + 1 /\ PartOf(u, s, 1)
      BY <2>2
    <2>4. Len(u) = j /\ \A i \in 1..j : 1 + i - 1 = i
      BY <2>3
    <2> QED
      BY <2>3, <2>4 DEF PartOf
  <1>3. PICK v \in Seq(A) : /\ v = SubSeq(s, j + 1, Len(s)) /\ Len(v) = Len(s) - j
                            /\ \A i \in 1..Len(v) : v[i] = s[j + i]
    <2>1. PICK b \in Nat : b = j + 1 /\ 1 <= b
      BY <1>1
    <2>2. PICK n \in Nat : n = Len(s) /\ b <= n + 1 /\ n <= Len(s)
      BY <1>1, <2>1
    <2>3. /\ SubSeq(s, b, n) \in Seq(A) /\ Len(SubSeq(s, b, n)) = n - b + 1
          /\ PartOf(SubSeq(s, b, n), s, b)
      BY <2>1, <2>2, PartIs
    <2>4. PICK v \in Seq(A) : v = SubSeq(s, b, n) /\ Len(v) = n - b + 1 /\ PartOf(v, s, b)
      BY <2>3
    <2>5. Len(v) = Len(s) - j
      BY <1>1, <2>1, <2>2, <2>4
    <2>6. \A i \in 1..Len(v) : b + i - 1 = j + i
      BY <1>1, <2>1, <2>5
    <2>7. \A i \in 1..Len(v) : v[i] = s[j + i]
      BY <2>4, <2>6 DEF PartOf
    <2>8. v = SubSeq(s, j + 1, Len(s))
      BY <2>1, <2>2, <2>4
    <2> QED
      BY <2>5, <2>7, <2>8
  <1>4. Cat(s, u, v)
    BY <1>1, <1>2, <1>3 DEF Cat
  <1>5. \A i \in 1..Len(s) : i \in 1..j \/ (i - j \in 1..Len(v) /\ s[i] = v[i - j])
    <2>1. SUFFICES ASSUME NEW i \in 1..Len(s), i \notin 1..j
                   PROVE  i - j \in 1..Len(v) /\ s[i] = v[i - j]
      OBVIOUS
    <2>2. PICK k \in Nat : k = i - j /\ k \in 1..Len(v) /\ j + k = i
      BY <1>1, <1>3, <2>1
    <2> QED
      BY <1>3, <2>2
  <1>6. /\ ToSet(s) = {s[i] : i \in 1..Len(s)} /\ ToSet(u) = {u[i] : i \in 1..Len(u)}
        /\ ToSet(v) = {v[i] : i \in 1..Len(v)}
    BY Entries DEF ToSet
  <1>7. \A i \in 1..Len(v) : j + i \in 1..Len(s) /\ j + i \notin 1..j
    BY <1>1, <1>3
  <1>8. \A i \in 1..j : i \in 1..Len(s)
    BY <1>1
  <1>9. ToSet(s) = ToSet(u) \union ToSet(v)
    <2>1. ASSUME NEW x \in ToSet(s) PROVE x \in ToSet(u) \union ToSet(v)
      <3>1. PICK i \in 1..Len(s) : s[i] = x
        BY <1>6
      <3>2. CASE i \in 1..j
        BY <1>2, <1>6, <3>1, <3>2
      <3>3. CASE i - j \in 1..Len(v) /\ s[i] = v[i - j]
        BY <1>6, <3>1, <3>3
      <3> QED
        BY <1>5, <3>2, <3>3
    <2>2. ASSUME NEW x \in ToSet(u) PROVE x \in ToSet(s)
      BY <1>2, <1>6, <1>8
    <2>3. ASSUME NEW x \in ToSet(v) PROVE x \in ToSet(s)
      BY <1>3, <1>6, <1>7
    <2> QED
      BY <2>1, <2>2, <2>3
  <1>10. ASSUME IsInjective(s)
         PROVE  IsInjective(u) /\ IsInjective(v) /\ ToSet(u) \intersect ToSet(v) = {}
    <2>1. \A i, k \in 1..Len(s) : s[i] = s[k] => i = k
      BY <1>10, Distinct
    <2>2. \A i, k \in 1..Len(u) : u[i] = u[k] => i = k
      BY <1>2, <1>8, <2>1
    <2>3. \A i, k \in 1..Len(v) : v[i] = v[k] => i = k
      <3>1. SUFFICES ASSUME NEW i \in 1..Len(v), NEW k \in 1..Len(v), v[i] = v[k] PROVE i = k
        OBVIOUS
      <3>2. j + i = j + k
        BY <1>3, <1>7, <2>1, <3>1
      <3> QED
        BY <1>1, <1>3, <3>2
    <2>4. \A i \in 1..Len(u) : \A k \in 1..Len(v) : u[i] # v[k]
      BY <1>2, <1>3, <1>7, <1>8, <2>1
    <2>5. ToSet(u) \intersect ToSet(v) = {}
      BY <1>6, <2>4
    <2> QED
      BY <2>2, <2>3, <2>5, Distinct
  <1> QED
    BY <1>2, <1>3, <1>4, <1>9, <1>10 DEF Cuts

\* The lists the recursion is defined on.
LEMMA SeqOfIs ==
    ASSUME NEW T, NEW n \in Nat, NEW x
    PROVE  x \in SeqOf(T, n) <=> x \in Seq(T) /\ Len(x) <= n
  <1>1. ASSUME x \in SeqOf(T, n) PROVE x \in Seq(T) /\ Len(x) <= n
    <2>1. PICK m \in 0..n : x \in [1..m -> T]
      BY <1>1 DEF SeqOf
    <2>2. m \in Nat
      OBVIOUS
    <2>3. x \in Seq(T)
      BY <2>1, <2>2, SeqDef
    <2>4. Len(x) = m
      BY <2>1, <2>2, <2>3, LenProperties
    <2> QED
      BY <2>3, <2>4
  <1>2. ASSUME x \in Seq(T), Len(x) <= n PROVE x \in SeqOf(T, n)
    <2>1. Len(x) \in 0..n /\ x \in [1..Len(x) -> T]
      BY <1>2, LenProperties
    <2> QED
      BY <2>1 DEF SeqOf
  <1> QED
    BY <1>1, <1>2

\* One call of the sort, in which f is the result of the calls it makes.
Call(f, l, val) ==
    IF Len(l) <= 1 THEN [list |-> l, head |-> FALSE]
    ELSE LET part == Partition(l, val)
             low == f[SubSeq(part.list, 1, part.j)]
             high == f[SubSeq(part.list, part.j + 1, Len(l))]
         IN IF part.head THEN part
            ELSE [list |-> low.list \o high.list, head |-> low.head \/ high.head]
Calls(f, T, n, val) == f = [l \in SeqOf(T, n) |-> Call(f, l, val)]

\* A call sorts two shorter lists.
Halves(u, v, l, T, val) ==
    LET part == Partition(l, val)
    IN  /\ u \in Seq(T) /\ v \in Seq(T) /\ Len(u) < Len(l) /\ Len(v) < Len(l)
        /\ Len(u) + Len(v) = Len(l)
        /\ u = SubSeq(part.list, 1, part.j) /\ v = SubSeq(part.list, part.j + 1, Len(l))
        /\ part.head = FALSE
        /\ ToSet(l) = ToSet(u) \union ToSet(v)
        /\ \A x \in ToSet(u) : \A y \in ToSet(v) : val[x] <= val[y]
        /\ IsInjective(l) => /\ IsInjective(u) /\ IsInjective(v)
                             /\ ToSet(u) \intersect ToSet(v) = {}

LEMMA CallHalves ==
    ASSUME NEW T, NEW val, \A x \in T : val[x] \in Int, NEW l \in Seq(T), Len(l) >= 2
    PROVE  \E u, v : Halves(u, v, l, T, val)
  <1>1. PICK part : part = Partition(l, val) /\ Parted(part, l, val)
    BY PartitionParts
  <1>2. Len(l) \in Nat /\ ToSet(l) \in SUBSET T
    BY Entries
  <1>3. PICK s \in Seq(ToSet(l)), j \in Nat :
           /\ s = part.list /\ j = part.j /\ 1 <= j /\ j < Len(l) /\ Shuffled(s, l)
           /\ \A i \in 1..j : \A k \in (j + 1)..Len(l) : val[s[i]] <= val[s[k]]
    <2>1. part.list \in Seq(ToSet(l)) /\ part.j \in Nat
      BY <1>1, <1>2 DEF Parted, Parts
    <2> QED
      BY <1>1, <2>1 DEF Parted
  <1>4. Len(s) = Len(l) /\ ToSet(s) = ToSet(l) /\ (IsInjective(l) => IsInjective(s))
    BY <1>3 DEF Shuffled
  <1>5. PICK u, v : Cuts(u, v, s, ToSet(l), j)
    <2>1. \E u, v : Cuts(u, v, s, ToSet(l), j)
      BY <1>3, <1>4, CutInTwo
    <2> QED
      BY <2>1
  <1>6. /\ u \in Seq(ToSet(l)) /\ v \in Seq(ToSet(l)) /\ Len(u) = j /\ Len(v) = Len(s) - j
         /\ Cat(s, u, v)
    BY <1>5 DEF Cuts
  <1>7. u \in Seq(T) /\ v \in Seq(T)
    <2>1. \A x \in Seq(ToSet(l)) : x \in Seq(T)
      BY <1>2, SeqDef
    <2> QED
      BY <1>6, <2>1
  <1>8. ASSUME NEW x \in ToSet(u), NEW y \in ToSet(v) PROVE val[x] <= val[y]
    <2>1. PICK i \in 1..Len(u) : u[i] = x
      BY <1>6, Entries
    <2>2. PICK k \in 1..Len(v) : v[k] = y
      BY <1>6, Entries
    <2>3. s[i] = x /\ s[j + k] = y
      BY <1>6, <2>1, <2>2 DEF Cat
    <2>4. i \in 1..j /\ j + k \in (j + 1)..Len(l)
      BY <1>2, <1>4, <1>6
    <2> QED
      BY <1>3, <2>3, <2>4
  <1>9. Len(u) < Len(l) /\ Len(v) < Len(l) /\ Len(u) + Len(v) = Len(l)
    BY <1>2, <1>3, <1>4, <1>6
  <1>10. part.head = FALSE
    BY <1>1 DEF Parted
  <1>11. u = SubSeq(part.list, 1, part.j) /\ v = SubSeq(part.list, part.j + 1, Len(l))
    BY <1>3, <1>4, <1>5 DEF Cuts
  <1>12. ToSet(l) = ToSet(u) \union ToSet(v)
    BY <1>4, <1>5 DEF Cuts
  <1>13. IsInjective(l) => /\ IsInjective(u) /\ IsInjective(v)
                           /\ ToSet(u) \intersect ToSet(v) = {}
    BY <1>4, <1>5 DEF Cuts
  <1> QED
    BY <1>1, <1>7, <1>8, <1>9, <1>10, <1>11, <1>12, <1>13 DEF Halves

\* What a call returns depends on its list and on what it returns for shorter ones.
LEMMA CallLocal ==
    ASSUME NEW T, NEW val, \A x \in T : val[x] \in Int, NEW l \in Seq(T), NEW f, NEW g,
           \A x \in Seq(T) : Len(x) < Len(l) => f[x] = g[x]
    PROVE  Call(f, l, val) = Call(g, l, val)
  <1>1. CASE Len(l) <= 1
    BY <1>1 DEF Call
  <1>2. CASE ~(Len(l) <= 1)
    <2>1. Len(l) >= 2
      BY <1>2, Entries
    <2>2. PICK u, v : Halves(u, v, l, T, val)
      BY <2>1, CallHalves
    <2>3. /\ u = SubSeq(Partition(l, val).list, 1, Partition(l, val).j)
          /\ v = SubSeq(Partition(l, val).list, Partition(l, val).j + 1, Len(l))
          /\ f[u] = g[u] /\ f[v] = g[v]
      BY <2>2 DEF Halves
    <2> QED
      BY <1>2, <2>3 DEF Call
  <1> QED
    BY <1>1, <1>2

LEMMA SortExists ==
    ASSUME NEW T, NEW val, \A x \in T : val[x] \in Int, NEW n \in Nat
    PROVE  \E f : Calls(f, T, n, val)
  <1> DEFINE S == SeqOf(T, n)
             Right(f, k) == \A l \in S : Len(l) <= k => f[l] = Call(f, l, val)
             Q == {k \in Nat : \E f : Right(f, k)}
  <1>1. \A l \in S : l \in Seq(T) /\ Len(l) \in Nat /\ Len(l) <= n
    BY SeqOfIs, Entries
  <1>2. \A l \in S : \A x \in Seq(T) : Len(x) < Len(l) => x \in S
    <2>1. SUFFICES ASSUME NEW l \in S, NEW x \in Seq(T), Len(x) < Len(l) PROVE x \in S
      OBVIOUS
    <2>2. Len(x) \in Nat /\ Len(x) <= n
      BY <1>1, <2>1, Entries
    <2> QED
      BY <2>2, SeqOfIs
  <1>3. 0 \in Q
    <2> DEFINE f == [l \in S |-> [list |-> l, head |-> FALSE]]
    <2>1. ASSUME NEW l \in S, Len(l) <= 0 PROVE f[l] = Call(f, l, val)
      <3>1. Len(l) <= 1
        BY <1>1, <2>1
      <3> QED
        BY <3>1 DEF Call
    <2> HIDE DEF f, S
    <2> QED
      BY <2>1
  <1>4. ASSUME NEW k \in Nat, k \in Q PROVE k + 1 \in Q
    <2>1. PICK f : Right(f, k)
      BY <1>4
    <2> DEFINE h == [l \in S |-> IF Len(l) <= k THEN f[l] ELSE Call(f, l, val)]
    <2>2. ASSUME NEW l \in S, Len(l) <= k + 1 PROVE h[l] = Call(h, l, val)
      <3>1. h[l] = Call(f, l, val)
        <4> HIDE DEF S
        <4> QED
          BY <2>1
      <3>2. ASSUME NEW x \in Seq(T), Len(x) < Len(l) PROVE f[x] = h[x]
        <4>1. x \in S /\ Len(x) \in Nat
          BY <1>2, <3>2, Entries
        <4>2. Len(l) \in Nat
          BY <1>1
        <4>3. Len(x) <= k
          BY <2>2, <3>2, <4>1, <4>2
        <4> HIDE DEF S
        <4> QED
          BY <4>1, <4>3
      <3>3. Call(f, l, val) = Call(h, l, val)
        <4>1. l \in Seq(T)
          BY <1>1
        <4> HIDE DEF h, S
        <4> QED
          BY <3>2, <4>1, CallLocal
      <3> QED
        BY <3>1, <3>3
    <2> HIDE DEF h, S
    <2>3. Right(h, k + 1)
      BY <2>2
    <2> HIDE DEF Right
    <2> QED
      BY <2>3
  <1>5. \A k \in Nat : k \in Q
    <2> HIDE DEF Q
    <2> QED
      BY <1>3, <1>4, Induct
  <1>6. PICK f : Right(f, n)
    BY <1>5
  <1> DEFINE g == [l \in S |-> f[l]]
  <1>7. ASSUME NEW l \in S PROVE g[l] = Call(g, l, val)
    <2>1. Len(l) <= n /\ l \in Seq(T)
      BY <1>1
    <2>2. g[l] = Call(f, l, val)
      <3> HIDE DEF S
      <3> QED
        BY <1>6, <2>1
    <2>3. ASSUME NEW x \in Seq(T), Len(x) < Len(l) PROVE f[x] = g[x]
      <3>1. x \in S
        BY <1>2, <2>3
      <3> HIDE DEF S
      <3> QED
        BY <3>1
    <2>4. Call(f, l, val) = Call(g, l, val)
      <3>1. l \in Seq(T)
        BY <2>1
      <3> HIDE DEF g, S, Right, Q
      <3> QED
        BY <2>3, <3>1, CallLocal
    <2> QED
      BY <2>2, <2>4
  <1>8. g = [l \in S |-> Call(g, l, val)]
    <2> DEFINE G == [l \in S |-> Call(g, l, val)]
    <2>1. DOMAIN g = S /\ g = [l \in S |-> g[l]]
      OBVIOUS
    <2> HIDE DEF g, S
    <2> QED
      BY <1>7, <2>1
  <1> QED
    BY <1>8 DEF Calls

\* The entries of l in ascending order of val, without reading the head.
Ordered(res, l, val) ==
    /\ res.head = FALSE /\ res.list \in Seq(ToSet(l)) /\ Shuffled(res.list, l)
    /\ \A i, j \in 1..Len(l) : i < j => val[res.list[i]] <= val[res.list[j]]

\* Two ordered halves, one after the other.
LEMMA HalvesOrdered ==
    ASSUME NEW T, NEW val, \A x \in T : val[x] \in Int, NEW l \in Seq(T), NEW u, NEW v,
           Halves(u, v, l, T, val), NEW low, NEW high, Ordered(low, u, val), Ordered(high, v, val)
    PROVE  Ordered([list |-> low.list \o high.list, head |-> low.head \/ high.head], l, val)
  <1>1. /\ u \in Seq(T) /\ v \in Seq(T) /\ Len(u) + Len(v) = Len(l)
        /\ ToSet(l) = ToSet(u) \union ToSet(v)
        /\ \A x \in ToSet(u) : \A y \in ToSet(v) : val[x] <= val[y]
        /\ IsInjective(l) => /\ IsInjective(u) /\ IsInjective(v)
                             /\ ToSet(u) \intersect ToSet(v) = {}
    BY DEF Halves
  <1>2. \A A, B, s : s \in Seq(A) /\ A \subseteq B => s \in Seq(B)
    BY SeqDef
  <1>3. PICK s \in Seq(ToSet(l)) :
           /\ s = low.list /\ Len(s) = Len(u) /\ ToSet(s) = ToSet(u)
           /\ IsInjective(u) => IsInjective(s)
           /\ \A i, j \in 1..Len(s) : i < j => val[s[i]] <= val[s[j]]
    <2>1. low.list \in Seq(ToSet(l))
      BY <1>1, <1>2 DEF Ordered
    <2> QED
      BY <2>1 DEF Ordered, Shuffled
  <1>4. PICK t \in Seq(ToSet(l)) :
           /\ t = high.list /\ Len(t) = Len(v) /\ ToSet(t) = ToSet(v)
           /\ IsInjective(v) => IsInjective(t)
           /\ \A i, j \in 1..Len(t) : i < j => val[t[i]] <= val[t[j]]
    <2>1. high.list \in Seq(ToSet(l))
      BY <1>1, <1>2 DEF Ordered
    <2> QED
      BY <2>1 DEF Ordered, Shuffled
  <1>5. PICK w \in Seq(ToSet(l)) :
           /\ w = s \o t /\ Cat(w, s, t) /\ Len(w) = Len(s) + Len(t)
           /\ ToSet(w) = ToSet(s) \union ToSet(t)
           /\ IsInjective(s) /\ IsInjective(t) /\ ToSet(s) \intersect ToSet(t) = {}
                => IsInjective(w)
    BY CatIs, Joined
  <1>6. Shuffled(w, l)
    BY <1>1, <1>3, <1>4, <1>5 DEF Shuffled
  <1>7. ASSUME NEW i \in 1..Len(l), NEW j \in 1..Len(l), i < j PROVE val[w[i]] <= val[w[j]]
    <2>1. Len(s) \in Nat /\ Len(t) \in Nat /\ Len(s) + Len(t) = Len(l)
      BY <1>1, <1>3, <1>4, Entries
    <2>2. ASSUME NEW k \in 1..Len(l), k \notin 1..Len(s)
          PROVE  k - Len(s) \in 1..Len(t) /\ w[k] = t[k - Len(s)]
      <3>1. k \in Nat /\ 1 <= k /\ k <= Len(s) + Len(t) /\ ~(k <= Len(s))
        BY <2>1, <2>2
      <3>2. PICK m \in Nat : m = k - Len(s)
        <4>1. k - Len(s) \in Nat
          BY <2>1, <3>1
        <4> QED
          BY <4>1
      <3>3. m \in 1..Len(t) /\ Len(s) + m = k
        BY <2>1, <3>1, <3>2
      <3> QED
        BY <1>5, <3>2, <3>3 DEF Cat
    <2>3. \A k \in 1..Len(s) : w[k] = s[k]
      BY <1>5 DEF Cat
    <2>4. CASE j \in 1..Len(s)
      <3>1. i \in 1..Len(s)
        BY <1>7, <2>1, <2>4
      <3> QED
        BY <1>3, <1>7, <2>3, <2>4, <3>1
    <2>5. CASE i \in 1..Len(s) /\ j \notin 1..Len(s)
      <3>1. w[i] \in ToSet(s) /\ w[j] \in ToSet(t)
        BY <2>2, <2>3, <2>5, Entries
      <3> QED
        BY <1>1, <1>3, <1>4, <3>1
    <2>6. CASE i \notin 1..Len(s) /\ j \notin 1..Len(s)
      <3>1. i - Len(s) < j - Len(s)
        BY <1>7, <2>1
      <3>2. /\ i - Len(s) \in 1..Len(t) /\ w[i] = t[i - Len(s)]
            /\ j - Len(s) \in 1..Len(t) /\ w[j] = t[j - Len(s)]
        BY <2>2, <2>6
      <3> QED
        BY <1>4, <3>1, <3>2
    <2> QED
      BY <2>4, <2>5, <2>6
  <1>8. low.head = FALSE /\ high.head = FALSE
    BY DEF Ordered
  <1>9. (low.head \/ high.head) = FALSE
    BY <1>8
  <1> QED
    BY <1>3, <1>4, <1>5, <1>6, <1>7, <1>9 DEF Ordered

LEMMA SortOrders ==
    ASSUME NEW T, NEW val, \A x \in T : val[x] \in Int, NEW n \in Nat, NEW f, Calls(f, T, n, val)
    PROVE  \A l \in SeqOf(T, n) : Ordered(f[l], l, val)
  <1> DEFINE S == SeqOf(T, n)
             Q == {k \in Nat : \A l \in S : Len(l) <= k => Ordered(f[l], l, val)}
  <1>1. \A l \in S : l \in Seq(T) /\ Len(l) \in Nat /\ Len(l) <= n /\ f[l] = Call(f, l, val)
    BY SeqOfIs, Entries DEF Calls
  <1>2. ASSUME NEW l \in S, Len(l) <= 1 PROVE Ordered(f[l], l, val)
    <2>1. f[l] = [list |-> l, head |-> FALSE]
      BY <1>1, <1>2 DEF Call
    <2>2. l \in [1..Len(l) -> ToSet(l)]
      <3>1. l \in [1..Len(l) -> T] /\ \A i \in 1..Len(l) : l[i] \in ToSet(l)
        BY <1>1, LenProperties, Entries
      <3> QED
        BY <3>1
    <2>3. l \in Seq(ToSet(l))
      BY <1>1, <2>2, SeqDef
    <2>4. \A i, j \in 1..Len(l) : ~(i < j)
      BY <1>1, <1>2
    <2> HIDE DEF S
    <2> QED
      BY <2>1, <2>3, <2>4 DEF Ordered, Shuffled
  <1>3. 0 \in Q
    <2>1. \A l \in S : Len(l) <= 0 => Len(l) <= 1
      BY <1>1
    <2> HIDE DEF S
    <2> QED
      BY <1>2, <2>1
  <1>4. ASSUME NEW k \in Nat, k \in Q PROVE k + 1 \in Q
    <2>1. ASSUME NEW l \in S, Len(l) <= k + 1, ~(Len(l) <= 1) PROVE Ordered(f[l], l, val)
      <3>1. l \in Seq(T) /\ Len(l) >= 2 /\ Len(l) \in Nat /\ Len(l) <= n
        BY <1>1, <2>1
      <3>2. PICK u, v : Halves(u, v, l, T, val)
        BY <3>1, CallHalves
      <3>3. /\ u \in Seq(T) /\ v \in Seq(T) /\ Len(u) < Len(l) /\ Len(v) < Len(l)
            /\ u = SubSeq(Partition(l, val).list, 1, Partition(l, val).j)
            /\ v = SubSeq(Partition(l, val).list, Partition(l, val).j + 1, Len(l))
            /\ Partition(l, val).head = FALSE
        BY <3>2 DEF Halves
      <3>4. \A x \in Seq(T) : Len(x) < Len(l) => x \in S /\ Len(x) <= k
        <4>1. SUFFICES ASSUME NEW x \in Seq(T), Len(x) < Len(l) PROVE x \in S /\ Len(x) <= k
          OBVIOUS
        <4>2. Len(x) \in Nat /\ Len(x) <= n /\ Len(x) <= k
          BY <2>1, <3>1, <4>1, Entries
        <4> QED
          BY <4>2, SeqOfIs
      <3>5. Ordered(f[u], u, val) /\ Ordered(f[v], v, val)
        <4>1. u \in S /\ v \in S /\ Len(u) <= k /\ Len(v) <= k
          BY <3>3, <3>4
        <4> HIDE DEF S
        <4> QED
          BY <1>4, <4>1
      <3>6. f[l] = [list |-> f[u].list \o f[v].list, head |-> f[u].head \/ f[v].head]
        BY <1>1, <2>1, <3>3 DEF Call
      <3> HIDE DEF S, Q
      <3> QED
        BY <3>1, <3>2, <3>5, <3>6, HalvesOrdered
    <2> HIDE DEF S
    <2> QED
      BY <1>2, <2>1
  <1>5. \A k \in Nat : k \in Q
    <2> HIDE DEF Q
    <2> QED
      BY <1>3, <1>4, Induct
  <1> QED
    BY <1>1, <1>5

\* The sort of a list.
THEOREM SortIsRight ==
    ASSUME NEW A, NEW list \in Seq(A), NEW val, \A x \in A : val[x] \in Int
    PROVE  Ordered(Sort(list, val), list, val)
  <1> DEFINE T == ToSet(list)
             n == Len(list)
             Is(f) == f = [l \in SeqOf(T, n) |-> Call(f, l, val)]
  <1>1. n \in Nat /\ \A x \in T : val[x] \in Int
    BY Entries
  <1>2. PICK g : Is(g)
    <2>1. \E f : Calls(f, T, n, val)
      <3> HIDE DEF T, n
      <3> QED
        BY <1>1, SortExists
    <2> QED
      BY <2>1 DEF Calls
  <1>3. PICK C : C = (CHOOSE f : Is(f)) /\ Is(C)
    BY <1>2
  <1>4. Sort(list, val) = C[list]
    <2>1. C = CHOOSE f : f = [l \in SeqOf(T, n) |-> Call(f, l, val)]
      BY <1>3
    <2> QED
      BY <2>1 DEF Sort, Call
  <1>5. list \in SeqOf(T, n)
    <2>1. list \in [1..n -> T]
      <3>1. list \in [1..n -> A] /\ \A i \in 1..n : list[i] \in T
        BY LenProperties, Entries
      <3> QED
        BY <3>1
    <2>2. list \in Seq(T)
      BY <1>1, <2>1, SeqDef
    <2> QED
      BY <1>1, <2>2, SeqOfIs
  <1>6. \A l \in SeqOf(T, n) : Ordered(C[l], l, val)
    <2>1. Calls(C, T, n, val)
      BY <1>3 DEF Calls
    <2> HIDE DEF T, n, Is
    <2> QED
      BY <1>1, <2>1, SortOrders
  <1> QED
    BY <1>4, <1>5, <1>6

-----------------------------------------------------------------------------
(* The choice of a gang.                                                    *)

\* Division is not what a choice dies of.
Misses == {"none", "head", "wrap"}
Choice == [all : Seq(Slots), sch : Seq(Slots), cores : Nat, bw : Int, llc : Int,
           bwOn : BOOLEAN, csOn : BOOLEAN, fault : Misses]

LEMMA StartTyped ==
    ASSUME NEW list \in Seq(Slots), NEW bw \in Int
    PROVE  Start(list, bw) \in Choice
  <1>1. <<>> \in Seq(Slots) /\ LlcLimit \in Int
    BY PoliciesAssumption, EmptySeq
  <1> QED
    BY <1>1 DEF Start, Choice, Misses

\* Place and the rest of a turn change some fields of the choice.
LEMMA PlaceTyped ==
    ASSUME NEW st \in Choice, NEW p \in Slots
    PROVE  /\ Place(st, p) \in Choice
           /\ Place(st, p).all = RemoveFirst(st.all, p) /\ Place(st, p).sch = Append(st.sch, p)
           /\ Place(st, p).cores = st.cores + Need[p] /\ Place(st, p).bw = st.bw
           /\ Place(st, p).bwOn = st.bwOn /\ Place(st, p).csOn = st.csOn
           /\ Place(st, p).fault = st.fault
  <1>1. PICK a \in Seq(Slots) : a = RemoveFirst(st.all, p)
    BY Removed DEF Choice
  <1>2. PICK s \in Seq(Slots) : s = Append(st.sch, p)
    BY AppendProperties DEF Choice
  <1>3. PICK c \in Nat : c = st.cores + Need[p]
    BY PoliciesAssumption DEF Choice
  <1>4. Place(st, p) = [st EXCEPT !.all = a, !.sch = s, !.cores = c]
    BY <1>1, <1>2, <1>3 DEF Place
  <1> DEFINE new == [st EXCEPT !.all = a, !.sch = s, !.cores = c]
  <1>5. /\ new \in Choice /\ new.all = a /\ new.sch = s /\ new.cores = c
        /\ new.bw = st.bw /\ new.bwOn = st.bwOn /\ new.csOn = st.csOn /\ new.fault = st.fault
    BY DEF Choice
  <1> HIDE DEF new
  <1> QED
    BY <1>1, <1>2, <1>3, <1>4, <1>5 DEF new

LEMMA TakeBwTyped ==
    ASSUME NEW st \in Choice, NEW p \in Slots
    PROVE  /\ TakeBw(st, p) \in Choice
           /\ TakeBw(st, p).all = RemoveFirst(st.all, p) /\ TakeBw(st, p).sch = Append(st.sch, p)
           /\ TakeBw(st, p).cores = st.cores + Need[p]
           /\ TakeBw(st, p).bw = NotNegative(st.bw - Bw[p])
           /\ TakeBw(st, p).fault = st.fault
  <1>1. PICK bw \in Int : bw = NotNegative(st.bw - Bw[p])
    BY PoliciesAssumption DEF Choice, NotNegative
  <1> DEFINE new == [st EXCEPT !.bw = bw]
  <1>2. /\ new \in Choice /\ new.all = st.all /\ new.sch = st.sch /\ new.cores = st.cores
        /\ new.bw = bw /\ new.fault = st.fault
    BY DEF Choice
  <1>3. TakeBw(st, p) = Place(new, p)
    BY <1>1 DEF TakeBw
  <1> HIDE DEF new
  <1> QED
    BY <1>1, <1>2, <1>3, PlaceTyped

LEMMA FaultTyped ==
    ASSUME NEW st \in Choice, NEW what \in Misses
    PROVE  LET new == [st EXCEPT !.fault = what]
           IN  /\ new \in Choice /\ new.all = st.all /\ new.sch = st.sch /\ new.cores = st.cores
               /\ new.bw = st.bw /\ new.bwOn = st.bwOn /\ new.csOn = st.csOn /\ new.fault = what
  BY DEF Choice

LEMMA UnsignedTyped ==
    ASSUME NEW st \in Choice, NEW room \in Int
    PROVE  /\ Unsigned(st, room) \in Choice
           /\ Unsigned(st, room).all = st.all /\ Unsigned(st, room).sch = st.sch
           /\ Unsigned(st, room).cores = st.cores /\ Unsigned(st, room).bw = st.bw
           /\ Unsigned(st, room).bwOn = st.bwOn /\ Unsigned(st, room).csOn = st.csOn
           /\ room >= 0 => Unsigned(st, room).fault = st.fault
  <1>1. CASE room < 0
    <2>1. Unsigned(st, room) = [st EXCEPT !.fault = "wrap"]
      BY <1>1 DEF Unsigned
    <2>2. "wrap" \in Misses
      BY DEF Misses
    <2> QED
      BY <1>1, <2>1, <2>2, FaultTyped
  <1>2. CASE ~(room < 0)
    BY <1>2 DEF Unsigned
  <1> QED
    BY <1>1, <1>2

\* A list that is not empty has a first entry of the least measure.
LEMMA FirstLeastIs ==
    ASSUME NEW A, NEW list \in Seq(A), list # <<>>, NEW measure, \A x \in A : measure[x] \in Int
    PROVE  \E i \in 1..Len(list) :
              /\ FirstLeast(list, measure) = list[i]
              /\ \A j \in 1..Len(list) : measure[list[i]] <= measure[list[j]]
              /\ \A j \in 1..(i - 1) : measure[list[i]] < measure[list[j]]
  <1> DEFINE n == Len(list)
             m(i) == measure[list[i]]
             First(i, k) == i \in 1..k /\ (\A j \in 1..k : m(i) <= m(j)) /\ \A j \in 1..(i - 1) : m(i) < m(j)
             Q == {k \in Nat : k + 1 <= n => \E i \in 1..(k + 1) : First(i, k + 1)}
  <1>1. n \in Nat \ {0} /\ DOMAIN list = 1..n /\ \A i \in 1..n : m(i) \in Int
    BY EmptySeq, LenProperties
  <1>2. 0 \in Q
    <2>1. First(1, 1)
      BY <1>1
    <2>2. 1 \in 1..(0 + 1) /\ 0 + 1 = 1
      OBVIOUS
    <2> HIDE DEF First, n
    <2> QED
      BY <2>1, <2>2
  <1>3. ASSUME NEW k \in Nat, k \in Q PROVE k + 1 \in Q
    <2>1. SUFFICES ASSUME k + 1 + 1 <= n PROVE \E i \in 1..(k + 1 + 1) : First(i, k + 1 + 1)
      BY <1>1
    <2>2. PICK i \in 1..(k + 1) : First(i, k + 1)
      BY <1>1, <1>3, <2>1
    <2>3. \A j \in 1..(k + 2) : m(j) \in Int
      BY <1>1, <2>1
    <2>4. PICK l \in Nat : l = k + 2 /\ k + 1 + 1 = l /\ l \in 1..l /\ i \in 1..l
      OBVIOUS
    <2>5. (\A j \in 1..(k + 1) : m(i) <= m(j)) /\ \A j \in 1..(i - 1) : m(i) < m(j)
      BY <2>2
    <2> HIDE DEF m
    <2>6. CASE m(i) <= m(l)
      <3>1. \A j \in 1..l : j \in 1..(k + 1) \/ j = l
        BY <2>4
      <3>2. First(i, l)
        BY <2>4, <2>5, <2>6, <3>1
      <3> HIDE DEF First
      <3> QED
        BY <2>4, <3>2
    <2>7. CASE ~(m(i) <= m(l))
      <3>1. m(l) < m(i)
        BY <2>3, <2>4, <2>7
      <3>2. \A j \in 1..(k + 1) : m(l) < m(j)
        BY <2>3, <2>4, <2>5, <3>1
      <3>3. (\A j \in 1..l : j \in 1..(k + 1) \/ j = l) /\ \A j \in 1..(l - 1) : j \in 1..(k + 1)
        BY <2>4
      <3>4. \A j \in 1..l : m(l) <= m(j)
        BY <2>3, <2>4, <3>2, <3>3
      <3>5. First(l, l)
        BY <2>4, <3>2, <3>3, <3>4
      <3> HIDE DEF First
      <3> QED
        BY <2>4, <3>5
    <2> QED
      BY <2>6, <2>7
  <1>4. \A k \in Nat : k \in Q
    <2> HIDE DEF Q
    <2> QED
      BY <1>2, <1>3, Induct
  <1>5. \E i \in 1..n : First(i, n)
    <2>1. n - 1 \in Nat /\ (n - 1) + 1 = n /\ n <= n
      BY <1>1
    <2>2. n - 1 \in Q
      BY <1>4, <2>1
    <2> QED
      BY <2>1, <2>2
  <1>6. PICK i : /\ i = CHOOSE k \in DOMAIN list :
                          /\ \A j \in DOMAIN list : measure[list[k]] <= measure[list[j]]
                          /\ \A j \in 1..(k - 1) : measure[list[k]] < measure[list[j]]
                 /\ i \in 1..n /\ (\A j \in 1..n : m(i) <= m(j)) /\ \A j \in 1..(i - 1) : m(i) < m(j)
    BY <1>1, <1>5
  <1>7. FirstLeast(list, measure) = list[i]
    BY <1>6 DEF FirstLeast
  <1> QED
    BY <1>6, <1>7

\* What the turns of the loops do.
LEMMA InOrderTyped ==
    ASSUME NEW st \in Choice, NEW p \in Slots
    PROVE  InOrderStep(st, p) \in Choice
  BY PlaceTyped DEF InOrderStep

LEMMA NearestIs ==
    ASSUME NEW st \in Choice, st.all # <<>>
    PROVE  Nearest(st) \in ToSet(st.all) /\ Nearest(st) \in Slots
  <1> DEFINE Fitness == [p \in Slots |-> Distance(st.bw, Bw[p])]
  <1>1. ASSUME NEW p \in Slots PROVE Fitness[p] \in Int
    <2>1. Bw[p] \in Int /\ st.bw \in Int
      BY PoliciesAssumption DEF Choice
    <2> QED
      BY <2>1 DEF Distance
  <1>2. st.all \in Seq(Slots)
    BY DEF Choice
  <1>3. Nearest(st) = FirstLeast(st.all, Fitness)
    BY DEF Nearest
  <1> HIDE DEF Fitness
  <1>4. PICK i \in 1..Len(st.all) : FirstLeast(st.all, Fitness) = st.all[i]
    BY <1>1, <1>2, FirstLeastIs
  <1> QED
    BY <1>2, <1>3, <1>4, Entries

\* The first turn of perf takes a program that waits longest.
Longest(p, list, wt) ==
    \E i \in 1..Len(list) : p = list[i] /\ \A j \in 1..(i - 1) : -wt[list[i]] < -wt[list[j]]

LEMMA PerfTurn ==
    ASSUME NEW st \in Choice, NEW wt \in [Slots -> Int]
    PROVE  \/ (st.cores >= MaxCores \/ st.all = <<>>) /\ PerfStep(st, wt) = st
           \/ /\ ~(st.cores >= MaxCores) /\ st.all # <<>>
              /\ \E p \in ToSet(st.all) : /\ p \in Slots /\ PerfStep(st, wt) = TakeBw(st, p)
                                          /\ st.cores = 0 => Longest(p, st.all, wt)
  <1>1. CASE st.cores >= MaxCores \/ st.all = <<>>
    BY <1>1 DEF PerfStep
  <1>2. CASE ~(st.cores >= MaxCores \/ st.all = <<>>)
    <2> DEFINE Patience == [p \in Slots |-> -wt[p]]
    <2>1. st.all \in Seq(Slots) /\ st.all # <<>>
      BY <1>2 DEF Choice
    <2>2. \A p \in Slots : Patience[p] = -wt[p] /\ Patience[p] \in Int
      OBVIOUS
    <2>3. PerfStep(st, wt) = TakeBw(st, IF st.cores = 0 THEN FirstLeast(st.all, Patience) ELSE Nearest(st))
      BY <1>2 DEF PerfStep
    <2> HIDE DEF Patience
    <2>4. CASE st.cores = 0
      <3>1. PICK i \in 1..Len(st.all) :
               /\ FirstLeast(st.all, Patience) = st.all[i]
               /\ \A j \in 1..(i - 1) : Patience[st.all[i]] < Patience[st.all[j]]
        BY <2>1, <2>2, FirstLeastIs
      <3>2. \A k \in 1..Len(st.all) : st.all[k] \in ToSet(st.all) /\ st.all[k] \in Slots
        BY <2>1, Entries
      <3>3. ASSUME NEW j \in 1..(i - 1) PROVE -wt[st.all[i]] < -wt[st.all[j]]
        <4>1. Len(st.all) \in Nat
          BY <2>1, Entries
        <4>2. j \in 1..Len(st.all)
          BY <4>1
        <4> QED
          BY <2>2, <3>1, <3>2, <4>2
      <3>4. Longest(st.all[i], st.all, wt)
        BY <3>3 DEF Longest
      <3> QED
        BY <1>2, <2>3, <2>4, <3>1, <3>2, <3>4
    <2>5. CASE st.cores # 0
      <3>1. Nearest(st) \in ToSet(st.all) /\ Nearest(st) \in Slots
        BY <2>1, NearestIs
      <3> QED
        BY <1>2, <2>3, <2>5, <3>1
    <2> QED
      BY <2>4, <2>5
  <1> QED
    BY <1>1, <1>2

LEMMA PerfTyped ==
    ASSUME NEW st \in Choice, NEW wt \in [Slots -> Int]
    PROVE  PerfStep(st, wt) \in Choice
  BY PerfTurn, TakeBwTyped

LEMMA PerfFairTurn ==
    ASSUME NEW st \in Choice, NEW p \in Slots
    PROVE  /\ PerfFairStep(st, p) \in Choice
           /\ Full(st) => PerfFairStep(st, p) = st
           /\ ~Full(st) =>
                \E seen \in Choice :
                   /\ seen = Unsigned(st, st.bw - BwReserve)
                   /\ PerfFairStep(st, p) = IF Fits(p, st.bw - BwReserve) THEN TakeBw(seen, p) ELSE seen
  <1>1. CASE Full(st)
    BY <1>1 DEF PerfFairStep
  <1>2. CASE ~Full(st)
    <2>1. PICK seen : seen = Unsigned(st, st.bw - BwReserve)
      OBVIOUS
    <2>2. st.bw - BwReserve \in Int
      BY PoliciesAssumption DEF Choice
    <2>3. seen \in Choice
      BY <2>1, <2>2, UnsignedTyped
    <2>4. PerfFairStep(st, p) = IF Fits(p, st.bw - BwReserve) THEN TakeBw(seen, p) ELSE seen
      BY <1>2, <2>1 DEF PerfFairStep
    <2>5. TakeBw(seen, p) \in Choice
      BY <2>3, TakeBwTyped
    <2> QED
      BY <1>2, <2>1, <2>3, <2>4, <2>5
  <1> QED
    BY <1>1, <1>2

LEMMA PerfFairNeighbourTyped ==
    ASSUME NEW st \in Choice
    PROVE  PerfFairNeighbour(st) \in Choice
  <1>1. CASE Full(st)
    BY <1>1 DEF PerfFairNeighbour
  <1>2. CASE ~Full(st) /\ st.all = <<>>
    <2>1. "head" \in Misses
      BY DEF Misses
    <2>2. PerfFairNeighbour(st) = [st EXCEPT !.fault = "head"]
      BY <1>2 DEF PerfFairNeighbour
    <2> QED
      BY <2>1, <2>2, FaultTyped
  <1>3. CASE ~Full(st) /\ st.all # <<>>
    <2>1. PerfFairNeighbour(st) = TakeBw(st, Nearest(st))
      BY <1>3 DEF PerfFairNeighbour
    <2> QED
      BY <1>3, <2>1, NearestIs, TakeBwTyped
  <1> QED
    BY <1>1, <1>2, <1>3

LEMMA ChargeTyped ==
    ASSUME NEW st \in Choice, NEW p \in Slots, class \in [Slots -> Classes]
    PROVE  /\ Charge(st, p) \in Choice
           /\ Charge(st, p).all = st.all /\ Charge(st, p).sch = st.sch
           /\ Charge(st, p).cores = st.cores
           /\ Charge(st, p).bwOn = (st.bwOn \/ class[p] = "BW")
           /\ Charge(st, p).csOn = (st.csOn \/ class[p] = "CS")
           /\ Charge(st, p).bw = IF class[p] = "BW" THEN st.bw - Bw[p] ELSE st.bw
           /\ st.bw + BwSlack >= 0 => Charge(st, p).fault = st.fault
  <1>1. Bw[p] \in Int /\ Llc[p] \in Int /\ st.bw \in Int /\ st.llc \in Int /\ st.bw + BwSlack \in Int
    BY PoliciesAssumption DEF Choice
  <1>2. CASE class[p] = "BW"
    <2>1. PICK seen \in Choice :
             /\ seen = Unsigned(st, st.bw + BwSlack)
             /\ seen.all = st.all /\ seen.sch = st.sch /\ seen.cores = st.cores /\ seen.bw = st.bw
             /\ seen.csOn = st.csOn /\ (st.bw + BwSlack >= 0 => seen.fault = st.fault)
      BY <1>1, UnsignedTyped
    <2>2. PICK bw \in Int : bw = st.bw - Bw[p]
      BY <1>1
    <2>3. Charge(st, p) = [seen EXCEPT !.bw = bw, !.bwOn = TRUE]
      BY <1>2, <2>1, <2>2 DEF Charge
    <2> DEFINE new == [seen EXCEPT !.bw = bw, !.bwOn = TRUE]
    <2>4. /\ new \in Choice /\ new.all = seen.all /\ new.sch = seen.sch /\ new.cores = seen.cores
          /\ new.bw = bw /\ new.bwOn = TRUE /\ new.csOn = seen.csOn /\ new.fault = seen.fault
      BY DEF Choice
    <2>5. st.csOn \in BOOLEAN
      BY DEF Choice
    <2> HIDE DEF new
    <2> QED
      BY <1>2, <2>1, <2>2, <2>3, <2>4, <2>5 DEF new
  <1>3. CASE class[p] = "CS"
    <2>1. PICK llc \in Int : llc = st.llc - Llc[p]
      BY <1>1
    <2>2. Charge(st, p) = [st EXCEPT !.llc = llc, !.csOn = TRUE]
      BY <1>3, <2>1 DEF Charge
    <2> DEFINE new == [st EXCEPT !.llc = llc, !.csOn = TRUE]
    <2>3. /\ new \in Choice /\ new.all = st.all /\ new.sch = st.sch /\ new.cores = st.cores
          /\ new.bw = st.bw /\ new.bwOn = st.bwOn /\ new.csOn = TRUE /\ new.fault = st.fault
      BY DEF Choice
    <2>4. st.bwOn \in BOOLEAN
      BY DEF Choice
    <2> HIDE DEF new
    <2> QED
      BY <1>3, <2>2, <2>3, <2>4 DEF new
  <1>4. CASE class[p] = "CNS"
    <2>1. PICK llc \in Int : llc = st.llc - Llc[p]
      BY <1>1
    <2>2. Charge(st, p) = [st EXCEPT !.llc = llc]
      BY <1>4, <2>1 DEF Charge
    <2> DEFINE new == [st EXCEPT !.llc = llc]
    <2>3. /\ new \in Choice /\ new.all = st.all /\ new.sch = st.sch /\ new.cores = st.cores
          /\ new.bw = st.bw /\ new.bwOn = st.bwOn /\ new.csOn = st.csOn /\ new.fault = st.fault
      BY DEF Choice
    <2>4. st.bwOn \in BOOLEAN /\ st.csOn \in BOOLEAN
      BY DEF Choice
    <2> HIDE DEF new
    <2> QED
      BY <1>4, <2>2, <2>3, <2>4 DEF new
  <1>5. CASE class[p] \notin {"BW", "CS", "CNS"}
    <2>1. Charge(st, p) = st
      BY <1>5 DEF Charge
    <2>2. st.bwOn \in BOOLEAN /\ st.csOn \in BOOLEAN
      BY DEF Choice
    <2> QED
      BY <1>5, <2>1, <2>2
  <1> QED
    BY <1>2, <1>3, <1>4, <1>5

LEMMA BwCacheTyped ==
    ASSUME NEW st \in Choice, NEW p \in Slots, class \in [Slots -> Classes]
    PROVE  BwCacheStep(st, p) \in Choice
  BY ChargeTyped, PlaceTyped DEF BwCacheStep

\* fill_rest_cores.
FillRun(r, st) ==
    r[0] = st /\ \A i \in 1..Len(st.all) : r[i] = InOrderStep(r[i - 1], st.all[i])

LEMMA FillGoes ==
    ASSUME NEW st \in Choice
    PROVE  \E r \in [0..Len(st.all) -> Choice] : FillRun(r, st) /\ FillRestCores(st) = r[Len(st.all)]
  <1> DEFINE n == Len(st.all)
             One(i, s) == InOrderStep(s, st.all[i])
             step == [i \in 1..n |-> [s \in Choice |-> One(i, s)]]
             Is(f) == f = [T \in SUBSET (1..n) |-> IF T = {} THEN st ELSE One(Max(T), f[T \ {Max(T)}])]
  <1>1. n \in Nat /\ DOMAIN st.all = 1..n /\ st \in Choice
    <2>1. st.all \in Seq(Slots)
      BY DEF Choice
    <2> QED
      BY <2>1, LenProperties
  <1>2. ASSUME NEW i \in 1..n, NEW s \in Choice PROVE One(i, s) \in Choice
    <2>1. st.all[i] \in Slots
      <3>1. st.all \in Seq(Slots)
        BY DEF Choice
      <3> QED
        BY <3>1, LenProperties
    <2> QED
      BY <2>1, InOrderTyped
  <1>3. step \in [1..n -> [Choice -> Choice]]
    <2> HIDE DEF n, One
    <2> QED
      BY <1>2
  <1>4. PICK f \in [SUBSET (1..n) -> Choice] : FoldIs(f, st, step, n)
    <2> HIDE DEF step, n
    <2> QED
      BY <1>1, <1>3, FoldExists
  <1>5. Is(f)
    <2>1. ASSUME NEW T \in SUBSET (1..n), T # {}
          PROVE  step[Max(T)][f[T \ {Max(T)}]] = One(Max(T), f[T \ {Max(T)}])
      <3> HIDE DEF n, One
      <3>1. Max(T) \in 1..n
        BY <2>1, <1>1, GreatestTurn
      <3>2. f[T \ {Max(T)}] \in Choice
        BY <1>4
      <3> QED
        BY <3>1, <3>2
    <2> HIDE DEF One, step, n
    <2> QED
      BY <1>4, <2>1 DEF FoldIs
  <1>6. PICK C : C = (CHOOSE g : Is(g)) /\ Is(C)
    <2> HIDE DEF Is
    <2> QED
      BY <1>5
  <1>7. FillRestCores(st) = C[1..n]
    <2>1. C = CHOOSE g : g = [T \in SUBSET (1..n) |->
                 IF T = {} THEN st ELSE One(Max(T), g[T \ {Max(T)}])]
      BY <1>6
    <2> HIDE DEF Is, n
    <2> QED
      BY <1>1, <2>1 DEF FillRestCores, FoldLeft, MapThenFoldSet
  <1>8. C[{}] = st
    <2>1. {} \in SUBSET (1..n)
      OBVIOUS
    <2> HIDE DEF n, One
    <2> QED
      BY <1>6, <2>1
  <1>9. ASSUME NEW T \in SUBSET (1..n), T # {}, C[T \ {Max(T)}] \in Choice
        PROVE  C[T] = step[Max(T)][C[T \ {Max(T)}]]
    <2> HIDE DEF n, One
    <2>1. Max(T) \in 1..n
      BY <1>1, <1>9, GreatestTurn
    <2>2. C[T] = One(Max(T), C[T \ {Max(T)}])
      BY <1>6, <1>9
    <2> HIDE DEF Is
    <2> QED
      BY <1>9, <2>1, <2>2
  <1>10. FoldOf(C, st, step, n, Choice)
    <2> HIDE DEF step, n, Is
    <2> QED
      BY <1>8, <1>9 DEF FoldOf
  <1>11. PICK r \in [0..n -> Choice] : RunOf(r, st, step, n) /\ C[1..n] = r[n]
    <2> HIDE DEF step, n, Is
    <2>1. Reaches(Choice, st, step, n, C[1..n])
      BY <1>1, <1>3, <1>10, FoldRuns
    <2> QED
      BY <2>1 DEF Reaches
  <1>12. ASSUME NEW i \in 1..n PROVE r[i] = One(i, r[i - 1])
    <2>1. i - 1 \in 0..n
      BY <1>1
    <2> HIDE DEF n, One
    <2>2. r[i - 1] \in Choice
      BY <1>11, <2>1
    <2> QED
      BY <1>11, <2>2 DEF RunOf
  <1> HIDE DEF step, Is
  <1> QED
    BY <1>7, <1>11, <1>12 DEF RunOf, FillRun

LEMMA FillTyped ==
    ASSUME NEW st \in Choice
    PROVE  FillRestCores(st) \in Choice
  <1>1. PICK n \in Nat : n = Len(st.all) /\ n \in 0..n
    <2>1. st.all \in Seq(Slots)
      BY DEF Choice
    <2> QED
      BY <2>1, LenProperties
  <1>2. PICK r \in [0..n -> Choice] : FillRestCores(st) = r[n]
    BY <1>1, FillGoes
  <1> QED
    BY <1>1, <1>2

\* good_neighbors of fair_bw_cache takes a program of the wanted classes.
Picks(new, st) ==
    \E mid \in Choice : \E p \in ToSet(st.all) :
       /\ new = Place(mid, p) /\ p \in Wanted(st)
       /\ mid.sch = st.sch /\ mid.cores = st.cores /\ mid.bw = st.bw
       /\ mid.bwOn = st.bwOn /\ mid.csOn = st.csOn /\ mid.fault = st.fault
       /\ ToSet(mid.all) = ToSet(st.all) /\ (IsInjective(st.all) => IsInjective(mid.all))

LEMMA BwCacheNeighbourTurn ==
    ASSUME NEW st \in Choice
    PROVE  \/ Full(st) /\ BwCacheNeighbour(st) = st
           \/ /\ ~Full(st) /\ ToSet(st.all) \intersect Wanted(st) = {}
              /\ BwCacheNeighbour(st) = FillRestCores(st)
           \/ /\ ~Full(st) /\ Picks(BwCacheNeighbour(st), st)
  <1> DEFINE Costs == [p \in Slots |-> Cost(st, p)]
  <1>1. st.all \in Seq(Slots) /\ ToSet(st.all) \in SUBSET Slots
    BY Entries DEF Choice
  <1>2. PICK rest \in Seq(Slots) :
           /\ rest = Keep(st.all, Wanted(st)) /\ ToSet(rest) = ToSet(st.all) \intersect Wanted(st)
           /\ IsInjective(st.all) => IsInjective(rest)
    BY <1>1, Kept
  <1>3. PICK others \in Seq(Slots) :
           /\ others = Keep(st.all, Slots \ Wanted(st))
           /\ ToSet(others) = ToSet(st.all) \intersect (Slots \ Wanted(st))
           /\ IsInjective(st.all) => IsInjective(others)
    BY <1>1, Kept
  <1>4. CASE Full(st)
    BY <1>4 DEF BwCacheNeighbour
  <1>5. CASE ~Full(st) /\ rest = <<>>
    <2>1. BwCacheNeighbour(st) = FillRestCores(st)
      BY <1>2, <1>5 DEF BwCacheNeighbour
    <2>2. ToSet(rest) = {}
      BY <1>5, Entries
    <2> QED
      BY <1>2, <1>5, <2>1, <2>2
  <1>6. CASE ~Full(st) /\ rest # <<>>
    <2>1. PICK both \in Seq(Slots) :
             /\ both = others \o rest /\ ToSet(both) = ToSet(others) \union ToSet(rest)
             /\ IsInjective(others) /\ IsInjective(rest) /\ ToSet(others) \intersect ToSet(rest) = {}
                  => IsInjective(both)
      BY Joined
    <2>2. PICK p : p = FirstLeast(rest, Costs)
      OBVIOUS
    <2>3. BwCacheNeighbour(st) = Place([st EXCEPT !.all = both], p)
      BY <1>2, <1>3, <1>6, <2>1, <2>2 DEF BwCacheNeighbour
    <2>4. p \in ToSet(rest)
      <3>1. ASSUME NEW q \in Slots PROVE Costs[q] \in Int
        <4>1. Bw[q] \in Int /\ Llc[q] \in Int
          BY PoliciesAssumption
        <4> QED
          BY <4>1 DEF Cost
      <3> HIDE DEF Costs
      <3>2. PICK i \in 1..Len(rest) : FirstLeast(rest, Costs) = rest[i]
        BY <1>6, <3>1, FirstLeastIs
      <3> QED
        BY <2>2, <3>2, Entries
    <2> DEFINE mid == [st EXCEPT !.all = both]
    <2>5. /\ mid \in Choice /\ mid.all = both /\ mid.sch = st.sch /\ mid.cores = st.cores
          /\ mid.bw = st.bw /\ mid.bwOn = st.bwOn /\ mid.csOn = st.csOn /\ mid.fault = st.fault
      BY DEF Choice
    <2>6. BwCacheNeighbour(st) = Place(mid, p)
      BY <2>3
    <2> HIDE DEF mid, Costs
    <2>7. ToSet(both) = ToSet(st.all) /\ ToSet(others) \intersect ToSet(rest) = {}
      BY <1>1, <1>2, <1>3, <2>1
    <2>8. p \in ToSet(st.all) /\ p \in Wanted(st)
      BY <1>2, <2>4
    <2>9. IsInjective(st.all) => IsInjective(mid.all)
      BY <1>2, <1>3, <2>1, <2>5, <2>7
    <2>10. Picks(BwCacheNeighbour(st), st)
      BY <2>5, <2>6, <2>7, <2>8, <2>9 DEF Picks
    <2> QED
      BY <1>6, <2>10
  <1> QED
    BY <1>4, <1>5, <1>6

LEMMA BwCacheNeighbourTyped ==
    ASSUME NEW st \in Choice
    PROVE  BwCacheNeighbour(st) \in Choice
  <1>1. ToSet(st.all) \in SUBSET Slots
    BY Entries DEF Choice
  <1>2. CASE Picks(BwCacheNeighbour(st), st)
    BY <1>1, <1>2, PlaceTyped DEF Picks
  <1> QED
    BY <1>2, BwCacheNeighbourTurn, FillTyped

\* The loop of perf.
PerfRun(r, list, wt) ==
    r[0] = Start(list, BwLimit - BwReserve) /\ \A i \in 1..Len(list) : r[i] = PerfStep(r[i - 1], wt)

LEMMA PerfGoes ==
    ASSUME NEW list \in Seq(Slots), NEW wt \in [Slots -> Int]
    PROVE  \E r \in [0..Len(list) -> Choice] : PerfRun(r, list, wt) /\ PerfGang(list, wt) = r[Len(list)]
  <1> DEFINE n == Len(list)
             One(i, s) == PerfStep(s, wt)
             step == [i \in 1..n |-> [s \in Choice |-> One(i, s)]]
             Is(f) == f = [T \in SUBSET (1..n) |-> IF T = {} THEN Start(list, BwLimit - BwReserve) ELSE One(Max(T), f[T \ {Max(T)}])]
  <1>1. n \in Nat /\ DOMAIN list = 1..n /\ Start(list, BwLimit - BwReserve) \in Choice
    <2>1. BwLimit - BwReserve \in Int
      BY PoliciesAssumption
    <2> QED
      BY <2>1, LenProperties, StartTyped
  <1>2. ASSUME NEW i \in 1..n, NEW s \in Choice PROVE One(i, s) \in Choice
    <2> QED
      BY PerfTyped
  <1>3. step \in [1..n -> [Choice -> Choice]]
    <2> HIDE DEF n, One
    <2> QED
      BY <1>2
  <1>4. PICK f \in [SUBSET (1..n) -> Choice] : FoldIs(f, Start(list, BwLimit - BwReserve), step, n)
    <2> HIDE DEF step, n
    <2> QED
      BY <1>1, <1>3, FoldExists
  <1>5. Is(f)
    <2>1. ASSUME NEW T \in SUBSET (1..n), T # {}
          PROVE  step[Max(T)][f[T \ {Max(T)}]] = One(Max(T), f[T \ {Max(T)}])
      <3> HIDE DEF n, One
      <3>1. Max(T) \in 1..n
        BY <2>1, <1>1, GreatestTurn
      <3>2. f[T \ {Max(T)}] \in Choice
        BY <1>4
      <3> QED
        BY <3>1, <3>2
    <2> HIDE DEF One, step, n
    <2> QED
      BY <1>4, <2>1 DEF FoldIs
  <1>6. PICK C : C = (CHOOSE g : Is(g)) /\ Is(C)
    <2> HIDE DEF Is
    <2> QED
      BY <1>5
  <1>7. PerfGang(list, wt) = C[1..n]
    <2>1. C = CHOOSE g : g = [T \in SUBSET (1..n) |->
                 IF T = {} THEN Start(list, BwLimit - BwReserve) ELSE One(Max(T), g[T \ {Max(T)}])]
      BY <1>6
    <2> HIDE DEF Is, n
    <2> QED
      BY <1>1, <2>1 DEF PerfGang, FoldLeft, MapThenFoldSet
  <1>8. C[{}] = Start(list, BwLimit - BwReserve)
    <2>1. {} \in SUBSET (1..n)
      OBVIOUS
    <2> HIDE DEF n, One
    <2> QED
      BY <1>6, <2>1
  <1>9. ASSUME NEW T \in SUBSET (1..n), T # {}, C[T \ {Max(T)}] \in Choice
        PROVE  C[T] = step[Max(T)][C[T \ {Max(T)}]]
    <2> HIDE DEF n, One
    <2>1. Max(T) \in 1..n
      BY <1>1, <1>9, GreatestTurn
    <2>2. C[T] = One(Max(T), C[T \ {Max(T)}])
      BY <1>6, <1>9
    <2> HIDE DEF Is
    <2> QED
      BY <1>9, <2>1, <2>2
  <1>10. FoldOf(C, Start(list, BwLimit - BwReserve), step, n, Choice)
    <2> HIDE DEF step, n, Is
    <2> QED
      BY <1>8, <1>9 DEF FoldOf
  <1>11. PICK r \in [0..n -> Choice] : RunOf(r, Start(list, BwLimit - BwReserve), step, n) /\ C[1..n] = r[n]
    <2> HIDE DEF step, n, Is
    <2>1. Reaches(Choice, Start(list, BwLimit - BwReserve), step, n, C[1..n])
      BY <1>1, <1>3, <1>10, FoldRuns
    <2> QED
      BY <2>1 DEF Reaches
  <1>12. ASSUME NEW i \in 1..n PROVE r[i] = One(i, r[i - 1])
    <2>1. i - 1 \in 0..n
      BY <1>1
    <2> HIDE DEF n, One
    <2>2. r[i - 1] \in Choice
      BY <1>11, <2>1
    <2> QED
      BY <1>11, <2>2 DEF RunOf
  <1> HIDE DEF step, Is
  <1> QED
    BY <1>7, <1>11, <1>12 DEF RunOf, PerfRun

\* The first loop of perf_fair.
PerfFairRun(r, order) ==
    r[0] = Start(order, BwLimit) /\ \A i \in 1..Len(order) : r[i] = PerfFairStep(r[i - 1], order[i])

LEMMA PerfFairGoes ==
    ASSUME NEW order \in Seq(Slots)
    PROVE  \E r \in [0..Len(order) -> Choice] : PerfFairRun(r, order) /\ FoldLeft(PerfFairStep, Start(order, BwLimit), order) = r[Len(order)]
  <1> DEFINE n == Len(order)
             One(i, s) == PerfFairStep(s, order[i])
             step == [i \in 1..n |-> [s \in Choice |-> One(i, s)]]
             Is(f) == f = [T \in SUBSET (1..n) |-> IF T = {} THEN Start(order, BwLimit) ELSE One(Max(T), f[T \ {Max(T)}])]
  <1>1. n \in Nat /\ DOMAIN order = 1..n /\ Start(order, BwLimit) \in Choice
    <2>1. BwLimit \in Int
      BY PoliciesAssumption
    <2> QED
      BY <2>1, LenProperties, StartTyped
  <1>2. ASSUME NEW i \in 1..n, NEW s \in Choice PROVE One(i, s) \in Choice
    <2>1. order[i] \in Slots
      BY LenProperties
    <2> QED
      BY <2>1, PerfFairTurn
  <1>3. step \in [1..n -> [Choice -> Choice]]
    <2> HIDE DEF n, One
    <2> QED
      BY <1>2
  <1>4. PICK f \in [SUBSET (1..n) -> Choice] : FoldIs(f, Start(order, BwLimit), step, n)
    <2> HIDE DEF step, n
    <2> QED
      BY <1>1, <1>3, FoldExists
  <1>5. Is(f)
    <2>1. ASSUME NEW T \in SUBSET (1..n), T # {}
          PROVE  step[Max(T)][f[T \ {Max(T)}]] = One(Max(T), f[T \ {Max(T)}])
      <3> HIDE DEF n, One
      <3>1. Max(T) \in 1..n
        BY <2>1, <1>1, GreatestTurn
      <3>2. f[T \ {Max(T)}] \in Choice
        BY <1>4
      <3> QED
        BY <3>1, <3>2
    <2> HIDE DEF One, step, n
    <2> QED
      BY <1>4, <2>1 DEF FoldIs
  <1>6. PICK C : C = (CHOOSE g : Is(g)) /\ Is(C)
    <2> HIDE DEF Is
    <2> QED
      BY <1>5
  <1>7. FoldLeft(PerfFairStep, Start(order, BwLimit), order) = C[1..n]
    <2>1. C = CHOOSE g : g = [T \in SUBSET (1..n) |->
                 IF T = {} THEN Start(order, BwLimit) ELSE One(Max(T), g[T \ {Max(T)}])]
      BY <1>6
    <2> HIDE DEF Is, n
    <2> QED
      BY <1>1, <2>1 DEF FoldLeft, MapThenFoldSet
  <1>8. C[{}] = Start(order, BwLimit)
    <2>1. {} \in SUBSET (1..n)
      OBVIOUS
    <2> HIDE DEF n, One
    <2> QED
      BY <1>6, <2>1
  <1>9. ASSUME NEW T \in SUBSET (1..n), T # {}, C[T \ {Max(T)}] \in Choice
        PROVE  C[T] = step[Max(T)][C[T \ {Max(T)}]]
    <2> HIDE DEF n, One
    <2>1. Max(T) \in 1..n
      BY <1>1, <1>9, GreatestTurn
    <2>2. C[T] = One(Max(T), C[T \ {Max(T)}])
      BY <1>6, <1>9
    <2> HIDE DEF Is
    <2> QED
      BY <1>9, <2>1, <2>2
  <1>10. FoldOf(C, Start(order, BwLimit), step, n, Choice)
    <2> HIDE DEF step, n, Is
    <2> QED
      BY <1>8, <1>9 DEF FoldOf
  <1>11. PICK r \in [0..n -> Choice] : RunOf(r, Start(order, BwLimit), step, n) /\ C[1..n] = r[n]
    <2> HIDE DEF step, n, Is
    <2>1. Reaches(Choice, Start(order, BwLimit), step, n, C[1..n])
      BY <1>1, <1>3, <1>10, FoldRuns
    <2> QED
      BY <2>1 DEF Reaches
  <1>12. ASSUME NEW i \in 1..n PROVE r[i] = One(i, r[i - 1])
    <2>1. i - 1 \in 0..n
      BY <1>1
    <2> HIDE DEF n, One
    <2>2. r[i - 1] \in Choice
      BY <1>11, <2>1
    <2> QED
      BY <1>11, <2>2 DEF RunOf
  <1> HIDE DEF step, Is
  <1> QED
    BY <1>7, <1>11, <1>12 DEF RunOf, PerfFairRun

\* Its second loop, over the neighbours.
PerfFairRestRun(r, st) ==
    r[0] = st /\ \A i \in 1..Len(Append(st.all, st.all[1])) : r[i] = PerfFairNeighbour(r[i - 1])

LEMMA PerfFairRestGoes ==
    ASSUME NEW st \in Choice, st.all # <<>>
    PROVE  \E r \in [0..Len(Append(st.all, st.all[1])) -> Choice] : PerfFairRestRun(r, st) /\ FoldLeft(LAMBDA s, p : PerfFairNeighbour(s), st, Append(st.all, st.all[1])) = r[Len(Append(st.all, st.all[1]))]
  <1> DEFINE n == Len(Append(st.all, st.all[1]))
             One(i, s) == PerfFairNeighbour(s)
             step == [i \in 1..n |-> [s \in Choice |-> One(i, s)]]
             Is(f) == f = [T \in SUBSET (1..n) |-> IF T = {} THEN st ELSE One(Max(T), f[T \ {Max(T)}])]
  <1>1. n \in Nat /\ DOMAIN Append(st.all, st.all[1]) = 1..n /\ st \in Choice
    <2>1. st.all \in Seq(Slots)
      BY DEF Choice
    <2>2. st.all[1] \in Slots
      BY <2>1, EmptySeq, LenProperties
    <2>3. Append(st.all, st.all[1]) \in Seq(Slots)
      BY <2>1, <2>2, AppendProperties
    <2> QED
      BY <2>3, LenProperties
  <1>2. ASSUME NEW i \in 1..n, NEW s \in Choice PROVE One(i, s) \in Choice
    <2> QED
      BY PerfFairNeighbourTyped
  <1>3. step \in [1..n -> [Choice -> Choice]]
    <2> HIDE DEF n, One
    <2> QED
      BY <1>2
  <1>4. PICK f \in [SUBSET (1..n) -> Choice] : FoldIs(f, st, step, n)
    <2> HIDE DEF step, n
    <2> QED
      BY <1>1, <1>3, FoldExists
  <1>5. Is(f)
    <2>1. ASSUME NEW T \in SUBSET (1..n), T # {}
          PROVE  step[Max(T)][f[T \ {Max(T)}]] = One(Max(T), f[T \ {Max(T)}])
      <3> HIDE DEF n, One
      <3>1. Max(T) \in 1..n
        BY <2>1, <1>1, GreatestTurn
      <3>2. f[T \ {Max(T)}] \in Choice
        BY <1>4
      <3> QED
        BY <3>1, <3>2
    <2> HIDE DEF One, step, n
    <2> QED
      BY <1>4, <2>1 DEF FoldIs
  <1>6. PICK C : C = (CHOOSE g : Is(g)) /\ Is(C)
    <2> HIDE DEF Is
    <2> QED
      BY <1>5
  <1>7. FoldLeft(LAMBDA s, p : PerfFairNeighbour(s), st, Append(st.all, st.all[1])) = C[1..n]
    <2>1. C = CHOOSE g : g = [T \in SUBSET (1..n) |->
                 IF T = {} THEN st ELSE One(Max(T), g[T \ {Max(T)}])]
      BY <1>6
    <2> HIDE DEF Is, n
    <2> QED
      BY <1>1, <2>1 DEF FoldLeft, MapThenFoldSet
  <1>8. C[{}] = st
    <2>1. {} \in SUBSET (1..n)
      OBVIOUS
    <2> HIDE DEF n, One
    <2> QED
      BY <1>6, <2>1
  <1>9. ASSUME NEW T \in SUBSET (1..n), T # {}, C[T \ {Max(T)}] \in Choice
        PROVE  C[T] = step[Max(T)][C[T \ {Max(T)}]]
    <2> HIDE DEF n, One
    <2>1. Max(T) \in 1..n
      BY <1>1, <1>9, GreatestTurn
    <2>2. C[T] = One(Max(T), C[T \ {Max(T)}])
      BY <1>6, <1>9
    <2> HIDE DEF Is
    <2> QED
      BY <1>9, <2>1, <2>2
  <1>10. FoldOf(C, st, step, n, Choice)
    <2> HIDE DEF step, n, Is
    <2> QED
      BY <1>8, <1>9 DEF FoldOf
  <1>11. PICK r \in [0..n -> Choice] : RunOf(r, st, step, n) /\ C[1..n] = r[n]
    <2> HIDE DEF step, n, Is
    <2>1. Reaches(Choice, st, step, n, C[1..n])
      BY <1>1, <1>3, <1>10, FoldRuns
    <2> QED
      BY <2>1 DEF Reaches
  <1>12. ASSUME NEW i \in 1..n PROVE r[i] = One(i, r[i - 1])
    <2>1. i - 1 \in 0..n
      BY <1>1
    <2> HIDE DEF n, One
    <2>2. r[i - 1] \in Choice
      BY <1>11, <2>1
    <2> QED
      BY <1>11, <2>2 DEF RunOf
  <1> HIDE DEF step, Is
  <1> QED
    BY <1>7, <1>11, <1>12 DEF RunOf, PerfFairRestRun

\* The first loop of fair_bw_cache.
BwCacheRun(r, order) ==
    r[0] = Start(order, BwLimit) /\ \A i \in 1..Len(order) : r[i] = BwCacheStep(r[i - 1], order[i])

LEMMA BwCacheGoes ==
    ASSUME NEW order \in Seq(Slots), class \in [Slots -> Classes]
    PROVE  \E r \in [0..Len(order) -> Choice] : BwCacheRun(r, order) /\ FoldLeft(BwCacheStep, Start(order, BwLimit), order) = r[Len(order)]
  <1> DEFINE n == Len(order)
             One(i, s) == BwCacheStep(s, order[i])
             step == [i \in 1..n |-> [s \in Choice |-> One(i, s)]]
             Is(f) == f = [T \in SUBSET (1..n) |-> IF T = {} THEN Start(order, BwLimit) ELSE One(Max(T), f[T \ {Max(T)}])]
  <1>1. n \in Nat /\ DOMAIN order = 1..n /\ Start(order, BwLimit) \in Choice
    <2>1. BwLimit \in Int
      BY PoliciesAssumption
    <2> QED
      BY <2>1, LenProperties, StartTyped
  <1>2. ASSUME NEW i \in 1..n, NEW s \in Choice PROVE One(i, s) \in Choice
    <2>1. order[i] \in Slots
      BY LenProperties
    <2> QED
      BY <2>1, BwCacheTyped
  <1>3. step \in [1..n -> [Choice -> Choice]]
    <2> HIDE DEF n, One
    <2> QED
      BY <1>2
  <1>4. PICK f \in [SUBSET (1..n) -> Choice] : FoldIs(f, Start(order, BwLimit), step, n)
    <2> HIDE DEF step, n
    <2> QED
      BY <1>1, <1>3, FoldExists
  <1>5. Is(f)
    <2>1. ASSUME NEW T \in SUBSET (1..n), T # {}
          PROVE  step[Max(T)][f[T \ {Max(T)}]] = One(Max(T), f[T \ {Max(T)}])
      <3> HIDE DEF n, One
      <3>1. Max(T) \in 1..n
        BY <2>1, <1>1, GreatestTurn
      <3>2. f[T \ {Max(T)}] \in Choice
        BY <1>4
      <3> QED
        BY <3>1, <3>2
    <2> HIDE DEF One, step, n
    <2> QED
      BY <1>4, <2>1 DEF FoldIs
  <1>6. PICK C : C = (CHOOSE g : Is(g)) /\ Is(C)
    <2> HIDE DEF Is
    <2> QED
      BY <1>5
  <1>7. FoldLeft(BwCacheStep, Start(order, BwLimit), order) = C[1..n]
    <2>1. C = CHOOSE g : g = [T \in SUBSET (1..n) |->
                 IF T = {} THEN Start(order, BwLimit) ELSE One(Max(T), g[T \ {Max(T)}])]
      BY <1>6
    <2> HIDE DEF Is, n
    <2> QED
      BY <1>1, <2>1 DEF FoldLeft, MapThenFoldSet
  <1>8. C[{}] = Start(order, BwLimit)
    <2>1. {} \in SUBSET (1..n)
      OBVIOUS
    <2> HIDE DEF n, One
    <2> QED
      BY <1>6, <2>1
  <1>9. ASSUME NEW T \in SUBSET (1..n), T # {}, C[T \ {Max(T)}] \in Choice
        PROVE  C[T] = step[Max(T)][C[T \ {Max(T)}]]
    <2> HIDE DEF n, One
    <2>1. Max(T) \in 1..n
      BY <1>1, <1>9, GreatestTurn
    <2>2. C[T] = One(Max(T), C[T \ {Max(T)}])
      BY <1>6, <1>9
    <2> HIDE DEF Is
    <2> QED
      BY <1>9, <2>1, <2>2
  <1>10. FoldOf(C, Start(order, BwLimit), step, n, Choice)
    <2> HIDE DEF step, n, Is
    <2> QED
      BY <1>8, <1>9 DEF FoldOf
  <1>11. PICK r \in [0..n -> Choice] : RunOf(r, Start(order, BwLimit), step, n) /\ C[1..n] = r[n]
    <2> HIDE DEF step, n, Is
    <2>1. Reaches(Choice, Start(order, BwLimit), step, n, C[1..n])
      BY <1>1, <1>3, <1>10, FoldRuns
    <2> QED
      BY <2>1 DEF Reaches
  <1>12. ASSUME NEW i \in 1..n PROVE r[i] = One(i, r[i - 1])
    <2>1. i - 1 \in 0..n
      BY <1>1
    <2> HIDE DEF n, One
    <2>2. r[i - 1] \in Choice
      BY <1>11, <2>1
    <2> QED
      BY <1>11, <2>2 DEF RunOf
  <1> HIDE DEF step, Is
  <1> QED
    BY <1>7, <1>11, <1>12 DEF RunOf, BwCacheRun

\* Its second loop, over the neighbours.
BwCacheRestRun(r, st) ==
    r[0] = st /\ \A i \in 1..Len(st.all) : r[i] = BwCacheNeighbour(r[i - 1])

LEMMA BwCacheRestGoes ==
    ASSUME NEW st \in Choice
    PROVE  \E r \in [0..Len(st.all) -> Choice] : BwCacheRestRun(r, st) /\ FoldLeft(LAMBDA s, p : BwCacheNeighbour(s), st, st.all) = r[Len(st.all)]
  <1> DEFINE n == Len(st.all)
             One(i, s) == BwCacheNeighbour(s)
             step == [i \in 1..n |-> [s \in Choice |-> One(i, s)]]
             Is(f) == f = [T \in SUBSET (1..n) |-> IF T = {} THEN st ELSE One(Max(T), f[T \ {Max(T)}])]
  <1>1. n \in Nat /\ DOMAIN st.all = 1..n /\ st \in Choice
    <2>1. st.all \in Seq(Slots)
      BY DEF Choice
    <2> QED
      BY <2>1, LenProperties
  <1>2. ASSUME NEW i \in 1..n, NEW s \in Choice PROVE One(i, s) \in Choice
    <2> QED
      BY BwCacheNeighbourTyped
  <1>3. step \in [1..n -> [Choice -> Choice]]
    <2> HIDE DEF n, One
    <2> QED
      BY <1>2
  <1>4. PICK f \in [SUBSET (1..n) -> Choice] : FoldIs(f, st, step, n)
    <2> HIDE DEF step, n
    <2> QED
      BY <1>1, <1>3, FoldExists
  <1>5. Is(f)
    <2>1. ASSUME NEW T \in SUBSET (1..n), T # {}
          PROVE  step[Max(T)][f[T \ {Max(T)}]] = One(Max(T), f[T \ {Max(T)}])
      <3> HIDE DEF n, One
      <3>1. Max(T) \in 1..n
        BY <2>1, <1>1, GreatestTurn
      <3>2. f[T \ {Max(T)}] \in Choice
        BY <1>4
      <3> QED
        BY <3>1, <3>2
    <2> HIDE DEF One, step, n
    <2> QED
      BY <1>4, <2>1 DEF FoldIs
  <1>6. PICK C : C = (CHOOSE g : Is(g)) /\ Is(C)
    <2> HIDE DEF Is
    <2> QED
      BY <1>5
  <1>7. FoldLeft(LAMBDA s, p : BwCacheNeighbour(s), st, st.all) = C[1..n]
    <2>1. C = CHOOSE g : g = [T \in SUBSET (1..n) |->
                 IF T = {} THEN st ELSE One(Max(T), g[T \ {Max(T)}])]
      BY <1>6
    <2> HIDE DEF Is, n
    <2> QED
      BY <1>1, <2>1 DEF FoldLeft, MapThenFoldSet
  <1>8. C[{}] = st
    <2>1. {} \in SUBSET (1..n)
      OBVIOUS
    <2> HIDE DEF n, One
    <2> QED
      BY <1>6, <2>1
  <1>9. ASSUME NEW T \in SUBSET (1..n), T # {}, C[T \ {Max(T)}] \in Choice
        PROVE  C[T] = step[Max(T)][C[T \ {Max(T)}]]
    <2> HIDE DEF n, One
    <2>1. Max(T) \in 1..n
      BY <1>1, <1>9, GreatestTurn
    <2>2. C[T] = One(Max(T), C[T \ {Max(T)}])
      BY <1>6, <1>9
    <2> HIDE DEF Is
    <2> QED
      BY <1>9, <2>1, <2>2
  <1>10. FoldOf(C, st, step, n, Choice)
    <2> HIDE DEF step, n, Is
    <2> QED
      BY <1>8, <1>9 DEF FoldOf
  <1>11. PICK r \in [0..n -> Choice] : RunOf(r, st, step, n) /\ C[1..n] = r[n]
    <2> HIDE DEF step, n, Is
    <2>1. Reaches(Choice, st, step, n, C[1..n])
      BY <1>1, <1>3, <1>10, FoldRuns
    <2> QED
      BY <2>1 DEF Reaches
  <1>12. ASSUME NEW i \in 1..n PROVE r[i] = One(i, r[i - 1])
    <2>1. i - 1 \in 0..n
      BY <1>1
    <2> HIDE DEF n, One
    <2>2. r[i - 1] \in Choice
      BY <1>11, <2>1
    <2> QED
      BY <1>11, <2>2 DEF RunOf
  <1> HIDE DEF step, Is
  <1> QED
    BY <1>7, <1>11, <1>12 DEF RunOf, BwCacheRestRun

-----------------------------------------------------------------------------
(* What a choice keeps.                                                     *)

\* The programs of the list that was started with are in all or in the gang.
Split(st, L) ==
    /\ st \in Choice /\ IsInjective(st.all) /\ IsInjective(st.sch)
    /\ ToSet(st.all) \intersect ToSet(st.sch) = {}
    /\ ToSet(st.all) \union ToSet(st.sch) = L

\* Every program has one thread.
OneCore == \A p \in Slots : Need[p] = 1

Fine(st, L) ==
    /\ Split(st, L)
    /\ st.cores = 0 <=> st.sch = <<>>
    /\ OneCore => st.cores = Len(st.sch) /\ st.cores <= MaxCores

\* t begins with s.
Grown(t, s) == Len(s) <= Len(t) /\ \A i \in 1..Len(s) : t[i] = s[i]

LEMMA GrownIs ==
    ASSUME NEW A, NEW s \in Seq(A), NEW t \in Seq(A), NEW u \in Seq(A), Grown(t, s)
    PROVE  /\ ToSet(s) \subseteq ToSet(t)
           /\ Grown(u, t) => Grown(u, s)
           /\ t = <<>> => s = <<>>
  <1>1. Len(s) \in Nat /\ Len(t) \in Nat /\ Len(u) \in Nat
    BY Entries
  <1>2. \A i \in 1..Len(s) : i \in 1..Len(t)
    BY <1>1 DEF Grown
  <1>3. ASSUME NEW x \in ToSet(s) PROVE x \in ToSet(t)
    <2>1. PICK i \in 1..Len(s) : s[i] = x
      BY Entries
    <2>2. t[i] = x /\ i \in 1..Len(t)
      BY <1>2, <2>1 DEF Grown
    <2> QED
      BY <2>2, Entries
  <1>4. Grown(u, t) => Grown(u, s)
    BY <1>1, <1>2 DEF Grown
  <1>5. ASSUME t = <<>> PROVE s = <<>>
    <2>1. Len(t) = 0
      BY <1>5, Entries
    <2>2. Len(s) = 0
      BY <1>1, <2>1 DEF Grown
    <2> QED
      BY <2>2, Entries
  <1> QED
    BY <1>3, <1>4, <1>5

\* Nothing is chosen yet.
Started(st, list, bw) ==
    /\ Fine(st, ToSet(list)) /\ st.all = list /\ st.sch = <<>> /\ st.cores = 0
    /\ st.bw = bw /\ st.llc = LlcLimit
    /\ st.bwOn = FALSE /\ st.csOn = FALSE /\ st.fault = "none"

LEMMA StartFine ==
    ASSUME NEW list \in Seq(Slots), IsInjective(list), NEW bw \in Int
    PROVE  Started(Start(list, bw), list, bw)
  <1>1. PICK st \in Choice : /\ st = Start(list, bw) /\ st.all = list /\ st.sch = <<>> /\ st.cores = 0
                             /\ st.fault = "none" /\ st.bw = bw /\ st.llc = LlcLimit
                             /\ st.bwOn = FALSE /\ st.csOn = FALSE
    BY StartTyped DEF Start
  <1>2. <<>> \in Seq(Slots) /\ Len(<<>>) = 0 /\ MaxCores \in Nat
    BY PoliciesAssumption, EmptySeq
  <1>3. PICK none \in Seq(Slots) : none = <<>> /\ Len(none) = 0
    BY <1>2
  <1>4. IsInjective(none) /\ ToSet(none) = {}
    <2>1. \A i, j \in 1..Len(none) : none[i] = none[j] => i = j
      BY <1>3
    <2> QED
      BY <1>3, <2>1, Distinct, Entries
  <1>5. Split(st, ToSet(list))
    BY <1>1, <1>3, <1>4 DEF Split
  <1> QED
    BY <1>1, <1>2, <1>3, <1>5 DEF Fine, Started

\* p moves from all to the gang.
Moved(new, st, p) ==
    /\ new \in Choice /\ new.all = RemoveFirst(st.all, p) /\ new.sch = Append(st.sch, p)
    /\ new.cores = st.cores + Need[p]
Taken(new, st, p) ==
    /\ ToSet(new.all) = ToSet(st.all) \ {p} /\ ToSet(new.sch) = ToSet(st.sch) \union {p}
    /\ Len(new.all) = Len(st.all) - 1 /\ Len(new.sch) = Len(st.sch) + 1
    /\ new.sch[Len(st.sch) + 1] = p
    /\ Grown(new.sch, st.sch) /\ new.cores # 0

LEMMA TurnMoves ==
    ASSUME NEW st \in Choice, NEW p \in Slots
    PROVE  /\ Moved(Place(st, p), st, p) /\ Place(st, p).fault = st.fault
           /\ Moved(TakeBw(st, p), st, p) /\ TakeBw(st, p).fault = st.fault
  BY PlaceTyped, TakeBwTyped DEF Moved

LEMMA MovedFine ==
    ASSUME NEW L, NEW st, Fine(st, L), st.cores # MaxCores, NEW p \in ToSet(st.all),
           NEW new, Moved(new, st, p)
    PROVE  Fine(new, L) /\ Taken(new, st, p)
  <1>1. PICK a \in Seq(Slots), s \in Seq(Slots) :
           /\ a = st.all /\ s = st.sch /\ IsInjective(a) /\ IsInjective(s)
           /\ ToSet(a) \intersect ToSet(s) = {} /\ ToSet(a) \union ToSet(s) = L
    BY DEF Fine, Split, Choice
  <1>2. p \in Slots /\ p \in ToSet(a) /\ p \notin ToSet(s)
    BY <1>1, Entries
  <1>3. PICK a1 \in Seq(Slots) : /\ a1 = new.all /\ IsInjective(a1) /\ Len(a1) = Len(a) - 1
                                 /\ ToSet(a1) = ToSet(a) \ {p}
    BY <1>1, <1>2, RemovedEntries DEF Moved
  <1>4. PICK s1 \in Seq(Slots) : /\ s1 = new.sch /\ IsInjective(s1) /\ Len(s1) = Len(s) + 1
                                 /\ ToSet(s1) = ToSet(s) \union {p}
    <2>1. /\ Append(s, p) \in Seq(Slots) /\ Len(Append(s, p)) = Len(s) + 1
          /\ ToSet(Append(s, p)) = ToSet(s) \union {p}
          /\ IsInjective(s) /\ p \notin ToSet(s) => IsInjective(Append(s, p))
      BY <1>2, Appended
    <2>2. new.sch = Append(s, p)
      BY <1>1 DEF Moved
    <2> QED
      BY <1>1, <1>2, <2>1, <2>2
  <1>5. s1[Len(s) + 1] = p /\ \A i \in 1..Len(s) : s1[i] = s[i]
    BY <1>1, <1>2, <1>4, AppendProperties DEF Moved
  <1>6. Len(s) \in Nat /\ Len(s1) \in Nat
    BY Entries
  <1>7. Grown(s1, s)
    BY <1>4, <1>5, <1>6 DEF Grown
  <1>8. Split(new, L)
    BY <1>1, <1>2, <1>3, <1>4 DEF Split, Moved
  <1>9. st.cores \in Nat /\ Need[p] \in Nat /\ Need[p] >= 1 /\ new.cores = st.cores + Need[p] /\ MaxCores \in Nat
    <2>1. st.cores \in Nat
      BY DEF Fine, Split, Choice
    <2>2. Need[p] \in Nat /\ Need[p] >= 1 /\ MaxCores \in Nat
      BY <1>2, PoliciesAssumption
    <2> QED
      BY <2>1, <2>2 DEF Moved
  <1>10. s1 # <<>> /\ new.cores # 0
    <2>1. Len(s1) # 0
      BY <1>4, <1>6
    <2> QED
      BY <1>9, <2>1, EmptySeq
  <1>11. ASSUME OneCore PROVE new.cores = Len(s1) /\ new.cores <= MaxCores
    <2>1. Need[p] = 1 /\ st.cores = Len(s) /\ st.cores <= MaxCores
      BY <1>1, <1>2, <1>11 DEF OneCore, Fine
    <2> QED
      BY <1>4, <1>6, <1>9, <2>1
  <1>12. Fine(new, L)
    BY <1>4, <1>8, <1>10, <1>11 DEF Fine
  <1> QED
    BY <1>1, <1>3, <1>4, <1>5, <1>7, <1>10, <1>12 DEF Taken

\* As many programs as in the list that was started with.
LEMMA SplitLen ==
    ASSUME NEW list \in Seq(Slots), IsInjective(list), NEW st, Split(st, ToSet(list))
    PROVE  /\ Len(st.all) \in Nat /\ Len(st.sch) \in Nat /\ Len(list) \in Nat
           /\ Len(st.all) + Len(st.sch) = Len(list)
  <1>1. PICK a \in Seq(Slots), s \in Seq(Slots) :
           /\ a = st.all /\ s = st.sch /\ IsInjective(a) /\ IsInjective(s)
           /\ ToSet(a) \intersect ToSet(s) = {} /\ ToSet(a) \union ToSet(s) = ToSet(list)
    BY DEF Split, Choice
  <1>2. /\ IsFiniteSet(ToSet(a)) /\ Cardinality(ToSet(a)) = Len(a) /\ Len(a) \in Nat
        /\ IsFiniteSet(ToSet(s)) /\ Cardinality(ToSet(s)) = Len(s) /\ Len(s) \in Nat
        /\ Cardinality(ToSet(list)) = Len(list) /\ Len(list) \in Nat
    BY <1>1, Sized
  <1>3. Cardinality(ToSet(a) \union ToSet(s))
          = Cardinality(ToSet(a)) + Cardinality(ToSet(s)) - Cardinality(ToSet(a) \intersect ToSet(s))
    BY <1>2, FS_Union
  <1>4. Cardinality(ToSet(a) \intersect ToSet(s)) = 0
    BY <1>1, FS_EmptySet
  <1>5. Cardinality(ToSet(list)) = Len(a) + Len(s) - 0
    BY <1>1, <1>2, <1>3, <1>4
  <1>6. Len(list) = Len(a) + Len(s)
    BY <1>2, <1>5
  <1> QED
    BY <1>1, <1>2, <1>6

\* What fill_rest_cores makes of a choice.
Filled(new, st, L) ==
    /\ Fine(new, L) /\ new.fault = st.fault
    /\ Grown(new.sch, st.sch) /\ ToSet(new.all) \subseteq ToSet(st.all)
    /\ new.cores = MaxCores \/ new.all = <<>>
    /\ st.cores # MaxCores /\ st.all # <<>> => st.all[1] \in ToSet(new.sch)
    /\ st.all = <<>> => new = st

FillAt(s, st, L, i, n) ==
    /\ Fine(s, L) /\ s.fault = st.fault
    /\ Grown(s.sch, st.sch) /\ ToSet(s.all) \subseteq ToSet(st.all)
    /\ \A k \in (i + 1)..n : s.cores # MaxCores => st.all[k] \in ToSet(s.all)
    /\ s.cores = MaxCores \/ Len(s.all) = n - i
    /\ st.cores # MaxCores /\ i >= 1 => st.all[1] \in ToSet(s.sch)

LEMMA FillIs ==
    ASSUME NEW L, NEW st, Fine(st, L)
    PROVE  Filled(FillRestCores(st), st, L)
  <1>1. PICK list \in Seq(Slots), n \in Nat :
           /\ list = st.all /\ n = Len(list) /\ IsInjective(list)
           /\ \A k \in 1..n : list[k] \in ToSet(list) /\ list[k] \in Slots
    <2>1. st.all \in Seq(Slots) /\ IsInjective(st.all)
      BY DEF Fine, Split, Choice
    <2> QED
      BY <2>1, Entries, LenProperties
  <1>2. st \in Choice
    BY DEF Fine, Split
  <1>3. PICK r \in [0..n -> Choice] : FillRun(r, st) /\ FillRestCores(st) = r[n]
    BY <1>1, <1>2, FillGoes
  <1>4. r[0] = st /\ \A i \in 1..n : r[i] = InOrderStep(r[i - 1], list[i])
    BY <1>1, <1>3 DEF FillRun
  <1> DEFINE Q == {i \in 0..n : FillAt(r[i], st, L, i, n)}
  <1>5. 0 \in Q
    <2>1. FillAt(st, st, L, 0, n)
      <3>1. Grown(st.sch, st.sch)
        <4>1. st.sch \in Seq(Slots)
          BY <1>2 DEF Choice
        <4> QED
          BY <4>1, Entries DEF Grown
      <3> QED
        BY <1>1, <3>1 DEF FillAt
    <2>2. 0 \in 0..n
      BY <1>1
    <2> QED
      BY <1>4, <2>1, <2>2
  <1>6. ASSUME NEW i \in 1..n, i - 1 \in Q PROVE i \in Q
    <2>1. PICK s : s = r[i - 1] /\ FillAt(s, st, L, i - 1, n)
      BY <1>6
    <2>2. i \in 0..n /\ r[i] = InOrderStep(s, list[i])
      BY <1>4, <2>1
    <2>3. CASE s.cores = MaxCores
      <3>1. r[i] = s
        BY <2>2, <2>3 DEF InOrderStep, Full
      <3>2. st.cores # MaxCores => i # 1
        BY <1>4, <2>1, <2>3
      <3>3. FillAt(s, st, L, i, n)
        BY <2>1, <2>3, <3>2 DEF FillAt
      <3> QED
        BY <2>2, <3>1, <3>3
    <2>4. CASE s.cores # MaxCores
      <3>1. i \in (i - 1 + 1)..n /\ n - (i - 1) - 1 = n - i
        OBVIOUS
      <3>2. PICK p \in ToSet(s.all) : p = list[i]
        BY <1>1, <2>1, <2>4, <3>1 DEF FillAt
      <3>3. PICK new : new = r[i] /\ new = Place(s, p)
        BY <2>2, <2>4, <3>2 DEF InOrderStep, Full
      <3>4. s \in Choice /\ p \in Slots
        BY <1>1, <2>1, <3>2 DEF FillAt, Fine, Split
      <3>5. Moved(new, s, p) /\ new.fault = s.fault
        BY <3>3, <3>4, PlaceTyped DEF Moved
      <3>6. Fine(s, L)
        BY <2>1 DEF FillAt
      <3>7. Fine(new, L) /\ Taken(new, s, p)
        BY <2>4, <3>5, <3>6, MovedFine
      <3>8. Grown(new.sch, st.sch)
        <4>1. new.sch \in Seq(Slots) /\ s.sch \in Seq(Slots) /\ st.sch \in Seq(Slots)
          BY <1>2, <3>4, <3>5 DEF Moved, Choice
        <4>2. Grown(s.sch, st.sch) /\ Grown(new.sch, s.sch)
          BY <2>1, <3>7 DEF FillAt, Taken
        <4> QED
          BY <4>1, <4>2, GrownIs
      <3>9. ASSUME NEW k \in (i + 1)..n PROVE list[k] \in ToSet(new.all)
        <4>1. k \in (i - 1 + 1)..n /\ k \in 1..n /\ k # i
          OBVIOUS
        <4>2. list[k] \in ToSet(s.all)
          BY <1>1, <2>1, <2>4, <4>1 DEF FillAt
        <4>3. list[k] # p
          BY <1>1, <3>2, <4>1, Distinct
        <4> QED
          BY <3>7, <4>2, <4>3 DEF Taken
      <3>10. Len(new.all) = n - i
        BY <2>1, <2>4, <3>1, <3>7 DEF FillAt, Taken
      <3>11. st.cores # MaxCores => list[1] \in ToSet(new.sch)
        <4>1. CASE i = 1
          BY <3>2, <3>7, <4>1 DEF Taken
        <4>2. CASE i - 1 >= 1
          BY <1>1, <2>1, <3>7, <4>2 DEF FillAt, Taken
        <4> QED
          BY <4>1, <4>2
      <3>12. ToSet(new.all) \subseteq ToSet(st.all) /\ new.fault = st.fault
        BY <2>1, <3>5, <3>7 DEF FillAt, Taken
      <3>13. FillAt(new, st, L, i, n)
        BY <1>1, <3>7, <3>8, <3>9, <3>10, <3>11, <3>12 DEF FillAt
      <3> QED
        BY <2>2, <3>3, <3>13
    <2> QED
      BY <2>3, <2>4
  <1>7. n \in Q
    <2>1. n \in 0..n
      BY <1>1
    <2> HIDE DEF Q
    <2> QED
      BY <1>5, <1>6, <2>1, InductTo
  <1>8. PICK new : new = FillRestCores(st) /\ new = r[n] /\ FillAt(new, st, L, n, n)
    BY <1>3, <1>7
  <1>9. new.cores = MaxCores \/ new.all = <<>>
    <2>1. new.cores = MaxCores \/ Len(new.all) = 0
      BY <1>8 DEF FillAt
    <2>2. new.all \in Seq(Slots)
      BY <1>8 DEF FillAt, Fine, Split, Choice
    <2> QED
      BY <2>1, <2>2, Entries
  <1>10. (st.all # <<>> => n >= 1) /\ (st.all = <<>> => n = 0)
    BY <1>1, Entries
  <1> QED
    BY <1>4, <1>8, <1>9, <1>10 DEF FillAt, Filled

-----------------------------------------------------------------------------
(* The gangs of the four policies.                                          *)

\* What every policy keeps, and that it takes the first of its list.
GangOk(st, list) ==
    /\ Fine(st, ToSet(list))
    /\ st.fault = "none" /\ st.all # <<>> => st.cores >= MaxCores
    /\ OneCore => st.fault = "none"
LeastIn(st, list) == list # <<>> => list[1] \in ToSet(st.sch)

LEMMA FairIs ==
    ASSUME NEW order \in Seq(Slots), IsInjective(order)
    PROVE  GangOk(FairGang(order), order) /\ LeastIn(FairGang(order), order)
  <1>1. BwLimit \in Int /\ MaxCores \in Nat \ {0}
    BY PoliciesAssumption
  <1>2. PICK st : st = Start(order, BwLimit) /\ Started(st, order, BwLimit)
    BY <1>1, StartFine
  <1>3. PICK new : new = FairGang(order) /\ Filled(new, st, ToSet(order))
    BY <1>2, FillIs DEF FairGang, Started
  <1> QED
    BY <1>1, <1>2, <1>3 DEF Filled, GangOk, LeastIn, Started

\* How long the programs of a list have waited, in its order: the longer the
\* nearer to its head, and m - k quanta at most at position k.
Waits(list, wt, m) ==
    \A k \in 1..Len(list) :
       /\ wt[list[k]] < 2 * (m - k) /\ wt[list[k]] >= -1
       /\ \A j \in 1..k : wt[list[j]] >= wt[list[k]]

LEMMA WaitsCut ==
    ASSUME NEW A, NEW wt \in [A -> Int], NEW m \in Int, NEW s \in Seq(A), NEW t \in Seq(A),
           NEW i \in 1..Len(s), CutAt(t, s, i)
    PROVE  /\ Waits(s, wt, m) => Waits(t, wt, m)
           /\ i = 1 /\ Waits(s, wt, m + 1) => Waits(t, wt, m)
  <1>1. /\ Len(s) \in Nat /\ Len(t) \in Nat /\ Len(t) = Len(s) - 1
        /\ \A k \in 1..Len(s) : wt[s[k]] \in Int
    BY Entries, LenProperties DEF CutAt
  <1> DEFINE from(k) == IF k < i THEN k ELSE k + 1
  <1>2. \A k \in 1..Len(t) : /\ from(k) \in 1..Len(s) /\ from(k) >= k /\ t[k] = s[from(k)]
                             /\ (i = 1 => from(k) = k + 1)
                             /\ \A j \in 1..k : j \in 1..Len(t) /\ from(j) \in 1..from(k)
    <2>1. SUFFICES ASSUME NEW k \in 1..Len(t)
                   PROVE  /\ from(k) \in 1..Len(s) /\ from(k) >= k /\ t[k] = s[from(k)]
                          /\ (i = 1 => from(k) = k + 1)
                          /\ \A j \in 1..k : j \in 1..Len(t) /\ from(j) \in 1..from(k)
      OBVIOUS
    <2>2. t[k] = s[from(k)]
      BY DEF CutAt
    <2>3. from(k) \in 1..Len(s) /\ from(k) >= k /\ (i = 1 => from(k) = k + 1)
      BY <1>1
    <2>4. \A j \in 1..k : j \in 1..Len(t) /\ from(j) \in 1..from(k)
      BY <1>1
    <2> QED
      BY <2>2, <2>3, <2>4
  <1> HIDE DEF from
  <1>3. ASSUME Waits(s, wt, m) PROVE Waits(t, wt, m)
    <2>1. SUFFICES ASSUME NEW k \in 1..Len(t)
                   PROVE  /\ wt[t[k]] < 2 * (m - k) /\ wt[t[k]] >= -1
                          /\ \A j \in 1..k : wt[t[j]] >= wt[t[k]]
      BY DEF Waits
    <2>2. PICK h \in 1..Len(s) : h = from(k) /\ h >= k /\ t[k] = s[h]
      BY <1>2
    <2>3. wt[s[h]] < 2 * (m - h) /\ wt[s[h]] >= -1 /\ \A j \in 1..h : wt[s[j]] >= wt[s[h]]
      BY <1>3 DEF Waits
    <2>4. wt[t[k]] < 2 * (m - k)
      <3>1. PICK w \in Int : w = wt[s[h]] /\ w = wt[t[k]]
        BY <1>1, <2>2
      <3>2. w < 2 * (m - h) /\ h \in Int /\ k \in Int /\ h >= k
        BY <2>2, <2>3, <3>1
      <3>3. w < 2 * (m - k)
        BY <3>2
      <3> QED
        BY <3>1, <3>3
    <2>5. \A j \in 1..k : wt[t[j]] >= wt[t[k]]
      BY <1>2, <2>2, <2>3
    <2> QED
      BY <2>2, <2>3, <2>4, <2>5
  <1>4. ASSUME i = 1, Waits(s, wt, m + 1) PROVE Waits(t, wt, m)
    <2>1. SUFFICES ASSUME NEW k \in 1..Len(t)
                   PROVE  /\ wt[t[k]] < 2 * (m - k) /\ wt[t[k]] >= -1
                          /\ \A j \in 1..k : wt[t[j]] >= wt[t[k]]
      BY DEF Waits
    <2>2. PICK h \in 1..Len(s) : h = from(k) /\ h = k + 1 /\ t[k] = s[h]
      BY <1>2, <1>4
    <2>3. wt[s[h]] < 2 * (m + 1 - h) /\ wt[s[h]] >= -1 /\ \A j \in 1..h : wt[s[j]] >= wt[s[h]]
      BY <1>4 DEF Waits
    <2>4. 2 * (m + 1 - h) = 2 * (m - k)
      BY <2>2
    <2>5. \A j \in 1..k : wt[t[j]] >= wt[t[k]]
      BY <1>2, <2>2, <2>3
    <2> QED
      BY <2>2, <2>3, <2>4, <2>5
  <1> QED
    BY <1>3, <1>4

\* The program of such a list that waits longest is its head.
LEMMA LongestIsHead ==
    ASSUME NEW A, NEW wt \in [A -> Int], NEW m \in Int, NEW s \in Seq(A), Waits(s, wt, m + 1),
           NEW p, Longest(p, s, wt)
    PROVE  RemoveFirst(s, p) \in Seq(A) /\ Waits(RemoveFirst(s, p), wt, m)
  <1>1. PICK i \in 1..Len(s) : p = s[i] /\ \A j \in 1..(i - 1) : -wt[s[i]] < -wt[s[j]]
    BY DEF Longest
  <1>2. Len(s) \in Nat /\ \A k \in 1..Len(s) : wt[s[k]] \in Int
    BY Entries, LenProperties
  <1>3. i = 1
    <2>1. SUFFICES ASSUME i # 1 PROVE FALSE
      OBVIOUS
    <2>2. 1 \in 1..(i - 1) /\ 1 \in 1..i /\ 1 \in 1..Len(s)
      BY <1>2, <2>1
    <2>3. -wt[s[i]] < -wt[s[1]] /\ wt[s[1]] >= wt[s[i]]
      BY <1>1, <2>2 DEF Waits
    <2> QED
      BY <1>2, <2>2, <2>3
  <1>4. p \in ToSet(s)
    BY <1>1, Entries
  <1>5. PICK t \in Seq(A) : t = RemoveFirst(s, p)
    BY Removed
  <1>6. PICK k \in 1..Len(s) : s[k] = p /\ CutAt(t, s, k) /\ \A j \in 1..(k - 1) : s[j] # p
    BY <1>4, <1>5, Removed
  <1>7. k = 1
    BY <1>1, <1>2, <1>3, <1>6
  <1> QED
    BY <1>5, <1>6, <1>7, WaitsCut

LEMMA WaitsRemoved ==
    ASSUME NEW A, NEW wt \in [A -> Int], NEW m \in Int, NEW s \in Seq(A), Waits(s, wt, m),
           NEW p \in ToSet(s)
    PROVE  Waits(RemoveFirst(s, p), wt, m)
  <1>1. PICK t \in Seq(A) : t = RemoveFirst(s, p)
    BY Removed
  <1>2. PICK k \in 1..Len(s) : CutAt(t, s, k)
    BY <1>1, Removed
  <1> QED
    BY <1>1, <1>2, WaitsCut

\* perf.
PerfAt(s, list, wt, m, i, n) ==
    /\ Fine(s, ToSet(list)) /\ s.fault = "none"
    /\ s.cores >= MaxCores \/ Len(s.all) = n - i
    /\ s.cores = 0 => s.all = list /\ i = 0
    /\ s.cores # 0 /\ Waits(list, wt, m + 1) => Waits(s.all, wt, m)

LEMMA PerfIs ==
    ASSUME NEW list \in Seq(Slots), IsInjective(list), NEW wt \in [Slots -> Int], NEW m \in Int
    PROVE  LET st == PerfGang(list, wt)
           IN  /\ GangOk(st, list) /\ (list # <<>> => st.sch # <<>>)
               /\ Waits(list, wt, m + 1) => Waits(st.all, wt, m)
  <1>1. PICK n \in Nat : n = Len(list) /\ n \in 0..n /\ 0 \in 0..n
    <2>1. Len(list) \in Nat
      BY Entries
    <2> QED
      BY <2>1
  <1>2. PICK r \in [0..n -> Choice] : PerfRun(r, list, wt) /\ PerfGang(list, wt) = r[n]
    BY <1>1, PerfGoes
  <1>3. r[0] = Start(list, BwLimit - BwReserve) /\ \A i \in 1..n : r[i] = PerfStep(r[i - 1], wt)
    BY <1>1, <1>2 DEF PerfRun
  <1>4. MaxCores \in Nat \ {0} /\ BwLimit - BwReserve \in Int
    BY PoliciesAssumption
  <1> DEFINE Q == {i \in 0..n : PerfAt(r[i], list, wt, m, i, n)}
  <1>5. 0 \in Q
    <2>1. PICK st : st = r[0] /\ Started(st, list, BwLimit - BwReserve)
      BY <1>3, <1>4, StartFine
    <2>2. PerfAt(st, list, wt, m, 0, n)
      BY <1>1, <2>1 DEF PerfAt, Started
    <2> QED
      BY <1>1, <2>1, <2>2
  <1>6. ASSUME NEW i \in 1..n, i - 1 \in Q PROVE i \in Q
    <2>1. PICK s : s = r[i - 1] /\ PerfAt(s, list, wt, m, i - 1, n)
      BY <1>6
    <2>2. i \in 0..n /\ r[i] = PerfStep(s, wt) /\ i # 0
      BY <1>3, <2>1
    <2>3. Fine(s, ToSet(list)) /\ s \in Choice /\ s.cores \in Nat /\ s.all \in Seq(Slots)
      BY <2>1 DEF PerfAt, Fine, Split, Choice
    <2>4. CASE s.cores >= MaxCores /\ r[i] = s
      <3>1. PerfAt(s, list, wt, m, i, n)
        BY <1>4, <2>1, <2>3, <2>4 DEF PerfAt
      <3> QED
        BY <2>2, <2>4, <3>1
    <2>5. CASE ~(s.cores >= MaxCores) /\ s.all = <<>> /\ r[i] = s
      <3>1. Len(s.all) = n - (i - 1) /\ Len(s.all) = 0
        BY <2>1, <2>3, <2>5, Entries DEF PerfAt
      <3>2. n - (i - 1) # 0
        OBVIOUS
      <3> QED
        BY <3>1, <3>2
    <2>6. CASE /\ ~(s.cores >= MaxCores) /\ s.all # <<>>
               /\ \E p \in ToSet(s.all) : /\ p \in Slots /\ PerfStep(s, wt) = TakeBw(s, p)
                                          /\ s.cores = 0 => Longest(p, s.all, wt)
      <3>1. PICK p \in ToSet(s.all) : /\ p \in Slots /\ PerfStep(s, wt) = TakeBw(s, p)
                                      /\ s.cores = 0 => Longest(p, s.all, wt)
        BY <2>6
      <3>2. PICK new : new = r[i] /\ new = TakeBw(s, p)
        BY <2>2, <3>1
      <3>3. Moved(new, s, p) /\ new.fault = s.fault
        BY <2>3, <3>1, <3>2, TurnMoves
      <3>4. s.cores # MaxCores
        BY <1>4, <2>3, <2>6
      <3>5. Fine(new, ToSet(list)) /\ Taken(new, s, p)
        BY <2>3, <3>3, <3>4, MovedFine
      <3>6. Len(new.all) = n - i
        <4>1. Len(s.all) = n - (i - 1) /\ Len(new.all) = Len(s.all) - 1
          BY <2>1, <2>6, <3>5 DEF PerfAt, Taken
        <4> QED
          BY <4>1
      <3>7. ASSUME Waits(list, wt, m + 1) PROVE Waits(new.all, wt, m)
        <4>1. CASE s.cores = 0
          <5>1. s.all = list /\ Longest(p, list, wt)
            BY <2>1, <3>1, <4>1 DEF PerfAt
          <5> QED
            BY <3>3, <3>7, <5>1, LongestIsHead DEF Moved
        <4>2. CASE s.cores # 0
          <5>1. Waits(s.all, wt, m)
            BY <2>1, <3>7, <4>2 DEF PerfAt
          <5> QED
            BY <2>3, <3>3, <5>1, WaitsRemoved DEF Moved
        <4> QED
          BY <4>1, <4>2
      <3>8. new.cores # 0 /\ new.fault = "none"
        BY <2>1, <3>3, <3>5 DEF PerfAt, Taken
      <3>9. PerfAt(new, list, wt, m, i, n)
        BY <3>5, <3>6, <3>7, <3>8 DEF PerfAt
      <3> QED
        BY <2>2, <3>2, <3>9
    <2> QED
      BY <2>2, <2>3, <2>4, <2>5, <2>6, PerfTurn
  <1>7. n \in Q
    <2> HIDE DEF Q
    <2> QED
      BY <1>1, <1>5, <1>6, InductTo
  <1>8. PICK st : st = PerfGang(list, wt) /\ PerfAt(st, list, wt, m, n, n)
    BY <1>2, <1>7
  <1>9. Fine(st, ToSet(list)) /\ st.fault = "none" /\ st.all \in Seq(Slots) /\ st.cores \in Nat
    BY <1>8 DEF PerfAt, Fine, Split, Choice
  <1>10. st.all # <<>> => st.cores >= MaxCores
    <2>1. SUFFICES ASSUME Len(st.all) = 0 PROVE st.all = <<>>
      BY <1>8 DEF PerfAt
    <2> QED
      BY <1>9, <2>1, EmptySeq
  <1>11. list # <<>> => st.cores # 0
    BY <1>1, <1>8, EmptySeq DEF PerfAt
  <1>12. list # <<>> => st.sch # <<>>
    BY <1>9, <1>11 DEF Fine
  <1>13. Waits(list, wt, m + 1) => Waits(st.all, wt, m)
    <2>1. CASE st.cores # 0
      BY <1>8, <2>1 DEF PerfAt
    <2>2. CASE st.cores = 0
      <3>1. st.all = list /\ list = <<>>
        BY <1>8, <1>11, <2>2 DEF PerfAt
      <3>2. Len(st.all) = 0
        BY <1>9, <3>1, EmptySeq
      <3> QED
        BY <3>2 DEF Waits
    <2> QED
      BY <2>1, <2>2
  <1>14. GangOk(st, list)
    BY <1>9, <1>10 DEF GangOk
  <1> QED
    BY <1>8, <1>12, <1>13, <1>14

\* Every program fits beside no other.
EachFits ==
    \A p \in Slots : Bw[p] <= BwLimit - BwReserve /\ Llc[p] <= LlcLimit + LlcSlack

\* perf_fair: the bandwidth that is left stays above the reserve.
PerfFairAt(s, order, i, n) ==
    /\ Fine(s, ToSet(order)) /\ s.fault = "none" /\ s.bw >= BwReserve
    /\ \A k \in (i + 1)..n : order[k] \in ToSet(s.all)
    /\ EachFits /\ i >= 1 => order[1] \in ToSet(s.sch)

LEMMA PerfFairFirst ==
    ASSUME NEW order \in Seq(Slots), IsInjective(order), NEW n \in Nat, n = Len(order)
    PROVE  PerfFairAt(FoldLeft(PerfFairStep, Start(order, BwLimit), order), order, n, n)
  <1>1. n \in 0..n /\ 0 \in 0..n
    OBVIOUS
  <1>2. PICK r \in [0..n -> Choice] :
           /\ PerfFairRun(r, order)
           /\ FoldLeft(PerfFairStep, Start(order, BwLimit), order) = r[n]
    BY PerfFairGoes
  <1>3. r[0] = Start(order, BwLimit) /\ \A i \in 1..n : r[i] = PerfFairStep(r[i - 1], order[i])
    BY <1>2 DEF PerfFairRun
  <1>4. /\ MaxCores \in Nat \ {0} /\ BwLimit \in Nat /\ BwReserve \in Nat /\ BwReserve <= BwLimit
        /\ \A p \in Slots : Bw[p] \in Nat
    BY PoliciesAssumption
  <1>5. \A k \in 1..n : order[k] \in ToSet(order) /\ order[k] \in Slots
    BY Entries, LenProperties
  <1>6. Started(r[0], order, BwLimit)
    BY <1>3, <1>4, StartFine
  <1> DEFINE Q == {i \in 0..n : PerfFairAt(r[i], order, i, n)}
  <1>7. 0 \in Q
    <2>1. PICK st : st = r[0] /\ Started(st, order, BwLimit)
      BY <1>6
    <2>2. PerfFairAt(st, order, 0, n)
      BY <1>4, <1>5, <2>1 DEF PerfFairAt, Started
    <2> QED
      BY <1>1, <2>1, <2>2
  <1>8. ASSUME NEW i \in 1..n, i - 1 \in Q PROVE i \in Q
    <2>1. PICK s : s = r[i - 1] /\ PerfFairAt(s, order, i - 1, n)
      BY <1>8
    <2>2. i \in (i - 1 + 1)..n /\ i \in 0..n
      OBVIOUS
    <2>3. PICK p \in ToSet(s.all) : p = order[i] /\ p \in Slots
      BY <1>5, <2>1, <2>2 DEF PerfFairAt
    <2>4. r[i] = PerfFairStep(s, p)
      BY <1>3, <2>1, <2>3
    <2>5. Fine(s, ToSet(order)) /\ s \in Choice /\ s.bw \in Int /\ s.bw >= BwReserve
      BY <2>1 DEF PerfFairAt, Fine, Split, Choice
    <2>6. PICK room \in Nat : room = s.bw - BwReserve
      BY <1>4, <2>5
    <2>7. ASSUME NEW k \in (i + 1)..n PROVE order[k] \in ToSet(s.all) /\ order[k] # p
      <3>1. k \in (i - 1 + 1)..n /\ k \in 1..n /\ k # i
        OBVIOUS
      <3> QED
        BY <2>1, <2>3, <3>1, Distinct DEF PerfFairAt
    <2>8. i = 1 => s.cores = 0 /\ s.bw = BwLimit
      BY <1>6, <2>1 DEF Started
    <2>9. CASE r[i] = s /\ (s.cores = MaxCores \/ ~(Bw[p] <= room))
      <3>1. EachFits => i # 1
        BY <1>4, <2>3, <2>6, <2>8, <2>9 DEF EachFits
      <3>2. EachFits => order[1] \in ToSet(s.sch)
        BY <2>1, <3>1 DEF PerfFairAt
      <3>3. PerfFairAt(s, order, i, n)
        BY <2>1, <2>5, <2>7, <3>2 DEF PerfFairAt
      <3> QED
        BY <2>2, <2>9, <3>3
    <2>10. CASE r[i] = TakeBw(s, p) /\ s.cores # MaxCores /\ Bw[p] <= room
      <3>1. PICK new : new = r[i] /\ new = TakeBw(s, p)
        BY <2>10
      <3>2. Moved(new, s, p) /\ new.fault = s.fault /\ new.bw = NotNegative(s.bw - Bw[p])
        BY <2>3, <2>5, <3>1, TurnMoves, TakeBwTyped
      <3>3. Fine(new, ToSet(order)) /\ Taken(new, s, p)
        BY <2>5, <2>10, <3>2, MovedFine
      <3>4. new.bw >= BwReserve
        <4>1. PICK b \in Nat : b = Bw[p]
          BY <1>4, <2>3
        <4>2. s.bw - b >= BwReserve /\ s.bw - b \in Int
          BY <1>4, <2>5, <2>6, <2>10, <4>1
        <4>3. ~(s.bw - b < 0)
          BY <1>4, <4>2
        <4> QED
          BY <3>2, <4>1, <4>2, <4>3 DEF NotNegative
      <3>5. EachFits => order[1] \in ToSet(new.sch)
        <4>1. CASE i = 1
          BY <2>3, <3>3, <4>1 DEF Taken
        <4>2. CASE i - 1 >= 1
          BY <2>1, <3>3, <4>2 DEF PerfFairAt, Taken
        <4> QED
          BY <4>1, <4>2
      <3>6. \A k \in (i + 1)..n : order[k] \in ToSet(new.all)
        BY <2>7, <3>3 DEF Taken
      <3>7. new.fault = "none"
        BY <2>1, <3>2 DEF PerfFairAt
      <3>8. PerfFairAt(new, order, i, n)
        BY <3>3, <3>4, <3>5, <3>6, <3>7 DEF PerfFairAt
      <3> QED
        BY <2>2, <3>1, <3>8
    <2>11. \/ r[i] = s /\ (s.cores = MaxCores \/ ~(Bw[p] <= room))
           \/ r[i] = TakeBw(s, p) /\ s.cores # MaxCores /\ Bw[p] <= room
      <3>1. ~(room < 0) /\ Unsigned(s, room) = s
        BY DEF Unsigned
      <3> QED
        BY <2>4, <2>6, <3>1 DEF PerfFairStep, Full, Fits
    <2> QED
      BY <2>9, <2>10, <2>11
  <1>9. n \in Q
    <2> HIDE DEF Q
    <2> QED
      BY <1>1, <1>7, <1>8, InductTo
  <1> QED
    BY <1>2, <1>9

\* Its neighbours: the list ends before the cores only if a program has more
\* than one thread.
NeighbourAt(s, st, order, i, m) ==
    /\ Fine(s, ToSet(order)) /\ Grown(s.sch, st.sch)
    /\ s.fault = "none" => s.cores = MaxCores \/ Len(s.all) = m - i
    /\ OneCore /\ Len(order) > MaxCores => s.fault = "none"

LEMMA PerfFairSecond ==
    ASSUME NEW order \in Seq(Slots), IsInjective(order), NEW st, Fine(st, ToSet(order)),
           st.fault = "none", st.all # <<>>
    PROVE  LET new == FoldLeft(LAMBDA s, p : PerfFairNeighbour(s), st, Append(st.all, st.all[1]))
           IN  /\ Fine(new, ToSet(order)) /\ Grown(new.sch, st.sch)
               /\ new.fault = "none" => new.cores = MaxCores
               /\ OneCore /\ Len(order) > MaxCores => new.fault = "none"
  <1>1. PICK a \in Seq(Slots), m \in Nat : a = st.all /\ m = Len(a) /\ a[1] \in Slots /\ st \in Choice
    <2>1. st.all \in Seq(Slots) /\ st \in Choice
      BY DEF Fine, Split, Choice
    <2> QED
      BY <2>1, EmptySeq, LenProperties
  <1>2. PICK n \in Nat : n = Len(Append(st.all, st.all[1])) /\ n = m + 1
    <2>1. Len(Append(a, a[1])) = Len(a) + 1
      BY <1>1, AppendProperties
    <2> QED
      BY <1>1, <2>1
  <1>3. PICK r \in [0..n -> Choice] :
           /\ PerfFairRestRun(r, st)
           /\ FoldLeft(LAMBDA s, p : PerfFairNeighbour(s), st, Append(st.all, st.all[1])) = r[n]
    BY <1>1, <1>2, PerfFairRestGoes
  <1>4. r[0] = st /\ \A i \in 1..n : r[i] = PerfFairNeighbour(r[i - 1])
    BY <1>2, <1>3 DEF PerfFairRestRun
  <1>5. n \in 0..n /\ 0 \in 0..n /\ MaxCores \in Nat
    BY PoliciesAssumption
  <1> DEFINE Q == {i \in 0..n : NeighbourAt(r[i], st, order, i, m)}
  <1>6. 0 \in Q
    <2>1. Grown(st.sch, st.sch)
      <3>1. st.sch \in Seq(Slots)
        BY <1>1 DEF Choice
      <3> QED
        BY <3>1, Entries DEF Grown
    <2>2. NeighbourAt(st, st, order, 0, m)
      BY <1>1, <2>1 DEF NeighbourAt
    <2> QED
      BY <1>4, <1>5, <2>2
  <1>7. ASSUME NEW i \in 1..n, i - 1 \in Q PROVE i \in Q
    <2>1. PICK s : s = r[i - 1] /\ NeighbourAt(s, st, order, i - 1, m)
      BY <1>7
    <2>2. i \in 0..n /\ r[i] = PerfFairNeighbour(s)
      BY <1>4, <2>1
    <2>3. Fine(s, ToSet(order)) /\ s \in Choice /\ s.all \in Seq(Slots) /\ s.sch \in Seq(Slots)
      BY <2>1 DEF NeighbourAt, Fine, Split, Choice
    <2>4. CASE s.cores = MaxCores
      <3>1. r[i] = s
        BY <2>2, <2>4 DEF PerfFairNeighbour, Full
      <3>2. NeighbourAt(s, st, order, i, m)
        BY <2>1, <2>4 DEF NeighbourAt
      <3> QED
        BY <2>2, <3>1, <3>2
    <2>5. CASE s.cores # MaxCores /\ s.all = <<>>
      <3>1. PICK new : new = r[i] /\ new = [s EXCEPT !.fault = "head"]
        BY <2>2, <2>5 DEF PerfFairNeighbour, Full
      <3>2. /\ new \in Choice /\ new.all = s.all /\ new.sch = s.sch /\ new.cores = s.cores
            /\ new.fault = "head"
        <4>1. "head" \in Misses
          BY DEF Misses
        <4> QED
          BY <2>3, <3>1, <4>1, FaultTyped
      <3>3. Fine(new, ToSet(order))
        BY <2>3, <3>2 DEF Fine, Split
      <3>4. ~(OneCore /\ Len(order) > MaxCores)
        <4>1. SUFFICES ASSUME OneCore, Len(order) > MaxCores PROVE FALSE
          OBVIOUS
        <4>2. Len(s.all) + Len(s.sch) = Len(order) /\ Len(s.sch) \in Nat
          BY <2>3, SplitLen DEF Fine
        <4>3. s.cores = Len(s.sch) /\ s.cores <= MaxCores
          BY <2>3, <4>1 DEF Fine
        <4>4. Len(s.all) = 0
          BY <2>3, <2>5, EmptySeq
        <4> QED
          BY <1>5, <4>1, <4>2, <4>3, <4>4
      <3>5. NeighbourAt(new, st, order, i, m)
        BY <2>1, <3>2, <3>3, <3>4 DEF NeighbourAt
      <3> QED
        BY <2>2, <3>1, <3>5
    <2>6. CASE s.cores # MaxCores /\ s.all # <<>>
      <3>1. PICK p \in ToSet(s.all) : p = Nearest(s) /\ p \in Slots
        BY <2>3, <2>6, NearestIs
      <3>2. PICK new : new = r[i] /\ new = TakeBw(s, p)
        BY <2>2, <2>6, <3>1 DEF PerfFairNeighbour, Full
      <3>3. Moved(new, s, p) /\ new.fault = s.fault
        BY <2>3, <3>1, <3>2, TurnMoves
      <3>4. Fine(new, ToSet(order)) /\ Taken(new, s, p)
        BY <2>3, <2>6, <3>3, MovedFine
      <3>5. Grown(new.sch, st.sch)
        <4>1. new.sch \in Seq(Slots) /\ st.sch \in Seq(Slots)
          BY <1>1, <3>3 DEF Moved, Choice
        <4>2. Grown(s.sch, st.sch) /\ Grown(new.sch, s.sch)
          BY <2>1, <3>4 DEF NeighbourAt, Taken
        <4> QED
          BY <2>3, <4>1, <4>2, GrownIs
      <3>6. new.fault = "none" => Len(new.all) = m - i
        <4>1. SUFFICES ASSUME new.fault = "none" PROVE Len(new.all) = m - i
          OBVIOUS
        <4>2. Len(s.all) = m - (i - 1) /\ Len(new.all) = Len(s.all) - 1
          BY <2>1, <2>6, <3>3, <3>4, <4>1 DEF NeighbourAt, Taken
        <4> QED
          BY <4>2
      <3>7. OneCore /\ Len(order) > MaxCores => new.fault = "none"
        BY <2>1, <3>3 DEF NeighbourAt
      <3>8. NeighbourAt(new, st, order, i, m)
        BY <3>4, <3>5, <3>6, <3>7 DEF NeighbourAt
      <3> QED
        BY <2>2, <3>2, <3>8
    <2> QED
      BY <2>4, <2>5, <2>6
  <1>8. n \in Q
    <2> HIDE DEF Q
    <2> QED
      BY <1>5, <1>6, <1>7, InductTo
  <1>9. PICK new : /\ new = FoldLeft(LAMBDA s, p : PerfFairNeighbour(s), st, Append(st.all, st.all[1]))
                   /\ NeighbourAt(new, st, order, n, m)
    BY <1>3, <1>8
  <1>10. Len(new.all) # m - n
    <2>1. new.all \in Seq(Slots)
      BY <1>9 DEF NeighbourAt, Fine, Split, Choice
    <2>2. Len(new.all) \in Nat
      BY <2>1, LenProperties
    <2> QED
      BY <1>2, <2>2
  <1> QED
    BY <1>9, <1>10 DEF NeighbourAt

LEMMA PerfFairIs ==
    ASSUME NEW order \in Seq(Slots), IsInjective(order)
    PROVE  LET st == PerfFairGang(order, Len(order))
           IN  GangOk(st, order) /\ (EachFits => LeastIn(st, order))
  <1>1. PICK n \in Nat : n = Len(order)
    BY LenProperties
  <1>2. PICK st : /\ st = FoldLeft(PerfFairStep, Start(order, BwLimit), order)
                  /\ PerfFairAt(st, order, n, n)
    BY <1>1, PerfFairFirst
  <1>3. Fine(st, ToSet(order)) /\ st.fault = "none" /\ (EachFits /\ n >= 1 => order[1] \in ToSet(st.sch))
    BY <1>2 DEF PerfFairAt
  <1>4. (order # <<>> => n >= 1) /\ MaxCores \in Nat
    BY <1>1, EmptySeq, PoliciesAssumption
  <1>5. PICK new : new = PerfFairGang(order, Len(order))
    OBVIOUS
  <1>6. CASE st.cores = MaxCores \/ st.all = <<>>
    <2>1. new = st
      BY <1>2, <1>5, <1>6 DEF PerfFairGang, Full
    <2> QED
      BY <1>3, <1>4, <1>5, <1>6, <2>1 DEF GangOk, LeastIn
  <1>7. CASE ~(st.cores = MaxCores \/ st.all = <<>>) /\ Len(order) <= MaxCores
    <2>1. new = FillRestCores(st)
      BY <1>2, <1>5, <1>7 DEF PerfFairGang, Full
    <2>2. Filled(new, st, ToSet(order))
      BY <1>3, <2>1, FillIs
    <2>3. st.sch \in Seq(Slots) /\ new.sch \in Seq(Slots)
      BY <1>3, <2>2 DEF Filled, Fine, Split, Choice
    <2>4. ToSet(st.sch) \subseteq ToSet(new.sch)
      BY <2>2, <2>3, GrownIs DEF Filled
    <2> QED
      BY <1>3, <1>4, <1>5, <2>2, <2>4 DEF Filled, GangOk, LeastIn
  <1>8. CASE ~(st.cores = MaxCores \/ st.all = <<>>) /\ ~(Len(order) <= MaxCores)
    <2>1. new = FoldLeft(LAMBDA s, p : PerfFairNeighbour(s), st, Append(st.all, st.all[1]))
      BY <1>2, <1>5, <1>8 DEF PerfFairGang, Full
    <2>2. /\ Fine(new, ToSet(order)) /\ Grown(new.sch, st.sch)
          /\ new.fault = "none" => new.cores = MaxCores
          /\ OneCore /\ Len(order) > MaxCores => new.fault = "none"
      BY <1>3, <1>8, <2>1, PerfFairSecond
    <2>3. st.sch \in Seq(Slots) /\ new.sch \in Seq(Slots)
      BY <1>3, <2>2 DEF Fine, Split, Choice
    <2>4. ToSet(st.sch) \subseteq ToSet(new.sch)
      BY <2>2, <2>3, GrownIs
    <2>5. Len(order) > MaxCores
      BY <1>1, <1>4, <1>8
    <2> QED
      BY <1>3, <1>4, <1>5, <2>2, <2>4, <2>5 DEF GangOk, LeastIn
  <1> QED
    BY <1>6, <1>7, <1>8

\* fair_bw_cache: what the gang holds of the two heavy classes.
OneKind(s) ==
    /\ s.bwOn => ~s.csOn
    /\ \A q \in ToSet(s.sch) : (class[q] = "BW" => s.bwOn) /\ (class[q] = "CS" => s.csOn)
Unmixed(s) ==
    \A q \in ToSet(s.sch) : (class[q] = "BW" => s.bwOn) /\ (class[q] = "CS" => ~s.bwOn)

BwCacheAt(s, order, i, n) ==
    /\ Fine(s, ToSet(order)) /\ s.fault = "none" /\ s.bw + BwSlack >= 0
    /\ \A k \in (i + 1)..n : order[k] \in ToSet(s.all)
    /\ EachFits /\ i >= 1 => order[1] \in ToSet(s.sch)
    /\ OneKind(s)

LEMMA BwCacheTurn ==
    ASSUME NEW L, NEW s, Fine(s, L), s.fault = "none", s.bw + BwSlack >= 0, OneKind(s),
           class \in [Slots -> Classes], NEW p \in ToSet(s.all), Admits(s, p), s.cores # MaxCores
    PROVE  LET new == Place(Charge(s, p), p)
           IN  /\ Fine(new, L) /\ Taken(new, s, p) /\ OneKind(new)
               /\ new.fault = "none" /\ new.bw + BwSlack >= 0
  <1>1. s \in Choice /\ s.all \in Seq(Slots) /\ p \in Slots /\ s.bw \in Int /\ BwSlack \in Nat /\ Bw[p] \in Nat
    <2>1. s \in Choice /\ s.all \in Seq(Slots)
      BY DEF Fine, Split, Choice
    <2>2. p \in Slots
      BY <2>1, Entries
    <2> QED
      BY <2>1, <2>2, PoliciesAssumption DEF Choice
  <1>2. PICK mid \in Choice :
           /\ mid = Charge(s, p) /\ mid.all = s.all /\ mid.sch = s.sch /\ mid.cores = s.cores
           /\ mid.bwOn = (s.bwOn \/ class[p] = "BW") /\ mid.csOn = (s.csOn \/ class[p] = "CS")
           /\ mid.bw = (IF class[p] = "BW" THEN s.bw - Bw[p] ELSE s.bw) /\ mid.fault = s.fault
    BY <1>1, ChargeTyped
  <1>3. PICK new \in Choice :
           /\ new = Place(mid, p) /\ Moved(new, mid, p) /\ new.bw = mid.bw
           /\ new.bwOn = mid.bwOn /\ new.csOn = mid.csOn /\ new.fault = mid.fault
    BY <1>1, <1>2, PlaceTyped, TurnMoves
  <1>4. Fine(mid, L)
    BY <1>2 DEF Fine, Split
  <1>5. Fine(new, L) /\ Taken(new, s, p)
    <2>1. Fine(new, L) /\ Taken(new, mid, p)
      BY <1>2, <1>3, <1>4, MovedFine
    <2> QED
      BY <1>2, <2>1 DEF Taken
  <1>6. new.bw + BwSlack >= 0
    <2>1. CASE class[p] = "BW"
      <3>1. PICK b \in Nat : b = Bw[p]
        BY <1>1
      <3>2. PICK room \in Nat : room = s.bw + BwSlack
        BY <1>1
      <3>3. Fits(p, room)
        BY <2>1, <3>2 DEF Admits
      <3>4. b <= room
        BY <3>1, <3>2, <3>3 DEF Fits
      <3>5. new.bw = s.bw - b
        BY <1>2, <1>3, <2>1, <3>1
      <3> QED
        BY <1>1, <3>2, <3>4, <3>5
    <2>2. CASE class[p] # "BW"
      BY <1>2, <1>3, <2>2
    <2> QED
      BY <2>1, <2>2
  <1>7. OneKind(new)
    <2>1. ToSet(new.sch) = ToSet(s.sch) \union {p}
      BY <1>5 DEF Taken
    <2>2. (class[p] = "BW" => ~s.csOn) /\ (class[p] = "CS" => ~s.bwOn)
      BY DEF Admits
    <2>3. /\ new.bwOn = (s.bwOn \/ class[p] = "BW") /\ new.csOn = (s.csOn \/ class[p] = "CS")
          /\ s.bwOn \in BOOLEAN /\ s.csOn \in BOOLEAN /\ new.bwOn \in BOOLEAN /\ new.csOn \in BOOLEAN
      BY <1>1, <1>2, <1>3 DEF Choice
    <2>4. ~(class[p] = "BW" /\ class[p] = "CS")
      OBVIOUS
    <2>5. (new.bwOn <=> (s.bwOn \/ class[p] = "BW")) /\ (new.csOn <=> (s.csOn \/ class[p] = "CS"))
      BY <2>3
    <2> QED
      BY <2>1, <2>2, <2>4, <2>5, Zenon DEF OneKind
  <1>8. new.fault = "none"
    BY <1>2, <1>3
  <1> QED
    BY <1>2, <1>3, <1>5, <1>6, <1>7, <1>8

LEMMA BwCacheFirst ==
    ASSUME NEW order \in Seq(Slots), IsInjective(order), NEW n \in Nat, n = Len(order),
           class \in [Slots -> Classes]
    PROVE  BwCacheAt(FoldLeft(BwCacheStep, Start(order, BwLimit), order), order, n, n)
  <1>1. n \in 0..n /\ 0 \in 0..n
    OBVIOUS
  <1>2. PICK r \in [0..n -> Choice] :
           /\ BwCacheRun(r, order)
           /\ FoldLeft(BwCacheStep, Start(order, BwLimit), order) = r[n]
    BY BwCacheGoes
  <1>3. r[0] = Start(order, BwLimit) /\ \A i \in 1..n : r[i] = BwCacheStep(r[i - 1], order[i])
    BY <1>2 DEF BwCacheRun
  <1>4. /\ MaxCores \in Nat \ {0} /\ {BwLimit, BwReserve, BwSlack, LlcLimit, LlcSlack} \subseteq Nat
        /\ \A p \in Slots : Bw[p] \in Nat /\ Llc[p] \in Nat
    BY PoliciesAssumption
  <1>5. \A k \in 1..n : order[k] \in ToSet(order) /\ order[k] \in Slots
    BY Entries, LenProperties
  <1>6. Started(r[0], order, BwLimit)
    BY <1>3, <1>4, StartFine
  <1> DEFINE Q == {i \in 0..n : BwCacheAt(r[i], order, i, n)}
  <1>7. 0 \in Q
    <2>1. PICK st : st = r[0] /\ Started(st, order, BwLimit)
      BY <1>6
    <2>2. OneKind(st)
      <3>1. ToSet(st.sch) = {}
        <4>1. st.sch \in Seq(Slots) /\ st.sch = <<>>
          BY <2>1 DEF Started, Fine, Split, Choice
        <4> QED
          BY <4>1, Entries
      <3>2. st.bwOn = FALSE
        BY <2>1 DEF Started
      <3> QED
        BY <3>1, <3>2 DEF OneKind
    <2>3. st.bw + BwSlack >= 0
      BY <1>4, <2>1 DEF Started
    <2>4. BwCacheAt(st, order, 0, n)
      BY <1>4, <1>5, <2>1, <2>2, <2>3 DEF BwCacheAt, Started
    <2> QED
      BY <1>1, <2>1, <2>4
  <1>8. ASSUME NEW i \in 1..n, i - 1 \in Q PROVE i \in Q
    <2>1. PICK s : s = r[i - 1] /\ BwCacheAt(s, order, i - 1, n)
      BY <1>8
    <2>2. i \in (i - 1 + 1)..n /\ i \in 0..n
      OBVIOUS
    <2>3. PICK p \in ToSet(s.all) : p = order[i] /\ p \in Slots
      BY <1>5, <2>1, <2>2 DEF BwCacheAt
    <2>4. r[i] = BwCacheStep(s, p)
      BY <1>3, <2>1, <2>3
    <2>5. /\ Fine(s, ToSet(order)) /\ s.fault = "none" /\ s.bw + BwSlack >= 0 /\ OneKind(s)
      BY <2>1 DEF BwCacheAt
    <2>6. ASSUME NEW k \in (i + 1)..n PROVE order[k] \in ToSet(s.all) /\ order[k] # p
      <3>1. k \in (i - 1 + 1)..n /\ k \in 1..n /\ k # i
        OBVIOUS
      <3> QED
        BY <2>1, <2>3, <3>1, Distinct DEF BwCacheAt
    <2>7. CASE r[i] = s /\ (s.cores = MaxCores \/ ~Admits(s, p))
      <3>1. ASSUME EachFits, i = 1 PROVE FALSE
        <4>1. s.cores = 0 /\ s.bw = BwLimit /\ s.llc = LlcLimit /\ s.bwOn = FALSE /\ s.csOn = FALSE
          BY <1>6, <2>1, <3>1 DEF Started
        <4>2. Bw[p] <= BwLimit - BwReserve /\ Llc[p] <= LlcLimit + LlcSlack
          BY <2>3, <3>1 DEF EachFits
        <4>3. Bw[p] <= BwLimit + BwSlack
          BY <1>4, <2>3, <4>2
        <4>4. Fits(p, s.bw + BwSlack) /\ Llc[p] <= s.llc + LlcSlack
          BY <4>1, <4>2, <4>3 DEF Fits
        <4>5. Admits(s, p)
          BY <4>1, <4>4 DEF Admits
        <4> QED
          BY <1>4, <2>7, <4>1, <4>5
      <3>2. EachFits => order[1] \in ToSet(s.sch)
        BY <2>1, <3>1 DEF BwCacheAt
      <3>3. BwCacheAt(s, order, i, n)
        BY <2>5, <2>6, <3>2 DEF BwCacheAt
      <3> QED
        BY <2>2, <2>7, <3>3
    <2>8. CASE r[i] = Place(Charge(s, p), p) /\ s.cores # MaxCores /\ Admits(s, p)
      <3>1. PICK new : /\ new = r[i] /\ Fine(new, ToSet(order)) /\ Taken(new, s, p) /\ OneKind(new)
                       /\ new.fault = "none" /\ new.bw + BwSlack >= 0
        BY <2>5, <2>8, BwCacheTurn
      <3>2. EachFits => order[1] \in ToSet(new.sch)
        <4>1. CASE i = 1
          BY <2>3, <3>1, <4>1 DEF Taken
        <4>2. CASE i - 1 >= 1
          BY <2>1, <3>1, <4>2 DEF BwCacheAt, Taken
        <4> QED
          BY <4>1, <4>2
      <3>3. \A k \in (i + 1)..n : order[k] \in ToSet(new.all)
        BY <2>6, <3>1 DEF Taken
      <3>4. BwCacheAt(new, order, i, n)
        BY <3>1, <3>2, <3>3 DEF BwCacheAt
      <3> QED
        BY <2>2, <3>1, <3>4
    <2> QED
      BY <2>4, <2>7, <2>8 DEF BwCacheStep, Full
  <1>9. n \in Q
    <2> HIDE DEF Q
    <2> QED
      BY <1>1, <1>7, <1>8, InductTo
  <1> QED
    BY <1>2, <1>9

\* MixedOnlyIfNeeded of a choice: a second heavy class only after the first is used up.
Heavy(s) == {i \in DOMAIN s : class[s[i]] \in {"BW", "CS"}}
MixOk(st) ==
    \A i, j \in Heavy(st.sch) :
       (\A k \in Heavy(st.sch) : i <= k) /\ class[st.sch[i]] # class[st.sch[j]]
         => OfClass(st.all, class[st.sch[i]]) = {}

LEMMA UnmixedIsOk ==
    ASSUME NEW st \in Choice, Unmixed(st)
    PROVE  MixOk(st)
  <1>1. \A i \in DOMAIN st.sch : st.sch[i] \in ToSet(st.sch)
    <2>1. st.sch \in Seq(Slots)
      BY DEF Choice
    <2> QED
      BY <2>1, Entries
  <1>2. ASSUME NEW i \in Heavy(st.sch), NEW j \in Heavy(st.sch)
        PROVE  class[st.sch[i]] = class[st.sch[j]]
    <2>1. /\ st.sch[i] \in ToSet(st.sch) /\ st.sch[j] \in ToSet(st.sch)
          /\ class[st.sch[i]] \in {"BW", "CS"} /\ class[st.sch[j]] \in {"BW", "CS"}
      BY <1>1 DEF Heavy
    <2> QED
      BY <2>1 DEF Unmixed
  <1> QED
    BY <1>2 DEF MixOk

\* fill_rest_cores mixes: nothing of the wanted classes is left.
LEMMA FillMixes ==
    ASSUME NEW L, NEW st, Fine(st, L), Unmixed(st), ToSet(st.all) \intersect Wanted(st) = {},
           NEW new, Filled(new, st, L)
    PROVE  MixOk(new)
  <1>1. PICK s \in Seq(Slots), t \in Seq(Slots) :
           /\ s = st.sch /\ t = new.sch /\ IsInjective(t) /\ Grown(t, s)
           /\ ToSet(t) \subseteq L /\ L = ToSet(st.all) \union ToSet(s) /\ st \in Choice
    BY DEF Filled, Fine, Split, Choice
  <1>2. ToSet(new.all) \subseteq ToSet(st.all) /\ ToSet(st.all) \subseteq Slots
    <2>1. st.all \in Seq(Slots)
      BY <1>1 DEF Choice
    <2> QED
      BY <2>1, Entries DEF Filled
  <1>3. Len(s) \in Nat /\ Len(t) \in Nat /\ DOMAIN t = 1..Len(t) /\ Len(s) <= Len(t)
    BY <1>1, Entries DEF Grown
  <1> DEFINE K == IF st.bwOn THEN "BW" ELSE "CS"
  <1>4. ASSUME NEW p \in ToSet(st.all) PROVE class[p] # K
    <2>1. p \in Slots /\ p \notin Wanted(st)
      BY <1>2
    <2>2. CASE st.bwOn
      BY <2>1, <2>2 DEF Wanted
    <2>3. CASE ~st.bwOn
      BY <2>1, <2>3 DEF Wanted
    <2> QED
      BY <2>2, <2>3
  <1>5. ASSUME NEW i \in Heavy(t), i <= Len(s) PROVE class[t[i]] = K
    <2>1. i \in 1..Len(s) /\ t[i] = s[i] /\ class[t[i]] \in {"BW", "CS"}
      BY <1>1, <1>3, <1>5 DEF Heavy, Grown
    <2>2. s[i] \in ToSet(s)
      BY <2>1, Entries
    <2>3. (class[s[i]] = "BW" => st.bwOn) /\ (class[s[i]] = "CS" => ~st.bwOn)
      BY <1>1, <2>2 DEF Unmixed
    <2> QED
      BY <2>1, <2>3
  <1>6. ASSUME NEW i \in Heavy(t), ~(i <= Len(s)) PROVE class[t[i]] # K
    <2>1. i \in 1..Len(t)
      BY <1>3 DEF Heavy
    <2>2. t[i] \notin ToSet(s)
      <3>1. SUFFICES ASSUME t[i] \in ToSet(s) PROVE FALSE
        OBVIOUS
      <3>2. PICK k \in 1..Len(s) : s[k] = t[i]
        BY <3>1, Entries
      <3>3. t[k] = t[i] /\ k \in 1..Len(t)
        BY <1>1, <1>3, <3>2 DEF Grown
      <3>4. k = i
        BY <1>1, <2>1, <3>3, Distinct
      <3> QED
        BY <1>6, <3>2, <3>4
    <2>3. t[i] \in ToSet(st.all)
      BY <1>1, <2>1, <2>2, Entries
    <2> QED
      BY <1>4, <2>3
  <1>7. ASSUME NEW i \in Heavy(t), NEW j \in Heavy(t), \A k \in Heavy(t) : i <= k,
               class[t[i]] # class[t[j]]
        PROVE  OfClass(new.all, class[t[i]]) = {}
    <2>1. class[t[i]] \in {"BW", "CS"} /\ class[t[j]] \in {"BW", "CS"} /\ K \in {"BW", "CS"}
      BY DEF Heavy
    <2>2. i \in Nat /\ j \in Nat /\ i <= j
      BY <1>3, <1>7 DEF Heavy
    <2>3. i <= Len(s)
      <3>1. SUFFICES ASSUME ~(i <= Len(s)) PROVE FALSE
        OBVIOUS
      <3>2. ~(j <= Len(s))
        BY <1>3, <2>2, <3>1
      <3>3. class[t[i]] # K /\ class[t[j]] # K
        BY <1>6, <3>1, <3>2
      <3> HIDE DEF K
      <3> QED
        BY <1>7, <2>1, <3>3
    <2>4. class[t[i]] = K
      BY <1>5, <2>3
    <2> HIDE DEF K
    <2> QED
      BY <1>2, <1>4, <2>4 DEF OfClass
  <1> QED
    BY <1>1, <1>7 DEF MixOk

\* Its neighbours: the loop is as long as the list.
RestAt(s, st, order, i, m) ==
    /\ Fine(s, ToSet(order)) /\ s.fault = "none" /\ Grown(s.sch, st.sch)
    /\ s.cores = MaxCores \/ s.all = <<>> \/ Len(s.all) = m - i
    /\ Unmixed(s) \/ ((s.cores = MaxCores \/ s.all = <<>>) /\ MixOk(s))

LEMMA BwCacheSecond ==
    ASSUME NEW order \in Seq(Slots), IsInjective(order), NEW st, Fine(st, ToSet(order)),
           st.fault = "none", Unmixed(st)
    PROVE  LET new == FoldLeft(LAMBDA s, p : BwCacheNeighbour(s), st, st.all)
           IN  /\ Fine(new, ToSet(order)) /\ Grown(new.sch, st.sch) /\ new.fault = "none"
               /\ new.cores = MaxCores \/ new.all = <<>>
               /\ MixOk(new)
  <1>1. PICK m \in Nat : m = Len(st.all) /\ st \in Choice /\ st.sch \in Seq(Slots)
    <2>1. st.all \in Seq(Slots) /\ st \in Choice /\ st.sch \in Seq(Slots)
      BY DEF Fine, Split, Choice
    <2> QED
      BY <2>1, LenProperties
  <1>2. PICK r \in [0..m -> Choice] :
           /\ BwCacheRestRun(r, st)
           /\ FoldLeft(LAMBDA s, p : BwCacheNeighbour(s), st, st.all) = r[m]
    BY <1>1, BwCacheRestGoes
  <1>3. r[0] = st /\ \A i \in 1..m : r[i] = BwCacheNeighbour(r[i - 1])
    BY <1>1, <1>2 DEF BwCacheRestRun
  <1>4. m \in 0..m /\ 0 \in 0..m /\ MaxCores \in Nat
    BY PoliciesAssumption
  <1> DEFINE Q == {i \in 0..m : RestAt(r[i], st, order, i, m)}
  <1>5. 0 \in Q
    <2>1. Grown(st.sch, st.sch)
      BY <1>1, Entries DEF Grown
    <2>2. RestAt(st, st, order, 0, m)
      BY <1>1, <2>1 DEF RestAt
    <2> QED
      BY <1>3, <1>4, <2>2
  <1>6. ASSUME NEW i \in 1..m, i - 1 \in Q PROVE i \in Q
    <2>1. PICK s : s = r[i - 1] /\ RestAt(s, st, order, i - 1, m)
      BY <1>6
    <2>2. PICK new : new = r[i] /\ new = BwCacheNeighbour(s) /\ i \in 0..m
      BY <1>3, <2>1
    <2>3. /\ Fine(s, ToSet(order)) /\ s \in Choice /\ s.all \in Seq(Slots) /\ s.sch \in Seq(Slots)
          /\ Grown(s.sch, st.sch) /\ s.fault = "none"
      BY <2>1 DEF RestAt, Fine, Split, Choice
    <2>4. CASE s.cores = MaxCores /\ new = s
      <3>1. RestAt(s, st, order, i, m)
        BY <2>1, <2>4 DEF RestAt
      <3> QED
        BY <2>2, <2>4, <3>1
    <2>5. CASE /\ s.cores # MaxCores /\ ToSet(s.all) \intersect Wanted(s) = {}
               /\ new = FillRestCores(s)
      <3>1. Filled(new, s, ToSet(order))
        BY <2>3, <2>5, FillIs
      <3>2. Grown(new.sch, st.sch)
        <4>1. new.sch \in Seq(Slots) /\ Grown(new.sch, s.sch)
          BY <3>1 DEF Filled, Fine, Split, Choice
        <4> QED
          BY <1>1, <2>3, <4>1, GrownIs
      <3>3. MixOk(new)
        <4>1. CASE Unmixed(s)
          BY <2>3, <2>5, <3>1, <4>1, FillMixes
        <4>2. CASE ~Unmixed(s)
          <5>1. s.all = <<>> /\ MixOk(s)
            BY <2>1, <2>5, <4>2 DEF RestAt
          <5> QED
            BY <3>1, <5>1 DEF Filled
        <4> QED
          BY <4>1, <4>2
      <3>4. RestAt(new, st, order, i, m)
        BY <2>3, <3>1, <3>2, <3>3 DEF RestAt, Filled
      <3> QED
        BY <2>2, <3>4
    <2>6. CASE s.cores # MaxCores /\ Picks(new, s)
      <3>1. PICK mid \in Choice, p \in ToSet(s.all) :
               /\ new = Place(mid, p) /\ p \in Wanted(s)
               /\ mid.sch = s.sch /\ mid.cores = s.cores /\ mid.bw = s.bw
               /\ mid.bwOn = s.bwOn /\ mid.csOn = s.csOn /\ mid.fault = s.fault
               /\ ToSet(mid.all) = ToSet(s.all) /\ (IsInjective(s.all) => IsInjective(mid.all))
        BY <2>6 DEF Picks
      <3>2. p \in Slots /\ p \in ToSet(mid.all) /\ s.all # <<>>
        BY <2>3, <3>1, Entries
      <3>3. Fine(mid, ToSet(order))
        BY <2>3, <3>1 DEF Fine, Split
      <3>4. Moved(new, mid, p) /\ new.fault = "none" /\ new.bwOn = s.bwOn
        BY <2>3, <3>1, <3>2, PlaceTyped, TurnMoves
      <3>5. Fine(new, ToSet(order)) /\ Taken(new, mid, p)
        BY <2>6, <3>1, <3>2, <3>3, <3>4, MovedFine
      <3>6. Grown(new.sch, st.sch)
        <4>1. new.sch \in Seq(Slots) /\ Grown(new.sch, s.sch)
          BY <3>1, <3>5 DEF Taken, Fine, Split, Choice
        <4> QED
          BY <1>1, <2>3, <4>1, GrownIs
      <3>7. Len(new.all) = m - i
        <4>1. Len(s.all) = m - (i - 1)
          BY <2>1, <2>6, <3>2 DEF RestAt
        <4>2. Len(mid.all) = Len(s.all)
          <5>1. mid.all \in Seq(Slots) /\ IsInjective(s.all) /\ IsInjective(mid.all)
            BY <2>3, <3>1 DEF Choice, Fine, Split
          <5>2. Cardinality(ToSet(mid.all)) = Len(mid.all) /\ Cardinality(ToSet(s.all)) = Len(s.all)
            BY <2>3, <5>1, Sized
          <5> QED
            BY <3>1, <5>2
        <4>3. Len(new.all) = Len(mid.all) - 1
          BY <3>5 DEF Taken
        <4> QED
          BY <4>1, <4>2, <4>3
      <3>8. Unmixed(new)
        <4>1. Unmixed(s)
          BY <2>1, <2>6, <3>2 DEF RestAt
        <4>2. ToSet(new.sch) = ToSet(s.sch) \union {p}
          BY <3>1, <3>5 DEF Taken
        <4>3. class[p] \in IF s.bwOn THEN {"BW"} ELSE {"CS", "CNS"}
          BY <3>1 DEF Wanted
        <4>4. (class[p] = "BW" => s.bwOn) /\ (class[p] = "CS" => ~s.bwOn)
          BY <4>3
        <4> QED
          BY <3>4, <4>1, <4>2, <4>4 DEF Unmixed
      <3>9. RestAt(new, st, order, i, m)
        BY <3>4, <3>5, <3>6, <3>7, <3>8 DEF RestAt
      <3> QED
        BY <2>2, <3>9
    <2> QED
      BY <2>2, <2>3, <2>4, <2>5, <2>6, BwCacheNeighbourTurn DEF Full
  <1>7. m \in Q
    <2> HIDE DEF Q
    <2> QED
      BY <1>4, <1>5, <1>6, InductTo
  <1>8. PICK new : /\ new = FoldLeft(LAMBDA s, p : BwCacheNeighbour(s), st, st.all)
                   /\ RestAt(new, st, order, m, m)
    BY <1>2, <1>7
  <1>9. new \in Choice /\ new.all \in Seq(Slots)
    BY <1>8 DEF RestAt, Fine, Split, Choice
  <1>10. new.cores = MaxCores \/ new.all = <<>>
    <2>1. m - m = 0
      OBVIOUS
    <2> QED
      BY <1>8, <1>9, <2>1, EmptySeq DEF RestAt
  <1>11. MixOk(new)
    BY <1>8, <1>9, UnmixedIsOk DEF RestAt
  <1> QED
    BY <1>8, <1>10, <1>11 DEF RestAt

LEMMA BwCacheIs ==
    ASSUME NEW order \in Seq(Slots), IsInjective(order), class \in [Slots -> Classes]
    PROVE  LET st == BwCacheGang(order, Len(order))
           IN  /\ GangOk(st, order) /\ (EachFits => LeastIn(st, order))
               /\ Len(order) > MaxCores => MixOk(st)
  <1>1. PICK n \in Nat : n = Len(order)
    BY LenProperties
  <1>2. PICK st : /\ st = FoldLeft(BwCacheStep, Start(order, BwLimit), order)
                  /\ BwCacheAt(st, order, n, n)
    BY <1>1, BwCacheFirst
  <1>3. Fine(st, ToSet(order)) /\ st.fault = "none" /\ (EachFits /\ n >= 1 => order[1] \in ToSet(st.sch))
    BY <1>2 DEF BwCacheAt
  <1>4. (order # <<>> => n >= 1) /\ MaxCores \in Nat
    BY <1>1, EmptySeq, PoliciesAssumption
  <1>5. PICK new : new = BwCacheGang(order, Len(order))
    OBVIOUS
  <1>6. Unmixed(st)
    BY <1>2 DEF BwCacheAt, OneKind, Unmixed
  <1>7. CASE st.cores = MaxCores \/ st.all = <<>>
    <2>1. new = st
      BY <1>2, <1>5, <1>7 DEF BwCacheGang, Full
    <2>2. MixOk(st)
      BY <1>3, <1>6, UnmixedIsOk DEF Fine, Split
    <2> QED
      BY <1>3, <1>4, <1>5, <1>7, <2>1, <2>2 DEF GangOk, LeastIn
  <1>8. CASE ~(st.cores = MaxCores \/ st.all = <<>>) /\ Len(order) <= MaxCores
    <2>1. new = FillRestCores(st)
      BY <1>2, <1>5, <1>8 DEF BwCacheGang, Full
    <2>2. Filled(new, st, ToSet(order))
      BY <1>3, <2>1, FillIs
    <2>3. st.sch \in Seq(Slots) /\ new.sch \in Seq(Slots)
      BY <1>3, <2>2 DEF Filled, Fine, Split, Choice
    <2>4. ToSet(st.sch) \subseteq ToSet(new.sch)
      BY <2>2, <2>3, GrownIs DEF Filled
    <2>5. ~(Len(order) > MaxCores)
      BY <1>1, <1>4, <1>8
    <2> QED
      BY <1>3, <1>4, <1>5, <2>2, <2>4, <2>5 DEF Filled, GangOk, LeastIn
  <1>9. CASE ~(st.cores = MaxCores \/ st.all = <<>>) /\ ~(Len(order) <= MaxCores)
    <2>1. new = FoldLeft(LAMBDA s, p : BwCacheNeighbour(s), st, st.all)
      BY <1>2, <1>5, <1>9 DEF BwCacheGang, Full
    <2>2. /\ Fine(new, ToSet(order)) /\ Grown(new.sch, st.sch) /\ new.fault = "none"
          /\ new.cores = MaxCores \/ new.all = <<>>
          /\ MixOk(new)
      BY <1>3, <1>6, <2>1, BwCacheSecond
    <2>3. st.sch \in Seq(Slots) /\ new.sch \in Seq(Slots)
      BY <1>3, <2>2 DEF Fine, Split, Choice
    <2>4. ToSet(st.sch) \subseteq ToSet(new.sch)
      BY <2>2, <2>3, GrownIs
    <2> QED
      BY <1>3, <1>4, <1>5, <2>2, <2>4 DEF GangOk, LeastIn
  <1> QED
    BY <1>7, <1>8, <1>9

-----------------------------------------------------------------------------
(* What the steps do to the lists.                                          *)

\* A list of different programs.
Listed(list) == list \in Seq(Slots) /\ IsInjective(list)

LEMMA FrozenIs ==
    ASSUME Books, NEW dead \in SUBSET Slots
    PROVE  /\ Listed(Frozen(dead)) /\ ToSet(Frozen(dead)) = Present \ (dead \intersect Running)
           /\ \E kept \in Seq(Slots) :
                 /\ Frozen(dead) = all \o kept /\ IsInjective(kept)
                 /\ ToSet(kept) = Running \ dead
                 /\ dead \intersect Running = {} => kept = sch
  <1>1. /\ all \in Seq(Slots) /\ sch \in Seq(Slots) /\ IsInjective(all) /\ IsInjective(sch)
        /\ ToSet(all) \intersect ToSet(sch) = {}
    BY DEF Books, OnePlace, Running
  <1>2. ToSet(all) \subseteq Slots /\ ToSet(sch) \subseteq Slots
    BY <1>1, Entries
  <1>3. PICK kept \in Seq(Slots) :
           /\ kept = Keep(sch, Slots \ dead) /\ IsInjective(kept)
           /\ ToSet(kept) = ToSet(sch) \intersect (Slots \ dead)
           /\ ToSet(sch) \subseteq Slots \ dead => kept = sch
    BY <1>1, Kept
  <1>4. ToSet(kept) = Running \ dead /\ (dead \intersect Running = {} => kept = sch)
    BY <1>2, <1>3 DEF Running
  <1>5. PICK list \in Seq(Slots) :
           /\ list = all \o kept /\ ToSet(list) = ToSet(all) \union ToSet(kept)
           /\ IsInjective(list)
    <2>1. ToSet(all) \intersect ToSet(kept) = {}
      BY <1>1, <1>3
    <2> QED
      BY <1>1, <1>3, <2>1, Joined
  <1>6. list = Frozen(dead)
    BY <1>3, <1>5 DEF Frozen
  <1>7. ToSet(list) = Present \ (dead \intersect Running)
    BY <1>1, <1>4, <1>5 DEF Present, Running
  <1> QED
    BY <1>3, <1>4, <1>5, <1>6, <1>7 DEF Listed

\* The list in ascending progress.
LEMMA AscendingIs ==
    ASSUME NEW list, Listed(list), NEW r \in [Slots -> Nat]
    PROVE  /\ Listed(Ascending(list, r)) /\ ToSet(Ascending(list, r)) = ToSet(list)
           /\ Len(Ascending(list, r)) = Len(list)
           /\ list # <<>> => /\ Ascending(list, r) # <<>>
                             /\ \A x \in ToSet(list) : r[Ascending(list, r)[1]] <= r[x]
  <1>1. list \in Seq(Slots) /\ IsInjective(list) /\ ToSet(list) \subseteq Slots /\ Len(list) \in Nat
    BY Entries DEF Listed
  <1>2. Ordered(Sort(list, r), list, r)
    BY <1>1, SortIsRight
  <1>3. PICK order \in Seq(Slots) :
           /\ order = Ascending(list, r) /\ Len(order) = Len(list) /\ ToSet(order) = ToSet(list)
           /\ IsInjective(order)
           /\ \A i, j \in 1..Len(list) : i < j => r[order[i]] <= r[order[j]]
    <2>1. PICK order : order = Sort(list, r).list
      OBVIOUS
    <2>2. order \in Seq(ToSet(list)) /\ Shuffled(order, list)
      BY <1>2, <2>1 DEF Ordered
    <2>3. order \in Seq(Slots)
      BY <1>1, <2>2, SeqDef
    <2> QED
      BY <1>1, <1>2, <2>1, <2>2, <2>3 DEF Ordered, Ascending, Shuffled
  <1>4. ASSUME list # <<>> PROVE order # <<>> /\ \A x \in ToSet(list) : r[order[1]] <= r[x]
    <2>1. 1 \in 1..Len(list) /\ order # <<>>
      BY <1>1, <1>3, <1>4, Entries
    <2>2. ASSUME NEW x \in ToSet(list) PROVE r[order[1]] <= r[x]
      <3>1. PICK j \in 1..Len(list) : order[j] = x
        BY <1>3, Entries
      <3>2. x \in Slots /\ r[x] \in Nat
        BY <1>1
      <3>3. CASE j = 1
        BY <3>1, <3>2, <3>3
      <3>4. CASE j # 1
        BY <1>1, <1>3, <2>1, <3>1, <3>4
      <3> QED
        BY <3>3, <3>4
    <2> QED
      BY <2>1, <2>2
  <1> QED
    BY <1>3, <1>4 DEF Listed

\* The choice of a policy.
Chooses(st, list, r, wt, m) ==
    /\ Fine(st, ToSet(list))
    /\ st.fault = "none" /\ st.all # <<>> => st.cores >= MaxCores
    /\ OneCore => st.fault = "none"
    /\ policy # "perf" /\ EachFits /\ list # <<>>
         => \E q \in ToSet(st.sch) : \A p \in ToSet(list) : r[q] <= r[p]
    /\ policy = "perf" => /\ list # <<>> => st.sch # <<>>
                          /\ Waits(list, wt, m + 1) => Waits(st.all, wt, m)
    /\ policy = "fair_bw_cache" /\ Len(list) > MaxCores => MixOk(st)

LEMMA GangIs ==
    ASSUME policy \in Policies, class \in [Slots -> Classes], NEW list, Listed(list),
           NEW r \in [Slots -> Nat], NEW wt \in [Slots -> Int], NEW m \in Int
    PROVE  Chooses(Gang(list, r, wt, Len(list)), list, r, wt, m)
  <1>1. PICK order : /\ order = Ascending(list, r) /\ Listed(order) /\ ToSet(order) = ToSet(list)
                     /\ Len(order) = Len(list)
                     /\ list # <<>> => order # <<>> /\ \A x \in ToSet(list) : r[order[1]] <= r[x]
    BY AscendingIs
  <1>2. order \in Seq(Slots) /\ IsInjective(order)
    BY <1>1 DEF Listed
  <1>3. PICK st : st = Gang(list, r, wt, Len(list))
    OBVIOUS
  <1>4. CASE policy = "perf"
    <2>1. st = PerfGang(list, wt)
      BY <1>3, <1>4 DEF Gang
    <2>2. /\ GangOk(st, list) /\ (list # <<>> => st.sch # <<>>)
          /\ Waits(list, wt, m + 1) => Waits(st.all, wt, m)
      BY <2>1, PerfIs DEF Listed
    <2> QED
      BY <1>3, <1>4, <2>2 DEF GangOk, Chooses
  <1>5. CASE policy # "perf"
    <2>1. CASE policy = "fair"
      <3>1. st = FairGang(order)
        BY <1>1, <1>3, <2>1 DEF Gang
      <3>2. GangOk(st, order) /\ LeastIn(st, order)
        BY <1>2, <3>1, FairIs
      <3> QED
        BY <1>1, <1>3, <2>1, <3>2 DEF GangOk, LeastIn, Chooses
    <2>2. CASE policy = "perf_fair"
      <3>1. st = PerfFairGang(order, Len(order))
        BY <1>1, <1>3, <2>2 DEF Gang
      <3>2. GangOk(st, order) /\ (EachFits => LeastIn(st, order))
        BY <1>2, <3>1, PerfFairIs
      <3> QED
        BY <1>1, <1>3, <2>2, <3>2 DEF GangOk, LeastIn, Chooses
    <2>3. CASE policy = "fair_bw_cache"
      <3>1. st = BwCacheGang(order, Len(order))
        BY <1>1, <1>3, <2>3 DEF Gang
      <3>2. /\ GangOk(st, order) /\ (EachFits => LeastIn(st, order))
            /\ Len(order) > MaxCores => MixOk(st)
        BY <1>2, <3>1, BwCacheIs
      <3> QED
        BY <1>1, <1>3, <2>3, <3>2 DEF GangOk, LeastIn, Chooses
    <2> QED
      BY <1>5, <2>1, <2>2, <2>3 DEF Policies
  <1> QED
    BY <1>4, <1>5

\* What a scheduler leaves: the programs of the list are in the two lists.
Placed(list) ==
    /\ Listed(all') /\ Listed(sch') /\ ToSet(all') \intersect ToSet(sch') = {}
    /\ ToSet(all') \union ToSet(sch') = ToSet(list)
    /\ wnd' \in Nat /\ cores' \in Nat /\ fault' \in Faults

\* monitor takes the head of a list that is not empty.
Monitors(list, w) ==
    /\ list # <<>> /\ sch' = <<list[1]>> /\ all' = Tail(list)
    /\ cores' = (w % MaxCores) + Need[list[1]]
    /\ wnd' = w + 1 /\ fault' = fault

LEMMA MonitorsIs ==
    ASSUME NEW list, Listed(list), NEW w \in Nat, Monitors(list, w), fault \in Faults
    PROVE  /\ Placed(list) /\ all' \in Seq(Slots) /\ CutAt(all', list, 1)
           /\ Len(sch') = 1 /\ sch'[1] = list[1] /\ cores' <= MaxCores - 1 + Need[list[1]]
           /\ Len(all') + 1 = Len(list) /\ Len(list) \in Nat
  <1>1. list \in Seq(Slots) /\ IsInjective(list) /\ list # <<>> /\ Len(list) \in Nat
    BY Entries DEF Listed, Monitors
  <1>2. PICK t \in Seq(Slots) : t = Tail(list) /\ CutAt(t, list, 1) /\ 1 \in 1..Len(list) /\ list[1] \in Slots
    BY <1>1, TailCut
  <1>3. IsInjective(t) /\ ToSet(t) = ToSet(list) \ {list[1]}
    BY <1>1, <1>2, CutEntries
  <1>4. PICK s \in Seq(Slots) : s = <<list[1]>> /\ Len(s) = 1 /\ s[1] = list[1]
    <2>1. PICK h \in Slots : h = list[1]
      BY <1>2
    <2>2. <<h>> \in [1..1 -> Slots] /\ Len(<<h>>) = 1 /\ <<h>>[1] = h
      OBVIOUS
    <2>3. <<h>> \in Seq(Slots)
      BY <2>2, SeqDef
    <2> QED
      BY <2>1, <2>2, <2>3
  <1>5. IsInjective(s) /\ ToSet(s) = {list[1]}
    <2>1. \A i, j \in 1..Len(s) : s[i] = s[j] => i = j
      BY <1>4
    <2>2. ToSet(s) = {s[i] : i \in 1..1}
      BY <1>4, Entries DEF ToSet
    <2>3. ToSet(s) = {s[1]}
      BY <2>2
    <2>4. IsInjective(s)
      BY <2>1, Distinct
    <2> QED
      BY <1>4, <2>3, <2>4
  <1>6. list[1] \in ToSet(list)
    BY <1>1, <1>2, Entries
  <1>7. PICK c \in Nat, need \in Nat : c = w % MaxCores /\ c <= MaxCores - 1 /\ need = Need[list[1]]
    <2>1. MaxCores \in Nat \ {0} /\ Need[list[1]] \in Nat
      BY <1>2, PoliciesAssumption
    <2>2. w % MaxCores \in 0..(MaxCores - 1)
      BY <2>1
    <2> QED
      BY <2>1, <2>2
  <1>8. cores' = c + need /\ cores' \in Nat /\ MaxCores \in Nat
    <2>1. cores' = (w % MaxCores) + Need[list[1]]
      BY Zenon DEF Monitors
    <2>2. cores' = c + need
      BY <1>7, <2>1, Zenon
    <2> QED
      BY <2>2, PoliciesAssumption
  <1>9. cores' <= MaxCores - 1 + need
    BY <1>7, <1>8
  <1>10. all' = t /\ sch' = s /\ wnd' \in Nat /\ fault' \in Faults
    BY <1>2, <1>4 DEF Monitors
  <1>11. Placed(list)
    BY <1>2, <1>3, <1>4, <1>5, <1>6, <1>8, <1>10 DEF Placed, Listed
  <1>12. Len(t) + 1 = Len(list)
    BY <1>1, <1>2, Entries DEF CutAt
  <1> QED
    BY <1>1, <1>2, <1>4, <1>7, <1>9, <1>10, <1>11, <1>12

\* The programs of a choice are those of its list.
LEMMA ChooseIs ==
    ASSUME policy \in Policies, class \in [Slots -> Classes], NEW list, Listed(list),
           NEW r \in [Slots -> Nat], NEW wt \in [Slots -> Int], NEW w \in Nat,
           Choose(list, w, r, wt), NEW m \in Int
    PROVE  /\ Placed(list) /\ fault' # "divide" /\ wnd' = w
           /\ Len(all') + Len(sch') = Len(list)
           /\ OneCore => cores' <= MaxCores
           /\ \E st \in Choice : /\ Chooses(st, list, r, wt, m)
                                 /\ all' = st.all /\ sch' = st.sch
                                 /\ cores' = st.cores /\ fault' = st.fault
  <1>1. PICK st : st = Gang(list, r, wt, Len(list)) /\ Chooses(st, list, r, wt, m)
    BY GangIs
  <1>2. sch' = st.sch /\ all' = st.all /\ cores' = st.cores /\ fault' = st.fault /\ wnd' = w
    BY <1>1 DEF Choose
  <1>3. /\ st \in Choice /\ IsInjective(st.all) /\ IsInjective(st.sch)
        /\ ToSet(st.all) \intersect ToSet(st.sch) = {}
        /\ ToSet(st.all) \union ToSet(st.sch) = ToSet(list)
        /\ Split(st, ToSet(list)) /\ (OneCore => st.cores <= MaxCores)
    BY <1>1 DEF Chooses, Fine, Split
  <1>4. st.all \in Seq(Slots) /\ st.sch \in Seq(Slots) /\ st.cores \in Nat /\ st.fault \in Misses
    BY <1>3 DEF Choice
  <1>5. Len(st.all) + Len(st.sch) = Len(list)
    BY <1>3, SplitLen DEF Listed
  <1> QED
    BY <1>1, <1>2, <1>3, <1>4, <1>5 DEF Placed, Listed, Misses, Faults

-----------------------------------------------------------------------------
(* The steps.                                                               *)

\* What a program retires, and how fast it is alone.
LEMMA RatesTyped ==
    ASSUME policy \in Policies
    PROVE  /\ \A p \in Slots : FullSpeed(p) \in Nat \ {0}
           /\ \A p \in Slots : Retires(p) \subseteq Nat \ {0} /\ (Len(sch) = 1 => Retires(p) = {FullSpeed(p)})
           /\ \A n \in Nat : Alone(n) \in Nat
           /\ ipc \in [Slots -> Nat] => \A p \in Slots : Ideal(p) \in Nat
  <1>1. Cycles \in Nat \ {0} /\ Rate \in [Policies -> [Slots -> Nat \ {0}]]
    BY QuantaAssumption
  <1>2. \A p \in Slots : FullSpeed(p) \in Nat \ {0}
    BY <1>1 DEF FullSpeed
  <1>3. \A p \in Slots : Retires(p) \subseteq Nat \ {0} /\ (Len(sch) = 1 => Retires(p) = {FullSpeed(p)})
    BY <1>2 DEF Retires
  <1>4. ASSUME NEW n \in Nat PROVE Alone(n) \in Nat
    <2>1. PICK k \in Nat, c \in Nat \ {0} : k = n * 1000 /\ c = Cycles
      BY <1>1
    <2>2. k \div c \in Nat
      OBVIOUS
    <2> QED
      BY <2>1, <2>2 DEF Alone
  <1>5. ASSUME ipc \in [Slots -> Nat], NEW p \in Slots PROVE Ideal(p) \in Nat
    <2>1. PICK i \in Nat, c \in Nat : i = ipc[p] /\ c = Cycles
      BY <1>1, <1>5
    <2>2. PICK k \in Nat : k = i * c
      OBVIOUS
    <2>3. k \div 1000 \in Nat
      OBVIOUS
    <2> QED
      BY <2>1, <2>2, <2>3 DEF Ideal
  <1> QED
    BY <1>2, <1>3, <1>4, <1>5

LEMMA WaitedTyped ==
    ASSUME waiting \in [Slots -> Int], NEW list
    PROVE  Waited(list) \in [Slots -> Int]
  BY DEF Waited

LEMMA ProgressTyped ==
    ASSUME policy \in Policies, {ipc, instr, ideal, ratio} \subseteq [Slots -> Nat],
           NEW list, NEW instr1 \in [Slots -> Nat]
    PROVE  Progress(list, instr1).ideal \in [Slots -> Nat] /\ Progress(list, instr1).ratio \in [Slots -> Nat]
  <1> DEFINE who == IF policy = "perf" \/ sch = <<>> THEN {} ELSE ToSet(list)
             ideal1 == [p \in Slots |-> IF p \in who THEN ideal[p] + Ideal(p) ELSE ideal[p]]
             ratio1 == [p \in Slots |-> IF p \in who /\ ideal1[p] # 0
                                        THEN (instr1[p] * 1000) \div ideal1[p] ELSE ratio[p]]
  <1>1. ideal1 \in [Slots -> Nat]
    <2>1. \A p \in Slots : Ideal(p) \in Nat /\ ideal[p] \in Nat
      BY RatesTyped
    <2> HIDE DEF who
    <2> QED
      BY <2>1
  <1>2. ratio1 \in [Slots -> Nat]
    <2> HIDE DEF who, ideal1
    <2>1. ASSUME NEW p \in Slots, ideal1[p] # 0 PROVE (instr1[p] * 1000) \div ideal1[p] \in Nat
      <3>1. PICK k \in Nat, d \in Nat \ {0} : k = instr1[p] * 1000 /\ d = ideal1[p]
        BY <1>1, <2>1
      <3>2. k \div d \in Nat
        OBVIOUS
      <3> QED
        BY <3>1, <3>2
    <2> QED
      BY <2>1
  <1>3. Progress(list, instr1).ideal = ideal1 /\ Progress(list, instr1).ratio = ratio1
    BY DEF Progress
  <1> QED
    BY <1>1, <1>2, <1>3

\* A tick that completes: the dead leave the gang, a scheduler takes the list
\* of the others, by the progress r.
Ticks(dead, r) ==
    /\ dead \subseteq Running
    /\ done' = done \union dead /\ out' = out /\ begun' = TRUE /\ ratio' = r
    /\ waiting' = Waited(Frozen(dead))
    /\ Schedule(Frozen(dead), SkipWnd(wnd, Len(Frozen(dead))), r, Waited(Frozen(dead)))
    /\ UNCHANGED <<policy, class, exits>>
Ticked ==
    /\ \E dead \in SUBSET Slots, r \in [Slots -> Nat] : Ticks(dead, r)
    /\ {ipc', instr', ideal'} \subseteq [Slots -> Nat]

LEMMA FrozenLen ==
    ASSUME Books
    PROVE  /\ Len(Frozen({})) = ProgsNr /\ ProgsNr \in Nat
           /\ ToSet(Frozen({})) = Present /\ Frozen({}) = all \o sch
  <1>1. ToSet(Frozen({})) = Present /\ Frozen({}) = all \o sch
    <2>1. PICK dead \in SUBSET Slots : dead = {} /\ dead \intersect Running = {}
      <3>1. {} \in SUBSET Slots /\ {} \intersect Running = {}
        OBVIOUS
      <3> QED
        BY <3>1
    <2>2. ToSet(Frozen(dead)) = Present \ {} /\ \E kept \in Seq(Slots) : Frozen(dead) = all \o kept /\ kept = sch
      BY <2>1, FrozenIs
    <2> QED
      BY <2>1, <2>2
  <1>2. all \in Seq(Slots) /\ sch \in Seq(Slots)
    BY DEF Books
  <1>3. Len(all \o sch) = Len(all) + Len(sch) /\ Len(all) + Len(sch) \in Nat
    BY <1>2, Joined, Entries
  <1> QED
    BY <1>1, <1>3 DEF ProgsNr

LEMMA MonitorTickIs ==
    ASSUME Books, MonitorTick
    PROVE  Ticks({}, ratio) /\ {ipc', instr', ideal', ratio} \subseteq [Slots -> Nat]
  <1>1. Len(Frozen({})) = ProgsNr
    BY FrozenLen
  <1>2. Ticks({}, ratio)
    BY <1>1 DEF Ticks, MonitorTick, config
  <1>3. policy \in Policies /\ {ipc, instr, ideal, ratio} \subseteq [Slots -> Nat] /\ Running \subseteq Slots
    <2>1. policy \in Policies /\ {ipc, instr, ideal, ratio} \subseteq [Slots -> Nat] /\ sch \in Seq(Slots)
      BY DEF Books
    <2> QED
      BY <2>1, Entries DEF Running
  <1>4. PICK got \in Retired : ipc' = [p \in Slots |-> IF p \in Running THEN Alone(got[p]) ELSE ipc[p]]
    BY DEF MonitorTick
  <1>5. \A p \in Running : got[p] \in Nat
    BY <1>3, <1>4, RatesTyped DEF Retired
  <1>6. \A p \in Running : Alone(got[p]) \in Nat
    BY <1>3, <1>5, RatesTyped
  <1>7. ipc' \in [Slots -> Nat]
    BY <1>3, <1>4, <1>6
  <1> QED
    BY <1>2, <1>3, <1>7 DEF MonitorTick

\* update_progress of the tick divides by zero.
Divides(got) ==
    Progress(Frozen(Killed(got)),
             [p \in Slots |-> IF p \in Running THEN instr[p] + got[p] ELSE instr[p]]).zero

LEMMA AccountIs ==
    ASSUME Books, NEW got \in Retired, Account(got)
    PROVE  \/ Divides(got) /\ Fail("divide")
           \/ ~Divides(got) /\ Ticked /\ ipc' = ipc
  <1>1. /\ policy \in Policies /\ {ipc, instr, ideal, ratio} \subseteq [Slots -> Nat]
        /\ Running \subseteq Slots
    <2>1. policy \in Policies /\ {ipc, instr, ideal, ratio} \subseteq [Slots -> Nat] /\ sch \in Seq(Slots)
      BY DEF Books
    <2> QED
      BY <2>1, Entries DEF Running
  <1>2. \A p \in Running : got[p] \in Nat
    BY <1>1, RatesTyped DEF Retired
  <1> DEFINE dead == Killed(got)
             instr1 == [p \in Slots |-> IF p \in Running THEN instr[p] + got[p] ELSE instr[p]]
             pr == Progress(Frozen(dead), instr1)
  <1>3. instr1 \in [Slots -> Nat]
    BY <1>1, <1>2
  <1>4. pr.ideal \in [Slots -> Nat] /\ pr.ratio \in [Slots -> Nat]
    <2> HIDE DEF instr1, dead
    <2> QED
      BY <1>1, <1>3, ProgressTyped
  <1>5. dead \subseteq Running
    BY DEF Killed
  <1>6. CASE pr.zero
    BY <1>6 DEF Account, Divides
  <1>7. CASE ~pr.zero
    <2>1. /\ done' = done \union dead /\ instr' = instr1 /\ ideal' = pr.ideal /\ ratio' = pr.ratio
          /\ begun' = TRUE /\ waiting' = Waited(Frozen(dead))
          /\ Schedule(Frozen(dead), SkipWnd(wnd, Len(Frozen(dead))), pr.ratio, Waited(Frozen(dead)))
          /\ UNCHANGED <<config, out, ipc, exits>>
      BY <1>7 DEF Account
    <2>2. ~Divides(got) /\ ipc' = ipc
      BY <1>7, <2>1 DEF Divides
    <2> HIDE DEF dead, instr1, pr
    <2>3. Ticks(dead, pr.ratio)
      BY <1>5, <2>1 DEF Ticks, config
    <2>4. dead \in SUBSET Slots /\ {ipc', instr', ideal'} \subseteq [Slots -> Nat]
      BY <1>1, <1>3, <1>4, <1>5, <2>1
    <2>5. Ticked
      BY <1>4, <2>3, <2>4 DEF Ticked
    <2> QED
      BY <2>2, <2>5
  <1> QED
    BY <1>6, <1>7

LEMMA GangTickIs ==
    ASSUME Books, GangTick
    PROVE  Fail("divide") \/ Ticked
  BY AccountIs DEF GangTick

LEMMA TickIs ==
    ASSUME Books, Tick
    PROVE  Fail("divide") \/ Ticked
  <1>1. CASE MonitorTick
    <2>1. Ticks({}, ratio) /\ {ipc', instr', ideal', ratio} \subseteq [Slots -> Nat]
      BY <1>1, MonitorTickIs
    <2> QED
      BY <2>1 DEF Ticked
  <1>2. CASE GangTick
    BY <1>2, GangTickIs
  <1> QED
    BY <1>1, <1>2 DEF Tick

\* The schedulers never find their list empty while they monitor: the window
\* has moved on.
LEMMA SkipIs ==
    ASSUME NEW w \in Nat, NEW n \in Nat
    PROVE  /\ SkipWnd(w, n) \in {w, w + 1} /\ SkipWnd(w, n) \in Nat
           /\ Monitoring(SkipWnd(w, n), n) => n # 0
           /\ policy # "fair" /\ Monitoring(SkipWnd(w, n), n) => SkipWnd(w, n) = w /\ w < n
           /\ policy = "fair" /\ Monitoring(SkipWnd(w, n), n) => SkipWnd(w, n) = w /\ w <= n
           /\ w > n => ~Monitoring(SkipWnd(w, n), n)
           /\ w <= n /\ ~Monitoring(SkipWnd(w, n), n) => SkipWnd(w, n) > n
  BY DEF SkipWnd, Monitoring

LEMMA ScheduleIs ==
    ASSUME NEW list, Listed(list), NEW w \in Nat, NEW r, NEW wt,
           Schedule(list, SkipWnd(w, Len(list)), r, wt)
    PROVE  \/ /\ Monitoring(SkipWnd(w, Len(list)), Len(list))
              /\ Monitors(list, SkipWnd(w, Len(list)))
           \/ /\ ~Monitoring(SkipWnd(w, Len(list)), Len(list))
              /\ Choose(list, SkipWnd(w, Len(list)), r, wt)
  <1>1. PICK n \in Nat : n = Len(list) /\ (list # <<>> <=> n # 0)
    BY Entries DEF Listed
  <1>2. PICK v \in Nat : v = SkipWnd(w, n)
    BY SkipIs
  <1>3. CASE Monitoring(v, n)
    <2>1. n # 0
      BY <1>2, <1>3, SkipIs
    <2>2. Monitor(list, v)
      BY <1>1, <1>2, <1>3 DEF Schedule
    <2>3. Monitors(list, v)
      BY <1>1, <2>1, <2>2 DEF Monitor, Monitors
    <2> QED
      BY <1>1, <1>2, <1>3, <2>3
  <1>4. CASE ~Monitoring(v, n)
    <2>1. Choose(list, v, r, wt)
      BY <1>1, <1>2, <1>4 DEF Schedule
    <2> QED
      BY <1>1, <1>2, <1>4, <2>1
  <1> QED
    BY <1>3, <1>4

LEMMA TickPlaces ==
    ASSUME Books, NEW dead \in SUBSET Slots, NEW r \in [Slots -> Nat], Ticks(dead, r)
    PROVE  Placed(Frozen(dead))
  <1>1. PICK list : list = Frozen(dead) /\ Listed(list)
    BY FrozenIs
  <1>2. PICK n \in Nat : n = Len(list)
    BY <1>1, Entries DEF Listed
  <1>3. policy \in Policies /\ class \in [Slots -> Classes] /\ wnd \in Nat /\ fault \in Faults
    BY DEF Books
  <1>4. PICK wt \in [Slots -> Int] : wt = Waited(list)
    BY WaitedTyped DEF Books
  <1>5. PICK v \in Nat : v = SkipWnd(wnd, n)
    BY <1>3, SkipIs
  <1>6. Monitors(list, v) \/ Choose(list, v, r, wt)
    BY <1>1, <1>2, <1>3, <1>4, <1>5, ScheduleIs DEF Ticks
  <1>7. CASE Monitors(list, v)
    BY <1>1, <1>3, <1>7, MonitorsIs
  <1>8. CASE Choose(list, v, r, wt)
    <2>1. 0 \in Int
      OBVIOUS
    <2> QED
      BY <1>1, <1>3, <1>8, <2>1, ChooseIs
  <1> QED
    BY <1>6, <1>7, <1>8

LEMMA InitBooks ==
    ASSUME Init
    PROVE  Books
  <1>1. PICK w \in Workloads : policy = w.policy /\ class = w.class
    BY DEF Init
  <1>2. policy \in Policies /\ class \in [Slots -> Classes]
    BY <1>1, QuantaAssumption
  <1>3. PICK none \in Seq(Slots) : none = <<>> /\ Len(none) = 0 /\ ToSet(none) = {}
    <2>1. <<>> \in Seq(Slots) /\ Len(<<>>) = 0
      BY EmptySeq
    <2> QED
      BY <2>1, Entries
  <1>4. IsInjective(none)
    <2>1. \A i, j \in 1..Len(none) : none[i] = none[j] => i = j
      BY <1>3
    <2> QED
      BY <2>1, Distinct
  <1>5. all = none /\ sch = none /\ out = Slots /\ done = {} /\ Running = {} /\ Present = {}
    BY <1>3 DEF Init, Running, Present
  <1>6. OnePlace
    BY <1>3, <1>4, <1>5 DEF OnePlace
  <1>7. ipc \in [Slots -> Nat] /\ instr = ipc /\ ideal = ipc /\ ratio = ipc /\ waiting \in [Slots -> Int]
    BY DEF Init
  <1>8. Exits \in Nat /\ exits = 0 /\ 0 \in 0..Exits
    BY QuantaAssumption DEF Init
  <1>9. wnd \in Nat /\ begun \in BOOLEAN /\ cores \in Nat /\ fault \in Faults
    BY DEF Init, Faults
  <1> QED
    BY <1>2, <1>3, <1>5, <1>6, <1>7, <1>8, <1>9 DEF Books

LEMMA ArriveBooks ==
    ASSUME Books, NEW p \in Slots, Arrive(p)
    PROVE  Books'
  <1>1. /\ all \in Seq(Slots) /\ IsInjective(all) /\ p \in out /\ p \notin ToSet(all) /\ p \notin Running
        /\ UNION {Present, out, done} = Slots /\ ToSet(all) \intersect Running = {}
        /\ Present \intersect out = {} /\ Present \intersect done = {} /\ out \intersect done = {}
    BY DEF Books, OnePlace, Present, Arrive
  <1>2. /\ all' \in Seq(Slots) /\ IsInjective(all') /\ ToSet(all') = ToSet(all) \union {p}
    BY <1>1, Appended DEF Arrive
  <1>3. Running' = Running /\ out' = out \ {p} /\ done' = done /\ sch' = sch
    BY DEF Running, Arrive
  <1>4. Present' = Present \union {p}
    BY <1>2, <1>3 DEF Present
  <1>5. UNION {Present', out', done'} = Slots
    <2>1. UNION {Present, out, done} = UNION {Present', out', done'}
      BY <1>1, <1>3, <1>4
    <2> QED
      BY <1>1, <2>1
  <1>6. OnePlace'
    BY <1>1, <1>2, <1>3, <1>4, <1>5 DEF OnePlace, Books
  <1>7. ratio' \in [Slots -> Nat] /\ waiting' \in [Slots -> Int]
    <2>1. ratio \in [Slots -> Nat] /\ waiting \in [Slots -> Int] /\ -1 \in Int
      BY DEF Books
    <2> QED
      BY <2>1 DEF Arrive
  <1> QED
    BY <1>2, <1>6, <1>7 DEF Books, Arrive, config

LEMMA ExitBooks ==
    ASSUME Books, NEW p \in Slots, Exit(p)
    PROVE  Books'
  <1>1. CASE policy # "perf" /\ ideal[p] + Ideal(p) = 0
    <2>1. Fail("divide")
      BY <1>1 DEF Exit
    <2> QED
      BY <2>1 DEF Fail, Books, OnePlace, Present, Running, config, progress, Faults
  <1>2. CASE ~(policy # "perf" /\ ideal[p] + Ideal(p) = 0)
    <2>1. PICK got \in 1..FullSpeed(p) :
            LET left == Left(p) - got
            IN /\ instr' = [instr EXCEPT ![p] = @ + got]
               /\ ideal' = [ideal EXCEPT ![p] = IF policy = "perf" THEN @ ELSE @ + Ideal(p)]
               /\ sch' = RemoveFirst(sch, p)
               /\ out' = IF Respawns(left) THEN out \union {p} ELSE out
               /\ done' = IF Respawns(left) THEN done ELSE done \union {p}
               /\ exits' = exits + 1
               /\ UNCHANGED <<config, all, wnd, begun, cores, ipc, ratio, waiting, fault>>
      BY <1>2 DEF Exit
    <2>2. /\ sch \in Seq(Slots) /\ IsInjective(sch) /\ p \in ToSet(sch)
          /\ ToSet(all) \intersect ToSet(sch) = {} /\ p \notin ToSet(all) /\ p \notin out /\ p \notin done
          /\ UNION {Present, out, done} = Slots
          /\ Present \intersect out = {} /\ Present \intersect done = {} /\ out \intersect done = {}
      BY DEF Books, OnePlace, Present, Running, Exit
    <2>3. sch' \in Seq(Slots) /\ IsInjective(sch') /\ ToSet(sch') = ToSet(sch) \ {p}
      BY <2>1, <2>2, RemovedEntries
    <2>4. all' = all /\ Present' = Present \ {p} /\ p \in Present /\ Running' = ToSet(sch) \ {p}
      BY <2>1, <2>2, <2>3 DEF Present, Running
    <2>5. \/ out' = out \union {p} /\ done' = done
          \/ out' = out /\ done' = done \union {p}
      BY <2>1
    <2>6. UNION {Present', out', done'} = Slots
      <3>1. UNION {Present, out, done} = UNION {Present', out', done'}
        BY <2>4, <2>5
      <3> QED
        BY <2>2, <3>1
    <2>7. OnePlace'
      <3>1. IsInjective(all') /\ ToSet(all') \intersect Running' = {}
        BY <2>2, <2>4 DEF Books, OnePlace
      <3>2. /\ Present' \intersect out' = {} /\ Present' \intersect done' = {} /\ out' \intersect done' = {}
        BY <2>2, <2>4, <2>5
      <3> QED
        BY <2>3, <2>6, <3>1, <3>2 DEF OnePlace
    <2>8. instr' \in [Slots -> Nat] /\ ideal' \in [Slots -> Nat]
      <3>1. instr \in [Slots -> Nat] /\ ideal \in [Slots -> Nat] /\ ipc \in [Slots -> Nat] /\ policy \in Policies
        BY DEF Books
      <3>2. got \in Nat /\ Ideal(p) \in Nat /\ ideal[p] + Ideal(p) \in Nat
        BY <3>1, RatesTyped
      <3> QED
        BY <2>1, <3>1, <3>2
    <2>9. exits' \in 0..Exits
      <3>1. exits \in 0..Exits /\ Exits \in Nat /\ exits < Exits
        BY QuantaAssumption DEF Books, Exit
      <3> QED
        BY <2>1, <3>1
    <2>10. out' \subseteq Slots /\ done' \subseteq Slots
      BY <2>5 DEF Books
    <2>11. UNCHANGED <<config, all, wnd, begun, cores, ipc, ratio, waiting, fault>>
      BY <2>1
    <2> QED
      BY <2>3, <2>7, <2>8, <2>9, <2>10, <2>11 DEF Books, config
  <1> QED
    BY <1>1, <1>2

LEMMA TickBooks ==
    ASSUME Books, Tick
    PROVE  Books'
  <1>1. CASE Fail("divide")
    BY <1>1 DEF Fail, Books, OnePlace, Present, Running, config, progress, Faults
  <1>2. CASE Ticked
    <2>1. PICK dead \in SUBSET Slots, r \in [Slots -> Nat] : Ticks(dead, r)
      BY <1>2 DEF Ticked
    <2>2. /\ Listed(all') /\ Listed(sch') /\ ToSet(all') \intersect ToSet(sch') = {}
          /\ ToSet(all') \union ToSet(sch') = Present \ dead
          /\ wnd' \in Nat /\ cores' \in Nat /\ fault' \in Faults
      <3>1. ToSet(Frozen(dead)) = Present \ (dead \intersect Running) /\ dead \intersect Running = dead
        BY <2>1, FrozenIs DEF Ticks
      <3> QED
        BY <2>1, <3>1, TickPlaces DEF Placed
    <2>3. /\ dead \subseteq Present /\ done' = done \union dead /\ out' = out /\ begun' = TRUE /\ ratio' = r
          /\ policy' = policy /\ class' = class /\ exits' = exits
      BY <2>1 DEF Ticks, Present
    <2>4. /\ UNION {Present, out, done} = Slots
          /\ Present \intersect out = {} /\ Present \intersect done = {} /\ out \intersect done = {}
      BY DEF Books, OnePlace
    <2>5. Present' = Present \ dead /\ Running' = ToSet(sch')
      BY <2>2 DEF Present, Running
    <2>6. OnePlace'
      <3>1. UNION {Present', out', done'} = Slots
        <4>1. UNION {Present, out, done} = UNION {Present', out', done'}
          BY <2>3, <2>5
        <4> QED
          BY <2>4, <4>1
      <3>2. Present' \intersect out' = {} /\ Present' \intersect done' = {} /\ out' \intersect done' = {}
        BY <2>3, <2>4, <2>5
      <3> QED
        BY <2>2, <2>5, <3>1, <3>2 DEF OnePlace, Listed
    <2>7. waiting' \in [Slots -> Int]
      BY <2>1, WaitedTyped DEF Ticks, Books
    <2>8. {ipc', instr', ideal'} \subseteq [Slots -> Nat]
      BY <1>2 DEF Ticked
    <2>9. all' \in Seq(Slots) /\ sch' \in Seq(Slots)
      BY <2>2 DEF Listed
    <2>10. out' \subseteq Slots /\ done' \subseteq Slots
      BY <2>3 DEF Books
    <2> QED
      BY <2>2, <2>3, <2>6, <2>7, <2>8, <2>9, <2>10 DEF Books
  <1> QED
    BY <1>1, <1>2, TickIs

LEMMA NextBooks ==
    ASSUME Books, [Next]_vars
    PROVE  Books'
  <1>1. CASE Tick
    BY <1>1, TickBooks
  <1>2. ASSUME NEW p \in Slots, Arrive(p) PROVE Books'
    BY <1>2, ArriveBooks
  <1>3. ASSUME NEW p \in Slots, Exit(p) PROVE Books'
    BY <1>3, ExitBooks
  <1>4. CASE UNCHANGED vars
    BY <1>4 DEF vars, config, progress, Books, OnePlace, Present, Running
  <1> QED
    BY <1>1, <1>2, <1>3, <1>4 DEF Next, Finished

-----------------------------------------------------------------------------
(* The theorems.                                                            *)

\* The part of TypeOK that needs no hypothesis: every program is in one place,
\* whatever the schedulers do with their lists.
THEOREM BooksKept == Spec => []Books
  <1>1. Init => Books
    BY InitBooks
  <1>2. Books /\ [Next]_vars => Books'
    BY NextBooks
  <1> QED
    BY <1>1, <1>2, PTL DEF Spec

\* SortedByProgress: the quicksort of src/scheds/fair.c and the others yields
\* the programs in ascending progress and never reads the list head.
THEOREM SortIsKept == Spec => []SortedByProgress
  <1>1. Books => SortedByProgress
    <2>1. SUFFICES ASSUME Books PROVE SortedByProgress
      OBVIOUS
    <2>2. all \in Seq(Slots) /\ ratio \in [Slots -> Nat]
      BY <2>1 DEF Books
    <2>3. Ordered(Sort(all, ratio), all, ratio)
      BY <2>2, SortIsRight
    <2>4. PICK s : s = Sort(all, ratio) /\ s.head = FALSE /\ s.list \in Seq(ToSet(all)) /\ Shuffled(s.list, all)
                   /\ \A i, j \in 1..Len(all) : i < j => ratio[s.list[i]] <= ratio[s.list[j]]
      BY <2>3 DEF Ordered
    <2>5. DOMAIN s.list = 1..Len(all)
      BY <2>4, Entries DEF Shuffled
    <2> QED
      BY <2>4, <2>5 DEF SortedByProgress, Shuffled
  <1> QED
    BY <1>1, BooksKept, PTL

\* What a policy has chosen from a list.
ChoseFrom(list, r, wt, m) ==
    /\ Listed(list) /\ wnd' = SkipWnd(wnd, Len(list)) /\ fault' # "divide"
    /\ Len(all') + Len(sch') = Len(list) /\ (OneCore => cores' <= MaxCores)
    /\ \E st \in Choice : /\ Chooses(st, list, r, wt, m)
                          /\ all' = st.all /\ sch' = st.sch
                          /\ cores' = st.cores /\ fault' = st.fault

LEMMA TickSplits ==
    ASSUME Books, NEW dead \in SUBSET Slots, NEW r \in [Slots -> Nat], Ticks(dead, r), NEW m \in Int
    PROVE  LET list == Frozen(dead)
               v == SkipWnd(wnd, Len(list))
           IN  /\ Listed(list) /\ Len(list) \in Nat /\ v \in Nat /\ Waited(list) \in [Slots -> Int]
               /\ \/ Monitoring(v, Len(list)) /\ Monitors(list, v)
                  \/ ~Monitoring(v, Len(list)) /\ ChoseFrom(list, r, Waited(list), m)
  <1>1. PICK list : list = Frozen(dead) /\ Listed(list)
    BY FrozenIs
  <1>2. PICK n \in Nat : n = Len(list)
    BY <1>1, Entries DEF Listed
  <1>3. policy \in Policies /\ class \in [Slots -> Classes] /\ wnd \in Nat
    BY DEF Books
  <1>4. PICK wt \in [Slots -> Int] : wt = Waited(list)
    BY WaitedTyped DEF Books
  <1>5. PICK v \in Nat : v = SkipWnd(wnd, n)
    BY <1>3, SkipIs
  <1>6. \/ Monitoring(v, n) /\ Monitors(list, v)
        \/ ~Monitoring(v, n) /\ Choose(list, v, r, wt)
    BY <1>1, <1>2, <1>3, <1>4, <1>5, ScheduleIs DEF Ticks
  <1>7. ASSUME Choose(list, v, r, wt) PROVE ChoseFrom(list, r, wt, m)
    <2>1. /\ fault' # "divide" /\ wnd' = v
          /\ Len(all') + Len(sch') = Len(list)
          /\ OneCore => cores' <= MaxCores
          /\ \E st \in Choice : /\ Chooses(st, list, r, wt, m)
                                /\ all' = st.all /\ sch' = st.sch
                                /\ cores' = st.cores /\ fault' = st.fault
      BY <1>1, <1>3, <1>7, ChooseIs
    <2> QED
      BY <1>1, <1>2, <1>5, <2>1 DEF ChoseFrom
  <1> QED
    BY <1>1, <1>2, <1>4, <1>5, <1>6, <1>7

\* A tick whose gang the policy has chosen.
Picked ==
    \E list \in Seq(Slots) : ChoseFrom(list, ratio', waiting', 0)

LEMMA ChosenIs ==
    ASSUME Books, Chosen
    PROVE  Picked /\ fault' = "none"
  <1>1. Tick /\ fault' = "none" /\ wnd' = SkipWnd(wnd, Len(all') + Len(sch'))
    BY DEF Chosen
  <1>2. Ticked
    BY <1>1, TickIs DEF Fail
  <1>3. PICK dead \in SUBSET Slots, r \in [Slots -> Nat] : Ticks(dead, r)
    BY <1>2 DEF Ticked
  <1>4. PICK list :
           /\ list = Frozen(dead) /\ Listed(list)
           /\ \E v \in Nat : /\ v = SkipWnd(wnd, Len(list))
                             /\ Monitors(list, v) \/ ChoseFrom(list, r, Waited(list), 0)
    <2>1. 0 \in Int
      OBVIOUS
    <2> QED
      BY <1>3, <2>1, TickSplits
  <1>5. ratio' = r /\ waiting' = Waited(list)
    BY <1>3, <1>4 DEF Ticks
  <1>6. ASSUME NEW v \in Nat, v = SkipWnd(wnd, Len(list)), Monitors(list, v) PROVE FALSE
    <2>1. Len(sch') = 1 /\ Len(all') + 1 = Len(list) /\ wnd' = v + 1
      BY <1>4, <1>6, MonitorsIs DEF Monitors, Books
    <2>2. Len(all') + Len(sch') = Len(list)
      BY <2>1
    <2>3. wnd' = v
      BY <1>1, <1>6, <2>2
    <2> QED
      BY <2>1, <2>3
  <1> QED
    BY <1>1, <1>4, <1>5, <1>6 DEF Picked, Listed

LEMMA PickedFine ==
    ASSUME Picked
    PROVE  \E list \in Seq(Slots), st \in Choice :
              /\ Chooses(st, list, ratio', waiting', 0) /\ Len(all') + Len(sch') = Len(list)
              /\ all' = st.all /\ sch' = st.sch /\ cores' = st.cores /\ fault' = st.fault
              /\ ToSet(st.all) \subseteq ToSet(list) /\ ToSet(list) \subseteq Slots
              /\ st.all # <<>> => list # <<>>
  <1>1. PICK list \in Seq(Slots), st \in Choice :
              /\ Chooses(st, list, ratio', waiting', 0) /\ Len(all') + Len(sch') = Len(list)
              /\ all' = st.all /\ sch' = st.sch /\ cores' = st.cores /\ fault' = st.fault
    BY DEF Picked, ChoseFrom
  <1>2. ToSet(st.all) \subseteq ToSet(list) /\ st.all \in Seq(Slots)
    BY <1>1 DEF Chooses, Fine, Split, Choice
  <1>3. ToSet(list) \subseteq Slots /\ (st.all # <<>> => list # <<>>)
    BY <1>2, Entries
  <1> QED
    BY <1>1, <1>2, <1>3

\* ChoiceSound, for programs of one thread: good_neighbors and monitor never
\* take the head of an empty list, the bandwidth that is left never wraps, and
\* the cores given out are indices of cpus[].  A program of more threads breaks
\* it: the loops of schedule stop on an exact number of cores.
THEOREM ChoiceIsSound == ASSUME OneCore PROVE Spec => []ChoiceSound
  <1> DEFINE Inv == Books /\ cores <= MaxCores /\ fault \notin {"head", "wrap"}
  <1>1. MaxCores \in Nat \ {0}
    BY PoliciesAssumption
  <1>2. Init => Inv
    <2>1. SUFFICES ASSUME Init PROVE Inv
      OBVIOUS
    <2>2. cores = 0 /\ fault = "none" /\ 0 <= MaxCores
      BY <1>1, <2>1 DEF Init
    <2> QED
      BY <2>1, <2>2, InitBooks
  <1>3. Inv /\ [Next]_vars => Inv'
    <2>1. SUFFICES ASSUME Inv, [Next]_vars PROVE Inv'
      OBVIOUS
    <2>2. Books'
      BY <2>1, NextBooks
    <2>3. CASE Tick
      <3>1. CASE Fail("divide")
        BY <2>1, <2>2, <3>1 DEF Fail
      <3>2. CASE Ticked
        <4>1. PICK dead \in SUBSET Slots, r \in [Slots -> Nat] : Ticks(dead, r)
          BY <3>2 DEF Ticked
        <4>2. PICK list :
                 /\ Listed(list)
                 /\ (\E v \in Nat : Monitors(list, v)) \/ ChoseFrom(list, r, Waited(list), 0)
          <5>1. 0 \in Int
            OBVIOUS
          <5> QED
            BY <2>1, <4>1, <5>1, TickSplits
        <4>3. ASSUME NEW v \in Nat, Monitors(list, v) PROVE Inv'
          <5>1. cores' <= MaxCores - 1 + Need[list[1]]
            BY <2>1, <4>2, <4>3, MonitorsIs DEF Books
          <5>2. list[1] \in Slots
            BY <4>2, <4>3, TailCut DEF Monitors, Listed
          <5>3. Need[list[1]] = 1
            BY <5>2 DEF OneCore
          <5>4. cores' <= MaxCores
            BY <1>1, <5>1, <5>3
          <5>5. fault' = fault
            BY <4>3 DEF Monitors
          <5> QED
            BY <2>1, <2>2, <5>4, <5>5
        <4>4. CASE ChoseFrom(list, r, Waited(list), 0)
          <5>1. cores' <= MaxCores
            BY <4>4 DEF ChoseFrom
          <5>2. PICK st : Chooses(st, list, r, Waited(list), 0) /\ fault' = st.fault
            BY <4>4 DEF ChoseFrom
          <5>3. fault' = "none"
            BY <5>2 DEF Chooses
          <5> QED
            BY <2>2, <5>1, <5>3
        <4> QED
          BY <4>2, <4>3, <4>4
      <3> QED
        BY <2>1, <2>3, <3>1, <3>2, TickIs
    <2>4. CASE \E p \in Slots : Arrive(p)
      BY <2>1, <2>2, <2>4 DEF Arrive
    <2>5. CASE \E p \in Slots : Exit(p)
      BY <2>1, <2>2, <2>5 DEF Exit, Fail
    <2>6. CASE UNCHANGED vars
      BY <2>1, <2>2, <2>6 DEF vars
    <2> QED
      BY <2>1, <2>3, <2>4, <2>5, <2>6 DEF Next, Finished
  <1>4. Inv => ChoiceSound
    BY <1>1 DEF ChoiceSound, TypeOK, Books
  <1> QED
    BY <1>2, <1>3, <1>4, PTL DEF Spec

\* NoIdleCore: a choice leaves a program out only when every core is given.
THEOREM NoCoreIdles == Spec => NoIdleCore
  <1>1. Books /\ [Next]_vars => [Chosen /\ all' # <<>> => cores' >= MaxCores]_vars
    <2>1. SUFFICES ASSUME Books, Chosen, all' # <<>> PROVE cores' >= MaxCores
      OBVIOUS
    <2>2. PICK list \in Seq(Slots), st \in Choice :
              /\ Chooses(st, list, ratio', waiting', 0)
              /\ all' = st.all /\ cores' = st.cores /\ fault' = st.fault
      BY <2>1, ChosenIs, PickedFine
    <2>3. fault' = "none"
      BY <2>1, ChosenIs
    <2> QED
      BY <2>1, <2>2, <2>3 DEF Chooses
  <1> QED
    BY <1>1, BooksKept, PTL DEF Spec, NoIdleCore

\* MixedOnlyIfNeeded: fair_bw_cache mixes the classes BW and CS only when no
\* program is left of the one that its gang began with.
THEOREM MixIsNeeded == Spec => MixedOnlyIfNeeded
  <1> DEFINE A == Chosen /\ policy = "fair_bw_cache" /\ Len(all') + Len(sch') > MaxCores
         => LET heavy == {i \in DOMAIN sch' : class[sch'[i]] \in {"BW", "CS"}}
            IN  \A i, j \in heavy : (\A k \in heavy : i <= k) /\ class[sch'[i]] # class[sch'[j]]
                                   => OfClass(all', class[sch'[i]]) = {}
  <1>1. Books /\ [Next]_vars => [A]_vars
    <2>1. SUFFICES ASSUME Books, Chosen, policy = "fair_bw_cache", Len(all') + Len(sch') > MaxCores
                   PROVE  \A i, j \in Heavy(sch') :
                             (\A k \in Heavy(sch') : i <= k) /\ class[sch'[i]] # class[sch'[j]]
                               => OfClass(all', class[sch'[i]]) = {}
      BY DEF Heavy
    <2>2. PICK list \in Seq(Slots), st \in Choice :
              /\ Chooses(st, list, ratio', waiting', 0) /\ Len(all') + Len(sch') = Len(list)
              /\ all' = st.all /\ sch' = st.sch
      BY <2>1, ChosenIs, PickedFine
    <2>3. MixOk(st)
      BY <2>1, <2>2 DEF Chooses
    <2> QED
      BY <2>2, <2>3 DEF MixOk
  <1> HIDE DEF A
  <1>2. Spec => [][A]_vars
    BY <1>1, BooksKept, PTL DEF Spec
  <1> QED
    BY <1>2, PTL DEF A, MixedOnlyIfNeeded

\* perf computes no progress.
NoRatio == policy = "perf" => \A p \in Slots : ratio[p] = 0

LEMMA NextNoRatio ==
    ASSUME Books, NoRatio, [Next]_vars
    PROVE  NoRatio'
  <1>1. CASE MonitorTick
    BY <1>1 DEF MonitorTick, NoRatio, config
  <1>2. CASE GangTick
    <2>1. PICK got : Account(got)
      BY <1>2 DEF GangTick
    <2> DEFINE pr == Progress(Frozen(Killed(got)), [p \in Slots |-> IF p \in Running THEN instr[p] + got[p] ELSE instr[p]])
    <2>2. policy = "perf" => \A p \in Slots : pr.ratio[p] = ratio[p]
      BY DEF Progress
    <2> HIDE DEF pr
    <2>3. policy' = policy /\ (ratio' = ratio \/ ratio' = pr.ratio)
      BY <2>1 DEF Account, Fail, config, progress, pr
    <2> QED
      BY <2>2, <2>3 DEF NoRatio
  <1>3. ASSUME NEW p \in Slots, Arrive(p) PROVE NoRatio'
    <2>1. ratio \in [Slots -> Nat] /\ ratio' = [ratio EXCEPT ![p] = 0] /\ policy' = policy
      BY <1>3 DEF Books, Arrive, config
    <2> QED
      BY <2>1 DEF NoRatio
  <1>4. ASSUME NEW p \in Slots, Exit(p) PROVE NoRatio'
    <2>1. ratio' = ratio /\ policy' = policy
      BY <1>4 DEF Exit, Fail, config, progress
    <2> QED
      BY <2>1 DEF NoRatio
  <1>5. CASE UNCHANGED vars
    BY <1>5 DEF vars, config, progress, NoRatio
  <1> QED
    BY <1>1, <1>2, <1>3, <1>4, <1>5 DEF Next, Tick, Finished

\* LeastServedRuns, when every program fits beside no other: the program that is
\* furthest behind is in the next gang.  Without that a program that never fits
\* is passed over for ever.
THEOREM LeastServed == ASSUME EachFits PROVE Spec => LeastServedRuns
  <1> DEFINE Inv == Books /\ NoRatio
  <1>1. Init => Inv
    BY InitBooks DEF Init, NoRatio
  <1>2. Inv /\ [Next]_vars => Inv'
    BY NextBooks, NextNoRatio
  <1>3. Inv /\ Inv' /\ [Next]_vars
          => [Chosen => \A p \in ToSet(all') : \E q \in ToSet(sch') : ratio'[q] <= ratio'[p]]_vars
    <2>1. SUFFICES ASSUME Inv, Inv', Chosen, NEW p \in ToSet(all')
                   PROVE  \E q \in ToSet(sch') : ratio'[q] <= ratio'[p]
      OBVIOUS
    <2>2. PICK list \in Seq(Slots), st \in Choice :
              /\ Chooses(st, list, ratio', waiting', 0) /\ all' = st.all /\ sch' = st.sch
              /\ ToSet(st.all) \subseteq ToSet(list) /\ ToSet(list) \subseteq Slots
              /\ st.all # <<>> => list # <<>>
      BY <2>1, ChosenIs, PickedFine
    <2>3. all' \in Seq(Slots) /\ sch' \in Seq(Slots)
      BY <2>1 DEF Books
    <2>4. p \in ToSet(list) /\ list # <<>>
      BY <2>1, <2>2, <2>3, Entries
    <2>5. policy' = policy
      BY <2>1 DEF Chosen, Tick, MonitorTick, GangTick, Account, Fail, config
    <2>6. CASE policy = "perf"
      <3>1. sch' # <<>>
        BY <2>2, <2>4, <2>6 DEF Chooses
      <3>2. PICK q : q \in ToSet(sch')
        BY <2>3, <3>1, Entries
      <3>3. q \in Slots /\ p \in Slots
        BY <2>2, <2>3, <2>4, <3>2, Entries
      <3>4. ratio'[q] = 0 /\ ratio'[p] = 0
        BY <2>1, <2>5, <2>6, <3>3 DEF NoRatio
      <3> QED
        BY <3>2, <3>4
    <2>7. CASE policy # "perf"
      BY <2>2, <2>4, <2>7 DEF Chooses
    <2> QED
      BY <2>6, <2>7
  <1> HIDE DEF Inv
  <1> QED
    BY <1>1, <1>2, <1>3, PTL DEF Spec, LeastServedRuns

-----------------------------------------------------------------------------
(* How long perf lets a program wait.                                       *)

\* The tick lets everybody wait two halves of a quantum more, and puts the gang
\* behind them.
LEMMA WaitedOnce ==
    ASSUME Books, Waits(all, waiting, Cardinality(Slots)), NEW dead \in SUBSET Slots
    PROVE  Waits(Frozen(dead), Waited(Frozen(dead)), Cardinality(Slots) + 1)
  <1>1. PICK N \in Nat : N = Cardinality(Slots) /\ IsFiniteSet(Slots)
    BY PoliciesAssumption, FS_CardinalityType
  <1>2. PICK list : list = Frozen(dead) /\ Listed(list) /\ \E kept \in Seq(Slots) :
                       list = all \o kept /\ ToSet(kept) = Running \ dead
    BY FrozenIs
  <1>3. PICK kept \in Seq(Slots) : list = all \o kept /\ ToSet(kept) = Running \ dead
    BY <1>2
  <1>4. PICK wt \in [Slots -> Int] : wt = Waited(list)
    BY WaitedTyped DEF Books
  <1>5. /\ all \in Seq(Slots) /\ ToSet(all) \intersect Running = {} /\ waiting \in [Slots -> Int]
        /\ \A k \in 1..Len(all) : /\ waiting[all[k]] < 2 * (N - k) /\ waiting[all[k]] >= -1
                                  /\ \A j \in 1..k : waiting[all[j]] >= waiting[all[k]]
    BY <1>1 DEF Books, OnePlace, Waits
  <1>6. Cat(list, all, kept)
    BY <1>3, <1>5, CatIs
  <1>7. Len(all) \in Nat /\ Len(kept) \in Nat /\ Len(list) = Len(all) + Len(kept) /\ list \in Seq(Slots)
    BY <1>2, <1>5, <1>6, Entries DEF Cat, Listed
  <1>8. Len(list) <= N
    <2>1. Cardinality(ToSet(list)) = Len(list) /\ ToSet(list) \subseteq Slots
      BY <1>2, <1>7, Sized, Entries DEF Listed
    <2>2. Cardinality(ToSet(list)) <= Cardinality(Slots)
      BY <1>1, <2>1, FS_Subset
    <2> QED
      BY <1>1, <2>1, <2>2
  <1>9. ASSUME NEW k \in 1..Len(all)
        PROVE  list[k] = all[k] /\ k \in 1..Len(list) /\ wt[list[k]] = waiting[all[k]] + 2
               /\ waiting[all[k]] \in Int
    <2>1. list[k] = all[k] /\ k \in 1..Len(list)
      BY <1>6, <1>7 DEF Cat
    <2>2. all[k] \in ToSet(all) /\ all[k] \in Slots /\ all[k] \in ToSet(list)
      BY <1>5, <1>7, <2>1, Entries, LenProperties
    <2>3. all[k] \notin Running
      BY <1>5, <2>2
    <2> QED
      BY <1>4, <1>5, <2>1, <2>2, <2>3 DEF Waited
  <1>10. ASSUME NEW k \in 1..Len(list), ~(k \in 1..Len(all))
         PROVE  wt[list[k]] = 0
    <2>1. PICK i \in 1..Len(kept) : k = Len(all) + i /\ list[k] = kept[i]
      <3>1. k - Len(all) \in 1..Len(kept) /\ k = Len(all) + (k - Len(all))
        BY <1>7, <1>10
      <3> QED
        BY <1>6, <3>1 DEF Cat
    <2>2. list[k] \in Running /\ list[k] \in Slots
      BY <1>3, <1>7, <2>1, Entries, LenProperties
    <2> QED
      BY <1>4, <2>2 DEF Waited
  <1>11. SUFFICES ASSUME NEW k \in 1..Len(list)
                  PROVE  /\ wt[list[k]] < 2 * (N + 1 - k) /\ wt[list[k]] >= -1
                         /\ \A j \in 1..k : wt[list[j]] >= wt[list[k]]
    BY <1>1, <1>2, <1>4 DEF Waits
  <1>12. CASE k \in 1..Len(all)
    <2>1. PICK w \in Int : w = waiting[all[k]] /\ wt[list[k]] = w + 2 /\ w < 2 * (N - k) /\ w >= -1
      BY <1>5, <1>9, <1>12
    <2>2. w + 2 < 2 * (N + 1 - k) /\ w + 2 >= -1
      BY <2>1
    <2>3. ASSUME NEW j \in 1..k PROVE wt[list[j]] >= wt[list[k]]
      <3>1. j \in 1..Len(all)
        BY <1>7, <1>12
      <3>2. wt[list[j]] = waiting[all[j]] + 2 /\ waiting[all[j]] \in Int /\ waiting[all[j]] >= w
        BY <1>5, <1>9, <1>12, <2>1, <3>1
      <3> QED
        BY <2>1, <3>2
    <2> QED
      BY <2>1, <2>2, <2>3
  <1>13. CASE ~(k \in 1..Len(all))
    <2>1. wt[list[k]] = 0 /\ 0 < 2 * (N + 1 - k)
      BY <1>7, <1>8, <1>10, <1>13
    <2>2. ASSUME NEW j \in 1..k PROVE wt[list[j]] >= 0
      <3>1. j \in 1..Len(list)
        BY <1>7
      <3>2. CASE j \in 1..Len(all)
        <4>1. PICK w \in Int : w = waiting[all[j]] /\ wt[list[j]] = w + 2
          BY <1>9, <3>2
        <4>2. w >= -1
          BY <1>5, <3>2, <4>1
        <4> QED
          BY <4>1, <4>2
      <3>3. CASE ~(j \in 1..Len(all))
        BY <1>10, <3>1, <3>3
      <3> QED
        BY <3>2, <3>3
    <2> QED
      BY <2>1, <2>2
  <1> QED
    BY <1>12, <1>13

\* The lists of perf are in the order of the waiting times.
PerfWaits == policy = "perf" => Waits(all, waiting, Cardinality(Slots))

LEMMA TickPerfWaits ==
    ASSUME Books, PerfWaits, Tick
    PROVE  PerfWaits'
  <1>1. SUFFICES ASSUME policy = "perf", Ticked PROVE Waits(all', waiting', Cardinality(Slots))
    <2>1. policy' = policy
      BY DEF Tick, MonitorTick, GangTick, Account, Fail, config
    <2>2. CASE Fail("divide")
      BY <2>2 DEF Fail, PerfWaits, config
    <2> QED
      BY <2>1, <2>2, TickIs DEF PerfWaits
  <1>2. PICK dead \in SUBSET Slots, r \in [Slots -> Nat] : Ticks(dead, r)
    BY <1>1 DEF Ticked
  <1>3. PICK N \in Nat : N = Cardinality(Slots)
    BY PoliciesAssumption, FS_CardinalityType
  <1>4. PICK list : /\ list = Frozen(dead) /\ Listed(list) /\ Waited(list) \in [Slots -> Int]
                    /\ \/ \E v \in Nat : Monitors(list, v)
                       \/ ChoseFrom(list, r, Waited(list), N)
    BY <1>2, TickSplits
  <1>5. PICK wt \in [Slots -> Int] : wt = Waited(list) /\ waiting' = wt
    BY <1>2, <1>4 DEF Ticks
  <1>6. Waits(list, wt, N + 1)
    BY <1>1, <1>3, <1>4, <1>5, WaitedOnce DEF PerfWaits
  <1>7. ASSUME NEW v \in Nat, Monitors(list, v) PROVE Waits(all', wt, N)
    <2>1. all' \in Seq(Slots) /\ CutAt(all', list, 1) /\ Len(all') + 1 = Len(list) /\ Len(list) \in Nat
      BY <1>4, <1>7, MonitorsIs DEF Books
    <2>2. 1 \in 1..Len(list) /\ list \in Seq(Slots)
      <3>1. list \in Seq(Slots)
        BY <1>4 DEF Listed
      <3>2. list # <<>>
        BY <1>7 DEF Monitors
      <3> QED
        BY <3>1, <3>2, TailCut
    <2>3. PICK s \in Seq(Slots), t \in Seq(Slots) : s = list /\ t = all' /\ CutAt(t, s, 1) /\ 1 \in 1..Len(s)
      BY <2>1, <2>2
    <2>4. PICK i \in 1..Len(s) : CutAt(t, s, i) /\ i = 1
      BY <2>3
    <2>5. PICK m \in Int : m = N
      OBVIOUS
    <2>6. i = 1 /\ Waits(s, wt, m + 1) => Waits(t, wt, m)
      BY <2>4, WaitsCut
    <2> QED
      BY <1>6, <2>3, <2>4, <2>5, <2>6
  <1>8. ASSUME ChoseFrom(list, r, wt, N) PROVE Waits(all', wt, N)
    BY <1>1, <1>6, <1>8 DEF ChoseFrom, Chooses
  <1> QED
    BY <1>3, <1>4, <1>5, <1>7, <1>8

LEMMA ArrivePerfWaits ==
    ASSUME Books, PerfWaits, NEW p \in Slots, Arrive(p)
    PROVE  PerfWaits'
  <1>1. /\ policy' = policy /\ p \in out /\ all' = Append(all, p) /\ waiting' = [waiting EXCEPT ![p] = -1]
    BY DEF Arrive, config
  <1>2. SUFFICES ASSUME policy = "perf" PROVE Waits(all', waiting', Cardinality(Slots))
    BY <1>1 DEF PerfWaits
  <1>3. PICK N \in Nat : N = Cardinality(Slots) /\ IsFiniteSet(Slots)
    BY PoliciesAssumption, FS_CardinalityType
  <1>4. /\ all \in Seq(Slots) /\ IsInjective(all) /\ waiting \in [Slots -> Int] /\ p \notin ToSet(all)
        /\ \A k \in 1..Len(all) : /\ waiting[all[k]] < 2 * (N - k) /\ waiting[all[k]] >= -1
                                  /\ \A j \in 1..k : waiting[all[j]] >= waiting[all[k]]
    BY <1>1, <1>2, <1>3 DEF Books, OnePlace, Present, PerfWaits, Waits
  <1>5. PICK t \in Seq(Slots) : t = Append(all, p) /\ Len(t) = Len(all) + 1 /\ IsInjective(t)
    BY <1>4, Appended
  <1>6. t[Len(all) + 1] = p /\ \A i \in 1..Len(all) : t[i] = all[i]
    BY <1>4, <1>5, AppendProperties
  <1>7. Len(all) \in Nat /\ Len(t) <= N
    <2>1. Len(all) \in Nat /\ Cardinality(ToSet(t)) = Len(t) /\ ToSet(t) \subseteq Slots
      BY <1>4, <1>5, Sized, Entries
    <2>2. Cardinality(ToSet(t)) <= Cardinality(Slots)
      BY <1>3, <2>1, FS_Subset
    <2> QED
      BY <1>3, <2>1, <2>2
  <1>8. PICK wt \in [Slots -> Int] : wt = waiting' /\ wt[p] = -1 /\ \A q \in Slots : q # p => wt[q] = waiting[q]
    <2>1. -1 \in Int
      OBVIOUS
    <2> QED
      BY <1>1, <1>4, <2>1
  <1>9. \A k \in 1..Len(all) : all[k] \in Slots /\ all[k] # p /\ wt[t[k]] = waiting[all[k]] /\ waiting[all[k]] \in Int
    <2>1. \A k \in 1..Len(all) : all[k] \in Slots /\ all[k] # p
      <3>1. \A k \in 1..Len(all) : all[k] \in ToSet(all) /\ all[k] \in Slots
        BY <1>4, Entries
      <3> QED
        BY <1>4, <3>1
    <2> QED
      BY <1>4, <1>6, <1>8, <2>1
  <1>10. SUFFICES ASSUME NEW k \in 1..Len(t)
                  PROVE  /\ wt[t[k]] < 2 * (N - k) \/ (k = Len(t) /\ wt[t[k]] = -1)
                         /\ wt[t[k]] >= -1 /\ \A j \in 1..k : wt[t[j]] >= wt[t[k]]
    <2>1. ASSUME NEW k \in 1..Len(t), k = Len(t), wt[t[k]] = -1 PROVE wt[t[k]] < 2 * (N - k)
      <3>1. -1 < 2 * (N - k)
        BY <1>5, <1>7, <2>1
      <3> QED
        BY <2>1, <3>1
    <2> QED
      BY <1>1, <1>3, <1>5, <1>8, <2>1 DEF Waits
  <1>11. CASE k \in 1..Len(all)
    <2>1. wt[t[k]] = waiting[all[k]] /\ \A j \in 1..k : j \in 1..Len(all)
      BY <1>7, <1>9, <1>11
    <2> QED
      BY <1>4, <1>9, <1>11, <2>1
  <1>12. CASE k = Len(all) + 1
    <2>1. wt[t[k]] = -1 /\ k = Len(t)
      BY <1>5, <1>6, <1>8, <1>12
    <2>2. ASSUME NEW j \in 1..k PROVE wt[t[j]] >= -1
      <3>1. CASE j = k
        BY <2>1, <3>1
      <3>2. CASE j # k
        <4>1. j \in 1..Len(all)
          BY <1>7, <1>12, <3>2
        <4> QED
          BY <1>4, <1>9, <4>1
      <3> QED
        BY <3>1, <3>2
    <2> QED
      BY <2>1, <2>2
  <1> QED
    BY <1>5, <1>7, <1>11, <1>12

\* WaitBound: perf takes the program that has waited longest, so the list stays
\* in the order of the waiting times, and the k-th of it has let k programs pass.
THEOREM WaitIsBounded == Spec => []WaitBound
  <1> DEFINE Inv == Books /\ PerfWaits
  <1>1. Init => Inv
    <2>1. SUFFICES ASSUME Init PROVE PerfWaits
      BY InitBooks
    <2>2. all = <<>> /\ Len(<<>>) = 0
      BY <2>1, EmptySeq DEF Init
    <2>3. Len(all) = 0
      BY <2>2
    <2> QED
      BY <2>3 DEF PerfWaits, Waits
  <1>2. Inv /\ [Next]_vars => Inv'
    <2>1. SUFFICES ASSUME Inv, [Next]_vars PROVE PerfWaits'
      BY NextBooks
    <2>2. CASE Tick
      BY <2>1, <2>2, TickPerfWaits
    <2>3. ASSUME NEW p \in Slots, Arrive(p) PROVE PerfWaits'
      BY <2>1, <2>3, ArrivePerfWaits
    <2>4. ASSUME NEW p \in Slots, Exit(p) PROVE PerfWaits'
      <3>1. policy' = policy /\ all' = all /\ waiting' = waiting
        BY <2>4 DEF Exit, Fail, config
      <3> QED
        BY <2>1, <3>1 DEF PerfWaits
    <2>5. CASE UNCHANGED vars
      BY <2>1, <2>5 DEF vars, config, PerfWaits
    <2> QED
      BY <2>1, <2>2, <2>3, <2>4, <2>5 DEF Next, Finished
  <1>3. Inv => WaitBound
    <2>1. SUFFICES ASSUME Inv, policy = "perf", NEW p \in ToSet(all)
                   PROVE  waiting[p] < 2 * (Cardinality(Slots) - 1)
      BY DEF WaitBound
    <2>2. PICK N \in Nat : N = Cardinality(Slots)
      BY PoliciesAssumption, FS_CardinalityType
    <2>3. all \in Seq(Slots) /\ waiting \in [Slots -> Int]
      BY <2>1 DEF Books
    <2>4. PICK k \in 1..Len(all) : all[k] = p
      BY <2>1, <2>3, Entries
    <2>5. waiting[p] < 2 * (N - k)
      BY <2>1, <2>2, <2>4 DEF PerfWaits, Waits
    <2>6. waiting[p] \in Int
      BY <2>1, <2>3, Entries
    <2>7. waiting[p] < 2 * (N - 1)
      BY <2>4, <2>5, <2>6
    <2> QED
      BY <2>2, <2>7
  <1> HIDE DEF Inv
  <1> QED
    BY <1>1, <1>2, <1>3, PTL DEF Spec

-----------------------------------------------------------------------------
(* The monitoring phase.                                                    *)

\* No program ends while it is being measured, and none is so slow that the
\* fixed-point arithmetic of collect and update_progress rounds it to 0.
Measurable ==
    \A q \in Policies \ Late :
       Short[q] = {} /\ \A p \in Slots : (Alone(Rate[q][p]) * Cycles) \div 1000 > 0

FullRate(p) == ipc[p] = Alone(FullSpeed(p))

\* Before the first tick; while the window is within the programs, the last wnd
\* of which, in the order of the list, have been measured; and after it.
Phases ==
    /\ fault # "divide" /\ \A p \in Slots : ipc[p] = 0 \/ FullRate(p)
    /\ ~begun => wnd = 0 /\ sch = <<>> /\ done = {}
    /\ begun /\ wnd <= Cardinality(Slots) =>
         /\ out = {} /\ done = {} /\ Len(sch) = 1 /\ wnd >= 1
         /\ \A i \in 1..Len(all) : i > Cardinality(Slots) - wnd => FullRate(all[i])
    /\ wnd > Cardinality(Slots) => \A p \in Slots : FullRate(p)

LEMMA ListedLen ==
    ASSUME NEW list, Listed(list)
    PROVE  /\ Cardinality(Slots) \in Nat /\ Len(list) \in Nat /\ Len(list) <= Cardinality(Slots)
           /\ ToSet(list) = Slots => Len(list) = Cardinality(Slots)
  <1>1. IsFiniteSet(Slots) /\ Cardinality(Slots) \in Nat
    BY PoliciesAssumption, FS_CardinalityType
  <1>2. /\ Cardinality(ToSet(list)) = Len(list) /\ ToSet(list) \subseteq Slots /\ Len(list) \in Nat
    BY Sized, Entries DEF Listed
  <1>3. Cardinality(ToSet(list)) <= Cardinality(Slots)
    BY <1>1, <1>2, FS_Subset
  <1> QED
    BY <1>1, <1>2, <1>3

LEMMA EverybodyThere ==
    ASSUME Books
    PROVE  /\ Cardinality(Slots) \in Nat /\ wnd \in Nat /\ ProgsNr \in Nat
           /\ Len(Frozen({})) = ProgsNr /\ ProgsNr <= Cardinality(Slots)
           /\ out = {} /\ done = {} => ProgsNr = Cardinality(Slots) /\ ToSet(Frozen({})) = Slots
  <1>1. PICK list : list = Frozen({}) /\ Listed(list)
    <2>1. {} \in SUBSET Slots
      OBVIOUS
    <2> QED
      BY <2>1, FrozenIs
  <1>2. Len(list) = ProgsNr /\ ToSet(list) = Present /\ UNION {Present, out, done} = Slots /\ wnd \in Nat
    BY <1>1, FrozenLen DEF Books, OnePlace
  <1>3. out = {} /\ done = {} => ToSet(list) = Slots
    <2>1. UNION {Present, out, done} = Present \union out \union done
      OBVIOUS
    <2> QED
      BY <1>2, <2>1
  <1> QED
    BY <1>1, <1>2, <1>3, ListedLen

\* collect measures the program that runs alone.
LEMMA Collects ==
    ASSUME Books, Phases, policy \notin Late, MonitorTick
    PROVE  /\ out = {} /\ done = {} /\ wnd <= Cardinality(Slots) /\ policy' = policy
           /\ \A p \in Slots : FullRate(p) => FullRate(p)'
           /\ \A p \in Running : FullRate(p)'
           /\ \A p \in Slots : ipc'[p] = 0 \/ FullRate(p)'
           /\ sch = <<>> \/ Len(sch) = 1
           /\ wnd >= 1 => Len(sch) = 1 /\ \A i \in 1..Len(all) : i > Cardinality(Slots) - wnd => FullRate(all[i])
  <1>1. MayTick /\ Monitoring(wnd, ProgsNr) /\ policy' = policy
    BY DEF MonitorTick, config
  <1>2. PICK N \in Nat : N = Cardinality(Slots) /\ wnd \in Nat /\ wnd <= N
    BY <1>1, EverybodyThere DEF Monitoring
  <1>3. /\ out = {} /\ done = {} /\ (sch = <<>> \/ Len(sch) = 1)
        /\ wnd >= 1 => Len(sch) = 1 /\ \A i \in 1..Len(all) : i > N - wnd => FullRate(all[i])
    <2>1. CASE begun
      BY <1>2, <2>1 DEF Phases
    <2>2. CASE ~begun
      BY <1>1, <1>2, <2>2 DEF Phases, MayTick
    <2> QED
      BY <2>1, <2>2
  <1>4. PICK got \in Retired : ipc' = [p \in Slots |-> IF p \in Running THEN Alone(got[p]) ELSE ipc[p]]
    BY DEF MonitorTick
  <1>5. policy \in Policies /\ sch \in Seq(Slots) /\ Running \subseteq Slots
    <2>1. policy \in Policies /\ sch \in Seq(Slots)
      BY DEF Books
    <2> QED
      BY <2>1, Entries DEF Running
  <1>6. \A p \in Running : got[p] = FullSpeed(p)
    <2>1. CASE sch = <<>>
      BY <1>5, <2>1, Entries DEF Running
    <2>2. CASE Len(sch) = 1
      BY <1>4, <1>5, <2>2, RatesTyped DEF Retired
    <2> QED
      BY <1>3, <2>1, <2>2
  <1>7. \A p \in Slots : FullSpeed(p)' = FullSpeed(p)
    BY <1>1 DEF FullSpeed
  <1>8. \A p \in Running : ipc'[p] = Alone(FullSpeed(p))
    BY <1>4, <1>5, <1>6
  <1>9. \A p \in Running : FullRate(p)'
    BY <1>5, <1>7, <1>8 DEF FullRate, Alone
  <1>10. \A p \in Slots : p \in Running \/ ipc'[p] = ipc[p]
    BY <1>4
  <1>11. \A p \in Slots : FullRate(p) => FullRate(p)'
    BY <1>7, <1>9, <1>10 DEF FullRate, Alone
  <1>12. \A p \in Slots : ipc'[p] = 0 \/ FullRate(p)'
    BY <1>9, <1>10, <1>11 DEF Phases
  <1> QED
    BY <1>1, <1>2, <1>3, <1>9, <1>11, <1>12

LEMMA MonitorTickPhases ==
    ASSUME Books, Phases, policy \notin Late, MonitorTick
    PROVE  Phases'
  <1>1. /\ out = {} /\ done = {} /\ policy' = policy
        /\ \A p \in Slots : FullRate(p) => FullRate(p)'
        /\ \A p \in Running : FullRate(p)'
        /\ \A p \in Slots : ipc'[p] = 0 \/ FullRate(p)'
        /\ sch = <<>> \/ Len(sch) = 1
    BY Collects
  <1>2. PICK N \in Nat, k \in Nat :
           /\ N = Cardinality(Slots) /\ k = wnd /\ k <= N
           /\ k >= 1 => Len(sch) = 1 /\ \A i \in 1..Len(all) : i > N - k => FullRate(all[i])
    BY Collects, EverybodyThere
  <1>3. PICK list : /\ list = Frozen({}) /\ Listed(list) /\ Len(list) = N /\ ToSet(list) = Slots
                    /\ list = all \o sch
    <2>1. {} \in SUBSET Slots
      OBVIOUS
    <2> QED
      BY <1>1, <1>2, <2>1, EverybodyThere, FrozenIs, FrozenLen
  <1>4. list \in Seq(Slots) /\ all \in Seq(Slots) /\ sch \in Seq(Slots)
    BY <1>3 DEF Listed, Books
  <1>5. Cat(list, all, sch) /\ Len(all) \in Nat /\ Len(sch) \in Nat
    <2>1. Cat(all \o sch, all, sch)
      BY <1>4, CatIs
    <2>2. Len(all) \in Nat /\ Len(sch) \in Nat
      BY <1>4, LenProperties
    <2> QED
      BY <1>3, <2>1, <2>2
  <1>6. ASSUME NEW i \in 1..N, i > N - k PROVE FullRate(list[i])'
    <2>1. k >= 1 /\ Len(sch) = 1 /\ N = Len(all) + 1
      <3>1. k >= 1
        BY <1>2, <1>6
      <3>2. Len(list) = Len(all) + Len(sch)
        BY <1>5 DEF Cat
      <3> QED
        BY <1>2, <1>3, <3>1, <3>2
    <2>2. CASE i \in 1..Len(all)
      <3>1. list[i] = all[i] /\ FullRate(all[i]) /\ all[i] \in Slots
        BY <1>2, <1>4, <1>5, <1>6, <2>1, <2>2, LenProperties DEF Cat
      <3> QED
        BY <1>1, <3>1
    <2>3. CASE ~(i \in 1..Len(all))
      <3>1. i = Len(all) + 1 /\ 1 \in 1..Len(sch)
        BY <1>5, <2>1, <2>3
      <3>2. list[i] = sch[1] /\ sch[1] \in Running
        BY <1>4, <1>5, <3>1, Entries DEF Cat, Running
      <3> QED
        BY <1>1, <3>2
    <2> QED
      BY <2>2, <2>3
  <1>7. ASSUME k = N PROVE \A p \in Slots : FullRate(p)'
    <2>1. SUFFICES ASSUME NEW p \in Slots PROVE FullRate(p)'
      OBVIOUS
    <2>2. PICK i \in 1..Len(list) : list[i] = p
      BY <1>3, <1>4, Entries
    <2>3. i \in 1..N /\ i > N - k
      BY <1>3, <1>7, <2>2
    <2> QED
      BY <1>6, <2>2, <2>3
  <1>8. Ticks({}, ratio) /\ ratio \in [Slots -> Nat]
    BY MonitorTickIs
  <1>9. out' = {} /\ done' = {} /\ begun' = TRUE
    BY <1>1, <1>8 DEF Ticks
  <1>10. PICK v \in Nat : /\ v = SkipWnd(k, N)
                          /\ \/ Monitoring(v, N) /\ Monitors(list, v)
                             \/ ~Monitoring(v, N) /\ ChoseFrom(list, ratio, Waited(list), 0)
    <2>1. {} \in SUBSET Slots /\ 0 \in Int
      OBVIOUS
    <2> QED
      BY <1>2, <1>3, <1>8, <2>1, TickSplits
  <1>11. CASE Monitoring(v, N) /\ Monitors(list, v)
    <2>1. v = k /\ wnd' = k + 1 /\ fault' = fault
      BY <1>2, <1>10, <1>11, SkipIs DEF Monitors
    <2>2. /\ all' \in Seq(Slots) /\ CutAt(all', list, 1) /\ Len(sch') = 1 /\ Len(all') + 1 = N
      BY <1>3, <1>11, MonitorsIs DEF Books
    <2>3. ASSUME NEW i \in 1..Len(all'), i > N - (k + 1)
          PROVE  ipc'[all'[i]] = Alone(Rate[policy'][all'[i]])
      <3>1. Len(all') \in Nat /\ i + 1 \in 1..N /\ i + 1 > N - k
        BY <1>2, <2>2, <2>3, Entries
      <3>2. PICK p : p = list[i + 1] /\ all'[i] = p
        BY <2>2, <2>3, <3>1 DEF CutAt
      <3>3. FullRate(p)'
        BY <1>6, <3>1, <3>2
      <3> QED
        BY <3>2, <3>3 DEF FullRate, FullSpeed, Alone
    <2>4. k + 1 > N => k = N
      BY <1>2
    <2>5. /\ fault' # "divide" /\ begun' /\ (k + 1 >= 1)
          /\ k + 1 > N => \A p \in Slots : FullRate(p)'
      BY <1>7, <1>9, <2>1, <2>4 DEF Phases
    <2>6. ASSUME NEW i \in 1..Len(all'), i > Cardinality(Slots) - wnd' PROVE FullRate(all[i])'
      BY <1>2, <2>1, <2>3, <2>6 DEF FullRate, FullSpeed, Alone
    <2>7. Cardinality(Slots)' = Cardinality(Slots)
      OBVIOUS
    <2>8. wnd' >= 1 /\ Len(sch') = 1 /\ (wnd' > Cardinality(Slots) => \A p \in Slots : FullRate(p)')
      BY <1>2, <2>1, <2>2, <2>5
    <2> QED
      BY <1>1, <1>9, <2>5, <2>6, <2>7, <2>8 DEF Phases
  <1>12. CASE ~Monitoring(v, N) /\ ChoseFrom(list, ratio, Waited(list), 0)
    <2>1. v > N /\ k = N
      <3>1. v \in {k, k + 1} /\ v > N
        BY <1>2, <1>10, <1>12, SkipIs DEF Monitoring
      <3> QED
        BY <1>2, <3>1
    <2>2. wnd' = v /\ fault' # "divide"
      BY <1>2, <1>3, <1>10, <1>12 DEF ChoseFrom
    <2>3. ~(wnd' <= N) /\ begun' /\ \A p \in Slots : FullRate(p)'
      BY <1>7, <1>9, <2>1, <2>2
    <2> QED
      BY <1>1, <1>2, <2>2, <2>3 DEF Phases
  <1> QED
    BY <1>10, <1>11, <1>12

\* What update_progress divides by is positive once everybody is measured.
LEMMA IdealPositive ==
    ASSUME Books, Measurable, policy \notin Late, NEW p \in Slots, FullRate(p)
    PROVE  ideal[p] + Ideal(p) # 0
  <1>1. policy \in Policies \ Late /\ ideal[p] \in Nat /\ Ideal(p) \in Nat
    BY RatesTyped DEF Books
  <1>2. (Alone(Rate[policy][p]) * Cycles) \div 1000 > 0
    BY <1>1 DEF Measurable
  <1>3. Ideal(p) > 0
    BY <1>2 DEF Ideal, FullRate, FullSpeed
  <1> QED
    BY <1>1, <1>3

LEMMA GangTickPhases ==
    ASSUME Books, Phases, Measurable, policy \notin Late, GangTick
    PROVE  Phases'
  <1>1. PICK N \in Nat, k \in Nat : /\ N = Cardinality(Slots) /\ k = wnd /\ k > N
    <2>1. ~(wnd <= ProgsNr) /\ ProgsNr \in Nat /\ wnd \in Nat /\ Cardinality(Slots) \in Nat
      BY EverybodyThere DEF GangTick, Monitoring
    <2>2. wnd # 0
      BY <2>1
    <2>3. begun /\ wnd <= Cardinality(Slots) => FALSE
      BY <2>1, EverybodyThere DEF Phases
    <2> QED
      BY <2>1, <2>2, <2>3 DEF Phases
  <1>2. \A p \in Slots : FullRate(p)
    BY <1>1 DEF Phases
  <1>3. PICK got \in Retired : Account(got)
    BY DEF GangTick
  <1>4. ~Divides(got)
    <2> DEFINE list == Frozen(Killed(got))
               who == IF policy = "perf" \/ sch = <<>> THEN {} ELSE ToSet(list)
               ideal1 == [p \in Slots |-> IF p \in who THEN ideal[p] + Ideal(p) ELSE ideal[p]]
    <2>1. ToSet(list) \subseteq Slots
      <3>1. Killed(got) \in SUBSET Slots
        <4>1. sch \in Seq(Slots)
          BY DEF Books
        <4> QED
          BY <4>1, Entries DEF Killed, Running
      <3>2. Listed(list)
        BY <3>1, FrozenIs
      <3> QED
        BY <3>2, Entries DEF Listed
    <2>2. \A p \in who : p \in Slots
      BY <2>1
    <2>3. \A p \in who : ideal1[p] # 0
      <3> HIDE DEF who, list
      <3> QED
        BY <1>2, <2>2, IdealPositive
    <2>4. Divides(got) <=> \E p \in who : ideal1[p] = 0
      BY DEF Divides, Progress
    <2> QED
      BY <2>3, <2>4
  <1>5. Ticked /\ ipc' = ipc
    BY <1>3, <1>4, AccountIs
  <1>6. PICK dead \in SUBSET Slots, r \in [Slots -> Nat] : Ticks(dead, r)
    BY <1>5 DEF Ticked
  <1>7. PICK n \in Nat : /\ n = Len(Frozen(dead)) /\ n <= N /\ Listed(Frozen(dead))
                         /\ \/ Monitoring(SkipWnd(k, n), n)
                            \/ ChoseFrom(Frozen(dead), r, Waited(Frozen(dead)), 0)
    <2>1. 0 \in Int
      OBVIOUS
    <2>2. Listed(Frozen(dead))
      BY FrozenIs
    <2> QED
      BY <1>1, <1>6, <2>1, <2>2, TickSplits, ListedLen
  <1>8. k > n /\ SkipWnd(k, n) \in {k, k + 1} /\ ~Monitoring(SkipWnd(k, n), n)
    <2>1. k > n
      BY <1>1, <1>7
    <2> QED
      BY <2>1, SkipIs
  <1>9. wnd' = SkipWnd(k, n) /\ fault' # "divide"
    BY <1>1, <1>7, <1>8 DEF ChoseFrom
  <1>10. wnd' > N /\ ~(wnd' <= N)
    BY <1>1, <1>8, <1>9
  <1>11. begun' /\ policy' = policy
    BY <1>6 DEF Ticks
  <1>12. \A p \in Slots : FullRate(p)'
    BY <1>2, <1>5, <1>11 DEF FullRate, FullSpeed, Alone
  <1> QED
    BY <1>1, <1>9, <1>10, <1>11, <1>12 DEF Phases

LEMMA ArrivePhases ==
    ASSUME Books, Phases, policy \notin Late, NEW p \in Slots, Arrive(p)
    PROVE  Phases'
  <1>1. /\ p \in out /\ UNCHANGED <<policy, sch, done, wnd, begun, ipc, fault>>
    BY DEF Arrive, config
  <1>2. \A q \in Slots : FullRate(q)' <=> FullRate(q)
    BY <1>1 DEF FullRate, FullSpeed, Alone
  <1>3. ~(begun /\ wnd <= Cardinality(Slots))
    BY <1>1 DEF Phases
  <1> QED
    BY <1>1, <1>2, <1>3 DEF Phases

LEMMA ExitPhases ==
    ASSUME Books, Phases, Measurable, policy \notin Late, NEW p \in Slots, Exit(p)
    PROVE  Phases'
  <1>1. p \in Running /\ policy \in Policies /\ sch \in Seq(Slots)
    BY DEF Books, Exit
  <1>2. begun
    <2>1. sch # <<>>
      BY <1>1, Entries DEF Running
    <2> QED
      BY <2>1 DEF Phases
  <1>3. wnd > Cardinality(Slots) /\ ~(wnd <= Cardinality(Slots))
    <2>1. ~Monitoring(wnd, ProgsNr)
      BY <1>1 DEF Exit, Measurable
    <2>2. wnd \in Nat /\ ProgsNr \in Nat /\ Cardinality(Slots) \in Nat /\ ~(wnd <= ProgsNr)
      BY <2>1, EverybodyThere DEF Monitoring
    <2>3. ~(wnd <= Cardinality(Slots))
      BY <1>2, <2>2, EverybodyThere DEF Phases
    <2> QED
      BY <2>2, <2>3
  <1>4. \A q \in Slots : FullRate(q)
    BY <1>3 DEF Phases
  <1>5. ideal[p] + Ideal(p) # 0
    BY <1>4, IdealPositive
  <1>6. UNCHANGED <<policy, wnd, begun, ipc, fault>>
    BY <1>5 DEF Exit, config
  <1>7. \A q \in Slots : FullRate(q)'
    BY <1>4, <1>6 DEF FullRate, FullSpeed, Alone
  <1> QED
    BY <1>2, <1>3, <1>6, <1>7 DEF Phases

\* AloneMeasured: what collect writes is what the program does alone, and every
\* program is measured before update_progress divides by it, when they are all
\* there at the first tick, none ends while it is measured and none is too slow
\* to measure.
THEOREM MeasuredAlone == ASSUME Measurable PROVE Spec => []AloneMeasured
  <1> DEFINE Inv == Books /\ (policy \notin Late => Phases)
  <1>1. Init => Inv
    <2>1. SUFFICES ASSUME Init PROVE Phases
      BY InitBooks
    <2>2. wnd = 0 /\ sch = <<>> /\ done = {} /\ begun = FALSE /\ fault = "none" /\ ipc = [p \in Slots |-> 0]
      BY <2>1 DEF Init
    <2>3. Cardinality(Slots) \in Nat
      BY PoliciesAssumption, FS_CardinalityType
    <2> QED
      BY <2>2, <2>3 DEF Phases
  <1>2. Inv /\ [Next]_vars => Inv'
    <2>1. SUFFICES ASSUME Inv, [Next]_vars, policy' \notin Late PROVE Phases'
      BY NextBooks
    <2>2. policy' = policy
      BY <2>1 DEF Next, Tick, MonitorTick, GangTick, Account, Arrive, Exit, Finished, Fail, vars, config
    <2>3. Books /\ Phases /\ policy \notin Late
      BY <2>1, <2>2
    <2>4. CASE MonitorTick
      BY <2>3, <2>4, MonitorTickPhases
    <2>5. CASE GangTick
      BY <2>3, <2>5, GangTickPhases
    <2>6. ASSUME NEW p \in Slots, Arrive(p) PROVE Phases'
      BY <2>3, <2>6, ArrivePhases
    <2>7. ASSUME NEW p \in Slots, Exit(p) PROVE Phases'
      BY <2>3, <2>7, ExitPhases
    <2>8. CASE UNCHANGED vars
      BY <2>3, <2>8 DEF vars, config, progress, Phases, FullRate, FullSpeed, Alone
    <2> QED
      BY <2>1, <2>4, <2>5, <2>6, <2>7, <2>8 DEF Next, Tick, Finished
  <1>3. Inv => AloneMeasured
    BY DEF AloneMeasured, DivisionDefined, Phases, FullRate
  <1> HIDE DEF Inv
  <1> QED
    BY <1>1, <1>2, <1>3, PTL DEF Spec

=============================================================================
