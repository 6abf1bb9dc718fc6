-------------------------- MODULE EventHeap_proofs --------------------------
(***************************************************************************)
(* Proofs about EventHeap.  The first part proves heap.c for heaps of any  *)
(* size: siftdown and the loop of __heap_pop, each with its loop           *)
(* invariant, by lemmas on induction and on loops.  The second part proves *)
(* that the loop of main keeps the heap in order while the times in it     *)
(* change, and handles the events as EventQueue demands.                   *)
(***************************************************************************)
EXTENDS EventHeap, SequenceTheorems, FiniteSetTheorems, WellFoundedInduction, TLAPS

-----------------------------------------------------------------------------
(* Induction over the natural numbers, stated for a set of them.            *)

\* A set of natural numbers that is not empty has a least element.
LEMMA LeastNat ==
    ASSUME NEW T \in SUBSET Nat, T # {}
    PROVE  \E n \in T : \A m \in T : n <= m
  <1>1. PICK n \in T : \A m \in T : ~ (<<m, n>> \in OpToRel(<, Nat))
    BY NatLessThanWellFounded, WFMin
  <1>2. ASSUME NEW m \in T PROVE n <= m
    <2>1. m \in Nat /\ n \in Nat /\ ~(m < n)
      BY <1>1 DEF OpToRel
    <2> QED
      BY <2>1
  <1> QED
    BY <1>2

\* A set of numbers that has 0, and with a number the next, has them all.
LEMMA Induct ==
    ASSUME NEW Q, 0 \in Q, \A n \in Nat : n \in Q => n + 1 \in Q
    PROVE  \A n \in Nat : n \in Q
  <1> SUFFICES ASSUME Nat \ Q # {} PROVE FALSE
    OBVIOUS
  <1>1. PICK n \in Nat \ Q : \A m \in Nat \ Q : n <= m
    BY LeastNat
  <1>2. n # 0 /\ n - 1 \in Nat
    BY <1>1
  <1>3. n - 1 \in Q
    BY <1>1, <1>2
  <1>4. (n - 1) + 1 = n
    BY <1>1
  <1> QED
    BY <1>1, <1>2, <1>3, <1>4


-----------------------------------------------------------------------------
(* Loops, written as recursive functions.                                   *)

\* f is what a loop gives that goes on from s to onward[s] until it is in Stop,
\* where the result is.
LoopIs(f, S, Stop, result, onward) ==
    \A s \in S : f[s] = IF s \in Stop THEN result[s] ELSE f[onward[s]]

\* In each turn a number decreases.
Ends(S, Stop, onward, size) ==
    /\ size \in [S -> Nat]
    /\ \A s \in S \ Stop : onward[s] \in S /\ size[onward[s]] < size[s]

\* A loop that ends defines a function.
LEMMA LoopExists ==
    ASSUME NEW S, NEW Stop, NEW result, NEW onward, NEW size, Ends(S, Stop, onward, size)
    PROVE  \E f : f = [s \in S |-> f[s]] /\ LoopIs(f, S, Stop, result, onward)
  <1> DEFINE Value(f, s) == IF s \in Stop THEN result[s] ELSE f[onward[s]]
             Right(f, n) == \A s \in S : size[s] <= n => f[s] = Value(f, s)
             Q == {n \in Nat : \E f : Right(f, n)}
  <1>1. \A s \in S : size[s] \in Nat
    BY DEF Ends
  <1>2. \A s \in S \ Stop : onward[s] \in S /\ size[onward[s]] \in Nat /\ size[onward[s]] < size[s]
    BY DEF Ends
  <1>3. 0 \in Q
    <2> DEFINE f == [s \in S |-> result[s]]
    <2>1. ASSUME NEW s \in S, size[s] <= 0 PROVE f[s] = Value(f, s)
      <3>1. s \in Stop
        BY <1>1, <1>2, <2>1
      <3> QED
        BY <3>1
    <2>2. Right(f, 0)
      BY <2>1
    <2> QED
      BY <2>2
  <1>4. ASSUME NEW n \in Nat, n \in Q PROVE n + 1 \in Q
    <2>1. PICK f : Right(f, n)
      BY <1>4
    <2> DEFINE h == [s \in S |-> IF size[s] <= n THEN f[s] ELSE Value(f, s)]
    <2>2. ASSUME NEW s \in S, size[s] <= n + 1 PROVE h[s] = Value(h, s)
      <3>1. h[s] = Value(f, s)
        BY <2>1
      <3>2. CASE s \in Stop
        BY <3>1, <3>2
      <3>3. CASE s \notin Stop
        <4>1. onward[s] \in S /\ size[onward[s]] <= n
          BY <1>1, <1>2, <2>2, <3>3
        <4>2. h[onward[s]] = f[onward[s]]
          BY <4>1
        <4> HIDE DEF h
        <4> QED
          BY <3>1, <3>3, <4>2
      <3> QED
        BY <3>2, <3>3
    <2> HIDE DEF h
    <2>3. Right(h, n + 1)
      BY <2>2
    <2> QED
      BY <2>3
  <1>5. \A n \in Nat : \E f : Right(f, n)
    <2>1. \A n \in Nat : n \in Q
      <3> HIDE DEF Q
      <3> QED
        BY <1>3, <1>4, Induct
    <2> QED
      BY <2>1
  <1> DEFINE right == [n \in Nat |-> CHOOSE f : Right(f, n)]
             h == [s \in S |-> right[size[s]][s]]
  <1>6. \A n \in Nat : Right(right[n], n)
    BY <1>5
  \* Two right functions agree as far as they are right.
  <1>7. ASSUME NEW f, NEW g, NEW n \in Nat, Right(f, n), Right(g, n)
        PROVE  \A s \in S : size[s] <= n => f[s] = g[s]
    <2> DEFINE Bad == {size[s] : s \in {t \in S : size[t] <= n /\ f[t] # g[t]}}
    <2>1. SUFFICES ASSUME Bad # {} PROVE FALSE
      OBVIOUS
    <2>2. PICK k \in Bad : \A j \in Bad : k <= j
      <3>1. Bad \in SUBSET Nat
        BY <1>1
      <3> HIDE DEF Bad
      <3> QED
        BY <2>1, <3>1, LeastNat
    <2>3. PICK s \in S : size[s] = k /\ size[s] <= n /\ f[s] # g[s]
      OBVIOUS
    <2>4. s \notin Stop /\ f[onward[s]] # g[onward[s]]
      BY <1>7, <2>3
    <2>5. onward[s] \in S /\ size[onward[s]] < size[s] /\ size[onward[s]] \in Nat /\ size[s] \in Nat
      BY <1>1, <1>2, <2>4
    <2>6. size[onward[s]] <= n
      BY <2>3, <2>5
    <2>7. size[onward[s]] \in Bad
      BY <2>4, <2>5, <2>6
    <2> QED
      BY <2>2, <2>3, <2>5, <2>7
  <1>8. ASSUME NEW s \in S PROVE h[s] = Value(h, s)
    <2>1. h[s] = right[size[s]][s]
      OBVIOUS
    <2>2. right[size[s]][s] = Value(right[size[s]], s)
      BY <1>1, <1>6
    <2>3. CASE s \in Stop
      BY <2>1, <2>2, <2>3
    <2>4. CASE s \notin Stop
      <3>1. /\ onward[s] \in S /\ size[onward[s]] < size[s]
            /\ size[onward[s]] \in Nat /\ size[s] \in Nat
        BY <1>1, <1>2, <2>4
      <3>2. h[onward[s]] = right[size[onward[s]]][onward[s]]
        BY <3>1
      <3>3. PICK f : f = right[size[s]]
        OBVIOUS
      <3>4. PICK g : g = right[size[onward[s]]]
        OBVIOUS
      <3>5. Right(f, size[s]) /\ Right(g, size[onward[s]])
        BY <1>6, <3>1, <3>3, <3>4
      <3>6. Right(f, size[onward[s]])
        BY <1>1, <3>1, <3>5
      <3>7. f[onward[s]] = g[onward[s]]
        <4> HIDE DEF Right
        <4> QED
          BY <1>7, <3>1, <3>5, <3>6
      <3> HIDE DEF h, right
      <3> QED
        BY <2>1, <2>2, <2>4, <3>2, <3>3, <3>4, <3>7
    <2> QED
      BY <2>3, <2>4
  <1>9. h = [s \in S |-> h[s]]
    OBVIOUS
  <1> HIDE DEF h
  <1> QED
    BY <1>8, <1>9 DEF LoopIs

Keeps(Inv, Stop, onward) == \A s \in Inv \ Stop : onward[s] \in Inv

Reaches(f, Inv, Stop, result) ==
    \A s \in Inv : \E t \in Inv \cap Stop : f[s] = result[t]

\* What every turn of a loop keeps holds where it stops.
LEMMA LoopKeeps ==
    ASSUME NEW S, NEW Stop, NEW result, NEW onward, NEW size, Ends(S, Stop, onward, size),
           NEW f, LoopIs(f, S, Stop, result, onward),
           NEW Inv \in SUBSET S, Keeps(Inv, Stop, onward)
    PROVE  Reaches(f, Inv, Stop, result)
  <1> SUFFICES ASSUME NEW s \in Inv PROVE \E t \in Inv \cap Stop : f[s] = result[t]
    BY DEF Reaches
  <1> DEFINE T == {t \in Inv : f[t] = f[s]}
             N == {size[t] : t \in T}
  <1>1. \A t \in S : size[t] \in Nat
    BY DEF Ends
  <1>2. N \in SUBSET Nat /\ N # {}
    BY <1>1
  <1>3. PICK n \in N : \A m \in N : n <= m
    <2> HIDE DEF N
    <2> QED
      BY <1>2, LeastNat
  <1>4. PICK t \in T : size[t] = n
    OBVIOUS
  <1>5. t \in Stop
    <2>1. ASSUME t \notin Stop PROVE FALSE
      <3>1. onward[t] \in Inv /\ f[onward[t]] = f[t] /\ size[onward[t]] < size[t]
        BY <1>4, <2>1 DEF LoopIs, Ends, Keeps
      <3>2. onward[t] \in T /\ size[onward[t]] \in N /\ size[onward[t]] \in Nat /\ size[t] \in Nat
        BY <1>1, <1>4, <3>1
      <3> QED
        BY <1>3, <1>4, <3>1, <3>2
    <2> QED
      BY <2>1
  <1> QED
    BY <1>4, <1>5 DEF LoopIs


\* The parent of a position, and that it has two children.
LEMMA Half ==
    ASSUME NEW i \in Nat, i >= 2
    PROVE  /\ i \div 2 \in Nat /\ 1 <= i \div 2 /\ i \div 2 < i
           /\ i = 2 * (i \div 2) \/ i = 2 * (i \div 2) + 1
  OBVIOUS

LEMMA ParentOfChild ==
    ASSUME NEW p \in Nat, p >= 1
    PROVE  (2 * p) \div 2 = p /\ (2 * p + 1) \div 2 = p
  OBVIOUS

-----------------------------------------------------------------------------
(* Heaps.                                                                   *)

\* The first n positions of h hold different elements.
Distinct(h, n) == \A i, j \in 1 .. n : h[i] = h[j] => i = j

Elements(h, n) == {h[i] : i \in 1 .. n}

\* Those positions are in order, or they are but for the element at p, or but
\* for whatever is put at p.
Ordered(key, h, n) == \A i \in 2 .. n : key[h[i \div 2]] <= key[h[i]]

\* Whatever is at p, its parent comes before its children.
Around(key, h, n, p) ==
    p >= 2 => \A i \in 2 .. n : i \div 2 = p => key[h[p \div 2]] <= key[h[i]]

OrderedButUp(key, h, n, p) ==
    Around(key, h, n, p) /\ \A i \in 2 .. n : i # p => key[h[i \div 2]] <= key[h[i]]

OrderedButAt(key, h, n, p) ==
    /\ Around(key, h, n, p)
    /\ \A i \in 2 .. n : i # p /\ i \div 2 # p => key[h[i \div 2]] <= key[h[i]]

-----------------------------------------------------------------------------
(* siftdown.                                                                *)

Put(h, p, e) == [h EXCEPT ![p] = e]
Filled(at, e) == [at.heap EXCEPT ![at.pos] = e]

SiftStops(key, h, e) ==
    {at \in Places(h) : at.pos = 1 \/ Leq(key, at.heap[at.pos \div 2], e)}
SiftResult(h, e) == [at \in Places(h) |-> Filled(at, e)]
SiftOn(h) == [at \in Places(h) |-> Move(at, at.pos \div 2)]
Position(h) == [at \in Places(h) |-> at.pos]

LEMMA PlaceFacts ==
    ASSUME NEW N \in Nat, NEW h \in [1 .. N -> Events], NEW at \in Places(h)
    PROVE  at.heap \in [1 .. N -> Events] /\ at.pos \in 1 .. N
  BY DEF Places

LEMMA MovePlace ==
    ASSUME NEW N \in Nat, NEW h \in [1 .. N -> Events], NEW at \in Places(h), NEW q \in 1 .. N
    PROVE  Move(at, q) \in Places(h)
  <1>1. at.heap \in [1 .. N -> Events] /\ at.pos \in 1 .. N
    BY PlaceFacts
  <1>2. [at.heap EXCEPT ![at.pos] = at.heap[q]] \in [1 .. N -> Events]
    BY <1>1
  <1> QED
    BY <1>2 DEF Move, Places

LEMMA SiftEnds ==
    ASSUME NEW key, NEW N \in Nat, NEW h \in [1 .. N -> Events], NEW e
    PROVE  Ends(Places(h), SiftStops(key, h, e), SiftOn(h), Position(h))
  <1>1. Position(h) \in [Places(h) -> Nat]
    BY PlaceFacts DEF Position
  <1>2. ASSUME NEW at \in Places(h) \ SiftStops(key, h, e)
        PROVE  SiftOn(h)[at] \in Places(h) /\ Position(h)[SiftOn(h)[at]] < Position(h)[at]
    <2>1. at.pos \in 1 .. N /\ at.pos # 1
      BY PlaceFacts DEF SiftStops
    <2>2. at.pos \div 2 \in 1 .. N /\ at.pos \div 2 < at.pos
      BY <2>1, Half
    <2>3. Move(at, at.pos \div 2) \in Places(h) /\ Move(at, at.pos \div 2).pos = at.pos \div 2
      BY <2>2, MovePlace DEF Move
    <2> QED
      BY <2>2, <2>3 DEF SiftOn, Position
  <1> QED
    BY <1>1, <1>2 DEF Ends

\* SiftDown is what the loop gives.
LEMMA SiftLoop ==
    ASSUME NEW key, NEW N \in Nat, NEW h \in [1 .. N -> Events], NEW p \in 1 .. N, NEW e
    PROVE  \E f : /\ SiftDown(key, h, p, e) = f[[heap |-> h, pos |-> p]]
                  /\ LoopIs(f, Places(h), SiftStops(key, h, e), SiftResult(h, e), SiftOn(h))
  <1> DEFINE Value(f, at) == IF at.pos = 1 \/ Leq(key, at.heap[at.pos \div 2], e)
                             THEN [at.heap EXCEPT ![at.pos] = e]
                             ELSE f[Move(at, at.pos \div 2)]
             Is(f) == f = [at \in Places(h) |-> Value(f, at)]
  <1>1. PICK f : f = [at \in Places(h) |-> f[at]]
                 /\ LoopIs(f, Places(h), SiftStops(key, h, e), SiftResult(h, e), SiftOn(h))
    BY SiftEnds, LoopExists
  <1>2. \A at \in Places(h) : f[at] = Value(f, at)
    BY <1>1 DEF LoopIs, SiftStops, SiftResult, SiftOn, Filled
  <1>3. Is(f)
    BY <1>1, <1>2
  <1>4. SiftDown(key, h, p, e) = (CHOOSE g : Is(g))[[heap |-> h, pos |-> p]]
    BY DEF SiftDown
  <1>5. PICK g : g = (CHOOSE k : Is(k)) /\ Is(g)
    BY <1>3
  <1>6. \A at \in Places(h) : g[at] = Value(g, at)
    BY <1>5
  <1>7. LoopIs(g, Places(h), SiftStops(key, h, e), SiftResult(h, e), SiftOn(h))
    BY <1>6 DEF LoopIs, SiftStops, SiftResult, SiftOn, Filled
  <1> QED
    BY <1>4, <1>5, <1>7

\* Two elements change places.
Swapped(h, i, j) == [h EXCEPT ![i] = h[j], ![j] = h[i]]

LEMMA SwapFacts ==
    ASSUME NEW N \in Nat, NEW h \in [1 .. N -> Events], NEW i \in 1 .. N, NEW j \in 1 .. N, i # j
    PROVE  /\ Swapped(h, i, j) \in [1 .. N -> Events]
           /\ Swapped(h, i, j)[i] = h[j] /\ Swapped(h, i, j)[j] = h[i]
           /\ \A k \in 1 .. N : k # i /\ k # j => Swapped(h, i, j)[k] = h[k]
  BY DEF Swapped

LEMMA SwapKeeps ==
    ASSUME NEW N \in Nat, NEW h \in [1 .. N -> Events], NEW n \in 0 .. N,
           NEW i \in 1 .. n, NEW j \in 1 .. n, i # j, Distinct(h, n)
    PROVE  /\ Distinct(Swapped(h, i, j), n)
           /\ Elements(Swapped(h, i, j), n) = Elements(h, n)
  <1>1. i \in 1 .. N /\ j \in 1 .. N /\ \A k \in 1 .. n : k \in 1 .. N
    OBVIOUS
  <1>2. PICK g : g = Swapped(h, i, j)
    OBVIOUS
  <1>3. g[i] = h[j] /\ g[j] = h[i] /\ \A k \in 1 .. n : k # i /\ k # j => g[k] = h[k]
    BY <1>1, <1>2, SwapFacts
  <1>4. Distinct(g, n)
    BY <1>3 DEF Distinct
  <1>5. Elements(g, n) \subseteq Elements(h, n)
    <2>1. ASSUME NEW k \in 1 .. n PROVE \E m \in 1 .. n : g[k] = h[m]
      <3>1. CASE k = i
        BY <1>3, <3>1
      <3>2. CASE k = j
        BY <1>3, <3>2
      <3>3. CASE k # i /\ k # j
        BY <1>3, <3>3
      <3> QED
        BY <3>1, <3>2, <3>3
    <2>2. ASSUME NEW x \in Elements(g, n) PROVE x \in Elements(h, n)
      <3>1. PICK k \in 1 .. n : x = g[k]
        BY DEF Elements
      <3>2. PICK m \in 1 .. n : x = h[m]
        BY <2>1, <3>1
      <3> QED
        BY <3>2 DEF Elements
    <2> QED
      BY <2>2
  <1>6. Elements(h, n) \subseteq Elements(g, n)
    <2>1. ASSUME NEW k \in 1 .. n PROVE \E m \in 1 .. n : h[k] = g[m]
      <3>1. CASE k = i
        BY <1>3, <3>1
      <3>2. CASE k = j
        BY <1>3, <3>2
      <3>3. CASE k # i /\ k # j
        BY <1>3, <3>3
      <3> QED
        BY <3>1, <3>2, <3>3
    <2>2. ASSUME NEW x \in Elements(h, n) PROVE x \in Elements(g, n)
      <3>1. PICK k \in 1 .. n : x = h[k]
        BY DEF Elements
      <3>2. PICK m \in 1 .. n : x = g[m]
        BY <2>1, <3>1
      <3> QED
        BY <3>2 DEF Elements
    <2> QED
      BY <2>2
  <1> QED
    BY <1>2, <1>4, <1>5, <1>6

\* The turn of a loop swaps e with the element of the other position.
LEMMA FilledMove ==
    ASSUME NEW N \in Nat, NEW h \in [1 .. N -> Events], NEW at \in Places(h),
           NEW q \in 1 .. N, q # at.pos, NEW e \in Events
    PROVE  /\ Filled(at, e) \in [1 .. N -> Events] /\ Filled(at, e)[at.pos] = e
           /\ \A k \in 1 .. N : k # at.pos => Filled(at, e)[k] = at.heap[k]
           /\ Filled(Move(at, q), e) = Swapped(Filled(at, e), at.pos, q)
  <1>1. at.heap \in [1 .. N -> Events] /\ at.pos \in 1 .. N
    BY PlaceFacts
  <1>2. PICK g \in [1 .. N -> Events], p \in 1 .. N : g = at.heap /\ p = at.pos /\ p # q
    BY <1>1
  <1>3. Filled(at, e) = [g EXCEPT ![p] = e]
    BY <1>2 DEF Filled
  <1>4. Filled(Move(at, q), e) = [[g EXCEPT ![p] = g[q]] EXCEPT ![q] = e]
    BY <1>2 DEF Filled, Move
  <1>5. PICK k \in [1 .. N -> Events] : k = [g EXCEPT ![p] = e]
    BY <1>2
  <1>6. /\ k[p] = e /\ k[q] = g[q]
        /\ \A j \in 1 .. N : j # p => k[j] = g[j]
    BY <1>2, <1>5
  <1>7. Swapped(k, p, q) \in [1 .. N -> Events] /\ Swapped(k, p, q)[p] = g[q]
        /\ Swapped(k, p, q)[q] = e
        /\ \A j \in 1 .. N : j # p /\ j # q => Swapped(k, p, q)[j] = g[j]
    BY <1>2, <1>6 DEF Swapped
  <1>8. PICK m \in [1 .. N -> Events] : m = [[g EXCEPT ![p] = g[q]] EXCEPT ![q] = e]
    BY <1>2
  <1>9. /\ m[p] = g[q] /\ m[q] = e
        /\ \A j \in 1 .. N : j # p /\ j # q => m[j] = g[j]
    BY <1>2, <1>8
  <1>10. PICK w \in [1 .. N -> Events] : w = Swapped(k, p, q)
    BY <1>7
  <1>11. \A j \in 1 .. N : m[j] = w[j]
    BY <1>7, <1>9, <1>10
  <1>12. m = w
    BY <1>11
  <1> QED
    BY <1>2, <1>3, <1>4, <1>5, <1>6, <1>8, <1>10, <1>12

\* A parent that comes after the element moves down.
LEMMA SiftStep ==
    ASSUME NEW key \in [Events -> Int], NEW N \in Nat, NEW h \in [1 .. N -> Events],
           NEW n \in 0 .. N, NEW p \in 2 .. n, OrderedButUp(key, h, n, p),
           NEW q \in Nat, q = p \div 2, ~(key[h[q]] <= key[h[p]])
    PROVE  OrderedButUp(key, Swapped(h, p, q), n, q)
  <1>1. q \in 1 .. n /\ q < p /\ p \in 1 .. N /\ q \in 1 .. N
    BY Half
  <1>2. PICK g : g = Swapped(h, p, q)
    OBVIOUS
  <1>3. /\ g[p] = h[q] /\ g[q] = h[p]
        /\ \A k \in 1 .. N : k # p /\ k # q => g[k] = h[k]
    BY <1>1, <1>2 DEF Swapped
  <1>4. \A k \in 1 .. N : key[h[k]] \in Int
    OBVIOUS
  <1>5. \A i \in 2 .. n : i # p => key[h[i \div 2]] <= key[h[i]]
    BY DEF OrderedButUp
  <1>6. ASSUME NEW i \in 2 .. n, i # q PROVE key[g[i \div 2]] <= key[g[i]]
    <2>1. PICK u \in 1 .. N : u = i \div 2 /\ u < i
      BY Half
    <2>2. i \in 1 .. N
      OBVIOUS
    <2>3. CASE i = p
      BY <1>1, <1>3, <1>4, <2>1, <2>3
    <2>4. CASE i # p /\ u = p
      <3>1. key[h[q]] <= key[h[i]]
        BY <2>1, <2>4 DEF OrderedButUp, Around
      <3>2. g[u] = h[q] /\ g[i] = h[i]
        BY <1>3, <1>6, <2>2, <2>4
      <3> QED
        BY <2>1, <3>1, <3>2
    <2>5. CASE i # p /\ u = q
      <3>1. key[h[q]] <= key[h[i]]
        BY <1>5, <2>1, <2>5
      <3>2. g[u] = h[p] /\ g[i] = h[i]
        BY <1>3, <1>6, <2>2, <2>5
      <3>3. PICK a, b, c \in Int : a = key[h[p]] /\ b = key[h[q]] /\ c = key[h[i]]
        BY <1>1, <1>4, <2>2
      <3>4. a < b /\ b <= c
        BY <3>1, <3>3
      <3>5. a <= c
        BY <3>4
      <3> QED
        BY <2>1, <3>2, <3>3, <3>5
    <2>6. CASE i # p /\ u # p /\ u # q
      <3>1. key[h[u]] <= key[h[i]]
        BY <1>5, <2>1, <2>6
      <3>2. g[u] = h[u] /\ g[i] = h[i]
        BY <1>3, <1>6, <2>1, <2>2, <2>6
      <3> QED
        BY <2>1, <3>1, <3>2
    <2> QED
      BY <2>3, <2>4, <2>5, <2>6
  <1>7. ASSUME q >= 2, NEW i \in 2 .. n, i \div 2 = q PROVE key[g[q \div 2]] <= key[g[i]]
    <2>1. PICK v \in 1 .. N : v = q \div 2 /\ v < q
      BY <1>1, <1>7, Half
    <2>2. key[h[v]] <= key[h[q]]
      BY <1>1, <1>5, <1>7, <2>1
    <2>3. g[v] = h[v]
      BY <1>1, <1>3, <2>1
    <2>4. q < i /\ i \in 1 .. N
      BY <1>7, Half
    <2>5. CASE i = p
      BY <1>3, <2>1, <2>2, <2>3, <2>5
    <2>6. CASE i # p
      <3>1. key[h[q]] <= key[h[i]]
        BY <1>5, <1>7, <2>6
      <3>2. g[i] = h[i]
        BY <1>3, <2>4, <2>6
      <3> QED
        BY <1>1, <1>4, <2>1, <2>2, <2>3, <2>4, <3>1, <3>2
    <2> QED
      BY <2>5, <2>6
  <1> QED
    BY <1>2, <1>6, <1>7 DEF OrderedButUp, Around

Sifted(key, r, h, N, n) ==
    /\ r \in [1 .. N -> Events] /\ Distinct(r, n) /\ Elements(r, n) = Elements(h, n)
    /\ Ordered(key, r, n)

\* What e makes of a heap of n elements that is in order but for e at p.
\* siftdown puts it in order.
LEMMA SiftGives ==
    ASSUME NEW key \in [Events -> Int], NEW N \in Nat, NEW h \in [1 .. N -> Events],
           NEW n \in 0 .. N, NEW p \in 1 .. n, NEW e \in Events,
           NEW F, F = Put(h, p, e), Distinct(F, n), OrderedButUp(key, F, n, p)
    PROVE  Sifted(key, SiftDown(key, h, p, e), F, N, n)
  <1>s. \A g \in [1 .. N -> Events], i, j \in 1 .. n : i # j /\ Distinct(g, n) =>
          Distinct(Swapped(g, i, j), n) /\ Elements(Swapped(g, i, j), n) = Elements(g, n)
    BY SwapKeeps
  <1>m. \A at \in Places(h), q \in 1 .. N : q # at.pos =>
          /\ Filled(at, e) \in [1 .. N -> Events] /\ Filled(at, e)[at.pos] = e
          /\ \A k \in 1 .. N : k # at.pos => Filled(at, e)[k] = at.heap[k]
          /\ Filled(Move(at, q), e) = Swapped(Filled(at, e), at.pos, q)
    BY FilledMove
  <1> DEFINE S    == Places(h)
             Stop == SiftStops(key, h, e)
             Inv  == {at \in S : /\ at.pos \in 1 .. n /\ Distinct(Filled(at, e), n)
                                 /\ Elements(Filled(at, e), n) = Elements(F, n)
                                 /\ OrderedButUp(key, Filled(at, e), n, at.pos)}
             start == [heap |-> h, pos |-> p]
  <1>1. p \in 1 .. N
    OBVIOUS
  <1>2. PICK f : /\ SiftDown(key, h, p, e) = f[start]
                 /\ LoopIs(f, S, Stop, SiftResult(h, e), SiftOn(h))
    BY <1>1, SiftLoop
  <1>3. start \in Inv
    <2>1. start \in S /\ Filled(start, e) = F
      BY <1>1 DEF Places, Filled, Put
    <2> QED
      BY <2>1
  <1>4. ASSUME NEW at \in Inv, at \notin Stop PROVE SiftOn(h)[at] \in Inv
    <2>1. PICK i \in 1 .. n, q \in Nat : i = at.pos /\ q = i \div 2
      <3>1. at.pos \in 1 .. n
        OBVIOUS
      <3>2. at.pos \div 2 \in Nat
        BY <3>1
      <3> QED
        BY <3>1, <3>2
    <2>2. i \in 2 .. n /\ ~(key[at.heap[q]] <= key[e]) /\ at \in S
      <3>1. at \in S
        OBVIOUS
      <3>2. ~(at.pos = 1 \/ Leq(key, at.heap[at.pos \div 2], e))
        BY <1>4, <3>1 DEF SiftStops
      <3> HIDE DEF Inv, S, Stop
      <3>3. ~(i = 1 \/ Leq(key, at.heap[q], e))
        BY <2>1, <3>2
      <3>4. ~(key[at.heap[q]] <= key[e])
        BY <3>3 DEF Leq
      <3>5. i \in 2 .. n
        BY <3>3
      <3> QED
        BY <3>1, <3>4, <3>5
    <2>3. q \in 1 .. n /\ q < i /\ q \in 1 .. N /\ i \in 1 .. N
      <3>1. i \in 2 .. n /\ q = i \div 2
        BY <2>1, <2>2
      <3> HIDE DEF Inv, S, Stop
      <3>2. 1 <= q /\ q < i
        BY <3>1, Half
      <3> QED
        BY <3>1, <3>2
    <2>4. PICK G \in [1 .. N -> Events] :
            /\ G = Filled(at, e) /\ G[i] = e /\ G[q] = at.heap[q]
            /\ Filled(Move(at, q), e) = Swapped(G, i, q)
      <3>1. PICK x \in Places(h) : x = at /\ x.pos = i /\ q # i
        BY <2>1, <2>2, <2>3
      <3>2. /\ Filled(x, e) \in [1 .. N -> Events] /\ Filled(x, e)[i] = e
            /\ Filled(x, e)[q] = x.heap[q]
            /\ Filled(Move(x, q), e) = Swapped(Filled(x, e), i, q)
        BY <1>m, <2>3, <3>1
      <3> QED
        BY <3>1, <3>2
    <2>5. Distinct(G, n) /\ Elements(G, n) = Elements(F, n) /\ OrderedButUp(key, G, n, i)
      BY <2>1, <2>4
    <2>6. Distinct(Swapped(G, i, q), n) /\ Elements(Swapped(G, i, q), n) = Elements(F, n)
      <3>1. i \in 1 .. n /\ q \in 1 .. n /\ i # q
        BY <2>3
      <3> HIDE DEF Inv, S, Stop
      <3> QED
        BY <1>s, <2>4, <2>5, <3>1
    <2>7. OrderedButUp(key, Swapped(G, i, q), n, q)
      BY <2>1, <2>2, <2>4, <2>5, SiftStep
    <2>8. Move(at, q) \in S /\ Move(at, q).pos = q /\ SiftOn(h)[at] = Move(at, q)
      BY <2>1, <2>2, <2>3, MovePlace DEF Move, SiftOn
    <2> QED
      BY <2>3, <2>4, <2>6, <2>7, <2>8
  <1>5. PICK t \in Inv \cap Stop : f[start] = SiftResult(h, e)[t]
    <2>1. Inv \in SUBSET S /\ Ends(S, Stop, SiftOn(h), Position(h))
      BY SiftEnds
    <2>2. Keeps(Inv, Stop, SiftOn(h))
      BY <1>4 DEF Keeps
    <2> HIDE DEF Inv, S, Stop
    <2>3. Reaches(f, Inv, Stop, SiftResult(h, e))
      BY <1>2, <2>1, <2>2, LoopKeeps
    <2> QED
      BY <1>3, <2>3 DEF Reaches
  <1>6. PICK i \in 1 .. n, G \in [1 .. N -> Events] :
          i = t.pos /\ G = Filled(t, e) /\ G = SiftDown(key, h, p, e) /\ G[i] = e
          /\ \A k \in 1 .. N : k # i => G[k] = t.heap[k]
    <2>1. t \in S /\ t.pos \in 1 .. n /\ t.heap \in [1 .. N -> Events]
      BY PlaceFacts
    <2>2. PICK i \in 1 .. n, g \in [1 .. N -> Events] : i = t.pos /\ g = t.heap
      BY <2>1
    <2>3. Filled(t, e) = [g EXCEPT ![i] = e]
      BY <2>2 DEF Filled
    <2>4. PICK G \in [1 .. N -> Events] : G = [g EXCEPT ![i] = e]
      BY <2>2
    <2>5. G[i] = e /\ \A k \in 1 .. N : k # i => G[k] = g[k]
      BY <2>2, <2>4
    <2>6. SiftDown(key, h, p, e) = Filled(t, e)
      BY <1>2, <1>5, <2>1 DEF SiftResult
    <2>7. /\ i = t.pos /\ G = Filled(t, e) /\ G = SiftDown(key, h, p, e) /\ G[i] = e
          /\ \A k \in 1 .. N : k # i => G[k] = t.heap[k]
      BY <2>2, <2>3, <2>4, <2>5, <2>6
    <2> HIDE DEF Inv, S, Stop
    <2> QED
      BY <2>7
  <1>7. Distinct(G, n) /\ Elements(G, n) = Elements(F, n) /\ OrderedButUp(key, G, n, i)
    BY <1>6
  <1>8. i >= 2 => key[G[i \div 2]] <= key[G[i]]
    <2>1. ASSUME i >= 2 PROVE key[G[i \div 2]] <= key[G[i]]
      <3>1. PICK q \in 1 .. N : q = i \div 2 /\ q # i
        BY <2>1, Half
      <3>2. key[t.heap[q]] <= key[e]
        BY <1>6, <2>1, <3>1 DEF SiftStops, Leq
      <3> QED
        BY <1>6, <3>1, <3>2
    <2> QED
      BY <2>1
  <1>9. Ordered(key, G, n)
    BY <1>7, <1>8 DEF Ordered, OrderedButUp
  <1> QED
    BY <1>6, <1>7, <1>9 DEF Sifted

-----------------------------------------------------------------------------
(* The loop of __heap_pop.                                                  *)

\* c is a child of p, and none comes before it.
LeastChild(key, h, n, p, c) ==
    c \div 2 = p /\ \A i \in 2 .. n : i \div 2 = p => key[h[c]] <= key[h[i]]

LEMMA ChildFacts ==
    ASSUME NEW key \in [Events -> Int], NEW N \in Nat, NEW h \in [1 .. N -> Events],
           NEW n \in 0 .. N, NEW p \in 1 .. n, 2 * p <= n
    PROVE  \E c \in 2 .. n : /\ c = Child(key, h, p, n) /\ p < c
                             /\ LeastChild(key, h, n, p, c)
  <1>1. PICK a \in 2 .. n, b \in Nat : /\ a = 2 * p /\ b = 2 * p + 1 /\ p < a /\ p < b
                                       /\ a \div 2 = p /\ b \div 2 = p
    BY ParentOfChild
  <1>2. ASSUME NEW i \in 2 .. n, i \div 2 = p PROVE i = a \/ i = b
    BY <1>1, <1>2, Half
  <1>3. \A i \in 1 .. n : key[h[i]] \in Int
    OBVIOUS
  <1>4. Child(key, h, p, n) = IF b <= n /\ key[h[b]] <= key[h[a]] THEN b ELSE a
    BY <1>1 DEF Child, Leq
  <1>5. CASE b <= n /\ key[h[b]] <= key[h[a]]
    <2>1. b \in 2 .. n /\ key[h[b]] <= key[h[b]]
      BY <1>1, <1>3, <1>5
    <2>2. LeastChild(key, h, n, p, b)
      BY <1>1, <1>2, <1>5, <2>1 DEF LeastChild
    <2> QED
      BY <1>1, <1>4, <1>5, <2>1, <2>2
  <1>6. CASE ~(b <= n /\ key[h[b]] <= key[h[a]])
    <2>1. ASSUME NEW i \in 2 .. n, i \div 2 = p PROVE key[h[a]] <= key[h[i]]
      <3>1. i \in 1 .. n /\ a \in 1 .. n
        BY <1>1
      <3> QED
        BY <1>2, <1>3, <1>6, <2>1, <3>1
    <2>2. LeastChild(key, h, n, p, a)
      BY <1>1, <2>1 DEF LeastChild
    <2> QED
      BY <1>1, <1>4, <1>6, <2>2
  <1> QED
    BY <1>5, <1>6

SinkStops(h, n) == {at \in Places(h) : 2 * at.pos > n}
Itself(h) == [at \in Places(h) |-> at]
SinkOn(key, h, n) ==
    [at \in Places(h) |-> Move(at, Child(key, at.heap, at.pos, n))]
Below(h, N) == [at \in Places(h) |-> N - at.pos]

GoesOn(key, h, n, at) ==
    \E p \in 1 .. n, c \in 2 .. n :
      /\ p = at.pos /\ p < c /\ LeastChild(key, at.heap, n, p, c)
      /\ SinkOn(key, h, n)[at] = Move(at, c)
      /\ Move(at, c) \in Places(h) /\ Move(at, c).pos = c

\* Where the loop goes on, it goes on to the least child.
LEMMA SinkTurn ==
    ASSUME NEW key \in [Events -> Int], NEW N \in Nat, NEW h \in [1 .. N -> Events],
           NEW n \in 0 .. N, NEW at \in Places(h), at \notin SinkStops(h, n)
    PROVE  GoesOn(key, h, n, at)
  <1>1. at.heap \in [1 .. N -> Events] /\ at.pos \in 1 .. N /\ 2 * at.pos <= n
    BY PlaceFacts DEF SinkStops
  <1>2. PICK p \in 1 .. n, g \in [1 .. N -> Events] : p = at.pos /\ g = at.heap /\ 2 * p <= n
    <2>1. PICK p \in 1 .. N : p = at.pos /\ 2 * p <= n
      BY <1>1
    <2>2. p \in 1 .. n
      BY <2>1
    <2>3. PICK g \in [1 .. N -> Events] : g = at.heap
      BY <1>1
    <2> QED
      BY <2>1, <2>2, <2>3
  <1>3. PICK c \in 2 .. n : c = Child(key, g, p, n) /\ p < c /\ LeastChild(key, g, n, p, c)
    BY <1>2, ChildFacts
  <1>4. Move(at, c) \in Places(h) /\ Move(at, c).pos = c
    BY MovePlace DEF Move
  <1> QED
    BY <1>2, <1>3, <1>4 DEF SinkOn, GoesOn

LEMMA SinkEnds ==
    ASSUME NEW key \in [Events -> Int], NEW N \in Nat, NEW h \in [1 .. N -> Events],
           NEW n \in 0 .. N
    PROVE  Ends(Places(h), SinkStops(h, n), SinkOn(key, h, n), Below(h, N))
  <1>1. Below(h, N) \in [Places(h) -> Nat]
    BY PlaceFacts DEF Below
  <1>2. ASSUME NEW at \in Places(h) \ SinkStops(h, n)
        PROVE  /\ SinkOn(key, h, n)[at] \in Places(h)
               /\ Below(h, N)[SinkOn(key, h, n)[at]] < Below(h, N)[at]
    <2>1. PICK p \in 1 .. n, c \in 2 .. n :
             /\ p = at.pos /\ p < c /\ SinkOn(key, h, n)[at] = Move(at, c)
             /\ Move(at, c) \in Places(h) /\ Move(at, c).pos = c
      BY SinkTurn DEF GoesOn
    <2> QED
      BY <2>1 DEF Below
  <1> QED
    BY <1>1, <1>2 DEF Ends

\* Sink is what the loop gives.
LEMMA SinkLoop ==
    ASSUME NEW key \in [Events -> Int], NEW N \in Nat, NEW h \in [1 .. N -> Events],
           NEW n \in 0 .. N, NEW p \in 1 .. N
    PROVE  \E f : /\ Sink(key, h, p, n) = f[[heap |-> h, pos |-> p]]
                  /\ LoopIs(f, Places(h), SinkStops(h, n), Itself(h), SinkOn(key, h, n))
  <1> DEFINE Value(f, at) == IF 2 * at.pos > n THEN at
                             ELSE f[Move(at, Child(key, at.heap, at.pos, n))]
             Is(f) == f = [at \in Places(h) |-> Value(f, at)]
  <1>1. PICK f : f = [at \in Places(h) |-> f[at]]
                 /\ LoopIs(f, Places(h), SinkStops(h, n), Itself(h), SinkOn(key, h, n))
    BY SinkEnds, LoopExists
  <1>2. \A at \in Places(h) : f[at] = Value(f, at)
    BY <1>1 DEF LoopIs, SinkStops, Itself, SinkOn
  <1>3. Is(f)
    BY <1>1, <1>2
  <1>4. Sink(key, h, p, n) = (CHOOSE g : Is(g))[[heap |-> h, pos |-> p]]
    BY DEF Sink
  <1>5. PICK g : g = (CHOOSE k : Is(k)) /\ Is(g)
    BY <1>3
  <1>6. \A at \in Places(h) : g[at] = Value(g, at)
    BY <1>5
  <1>7. LoopIs(g, Places(h), SinkStops(h, n), Itself(h), SinkOn(key, h, n))
    BY <1>6 DEF LoopIs, SinkStops, Itself, SinkOn
  <1> QED
    BY <1>4, <1>5, <1>7

\* The least child moves up.
LEMMA SinkStep ==
    ASSUME NEW key \in [Events -> Int], NEW N \in Nat, NEW h \in [1 .. N -> Events],
           NEW n \in 0 .. N, NEW p \in 1 .. n, OrderedButAt(key, h, n, p),
           NEW c \in 2 .. n, LeastChild(key, h, n, p, c)
    PROVE  OrderedButAt(key, Swapped(h, p, c), n, c)
  <1>1. p < c /\ c \in 1 .. N /\ p \in 1 .. N /\ c \div 2 = p
    BY Half DEF LeastChild
  <1>2. PICK g : g = Swapped(h, p, c)
    OBVIOUS
  <1>3. /\ g[p] = h[c] /\ g[c] = h[p]
        /\ \A k \in 1 .. N : k # p /\ k # c => g[k] = h[k]
    BY <1>1, <1>2 DEF Swapped
  <1>4. \A i \in 2 .. n : i # p /\ i \div 2 # p => key[h[i \div 2]] <= key[h[i]]
    BY DEF OrderedButAt
  <1>5. ASSUME NEW i \in 2 .. n, i # c, i \div 2 # c PROVE key[g[i \div 2]] <= key[g[i]]
    <2>1. PICK u \in 1 .. N : u = i \div 2 /\ u < i
      BY Half
    <2>2. i \in 1 .. N
      OBVIOUS
    <2>3. CASE i = p
      <3>1. key[h[u]] <= key[h[c]]
        BY <1>1, <2>1, <2>3 DEF OrderedButAt, Around
      <3>2. g[u] = h[u]
        BY <1>1, <1>3, <2>1, <2>3
      <3> QED
        BY <1>3, <2>1, <2>3, <3>1, <3>2
    <2>4. CASE i # p /\ u = p
      <3>1. key[h[c]] <= key[h[i]]
        BY <2>1, <2>4 DEF LeastChild
      <3>2. g[i] = h[i]
        BY <1>3, <1>5, <2>2, <2>4
      <3> QED
        BY <1>3, <2>1, <2>4, <3>1, <3>2
    <2>5. CASE i # p /\ u # p
      <3>1. key[h[u]] <= key[h[i]]
        BY <1>4, <2>1, <2>5
      <3>2. g[i] = h[i] /\ g[u] = h[u]
        BY <1>3, <1>5, <2>1, <2>2, <2>5
      <3> QED
        BY <2>1, <3>1, <3>2
    <2> QED
      BY <2>3, <2>4, <2>5
  <1>6. ASSUME NEW i \in 2 .. n, i \div 2 = c PROVE key[g[c \div 2]] <= key[g[i]]
    <2>1. c < i /\ i \in 1 .. N
      BY <1>6, Half
    <2>2. key[h[c]] <= key[h[i]]
      BY <1>1, <1>4, <1>6, <2>1
    <2>3. g[i] = h[i]
      BY <1>1, <1>3, <2>1
    <2> QED
      BY <1>1, <1>3, <2>2, <2>3
  <1> QED
    BY <1>2, <1>5, <1>6 DEF OrderedButAt, Around

Sunk(key, at, h, N, n, e) ==
    \E g \in [1 .. N -> Events], s \in 1 .. n, G \in [1 .. N -> Events] :
      /\ g = at.heap /\ s = at.pos /\ G = Put(g, s, e)
      /\ Distinct(G, n) /\ Elements(G, n) = Elements(h, n)
      /\ OrderedButUp(key, G, n, s)

\* The loop brings the empty place p to a leaf: with e in it the n elements
\* are in order but for e.
LEMMA SinkGives ==
    ASSUME NEW key \in [Events -> Int], NEW N \in Nat, NEW h \in [1 .. N -> Events],
           NEW n \in 0 .. N, NEW p \in 1 .. n, NEW e \in Events,
           NEW F, F = Put(h, p, e), Distinct(F, n), OrderedButAt(key, F, n, p)
    PROVE  Sunk(key, Sink(key, h, p, n), F, N, n, e)
  <1>s. \A g \in [1 .. N -> Events], i, j \in 1 .. n : i # j /\ Distinct(g, n) =>
          Distinct(Swapped(g, i, j), n) /\ Elements(Swapped(g, i, j), n) = Elements(g, n)
    BY SwapKeeps
  <1>m. \A at \in Places(h), q \in 1 .. N : q # at.pos =>
          /\ Filled(at, e) \in [1 .. N -> Events] /\ Filled(at, e)[at.pos] = e
          /\ \A k \in 1 .. N : k # at.pos => Filled(at, e)[k] = at.heap[k]
          /\ Filled(Move(at, q), e) = Swapped(Filled(at, e), at.pos, q)
    BY FilledMove
  <1>k. \A at \in Places(h) : at \notin SinkStops(h, n) =>
          GoesOn(key, h, n, at)
    BY SinkTurn
  <1>t. \A g \in [1 .. N -> Events], i \in 1 .. n, c \in 2 .. n :
          OrderedButAt(key, g, n, i) /\ LeastChild(key, g, n, i, c) =>
            OrderedButAt(key, Swapped(g, i, c), n, c)
    BY SinkStep
  <1> DEFINE S    == Places(h)
             Stop == SinkStops(h, n)
             Inv  == {at \in S : /\ at.pos \in 1 .. n /\ Distinct(Filled(at, e), n)
                                 /\ Elements(Filled(at, e), n) = Elements(F, n)
                                 /\ OrderedButAt(key, Filled(at, e), n, at.pos)}
             start == [heap |-> h, pos |-> p]
  <1>1. p \in 1 .. N
    OBVIOUS
  <1>2. PICK f : /\ Sink(key, h, p, n) = f[start]
                 /\ LoopIs(f, S, Stop, Itself(h), SinkOn(key, h, n))
    BY <1>1, SinkLoop
  <1>3. start \in Inv
    <2>1. start \in S /\ Filled(start, e) = F
      BY <1>1 DEF Places, Filled, Put
    <2> QED
      BY <2>1
  <1>4. ASSUME NEW at \in Inv, at \notin Stop PROVE SinkOn(key, h, n)[at] \in Inv
    <2>1. PICK i \in 1 .. n, c \in 2 .. n :
             /\ i = at.pos /\ i < c /\ LeastChild(key, at.heap, n, i, c)
             /\ SinkOn(key, h, n)[at] = Move(at, c)
             /\ Move(at, c) \in Places(h) /\ Move(at, c).pos = c
      BY <1>k, <1>4 DEF GoesOn
    <2>2. PICK x \in S : x = at /\ x.pos = i /\ c # i /\ c \in 1 .. N /\ c \in 1 .. n
      BY <2>1
    <2>3. PICK G \in [1 .. N -> Events] :
            /\ G = Filled(x, e) /\ \A k \in 1 .. N : k # i => G[k] = x.heap[k]
            /\ Filled(Move(x, c), e) = Swapped(G, i, c)
      BY <1>m, <2>2
    <2>4. Distinct(G, n) /\ Elements(G, n) = Elements(F, n) /\ OrderedButAt(key, G, n, i)
      BY <2>2, <2>3
    <2>5. Distinct(Swapped(G, i, c), n) /\ Elements(Swapped(G, i, c), n) = Elements(F, n)
      <3> HIDE DEF Inv, S, Stop
      <3> QED
        BY <1>s, <2>2, <2>3, <2>4
    <2>6. LeastChild(key, G, n, i, c)
      <3>1. ASSUME NEW k \in 2 .. n, k \div 2 = i PROVE G[k] = x.heap[k]
        <4>1. k # i /\ k \in 1 .. N
          BY <3>1, Half
        <4> QED
          BY <2>3, <4>1
      <3>2. c \div 2 = i
        BY <2>1 DEF LeastChild
      <3>3. G[c] = x.heap[c]
        BY <3>1, <3>2
      <3>4. \A k \in 2 .. n : k \div 2 = i => key[x.heap[c]] <= key[x.heap[k]]
        BY <2>1, <2>2 DEF LeastChild
      <3> QED
        BY <3>1, <3>2, <3>3, <3>4 DEF LeastChild
    <2>7. OrderedButAt(key, Swapped(G, i, c), n, c)
      <3> HIDE DEF Inv, S, Stop
      <3> QED
        BY <1>t, <2>4, <2>6
    <2> QED
      BY <2>1, <2>2, <2>3, <2>5, <2>7
  <1>5. PICK t \in Inv \cap Stop : f[start] = Itself(h)[t]
    <2>1. Inv \in SUBSET S /\ Ends(S, Stop, SinkOn(key, h, n), Below(h, N))
      BY SinkEnds
    <2>2. Keeps(Inv, Stop, SinkOn(key, h, n))
      BY <1>4 DEF Keeps
    <2> HIDE DEF Inv, S, Stop
    <2>3. Reaches(f, Inv, Stop, Itself(h))
      BY <1>2, <2>1, <2>2, LoopKeeps
    <2> QED
      BY <1>3, <2>3 DEF Reaches
  <1>6. t \in S /\ t.pos \in 1 .. n /\ t.heap \in [1 .. N -> Events] /\ 2 * t.pos > n
    BY PlaceFacts DEF SinkStops
  <1>7. Sink(key, h, p, n) = t
    BY <1>2, <1>5, <1>6 DEF Itself
  <1>8. PICK s \in 1 .. n, g \in [1 .. N -> Events] : s = t.pos /\ g = t.heap /\ 2 * s > n
    BY <1>6
  <1>9. PICK G \in [1 .. N -> Events] : G = Put(g, s, e) /\ G = Filled(t, e)
    BY <1>8 DEF Filled, Put
  <1>10. Distinct(G, n) /\ Elements(G, n) = Elements(F, n) /\ OrderedButAt(key, G, n, s)
    BY <1>8, <1>9
  <1>11. OrderedButUp(key, G, n, s)
    <2>1. ASSUME NEW i \in 2 .. n PROVE i \div 2 # s
      BY <1>8, Half
    <2> QED
      BY <1>10, <2>1 DEF OrderedButUp, OrderedButAt
  <1> HIDE DEF Inv, S, Stop
  <1> QED
    BY <1>7, <1>8, <1>9, <1>10, <1>11 DEF Sunk

-----------------------------------------------------------------------------
(* The operations of the heap.                                              *)

\* No event twice, and no child before its parent.
IsHeap(key, h) ==
    h \in Seq(Events) /\ Distinct(h, Len(h)) /\ Ordered(key, h, Len(h))

LEMMA Array ==
    ASSUME NEW h \in Seq(Events)
    PROVE  /\ Len(h) \in Nat /\ h \in [1 .. Len(h) -> Events]
           /\ ToSet(h) = Elements(h, Len(h))
  <1>1. Len(h) \in Nat /\ h \in [1 .. Len(h) -> Events] /\ DOMAIN h = 1 .. Len(h)
    BY LenProperties
  <1> QED
    BY <1>1 DEF ToSet, Elements

LEMMA ArrayIsSeq ==
    ASSUME NEW N \in Nat, NEW h \in [1 .. N -> Events]
    PROVE  h \in Seq(Events) /\ Len(h) = N
  <1>1. h \in Seq(Events)
    BY SeqDef
  <1>2. DOMAIN h = 1 .. N /\ DOMAIN h = 1 .. Len(h) /\ Len(h) \in Nat
    BY <1>1, LenProperties
  <1> QED
    BY <1>1, <1>2

\* heap_push.
LEMMA PushGives ==
    ASSUME NEW key \in [Events -> Int], NEW h, IsHeap(key, h),
           NEW e \in Events, e \notin ToSet(h)
    PROVE  /\ IsHeap(key, HeapPush(key, h, e))
           /\ ToSet(HeapPush(key, h, e)) = ToSet(h) \cup {e}
           /\ Len(HeapPush(key, h, e)) = Len(h) + 1
  <1>1. h \in Seq(Events) /\ Distinct(h, Len(h)) /\ Ordered(key, h, Len(h))
    BY DEF IsHeap
  <1>2. PICK n \in Nat : n = Len(h) /\ h \in [1 .. n -> Events] /\ ToSet(h) = Elements(h, n)
    BY <1>1, Array
  <1>3. PICK a \in Seq(Events) :
          /\ a = Append(h, e) /\ Len(a) = n + 1 /\ a[n + 1] = e
          /\ \A i \in 1 .. n : a[i] = h[i]
    <2>1. /\ Append(h, e) \in Seq(Events) /\ Len(Append(h, e)) = Len(h) + 1
          /\ \A i \in 1 .. Len(h) : Append(h, e)[i] = h[i]
          /\ Append(h, e)[Len(h) + 1] = e
      BY <1>1, AppendProperties
    <2> QED
      BY <1>2, <2>1
  <1>4. PICK N \in Nat : N = n + 1 /\ a \in [1 .. N -> Events] /\ N \in 1 .. N /\ N \in 0 .. N
    <2>1. a \in [1 .. Len(a) -> Events]
      BY LenProperties
    <2> QED
      BY <1>3, <2>1
  <1>5. a = Put(a, N, e)
    BY <1>3, <1>4 DEF Put
  <1>6. Distinct(a, N)
    <2>1. \A i \in 1 .. n : a[i] # e
      BY <1>2, <1>3 DEF Elements
    <2> QED
      BY <1>1, <1>2, <1>3, <1>4, <2>1 DEF Distinct
  <1>7. Elements(a, N) = Elements(h, n) \cup {e}
    <2>1. 1 .. N = (1 .. n) \cup {N}
      BY <1>4
    <2> QED
      BY <1>3, <1>4, <2>1 DEF Elements
  <1>8. OrderedButUp(key, a, N, N)
    <2>1. ASSUME NEW i \in 2 .. N, i # N PROVE key[a[i \div 2]] <= key[a[i]]
      <3>1. PICK u \in 1 .. n : u = i \div 2
        BY <1>4, <2>1, Half
      <3>2. i \in 2 .. n /\ i \in 1 .. n
        BY <1>4, <2>1
      <3>3. key[h[u]] <= key[h[i]]
        BY <1>1, <1>2, <3>1, <3>2 DEF Ordered
      <3> QED
        BY <1>3, <3>1, <3>2, <3>3
    <2>2. ASSUME NEW i \in 2 .. N PROVE i \div 2 # N
      BY Half
    <2> QED
      BY <2>1, <2>2 DEF OrderedButUp, Around
  <1>9. PICK r : r = SiftDown(key, a, N, e)
    OBVIOUS
  <1>10. /\ r \in [1 .. N -> Events] /\ Distinct(r, N) /\ Elements(r, N) = Elements(a, N)
         /\ Ordered(key, r, N)
    BY <1>4, <1>5, <1>6, <1>8, <1>9, SiftGives DEF Sifted
  <1>11. r \in Seq(Events) /\ Len(r) = N
    BY <1>10, ArrayIsSeq
  <1>12. ToSet(r) = Elements(r, N)
    BY <1>11, Array
  <1>13. r = HeapPush(key, h, e)
    BY <1>2, <1>3, <1>4, <1>9 DEF HeapPush
  <1> QED
    BY <1>2, <1>4, <1>7, <1>10, <1>11, <1>12, <1>13 DEF IsHeap

\* In order, but that whatever is at p may come after its children.
OrderedButDown(key, h, n, p) ==
    Around(key, h, n, p) /\ \A i \in 2 .. n : i \div 2 # p => key[h[i \div 2]] <= key[h[i]]

\* The last position is left out.
LEMMA Shortened ==
    ASSUME NEW key, NEW N \in Nat \ {0}, NEW r \in [1 .. N -> Events], NEW n \in Nat, n = N - 1,
           Distinct(r, n), Ordered(key, r, n)
    PROVE  /\ IsHeap(key, SubSeq(r, 1, n)) /\ Len(SubSeq(r, 1, n)) = n
           /\ ToSet(SubSeq(r, 1, n)) = Elements(r, n)
  <1>1. \A i \in 1 .. n : r[i] \in Events
    OBVIOUS
  <1>2. /\ SubSeq(r, 1, n) \in Seq(Events)
        /\ Len(SubSeq(r, 1, n)) = IF 1 <= n THEN n - 1 + 1 ELSE 0
        /\ \A i \in 1 .. n - 1 + 1 : SubSeq(r, 1, n)[i] = r[1 + i - 1]
    BY <1>1, SubSeqProperties
  <1>3. PICK s \in Seq(Events) : s = SubSeq(r, 1, n) /\ Len(s) = n /\ \A i \in 1 .. n : s[i] = r[i]
    <2>1. PICK s \in Seq(Events) : s = SubSeq(r, 1, n)
      BY <1>2
    <2>2. Len(s) = IF 1 <= n THEN n - 1 + 1 ELSE 0
      BY <1>2, <2>1
    <2>3. \A i \in 1 .. n : i \in 1 .. n - 1 + 1 /\ 1 + i - 1 = i
      OBVIOUS
    <2>4. \A i \in 1 .. n : s[i] = r[i]
      BY <1>2, <2>1, <2>3
    <2>5. Len(s) = n
      BY <2>2
    <2> QED
      BY <2>1, <2>4, <2>5
  <1>4. ToSet(s) = Elements(s, n)
    BY <1>3, Array
  <1>5. Elements(s, n) = Elements(r, n)
    BY <1>3 DEF Elements
  <1>6. Distinct(s, n)
    BY <1>3 DEF Distinct
  <1>7. Ordered(key, s, n)
    <2>1. ASSUME NEW i \in 2 .. n PROVE key[s[i \div 2]] <= key[s[i]]
      <3>1. PICK u \in 1 .. n : u = i \div 2
        BY Half
      <3>2. key[r[u]] <= key[r[i]] /\ i \in 1 .. n
        BY <3>1 DEF Ordered
      <3> QED
        BY <1>3, <3>1, <3>2
    <2> QED
      BY <2>1 DEF Ordered
  <1> QED
    BY <1>3, <1>4, <1>5, <1>6, <1>7 DEF IsHeap

\* What is put where an inner element was: the last one.
LEMMA LastInstead ==
    ASSUME NEW key \in [Events -> Int], NEW N \in Nat \ {0}, NEW h \in [1 .. N -> Events],
           Distinct(h, N), NEW n \in Nat, n = N - 1, NEW p \in 1 .. n,
           OrderedButDown(key, h, N, p), NEW F, F = Put(h, p, h[N])
    PROVE  /\ Distinct(F, n) /\ Elements(F, n) = Elements(h, N) \ {h[p]}
           /\ OrderedButAt(key, F, n, p)
  <1>1. p \in 1 .. N /\ N \in 1 .. N /\ \A i \in 1 .. n : i \in 1 .. N /\ i # N
    OBVIOUS
  <1>2. F[p] = h[N] /\ \A i \in 1 .. n : i # p => F[i] = h[i]
    BY <1>1 DEF Put
  <1>3. \A i, j \in 1 .. N : h[i] = h[j] => i = j
    BY DEF Distinct
  <1>4. Distinct(F, n)
    BY <1>1, <1>2, <1>3 DEF Distinct
  <1>5. Elements(F, n) \subseteq Elements(h, N) \ {h[p]}
    <2>1. ASSUME NEW i \in 1 .. n PROVE \E m \in 1 .. N : F[i] = h[m] /\ m # p
      BY <1>1, <1>2
    <2> QED
      BY <1>1, <1>3, <2>1 DEF Elements
  <1>6. Elements(h, N) \ {h[p]} \subseteq Elements(F, n)
    <2>1. ASSUME NEW i \in 1 .. N, i # p PROVE \E m \in 1 .. n : h[i] = F[m]
      BY <1>1, <1>2, <2>1
    <2> QED
      BY <2>1 DEF Elements
  <1>7. ASSUME NEW i \in 2 .. n, i # p, i \div 2 # p PROVE key[F[i \div 2]] <= key[F[i]]
    <2>1. PICK u \in 1 .. n : u = i \div 2 /\ u # p
      BY <1>7, Half
    <2>2. key[h[u]] <= key[h[i]]
      BY <1>7, <2>1 DEF OrderedButDown
    <2> QED
      BY <1>2, <1>7, <2>1, <2>2
  <1>8. ASSUME p >= 2, NEW i \in 2 .. n, i \div 2 = p PROVE key[F[p \div 2]] <= key[F[i]]
    <2>1. PICK u \in 1 .. n : u = p \div 2 /\ u # p
      BY <1>8, Half
    <2>2. i # p /\ i \in 2 .. N
      BY <1>8, Half
    <2>3. key[h[u]] <= key[h[i]]
      BY <1>8, <2>1, <2>2 DEF OrderedButDown, Around
    <2> QED
      BY <1>2, <2>1, <2>2, <2>3
  <1> QED
    BY <1>4, <1>5, <1>6, <1>7, <1>8 DEF OrderedButAt, Around

\* siftdown after the loop, for the last element.
Refilled(key, h, p, n, e) ==
    SiftDown(key, Sink(key, h, p, n).heap, Sink(key, h, p, n).pos, e)

\* Of r are the first n positions of a heap without e.
PoppedFrom(key, r, h, N, n, e) ==
    /\ r \in [1 .. N -> Events] /\ Distinct(r, n) /\ Ordered(key, r, n)
    /\ Elements(r, n) = Elements(h, N) \ {e}

LEMMA PopInner ==
    ASSUME NEW key \in [Events -> Int], NEW N \in Nat \ {0}, NEW h \in [1 .. N -> Events],
           Distinct(h, N), NEW n \in Nat, n = N - 1, NEW p \in 1 .. n,
           OrderedButDown(key, h, N, p)
    PROVE  PoppedFrom(key, Refilled(key, h, p, n, h[N]), h, N, n, h[p])
  <1>1. PICK e \in Events : e = h[N]
    OBVIOUS
  <1>2. PICK F : F = Put(h, p, e)
    OBVIOUS
  <1>3. /\ Distinct(F, n) /\ Elements(F, n) = Elements(h, N) \ {h[p]}
        /\ OrderedButAt(key, F, n, p)
    BY <1>1, <1>2, LastInstead
  <1>4. n \in 0 .. N /\ N \in Nat
    OBVIOUS
  <1>5. PICK g \in [1 .. N -> Events], s \in 1 .. n, G \in [1 .. N -> Events] :
          /\ g = Sink(key, h, p, n).heap /\ s = Sink(key, h, p, n).pos
          /\ G = Put(g, s, e)
          /\ Distinct(G, n) /\ Elements(G, n) = Elements(F, n)
          /\ OrderedButUp(key, G, n, s)
    <2>1. Sunk(key, Sink(key, h, p, n), F, N, n, e)
      BY <1>2, <1>3, <1>4, SinkGives
    <2> QED
      BY <2>1 DEF Sunk
  <1>6. PICK r : r = SiftDown(key, g, s, e)
    OBVIOUS
  <1>7. /\ r \in [1 .. N -> Events] /\ Distinct(r, n) /\ Elements(r, n) = Elements(G, n)
        /\ Ordered(key, r, n)
    <2>1. Sifted(key, r, G, N, n)
      BY <1>4, <1>5, <1>6, SiftGives
    <2> QED
      BY <2>1 DEF Sifted
  <1>8. r = Refilled(key, h, p, n, h[N])
    BY <1>1, <1>5, <1>6 DEF Refilled
  <1>9. Elements(r, n) = Elements(h, N) \ {h[p]}
    BY <1>3, <1>5, <1>7
  <1> QED
    BY <1>7, <1>8, <1>9 DEF PoppedFrom

\* The last element stays where it is.
LEMMA PopLast ==
    ASSUME NEW key \in [Events -> Int], NEW N \in Nat \ {0}, NEW h \in [1 .. N -> Events],
           Distinct(h, N), NEW n \in Nat, n = N - 1, OrderedButDown(key, h, N, N)
    PROVE  PoppedFrom(key, Refilled(key, h, N, n, h[N]), h, N, n, h[N])
  <1> DEFINE start == [heap |-> h, pos |-> N]
  <1>1. N \in 1 .. N /\ n \in 0 .. N /\ N \in Nat /\ 2 * N > n
    OBVIOUS
  <1>2. start \in Places(h) /\ start.heap = h /\ start.pos = N
    BY <1>1 DEF Places
  <1>3. Sink(key, h, N, n) = start
    <2>1. PICK f : /\ Sink(key, h, N, n) = f[start]
                   /\ LoopIs(f, Places(h), SinkStops(h, n), Itself(h), SinkOn(key, h, n))
      BY <1>1, SinkLoop
    <2>2. start \in SinkStops(h, n) /\ Itself(h)[start] = start
      BY <1>1, <1>2 DEF SinkStops, Itself
    <2> HIDE DEF start
    <2> QED
      BY <1>2, <2>1, <2>2 DEF LoopIs
  <1>4. PICK e \in Events : e = h[N]
    BY <1>1
  <1>5. N = 1 \/ key[h[N \div 2]] <= key[e]
    <2>1. ASSUME N # 1 PROVE key[h[N \div 2]] <= key[e]
      <3>1. N \in 2 .. N /\ N \div 2 # N
        BY <2>1, Half
      <3> QED
        BY <1>4, <3>1 DEF OrderedButDown
    <2> QED
      BY <2>1
  <1>6. SiftDown(key, h, N, e) = h
    <2>1. PICK f : /\ SiftDown(key, h, N, e) = f[start]
                   /\ LoopIs(f, Places(h), SiftStops(key, h, e), SiftResult(h, e), SiftOn(h))
      BY <1>1, SiftLoop
    <2>2. start \in SiftStops(key, h, e) /\ SiftResult(h, e)[start] = [h EXCEPT ![N] = e]
      BY <1>2, <1>5 DEF SiftStops, SiftResult, Filled, Leq
    <2>3. [h EXCEPT ![N] = e] = h
      BY <1>1, <1>4
    <2> HIDE DEF start
    <2> QED
      BY <1>2, <2>1, <2>2, <2>3 DEF LoopIs
  <1>7. Refilled(key, h, N, n, h[N]) = h
    BY <1>2, <1>3, <1>4, <1>6 DEF Refilled
  <1>8. Distinct(h, n)
    BY DEF Distinct
  <1>9. Elements(h, n) = Elements(h, N) \ {h[N]}
    <2>1. \A i \in 1 .. n : h[i] # h[N] /\ i \in 1 .. N
      BY <1>1 DEF Distinct
    <2>2. \A i \in 1 .. N : i \in 1 .. n \/ i = N
      BY <1>1
    <2> QED
      BY <2>1, <2>2 DEF Elements
  <1>10. Ordered(key, h, n)
    <2>1. ASSUME NEW i \in 2 .. n PROVE i \div 2 # N /\ i \in 2 .. N
      BY Half
    <2> QED
      BY <2>1 DEF OrderedButDown, Ordered
  <1> QED
    BY <1>7, <1>8, <1>9, <1>10 DEF PoppedFrom

\* __heap_pop, also when the time of the element at p was put off in place.
LEMMA PopGives ==
    ASSUME NEW key \in [Events -> Int], NEW h \in Seq(Events), NEW p \in 1 .. Len(h),
           Distinct(h, Len(h)), OrderedButDown(key, h, Len(h), p)
    PROVE  /\ IsHeap(key, HeapPopAt(key, h, p))
           /\ ToSet(HeapPopAt(key, h, p)) = ToSet(h) \ {h[p]}
           /\ Len(HeapPopAt(key, h, p)) = Len(h) - 1
  <1>1. PICK N \in Nat \ {0} : N = Len(h) /\ h \in [1 .. N -> Events] /\ ToSet(h) = Elements(h, N)
    BY Array
  <1>2. PICK n \in Nat : n = N - 1
    OBVIOUS
  <1>3. PICK r : r = Refilled(key, h, p, n, h[N])
    OBVIOUS
  <1>4. HeapPopAt(key, h, p) = SubSeq(r, 1, n)
    BY <1>1, <1>2, <1>3 DEF HeapPopAt, Refilled, Last
  <1>5. Distinct(h, N) /\ OrderedButDown(key, h, N, p) /\ p \in 1 .. N
    BY <1>1
  <1>6. PoppedFrom(key, r, h, N, n, h[p])
    <2>1. CASE p \in 1 .. n
      BY <1>1, <1>2, <1>3, <1>5, <2>1, PopInner
    <2>2. CASE p \notin 1 .. n
      <3>1. p = N
        BY <1>2, <1>5, <2>2
      <3> QED
        BY <1>1, <1>2, <1>3, <1>5, <3>1, PopLast
    <2> QED
      BY <2>1, <2>2
  <1>7. /\ r \in [1 .. N -> Events] /\ Distinct(r, n) /\ Ordered(key, r, n)
        /\ Elements(r, n) = Elements(h, N) \ {h[p]}
    BY <1>6 DEF PoppedFrom
  <1>8. /\ IsHeap(key, SubSeq(r, 1, n)) /\ Len(SubSeq(r, 1, n)) = n
        /\ ToSet(SubSeq(r, 1, n)) = Elements(r, n)
    BY <1>2, <1>7, Shortened
  <1> QED
    BY <1>1, <1>2, <1>4, <1>7, <1>8

\* heap_pop, of a heap in order.
LEMMA PopFirst ==
    ASSUME NEW key \in [Events -> Int], NEW h, IsHeap(key, h), Len(h) # 0
    PROVE  /\ IsHeap(key, HeapPopAt(key, h, 1))
           /\ ToSet(HeapPopAt(key, h, 1)) = ToSet(h) \ {h[1]}
           /\ Len(HeapPopAt(key, h, 1)) = Len(h) - 1
  <1>1. h \in Seq(Events) /\ Distinct(h, Len(h)) /\ Ordered(key, h, Len(h))
    BY DEF IsHeap
  <1>2. 1 \in 1 .. Len(h)
    BY <1>1, Array
  <1>3. OrderedButDown(key, h, Len(h), 1)
    BY <1>1 DEF OrderedButDown, Around, Ordered
  <1> QED
    BY <1>1, <1>2, <1>3, PopGives

\* The first element is the least: a position whose element comes before it
\* would be the least such position, and its parent an earlier one.
LEMMA FirstLeast ==
    ASSUME NEW key \in [Events -> Int], NEW h, IsHeap(key, h), NEW e \in ToSet(h)
    PROVE  key[h[1]] <= key[e]
  <1>1. h \in Seq(Events) /\ Ordered(key, h, Len(h))
    BY DEF IsHeap
  <1>2. PICK n \in Nat : n = Len(h) /\ h \in [1 .. n -> Events] /\ ToSet(h) = Elements(h, n)
    BY <1>1, Array
  <1>3. PICK k \in 1 .. n : e = h[k]
    BY <1>2 DEF Elements
  <1> DEFINE Bad == {i \in 1 .. n : ~(key[h[1]] <= key[h[i]])}
  <1>4. SUFFICES ASSUME Bad # {} PROVE FALSE
    BY <1>3
  <1>5. PICK i \in Bad : \A j \in Bad : i <= j
    <2>1. Bad \in SUBSET Nat
      OBVIOUS
    <2> HIDE DEF Bad
    <2> QED
      BY <1>4, <2>1, LeastNat
  <1>6. \A j \in 1 .. n : key[h[j]] \in Int
    BY <1>2
  <1>7. i \in 2 .. n
    <2>1. 1 \in 1 .. n
      BY <1>5
    <2>2. i # 1
      BY <1>5, <1>6, <2>1
    <2> QED
      BY <1>5, <2>2
  <1>8. PICK u \in 1 .. n : u = i \div 2 /\ u < i
    BY <1>7, Half
  <1>9. key[h[u]] <= key[h[i]]
    BY <1>1, <1>2, <1>7, <1>8 DEF Ordered
  <1>10. key[h[1]] <= key[h[u]]
    BY <1>5, <1>8
  <1>11. 1 \in 1 .. n /\ i \in 1 .. n
    BY <1>7
  <1> QED
    BY <1>5, <1>6, <1>8, <1>9, <1>10, <1>11

\* Keys of elements that are not in the heap do not matter.
LEMMA Rekeyed ==
    ASSUME NEW key, NEW h, IsHeap(key, h), NEW other, \A e \in ToSet(h) : other[e] = key[e]
    PROVE  IsHeap(other, h)
  <1>1. h \in Seq(Events) /\ Ordered(key, h, Len(h)) /\ Distinct(h, Len(h))
    BY DEF IsHeap
  <1>2. PICK n \in Nat : n = Len(h) /\ ToSet(h) = Elements(h, n)
    BY <1>1, Array
  <1>3. \A i \in 1 .. n : other[h[i]] = key[h[i]]
    BY <1>2 DEF Elements
  <1>4. ASSUME NEW i \in 2 .. n PROVE other[h[i \div 2]] <= other[h[i]]
    <2>1. PICK u \in 1 .. n : u = i \div 2
      BY Half
    <2>2. i \in 1 .. n /\ key[h[u]] <= key[h[i]]
      BY <1>1, <1>2, <2>1 DEF Ordered
    <2> QED
      BY <1>3, <2>1, <2>2
  <1> QED
    BY <1>1, <1>2, <1>4 DEF IsHeap, Ordered

\* heap_pop_elem finds the position of an element that is in the heap.
LEMMA PopElemAt ==
    ASSUME NEW key, NEW h \in Seq(Events), NEW e \in ToSet(h)
    PROVE  \E p \in 1 .. Len(h) : h[p] = e /\ HeapPopElem(key, h, e) = HeapPopAt(key, h, p)
  <1>1. DOMAIN h = 1 .. Len(h) /\ Len(h) \in Nat
    BY LenProperties
  <1> DEFINE I == {i \in 1 .. Len(h) : h[i] = e}
  <1>2. I # {} /\ I \in SUBSET Nat
    BY <1>1 DEF ToSet
  <1>3. PICK p \in I : p = Min(I)
    <2>1. PICK p \in I : \A q \in I : p <= q
      <3> HIDE DEF I
      <3> QED
        BY <1>2, LeastNat
    <2>2. Min(I) = CHOOSE x \in I : \A y \in I : x <= y
      BY DEF Min
    <2> HIDE DEF I
    <2> QED
      BY <2>1, <2>2
  <1>4. SelectInSeq(h, LAMBDA f : f = e) = Min(I)
    BY <1>2 DEF SelectInSeq
  <1>5. \E i \in DOMAIN h : h[i] = e
    BY <1>1, <1>2
  <1>6. HeapPopElem(key, h, e) = HeapPopAt(key, h, p)
    BY <1>3, <1>4, <1>5 DEF HeapPopElem
  <1> QED
    BY <1>3, <1>6

-----------------------------------------------------------------------------
(* What parse_file and init of the scheduler push.                          *)

\* The heap and the room for it after n pushes.
LoadStep(key, list, was, n) ==
    IF n = 0 THEN [heap |-> <<>>, room |-> AllocGrain]
    ELSE [heap |-> HeapPush(key, was[n - 1].heap, list[n]),
          room |-> Expand(n - 1, was[n - 1].room)]

LEMMA LoadExists ==
    ASSUME NEW key, NEW list, NEW L \in Nat, L = Len(list)
    PROVE  \E f : /\ Loaded(key, list) = f[L]
                  /\ \A n \in 0 .. L : f[n] = LoadStep(key, list, f, n)
  <1> DEFINE Right(f, m) == \A n \in 0 .. m : f[n] = LoadStep(key, list, f, n)
             Q == {m \in Nat : \E f : Right(f, m)}
             Is(f) == f = [n \in 0 .. L |-> LoadStep(key, list, f, n)]
  <1>1. 0 \in Q
    <2> DEFINE f == [n \in 0 .. 0 |-> [heap |-> <<>>, room |-> AllocGrain]]
    <2>1. ASSUME NEW n \in 0 .. 0 PROVE f[n] = LoadStep(key, list, f, n)
      BY DEF LoadStep
    <2> QED
      BY <2>1
  <1>2. ASSUME NEW m \in Nat, m \in Q PROVE m + 1 \in Q
    <2>1. PICK f : Right(f, m)
      BY <1>2
    <2> DEFINE g == [n \in 0 .. m + 1 |-> IF n = m + 1 THEN LoadStep(key, list, f, n) ELSE f[n]]
    <2>2. ASSUME NEW n \in 0 .. m + 1 PROVE g[n] = LoadStep(key, list, g, n)
      <3>1. n = 0 \/ (n - 1 \in 0 .. m /\ n - 1 # m + 1 /\ n - 1 \in 0 .. m + 1)
        OBVIOUS
      <3>2. n = 0 \/ g[n - 1] = f[n - 1]
        BY <3>1
      <3>3. g[n] = LoadStep(key, list, f, n)
        <4>1. n = m + 1 \/ n \in 0 .. m
          OBVIOUS
        <4>2. g[n] = IF n = m + 1 THEN LoadStep(key, list, f, n) ELSE f[n]
          OBVIOUS
        <4> HIDE DEF g
        <4> QED
          BY <2>1, <4>1, <4>2
      <3> HIDE DEF g
      <3> QED
        BY <3>2, <3>3 DEF LoadStep
    <2> HIDE DEF g
    <2> QED
      BY <2>2
  <1>3. L \in Q
    <2> HIDE DEF Q
    <2> QED
      BY <1>1, <1>2, Induct
  <1>4. PICK f : Right(f, L)
    BY <1>3
  <1>5. \E g : Is(g)
    <2> DEFINE g == [n \in 0 .. L |-> f[n]]
    <2>1. ASSUME NEW n \in 0 .. L PROVE g[n] = LoadStep(key, list, g, n)
      <3>1. n = 0 \/ n - 1 \in 0 .. L
        OBVIOUS
      <3>2. g[n] = f[n] /\ (n = 0 \/ g[n - 1] = f[n - 1])
        BY <3>1
      <3>3. f[n] = LoadStep(key, list, f, n)
        BY <1>4
      <3> HIDE DEF g
      <3> QED
        BY <3>2, <3>3 DEF LoadStep
    <2>2. g = [n \in 0 .. L |-> g[n]]
      OBVIOUS
    <2> HIDE DEF g
    <2>3. Is(g)
      BY <2>1, <2>2
    <2> QED
      BY <2>3
  <1>6. PICK g : g = (CHOOSE k : Is(k)) /\ Is(g)
    BY <1>5
  <1>7. Loaded(key, list) = (CHOOSE k : Is(k))[L]
    BY DEF Loaded, LoadStep
  <1>8. \A n \in 0 .. L : g[n] = LoadStep(key, list, g, n)
    BY <1>6
  <1> QED
    BY <1>6, <1>7, <1>8

\* A list without repetitions is loaded, and there is room for it.
LEMMA LoadGives ==
    ASSUME NEW key \in [Events -> Int], NEW list \in Seq(Events), IsInjective(list)
    PROVE  /\ IsHeap(key, Loaded(key, list).heap)
           /\ ToSet(Loaded(key, list).heap) = ToSet(list)
           /\ Loaded(key, list).room \in Nat
           /\ Len(Loaded(key, list).heap) <= Loaded(key, list).room
  <1>1. PICK L \in Nat : /\ L = Len(list) /\ list \in [1 .. L -> Events]
                         /\ ToSet(list) = Elements(list, L)
    BY Array
  <1>2. PICK f : /\ Loaded(key, list) = f[L]
                 /\ \A n \in 0 .. L : f[n] = LoadStep(key, list, f, n)
    BY <1>1, LoadExists
  <1>3. AllocGrain \in Nat \ {0}
    BY GrainAssumption
  <1> DEFINE Good(n) == /\ IsHeap(key, f[n].heap) /\ Len(f[n].heap) = n
                        /\ ToSet(f[n].heap) = Elements(list, n)
                        /\ f[n].room \in Nat /\ n <= f[n].room
             Q == {n \in Nat : n <= L => Good(n)}
  <1>4. 0 \in Q
    <2>1. f[0].heap = <<>> /\ f[0].room = AllocGrain
      <3>1. f[0] = LoadStep(key, list, f, 0)
        <4>1. 0 \in 0 .. L
          OBVIOUS
        <4> QED
          BY <1>2, <4>1
      <3>2. LoadStep(key, list, f, 0) = [heap |-> <<>>, room |-> AllocGrain]
        BY DEF LoadStep
      <3> QED
        BY <3>1, <3>2
    <2>2. IsHeap(key, <<>>) /\ Len(<<>>) = 0 /\ ToSet(<<>>) = {}
      BY EmptySeq DEF IsHeap, Distinct, Ordered, ToSet
    <2>3. Elements(list, 0) = {}
      BY DEF Elements
    <2>4. IsHeap(key, f[0].heap) /\ Len(f[0].heap) = 0 /\ ToSet(f[0].heap) = Elements(list, 0)
      BY <2>1, <2>2, <2>3
    <2>5. f[0].room \in Nat /\ 0 <= f[0].room
      BY <1>3, <2>1
    <2> QED
      BY <2>4, <2>5
  <1>5. ASSUME NEW n \in Nat, n \in Q PROVE n + 1 \in Q
    <2>1. SUFFICES ASSUME n + 1 <= L PROVE Good(n + 1)
      OBVIOUS
    <2>2. PICK m \in 1 .. L : m = n + 1 /\ m - 1 = n
      BY <2>1
    <2>3. Good(n)
      BY <1>5, <2>1
    <2>h. PICK h : h = f[n].heap
      OBVIOUS
    <2>4. PICK room \in Nat : room = f[n].room /\ n <= room
      BY <2>3
    <2>5. IsHeap(key, h) /\ Len(h) = n /\ ToSet(h) = Elements(list, n)
      BY <2>3, <2>h
    <2>6. PICK e \in Events : e = list[m]
      BY <1>1
    <2>7. f[m].heap = HeapPush(key, h, e) /\ f[m].room = Expand(n, room)
      <3>1. f[m] = LoadStep(key, list, f, m)
        BY <1>2
      <3>2. m # 0
        OBVIOUS
      <3> QED
        BY <2>2, <2>4, <2>h, <2>6, <3>1, <3>2 DEF LoadStep
    <2>8. e \notin ToSet(h)
      <3>1. DOMAIN list = 1 .. L
        BY <1>1
      <3>2. ASSUME NEW i \in 1 .. n PROVE list[i] # list[m]
        <4>1. i \in 1 .. L /\ m \in 1 .. L /\ i # m
          BY <2>2
        <4>2. \A a, b \in 1 .. L : list[a] = list[b] => a = b
          BY <3>1 DEF IsInjective
        <4> QED
          BY <4>1, <4>2
      <3> QED
        BY <2>5, <2>6, <3>2 DEF Elements
    <2>9. Elements(list, m) = Elements(list, n) \cup {e}
      <3>1. 1 .. m = (1 .. n) \cup {m}
        BY <2>2
      <3> QED
        BY <2>6, <3>1 DEF Elements
    <2>10. /\ IsHeap(key, HeapPush(key, h, e)) /\ Len(HeapPush(key, h, e)) = m
           /\ ToSet(HeapPush(key, h, e)) = Elements(list, m)
      BY <2>2, <2>5, <2>8, <2>9, PushGives
    <2>11. Expand(n, room) \in Nat /\ m <= Expand(n, room)
      BY <1>3, <2>2, <2>4 DEF Expand
    <2> QED
      BY <2>2, <2>7, <2>10, <2>11
  <1>6. L \in Q
    <2> HIDE DEF Q
    <2> QED
      BY <1>4, <1>5, Induct
  <1>7. Good(L)
    BY <1>6
  <1> QED
    BY <1>1, <1>2, <1>7

-----------------------------------------------------------------------------
(* The heap under the loop of main.                                         *)

\* What IInv says of the heap, of whatever state.
Sound(key, h, room) ==
    /\ key \in [Events -> Int] /\ IsHeap(key, h) /\ Qt \in ToSet(h)
    /\ room \in Nat /\ Len(h) <= room /\ key[Qt] <= Quantum

LEMMA IsHeapMeans ==
    ASSUME NEW key, NEW h
    PROVE  IsHeap(key, h) <=>
             /\ h \in Seq(Events) /\ IsInjective(h)
             /\ \A p \in 2 .. Len(h) : Leq(key, h[p \div 2], h[p])
  <1>1. ASSUME h \in Seq(Events) PROVE IsInjective(h) <=> Distinct(h, Len(h))
    <2>1. DOMAIN h = 1 .. Len(h)
      BY <1>1, LenProperties
    <2> QED
      BY <2>1 DEF IsInjective, Distinct
  <1> QED
    BY <1>1 DEF IsHeap, Ordered, Leq

LEMMA SoundFrom ==
    ASSUME IInv
    PROVE  /\ Sound(left, heap, elems_nr) /\ Len(heap) \in Nat \ {0}
           /\ heap[1] \in ToSet(heap) /\ ToSet(heap) \subseteq Events
  <1>1. TypeOK /\ HeapSound /\ left[Qt] <= Quantum
    BY DEF IInv, HeapSound
  <1>2. IsHeap(left, heap)
    BY <1>1, IsHeapMeans DEF HeapSound, TypeOK
  <1>3. heap \in Seq(Events) /\ Qt \in ToSet(heap)
    BY <1>1 DEF HeapSound, TypeOK
  <1>4. PICK n \in Nat : /\ n = Len(heap) /\ heap \in [1 .. n -> Events]
                         /\ ToSet(heap) = Elements(heap, n)
    BY <1>3, Array
  <1>5. n # 0 /\ heap[1] \in ToSet(heap) /\ ToSet(heap) \subseteq Events
    BY <1>3, <1>4 DEF Elements
  <1> QED
    BY <1>1, <1>2, <1>4, <1>5 DEF Sound, HeapSound, TypeOK

LEMMA SoundTo ==
    ASSUME Sound(left, heap, elems_nr), phase \in {"pass", "select"}, wake \in 0 .. Quantum,
           reset_qt \in BOOLEAN
    PROVE  IInv
  <1>1. heap \in Seq(Events) /\ IsHeap(left, heap)
    BY DEF Sound, IsHeap
  <1>2. IsInjective(heap) /\ \A p \in 2 .. Len(heap) : Leq(left, heap[p \div 2], heap[p])
    BY <1>1, IsHeapMeans
  <1> QED
    BY <1>1, <1>2 DEF Sound, IInv, HeapSound, TypeOK

LEMMA SoundToNext ==
    ASSUME Sound(left', heap', elems_nr'), phase' \in {"pass", "select"}, wake' \in 0 .. Quantum,
           reset_qt' \in BOOLEAN
    PROVE  IInv'
  <1>1. heap' \in Seq(Events) /\ IsHeap(left', heap')
    BY DEF Sound, IsHeap
  <1>2. IsInjective(heap') /\ \A p \in 2 .. Len(heap') : Leq(left', heap'[p \div 2], heap'[p])
    BY <1>1, IsHeapMeans
  <1> QED
    BY <1>1, <1>2 DEF Sound, IInv, HeapSound, TypeOK, Leq

LEMMA QtFacts == Qt \in Events /\ Qt \notin Progs /\ Quantum \in Nat \ {0} /\ Progs \subseteq Events
  BY EventsAssumption, TimesAssumption DEF Events

\* The start: every event is in the heap.
LEMMA InitSound ==
    ASSUME Init
    PROVE  /\ IInv /\ ToSet(heap) = Events /\ left \in [Events -> Nat]
  <1>1. left \in [Events -> Nat] /\ left[Qt] = Quantum
    <2>1. PICK start \in [Progs -> 0 .. MaxStart] :
            left = [e \in Events |-> IF e = Qt THEN Quantum ELSE start[e]]
      BY DEF Init
    <2>2. ASSUME NEW e \in Events PROVE left[e] \in Nat
      <3>1. e = Qt \/ (e # Qt /\ e \in Progs)
        BY DEF Events
      <3> QED
        BY <2>1, <3>1, QtFacts, TimesAssumption
    <2> QED
      BY <2>1, <2>2, QtFacts
  <1>2. PICK list : list = Order \o <<Qt>>
    OBVIOUS
  <1>3. /\ list \in Seq(Events) /\ IsInjective(list) /\ ToSet(list) = Events
    <2>1. Order \in Seq(Events)
      BY EventsAssumption, QtFacts, SeqMonotonic
    <2>2. PICK L \in Nat : L = Len(Order) /\ DOMAIN Order = 1 .. L
      BY <2>1, LenProperties
    <2>3. <<Qt>> \in Seq(Events) /\ Len(<<Qt>>) = 1 /\ <<Qt>>[1] = Qt
      BY QtFacts
    <2>4. /\ list \in Seq(Events) /\ Len(list) = L + 1
          /\ \A i \in 1 .. L + 1 : list[i] = IF i <= L THEN Order[i] ELSE <<Qt>>[i - L]
      BY <1>2, <2>1, <2>2, <2>3, ConcatProperties
    <2>5. DOMAIN list = 1 .. L + 1
      BY <2>4, LenProperties
    <2>6. (\A i \in 1 .. L : list[i] = Order[i]) /\ list[L + 1] = Qt
      <3>1. ASSUME NEW i \in 1 .. L PROVE list[i] = Order[i]
        BY <2>4
      <3>2. list[L + 1] = <<Qt>>[1]
        BY <2>4
      <3> QED
        BY <2>3, <3>1, <3>2
    <2>7. /\ \A i \in 1 .. L : Order[i] \in Progs
          /\ \A i, j \in 1 .. L : Order[i] = Order[j] => i = j
          /\ \A e \in Progs : \E i \in 1 .. L : Order[i] = e
      BY <2>2, EventsAssumption DEF IsInjective, ToSet
    <2>8. \A i \in 1 .. L + 1 : i \in 1 .. L \/ i = L + 1
      OBVIOUS
    <2>9. IsInjective(list)
      BY <2>5, <2>6, <2>7, <2>8, QtFacts DEF IsInjective
    <2>10. ToSet(list) = Events
      BY <2>5, <2>6, <2>7, <2>8 DEF ToSet, Events
    <2> QED
      BY <2>4, <2>9, <2>10
  <1>4. left \in [Events -> Int]
    BY <1>1
  <1>5. /\ IsHeap(left, Loaded(left, list).heap)
        /\ ToSet(Loaded(left, list).heap) = ToSet(list)
        /\ Loaded(left, list).room \in Nat
        /\ Len(Loaded(left, list).heap) <= Loaded(left, list).room
    BY <1>3, <1>4, LoadGives
  <1>6. heap = Loaded(left, list).heap /\ elems_nr = Loaded(left, list).room
    BY <1>2 DEF Init
  <1>7. Sound(left, heap, elems_nr)
    BY <1>1, <1>3, <1>4, <1>5, <1>6, QtFacts DEF Sound
  <1>8. phase \in {"pass", "select"} /\ wake \in 0 .. Quantum /\ reset_qt \in BOOLEAN
    <2>1. phase = "pass" /\ wake = 0 /\ reset_qt = FALSE
      BY DEF Init
    <2>2. wake \in 0 .. Quantum
      BY <2>1, QtFacts
    <2> QED
      BY <2>1, <2>2
  <1> QED
    BY <1>1, <1>3, <1>5, <1>6, <1>7, <1>8, SoundTo

-----------------------------------------------------------------------------
(* The actions.                                                             *)

\* A program is handled.
LEMMA ProgHandled ==
    ASSUME IInv, NEW e \in Progs, HandleProg(e)
    PROVE  /\ Sound(left', heap', elems_nr') /\ ToSet(heap') = ToSet(heap) \ {e}
           /\ e \in ToSet(heap) /\ left[e] <= 0 /\ \A f \in ToSet(heap) : left[e] <= left[f]
  <1>1. /\ left \in [Events -> Int] /\ IsHeap(left, heap) /\ Len(heap) \in Nat \ {0}
        /\ Qt \in ToSet(heap) /\ elems_nr \in Nat /\ Len(heap) <= elems_nr /\ left[Qt] <= Quantum
        /\ heap[1] \in ToSet(heap)
    BY SoundFrom DEF Sound
  <1>2. e # Qt /\ e \in Events
    BY QtFacts
  <1>3. PICK h : h = HeapPopAt(left, heap, 1)
    OBVIOUS
  <1>4. IsHeap(left, h) /\ ToSet(h) = ToSet(heap) \ {heap[1]} /\ Len(h) = Len(heap) - 1
    BY <1>1, <1>3, PopFirst
  <1>5. /\ heap[1] = e /\ left[e] <= 0 /\ heap' = h /\ left' = [left EXCEPT ![e] = 0]
        /\ elems_nr' = elems_nr
    BY <1>3 DEF HandleProg, Due
  <1>6. /\ left' \in [Events -> Int] /\ left'[Qt] = left[Qt]
        /\ \A f \in Events : f # e => left'[f] = left[f]
    BY <1>1, <1>2, <1>5, QtFacts
  <1>7. ToSet(h) \subseteq Events
    BY <1>4, SoundFrom
  <1>8. \A f \in ToSet(h) : left'[f] = left[f]
    BY <1>4, <1>5, <1>6, <1>7
  <1>9. IsHeap(left', h)
    BY <1>4, <1>8, Rekeyed
  <1>10. \A f \in ToSet(heap) : left[e] <= left[f]
    BY <1>1, <1>5, FirstLeast
  <1>11. Len(h) <= elems_nr
    BY <1>1, <1>4
  <1> QED
    BY <1>1, <1>2, <1>4, <1>5, <1>6, <1>9, <1>10, <1>11 DEF Sound

\* The quantum expires.
LEMMA QuantumHandled ==
    ASSUME IInv, HandleQuantum
    PROVE  /\ Sound(left', heap', elems_nr') /\ ToSet(heap') = ToSet(heap)
           /\ left[Qt] <= 0 /\ \A f \in ToSet(heap) : left[Qt] <= left[f]
           /\ left' = [left EXCEPT ![Qt] = Quantum]
  <1>1. /\ left \in [Events -> Int] /\ IsHeap(left, heap) /\ Len(heap) \in Nat \ {0}
        /\ Qt \in ToSet(heap) /\ elems_nr \in Nat /\ Len(heap) <= elems_nr
    BY SoundFrom DEF Sound
  <1>2. PICK h : h = HeapPopAt(left, heap, 1)
    OBVIOUS
  <1>3. IsHeap(left, h) /\ ToSet(h) = ToSet(heap) \ {heap[1]} /\ Len(h) = Len(heap) - 1
    BY <1>1, <1>2, PopFirst
  <1>4. PICK key : key = left'
    OBVIOUS
  <1>5. /\ heap[1] = Qt /\ left[Qt] <= 0 /\ key = [left EXCEPT ![Qt] = Quantum]
        /\ heap' = HeapPush(key, h, Qt) /\ elems_nr' = Expand(Len(heap) - 1, elems_nr)
    BY <1>2, <1>4 DEF HandleQuantum, Due, Tick
  <1>6. /\ key \in [Events -> Int] /\ key[Qt] = Quantum
        /\ \A f \in Events : f # Qt => key[f] = left[f]
    BY <1>1, <1>5, QtFacts
  <1>7. ToSet(h) \subseteq Events
    BY <1>3, SoundFrom
  <1>8. \A f \in ToSet(h) : key[f] = left[f]
    BY <1>3, <1>5, <1>6, <1>7
  <1>9. IsHeap(key, h)
    BY <1>3, <1>8, Rekeyed
  <1>10. Qt \in Events /\ Qt \notin ToSet(h)
    BY <1>3, <1>5, QtFacts
  <1>11. /\ IsHeap(key, HeapPush(key, h, Qt)) /\ Len(HeapPush(key, h, Qt)) = Len(h) + 1
         /\ ToSet(HeapPush(key, h, Qt)) = ToSet(h) \cup {Qt}
    BY <1>6, <1>9, <1>10, PushGives
  <1>12. ToSet(heap') = ToSet(heap)
    BY <1>1, <1>3, <1>5, <1>11
  <1>13. elems_nr' \in Nat /\ Len(heap') <= elems_nr'
    <2>1. Len(heap') = Len(heap)
      BY <1>1, <1>3, <1>5, <1>11
    <2>2. PICK n, room \in Nat : n = Len(heap) /\ room = elems_nr /\ n <= room
      BY <1>1
    <2>3. Expand(n - 1, room) = room
      BY <2>2 DEF Expand
    <2> QED
      BY <1>5, <2>1, <2>2, <2>3
  <1>14. \A f \in ToSet(heap) : left[Qt] <= left[f]
    BY <1>1, <1>5, FirstLeast
  <1>15. key[Qt] <= Quantum
    BY <1>6, QtFacts
  <1> QED
    BY <1>1, <1>4, <1>5, <1>6, <1>11, <1>12, <1>13, <1>14, <1>15 DEF Sound

\* A program is respawned.
LEMMA ProgPushed ==
    ASSUME IInv, NEW e \in Progs, Respawn(e)
    PROVE  /\ Sound(left', heap', elems_nr') /\ ToSet(heap') = ToSet(heap) \cup {e}
           /\ e \notin ToSet(heap) /\ left'[e] <= 0 /\ left' = [left EXCEPT ![e] = left'[e]]
  <1>1. /\ left \in [Events -> Int] /\ IsHeap(left, heap) /\ Len(heap) \in Nat \ {0}
        /\ Qt \in ToSet(heap) /\ elems_nr \in Nat /\ Len(heap) <= elems_nr /\ left[Qt] <= Quantum
        /\ ToSet(heap) \subseteq Events
    BY SoundFrom DEF Sound
  <1>2. e # Qt /\ e \in Events
    BY QtFacts
  <1>3. PICK f \in 0 .. MaxFraction : left' = [left EXCEPT ![e] = -f]
    BY DEF Respawn
  <1>4. f \in Nat
    BY TimesAssumption
  <1>5. PICK key : key = left'
    OBVIOUS
  <1>6. /\ key \in [Events -> Int] /\ key[e] = -f /\ key[Qt] = left[Qt]
        /\ \A g \in Events : g # e => key[g] = left[g]
    BY <1>1, <1>2, <1>3, <1>4, <1>5, QtFacts
  <1>7. /\ e \notin ToSet(heap) /\ heap' = HeapPush(key, heap, e)
        /\ elems_nr' = Expand(Len(heap), elems_nr)
    BY <1>5 DEF Respawn
  <1>8. IsHeap(key, heap)
    <2>1. \A g \in ToSet(heap) : key[g] = left[g]
      BY <1>1, <1>6, <1>7
    <2> QED
      BY <1>1, <2>1, Rekeyed
  <1>9. /\ IsHeap(key, HeapPush(key, heap, e)) /\ Len(HeapPush(key, heap, e)) = Len(heap) + 1
        /\ ToSet(HeapPush(key, heap, e)) = ToSet(heap) \cup {e}
    BY <1>2, <1>6, <1>7, <1>8, PushGives
  <1>10. elems_nr' \in Nat /\ Len(heap') <= elems_nr'
    <2>1. PICK n, room \in Nat : n = Len(heap) /\ room = elems_nr /\ n <= room
      BY <1>1
    <2>2. Expand(n, room) \in Nat /\ n + 1 <= Expand(n, room)
      BY <2>1, GrainAssumption DEF Expand
    <2> QED
      BY <1>7, <1>9, <2>1, <2>2
  <1>11. key[e] <= 0
    BY <1>4, <1>6
  <1> QED
    BY <1>1, <1>3, <1>5, <1>6, <1>7, <1>9, <1>10, <1>11 DEF Sound

\* Time passes for all events of a heap, or for all but qt_event.
Aged(other, key, h, d) == \A f \in ToSet(h) : other[f] = key[f] - d
AgedBut(other, key, h, d) == \A f \in ToSet(h) : f # Qt => other[f] = key[f] - d

LEMMA AgedHeap ==
    ASSUME NEW key \in [Events -> Int], NEW h, IsHeap(key, h), NEW d \in Nat,
           NEW other, Aged(other, key, h, d)
    PROVE  IsHeap(other, h)
  <1>1. h \in Seq(Events) /\ Ordered(key, h, Len(h)) /\ Distinct(h, Len(h))
    BY DEF IsHeap
  <1>2. PICK n \in Nat : n = Len(h) /\ h \in [1 .. n -> Events] /\ ToSet(h) = Elements(h, n)
    BY <1>1, Array
  <1>3. \A i \in 1 .. n : other[h[i]] = key[h[i]] - d /\ key[h[i]] \in Int
    BY <1>2 DEF Elements, Aged
  <1>4. ASSUME NEW i \in 2 .. n PROVE other[h[i \div 2]] <= other[h[i]]
    <2>1. PICK u \in 1 .. n : u = i \div 2
      BY Half
    <2>2. i \in 1 .. n /\ key[h[u]] <= key[h[i]]
      BY <1>1, <1>2, <2>1 DEF Ordered
    <2> QED
      BY <1>3, <2>1, <2>2
  <1> QED
    BY <1>1, <1>2, <1>4 DEF IsHeap, Ordered

\* When the quantum is put off in place, only the children of qt_event can
\* come before it: it was not due later than after a whole quantum.
LEMMA PutOff ==
    ASSUME NEW key \in [Events -> Int], NEW h, IsHeap(key, h), NEW d \in Nat,
           key[Qt] <= Quantum, NEW other, AgedBut(other, key, h, d), other[Qt] = Quantum,
           NEW p \in 1 .. Len(h), h[p] = Qt
    PROVE  OrderedButDown(other, h, Len(h), p)
  <1>1. h \in Seq(Events) /\ Ordered(key, h, Len(h)) /\ Distinct(h, Len(h))
    BY DEF IsHeap
  <1>2. PICK n \in Nat : n = Len(h) /\ h \in [1 .. n -> Events] /\ ToSet(h) = Elements(h, n)
    BY <1>1, Array
  <1>3. p \in 1 .. n /\ \A i \in 1 .. n : i # p => h[i] # Qt
    BY <1>1, <1>2 DEF Distinct
  <1>4. \A i \in 1 .. n : key[h[i]] \in Int /\ (i # p => other[h[i]] = key[h[i]] - d)
    BY <1>2, <1>3 DEF Elements, AgedBut
  <1>5. PICK k, q \in Int : k = key[Qt] /\ q = Quantum /\ k <= q /\ other[Qt] = q
    BY QtFacts
  <1>6. ASSUME NEW i \in 2 .. n, i \div 2 # p PROVE other[h[i \div 2]] <= other[h[i]]
    <2>1. PICK u \in 1 .. n : u = i \div 2 /\ u # p
      BY <1>6, Half
    <2>2. i \in 1 .. n /\ key[h[u]] <= key[h[i]]
      BY <1>1, <1>2, <2>1 DEF Ordered
    <2>3. PICK a, b \in Int : a = key[h[u]] /\ b = key[h[i]] /\ a <= b /\ other[h[u]] = a - d
      BY <1>4, <2>1, <2>2
    <2>4. CASE i = p
      <3>1. b = k /\ other[h[i]] = q
        BY <1>5, <2>3, <2>4
      <3> QED
        BY <1>5, <2>1, <2>3, <3>1
    <2>5. CASE i # p
      <3>1. other[h[i]] = b - d
        BY <1>4, <2>2, <2>3, <2>5
      <3> QED
        BY <2>1, <2>3, <3>1
    <2> QED
      BY <2>4, <2>5
  <1>7. ASSUME p >= 2, NEW i \in 2 .. n, i \div 2 = p PROVE other[h[p \div 2]] <= other[h[i]]
    <2>1. PICK u \in 1 .. n : u = p \div 2 /\ u # p
      BY <1>3, <1>7, Half
    <2>2. i \in 1 .. n /\ i # p /\ p \in 2 .. n
      BY <1>3, <1>7, Half
    <2>3. key[h[u]] <= key[h[p]] /\ key[h[p]] <= key[h[i]]
      BY <1>1, <1>2, <1>7, <2>1, <2>2 DEF Ordered
    <2>4. PICK a, b, c \in Int : /\ a = key[h[u]] /\ b = key[h[i]] /\ c = key[h[p]]
                                 /\ other[h[u]] = a - d /\ other[h[i]] = b - d
      <3>1. key[h[u]] \in Int /\ key[h[i]] \in Int /\ key[h[p]] \in Int
        BY <1>3, <1>4, <2>1, <2>2
      <3>2. other[h[u]] = key[h[u]] - d /\ other[h[i]] = key[h[i]] - d
        BY <1>4, <2>1, <2>2
      <3> QED
        BY <3>1, <3>2
    <2>5. a <= b
      <3>1. a <= c /\ c <= b
        BY <2>3, <2>4, Zenon
      <3> QED
        BY <3>1
    <2> QED
      BY <2>1, <2>4, <2>5
  <1> QED
    BY <1>2, <1>6, <1>7 DEF OrderedButDown, Around

\* select() returns.
LEMMA Slept ==
    ASSUME IInv, NEW d \in 0 .. MaxSleep, Select(d)
    PROVE  /\ Sound(left', heap', elems_nr') /\ ToSet(heap') = ToSet(heap)
           /\ \A e \in Events \ {Qt} : left'[e] = IF e \in ToSet(heap) THEN left[e] - d ELSE 0
           /\ left'[Qt] <= left[Qt] \/ left'[Qt] > 0
           /\ DOMAIN left' = Events
  <1>1. /\ left \in [Events -> Int] /\ IsHeap(left, heap) /\ Len(heap) \in Nat \ {0}
        /\ Qt \in ToSet(heap) /\ elems_nr \in Nat /\ Len(heap) <= elems_nr /\ left[Qt] <= Quantum
        /\ ToSet(heap) \subseteq Events
    BY SoundFrom DEF Sound
  <1>2. d \in Nat
    BY TimesAssumption
  <1>3. PICK key : key = left'
    OBVIOUS
  <1>4. key = [e \in Events |-> IF e = Qt /\ reset_qt THEN Quantum
                                ELSE IF e \in ToSet(heap) THEN left[e] - d ELSE 0]
    BY <1>3 DEF Select, ResetNow
  <1>5. key \in [Events -> Int] /\ DOMAIN key = Events
    <2>1. ASSUME NEW e \in Events PROVE key[e] \in Int
      BY <1>1, <1>2, <1>4, QtFacts
    <2> QED
      BY <1>4, <2>1
  <1>6. \A e \in Events \ {Qt} : key[e] = IF e \in ToSet(heap) THEN left[e] - d ELSE 0
    BY <1>4
  <1>7. AgedBut(key, left, heap, d)
    BY <1>1, <1>6 DEF AgedBut
  <1>8. CASE ~reset_qt
    <2>1. heap' = heap /\ elems_nr' = elems_nr
      BY <1>8 DEF Select, ResetNow
    <2>2. key[Qt] = left[Qt] - d
      BY <1>1, <1>4, <1>8, QtFacts
    <2>3. Aged(key, left, heap, d)
      BY <1>7, <2>2 DEF Aged, AgedBut
    <2>4. IsHeap(key, heap)
      BY <1>1, <1>2, <2>3, AgedHeap
    <2>5. key[Qt] <= left[Qt] /\ key[Qt] <= Quantum
      <3>1. left[Qt] \in Int /\ Quantum \in Int
        BY <1>1, QtFacts
      <3> QED
        BY <1>1, <1>2, <2>2, <3>1
    <2> QED
      BY <1>1, <1>3, <1>5, <1>6, <2>1, <2>4, <2>5 DEF Sound
  <1>9. CASE reset_qt
    <2>1. /\ heap' = HeapPush(key, HeapPopElem(key, heap, Qt), Qt)
          /\ elems_nr' = Expand(Len(heap) - 1, elems_nr)
      BY <1>3, <1>9 DEF Select, ResetNow
    <2>2. key[Qt] = Quantum
      BY <1>4, <1>9, QtFacts
    <2>3. heap \in Seq(Events) /\ Distinct(heap, Len(heap))
      BY <1>1 DEF IsHeap
    <2>4. PICK p \in 1 .. Len(heap) : /\ heap[p] = Qt
                                      /\ HeapPopElem(key, heap, Qt) = HeapPopAt(key, heap, p)
      BY <1>1, <2>3, PopElemAt
    <2>5. OrderedButDown(key, heap, Len(heap), p)
      BY <1>1, <1>2, <1>7, <2>2, <2>4, PutOff
    <2>6. PICK h : h = HeapPopAt(key, heap, p)
      OBVIOUS
    <2>7. IsHeap(key, h) /\ ToSet(h) = ToSet(heap) \ {Qt} /\ Len(h) = Len(heap) - 1
      BY <1>5, <2>3, <2>4, <2>5, <2>6, PopGives
    <2>8. Qt \in Events /\ Qt \notin ToSet(h)
      BY <2>7, QtFacts
    <2>9. /\ IsHeap(key, HeapPush(key, h, Qt)) /\ Len(HeapPush(key, h, Qt)) = Len(h) + 1
          /\ ToSet(HeapPush(key, h, Qt)) = ToSet(h) \cup {Qt}
      BY <1>5, <2>7, <2>8, PushGives
    <2>10. heap' = HeapPush(key, h, Qt)
      BY <2>1, <2>4, <2>6
    <2>11. ToSet(heap') = ToSet(heap)
      BY <1>1, <2>7, <2>9, <2>10
    <2>12. elems_nr' \in Nat /\ Len(heap') <= elems_nr'
      <3>1. Len(heap') = Len(heap)
        BY <1>1, <2>7, <2>9, <2>10
      <3>2. PICK n, room \in Nat : n = Len(heap) /\ room = elems_nr /\ n <= room
        BY <1>1
      <3>3. Expand(n - 1, room) = room
        BY <3>2 DEF Expand
      <3> QED
        BY <2>1, <3>1, <3>2, <3>3
    <2>13. key[Qt] <= Quantum /\ key[Qt] > 0
      BY <2>2, QtFacts
    <2> QED
      BY <1>1, <1>3, <1>5, <1>6, <2>9, <2>10, <2>11, <2>12, <2>13 DEF Sound
  <1> QED
    BY <1>8, <1>9 DEF IInv, HeapSound, TypeOK

-----------------------------------------------------------------------------
(* The theorems.                                                            *)

LEMMA Step ==
    ASSUME IInv, [Next]_vars PROVE IInv'
  <1>1. phase \in {"pass", "select"} /\ wake \in 0 .. Quantum /\ reset_qt \in BOOLEAN
    BY DEF IInv, HeapSound, TypeOK
  <1>2. ASSUME NEW e \in Progs, HandleProg(e) PROVE IInv'
    <2>1. phase' = phase /\ wake' = wake /\ reset_qt' = reset_qt
      BY <1>2 DEF HandleProg
    <2>2. Sound(left', heap', elems_nr')
      BY <1>2, ProgHandled
    <2> QED
      BY <1>1, <2>1, <2>2, SoundToNext
  <1>3. CASE HandleQuantum
    <2>1. phase' = phase /\ wake' = wake
      BY <1>3 DEF HandleQuantum
    <2>2. reset_qt' \in BOOLEAN
      BY <1>1, <1>3, ResetAssumption DEF HandleQuantum
    <2>3. Sound(left', heap', elems_nr')
      BY <1>3, QuantumHandled
    <2> QED
      BY <1>1, <2>1, <2>2, <2>3, SoundToNext
  <1>4. CASE EndPass
    <2>1. /\ phase' = "select" /\ reset_qt' = reset_qt /\ wake' = left[heap[1]]
          /\ left[heap[1]] > 0 /\ heap' = heap /\ elems_nr' = elems_nr /\ left' = left
      BY <1>4 DEF EndPass, Wakeup, Later
    <2>2. /\ left \in [Events -> Int] /\ IsHeap(left, heap) /\ Qt \in ToSet(heap)
          /\ left[Qt] <= Quantum /\ heap[1] \in Events
      BY SoundFrom DEF Sound
    <2>3. left[heap[1]] <= left[Qt]
      BY <2>2, FirstLeast
    <2>4. PICK a, b, q \in Int : a = left[heap[1]] /\ b = left[Qt] /\ q = Quantum
      BY <2>2, QtFacts
    <2>5. wake' \in 0 .. Quantum
      BY <2>1, <2>2, <2>3, <2>4
    <2>6. Sound(left', heap', elems_nr')
      BY <2>1, SoundFrom
    <2> QED
      BY <1>1, <2>1, <2>5, <2>6, SoundToNext
  <1>5. ASSUME NEW e \in Progs, Respawn(e) PROVE IInv'
    <2>1. phase' = phase /\ wake' = wake /\ reset_qt' = reset_qt
      BY <1>5 DEF Respawn
    <2>2. Sound(left', heap', elems_nr')
      BY <1>5, ProgPushed
    <2> QED
      BY <1>1, <2>1, <2>2, SoundToNext
  <1>6. ASSUME NEW d \in 0 .. MaxSleep, Select(d) PROVE IInv'
    <2>1. reset_qt' = reset_qt
      BY <1>6 DEF Select
    <2>2. phase' \in {"pass", "select"}
      BY <1>6 DEF Select
    <2>3. wake' \in 0 .. Quantum
      <3>1. d \in Nat /\ Quantum \in Nat
        BY TimesAssumption
      <3>2. wake' = IF d < wake THEN wake - d ELSE 0
        BY <1>6 DEF Select
      <3> QED
        BY <1>1, <3>1, <3>2
    <2>4. Sound(left', heap', elems_nr')
      BY <1>6, Slept
    <2> QED
      BY <1>1, <2>1, <2>2, <2>3, <2>4, SoundToNext
  <1>7. CASE UNCHANGED vars
    BY <1>7 DEF vars, IInv, HeapSound, TypeOK, Leq
  <1> QED
    BY <1>2, <1>3, <1>4, <1>5, <1>6, <1>7 DEF Next

\* The invariant of the loop of main and of heap.c under it.
THEOREM Inductive == Spec => []IInv
  <1>1. Init => IInv
    BY InitSound
  <1>2. IInv /\ [Next]_vars => IInv'
    BY Step
  <1> QED
    BY <1>1, <1>2, PTL DEF Spec

\* Whatever the number of programs, their start times and the quantum, no
\* event of the heap is due before its parent, none is in it twice, qt_event
\* always is, and the array has room for it.
THEOREM HeapCorrect == Spec => []HeapSound
  <1>1. IInv => HeapSound
    BY DEF IInv
  <1> QED
    BY <1>1, Inductive, PTL

\* Every step of the loop is one that EventQueue allows, or changes nothing
\* of it.
LEMMA StepMaps ==
    ASSUME IInv, [Next]_vars PROVE [Queue!Next]_<<ToSet(heap), left>>
  <1>1. ASSUME NEW e \in Progs, HandleProg(e) PROVE Queue!Next
    <2>1. left' = [left EXCEPT ![e] = 0]
      BY <1>1 DEF HandleProg
    <2>2. /\ ToSet(heap') = ToSet(heap) \ {e} /\ e \in ToSet(heap) /\ left[e] <= 0
          /\ \A f \in ToSet(heap) : left[e] <= left[f]
      BY <1>1, ProgHandled
    <2>3. Queue!HandleProg(e)
      BY <2>1, <2>2 DEF Queue!HandleProg, Queue!Earliest
    <2> QED
      BY <2>3 DEF Queue!Next
  <1>2. CASE HandleQuantum
    <2>1. /\ ToSet(heap') = ToSet(heap) /\ left[Qt] <= 0
          /\ \A f \in ToSet(heap) : left[Qt] <= left[f]
          /\ left' = [left EXCEPT ![Qt] = Quantum]
      BY <1>2, QuantumHandled
    <2>2. Qt \in ToSet(heap) /\ left \in [Events -> Int]
      BY SoundFrom DEF Sound
    <2>3. left'[Qt] = Quantum /\ Quantum > 0
      BY <2>1, <2>2, QtFacts
    <2>4. Queue!Earliest(Qt)
      BY <2>1, <2>2 DEF Queue!Earliest
    <2>5. Queue!HandleQuantum
      BY <2>1, <2>3, <2>4 DEF Queue!HandleQuantum, Queue!Restarted
    <2> QED
      BY <2>5 DEF Queue!Next
  <1>3. CASE EndPass
    BY <1>3 DEF EndPass
  <1>4. ASSUME NEW e \in Progs, Respawn(e) PROVE Queue!Next
    <2>1. /\ ToSet(heap') = ToSet(heap) \cup {e} /\ e \notin ToSet(heap) /\ left'[e] <= 0
          /\ left' = [left EXCEPT ![e] = left'[e]]
      BY <1>4, ProgPushed
    <2>2. Queue!Push(e)
      BY <2>1 DEF Queue!Push
    <2> QED
      BY <2>2 DEF Queue!Next
  <1>5. ASSUME NEW d \in 0 .. MaxSleep, Select(d) PROVE Queue!Next
    <2>1. /\ ToSet(heap') = ToSet(heap)
          /\ \A e \in Events \ {Qt} : left'[e] = IF e \in ToSet(heap) THEN left[e] - d ELSE 0
          /\ left'[Qt] <= left[Qt] \/ left'[Qt] > 0
          /\ DOMAIN left' = Events
      BY <1>5, Slept
    <2>2. Queue!Events = Events
      BY DEF Queue!Events, Events
    <2>3. Queue!Sleep
      BY <2>1, <2>2 DEF Queue!Sleep, Queue!Restarted
    <2> QED
      BY <2>3 DEF Queue!Next
  <1>6. CASE UNCHANGED vars
    BY <1>6 DEF vars
  <1> QED
    BY <1>1, <1>2, <1>3, <1>4, <1>5, <1>6 DEF Next

\* The loop of main over heap.c implements EventQueue: it handles each event
\* once, none before its time, and the earliest first.
THEOREM QueueImplemented == Spec => ImplementsQueue
  <1>1. Init => Queue!Init
    <2>1. Queue!Events = Events
      BY DEF Queue!Events, Events
    <2> QED
      BY <2>1, InitSound DEF Queue!Init
  <1>2. IInv /\ [Next]_vars => [Queue!Next]_<<ToSet(heap), left>>
    BY StepMaps
  <1> QED
    BY <1>1, <1>2, Inductive, PTL DEF Spec, ImplementsQueue, Queue!Spec
=============================================================================
