-------------------------- MODULE HashTable_proofs --------------------------
(***************************************************************************)
(* Proofs about HashTable.  A program that is in the table is found, by    *)
(* its pid and no other, whatever was inserted and deleted before, because *)
(* an entry keeps its neighbours: IInv says so of the pointers, one by one.*)
(* The lemmas of the first part derive from it what a walk along the       *)
(* pointers finds.  They are stated for any tb, ky, nx and us, so that     *)
(* they serve for table, key, next and used before a step and after it.    *)
(***************************************************************************)
EXTENDS HashTable, FiniteSetTheorems, WellFoundedInduction, TLAPS

-----------------------------------------------------------------------------
(* Induction over the natural numbers, stated for a set of them.            *)

\* A set of natural numbers that is not empty has a least element.
LEMMA LeastNat ==
    ASSUME NEW T \in SUBSET Nat, T # {}
    PROVE  \E n \in T : \A m \in T : n <= m
  <1>1. PICK n \in T : \A m \in T : ~ (<<m, n>> \in OpToRel(<, Nat))
    BY NatLessThanWellFounded, WFMin
  <1>2. ASSUME NEW m \in T PROVE n <= m
    <2>1. m \in Nat /\ n \in Nat /\ ~(m < n)
      BY <1>1 DEF OpToRel
    <2> QED
      BY <2>1
  <1> QED
    BY <1>2

\* A set of numbers that has 0, and with a number the next, has them all.
LEMMA Induct ==
    ASSUME NEW Q, 0 \in Q, \A n \in Nat : n \in Q => n + 1 \in Q
    PROVE  \A n \in Nat : n \in Q
  <1> SUFFICES ASSUME Nat \ Q # {} PROVE FALSE
    OBVIOUS
  <1>1. PICK n \in Nat \ Q : \A m \in Nat \ Q : n <= m
    BY LeastNat
  <1>2. n # 0 /\ n - 1 \in Nat
    BY <1>1
  <1>3. n - 1 \in Q
    BY <1>1, <1>2
  <1>4. (n - 1) + 1 = n
    BY <1>1
  <1> QED
    BY <1>1, <1>2, <1>3, <1>4

\* A set of sets that has a subset of the finite S, and with each smaller
\* subset also one that is an element larger, has S.
LEMMA Grow ==
    ASSUME NEW S, IsFiniteSet(S), NEW Q, NEW R \in SUBSET S, R \in Q,
           \A D \in SUBSET S : D \in Q /\ D # S => \E x \in S \ D : D \cup {x} \in Q
    PROVE  S \in Q
  <1> DEFINE Left == {n \in Nat : \E D \in SUBSET S : D \in Q /\ Cardinality(S \ D) = n}
  <1>1. \A D \in SUBSET S : IsFiniteSet(S \ D) /\ Cardinality(S \ D) \in Nat
    BY FS_Subset, FS_CardinalityType
  <1>2. Left \in SUBSET Nat /\ Left # {}
    <2>1. Cardinality(S \ R) \in Left
      BY <1>1
    <2> QED
      BY <2>1
  <1>3. PICK n \in Nat : n \in Left /\ \A m \in Left : n <= m
    <2> HIDE DEF Left
    <2> QED
      BY <1>2, LeastNat
  <1>4. PICK D \in SUBSET S : D \in Q /\ Cardinality(S \ D) = n
    BY <1>3
  <1>5. ASSUME D # S PROVE FALSE
    <2>1. PICK x \in S \ D : D \cup {x} \in Q
      BY <1>4, <1>5
    <2>2. PICK U \in SUBSET S : U = S \ D /\ x \in U
      BY <2>1
    <2>3. U \ {x} = S \ (D \cup {x}) /\ D \cup {x} \in SUBSET S
      BY <2>1, <2>2
    <2>4. Cardinality(U) = n /\ IsFiniteSet(U)
      BY <1>1, <1>4, <2>2
    <2>5. Cardinality(U \ {x}) = n - 1
      BY <2>2, <2>4, FS_RemoveElement
    <2>6. n - 1 \in Nat
      BY <1>1, <2>3, <2>5
    <2>7. n - 1 \in Left
      BY <2>1, <2>3, <2>5, <2>6
    <2>8. ~(n <= n - 1)
      OBVIOUS
    <2> QED
      BY <1>3, <2>7, <2>8
  <1> QED
    BY <1>4, <1>5


-----------------------------------------------------------------------------
(* Iterations.                                                              *)

\* s is what g gives when it is applied again and again to a, n times.
Iterates(s, a, g, n) == s[0] = a /\ \A i \in 1..n : s[i] = g[s[i - 1]]

LEMMA Iterated ==
    ASSUME NEW P, NEW a \in P, NEW g \in [P -> P], NEW N \in Nat
    PROVE  \E s \in [0..N -> P] : Iterates(s, a, g, N)
  <1> DEFINE Q == {n \in Nat : \E s \in [0..n -> P] : Iterates(s, a, g, n)}
  <1>1. 0 \in Q
    <2>1. [i \in 0..0 |-> a] \in [0..0 -> P] /\ Iterates([i \in 0..0 |-> a], a, g, 0)
      BY DEF Iterates
    <2> QED
      BY <2>1
  <1>2. ASSUME NEW n \in Nat, n \in Q PROVE n + 1 \in Q
    <2>1. PICK s \in [0..n -> P] : Iterates(s, a, g, n)
      BY <1>2
    <2> DEFINE t == [i \in 0..(n + 1) |-> IF i = n + 1 THEN g[s[n]] ELSE s[i]]
    <2>2. t \in [0..(n + 1) -> P]
      OBVIOUS
    <2>3. ASSUME NEW i \in 1..(n + 1) PROVE t[i] = g[t[i - 1]]
      <3>1. i - 1 \in 0..n /\ t[i - 1] = s[i - 1]
        OBVIOUS
      <3>2. CASE i = n + 1
        BY <3>1, <3>2
      <3>3. CASE i # n + 1
        <4>1. i \in 1..n /\ t[i] = s[i]
          BY <3>3
        <4> QED
          BY <2>1, <3>1, <4>1 DEF Iterates
      <3> QED
        BY <3>2, <3>3
    <2>4. t[0] = a
      BY <2>1 DEF Iterates
    <2> HIDE DEF t
    <2> QED
      BY <2>2, <2>3, <2>4 DEF Iterates
  <1>3. N \in Q
    <2> HIDE DEF Q
    <2> QED
      BY <1>1, <1>2, Induct
  <1> QED
    BY <1>3


\* The part of IInv that is about pointers and keys.
Fields(tb, ky, nx, us) ==
    /\ tb \in [0..(Size - 1) -> us \cup {Null}] /\ us \subseteq Nodes
    /\ ky \in [Nodes -> Nat] /\ nx \in [Nodes -> Pointers]
    /\ \A n \in us : ky[n] \in Keys /\ nx[n] \in us \cup {Null}

Links(tb, ky, nx, us) ==
    /\ \A b \in 0..(Size - 1) : tb[b] # Null => Bucket(ky[tb[b]]) = b
    /\ \A n \in us : nx[n] # Null => Bucket(ky[nx[n]]) = Bucket(ky[n])
    /\ \A m, n \in us : ky[m] = ky[n] => m = n
    /\ \A m, n \in us : nx[m] = nx[n] /\ nx[m] # Null => m = n
    /\ \A m \in us, b \in 0..(Size - 1) : nx[m] = tb[b] => nx[m] = Null
    /\ \A n \in us : n = tb[Bucket(ky[n])] \/ \E m \in us : nx[m] = n

Acyclic(nx) == \A S \in SUBSET Nodes : S # {} => \E n \in S : nx[n] \notin S

Shape(tb, ky, nx, us) == Fields(tb, ky, nx, us) /\ Links(tb, ky, nx, us) /\ Acyclic(nx)

LEMMA BucketType ==
    ASSUME NEW k \in Nat
    PROVE  Bucket(k) \in 0..(Size - 1)
  <1>1. Size \in Nat /\ Size > 0
    BY HashAssumption
  <1> QED
    BY <1>1 DEF Bucket

\* Entries of which each is pointed to by another would run in a circle.
LEMMA Source ==
    ASSUME NEW nx, Acyclic(nx), NEW T \in SUBSET Nodes, T # {}
    PROVE  \E m \in T : \A q \in T : nx[q] # m
  <1> SUFFICES ASSUME \A m \in T : \E q \in T : nx[q] = m PROVE FALSE
    OBVIOUS
  <1> DEFINE before == [m \in T |-> CHOOSE q \in T : nx[q] = m]
  <1>1. \A m \in T : before[m] \in T /\ nx[before[m]] = m
    OBVIOUS
  <1>2. before \in Injection(T, T)
    <2>1. before \in [T -> T]
      BY <1>1
    <2> HIDE DEF before
    <2> QED
      BY <1>1, <2>1 DEF Injection, IsInjective
  <1>3. IsFiniteSet(T)
    BY HashAssumption, FS_Subset
  <1>4. before \in Surjection(T, T)
    <2> HIDE DEF before
    <2> QED
      BY <1>2, <1>3, FS_Injection
  <1>5. \A q \in T : \E m \in T : before[m] = q
    BY <1>4 DEF Surjection
  <1>6. PICK q \in T : nx[q] \notin T
    BY DEF Acyclic
  <1>7. PICK m \in T : before[m] = q
    BY <1>5
  <1> QED
    BY <1>1, <1>6, <1>7

-----------------------------------------------------------------------------
(* The walk.                                                                *)

\* The walk goes on from one place to the next, and g is all of the loop:
\* what is found from each place on.
After(at, nx) == [prev |-> at.curr, curr |-> nx[at.curr]]

Ahead(g, k, ky, nx, at) ==
    IF at.curr = Null \/ ky[at.curr] = k THEN at ELSE g[After(at, nx)]

WalkIs(g, k, ky, nx) == g = [at \in Places |-> Ahead(g, k, ky, nx, at)]

At(p, c) == [prev |-> p, curr |-> c]

WalkOf(k, tb, ky, nx) ==
    (CHOOSE g : WalkIs(g, k, ky, nx))[At(tb[Bucket(k)], tb[Bucket(k)])]

LEMMA WalkUnfolded ==
    ASSUME NEW k
    PROVE  Walk(k) = WalkOf(k, table, key, next) /\ Walk(k)' = WalkOf(k, table', key', next')
  BY DEF Walk, WalkOf, WalkIs, Ahead, After, At

\* The loop ends: what it finds is defined entry by entry, from the ends of
\* the chains on.
LEMMA WalkExists ==
    ASSUME NEW k, NEW ky, NEW nx \in [Nodes -> Pointers], Acyclic(nx)
    PROVE  \E g : WalkIs(g, k, ky, nx)
  <1> DEFINE Closed(D) == \A c \in D \ {Null} : nx[c] \in D
             Right(g, D) == \A at \in Places : at.curr \in D => g[at] = Ahead(g, k, ky, nx, at)
             Q == {D \in SUBSET Pointers : Closed(D) /\ \E g : Right(g, D)}
  <1>1. {Null} \in SUBSET Pointers /\ {Null} \in Q
    <2> DEFINE g == [at \in Places |-> at]
    <2>1. Right(g, {Null})
      BY DEF Ahead
    <2>2. Closed({Null}) /\ \E f : Right(f, {Null})
      BY <2>1
    <2> QED
      BY <2>2 DEF Pointers
  <1>2. ASSUME NEW at \in Places, at.curr # Null PROVE After(at, nx) \in Places
    <2>1. at.curr \in Pointers /\ nx[at.curr] \in Pointers
      BY <1>2 DEF Places, Pointers
    <2> QED
      BY <2>1 DEF Places, After
  <1>3. ASSUME NEW D \in SUBSET Pointers, D \in Q, D # Pointers
        PROVE  \E x \in Pointers \ D : D \cup {x} \in Q
    <2>1. PICK x \in Pointers \ D : x = Null \/ (x \in Nodes /\ nx[x] \in D)
      <3>1. CASE Null \notin D
        <4>1. Null \in Pointers \ D
          BY <3>1 DEF Pointers
        <4> QED
          BY <4>1
      <3>2. CASE Null \in D
        <4>1. Nodes \ D # {}
          BY <1>3, <3>2 DEF Pointers
        <4>2. PICK x \in Nodes \ D : nx[x] \notin Nodes \ D
          BY <4>1 DEF Acyclic
        <4>3. nx[x] \in D
          BY <3>2, <4>2 DEF Pointers
        <4> QED
          BY <4>2, <4>3 DEF Pointers
      <3> QED
        BY <3>1, <3>2
    <2>2. PICK g : Right(g, D)
      BY <1>3
    <2> DEFINE h == [at \in Places |-> IF at.curr \in D THEN g[at] ELSE Ahead(g, k, ky, nx, at)]
    <2>3. ASSUME NEW at \in Places, at.curr \in D \cup {x}
          PROVE  h[at] = Ahead(h, k, ky, nx, at)
      <3>1. h[at] = Ahead(g, k, ky, nx, at)
        BY <2>1, <2>2, <2>3
      <3>2. CASE at.curr = Null
        BY <3>1, <3>2 DEF Ahead
      <3>3. CASE at.curr # Null
        <4>1. nx[at.curr] \in D
          BY <1>3, <2>1, <2>3, <3>3
        <4>2. After(at, nx) \in Places /\ After(at, nx).curr \in D
          BY <1>2, <3>3, <4>1 DEF After
        <4>3. h[After(at, nx)] = g[After(at, nx)]
          BY <4>2
        <4> HIDE DEF h
        <4> QED
          BY <3>1, <4>3 DEF Ahead
      <3> QED
        BY <3>2, <3>3
    <2>4. Closed(D \cup {x})
      BY <1>3, <2>1
    <2>5. D \cup {x} \in SUBSET Pointers
      BY <2>1
    <2> HIDE DEF h
    <2>6. Right(h, D \cup {x})
      BY <2>3
    <2> QED
      BY <2>1, <2>4, <2>5, <2>6
  <1>4. IsFiniteSet(Pointers)
    BY HashAssumption, FS_AddElement DEF Pointers
  <1>5. Pointers \in Q
    <2> HIDE DEF Q
    <2> QED
      BY <1>1, <1>3, <1>4, Grow
  <1>6. PICK g : Right(g, Pointers)
    BY <1>5
  <1> DEFINE h == [at \in Places |-> g[at]]
  <1>7. ASSUME NEW at \in Places PROVE h[at] = Ahead(h, k, ky, nx, at)
    <2>1. h[at] = Ahead(g, k, ky, nx, at)
      BY <1>6 DEF Places
    <2>2. at.curr # Null => h[After(at, nx)] = g[After(at, nx)]
      BY <1>2
    <2> HIDE DEF h
    <2> QED
      BY <2>1, <2>2 DEF Ahead
  <1>8. h = [at \in Places |-> Ahead(h, k, ky, nx, at)]
    BY <1>7
  <1> QED
    BY <1>8 DEF WalkIs

\* The same, as the lemmas below use it.
Follows(g, k, ky, nx) == \A at \in Places : g[at] = Ahead(g, k, ky, nx, at)

LEMMA WalkFollows ==
    ASSUME NEW k, NEW tb, NEW ky, NEW nx \in [Nodes -> Pointers], Acyclic(nx)
    PROVE  \E g : /\ Follows(g, k, ky, nx)
                  /\ WalkOf(k, tb, ky, nx) = g[At(tb[Bucket(k)], tb[Bucket(k)])]
  <1>1. PICK g : g = (CHOOSE h : WalkIs(h, k, ky, nx)) /\ WalkIs(g, k, ky, nx)
    BY WalkExists
  <1>2. Follows(g, k, ky, nx)
    BY <1>1 DEF WalkIs, Follows
  <1> QED
    BY <1>1, <1>2 DEF WalkOf

\* One step of the walk, from the entry c, with p before it.
LEMMA FollowStep ==
    ASSUME NEW k, NEW ky, NEW nx, NEW g, Follows(g, k, ky, nx),
           NEW p \in Pointers, NEW c \in Pointers
    PROVE  g[At(p, c)] = IF c = Null \/ ky[c] = k THEN At(p, c) ELSE g[At(c, nx[c])]
  <1>1. At(p, c) \in Places /\ At(p, c).curr = c
    BY DEF Places, At
  <1>2. After(At(p, c), nx) = At(c, nx[c])
    BY <1>1 DEF After, At
  <1> QED
    BY <1>1, <1>2 DEF Follows, Ahead

\* What the loop ends with: the entry of the key and the one that points to it,
\* or nothing when there is none.
Finds(w, k, tb, ky, nx, us) ==
    /\ w.curr = Null => \A n \in us : ky[n] # k
    /\ w.curr # Null => w.curr \in us /\ ky[w.curr] = k
    /\ w.curr # Null /\ w.curr # tb[Bucket(k)] => w.prev \in us /\ nx[w.prev] = w.curr

\* The walk that would find n when it began at m also finds it when it begins
\* before m: so it finds n from the first entry of the bucket on.
LEMMA FindsAll ==
    ASSUME NEW k \in Keys, NEW tb, NEW ky, NEW nx, NEW us, Shape(tb, ky, nx, us),
           NEW g, Follows(g, k, ky, nx), NEW n \in us, ky[n] = k
    PROVE  Finds(g[At(tb[Bucket(k)], tb[Bucket(k)])], k, tb, ky, nx, us)
           /\ g[At(tb[Bucket(k)], tb[Bucket(k)])].curr = n
  <1> DEFINE Good(m) == /\ g[At(m, m)].curr = n
                        /\ m # n => g[At(m, m)].prev \in us /\ nx[g[At(m, m)].prev] = n
             T == {m \in us : Bucket(ky[m]) = Bucket(k) /\ Good(m)}
  <1>1. us \subseteq Nodes /\ us \subseteq Pointers /\ \A m \in us : nx[m] \in us \cup {Null}
    BY DEF Shape, Fields, Pointers
  <1>2. n # Null
    BY <1>1, HashAssumption
  <1>3. \A p \in Pointers : g[At(p, n)] = At(p, n)
    BY <1>1, FollowStep
  <1>4. n \in T
    BY <1>1, <1>3 DEF At
  <1>5. ASSUME NEW m \in T, NEW q \in us, nx[q] = m PROVE q \in T
    <2>1. m \in us /\ m # Null /\ Bucket(ky[m]) = Bucket(k) /\ Good(m)
      BY <1>1, HashAssumption
    <2>2. Bucket(ky[q]) = Bucket(k)
      BY <1>5, <2>1 DEF Shape, Links
    <2>3. CASE q = n
      BY <1>4, <2>3
    <2>4. CASE q # n
      <3>1. ky[q] # k /\ q # Null /\ q \in Pointers
        BY <1>1, <2>4, HashAssumption DEF Shape, Links
      <3>2. g[At(q, q)] = g[At(q, m)]
        BY <1>5, <3>1, FollowStep
      <3>3. CASE m = n
        <4>1. g[At(q, q)] = At(q, n)
          BY <1>3, <3>1, <3>2, <3>3
        <4> QED
          BY <1>5, <2>2, <3>3, <4>1 DEF At
      <3>4. CASE m # n
        <4>1. ky[m] # k /\ m \in Pointers
          BY <1>1, <2>1, <3>4 DEF Shape, Links
        <4>2. g[At(q, m)] = g[At(m, nx[m])] /\ g[At(m, m)] = g[At(m, nx[m])]
          BY <2>1, <3>1, <4>1, FollowStep
        <4>3. Good(q)
          BY <2>1, <3>2, <3>4, <4>2
        <4> QED
          BY <2>2, <4>3
      <3> QED
        BY <3>3, <3>4
    <2> QED
      BY <2>3, <2>4
  <1>6. PICK m \in T : \A q \in T : nx[q] # m
    <2>1. T \in SUBSET Nodes /\ T # {}
      BY <1>1, <1>4
    <2> HIDE DEF T
    <2> QED
      BY <2>1, Source DEF Shape
  <1>7. m \in us /\ Bucket(ky[m]) = Bucket(k) /\ Good(m)
    OBVIOUS
  <1>8. m = tb[Bucket(k)]
    <2>1. m = tb[Bucket(ky[m])] \/ \E q \in us : nx[q] = m
      BY <1>7 DEF Shape, Links
    <2> HIDE DEF T
    <2> QED
      BY <1>5, <1>6, <1>7, <2>1
  <1> QED
    BY <1>2, <1>7, <1>8 DEF Finds

LEMMA WalkFinds ==
    ASSUME NEW k \in Keys, NEW tb, NEW ky, NEW nx, NEW us, Shape(tb, ky, nx, us)
    PROVE  Finds(WalkOf(k, tb, ky, nx), k, tb, ky, nx, us)
  <1>1. nx \in [Nodes -> Pointers] /\ Acyclic(nx)
    BY DEF Shape, Fields
  <1>2. PICK g : /\ Follows(g, k, ky, nx)
                 /\ WalkOf(k, tb, ky, nx) = g[At(tb[Bucket(k)], tb[Bucket(k)])]
    BY <1>1, WalkFollows
  <1>3. CASE \E n \in us : ky[n] = k
    BY <1>2, <1>3, FindsAll
  <1>4. CASE \A n \in us : ky[n] # k
    <2> DEFINE T == {n \in us : g[At(n, n)].curr # Null}
    <2>1. us \subseteq Nodes /\ us \subseteq Pointers /\ \A m \in us : nx[m] \in us \cup {Null}
      BY DEF Shape, Fields, Pointers
    <2>2. ASSUME NEW n \in T PROVE nx[n] \in T
      <3>1. n \in us /\ n # Null /\ ky[n] # k /\ n \in Pointers
        BY <1>4, <2>1, HashAssumption
      <3>2. g[At(n, n)] = g[At(n, nx[n])]
        BY <1>2, <3>1, FollowStep
      <3>3. nx[n] # Null
        <4>1. nx[n] = Null => g[At(n, nx[n])] = At(n, nx[n])
          BY <1>2, <3>1, FollowStep DEF Pointers
        <4> QED
          BY <3>2, <4>1 DEF At
      <3>4. nx[n] \in us /\ nx[n] \in Pointers /\ ky[nx[n]] # k
        BY <1>4, <2>1, <3>1, <3>3
      <3>5. g[At(n, nx[n])] = g[At(nx[n], nx[nx[n]])] /\ g[At(nx[n], nx[n])] = g[At(nx[n], nx[nx[n]])]
        BY <1>2, <3>1, <3>3, <3>4, FollowStep
      <3> QED
        BY <3>2, <3>4, <3>5
    <2>3. T = {}
      <3>1. T \in SUBSET Nodes
        BY <2>1
      <3> HIDE DEF T
      <3> QED
        BY <1>1, <2>2, <3>1 DEF Acyclic
    <2>4. Bucket(k) \in 0..(Size - 1) /\ tb[Bucket(k)] \in us \cup {Null}
      BY HashAssumption, BucketType DEF Shape, Fields
    <2>5. g[At(Null, Null)] = At(Null, Null)
      BY <1>2, FollowStep DEF Pointers
    <2>6. WalkOf(k, tb, ky, nx).curr = Null
      BY <1>2, <2>3, <2>4, <2>5 DEF At
    <2> QED
      BY <1>4, <2>6 DEF Finds
  <1> QED
    BY <1>3, <1>4

-----------------------------------------------------------------------------
(* The invariant.                                                           *)

LEMMA ShapeOf == IInv => Shape(table, key, next, used)
  BY DEF IInv, FieldsInv, LinkInv, NoCircle, Shape, Fields, Links, Acyclic

LEMMA ShapeNext == IInv' => Shape(table', key', next', used')
  BY DEF IInv, FieldsInv, LinkInv, NoCircle, Shape, Fields, Links, Acyclic

LEMMA WalkFindsNow ==
    ASSUME IInv, NEW k \in Keys
    PROVE  Finds(Walk(k), k, table, key, next, used)
  BY ShapeOf, WalkFinds, WalkUnfolded

LEMMA InitHolds == Init => IInv
  <1> SUFFICES ASSUME Init PROVE IInv
    OBVIOUS
  <1>1. FieldsInv
    BY DEF Init, FieldsInv, Pointers
  <1>2. LinkInv
    BY DEF Init, LinkInv
  <1>3. NoCircle
    BY HashAssumption DEF Init, NoCircle
  <1> QED
    BY <1>1, <1>2, <1>3 DEF IInv

\* A new entry, of a key that no entry has, at the beginning of its bucket.
LEMMA FrontKeeps ==
    ASSUME IInv, NEW k \in Keys, NEW v \in Vals, NEW n \in Nodes \ used,
           \A m \in used : key[m] # k, Front(k, v, n)
    PROVE  IInv'
  <1>1. /\ used \subseteq Nodes /\ table \in [0..(Size - 1) -> used \cup {Null}]
        /\ key \in [Nodes -> Nat] /\ next \in [Nodes -> Pointers] /\ k \in Nat
        /\ val \in [Nodes -> Vals \cup {NotFound}]
        /\ \A m \in used : key[m] \in Keys /\ val[m] \in Vals /\ next[m] \in used \cup {Null}
    BY HashAssumption DEF IInv, FieldsInv
  <1>2. PICK b \in 0..(Size - 1) : b = Bucket(k)
    BY <1>1, BucketType
  <1>3. /\ key' = [key EXCEPT ![n] = k] /\ val' = [val EXCEPT ![n] = v]
        /\ next' = [next EXCEPT ![n] = table[b]]
        /\ table' = [table EXCEPT ![b] = n] /\ used' = used \cup {n}
    BY <1>2 DEF Front
  <1>4. /\ n # Null /\ key'[n] = k /\ val'[n] = v /\ next'[n] = table[b]
        /\ table'[b] = n /\ \A c \in 0..(Size - 1) : c # b => table'[c] = table[c]
        /\ \A m \in Nodes : m # n => key'[m] = key[m] /\ val'[m] = val[m] /\ next'[m] = next[m]
    BY <1>1, <1>3, HashAssumption
  <1>5. FieldsInv'
    <2>1. /\ used' \subseteq Nodes /\ key' \in [Nodes -> Nat] /\ next' \in [Nodes -> Pointers]
          /\ val' \in [Nodes -> Vals \cup {NotFound}]
      BY <1>1, <1>3 DEF Pointers
    <2>2. table' \in [0..(Size - 1) -> used' \cup {Null}]
      BY <1>1, <1>3
    <2>3. ASSUME NEW m \in used'
          PROVE  key'[m] \in Keys /\ val'[m] \in Vals /\ next'[m] \in used' \cup {Null}
      BY <1>1, <1>3, <1>4
    <2> QED
      BY <2>1, <2>2, <2>3 DEF FieldsInv
  <1>6. LinkInv'
    <2>1. \A c \in 0..(Size - 1) : table'[c] # Null => Bucket(key'[table'[c]]) = c
      <3>1. \A c \in 0..(Size - 1) : table[c] # Null => table[c] \in used /\ Bucket(key[table[c]]) = c
        BY <1>1 DEF IInv, LinkInv
      <3> QED
        BY <1>1, <1>2, <1>4, <3>1
    <2>2. \A m \in used' : next'[m] # Null => Bucket(key'[next'[m]]) = Bucket(key'[m])
      <3>1. table[b] # Null => table[b] \in used /\ Bucket(key[table[b]]) = b
        BY <1>1 DEF IInv, LinkInv
      <3>2. \A m \in used : next[m] # Null => next[m] \in used /\ Bucket(key[next[m]]) = Bucket(key[m])
        BY <1>1 DEF IInv, LinkInv
      <3> QED
        BY <1>1, <1>2, <1>3, <1>4, <3>1, <3>2
    <2>3. \A l, m \in used' : key'[l] = key'[m] => l = m
      BY <1>1, <1>3, <1>4 DEF IInv, LinkInv
    <2>4. \A l, m \in used' : next'[l] = next'[m] /\ next'[l] # Null => l = m
      BY <1>1, <1>3, <1>4 DEF IInv, LinkInv
    <2>5. \A m \in used', c \in 0..(Size - 1) : next'[m] = table'[c] => next'[m] = Null
      <3>1. \A c \in 0..(Size - 1) : table[c] = table[b] /\ table[b] # Null => c = b
        BY <1>1 DEF IInv, LinkInv
      <3>2. \A m \in used, c \in 0..(Size - 1) : next[m] = table[c] => next[m] = Null
        BY DEF IInv, LinkInv
      <3> QED
        BY <1>1, <1>3, <1>4, <3>1, <3>2
    <2>6. ASSUME NEW m \in used' PROVE m = table'[Bucket(key'[m])] \/ \E l \in used' : next'[l] = m
      <3>1. CASE m = n
        BY <1>2, <1>4, <3>1
      <3>2. CASE m # n
        <4>1. m \in used /\ Bucket(key[m]) \in 0..(Size - 1) /\ key'[m] = key[m]
          BY <1>1, <1>3, <1>4, <3>2, BucketType
        <4>2. CASE m = table[Bucket(key[m])]
          <5>1. CASE Bucket(key[m]) = b
            BY <1>3, <1>4, <4>2, <5>1
          <5>2. CASE Bucket(key[m]) # b
            BY <1>4, <4>1, <4>2, <5>2
          <5> QED
            BY <5>1, <5>2
        <4>3. CASE \E l \in used : next[l] = m
          BY <1>1, <1>3, <1>4, <4>3
        <4> QED
          BY <4>1, <4>2, <4>3 DEF IInv, LinkInv
      <3> QED
        BY <3>1, <3>2
    <2> QED
      BY <2>1, <2>2, <2>3, <2>4, <2>5, <2>6 DEF LinkInv
  <1>7. NoCircle'
    <2>1. ASSUME NEW S \in SUBSET Nodes, S # {}, \A m \in S : next'[m] \in S PROVE FALSE
      <3>1. CASE n \notin S
        BY <1>4, <2>1, <3>1 DEF IInv, NoCircle
      <3>2. CASE n \in S
        <4>1. table[b] \in S \cap used
          BY <1>1, <1>4, <2>1, <3>2, HashAssumption
        <4>2. ASSUME NEW m \in S \cap used PROVE next[m] \in S \cap used
          BY <1>1, <1>4, <2>1, HashAssumption
        <4> QED
          BY <4>1, <4>2 DEF IInv, NoCircle
      <3> QED
        BY <3>1, <3>2
    <2> QED
      BY <2>1 DEF NoCircle
  <1> QED
    BY <1>5, <1>6, <1>7 DEF IInv

\* Only values change, and they are values.
LEMMA ValuesKeep ==
    ASSUME IInv, UNCHANGED <<table, key, next, used>>, val' \in [Nodes -> Vals \cup {NotFound}],
           \A n \in used : val'[n] \in Vals
    PROVE  IInv'
  <1>1. FieldsInv'
    BY DEF IInv, FieldsInv
  <1>2. LinkInv' /\ NoCircle'
    BY DEF IInv, LinkInv, NoCircle
  <1> QED
    BY <1>1, <1>2 DEF IInv

\* What points to the entry x, a bucket or another entry, points to the next one.
LEMMA UnlinkKeeps ==
    ASSUME IInv, NEW x \in used, NEW p, NEW b, b = Bucket(key[x]),
           x # table[b] => p \in used /\ next[p] = x,
           Unlink(b, p, x), used' = used \ {x}, UNCHANGED <<key, val>>
    PROVE  IInv'
  <1>1. /\ used \subseteq Nodes /\ table \in [0..(Size - 1) -> used \cup {Null}]
        /\ key \in [Nodes -> Nat] /\ next \in [Nodes -> Pointers]
        /\ val \in [Nodes -> Vals \cup {NotFound}] /\ x # Null /\ x \in Nodes
        /\ \A m \in used : key[m] \in Keys /\ val[m] \in Vals /\ next[m] \in used \cup {Null}
    BY HashAssumption DEF IInv, FieldsInv
  <1>2. b \in 0..(Size - 1)
    BY <1>1, BucketType
  <1>3. /\ \A c \in 0..(Size - 1) : table[c] # Null => Bucket(key[table[c]]) = c
        /\ \A n \in used : next[n] # Null => Bucket(key[next[n]]) = Bucket(key[n])
        /\ \A m, n \in used : key[m] = key[n] => m = n
        /\ \A m, n \in used : next[m] = next[n] /\ next[m] # Null => m = n
        /\ \A m \in used, c \in 0..(Size - 1) : next[m] = table[c] => next[m] = Null
        /\ \A n \in used : n = table[Bucket(key[n])] \/ \E m \in used : next[m] = n
    BY DEF IInv, LinkInv
  <1>4. \A S \in SUBSET Nodes : S # {} => \E n \in S : next[n] \notin S
    BY DEF IInv, NoCircle
  <1>5. next[x] # x
    <2>1. \E n \in {x} : next[n] \notin {x}
      BY <1>1, <1>4
    <2> QED
      BY <2>1
  <1>6. CASE x = table[b]
    <2>1. table' = [table EXCEPT ![b] = next[x]] /\ next' = next /\ key' = key /\ val' = val
      BY <1>6 DEF Unlink
    <2>2. /\ table'[b] = next[x] /\ \A c \in 0..(Size - 1) : c # b => table'[c] = table[c]
          /\ \A c \in 0..(Size - 1) : table'[c] # x
          /\ \A n \in used : next[n] # x
      <3>1. table'[b] = next[x] /\ \A c \in 0..(Size - 1) : c # b => table'[c] = table[c]
        BY <1>1, <1>2, <2>1
      <3>2. \A c \in 0..(Size - 1) : c # b => table[c] # x
        BY <1>1, <1>2, <1>3, <1>6
      <3>3. \A n \in used : next[n] # x
        BY <1>1, <1>2, <1>3, <1>6
      <3> QED
        BY <1>5, <3>1, <3>2, <3>3
    <2>3. FieldsInv'
      <3>1. table' \in [0..(Size - 1) -> used' \cup {Null}]
        BY <1>1, <1>2, <2>1, <2>2
      <3>2. \A n \in used' : next'[n] \in used' \cup {Null}
        BY <1>1, <2>1, <2>2
      <3> QED
        BY <1>1, <2>1, <3>1, <3>2 DEF FieldsInv
    <2>4. LinkInv'
      <3>1. \A c \in 0..(Size - 1) : table'[c] # Null => Bucket(key'[table'[c]]) = c
        BY <1>2, <1>3, <2>1, <2>2
      <3>2. /\ \A n \in used' : next'[n] # Null => Bucket(key'[next'[n]]) = Bucket(key'[n])
            /\ \A m, n \in used' : key'[m] = key'[n] => m = n
            /\ \A m, n \in used' : next'[m] = next'[n] /\ next'[m] # Null => m = n
        BY <1>3, <2>1
      <3>3. ASSUME NEW m \in used', NEW c \in 0..(Size - 1), next'[m] = table'[c]
            PROVE  next'[m] = Null
        BY <1>2, <1>3, <2>1, <2>2, <3>3
      <3>4. ASSUME NEW n \in used'
            PROVE  n = table'[Bucket(key'[n])] \/ \E m \in used' : next'[m] = n
        <4>1. n \in used /\ n # x /\ Bucket(key[n]) \in 0..(Size - 1)
          BY <1>1, BucketType
        <4>2. CASE n = table[Bucket(key[n])]
          BY <1>6, <2>1, <2>2, <4>1, <4>2
        <4>3. CASE \E m \in used : next[m] = n
          <5>1. PICK m \in used : next[m] = n
            BY <4>3
          <5>2. m = x => n = table'[Bucket(key'[n])]
            BY <1>1, <1>3, <2>1, <2>2, <4>1, <5>1, HashAssumption
          <5> QED
            BY <2>1, <5>1, <5>2
        <4> QED
          BY <1>3, <4>1, <4>2, <4>3
      <3> QED
        BY <3>1, <3>2, <3>3, <3>4 DEF LinkInv
    <2> QED
      BY <2>1, <2>3, <2>4 DEF IInv, NoCircle
  <1>7. CASE x # table[b]
    <2>1. next' = [next EXCEPT ![p] = next[x]] /\ table' = table /\ key' = key /\ val' = val
      BY <1>7 DEF Unlink
    <2>2. /\ p \in used /\ next[p] = x /\ p # x
          /\ next'[p] = next[x] /\ \A n \in Nodes : n # p => next'[n] = next[n]
      BY <1>1, <1>5, <1>7, <2>1
    <2>3. (\A n \in used : n # p => next[n] # x) /\ \A c \in 0..(Size - 1) : table[c] # x
      BY <1>1, <1>2, <1>3, <1>7, <2>2
    <2>4. FieldsInv'
      <3>1. next' \in [Nodes -> Pointers] /\ table' \in [0..(Size - 1) -> used' \cup {Null}]
        BY <1>1, <2>1, <2>3 DEF Pointers
      <3>2. \A n \in used' : next'[n] \in used' \cup {Null}
        BY <1>1, <1>5, <2>2, <2>3
      <3> QED
        BY <1>1, <2>1, <3>1, <3>2 DEF FieldsInv
    <2>5. LinkInv'
      <3>1. \A c \in 0..(Size - 1) : table'[c] # Null => Bucket(key'[table'[c]]) = c
        BY <1>3, <2>1
      <3>2. ASSUME NEW n \in used', next'[n] # Null
            PROVE  Bucket(key'[next'[n]]) = Bucket(key'[n])
        BY <1>1, <1>3, <2>1, <2>2, <3>2
      <3>3. \A m, n \in used' : key'[m] = key'[n] => m = n
        BY <1>3, <2>1
      <3>4. ASSUME NEW m \in used', NEW n \in used', next'[m] = next'[n], next'[m] # Null
            PROVE  m = n
        BY <1>1, <1>3, <2>2, <3>4
      <3>5. ASSUME NEW m \in used', NEW c \in 0..(Size - 1), next'[m] = table'[c]
            PROVE  next'[m] = Null
        BY <1>1, <1>3, <2>1, <2>2, <3>5
      <3>6. ASSUME NEW n \in used'
            PROVE  n = table'[Bucket(key'[n])] \/ \E m \in used' : next'[m] = n
        <4>1. n \in used /\ n # x
          OBVIOUS
        <4>2. CASE \E m \in used : next[m] = n
          <5>1. PICK m \in used : next[m] = n
            BY <4>2
          <5>2. m # p
            BY <2>2, <4>1, <5>1
          <5>3. m = x => p \in used' /\ next'[p] = n
            BY <2>2, <5>1
          <5>4. m # x => m \in used' /\ next'[m] = n
            BY <1>1, <2>2, <5>1, <5>2
          <5> QED
            BY <5>3, <5>4
        <4> QED
          BY <1>3, <2>1, <4>1, <4>2
      <3> QED
        BY <3>1, <3>2, <3>3, <3>4, <3>5, <3>6 DEF LinkInv
    <2>6. NoCircle'
      <3>1. ASSUME NEW S \in SUBSET Nodes, S # {}, \A n \in S : next'[n] \in S PROVE FALSE
        <4>1. CASE p \notin S
          BY <1>4, <2>2, <3>1, <4>1
        <4>2. CASE p \in S
          <5>1. \A n \in S \cup {x} : next[n] \in S \cup {x}
            BY <2>2, <3>1, <4>2
          <5>2. S \cup {x} \in SUBSET Nodes
            BY <1>1
          <5> QED
            BY <1>4, <5>1, <5>2
        <4> QED
          BY <4>1, <4>2
      <3> QED
        BY <3>1 DEF NoCircle
    <2> QED
      BY <2>4, <2>5, <2>6 DEF IInv
  <1> QED
    BY <1>6, <1>7

LEMMA StepKeeps == IInv /\ [Next]_vars => IInv'
  <1> SUFFICES ASSUME IInv, [Next]_vars PROVE IInv'
    OBVIOUS
  <1>1. val \in [Nodes -> Vals \cup {NotFound}] /\ \A n \in used : val[n] \in Vals /\ n \in Nodes
    BY DEF IInv, FieldsInv
  <1>2. ASSUME NEW k \in Keys PROVE /\ Find(k) = Null => \A n \in used : key[n] # k
                                    /\ Find(k) # Null => Find(k) \in used /\ key[Find(k)] = k
    BY WalkFindsNow DEF Finds, Find
  <1>3. ASSUME NEW k \in Keys, NEW v \in Vals, Insert(k, v) PROVE IInv'
    <2>1. CASE Find(k) # Null
      <3>1. val' = [val EXCEPT ![Find(k)] = v] /\ UNCHANGED <<table, key, next, used>>
        BY <1>3, <2>1 DEF Insert
      <3>2. val' \in [Nodes -> Vals \cup {NotFound}] /\ \A n \in used : val'[n] \in Vals
        BY <1>1, <3>1
      <3> QED
        BY <3>1, <3>2, ValuesKeep
    <2>2. CASE Find(k) = Null
      <3>1. PICK n \in Nodes \ used : Front(k, v, n)
        BY <1>3, <2>2 DEF Insert
      <3> QED
        BY <1>2, <2>2, <3>1, FrontKeeps
    <2> QED
      BY <2>1, <2>2
  <1>4. ASSUME NEW k \in Keys, Lookup(k) PROVE IInv'
    BY <1>1, <1>4, ValuesKeep DEF Lookup, entries
  <1>5. ASSUME NEW k \in Keys, Delete(k) PROVE IInv'
    <2>1. CASE Find(k) = Null
      BY <1>1, <1>5, <2>1, ValuesKeep DEF Delete, entries
    <2>2. CASE Find(k) # Null
      <3>1. PICK x \in used : x = Find(k) /\ key[x] = k
        BY <1>2, <2>2
      <3>2. Unlink(Bucket(k), Walk(k).prev, x) /\ used' = used \ {x} /\ UNCHANGED <<key, val>>
        BY <1>5, <2>2, <3>1 DEF Delete
      <3>3. x # table[Bucket(k)] => Walk(k).prev \in used /\ next[Walk(k).prev] = x
        BY <2>2, <3>1, WalkFindsNow DEF Finds, Find
      <3> QED
        BY <3>1, <3>2, <3>3, UnlinkKeeps
    <2> QED
      BY <2>1, <2>2
  <1>6. ASSUME NEW j \in Keys, NEW k \in Keys, Swap(j, k) PROVE IInv'
    <2>1. val' = val \/ /\ Find(j) # Null /\ Find(k) # Null
                        /\ val' = [val EXCEPT ![Find(j)] = val[Find(k)], ![Find(k)] = val[Find(j)]]
      BY <1>6 DEF Swap
    <2>2. Find(j) # Null /\ Find(k) # Null => Find(j) \in used /\ Find(k) \in used
      BY <1>2
    <2>3. val' \in [Nodes -> Vals \cup {NotFound}] /\ \A n \in used : val'[n] \in Vals
      BY <1>1, <2>1, <2>2
    <2>4. UNCHANGED <<table, key, next, used>>
      BY <1>6 DEF Swap
    <2> QED
      BY <2>3, <2>4, ValuesKeep
  <1>7. CASE UNCHANGED vars
    BY <1>1, <1>7, ValuesKeep DEF vars, entries
  <1> QED
    BY <1>3, <1>4, <1>5, <1>6, <1>7 DEF Next

\* The pointers are in order in every state that can be reached, whatever is
\* inserted, deleted and swapped, and wherever malloc puts the entries.
THEOREM Inductive == Spec => []IInv
  BY InitHolds, StepKeeps, PTL DEF Spec

-----------------------------------------------------------------------------
(* The chains.                                                              *)

\* s is what Chain(b) should be, with bound N.
Chained(s, b, N) ==
    /\ s \in [0..N -> used \cup {Null}] /\ s[0] = table[b]
    /\ \A i \in 1..N : s[i] = IF s[i - 1] = Null THEN Null ELSE next[s[i - 1]]

LEMMA ChainFollows ==
    ASSUME IInv, NEW b \in 0..(Size - 1)
    PROVE  Cardinality(Nodes) \in Nat /\ Chained(Chain(b), b, Cardinality(Nodes))
  <1>1. PICK N \in Nat : N = Cardinality(Nodes)
    BY HashAssumption, FS_CardinalityType
  <1> DEFINE Value(s, i) == IF i = 0 THEN table[b]
                            ELSE IF s[i - 1] = Null THEN Null ELSE next[s[i - 1]]
             Is(s) == s = [i \in 0..N |-> Value(s, i)]
             onward == [p \in used \cup {Null} |-> IF p = Null THEN Null ELSE next[p]]
  <1>2. table[b] \in used \cup {Null} /\ \A n \in used : next[n] \in used \cup {Null}
    BY DEF IInv, FieldsInv
  <1>3. onward \in [used \cup {Null} -> used \cup {Null}]
    BY <1>2
  <1>4. PICK s \in [0..N -> used \cup {Null}] : Iterates(s, table[b], onward, N)
    <2>1. PICK P : P = used \cup {Null}
      OBVIOUS
    <2>2. table[b] \in P /\ onward \in [P -> P]
      BY <1>2, <1>3, <2>1
    <2> HIDE DEF onward
    <2>3. \E s \in [0..N -> P] : Iterates(s, table[b], onward, N)
      BY <2>2, Iterated
    <2> QED
      BY <2>1, <2>3
  <1>5. ASSUME NEW i \in 0..N PROVE s[i] = Value(s, i)
    <2>1. CASE i = 0
      BY <1>4, <2>1 DEF Iterates
    <2>2. CASE i # 0
      <3>1. i \in 1..N /\ i - 1 \in 0..N
        BY <2>2
      <3>2. s[i] = onward[s[i - 1]] /\ s[i - 1] \in used \cup {Null}
        BY <1>4, <3>1 DEF Iterates
      <3> QED
        BY <2>2, <3>2
    <2> QED
      BY <2>1, <2>2
  <1>6. Is(s)
    BY <1>5
  <1>7. Chain(b) = CHOOSE t : Is(t)
    BY <1>1 DEF Chain
  <1>8. PICK t : t = Chain(b) /\ Is(t)
    BY <1>6, <1>7
  <1>9. \A i \in 0..N : t[i] = Value(t, i)
    BY <1>8
  <1>10. \A i \in Nat : i <= N => t[i] = s[i]
    <2> DEFINE Q == {i \in Nat : i <= N => t[i] = s[i]}
    <2>1. 0 \in Q
      BY <1>5, <1>9
    <2>2. ASSUME NEW i \in Nat, i \in Q PROVE i + 1 \in Q
      <3>1. ASSUME i + 1 <= N PROVE t[i + 1] = s[i + 1]
        <4>1. i + 1 \in 0..N /\ i + 1 # 0 /\ (i + 1) - 1 = i /\ i <= N
          BY <3>1
        <4>2. t[i] = s[i]
          BY <2>2, <4>1
        <4>3. t[i + 1] = Value(t, i + 1) /\ s[i + 1] = Value(s, i + 1)
          BY <1>5, <1>9, <4>1
        <4> QED
          BY <4>1, <4>2, <4>3
      <3> QED
        BY <3>1
    <2> HIDE DEF Q
    <2>3. \A i \in Nat : i \in Q
      BY <2>1, <2>2, Induct
    <2> QED
      BY <2>3 DEF Q
  <1>11. t = s
    BY <1>8, <1>10
  <1> QED
    BY <1>1, <1>5, <1>8, <1>11 DEF Chained

\* The chain of a bucket holds entries of the bucket,
LEMMA ChainInBucket ==
    ASSUME IInv, NEW b \in 0..(Size - 1), NEW N \in Nat, NEW s, Chained(s, b, N)
    PROVE  \A i \in 0..N : s[i] # Null => s[i] \in used /\ Bucket(key[s[i]]) = b
  <1> DEFINE Q == {i \in Nat : i <= N => (s[i] # Null => Bucket(key[s[i]]) = b)}
  <1>1. 0 \in Q
    BY DEF Chained, IInv, LinkInv
  <1>2. ASSUME NEW i \in Nat, i \in Q PROVE i + 1 \in Q
    <2>1. ASSUME i + 1 <= N, s[i + 1] # Null PROVE Bucket(key[s[i + 1]]) = b
      <3>1. i + 1 \in 1..N /\ (i + 1) - 1 = i /\ i <= N /\ i \in 0..N
        BY <2>1
      <3>2. s[i] # Null /\ s[i + 1] = next[s[i]] /\ s[i] \in used
        BY <2>1, <3>1 DEF Chained
      <3>3. Bucket(key[s[i]]) = b
        BY <1>2, <3>1, <3>2
      <3> QED
        BY <2>1, <3>2, <3>3 DEF IInv, LinkInv
    <2> QED
      BY <2>1
  <1>3. \A i \in Nat : i \in Q
    <2> HIDE DEF Q
    <2> QED
      BY <1>1, <1>2, Induct
  <1> QED
    BY <1>3 DEF Chained

\* and ends: otherwise an address would be in it twice.
LEMMA ChainEnds ==
    ASSUME IInv, NEW b \in 0..(Size - 1), NEW N \in Nat, N = Cardinality(Nodes),
           NEW s, Chained(s, b, N)
    PROVE  s[N] = Null
  <1> SUFFICES ASSUME s[N] # Null PROVE FALSE
    OBVIOUS
  <1>1. used \subseteq Nodes
    BY DEF IInv, FieldsInv
  <1>2. \A n \in Nat : n <= N => s[N - n] # Null
    <2> DEFINE Q == {n \in Nat : n <= N => s[N - n] # Null}
    <2>1. 0 \in Q
      OBVIOUS
    <2>2. ASSUME NEW n \in Nat, n \in Q PROVE n + 1 \in Q
      <3>1. ASSUME n + 1 <= N PROVE s[N - (n + 1)] # Null
        <4>1. N - n \in 1..N /\ (N - n) - 1 = N - (n + 1)
          BY <3>1
        <4>2. s[N - n] # Null
          BY <2>2, <3>1
        <4> QED
          BY <4>1, <4>2 DEF Chained
      <3> QED
        BY <3>1
    <2> HIDE DEF Q
    <2>3. \A n \in Nat : n \in Q
      BY <2>1, <2>2, Induct
    <2> QED
      BY <2>3 DEF Q
  <1>3. ASSUME NEW i \in 0..N PROVE s[i] \in used /\ s[i] # Null
    <2>1. N - i \in Nat /\ N - i <= N /\ N - (N - i) = i
      OBVIOUS
    <2> QED
      BY <1>2, <2>1 DEF Chained
  <1>4. ASSUME NEW i \in 0..N, i < N PROVE i + 1 \in 0..N /\ s[i + 1] = next[s[i]]
    <2>1. i + 1 \in 1..N /\ (i + 1) - 1 = i
      BY <1>4
    <2> QED
      BY <1>3, <2>1 DEF Chained
  <1>5. \E x, y \in 0..N : x # y /\ s[x] = s[y]
    <2>1. IsFiniteSet(0..N) /\ Cardinality(0..N) = N + 1
      BY FS_Interval
    <2>2. s \in [0..N -> Nodes]
      BY <1>1, <1>3 DEF Chained
    <2>3. Cardinality(Nodes) < Cardinality(0..N)
      BY <2>1
    <2> QED
      BY <2>1, <2>2, <2>3, HashAssumption, FS_PigeonHole
  <1>6. PICK x \in 0..N, y \in 0..N : x < y /\ s[x] = s[y]
    BY <1>5
  <1> DEFINE S == {s[i] : i \in x..(y - 1)}
  <1>7. S \in SUBSET Nodes /\ s[x] \in S
    BY <1>1, <1>3, <1>6
  <1>8. ASSUME NEW i \in x..(y - 1) PROVE next[s[i]] \in S
    <2>1. i \in 0..N /\ i < N
      BY <1>6
    <2>2. next[s[i]] = s[i + 1]
      BY <1>4, <2>1
    <2>3. i + 1 = y \/ i + 1 \in x..(y - 1)
      BY <1>6
    <2> QED
      BY <1>6, <1>7, <2>2, <2>3
  <1>9. \A n \in S : next[n] \in S
    BY <1>8
  <1> QED
    BY <1>7, <1>9 DEF IInv, NoCircle

\* The chain of a bucket holds the entries of the bucket, all of them: the first
\* one is not forgotten, nor is what comes after one that is not.
LEMMA LinkedIs ==
    ASSUME IInv, NEW b \in 0..(Size - 1)
    PROVE  /\ Chain(b)[Cardinality(Nodes)] = Null
           /\ Linked(b) = {n \in used : Bucket(key[n]) = b}
  <1>1. PICK N \in Nat : N = Cardinality(Nodes)
    BY ChainFollows
  <1>2. PICK s : s = Chain(b)
    OBVIOUS
  <1>3. Chained(s, b, N)
    BY <1>1, <1>2, ChainFollows
  <1>4. s[N] = Null
    BY <1>1, <1>3, ChainEnds
  <1>5. \A i \in 0..N : s[i] # Null => s[i] \in used /\ Bucket(key[s[i]]) = b
    BY <1>3, ChainInBucket
  <1>6. Linked(b) = {n \in Nodes : \E i \in 0..N : s[i] = n}
    BY <1>2, <1>3 DEF Linked, Chained
  <1>7. used \subseteq Nodes /\ Null \notin Nodes
    BY HashAssumption DEF IInv, FieldsInv
  <1> DEFINE T == {n \in used : Bucket(key[n]) = b /\ n \notin Linked(b)}
  <1>8. ASSUME NEW n \in T PROVE \E m \in T : next[m] = n
    <2>1. n # table[b]
      <3>1. 0 \in 0..N /\ s[0] = table[b]
        BY <1>3 DEF Chained
      <3> QED
        BY <1>6, <1>7, <3>1
    <2>2. PICK m \in used : next[m] = n
      BY <2>1 DEF IInv, LinkInv
    <2>3. Bucket(key[m]) = b
      BY <1>7, <2>2 DEF IInv, LinkInv
    <2>4. ASSUME m \in Linked(b) PROVE FALSE
      <3>1. PICK i \in 0..N : s[i] = m
        BY <1>6, <2>4
      <3>2. i # N /\ m # Null
        BY <1>4, <1>7, <3>1
      <3>3. i + 1 \in 1..N /\ (i + 1) - 1 = i /\ i + 1 \in 0..N
        BY <3>2
      <3>4. s[i + 1] = n
        BY <1>3, <2>2, <3>1, <3>2, <3>3 DEF Chained
      <3> QED
        BY <1>6, <1>7, <3>3, <3>4
    <2> QED
      BY <2>2, <2>3, <2>4
  <1>9. T = {}
    <2>1. T \in SUBSET Nodes /\ Acyclic(next)
      BY <1>7 DEF IInv, NoCircle, Acyclic
    <2> HIDE DEF T
    <2> QED
      BY <1>8, <2>1, Source
  <1>10. \A n \in Linked(b) : n \in used /\ Bucket(key[n]) = b
    BY <1>5, <1>6, <1>7
  <1> QED
    BY <1>1, <1>2, <1>4, <1>9, <1>10

LEMMA InvariantGivesChains == IInv => ChainsSound
  <1> SUFFICES ASSUME IInv PROVE ChainsSound
    OBVIOUS
  <1>1. DOMAIN table = 0..(Size - 1) /\ \A n \in used : key[n] \in Nat
    BY HashAssumption DEF IInv, FieldsInv
  <1>2. ASSUME NEW b \in DOMAIN table
        PROVE  /\ Chain(b)[Cardinality(Nodes)] = Null
               /\ \A m, n \in Linked(b) : Bucket(key[n]) = b /\ (key[m] = key[n] => m = n)
    <2>1. /\ Chain(b)[Cardinality(Nodes)] = Null
          /\ Linked(b) = {n \in used : Bucket(key[n]) = b}
      BY <1>1, LinkedIs
    <2> QED
      BY <2>1 DEF IInv, LinkInv
  <1>3. used = UNION {Linked(b) : b \in DOMAIN table}
    <2>1. \A b \in DOMAIN table : Linked(b) = {n \in used : Bucket(key[n]) = b}
      BY <1>1, LinkedIs
    <2>2. \A n \in used : Bucket(key[n]) \in DOMAIN table
      BY <1>1, BucketType
    <2> QED
      BY <2>1, <2>2
  <1> QED
    BY <1>2, <1>3 DEF ChainsSound

\* Each chain ends, holds entries of its own bucket, no key twice, and every
\* allocated entry is in one: hash_insert and hash_delete lose no program,
\* for any number of buckets, keys and addresses.
THEOREM ChainsCorrect == Spec => []ChainsSound
  BY Inductive, InvariantGivesChains, PTL

-----------------------------------------------------------------------------
(* The map.                                                                 *)

\* The keys that are found are those of the allocated entries, and what is found
\* is the entry of the key.
LEMMA FindNow ==
    ASSUME IInv, NEW k \in Keys
    PROVE  /\ Find(k) # Null <=> k \in Stored
           /\ Find(k) # Null => Find(k) \in used /\ Find(k) \in Nodes /\ key[Find(k)] = k
           /\ \A n \in used : key[n] = k => Find(k) = n
  <1>1. Finds(Walk(k), k, table, key, next, used)
    BY WalkFindsNow
  <1> QED
    BY <1>1 DEF Finds, Find, Stored, IInv, FieldsInv, LinkInv

LEMMA FindNext ==
    ASSUME IInv', NEW k \in Keys
    PROVE  /\ Find(k)' # Null <=> k \in Stored'
           /\ Find(k)' # Null => Find(k)' \in used' /\ key'[Find(k)'] = k
           /\ \A n \in used' : key'[n] = k => Find(k)' = n
  <1>1. Finds(Walk(k)', k, table', key', next', used')
    BY ShapeNext, WalkFinds, WalkUnfolded
  <1>2. Find(k)' = (Walk(k)').curr
    BY DEF Find
  <1> QED
    BY <1>1, <1>2 DEF Finds, Stored, IInv, LinkInv

LEMMA SameFind ==
    ASSUME UNCHANGED <<table, key, next>>
    PROVE  Stored' = Stored /\ \A k \in Keys : Find(k)' = Find(k)
  <1>1. \A k \in Keys : Find(k)' = Find(k)
    <2>1. ASSUME NEW k \in Keys PROVE Walk(k)' = Walk(k)
      BY WalkUnfolded
    <2> QED
      BY <2>1 DEF Find
  <1> QED
    BY <1>1 DEF Stored

\* The map that the table implements.
Contents == [k \in Stored |-> val[Find(k)]]

LEMMA SameContents ==
    ASSUME UNCHANGED <<table, key, next, val>>
    PROVE  Contents' = Contents
  <1>1. Stored' = Stored /\ Stored \subseteq Keys /\ \A k \in Keys : Find(k)' = Find(k)
    BY SameFind DEF Stored
  <1> QED
    BY <1>1 DEF Contents

\* Contents' from its domain and its values.
LEMMA ContentsNext ==
    ASSUME NEW f, Stored' = DOMAIN f, f = [k \in DOMAIN f |-> f[k]],
           \A k \in DOMAIN f : val'[Find(k)'] = f[k]
    PROVE  Contents' = f
  BY DEF Contents

LEMMA InitMaps == Init => Contents = <<>> /\ ret = NotFound
  <1> SUFFICES ASSUME Init PROVE Contents = <<>> /\ ret = NotFound
    OBVIOUS
  <1>1. \A k \in Keys : Find(k) = Null
    BY InitHolds, FindNow DEF Init
  <1>2. Stored = {}
    BY <1>1 DEF Stored
  <1>3. [k \in {} |-> val[Find(k)]] = <<>>
    OBVIOUS
  <1> QED
    BY <1>2, <1>3 DEF Contents, Init

LEMMA InsertMaps ==
    ASSUME IInv, IInv', NEW k \in Keys, NEW v \in Vals, Insert(k, v)
    PROVE  /\ Contents' = [j \in Stored \cup {k} |-> IF j = k THEN v ELSE Contents[j]]
           /\ ret' = ret
  <1> DEFINE f == [j \in Stored \cup {k} |-> IF j = k THEN v ELSE Contents[j]]
  <1>1. Stored \subseteq Keys /\ val \in [Nodes -> Vals \cup {NotFound}]
        /\ \A j \in Stored : Contents[j] = val[Find(j)]
    BY DEF Stored, IInv, FieldsInv, Contents
  <1>2. Stored' = Stored \cup {k} /\ \A j \in Stored \cup {k} : val'[Find(j)'] = f[j]
    <2>1. CASE Find(k) # Null
      <3>1. val' = [val EXCEPT ![Find(k)] = v] /\ UNCHANGED <<table, key, next>>
        BY <2>1 DEF Insert
      <3>2. k \in Stored /\ Find(k) \in Nodes /\ Stored' = Stored
            /\ \A j \in Keys : Find(j)' = Find(j)
        BY <2>1, <3>1, FindNow, SameFind
      <3>3. ASSUME NEW j \in Stored, j # k PROVE Find(j) # Find(k) /\ Find(j) \in Nodes
        BY <1>1, <2>1, <3>3, FindNow
      <3>4. val'[Find(k)] = v /\ \A j \in Stored : j # k => val'[Find(j)] = val[Find(j)]
        BY <1>1, <3>1, <3>2, <3>3
      <3> QED
        BY <1>1, <3>2, <3>4
    <2>2. CASE Find(k) = Null
      <3>1. PICK n \in Nodes \ used : Front(k, v, n)
        BY <2>2 DEF Insert
      <3>2. key \in [Nodes -> Nat] /\ used \subseteq Nodes
        BY DEF IInv, FieldsInv
      <3>3. /\ used' = used \cup {n} /\ key'[n] = k /\ val'[n] = v
            /\ \A m \in used : key'[m] = key[m] /\ val'[m] = val[m]
        BY <1>1, <3>1, <3>2 DEF Front
      <3>4. Find(k)' = n /\ k \in Stored'
        BY <3>1, <3>3, FindNext, HashAssumption
      <3>5. ASSUME NEW j \in Stored PROVE j \in Stored' /\ j # k /\ Find(j)' = Find(j) /\ Find(j) \in used
        <4>1. j \in Keys /\ Find(j) \in used /\ key[Find(j)] = j /\ Find(j) \in Nodes
          BY <1>1, FindNow
        <4>2. Find(j)' = Find(j)
          BY <3>3, <4>1, FindNext
        <4>3. j # k
          BY <2>2, FindNow
        <4> QED
          BY <4>1, <4>2, <4>3, FindNext, HashAssumption
      <3>6. ASSUME NEW j \in Stored', j # k PROVE j \in Stored
        <4>1. j \in Keys
          BY DEF Stored
        <4>2. Find(j)' \in used' /\ key'[Find(j)'] = j
          BY <4>1, FindNext
        <4>3. Find(j)' \in used /\ key[Find(j)'] = j
          BY <3>3, <3>6, <4>2
        <4>4. Find(j) = Find(j)' /\ Find(j) \in Nodes
          BY <3>2, <4>1, <4>3, FindNow
        <4> QED
          BY <4>1, <4>4, FindNow, HashAssumption
      <3> QED
        BY <1>1, <3>3, <3>4, <3>5, <3>6
    <2> QED
      BY <2>1, <2>2
  <1>3. Contents' = f
    <2>1. DOMAIN f = Stored \cup {k} /\ f = [j \in DOMAIN f |-> f[j]]
      OBVIOUS
    <2> HIDE DEF f
    <2> QED
      BY <1>2, <2>1, ContentsNext
  <1> QED
    BY <1>3 DEF Insert

LEMMA LookupMaps ==
    ASSUME IInv, NEW k \in Keys, Lookup(k)
    PROVE  /\ Contents' = Contents
           /\ ret' = IF k \in Stored THEN Contents[k] ELSE NotFound
  <1>1. Contents' = Contents
    BY SameContents DEF Lookup, entries
  <1>2. k \in Stored => Contents[k] = val[Find(k)]
    BY DEF Contents
  <1> QED
    BY <1>1, <1>2, FindNow DEF Lookup

LEMMA DeleteMaps ==
    ASSUME IInv, IInv', NEW k \in Keys, Delete(k)
    PROVE  /\ Contents' = [j \in Stored \ {k} |-> Contents[j]]
           /\ ret' = IF k \in Stored THEN Contents[k] ELSE NotFound
  <1> DEFINE f == [j \in Stored \ {k} |-> Contents[j]]
  <1>1. Stored \subseteq Keys /\ \A j \in Stored : Contents[j] = val[Find(j)]
    BY DEF Stored, Contents
  <1>2. CASE Find(k) = Null
    <2>1. k \notin Stored /\ Stored \ {k} = Stored
      BY <1>2, FindNow
    <2>2. Contents' = Contents /\ ret' = NotFound
      BY <1>2, SameContents DEF Delete, entries
    <2>3. Contents = [j \in Stored |-> Contents[j]]
      BY DEF Contents
    <2> QED
      BY <2>1, <2>2, <2>3
  <1>3. CASE Find(k) # Null
    <2>1. PICK x \in used : x = Find(k) /\ key[x] = k /\ k \in Stored
      BY <1>3, FindNow
    <2>2. ret' = val[x] /\ used' = used \ {x} /\ key' = key /\ val' = val
      BY <1>3, <2>1 DEF Delete
    <2>3. k \notin Stored'
      <3>1. ASSUME k \in Stored' PROVE FALSE
        <4>1. Find(k)' \in used' /\ key'[Find(k)'] = k
          BY <3>1, FindNext
        <4>2. Find(k) = Find(k)'
          BY <2>2, <4>1, FindNow
        <4> QED
          BY <2>1, <2>2, <4>1, <4>2
      <3> QED
        BY <3>1
    <2>4. ASSUME NEW j \in Stored, j # k PROVE j \in Stored' /\ Find(j)' = Find(j)
      <3>1. j \in Keys /\ Find(j) \in used /\ key[Find(j)] = j /\ Find(j) \in Nodes
        BY <1>1, FindNow
      <3>2. Find(j) \in used' /\ key'[Find(j)] = j
        BY <2>1, <2>2, <2>4, <3>1
      <3> QED
        BY <3>1, <3>2, FindNext, HashAssumption
    <2>5. ASSUME NEW j \in Stored' PROVE j \in Stored
      <3>1. j \in Keys
        BY DEF Stored
      <3>2. Find(j)' \in used /\ key[Find(j)'] = j
        BY <2>2, <3>1, FindNext
      <3>3. Find(j) = Find(j)' /\ Find(j) # Null
        BY <3>1, <3>2, FindNow, FindNext
      <3> QED
        BY <3>1, <3>3, FindNow
    <2>6. Stored' = Stored \ {k} /\ \A j \in Stored \ {k} : val'[Find(j)'] = f[j]
      BY <1>1, <2>2, <2>3, <2>4, <2>5
    <2>7. Contents' = f
      <3>1. DOMAIN f = Stored \ {k} /\ f = [j \in DOMAIN f |-> f[j]]
        OBVIOUS
      <3> HIDE DEF f
      <3> QED
        BY <2>6, <3>1, ContentsNext
    <2> QED
      BY <1>1, <2>1, <2>2, <2>7
  <1> QED
    BY <1>2, <1>3

LEMMA SwapMaps ==
    ASSUME IInv, NEW j \in Keys, NEW k \in Keys, Swap(j, k)
    PROVE  IF {j, k} \subseteq Stored
           THEN /\ Contents' = [Contents EXCEPT ![j] = Contents[k], ![k] = Contents[j]]
                /\ ret' = 0
           ELSE ret' = -1 /\ Contents' = Contents
  <1>1. Stored \subseteq Keys /\ DOMAIN Contents = Stored
        /\ \A i \in Stored : Contents[i] = val[Find(i)]
    BY DEF Stored, Contents
  <1>2. UNCHANGED <<table, key, next>>
    BY DEF Swap
  <1>3. Stored' = Stored /\ \A i \in Keys : Find(i)' = Find(i)
    BY <1>2, SameFind
  <1>4. CASE ~({j, k} \subseteq Stored)
    <2>1. Find(j) = Null \/ Find(k) = Null
      BY <1>4, FindNow
    <2>2. ret' = -1 /\ val' = val
      BY <2>1 DEF Swap
    <2> QED
      BY <1>2, <1>4, <2>2, SameContents
  <1>5. CASE {j, k} \subseteq Stored
    <2>1. Find(j) # Null /\ Find(k) # Null
      BY <1>5, FindNow
    <2>2. /\ ret' = 0
          /\ val' = [val EXCEPT ![Find(j)] = val[Find(k)], ![Find(k)] = val[Find(j)]]
      BY <2>1 DEF Swap
    <2>3. \A i \in Stored : Find(i) \in Nodes /\ key[Find(i)] = i
      BY <1>1, FindNow
    <2>4. val \in [Nodes -> Vals \cup {NotFound}]
      BY DEF IInv, FieldsInv
    <2> DEFINE f == [Contents EXCEPT ![j] = Contents[k], ![k] = Contents[j]]
    <2>5. DOMAIN f = Stored /\ f = [i \in DOMAIN f |-> f[i]]
      BY <1>1
    <2>6. ASSUME NEW i \in Stored PROVE val'[Find(i)'] = f[i]
      <3>1. val'[Find(i)] = IF Find(i) = Find(k) THEN val[Find(j)]
                            ELSE IF Find(i) = Find(j) THEN val[Find(k)] ELSE val[Find(i)]
        BY <1>5, <2>2, <2>3, <2>4
      <3>2. f[i] = IF i = k THEN Contents[j] ELSE IF i = j THEN Contents[k] ELSE Contents[i]
        BY <1>1, <1>5
      <3>3. (Find(i) = Find(k) <=> i = k) /\ (Find(i) = Find(j) <=> i = j)
        BY <1>5, <2>3
      <3>4. Find(i)' = Find(i)
        BY <1>1, <1>3
      <3> HIDE DEF f
      <3> QED
        BY <1>1, <1>5, <3>1, <3>2, <3>3, <3>4
    <2>7. Contents' = f
      <3> HIDE DEF f
      <3> QED
        BY <1>3, <2>5, <2>6, ContentsNext
    <2> QED
      BY <1>5, <2>2, <2>7
  <1> QED
    BY <1>4, <1>5

LEMMA StepMaps == IInv /\ IInv' /\ [Next]_vars => [Map!Next]_(Map!vars)
  <1> SUFFICES ASSUME IInv, IInv', [Next]_vars PROVE [Map!Next]_(Map!vars)
    OBVIOUS
  <1>1. DOMAIN Contents = Stored
    BY DEF Contents
  <1>2. ASSUME NEW k \in Keys, NEW v \in Vals, Insert(k, v) PROVE Map!Insert(k, v)
    BY <1>1, <1>2, InsertMaps DEF Map!Insert, Contents
  <1>3. ASSUME NEW k \in Keys, Lookup(k) PROVE Map!Lookup(k)
    BY <1>1, <1>3, LookupMaps DEF Map!Lookup, Map!Get, Contents
  <1>4. ASSUME NEW k \in Keys, Delete(k) PROVE Map!Delete(k)
    BY <1>1, <1>4, DeleteMaps DEF Map!Delete, Map!Get, Map!Restrict, Contents
  <1>5. ASSUME NEW j \in Keys, NEW k \in Keys, Swap(j, k) PROVE Map!Swap(j, k)
    BY <1>1, <1>5, SwapMaps DEF Map!Swap, Contents
  <1>6. CASE UNCHANGED vars
    BY <1>6, SameContents DEF vars, entries, Map!vars, Contents
  <1> QED
    BY <1>2, <1>3, <1>4, <1>5, <1>6 DEF Next, Map!Next

\* The table implements the map of PidMap: what every operation returns, and
\* what it leaves under the other keys, is what the comments of hash.h say.
THEOREM MapImplemented == Spec => ImplementsMap
  <1>1. Init => Map!Init
    BY InitMaps DEF Map!Init, Contents
  <1> QED
    BY <1>1, StepMaps, Inductive, PTL DEF Spec, ImplementsMap, Map!Spec
=============================================================================
