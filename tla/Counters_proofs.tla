--------------------------- MODULE Counters_proofs ---------------------------
(***************************************************************************)
(* Proofs about Counters for any programs, any finite set of cpus, any     *)
(* number of cores per program and any amount of work.                     *)
(***************************************************************************)
EXTENDS Counters, FiniteSetTheorems, WellFoundedInduction, TLAPS

-----------------------------------------------------------------------------
(* Induction over the natural numbers, stated for a set of them.            *)

\* A set of natural numbers that is not empty has a least element.
LEMMA LeastNat ==
    ASSUME NEW T \in SUBSET Nat, T # {}
    PROVE  \E n \in T : \A m \in T : n <= m
  <1>1. PICK n \in T : \A m \in T : ~ (<<m, n>> \in OpToRel(<, Nat))
    BY NatLessThanWellFounded, WFMin
  <1>2. ASSUME NEW m \in T PROVE n <= m
    <2>1. m \in Nat /\ n \in Nat /\ ~(m < n)
      BY <1>1 DEF OpToRel
    <2> QED
      BY <2>1
  <1> QED
    BY <1>2

\* A set of numbers that has 0, and with a number the next, has them all.
LEMMA Induct ==
    ASSUME NEW Q, 0 \in Q, \A n \in Nat : n \in Q => n + 1 \in Q
    PROVE  \A n \in Nat : n \in Q
  <1> SUFFICES ASSUME Nat \ Q # {} PROVE FALSE
    OBVIOUS
  <1>1. PICK n \in Nat \ Q : \A m \in Nat \ Q : n <= m
    BY LeastNat
  <1>2. n # 0 /\ n - 1 \in Nat
    BY <1>1
  <1>3. n - 1 \in Q
    BY <1>1, <1>2
  <1>4. (n - 1) + 1 = n
    BY <1>1
  <1> QED
    BY <1>1, <1>2, <1>3, <1>4


-----------------------------------------------------------------------------
(* Sums: SumFunctionOnSet on a finite set.                                  *)

\* The element that is summed first.
Chosen(T) == CHOOSE x \in T : TRUE

\* g sums f over the subsets of S.
SumIs(g, f, S) ==
    g = [T \in SUBSET S |-> IF T = {} THEN 0 ELSE f[Chosen(T)] + g[T \ {Chosen(T)}]]

\* SumFunctionOnSet, its folds unfolded.
LEMMA SumUnfolded ==
    ASSUME NEW f, NEW S
    PROVE  SumFunctionOnSet(f, S) = (CHOOSE g : SumIs(g, f, S))[S]
  BY DEF SumFunctionOnSet, FoldFunctionOnSet, MapThenFoldSet, SumIs, Chosen

\* A subset that is not empty without its chosen element.
LEMMA WithoutChosen ==
    ASSUME NEW T, IsFiniteSet(T), T # {}
    PROVE  /\ Chosen(T) \in T /\ IsFiniteSet(T \ {Chosen(T)})
           /\ Cardinality(T) \in Nat
           /\ Cardinality(T \ {Chosen(T)}) = Cardinality(T) - 1
  <1>1. Chosen(T) \in T
    BY DEF Chosen
  <1> QED
    BY <1>1, FS_RemoveElement, FS_CardinalityType

\* There is such a g when S is finite: by induction on the size of the subsets
\* for which it is right.
LEMMA SumExists ==
    ASSUME NEW f, NEW S, IsFiniteSet(S)
    PROVE  \E g : SumIs(g, f, S)
  <1> DEFINE Value(g, T) == IF T = {} THEN 0 ELSE f[Chosen(T)] + g[T \ {Chosen(T)}]
             Right(g, n) == \A T \in SUBSET S : Cardinality(T) <= n => g[T] = Value(g, T)
             Q == {n \in Nat : \E g : Right(g, n)}
  <1>1. \A T \in SUBSET S : IsFiniteSet(T) /\ Cardinality(T) \in Nat
    BY FS_Subset, FS_CardinalityType
  <1>2. 0 \in Q
    <2> DEFINE g == [T \in SUBSET S |-> 0]
    <2>1. ASSUME NEW T \in SUBSET S, Cardinality(T) <= 0 PROVE g[T] = Value(g, T)
      <3>1. T = {}
        BY <1>1, <2>1, FS_EmptySet
      <3> QED
        BY <3>1
    <2> QED
      BY <2>1
  <1>3. ASSUME NEW n \in Nat, n \in Q PROVE n + 1 \in Q
    <2>1. PICK g : Right(g, n)
      BY <1>3
    <2> DEFINE h == [T \in SUBSET S |-> IF Cardinality(T) <= n THEN g[T] ELSE Value(g, T)]
    <2>2. ASSUME NEW T \in SUBSET S, Cardinality(T) <= n + 1 PROVE h[T] = Value(h, T)
      <3>1. h[T] = Value(g, T)
        BY <2>1
      <3>2. CASE T = {}
        BY <3>1, <3>2
      <3>3. CASE T # {}
        <4>1. T \ {Chosen(T)} \in SUBSET S /\ Cardinality(T \ {Chosen(T)}) <= n
          BY <1>1, <2>2, <3>3, WithoutChosen
        <4>2. h[T \ {Chosen(T)}] = g[T \ {Chosen(T)}]
          BY <4>1
        <4> HIDE DEF h
        <4> QED
          BY <3>1, <3>3, <4>2
      <3> QED
        BY <3>2, <3>3
    <2> HIDE DEF h
    <2>3. Right(h, n + 1)
      BY <2>2
    <2>4. n + 1 \in Nat /\ \E k : Right(k, n + 1)
      <3> HIDE DEF Right
      <3> QED
        BY <2>3
    <2> HIDE DEF Right
    <2> QED
      BY <2>4
  <1>4. \A n \in Nat : n \in Q
    <2> HIDE DEF Q
    <2> QED
      BY <1>2, <1>3, Induct
  <1>5. PICK g : Right(g, Cardinality(S))
    BY <1>1, <1>4
  <1> DEFINE h == [T \in SUBSET S |-> g[T]]
  <1>6. ASSUME NEW T \in SUBSET S PROVE h[T] = Value(h, T)
    <2>1. Cardinality(T) <= Cardinality(S)
      BY FS_Subset
    <2>2. h[T] = Value(g, T)
      BY <1>5, <2>1
    <2>3. T # {} => h[T \ {Chosen(T)}] = g[T \ {Chosen(T)}]
      OBVIOUS
    <2> QED
      BY <2>2, <2>3
  <1>7. h = [T \in SUBSET S |-> Value(h, T)]
    BY <1>6
  <1> QED
    BY <1>7 DEF SumIs

\* Induction on finite sets: Q has the empty set, and a set whose chosen
\* element can be added to a member of Q.
LEMMA SubsetInduct ==
    ASSUME NEW S, IsFiniteSet(S), NEW Q, {} \in Q,
           \A T \in SUBSET S : T # {} /\ T \ {Chosen(T)} \in Q => T \in Q
    PROVE  \A T \in SUBSET S : T \in Q
  <1> DEFINE N == {n \in Nat : \A T \in SUBSET S : Cardinality(T) = n => T \in Q}
  <1>1. \A T \in SUBSET S : IsFiniteSet(T) /\ Cardinality(T) \in Nat
    BY FS_Subset, FS_CardinalityType
  <1>2. 0 \in N
    BY <1>1, FS_EmptySet
  <1>3. ASSUME NEW n \in Nat, n \in N PROVE n + 1 \in N
    <2>1. ASSUME NEW T \in SUBSET S, Cardinality(T) = n + 1 PROVE T \in Q
      <3>1. T # {}
        BY <1>3, <2>1, FS_EmptySet
      <3>2. T \ {Chosen(T)} \in SUBSET S /\ Cardinality(T \ {Chosen(T)}) = n
        BY <1>1, <2>1, <3>1, WithoutChosen
      <3> QED
        BY <1>3, <3>1, <3>2
    <2> QED
      BY <1>3, <2>1
  <1>4. \A n \in Nat : n \in N
    <2> HIDE DEF N
    <2> QED
      BY <1>2, <1>3, Induct
  <1> QED
    BY <1>1, <1>4

\* g[T] is the sum of f over a subset T of S.
SumsUp(g, f, S) ==
    /\ SumFunctionOnSet(f, S) = g[S] /\ g[{}] = 0
    /\ \A T \in SUBSET S : T # {} => g[T] = f[Chosen(T)] + g[T \ {Chosen(T)}]

\* SumFunctionOnSet(f, S) is what a function gives that sums f over the
\* subsets of S.
LEMMA SumGiven ==
    ASSUME NEW f, NEW S, IsFiniteSet(S)
    PROVE  \E g : SumsUp(g, f, S)
  <1>1. PICK g : g = (CHOOSE h : SumIs(h, f, S)) /\ SumIs(g, f, S)
    BY SumExists
  <1>2. \A T \in SUBSET S : g[T] = IF T = {} THEN 0 ELSE f[Chosen(T)] + g[T \ {Chosen(T)}]
    BY <1>1 DEF SumIs
  <1>3. SumFunctionOnSet(f, S) = g[S]
    BY <1>1, SumUnfolded
  <1>4. g[{}] = 0
    BY <1>2
  <1> QED
    BY <1>2, <1>3, <1>4 DEF SumsUp

\* A sum of natural numbers is one.
LEMMA SumNat ==
    ASSUME NEW f, NEW S, IsFiniteSet(S), \A x \in S : f[x] \in Nat
    PROVE  SumFunctionOnSet(f, S) \in Nat
  <1>1. PICK g : SumsUp(g, f, S)
    BY SumGiven
  <1> DEFINE Q == {T \in SUBSET S : g[T] \in Nat}
  <1>2. {} \in Q
    BY <1>1 DEF SumsUp
  <1>3. ASSUME NEW T \in SUBSET S, T # {}, T \ {Chosen(T)} \in Q PROVE T \in Q
    <2>1. PICK x \in S : x = Chosen(T)
      BY <1>3 DEF Chosen
    <2>2. g[T] = f[x] + g[T \ {x}]
      BY <1>1, <1>3, <2>1 DEF SumsUp
    <2> QED
      BY <1>3, <2>1, <2>2
  <1>4. \A T \in SUBSET S : T \in Q
    <2> HIDE DEF Q
    <2> QED
      BY <1>2, <1>3, SubsetInduct
  <1>5. S \in Q
    BY <1>4
  <1> QED
    BY <1>1, <1>5 DEF SumsUp

\* All that is summed is a natural number.
NatsOn(f, S) == \A x \in S : f[x] \in Nat

\* The sums over the subsets of S are numbers.
LEMMA SumsNat ==
    ASSUME NEW f, NEW S, IsFiniteSet(S), NatsOn(f, S), NEW g, SumsUp(g, f, S)
    PROVE  \A T \in SUBSET S : g[T] \in Nat
  <1> DEFINE Q == {T \in SUBSET S : g[T] \in Nat}
  <1>1. {} \in Q
    BY DEF SumsUp
  <1>2. ASSUME NEW T \in SUBSET S, T # {}, T \ {Chosen(T)} \in Q PROVE T \in Q
    <2>1. PICK x \in S : x = Chosen(T)
      BY <1>2 DEF Chosen
    <2>2. g[T] = f[x] + g[T \ {x}]
      BY <1>2, <2>1 DEF SumsUp
    <2> QED
      BY <1>2, <2>1, <2>2 DEF NatsOn
  <1>3. \A T \in SUBSET S : T \in Q
    <2> HIDE DEF Q
    <2> QED
      BY <1>1, <1>2, SubsetInduct
  <1> QED
    BY <1>3

\* The order does not matter: any element of a set may be added last.
LEMMA AnyLast ==
    ASSUME NEW f, NEW S, IsFiniteSet(S), NatsOn(f, S), NEW g, SumsUp(g, f, S)
    PROVE  \A T \in SUBSET S : \A x \in T : g[T] = f[x] + g[T \ {x}]
  <1>1. \A T \in SUBSET S : g[T] \in Nat
    BY SumsNat
  <1> DEFINE Q == {n \in Nat : \A T \in SUBSET S : Cardinality(T) = n =>
                     \A x \in T : g[T] = f[x] + g[T \ {x}]}
  <1>2. \A T \in SUBSET S : IsFiniteSet(T) /\ Cardinality(T) \in Nat
    BY FS_Subset, FS_CardinalityType
  <1>3. 0 \in Q
    <2>1. \A T \in SUBSET S : Cardinality(T) = 0 => T = {}
      BY <1>2, FS_EmptySet
    <2> QED
      BY <2>1
  <1>4. ASSUME NEW n \in Nat, n \in Q PROVE n + 1 \in Q
    <2> SUFFICES ASSUME NEW T \in SUBSET S, Cardinality(T) = n + 1, NEW x \in T
                 PROVE  g[T] = f[x] + g[T \ {x}]
      OBVIOUS
    <2>1. PICK c \in T : c = Chosen(T)
      BY DEF Chosen
    <2>2. g[T] = f[c] + g[T \ {c}]
      BY <2>1 DEF SumsUp
    <2>3. CASE x # c
      <3>1. \A y \in T : Cardinality(T \ {y}) = n
        BY <1>2, FS_RemoveElement
      <3> DEFINE A == T \ {c}
                 B == T \ {x}
                 R == A \ {x}
      <3>2. /\ A \in SUBSET S /\ B \in SUBSET S /\ R \in SUBSET S
            /\ B \ {c} = R /\ x \in A /\ c \in B
            /\ Cardinality(A) = n /\ Cardinality(B) = n
        BY <2>1, <2>3, <3>1
      <3>3. g[A] = f[x] + g[R] /\ g[B] = f[c] + g[R]
        <4>1. \A U \in SUBSET S : Cardinality(U) = n => \A y \in U : g[U] = f[y] + g[U \ {y}]
          BY <1>4
        <4>2. g[A] = f[x] + g[A \ {x}] /\ g[B] = f[c] + g[B \ {c}]
          <5> HIDE DEF A, B, R
          <5> QED
            BY <3>2, <4>1
        <4> QED
          BY <3>2, <4>2
      <3>4. f[x] \in Nat /\ f[c] \in Nat /\ g[R] \in Nat
        BY <1>1, <2>1 DEF NatsOn
      <3>5. g[T] = f[c] + g[A]
        BY <2>2
      <3>6. g[T] = f[x] + g[B]
        <4> HIDE DEF A, B, R
        <4> QED
          BY <3>3, <3>4, <3>5
      <3> QED
        BY <3>6
    <2> QED
      BY <2>1, <2>2, <2>3
  <1>5. \A n \in Nat : n \in Q
    <2> HIDE DEF Q
    <2> QED
      BY <1>3, <1>4, Induct
  <1> QED
    BY <1>2, <1>5

\* f is 0 on all of S but T.
ZeroOff(f, S, T) == \A x \in S \ T : f[x] = 0

\* Zeros do not matter: the sum over S is the sum over T.
LEMMA SumWithin ==
    ASSUME NEW f, NEW S, IsFiniteSet(S), NatsOn(f, S),
           NEW T \in SUBSET S, ZeroOff(f, S, T)
    PROVE  SumFunctionOnSet(f, S) = SumFunctionOnSet(f, T)
  <1>1. IsFiniteSet(T) /\ NatsOn(f, T)
    BY FS_Subset DEF NatsOn
  <1>2. PICK g : SumsUp(g, f, S)
    BY SumGiven
  <1>3. PICK k : SumsUp(k, f, T)
    BY <1>1, SumGiven
  <1>4. \A U \in SUBSET T : k[U] \in Nat /\ \A x \in U : k[U] = f[x] + k[U \ {x}]
    BY <1>1, <1>3, SumsNat, AnyLast
  <1> DEFINE Q == {U \in SUBSET S : g[U] = k[U \cap T]}
  <1>5. {} \in Q
    <2>1. {} \cap T = {}
      OBVIOUS
    <2> QED
      BY <1>2, <1>3, <2>1 DEF SumsUp
  <1>6. ASSUME NEW U \in SUBSET S, U # {}, U \ {Chosen(U)} \in Q PROVE U \in Q
    <2>1. PICK x \in U : x = Chosen(U)
      BY <1>6 DEF Chosen
    <2>2. g[U] = f[x] + g[U \ {x}]
      BY <1>2, <1>6, <2>1 DEF SumsUp
    <2>3. g[U \ {x}] = k[(U \ {x}) \cap T]
      BY <1>6, <2>1
    <2>4. CASE x \in T
      <3>1. (U \ {x}) \cap T = (U \cap T) \ {x} /\ x \in U \cap T /\ U \cap T \in SUBSET T
        BY <2>1, <2>4
      <3>2. k[U \cap T] = f[x] + k[(U \cap T) \ {x}]
        BY <1>4, <3>1
      <3>3. g[U] = k[U \cap T]
        BY <2>2, <2>3, <3>1, <3>2
      <3> QED
        BY <3>3
    <2>5. CASE x \notin T
      <3>1. (U \ {x}) \cap T = U \cap T /\ U \cap T \in SUBSET T /\ x \in S \ T
        BY <2>1, <2>5
      <3>2. f[x] = 0 /\ k[U \cap T] \in Nat
        BY <1>4, <3>1 DEF ZeroOff
      <3>3. g[U \ {x}] = k[U \cap T]
        BY <2>3, <3>1
      <3>4. g[U] = k[U \cap T]
        BY <2>2, <3>2, <3>3
      <3> QED
        BY <3>4
    <2> QED
      BY <2>4, <2>5
  <1>7. S \in Q
    <2> HIDE DEF Q
    <2> QED
      BY <1>5, <1>6, SubsetInduct
  <1>8. S \cap T = T
    OBVIOUS
  <1> QED
    BY <1>2, <1>3, <1>7, <1>8 DEF SumsUp

\* h is f and d, element by element.
AddsUp(h, f, d, S) == \A x \in S : h[x] = f[x] + d[x]

\* Then its sum is that of f and that of d.
LEMMA SumAdd ==
    ASSUME NEW f, NEW d, NEW h, NEW S, IsFiniteSet(S),
           NatsOn(f, S), NatsOn(d, S), AddsUp(h, f, d, S)
    PROVE  SumFunctionOnSet(h, S) = SumFunctionOnSet(f, S) + SumFunctionOnSet(d, S)
  <1>1. PICK g : SumsUp(g, f, S)
    BY SumGiven
  <1>2. PICK k : SumsUp(k, d, S)
    BY SumGiven
  <1>3. PICK j : SumsUp(j, h, S)
    BY SumGiven
  <1>4. \A T \in SUBSET S : g[T] \in Nat
    BY <1>1, SumsNat
  <1>5. \A T \in SUBSET S : k[T] \in Nat
    BY <1>2, SumsNat
  <1> DEFINE Q == {T \in SUBSET S : j[T] = g[T] + k[T]}
  <1>6. {} \in Q
    BY <1>1, <1>2, <1>3 DEF SumsUp
  <1>7. ASSUME NEW T \in SUBSET S, T # {}, T \ {Chosen(T)} \in Q PROVE T \in Q
    <2>1. PICK x \in S : x = Chosen(T)
      BY <1>7 DEF Chosen
    <2>2. PICK U \in SUBSET S : U = T \ {x} /\ U \in Q
      BY <1>7, <2>1
    <2>3. g[T] = f[x] + g[U] /\ k[T] = d[x] + k[U] /\ j[T] = h[x] + j[U]
      BY <1>1, <1>2, <1>3, <1>7, <2>1, <2>2 DEF SumsUp
    <2>4. f[x] \in Nat /\ d[x] \in Nat /\ h[x] = f[x] + d[x]
      BY <2>1 DEF NatsOn, AddsUp
    <2>5. g[U] \in Nat /\ k[U] \in Nat /\ j[U] = g[U] + k[U]
      BY <1>4, <1>5, <2>2
    <2>6. j[T] = g[T] + k[T]
      BY <2>3, <2>4, <2>5
    <2> QED
      BY <2>6
  <1>8. S \in Q
    <2> HIDE DEF Q
    <2> QED
      BY <1>6, <1>7, SubsetInduct
  <1> QED
    BY <1>1, <1>2, <1>3, <1>8 DEF SumsUp


\* The sum that BillExact is about, cpu by cpu.
Exact == \A p \in Progs \ misread, c \in Cpus :
             events_tmp[p][c] + Pending(p, c) = counted[p][c]

\* BillExact is inductive together with: whose turn it is, when a cpu counts and
\* who may run then ...
TurnInv ==
    /\ pc \notin {"account", "thaw"} => todo = {}
    /\ pc = "account" => todo = gang /\ thawed = {}
    /\ pc \notin {"account", "thaw", "start"} => freezing = {}
    /\ thawed \subseteq gang
    /\ \A c \in Cpus : on[c] => pc \in {"power", "idle"}
    /\ pc = "start" => counterRegister = Zero

\* ... and that the programs of a gang exist, each on cpus of its own.
PlaceInv ==
    /\ \A p \in gang : life[p] \in {"alive", "dead"} /\ cpus[p] \in Ranges(p)
    /\ \A p, q \in gang : p # q => cpus[p] \cap cpus[q] = {}

IInv == BillExact /\ TurnInv /\ PlaceInv

\* The cpus of a range exist; a program of one core has one of them, which is
\* the one that get_cpus prints.
LEMMA RangeFacts ==
    ASSUME TypeOK, NEW p \in Progs, cpus[p] \in Ranges(p)
    PROVE  /\ cpus[p] \subseteq Cpus
           /\ CoresNeeded[p] = 1 => cpus[p] = {cpu(p)}
  <1>1. PICK c \in Cpus : cpus[p] = c..(c + CoresNeeded[p] - 1)
    BY DEF Ranges
  <1>2. c \in Nat /\ CoresNeeded[p] \in Nat \ {0}
    BY CountersAssumption
  <1>3. cpus[p] \subseteq Cpus
    BY DEF Ranges
  <1>4. ASSUME CoresNeeded[p] = 1 PROVE cpus[p] = {cpu(p)}
    <2>1. cpus[p] = {c}
      BY <1>1, <1>2, <1>4
    <2>2. cpu(p) = c
      BY <2>1, <1>2 DEF cpu
    <2> QED
      BY <2>1, <2>2
  <1> QED
    BY <1>3, <1>4

\* The initial states: nothing runs, nothing has been counted.
LEMMA InitIInv == Init => IInv
  <1> SUFFICES ASSUME Init PROVE IInv
    OBVIOUS
  <1>1. TypeOK
    <2>1. Zero \in [Cpus -> Nat]
      BY DEF Zero
    <2>2. /\ on \in [Cpus -> BOOLEAN] /\ cpus \in [Progs -> SUBSET Cpus]
          /\ ticked \in [Progs -> SUBSET Cpus]
      BY DEF Init
    <2>3. events \in PerCpu /\ events_tmp \in PerCpu /\ counted \in PerCpu
      BY <2>1 DEF Init, PerCpu
    <2> QED
      BY <2>1, <2>2, <2>3 DEF Init, TypeOK, PcValues
  <1>2. Exact
    BY DEF Init, Exact, Pending, Zero
  <1>3. TurnInv /\ PlaceInv
    BY DEF Init, TurnInv, PlaceInv
  <1> QED
    BY <1>1, <1>2, <1>3 DEF IInv, BillExact, Exact

\* A program executes an instruction: only a member of the gang can while a cpu
\* counts, and the cpu is its own.
LEMMA ExecuteIInv ==
    ASSUME IInv, NEW p \in Progs, NEW c \in Cpus, Execute(p, c)
    PROVE  IInv'
  <1> USE DEF Execute, progVars, statVars, offVars
  <1>0. TypeOK /\ Exact /\ TurnInv /\ PlaceInv
    BY DEF IInv, BillExact, Exact
  <1>1. TypeOK'
    <2>1. counterRegister' \in [Cpus -> Nat]
      BY <1>0 DEF TypeOK
    <2>2. counted' \in PerCpu
      BY <1>0 DEF TypeOK, PerCpu
    <2>3. work' \in Nat /\ startedAt' \in 0..work'
      BY <1>0 DEF TypeOK
    <2> QED
      BY <1>0, <2>1, <2>2, <2>3 DEF TypeOK
  <1>2. TurnInv'
    BY <1>0 DEF TurnInv, TypeOK
  <1>3. PlaceInv'
    BY <1>0 DEF PlaceInv, Ranges
  <1>4. Exact'
    <2> SUFFICES ASSUME NEW q \in Progs \ misread, NEW d \in Cpus
                 PROVE  events_tmp[q][d] + Pending(q, d)' = counted'[q][d]
      BY DEF Exact
    <2>0. /\ events_tmp[q][d] + Pending(q, d) = counted[q][d]
          /\ events_tmp[q][d] \in Nat /\ counted[q][d] \in Nat
          /\ counterRegister[d] \in Nat
      BY <1>0 DEF Exact, TypeOK, PerCpu
    <2>1. CASE ~on[c]
      <3>1. counterRegister' = counterRegister /\ counted' = counted
        BY <1>0, <2>1 DEF TypeOK, PerCpu
      <3> QED
        BY <2>0, <3>1 DEF Pending
    <2>2. CASE on[c]
      <3>1. pc \in {"power", "idle"} /\ p \in gang /\ c \in cpus[p]
        BY <1>0, <2>2 DEF TurnInv
      <3>2. CASE q = p /\ d = c
        <4>1. counted'[q][d] = counted[q][d] + 1 /\ counterRegister'[d] = counterRegister[d] + 1
          BY <1>0, <2>2, <3>2 DEF TypeOK, PerCpu
        <4> QED
          BY <2>0, <3>1, <3>2, <4>1 DEF Pending
      <3>3. CASE d # c
        <4>1. counted'[q][d] = counted[q][d] /\ counterRegister'[d] = counterRegister[d]
          BY <1>0, <3>3 DEF TypeOK, PerCpu
        <4> QED
          BY <2>0, <4>1 DEF Pending
      <3>4. CASE q # p /\ d = c
        <4>1. counted'[q][d] = counted[q][d]
          BY <1>0, <3>4 DEF TypeOK, PerCpu
        <4>2. q \in gang => d \notin cpus[q]
          BY <1>0, <3>1, <3>4 DEF PlaceInv
        <4> QED
          BY <2>0, <4>1, <4>2 DEF Pending
      <3> QED
        BY <3>2, <3>3, <3>4
    <2> QED
      BY <2>1, <2>2
  <1> QED
    BY <1>1, <1>2, <1>3, <1>4 DEF IInv, BillExact, Exact

\* An exit and a completed freeze disturb no count.
LEMMA ProgramIInv ==
    ASSUME IInv, NEW p \in Progs, Exit(p) \/ Stopped(p)
    PROVE  IInv'
  <1> USE DEF Exit, Stopped, hwVars, statVars, offVars, seenVars
  <1>1. BillExact'
    BY DEF IInv, BillExact, TypeOK, Pending
  <1>2. TurnInv' /\ PlaceInv'
    BY DEF IInv, BillExact, TypeOK, TurnInv, PlaceInv, Ranges
  <1> QED
    BY <1>1, <1>2 DEF IInv

-----------------------------------------------------------------------------
(* The calls of a tick.                                                     *)

\* The calls that change no bill: what the registers hold is still pending
\* after they are stopped, read, or told apart from the package's counters.
LEMMA QuietIInv ==
    ASSUME IInv, StopCounters \/ ReadCounters \/ GetOffcore \/ EndThaw
    PROVE  IInv'
  <1> USE DEF progVars, hwVars, statVars, offVars, seenVars
  <1>0. TypeOK /\ Exact /\ TurnInv /\ PlaceInv
    BY DEF IInv, BillExact, Exact
  <1>1. CASE StopCounters
    <2>1. TypeOK'
      BY <1>0, <1>1 DEF StopCounters, TypeOK, PcValues
    <2>2. TurnInv' /\ PlaceInv'
      BY <1>0, <1>1 DEF StopCounters, TurnInv, PlaceInv, Ranges
    <2>3. Exact'
      BY <1>0, <1>1 DEF StopCounters, Exact, Pending
    <2> QED
      BY <2>1, <2>2, <2>3 DEF IInv, BillExact, Exact
  <1>2. CASE ReadCounters
    <2>1. TypeOK'
      BY <1>0, <1>2 DEF ReadCounters, TypeOK, PcValues
    <2>2. TurnInv' /\ PlaceInv'
      BY <1>0, <1>2 DEF ReadCounters, TurnInv, PlaceInv, Ranges
    <2>3. Exact'
      BY <1>0, <1>2 DEF ReadCounters, Exact, Pending
    <2> QED
      BY <2>1, <2>2, <2>3 DEF IInv, BillExact, Exact
  <1>3. CASE GetOffcore
    <2>1. TypeOK'
      BY <1>0, <1>3 DEF GetOffcore, StopPackage, TypeOK, PcValues
    <2>2. TurnInv' /\ PlaceInv'
      BY <1>0, <1>3 DEF GetOffcore, StopPackage, TurnInv, PlaceInv, Ranges
    <2>3. Exact'
      BY <1>0, <1>3 DEF GetOffcore, Exact, Pending
    <2> QED
      BY <2>1, <2>2, <2>3 DEF IInv, BillExact, Exact
  <1>4. CASE EndThaw
    <2>1. TypeOK'
      BY <1>0, <1>4 DEF EndThaw, StartPackage, startMCCounters, startPower, TypeOK, PcValues
    <2>2. TurnInv' /\ PlaceInv'
      BY <1>0, <1>4 DEF EndThaw, TurnInv, PlaceInv, Ranges
    <2>3. Exact'
      BY <1>0, <1>4 DEF EndThaw, Exact, Pending
    <2> QED
      BY <2>1, <2>2, <2>3 DEF IInv, BillExact, Exact
  <1> QED
    BY <1>1, <1>2, <1>3, <1>4

\* The gang is told to freeze; from here on the loop has it all to account.
LEMMA FreezeIInv == ASSUME IInv, FreezePrograms PROVE IInv'
  <1> USE DEF FreezePrograms, hwVars, statVars, offVars, seenVars
  <1>0. TypeOK /\ Exact /\ TurnInv /\ PlaceInv
    BY DEF IInv, BillExact, Exact
  <1>1. TypeOK'
    BY <1>0 DEF TypeOK, PcValues
  <1>2. TurnInv' /\ PlaceInv'
    BY <1>0 DEF TurnInv, PlaceInv, Ranges
  <1>3. Exact'
    BY <1>0 DEF Exact, Pending
  <1> QED
    BY <1>1, <1>2, <1>3 DEF IInv, BillExact, Exact

\* What ss_aff_stats_read adds to the events of a program that leaves the gang,
\* and that it keeps the types.
LEMMA ReadFacts ==
    ASSUME TypeOK, NEW p \in Progs, NEW readings \in [Cpus -> Nat],
           PauseAndRead(p, readings)
    PROVE  /\ ticked' \in [Progs -> SUBSET Cpus]
           /\ events' \in PerCpu /\ events_tmp' \in PerCpu
           /\ \A q \in Progs, c \in Cpus :
                events_tmp'[q][c] = IF q = p /\ c \in cpus[p]
                                    THEN events_tmp[q][c] + readings[c]
                                    ELSE events_tmp[q][c]
  <1>1. ticked' \in [Progs -> SUBSET Cpus]
    BY DEF TypeOK, PauseAndRead
  <1>2. events' \in PerCpu
    <2>1. [c \in Cpus |-> IF c \in cpus[p] THEN readings[c] ELSE events[p][c]] \in [Cpus -> Nat]
      BY DEF TypeOK, PerCpu
    <2> QED
      BY <2>1 DEF TypeOK, PauseAndRead, PerCpu
  <1>3. events_tmp' \in PerCpu
    <2>1. [c \in Cpus |-> IF c \in cpus[p] THEN events_tmp[p][c] + readings[c]
                                           ELSE events_tmp[p][c]] \in [Cpus -> Nat]
      BY DEF TypeOK, PerCpu
    <2> QED
      BY <2>1 DEF TypeOK, PauseAndRead, PerCpu
  <1>4. ASSUME NEW q \in Progs, NEW c \in Cpus
        PROVE  events_tmp'[q][c] = IF q = p /\ c \in cpus[p]
                                   THEN events_tmp[q][c] + readings[c]
                                   ELSE events_tmp[q][c]
    BY DEF TypeOK, PauseAndRead, PerCpu
  <1> QED
    BY <1>1, <1>2, <1>3, <1>4

\* A member of the gang pays for what was read on its cpus, and leaves the gang
\* with nothing pending; nobody else has these cpus.
LEMMA AccountIInv ==
    ASSUME IInv, NEW p \in Progs, NEW kill \in BOOLEAN, Account(p, kill)
    PROVE  IInv'
  <1> USE DEF Account, hwVars, offVars, seenVars
  <1>0. TypeOK /\ Exact /\ TurnInv /\ PlaceInv
    BY DEF IInv, BillExact, Exact
  <1>1. counterData \in [Cpus -> Nat]
    BY <1>0 DEF TypeOK
  <1>2. TypeOK'
    <2>1. ticked' \in [Progs -> SUBSET Cpus] /\ events' \in PerCpu /\ events_tmp' \in PerCpu
      BY <1>0, <1>1, ReadFacts
    <2>2. life' \in [Progs -> {"alive", "dead", "gone", "killed"}]
      BY <1>0 DEF TypeOK
    <2> QED
      BY <1>0, <2>1, <2>2 DEF TypeOK
  <1>3. TurnInv' /\ PlaceInv'
    BY <1>0 DEF TypeOK, TurnInv, PlaceInv, Ranges
  <1>4. Exact'
    <2> SUFFICES ASSUME NEW q \in Progs \ misread, NEW c \in Cpus
                 PROVE  events_tmp'[q][c] + Pending(q, c)' = counted[q][c]
      BY DEF Exact
    <2>1. events_tmp'[q][c] = IF q = p /\ c \in cpus[p]
                              THEN events_tmp[q][c] + counterData[c]
                              ELSE events_tmp[q][c]
      BY <1>0, <1>1, ReadFacts
    <2>2. /\ events_tmp[q][c] + Pending(q, c) = counted[q][c]
          /\ events_tmp[q][c] \in Nat /\ counterData[c] \in Nat
      BY <1>0 DEF Exact, TypeOK, PerCpu
    <2>3. CASE q = p
      BY <1>0, <2>1, <2>2, <2>3 DEF Pending, TurnInv
    <2>4. CASE q # p
      BY <2>1, <2>2, <2>4 DEF Pending
    <2> QED
      BY <2>3, <2>4
  <1> QED
    BY <1>2, <1>3, <1>4 DEF IInv, BillExact, Exact

\* The old gang has been accounted, and the new one gets cpus of its own.
LEMMA ScheduleIInv ==
    ASSUME IInv, NEW chosen \in SUBSET Progs, NEW place \in [chosen -> SUBSET Cpus],
           Schedule(chosen, place)
    PROVE  IInv'
  <1> USE DEF Schedule, hwVars, statVars, offVars, seenVars
  <1>0. TypeOK /\ Exact /\ TurnInv /\ PlaceInv
    BY DEF IInv, BillExact, Exact
  <1>1. TypeOK'
    <2>1. cpus' \in [Progs -> SUBSET Cpus]
      BY <1>0 DEF TypeOK
    <2> QED
      BY <1>0, <2>1 DEF TypeOK, PcValues
  <1>2. gang = {} /\ thawed = {}
    BY <1>0 DEF TurnInv
  <1>3. TurnInv'
    BY <1>0, <1>2 DEF TurnInv
  <1>4. PlaceInv'
    BY <1>0 DEF PlaceInv, Ranges
  <1>5. Exact'
    BY <1>0, <1>2 DEF Exact, Pending
  <1> QED
    BY <1>1, <1>3, <1>4, <1>5 DEF IInv, BillExact, Exact

\* Until the counters are started nothing is pending.
LEMMA ThawIInv ==
    ASSUME IInv, \/ \E p \in Progs : Thaw(p)
                 \/ ZeroCounters
                 \/ StartCounters
    PROVE  IInv'
  <1> USE DEF progVars, hwVars, statVars, offVars, seenVars
  <1>0. TypeOK /\ Exact /\ TurnInv /\ PlaceInv
    BY DEF IInv, BillExact, Exact
  <1>1. Zero \in [Cpus -> Nat]
    BY DEF Zero
  <1>2. ASSUME NEW p \in Progs, Thaw(p) PROVE IInv'
    <2>1. TypeOK'
      BY <1>0, <1>1, <1>2 DEF Thaw, ZeroStats, TypeOK, PerCpu
    <2>2. TurnInv' /\ PlaceInv'
      BY <1>0, <1>2 DEF Thaw, TypeOK, TurnInv, PlaceInv, Ranges
    <2>3. Exact'
      BY <1>0, <1>2 DEF Thaw, Exact, Pending
    <2> QED
      BY <2>1, <2>2, <2>3 DEF IInv, BillExact, Exact
  <1>3. CASE ZeroCounters
    <2>1. TypeOK'
      BY <1>0, <1>1, <1>3 DEF ZeroCounters, Zeroed, TypeOK, PcValues
    <2>2. TurnInv' /\ PlaceInv'
      BY <1>0, <1>3 DEF ZeroCounters, Zeroed, TurnInv, PlaceInv, Ranges
    <2>3. Exact'
      BY <1>0, <1>3 DEF ZeroCounters, Exact, Pending
    <2> QED
      BY <2>1, <2>2, <2>3 DEF IInv, BillExact, Exact
  <1>4. CASE StartCounters
    <2>1. TypeOK'
      BY <1>0, <1>4 DEF StartCounters, TypeOK, PcValues
    <2>2. TurnInv' /\ PlaceInv'
      BY <1>0, <1>4 DEF StartCounters, TurnInv, PlaceInv, Ranges
    <2>3. Exact'
      BY <1>0, <1>4 DEF StartCounters, Exact, Pending, TurnInv, Zero
    <2> QED
      BY <2>1, <2>2, <2>3 DEF IInv, BillExact, Exact
  <1> QED
    BY <1>2, <1>3, <1>4

-----------------------------------------------------------------------------
(* Between two ticks.                                                       *)

\* An exit that rebalance charges: a program of one core that is still in the
\* gang is charged with its register, read anew; the others become misread.
LEMMA RebalanceIInv ==
    ASSUME IInv, NEW p \in Progs, Rebalance(p)
    PROVE  IInv'
  <1> USE DEF Rebalance
  <1>0. TypeOK /\ Exact /\ TurnInv /\ PlaceInv
    BY DEF IInv, BillExact, Exact
  <1>1. counterData' \in [Cpus -> Nat]
    BY <1>0 DEF TypeOK, ReadCpu
  <1>2. /\ ticked' \in [Progs -> SUBSET Cpus] /\ events' \in PerCpu /\ events_tmp' \in PerCpu
        /\ \A q \in Progs, c \in Cpus :
             events_tmp'[q][c] = IF q = p /\ c \in cpus[p]
                                 THEN events_tmp[q][c] + counterData'[c]
                                 ELSE events_tmp[q][c]
    BY <1>0, <1>1, ReadFacts
  <1>3. TypeOK'
    <2>1. /\ life' \in [Progs -> {"alive", "dead", "gone", "killed"}]
          /\ on' \in [Cpus -> BOOLEAN] /\ misread' \subseteq Progs
      BY <1>0 DEF TypeOK
    <2>2. todo' \subseteq gang'
      BY <1>0 DEF TurnInv
    <2>3. startedAt' \in 0..work'
      BY <1>0 DEF TypeOK, StopPackage
    <2> QED
      BY <1>0, <1>1, <1>2, <2>1, <2>2, <2>3 DEF TypeOK
  <1>4. TurnInv'
    BY <1>0 DEF TurnInv
  <1>5. PlaceInv'
    BY <1>0 DEF TypeOK, PlaceInv, Ranges
  <1>6. Exact'
    <2> SUFFICES ASSUME NEW q \in Progs \ misread', NEW c \in Cpus
                 PROVE  events_tmp'[q][c] + Pending(q, c)' = counted[q][c]
      BY DEF Exact
    <2>1. q \notin misread /\ (q = p => p \in gang /\ CoresNeeded[p] = 1)
      BY CountersAssumption
    <2>2. /\ events_tmp[q][c] + Pending(q, c) = counted[q][c]
          /\ events_tmp[q][c] \in Nat /\ counterRegister[c] \in Nat
      BY <1>0, <2>1 DEF Exact, TypeOK, PerCpu
    <2>3. CASE q # p
      BY <1>2, <2>2, <2>3 DEF Pending
    <2>4. CASE q = p
      <3>1. cpus[p] = {cpu(p)} /\ cpus[p] \subseteq Cpus
        BY <1>0, <2>1, <2>4, RangeFacts DEF PlaceInv
      <3>2. c \in cpus[p] => counterData'[c] = counterRegister[c]
        BY <1>0, <3>1 DEF TypeOK, ReadCpu
      <3>3. Pending(q, c)' = 0
        BY <2>4 DEF Pending
      <3>4. Pending(q, c) = IF c \in cpus[p] THEN counterRegister[c] ELSE 0
        BY <2>1, <2>4 DEF Pending
      <3> QED
        BY <1>2, <2>2, <2>4, <3>2, <3>3, <3>4
    <2> QED
      BY <2>3, <2>4
  <1> QED
    BY <1>3, <1>4, <1>5, <1>6 DEF IInv, BillExact, Exact

\* The next instance starts with nothing counted and nothing pending.
LEMMA AddProgIInv ==
    ASSUME IInv, NEW p \in Progs, AddProg(p)
    PROVE  IInv'
  <1> USE DEF AddProg, hwVars, offVars
  <1>0. TypeOK /\ Exact /\ TurnInv /\ PlaceInv
    BY DEF IInv, BillExact, Exact
  <1>1. p \notin gang
    BY <1>0 DEF PlaceInv
  <1>2. TypeOK'
    <2>1. Zero \in [Cpus -> Nat]
      BY DEF Zero
    <2>2. /\ ticked' \in [Progs -> SUBSET Cpus] /\ cpus' \in [Progs -> SUBSET Cpus]
          /\ life' \in [Progs -> {"alive", "dead", "gone", "killed"}]
      BY <1>0 DEF TypeOK
    <2>3. events' \in PerCpu /\ events_tmp' \in PerCpu /\ counted' \in PerCpu
      BY <1>0, <2>1 DEF TypeOK, PerCpu
    <2> QED
      BY <1>0, <2>2, <2>3 DEF TypeOK
  <1>3. TurnInv' /\ PlaceInv'
    BY <1>0, <1>1 DEF TypeOK, TurnInv, PlaceInv, Ranges
  <1>4. Exact'
    <2> SUFFICES ASSUME NEW q \in Progs \ misread', NEW c \in Cpus
                 PROVE  events_tmp'[q][c] + Pending(q, c)' = counted'[q][c]
      BY DEF Exact
    <2>1. CASE q = p
      BY <1>0, <1>1, <2>1 DEF TypeOK, PerCpu, Pending, Zero
    <2>2. CASE q # p
      <3>1. events_tmp'[q] = events_tmp[q] /\ counted'[q] = counted[q] /\ cpus'[q] = cpus[q]
        BY <1>0, <2>2 DEF TypeOK, PerCpu
      <3> QED
        BY <1>0, <2>2, <3>1 DEF Exact, Pending
    <2> QED
      BY <2>1, <2>2
  <1> QED
    BY <1>2, <1>3, <1>4 DEF IInv, BillExact, Exact

-----------------------------------------------------------------------------

LEMMA StepIInv == IInv /\ [Next]_vars => IInv'
  <1> SUFFICES ASSUME IInv, [Next]_vars PROVE IInv'
    OBVIOUS
  <1>1. CASE Tick
    <2>1. CASE StopCounters \/ ReadCounters \/ GetOffcore \/ EndThaw
      BY <2>1, QuietIInv
    <2>2. CASE FreezePrograms
      BY <2>2, FreezeIInv
    <2>3. CASE \E p \in Progs, kill \in BOOLEAN : Account(p, kill)
      BY <2>3, AccountIInv
    <2>4. CASE \E chosen \in SUBSET Progs : \E place \in [chosen -> SUBSET Cpus] :
                   Schedule(chosen, place)
      BY <2>4, ScheduleIInv
    <2>5. CASE (\E p \in Progs : Thaw(p)) \/ ZeroCounters \/ StartCounters
      BY <2>5, ThawIInv
    <2> QED
      BY <1>1, <2>1, <2>2, <2>3, <2>4, <2>5 DEF Tick
  <1>2. CASE \E p \in Progs : Rebalance(p) \/ AddProg(p) \/ Exit(p) \/ Stopped(p)
    BY <1>2, RebalanceIInv, AddProgIInv, ProgramIInv
  <1>3. CASE \E p \in Progs, c \in Cpus : Execute(p, c)
    BY <1>3, ExecuteIInv
  <1>4. CASE UNCHANGED vars
    BY <1>4 DEF vars, progVars, hwVars, statVars, offVars, seenVars, IInv, BillExact, TypeOK,
         Pending, TurnInv, PlaceInv, Ranges
  <1> QED
    BY <1>1, <1>2, <1>3, <1>4 DEF Next

\* A program is charged, cpu by cpu, with exactly what it has executed while
\* the counters were on, but for the exits that rebalance reads wrongly: in
\* every tick, for any gangs the policies choose and any kills.
THEOREM BillIsExact == Spec => []BillExact
  <1>1. IInv => BillExact
    BY DEF IInv
  <1> QED
    BY <1>1, InitIInv, StepIInv, PTL DEF Spec

-----------------------------------------------------------------------------
(* The two sums of a quantum.                                              *)

\* Off its cpus the statistics of a program are zero, unless schedule has just
\* given it other cpus and thaw_sched is about to zero them.
StaleInv ==
    \A p \in Progs : (pc = "thaw" /\ p \in todo) \/ \A c \in Cpus \ cpus[p] : events[p][c] = 0

\* PauseAndRead with numbers writes only what belongs to the cpus of the program.
LEMMA ReadAt ==
    ASSUME TypeOK, NEW p \in Progs, NEW readings \in [Cpus -> Nat], PauseAndRead(p, readings)
    PROVE  /\ ticked'[p] = ticked[p] \cup cpus[p]
           /\ \A c \in Cpus :
                /\ events'[p][c] = IF c \in cpus[p] THEN readings[c] ELSE events[p][c]
                /\ events_tmp'[p][c] = events_tmp[p][c] + (IF c \in cpus[p] THEN readings[c] ELSE 0)
           /\ \A q \in Progs \ {p} : events'[q] = events[q]
  BY DEF PauseAndRead, TypeOK, PerCpu

\* What Account and Rebalance read are numbers.
LEMMA ReadingsNat ==
    ASSUME TypeOK, NEW p \in Progs,
           Rebalance(p) \/ \E kill \in BOOLEAN : Account(p, kill)
    PROVE  \E readings \in [Cpus -> Nat] : PauseAndRead(p, readings)
  <1>1. counterData \in [Cpus -> Nat] /\ counterRegister \in [Cpus -> Nat]
    BY DEF TypeOK
  <1>2. CASE \E kill \in BOOLEAN : Account(p, kill)
    BY <1>1, <1>2 DEF Account
  <1>3. CASE Rebalance(p)
    <2>1. counterData' = ReadCpu(cpu(p)) /\ PauseAndRead(p, counterData')
      BY <1>3 DEF Rebalance
    <2>2. counterData' \in [Cpus -> Nat]
      BY <1>1, <2>1 DEF ReadCpu
    <2> QED
      BY <2>1, <2>2
  <1> QED
    BY <1>2, <1>3

\* A program that is read outside thaw has nothing but the readings in its
\* events, so that both sums are that of the readings on its cpus.
LEMMA SumsAgree ==
    ASSUME TypeOK, NEW p \in Progs, NEW readings \in [Cpus -> Nat], PauseAndRead(p, readings),
           \A c \in Cpus \ cpus[p] : events[p][c] = 0
    PROVE  ss_get_counter(p)' = get_total_instr(p)' - get_total_instr(p)
  <1>1. IsFiniteSet(Cpus) /\ cpus[p] \subseteq Cpus /\ ticked[p] \subseteq Cpus
    BY CountersAssumption DEF TypeOK
  <1>2. PICK T \in SUBSET Cpus : T = ticked'[p] /\ cpus[p] \subseteq T
    BY <1>1, ReadAt
  <1>3. \A c \in Cpus : events'[p][c] = IF c \in cpus[p] THEN readings[c] ELSE 0
    BY ReadAt
  <1>4. \A c \in Cpus : events_tmp'[p][c] = events_tmp[p][c] + events'[p][c]
    BY <1>3, ReadAt
  <1>5. NatsOn(events'[p], Cpus) /\ NatsOn(events_tmp[p], Cpus)
    <2>1. \A c \in Cpus : events'[p][c] \in Nat
      BY <1>3
    <2>2. \A c \in Cpus : events_tmp[p][c] \in Nat
      BY DEF TypeOK, PerCpu
    <2> QED
      BY <2>1, <2>2 DEF NatsOn
  <1>6. AddsUp(events_tmp'[p], events_tmp[p], events'[p], Cpus)
    BY <1>4 DEF AddsUp
  <1>7. ZeroOff(events'[p], Cpus, T)
    BY <1>2, <1>3 DEF ZeroOff
  <1>8. SumFunctionOnSet(events'[p], Cpus) = SumFunctionOnSet(events'[p], T)
    BY <1>1, <1>5, <1>7, SumWithin
  <1>9. SumFunctionOnSet(events_tmp'[p], Cpus)
          = SumFunctionOnSet(events_tmp[p], Cpus) + SumFunctionOnSet(events'[p], Cpus)
    BY <1>1, <1>5, <1>6, SumAdd
  <1>10. /\ SumFunctionOnSet(events'[p], Cpus) \in Nat
         /\ SumFunctionOnSet(events_tmp[p], Cpus) \in Nat
    BY <1>1, <1>5, SumNat DEF NatsOn
  <1>11. SumFunctionOnSet(events'[p], T)
           = SumFunctionOnSet(events_tmp'[p], Cpus) - SumFunctionOnSet(events_tmp[p], Cpus)
    BY <1>8, <1>9, <1>10
  <1> QED
    BY <1>2, <1>11 DEF ss_get_counter, get_total_instr

\* StaleInv is kept by every step.
LEMMA StaleNext == TypeOK /\ StaleInv /\ [Next]_vars => StaleInv'
  <1> SUFFICES ASSUME TypeOK, StaleInv, [Next]_vars PROVE StaleInv'
    OBVIOUS
  <1>1. ASSUME UNCHANGED <<cpus, events>>, pc # "thaw" \/ UNCHANGED <<pc, todo>> PROVE StaleInv'
    BY <1>1 DEF StaleInv
  <1>2. ASSUME NEW p \in Progs, Rebalance(p) \/ \E kill \in BOOLEAN : Account(p, kill)
        PROVE  StaleInv'
    <2>1. PICK readings \in [Cpus -> Nat] : PauseAndRead(p, readings)
      BY <1>2, ReadingsNat
    <2>2. pc # "thaw" /\ cpus' = cpus
      BY <1>2 DEF Rebalance, Account
    <2>3. \A q \in Progs : \A c \in Cpus \ cpus[q] : events[q][c] = 0
      BY <2>2 DEF StaleInv
    <2>4. \A q \in Progs : \A c \in Cpus \ cpus[q] : events'[q][c] = events[q][c]
      BY <2>1, ReadAt
    <2> QED
      BY <2>2, <2>3, <2>4 DEF StaleInv
  <1>3. ASSUME NEW chosen \in SUBSET Progs, NEW place \in [chosen -> SUBSET Cpus],
               Schedule(chosen, place)
        PROVE  StaleInv'
    <2>1. /\ pc # "thaw" /\ pc' = "thaw" /\ todo' = chosen /\ events' = events
          /\ \A q \in Progs \ chosen : cpus'[q] = cpus[q]
      BY <1>3 DEF Schedule, statVars
    <2> QED
      BY <2>1 DEF StaleInv
  <1>4. ASSUME NEW p \in Progs, Thaw(p) PROVE StaleInv'
    <2>1. /\ pc' = pc /\ todo' = todo \ {p} /\ cpus' = cpus
          /\ \A q \in Progs \ {p} : events'[q] = events[q]
          /\ events'[p] = Zero
      BY <1>4 DEF Thaw, ZeroStats, TypeOK, PerCpu
    <2>2. \A c \in Cpus : events'[p][c] = 0
      BY <2>1 DEF Zero
    <2>3. ASSUME NEW q \in Progs \ {p}
          PROVE  (pc' = "thaw" /\ q \in todo') \/ \A c \in Cpus \ cpus'[q] : events'[q][c] = 0
      BY <2>1 DEF StaleInv
    <2> QED
      BY <2>2, <2>3 DEF StaleInv
  <1>5. ASSUME NEW p \in Progs, AddProg(p) PROVE StaleInv'
    <2>1. /\ pc # "thaw" /\ events'[p] = Zero
          /\ \A q \in Progs \ {p} : events'[q] = events[q] /\ cpus'[q] = cpus[q]
      BY <1>5 DEF AddProg, TypeOK, PerCpu
    <2>2. \A c \in Cpus : events'[p][c] = 0
      BY <2>1 DEF Zero
    <2>3. ASSUME NEW q \in Progs \ {p}
          PROVE  \A c \in Cpus \ cpus'[q] : events'[q][c] = 0
      BY <2>1 DEF StaleInv
    <2> QED
      BY <2>2, <2>3 DEF StaleInv
  <1>6. CASE StopCounters \/ ReadCounters \/ GetOffcore \/ FreezePrograms
    BY <1>1, <1>6 DEF StopCounters, ReadCounters, GetOffcore, FreezePrograms, progVars, statVars
  <1>7. CASE StartCounters \/ EndThaw
    BY <1>1, <1>7 DEF StartCounters, EndThaw, progVars, statVars
  <1>8. CASE ZeroCounters
    BY <1>8 DEF ZeroCounters, progVars, statVars, StaleInv
  <1>9. CASE \E p \in Progs : Exit(p) \/ Stopped(p) \/ \E c \in Cpus : Execute(p, c)
    BY <1>1, <1>9 DEF Exit, Stopped, Execute, progVars, statVars
  <1>10. CASE UNCHANGED vars
    BY <1>1, <1>10 DEF vars, progVars, statVars
  <1> QED
    BY <1>2, <1>3, <1>4, <1>5, <1>6, <1>7, <1>8, <1>9, <1>10 DEF Next, Tick

\* ss_get_counter, which pays for the target, and events_tmp, which makes the
\* total, get the same out of every reading.
THEOREM RetdAgrees == Spec => RetdExact
  <1>1. Init => StaleInv
    BY DEF Init, StaleInv, Zero
  <1>2. IInv => TypeOK
    BY DEF IInv, BillExact
  <1>3. TypeOK /\ StaleInv =>
          \A p \in Progs :
            Rebalance(p) \/ (\E kill \in BOOLEAN : Account(p, kill))
              => ss_get_counter(p)' = get_total_instr(p)' - get_total_instr(p)
    <2> SUFFICES ASSUME TypeOK, StaleInv, NEW p \in Progs,
                        Rebalance(p) \/ \E kill \in BOOLEAN : Account(p, kill)
                 PROVE  ss_get_counter(p)' = get_total_instr(p)' - get_total_instr(p)
      OBVIOUS
    <2>1. PICK readings \in [Cpus -> Nat] : PauseAndRead(p, readings)
      BY ReadingsNat
    <2>2. pc # "thaw"
      BY DEF Rebalance, Account
    <2>3. \A c \in Cpus \ cpus[p] : events[p][c] = 0
      BY <2>2 DEF StaleInv
    <2> QED
      BY <2>1, <2>3, SumsAgree
  <1> QED
    BY <1>1, <1>2, <1>3, InitIInv, StepIInv, StaleNext, PTL DEF Spec, RetdExact

-----------------------------------------------------------------------------
(* The counters of the package.                                             *)

\* A positive multiple of a number is at least as large.
LEMMA Multiples ==
    ASSUME NEW M \in Nat \ {0}, NEW n \in Int, n >= 1
    PROVE  M * n >= M
  OBVIOUS

\* Quotient and remainder, named apart from their operators.
LEMMA Quotient ==
    ASSUME NEW M \in Int, M > 0, NEW a \in Int, NEW q \in Int, NEW x \in Int,
           q = a \div M, x = a % M
    PROVE  a = M * q + x
  OBVIOUS

\* What the quotient and the remainder of a division are.
LEMMA Divide ==
    ASSUME NEW M \in Nat \ {0}, NEW a \in Nat
    PROVE  \E q \in Int, x \in 0..(M - 1) : x = a % M /\ a = M * q + x
  <1>1. PICK q \in Int : q = a \div M
    OBVIOUS
  <1>2. PICK x \in 0..(M - 1) : x = a % M
    OBVIOUS
  <1>3. a = M * q + x
    BY <1>1, <1>2, Quotient
  <1> QED
    BY <1>2, <1>3

\* EnergySince for a counter of M values: y was read first, then x.
Since(M, x, y) == IF x >= y THEN x - y ELSE (M - y) + x

\* The difference of two readings of a counter that wraps, less than one round
\* apart, is what stopPower computes: q and r are the rounds.
LEMMA Wrap ==
    ASSUME NEW M \in Nat \ {0}, NEW a \in Nat, NEW b \in Nat, b <= a, a - b < M
    PROVE  \E x \in 0..(M - 1), y \in 0..(M - 1) :
             x = a % M /\ y = b % M /\ Since(M, x, y) = a - b
  <1>1. PICK q \in Int, x \in 0..(M - 1) : x = a % M /\ a = M * q + x
    BY Divide
  <1>2. PICK r \in Int, y \in 0..(M - 1) : y = b % M /\ b = M * r + y
    BY Divide
  <1>3. PICK k \in Int, d \in 0..(M - 1) : k = q - r /\ d = a - b
    OBVIOUS
  <1>4. M * k = d + (y - x)
    BY <1>1, <1>2, <1>3
  <1>5. ~(k >= 2)
    <2> SUFFICES ASSUME k >= 2 PROVE FALSE
      OBVIOUS
    <2>1. M * (k - 1) >= M /\ M * (k - 1) = M * k - M
      BY Multiples
    <2> QED
      BY <1>4, <2>1
  <1>6. ~(k <= -1)
    <2> SUFFICES ASSUME k <= -1 PROVE FALSE
      OBVIOUS
    <2>1. PICK j \in Int : j = -k
      OBVIOUS
    <2>2. M * j >= M
      BY <2>1, Multiples
    <2>3. M * k + M * j = M * (k + j) /\ M * (k + j) = 0
      BY <2>1
    <2> QED
      BY <1>4, <2>2, <2>3
  <1>7. M * k = 0 \/ M * k = M
    <2>1. k = 0 \/ k = 1
      BY <1>5, <1>6
    <2> QED
      BY <2>1
  <1>8. Since(M, x, y) = d
    BY <1>4, <1>7 DEF Since
  <1> QED
    BY <1>1, <1>2, <1>3, <1>8

\* The two counters were last started together, and less than a round of the
\* energy counter ago.
OffInv ==
    /\ work \in Nat /\ startedAt \in 0..work /\ work - startedAt < EnergyMod
    /\ previousMCNormalReads = startedAt
    /\ prev_energy = (EnergyAtStart + startedAt) % EnergyMod
    /\ OffcoreExact

\* Both counters give what has been used since then, across the wrap.
LEMMA StopPackageExact ==
    ASSUME OffInv, StopPackage
    PROVE  UncMCNormalReads' = span' /\ pkg_energy' = span'
  <1>1. EnergyMod \in Nat \ {0} /\ EnergyAtStart \in Nat
    BY CountersAssumption
  <1>2. PICK a \in Nat, b \in Nat : a = EnergyAtStart + work /\ b = EnergyAtStart + startedAt
    BY <1>1 DEF OffInv
  <1>3. b <= a /\ a - b < EnergyMod /\ a - b = work - startedAt
    BY <1>1, <1>2 DEF OffInv
  <1>4. PICK x \in 0..(EnergyMod - 1), y \in 0..(EnergyMod - 1) :
          x = a % EnergyMod /\ y = b % EnergyMod /\ Since(EnergyMod, x, y) = a - b
    BY <1>1, <1>3, Wrap
  <1>5. x = Joules /\ y = prev_energy
    BY <1>2, <1>4 DEF OffInv, Joules
  <1>6. EnergySince(prev_energy) = Since(EnergyMod, x, y)
    BY <1>5 DEF EnergySince, Since
  <1>7. EnergySince(prev_energy) = work - startedAt
    BY <1>3, <1>4, <1>6
  <1> QED
    BY <1>7 DEF OffInv, StopPackage, stopMCCounters, stopPower

\* Memory reads and energy of a quantum, or of the part of it that ends with an
\* exit, are those since thaw_sched, for any size of the energy counter.
THEOREM OffcoreIsExact == Spec => []OffcoreExact
  <1>1. Init => OffInv
    <2> SUFFICES ASSUME Init PROVE OffInv
      OBVIOUS
    <2>1. EnergyMod \in Nat \ {0} /\ EnergyAtStart \in Nat /\ EnergyAtStart < EnergyMod
      BY CountersAssumption
    <2>2. (EnergyAtStart + 0) % EnergyMod = EnergyAtStart
      BY <2>1
    <2> QED
      BY <2>1, <2>2 DEF Init, OffInv, OffcoreExact
  <1>2. OffInv /\ [Next]_vars => OffInv'
    <2> SUFFICES ASSUME OffInv, [Next]_vars PROVE OffInv'
      OBVIOUS
    <2>1. ASSUME UNCHANGED <<work, offVars>> PROVE OffInv'
      BY <2>1 DEF OffInv, OffcoreExact, offVars
    <2>2. ASSUME NEW p \in Progs, NEW c \in Cpus, Execute(p, c) PROVE OffInv'
      BY <2>2, CountersAssumption DEF Execute, offVars, OffInv, OffcoreExact
    <2>3. CASE GetOffcore \/ \E p \in Progs : Rebalance(p)
      <3>1. StopPackage /\ work' = work
        BY <2>3 DEF GetOffcore, Rebalance
      <3>2. UncMCNormalReads' = span' /\ pkg_energy' = span'
        BY <3>1, StopPackageExact
      <3>3. UNCHANGED <<previousMCNormalReads, prev_energy, startedAt>>
        BY <3>1 DEF StopPackage
      <3> QED
        BY <3>1, <3>2, <3>3 DEF OffInv, OffcoreExact
    <2>4. CASE EndThaw
      BY <2>4, CountersAssumption DEF EndThaw, StartPackage, startMCCounters, startPower,
         Joules, OffInv, OffcoreExact
    <2>5. CASE StopCounters \/ ReadCounters \/ FreezePrograms \/ ZeroCounters \/ StartCounters
      BY <2>1, <2>5 DEF StopCounters, ReadCounters, FreezePrograms, ZeroCounters, StartCounters
    <2>6. CASE \/ \E p \in Progs, kill \in BOOLEAN : Account(p, kill)
               \/ \E chosen \in SUBSET Progs : \E place \in [chosen -> SUBSET Cpus] :
                    Schedule(chosen, place)
               \/ \E p \in Progs : Thaw(p)
      BY <2>1, <2>6 DEF Account, Schedule, Thaw
    <2>7. CASE \E p \in Progs : AddProg(p) \/ Exit(p) \/ Stopped(p)
      BY <2>1, <2>7 DEF AddProg, Exit, Stopped
    <2>8. CASE UNCHANGED vars
      BY <2>1, <2>8 DEF vars
    <2> QED
      BY <2>2, <2>3, <2>4, <2>5, <2>6, <2>7, <2>8 DEF Next, Tick
  <1>3. OffInv => OffcoreExact
    BY DEF OffInv
  <1> QED
    BY <1>1, <1>2, <1>3, PTL DEF Spec
=============================================================================
