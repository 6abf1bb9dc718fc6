-------------------------- MODULE Accounting_proofs --------------------------
(***************************************************************************)
(* Proofs about Accounting for every number of slots, cores and cpus.      *)
(***************************************************************************)
EXTENDS Accounting, FiniteSetTheorems, WellFoundedInduction, TLAPS

-----------------------------------------------------------------------------
(* Induction over the natural numbers, stated for a set of them.            *)

\* A set of natural numbers that is not empty has a least element.
LEMMA LeastNat ==
    ASSUME NEW T \in SUBSET Nat, T # {}
    PROVE  \E n \in T : \A m \in T : n <= m
  <1>1. PICK n \in T : \A m \in T : ~ (<<m, n>> \in OpToRel(<, Nat))
    BY NatLessThanWellFounded, WFMin
  <1>2. ASSUME NEW m \in T PROVE n <= m
    <2>1. m \in Nat /\ n \in Nat /\ ~(m < n)
      BY <1>1 DEF OpToRel
    <2> QED
      BY <2>1
  <1> QED
    BY <1>2

\* A set of numbers that has 0, and with a number the next, has them all.
LEMMA Induct ==
    ASSUME NEW Q, 0 \in Q, \A n \in Nat : n \in Q => n + 1 \in Q
    PROVE  \A n \in Nat : n \in Q
  <1> SUFFICES ASSUME Nat \ Q # {} PROVE FALSE
    OBVIOUS
  <1>1. PICK n \in Nat \ Q : \A m \in Nat \ Q : n <= m
    BY LeastNat
  <1>2. n # 0 /\ n - 1 \in Nat
    BY <1>1
  <1>3. n - 1 \in Q
    BY <1>1, <1>2
  <1>4. (n - 1) + 1 = n
    BY <1>1
  <1> QED
    BY <1>1, <1>2, <1>3, <1>4


-----------------------------------------------------------------------------
(* Sums: SumFunctionOnSet on a finite set.                                  *)

\* The element that is summed first.
Chosen(T) == CHOOSE x \in T : TRUE

\* g sums f over the subsets of S.
SumIs(g, f, S) ==
    g = [T \in SUBSET S |-> IF T = {} THEN 0 ELSE f[Chosen(T)] + g[T \ {Chosen(T)}]]

\* SumFunctionOnSet, its folds unfolded.
LEMMA SumUnfolded ==
    ASSUME NEW f, NEW S
    PROVE  SumFunctionOnSet(f, S) = (CHOOSE g : SumIs(g, f, S))[S]
  BY DEF SumFunctionOnSet, FoldFunctionOnSet, MapThenFoldSet, SumIs, Chosen

\* A subset that is not empty without its chosen element.
LEMMA WithoutChosen ==
    ASSUME NEW T, IsFiniteSet(T), T # {}
    PROVE  /\ Chosen(T) \in T /\ IsFiniteSet(T \ {Chosen(T)})
           /\ Cardinality(T) \in Nat
           /\ Cardinality(T \ {Chosen(T)}) = Cardinality(T) - 1
  <1>1. Chosen(T) \in T
    BY DEF Chosen
  <1> QED
    BY <1>1, FS_RemoveElement, FS_CardinalityType

\* There is such a g when S is finite: by induction on the size of the subsets
\* for which it is right.
LEMMA SumExists ==
    ASSUME NEW f, NEW S, IsFiniteSet(S)
    PROVE  \E g : SumIs(g, f, S)
  <1> DEFINE Value(g, T) == IF T = {} THEN 0 ELSE f[Chosen(T)] + g[T \ {Chosen(T)}]
             Right(g, n) == \A T \in SUBSET S : Cardinality(T) <= n => g[T] = Value(g, T)
             Q == {n \in Nat : \E g : Right(g, n)}
  <1>1. \A T \in SUBSET S : IsFiniteSet(T) /\ Cardinality(T) \in Nat
    BY FS_Subset, FS_CardinalityType
  <1>2. 0 \in Q
    <2> DEFINE g == [T \in SUBSET S |-> 0]
    <2>1. ASSUME NEW T \in SUBSET S, Cardinality(T) <= 0 PROVE g[T] = Value(g, T)
      <3>1. T = {}
        BY <1>1, <2>1, FS_EmptySet
      <3> QED
        BY <3>1
    <2> QED
      BY <2>1
  <1>3. ASSUME NEW n \in Nat, n \in Q PROVE n + 1 \in Q
    <2>1. PICK g : Right(g, n)
      BY <1>3
    <2> DEFINE h == [T \in SUBSET S |-> IF Cardinality(T) <= n THEN g[T] ELSE Value(g, T)]
    <2>2. ASSUME NEW T \in SUBSET S, Cardinality(T) <= n + 1 PROVE h[T] = Value(h, T)
      <3>1. h[T] = Value(g, T)
        BY <2>1
      <3>2. CASE T = {}
        BY <3>1, <3>2
      <3>3. CASE T # {}
        <4>1. T \ {Chosen(T)} \in SUBSET S /\ Cardinality(T \ {Chosen(T)}) <= n
          BY <1>1, <2>2, <3>3, WithoutChosen
        <4>2. h[T \ {Chosen(T)}] = g[T \ {Chosen(T)}]
          BY <4>1
        <4> HIDE DEF h
        <4> QED
          BY <3>1, <3>3, <4>2
      <3> QED
        BY <3>2, <3>3
    <2> HIDE DEF h
    <2>3. Right(h, n + 1)
      BY <2>2
    <2>4. n + 1 \in Nat /\ \E k : Right(k, n + 1)
      <3> HIDE DEF Right
      <3> QED
        BY <2>3
    <2> HIDE DEF Right
    <2> QED
      BY <2>4
  <1>4. \A n \in Nat : n \in Q
    <2> HIDE DEF Q
    <2> QED
      BY <1>2, <1>3, Induct
  <1>5. PICK g : Right(g, Cardinality(S))
    BY <1>1, <1>4
  <1> DEFINE h == [T \in SUBSET S |-> g[T]]
  <1>6. ASSUME NEW T \in SUBSET S PROVE h[T] = Value(h, T)
    <2>1. Cardinality(T) <= Cardinality(S)
      BY FS_Subset
    <2>2. h[T] = Value(g, T)
      BY <1>5, <2>1
    <2>3. T # {} => h[T \ {Chosen(T)}] = g[T \ {Chosen(T)}]
      OBVIOUS
    <2> QED
      BY <2>2, <2>3
  <1>7. h = [T \in SUBSET S |-> Value(h, T)]
    BY <1>6
  <1> QED
    BY <1>7 DEF SumIs

\* Induction on finite sets: Q has the empty set, and a set whose chosen
\* element can be added to a member of Q.
LEMMA SubsetInduct ==
    ASSUME NEW S, IsFiniteSet(S), NEW Q, {} \in Q,
           \A T \in SUBSET S : T # {} /\ T \ {Chosen(T)} \in Q => T \in Q
    PROVE  \A T \in SUBSET S : T \in Q
  <1> DEFINE N == {n \in Nat : \A T \in SUBSET S : Cardinality(T) = n => T \in Q}
  <1>1. \A T \in SUBSET S : IsFiniteSet(T) /\ Cardinality(T) \in Nat
    BY FS_Subset, FS_CardinalityType
  <1>2. 0 \in N
    BY <1>1, FS_EmptySet
  <1>3. ASSUME NEW n \in Nat, n \in N PROVE n + 1 \in N
    <2>1. ASSUME NEW T \in SUBSET S, Cardinality(T) = n + 1 PROVE T \in Q
      <3>1. T # {}
        BY <1>3, <2>1, FS_EmptySet
      <3>2. T \ {Chosen(T)} \in SUBSET S /\ Cardinality(T \ {Chosen(T)}) = n
        BY <1>1, <2>1, <3>1, WithoutChosen
      <3> QED
        BY <1>3, <3>1, <3>2
    <2> QED
      BY <1>3, <2>1
  <1>4. \A n \in Nat : n \in N
    <2> HIDE DEF N
    <2> QED
      BY <1>2, <1>3, Induct
  <1> QED
    BY <1>1, <1>4

\* g[T] is the sum of f over a subset T of S.
SumsUp(g, f, S) ==
    /\ SumFunctionOnSet(f, S) = g[S] /\ g[{}] = 0
    /\ \A T \in SUBSET S : T # {} => g[T] = f[Chosen(T)] + g[T \ {Chosen(T)}]

\* SumFunctionOnSet(f, S) is what a function gives that sums f over the
\* subsets of S.
LEMMA SumGiven ==
    ASSUME NEW f, NEW S, IsFiniteSet(S)
    PROVE  \E g : SumsUp(g, f, S)
  <1>1. PICK g : g = (CHOOSE h : SumIs(h, f, S)) /\ SumIs(g, f, S)
    BY SumExists
  <1>2. \A T \in SUBSET S : g[T] = IF T = {} THEN 0 ELSE f[Chosen(T)] + g[T \ {Chosen(T)}]
    BY <1>1 DEF SumIs
  <1>3. SumFunctionOnSet(f, S) = g[S]
    BY <1>1, SumUnfolded
  <1>4. g[{}] = 0
    BY <1>2
  <1> QED
    BY <1>2, <1>3, <1>4 DEF SumsUp

\* A sum of natural numbers is one.
LEMMA SumNat ==
    ASSUME NEW f, NEW S, IsFiniteSet(S), \A x \in S : f[x] \in Nat
    PROVE  SumFunctionOnSet(f, S) \in Nat
  <1>1. PICK g : SumsUp(g, f, S)
    BY SumGiven
  <1> DEFINE Q == {T \in SUBSET S : g[T] \in Nat}
  <1>2. {} \in Q
    BY <1>1 DEF SumsUp
  <1>3. ASSUME NEW T \in SUBSET S, T # {}, T \ {Chosen(T)} \in Q PROVE T \in Q
    <2>1. PICK x \in S : x = Chosen(T)
      BY <1>3 DEF Chosen
    <2>2. g[T] = f[x] + g[T \ {x}]
      BY <1>1, <1>3, <2>1 DEF SumsUp
    <2> QED
      BY <1>3, <2>1, <2>2
  <1>4. \A T \in SUBSET S : T \in Q
    <2> HIDE DEF Q
    <2> QED
      BY <1>2, <1>3, SubsetInduct
  <1>5. S \in Q
    BY <1>4
  <1> QED
    BY <1>1, <1>5 DEF SumsUp

\* The sum over one element.
LEMMA SumOne ==
    ASSUME NEW f, NEW x, f[x] \in Nat
    PROVE  SumFunctionOnSet(f, {x}) = f[x]
  <1>1. IsFiniteSet({x})
    BY FS_Singleton
  <1>2. PICK g : SumsUp(g, f, {x})
    BY <1>1, SumGiven
  <1>3. Chosen({x}) = x /\ {x} \ {x} = {}
    BY DEF Chosen
  <1>4. g[{x}] = f[x] + 0
    BY <1>2, <1>3 DEF SumsUp
  <1> QED
    BY <1>2, <1>4 DEF SumsUp

\* h is f, but for the elements of B, which are worth one more.
OneMoreIn(f, h, S, B) ==
    \A x \in S : f[x] \in Nat /\ h[x] = f[x] + (IF x \in B THEN 1 ELSE 0)

\* Then the sum grows by the number of the elements of S that are in B.
LEMMA SumMore ==
    ASSUME NEW f, NEW h, NEW S, IsFiniteSet(S), NEW B, OneMoreIn(f, h, S, B)
    PROVE  SumFunctionOnSet(h, S) = SumFunctionOnSet(f, S) + Cardinality(S \cap B)
  <1>1. PICK g : SumsUp(g, f, S)
    BY SumGiven
  <1>2. PICK k : SumsUp(k, h, S)
    BY SumGiven
  <1> DEFINE Q == {T \in SUBSET S : g[T] \in Nat /\ k[T] = g[T] + Cardinality(T \cap B)}
  <1>3. {} \in Q
    <2>1. {} \cap B = {}
      OBVIOUS
    <2> QED
      BY <1>1, <1>2, <2>1, FS_EmptySet DEF SumsUp
  <1>4. ASSUME NEW T \in SUBSET S, T # {}, T \ {Chosen(T)} \in Q PROVE T \in Q
    <2>1. PICK x \in S : x = Chosen(T) /\ x \in T
      BY <1>4 DEF Chosen
    <2>2. PICK U \in SUBSET S : U = T \ {x} /\ U \in Q
      BY <1>4, <2>1
    <2>3. g[T] = f[x] + g[U] /\ k[T] = h[x] + k[U]
      BY <1>1, <1>2, <1>4, <2>1, <2>2 DEF SumsUp
    <2>4. IsFiniteSet(U \cap B) /\ Cardinality(U \cap B) \in Nat
      BY FS_Subset, FS_CardinalityType
    <2>5. Cardinality(T \cap B) = Cardinality(U \cap B) + (IF x \in B THEN 1 ELSE 0)
      <3>1. CASE x \in B
        <4>1. T \cap B = (U \cap B) \cup {x} /\ x \notin U \cap B
          BY <2>1, <2>2, <3>1
        <4> QED
          BY <2>4, <3>1, <4>1, FS_AddElement
      <3>2. CASE x \notin B
        <4>1. T \cap B = U \cap B
          BY <2>1, <2>2, <3>2
        <4> QED
          BY <2>4, <3>2, <4>1
      <3> QED
        BY <3>1, <3>2
    <2>6. g[U] \in Nat /\ k[U] = g[U] + Cardinality(U \cap B)
      BY <2>2
    <2>7. f[x] \in Nat /\ h[x] = f[x] + (IF x \in B THEN 1 ELSE 0)
      BY <2>1 DEF OneMoreIn
    <2>8. g[T] \in Nat /\ k[T] = g[T] + Cardinality(T \cap B)
      BY <2>3, <2>4, <2>5, <2>6, <2>7
    <2> QED
      BY <2>8
  <1>5. S \in Q
    <2> HIDE DEF Q
    <2> QED
      BY <1>3, <1>4, SubsetInduct
  <1> QED
    BY <1>1, <1>2, <1>5 DEF SumsUp

\* A sum of zeros.
LEMMA SumZero ==
    ASSUME NEW f, NEW S, IsFiniteSet(S), \A x \in S : f[x] = 0
    PROVE  SumFunctionOnSet(f, S) = 0
  <1>1. PICK g : SumsUp(g, f, S)
    BY SumGiven
  <1> DEFINE Q == {T \in SUBSET S : g[T] = 0}
  <1>2. {} \in Q
    BY <1>1 DEF SumsUp
  <1>3. ASSUME NEW T \in SUBSET S, T # {}, T \ {Chosen(T)} \in Q PROVE T \in Q
    <2>1. PICK x \in S : x = Chosen(T)
      BY <1>3 DEF Chosen
    <2>2. g[T] = f[x] + g[T \ {x}]
      BY <1>1, <1>3, <2>1 DEF SumsUp
    <2> QED
      BY <1>3, <2>1, <2>2
  <1>4. \A T \in SUBSET S : T \in Q
    <2> HIDE DEF Q
    <2> QED
      BY <1>2, <1>3, SubsetInduct
  <1>5. S \in Q
    BY <1>4
  <1> QED
    BY <1>1, <1>5 DEF SumsUp


\* The properties for one slot.
Exact(s) ==
    /\ total_rtime[s] + (IF s \in Listed THEN OpenRunning(s) ELSE 0) = ran[s]
    /\ total_wtime[s] + (IF s \in Listed THEN OpenWaiting(s) ELSE 0) = lived[s] - ran[s]
Agrees(s) ==
    total_instr[s] + (IF s \in Listed THEN events_tmp[s] ELSE 0)
      = monitored[s] + (Work - target_instr[s])
Own(s) ==
    total_instr[s] + (IF s \in Listed THEN events_tmp[s] ELSE 0)
                   + (IF s \in gang THEN Held(s, counterRegister) ELSE 0) = retired[s]

\* The inductive invariant without the properties.
Types == TypeOK /\ BookInv

\* IInv in terms of them.
LEMMA IInvSlots ==
    IInv <=> Types /\ \A s \in Slots : Exact(s) /\ Agrees(s) /\ (s \notin misread => Own(s))
  <1>1. TotalsAgree <=> \A s \in Slots : Agrees(s)
    BY DEF TotalsAgree, Agrees
  <1>2. ChargedOwn <=> \A s \in Slots : s \notin misread => Own(s)
    BY DEF ChargedOwn, Own
  <1>3. ClockExact <=> TypeOK /\ \A s \in Slots : Exact(s)
    BY DEF ClockExact, Exact
  <1> QED
    BY <1>1, <1>2, <1>3 DEF IInv, Types

\* And of its next state.
LEMMA IInvNext ==
    ASSUME Types', \A s \in Slots : Exact(s)' /\ Agrees(s)' /\ (s \notin misread' => Own(s)')
    PROVE  IInv'
  <1>1. TotalsAgree'
    BY DEF TotalsAgree, Agrees
  <1>2. ChargedOwn'
    BY DEF ChargedOwn, Own
  <1>3. ClockExact'
    BY DEF ClockExact, Exact, Types
  <1> QED
    BY <1>1, <1>2, <1>3 DEF IInv, Types

-----------------------------------------------------------------------------
(* Clocks and counters.                                                     *)

\* Updating a clock that runs closes the interval of running, and it waits.
LEMMA UpdateRunning ==
    ASSUME NEW c \in ClockValues, NEW t \in Nat, c.rstart <= t, c.status = "RUNNING"
    PROVE  sched_update_clock(c, t)
             = [c EXCEPT !.wstart = t, !.running = c.running + (t - c.rstart)]
  <1>1. sched_start_clock(c, t) = c
    BY DEF sched_start_clock
  <1>2. c.status # "STOPED"
    OBVIOUS
  <1> QED
    BY <1>1, <1>2 DEF sched_update_clock, sched_stop_clock

\* Updating a clock that waits closes the interval of waiting.
LEMMA UpdateWaiting ==
    ASSUME NEW c \in ClockValues, NEW t \in Nat, c.wstart <= t, c.status = "STOPED"
    PROVE  sched_update_clock(c, t)
             = [c EXCEPT !.rstart = t, !.waiting = c.waiting + (t - c.wstart)]
  <1>1. sched_start_clock(c, t)
          = [c EXCEPT !.rstart = t, !.waiting = c.waiting + (t - c.wstart)]
    BY DEF sched_start_clock
  <1>2. sched_start_clock(c, t).status = "STOPED"
    BY <1>1 DEF ClockValues
  <1> QED
    BY <1>1, <1>2 DEF sched_update_clock, sched_stop_clock

\* The status of a clock is set apart from its times.
LEMMA SetStatus ==
    ASSUME NEW b \in ClockValues, NEW st \in {"RUNNING", "STOPED"}
    PROVE  /\ [b EXCEPT !.status = st] \in ClockValues
           /\ [b EXCEPT !.status = st].status = st
           /\ [b EXCEPT !.status = st].wstart = b.wstart
           /\ [b EXCEPT !.status = st].rstart = b.rstart
           /\ [b EXCEPT !.status = st].running = b.running
           /\ [b EXCEPT !.status = st].waiting = b.waiting
  BY DEF ClockValues

\* What the counters of some cpus hold is a number, zero when they are reset.
LEMMA HeldNat ==
    ASSUME NEW cnt \in [CpuIds -> Nat], NEW C \in SUBSET CpuIds
    PROVE  /\ IsFiniteSet(C) /\ SumFunctionOnSet(cnt, C) \in Nat
           /\ (\A c \in CpuIds : cnt[c] = 0) => SumFunctionOnSet(cnt, C) = 0
  <1>1. IsFiniteSet(C)
    <2>1. CpusNr - 1 \in Int /\ 0 \in Int
      BY AccountingAssumption
    <2>2. IsFiniteSet(CpuIds)
      BY <2>1, FS_Interval DEF CpuIds
    <2> QED
      BY <2>2, FS_Subset
  <1>2. \A c \in C : cnt[c] \in Nat
    OBVIOUS
  <1> QED
    BY <1>1, <1>2, SumNat, SumZero

-----------------------------------------------------------------------------
(* The steps between two ticks.                                             *)

\* Time passes: what the counters of a cpuset hold grows by the busy cpus in it.
LEMMA ElapseNext ==
    ASSUME IInv, NEW busy \in SUBSET CpuIds, Elapse(busy)
    PROVE  IInv'
  <1> USE DEF Elapse, progVars, clockVars
  <1>1. Types /\ \A s \in Slots : Exact(s) /\ Agrees(s) /\ (s \notin misread => Own(s))
    BY IInvSlots
  <1>2. Listed' = Listed
    BY DEF Listed
  <1>3. counterRegister' \in [CpuIds -> Nat]
    BY <1>1 DEF Types, TypeOK
  <1>4. ASSUME NEW s \in Slots
        PROVE  /\ cpus[s] \in SUBSET CpuIds /\ Cardinality(busy \cap cpus[s]) \in Nat
               /\ Held(s, counterRegister) \in Nat
               /\ Held(s, counterRegister)' = Held(s, counterRegister) + Cardinality(busy \cap cpus[s])
    <2>1. cpus[s] \in SUBSET CpuIds /\ counterRegister \in [CpuIds -> Nat]
      BY <1>1 DEF Types, TypeOK
    <2>2. /\ IsFiniteSet(cpus[s]) /\ SumFunctionOnSet(counterRegister, cpus[s]) \in Nat
          /\ IsFiniteSet(busy \cap cpus[s])
      BY <2>1, HeldNat, FS_Subset
    <2>3. SumFunctionOnSet(counterRegister', cpus[s])
            = SumFunctionOnSet(counterRegister, cpus[s]) + Cardinality(cpus[s] \cap busy)
      <3>1. OneMoreIn(counterRegister, counterRegister', cpus[s], busy)
        BY <2>1 DEF OneMoreIn
      <3> QED
        BY <2>2, <3>1, SumMore
    <2>4. cpus[s] \cap busy = busy \cap cpus[s]
      OBVIOUS
    <2> QED
      BY <2>1, <2>2, <2>3, <2>4, FS_CardinalityType DEF Held
  <1>5. Types'
    <2>1. now' \in Nat /\ now' = now + 1
      BY <1>1 DEF Types, BookInv
    <2>2. lived' \in [Slots -> Nat] /\ ran' \in [Slots -> Nat]
      BY <1>1 DEF Types, BookInv
    <2>3. retired' \in [Slots -> Nat]
      <3>1. retired \in [Slots -> Nat]
        BY <1>1 DEF Types, BookInv
      <3>2. ASSUME NEW s \in Slots
            PROVE  retired[s] + (IF s \in gang \ misread THEN Cardinality(busy \cap cpus[s])
                                                         ELSE 0) \in Nat
        <4> HIDE DEF Elapse
        <4>1. retired[s] \in Nat /\ Cardinality(busy \cap cpus[s]) \in Nat
          BY <1>4, <3>1
        <4> QED
          BY <4>1
      <3> QED
        BY <3>2
    <2>4. TypeOK'
      BY <1>1, <1>2, <1>3 DEF Types, TypeOK
    <2>5. \A s \in Slots : clock'[s].rstart <= now' /\ clock'[s].wstart <= now'
      BY <1>1, <2>1 DEF Types, BookInv, ClockValues
    <2> QED
      BY <1>1, <2>1, <2>2, <2>3, <2>4, <2>5 DEF Types, BookInv
  <1>6. ASSUME NEW s \in Slots PROVE Exact(s)' /\ Agrees(s)'
    <2>1. now \in Nat /\ now' = now + 1 /\ clock[s] \in ClockValues
      BY <1>1 DEF Types, BookInv
    <2>2. s \in gang => s \in Listed
      BY <1>1 DEF Types, TypeOK
    <2>3. /\ ran[s] \in Nat /\ ran'[s] = ran[s] + (IF s \in gang THEN 1 ELSE 0)
          /\ lived[s] \in Nat /\ lived'[s] = lived[s] + (IF s \in Listed THEN 1 ELSE 0)
          /\ total_rtime[s] \in Nat /\ total_wtime[s] \in Nat
      BY <1>1 DEF Types, BookInv, TypeOK
    <2>4. Exact(s)'
      BY <1>1, <1>2, <2>1, <2>2, <2>3 DEF Exact, OpenRunning, OpenWaiting, ClockValues
    <2> QED
      BY <1>1, <1>2, <2>4 DEF Agrees
  <1>7. ASSUME NEW s \in Slots, s \notin misread PROVE Own(s)'
    <2>1. retired'[s] = retired[s] + (IF s \in gang THEN Cardinality(busy \cap cpus[s]) ELSE 0)
      BY <1>7
    <2>2. total_instr[s] \in Nat /\ events_tmp[s] \in Nat /\ retired[s] \in Nat
      BY <1>1 DEF Types, BookInv, TypeOK
    <2>3. /\ total_instr'[s] = total_instr[s] /\ events_tmp'[s] = events_tmp[s]
          /\ (s \in gang') = (s \in gang) /\ (s \in Listed') = (s \in Listed)
      BY <1>2
    <2>4. Own(s)
      BY <1>1, <1>7
    <2> HIDE DEF Elapse
    <2> QED
      BY <1>4, <2>1, <2>2, <2>3, <2>4 DEF Own
  <1>8. misread' = misread
    OBVIOUS
  <1> QED
    BY <1>5, <1>6, <1>7, <1>8, IInvNext

\* An exit changes none of the books.
LEMMA ExitNext ==
    ASSUME IInv, NEW e \in Slots, Exit(e)
    PROVE  IInv'
  <1> USE DEF Exit, clockVars, instrVars, seenVars
  <1>1. Listed' = Listed
    BY DEF Listed, IInv, ClockExact, TypeOK
  <1>2. \A s \in Slots : Held(s, counterRegister)' = Held(s, counterRegister)
    BY DEF Held
  <1>3. TypeOK'
    BY <1>1 DEF IInv, ClockExact, TypeOK
  <1>4. ClockExact'
    BY <1>1, <1>3 DEF IInv, ClockExact, OpenRunning, OpenWaiting
  <1>5. TotalsAgree' /\ ChargedOwn'
    BY <1>1, <1>2 DEF IInv, TotalsAgree, ChargedOwn
  <1>6. BookInv'
    BY DEF IInv, BookInv, ClockExact, TypeOK
  <1> QED
    BY <1>4, <1>5, <1>6 DEF IInv

\* A new instance begins with a clock of its own and nothing charged.
LEMMA AddProgNext ==
    ASSUME IInv, NEW a \in Slots, AddProg(a)
    PROVE  IInv'
  <1> USE DEF AddProg, instrVars, seenVars
  <1>1. Types /\ \A s \in Slots : Exact(s) /\ Agrees(s) /\ (s \notin misread => Own(s))
    BY IInvSlots
  <1>2. Listed' = Listed \cup {a} /\ a \notin Listed /\ a \notin gang
    BY <1>1 DEF Types, TypeOK, Listed
  <1>3. now \in Nat /\ sched_init_clock(now) \in ClockValues
    BY <1>1 DEF Types, BookInv, sched_init_clock, ClockValues
  <1>4. clock' \in [Slots -> ClockValues]
    BY <1>1, <1>3 DEF Types, BookInv
  <1>5. /\ clock'[a] = sched_init_clock(now) /\ events_tmp[a] = 0
        /\ \A s \in Slots : s # a => clock'[s] = clock[s] /\ cpus'[s] = cpus[s]
    BY <1>1 DEF Types, BookInv, TypeOK
  <1>6. Types'
    <2>1. /\ \A s \in Slots : clock'[s].status = IF s \in gang' THEN "RUNNING" ELSE "STOPED"
          /\ \A s \in Slots : clock'[s].running \in Nat /\ clock'[s].waiting \in Nat
      BY <1>1, <1>2, <1>5 DEF Types, TypeOK, sched_init_clock
    <2>2. TypeOK'
      BY <1>1, <1>2, <2>1 DEF Types, TypeOK
    <2>3. \A s \in Slots : clock'[s].rstart <= now' /\ clock'[s].wstart <= now'
      BY <1>1, <1>3, <1>5 DEF Types, BookInv, sched_init_clock
    <2> QED
      BY <1>1, <1>2, <1>4, <1>5, <2>2, <2>3 DEF Types, BookInv, TypeOK
  <1>7. ASSUME NEW s \in Slots PROVE Exact(s)' /\ Agrees(s)' /\ (s \notin misread' => Own(s)')
    <2>1. CASE s = a
      <3>1. /\ total_rtime[s] \in Nat /\ total_wtime[s] \in Nat /\ total_instr[s] \in Nat
        BY <1>1 DEF Types, TypeOK
      <3>2. Exact(s)'
        BY <1>1, <1>2, <1>3, <1>5, <2>1, <3>1
           DEF Exact, OpenRunning, OpenWaiting, sched_init_clock
      <3> QED
        BY <1>1, <1>2, <1>5, <2>1, <3>1, <3>2 DEF Agrees, Own
    <2>2. CASE s # a
      <3>1. s \in Listed' <=> s \in Listed
        BY <1>2, <2>2
      <3>2. Held(s, counterRegister)' = Held(s, counterRegister)
        BY <1>5, <2>2 DEF Held
      <3>3. Exact(s)'
        BY <1>1, <1>5, <2>2, <3>1 DEF Exact, OpenRunning, OpenWaiting
      <3> QED
        BY <1>1, <3>1, <3>2, <3>3 DEF Agrees, Own
    <2> QED
      BY <2>1, <2>2
  <1> QED
    BY <1>6, <1>7, IInvNext

\* What the counters charge a program with that is reaped: a number, and all of
\* its counters hold when it has one core.
LEMMA ReapCharge ==
    ASSUME Types, NEW r \in Slots, Rebalance(r)
    PROVE  /\ counterData' \in [CpuIds -> Nat] /\ Held(r, counterData') \in Nat
           /\ Held(r, counterRegister) \in Nat
           /\ r \in gang /\ CoresNeeded[r] = 1 =>
                Held(r, counterData') = Held(r, counterRegister)
  <1>1. /\ cpus[r] \in SUBSET CpuIds /\ counterRegister \in [CpuIds -> Nat]
        /\ counterData \in [CpuIds -> Nat]
    BY DEF Types, TypeOK
  <1> DEFINE cpu == CHOOSE c \in cpus[r] : \A d \in cpus[r] : c <= d
  <1>2. counterData' = [counterData EXCEPT ![cpu] = counterRegister[cpu]]
    BY DEF Rebalance, ReadAtExit
  <1>3. counterData' \in [CpuIds -> Nat]
    <2> HIDE DEF cpu
    <2> QED
      BY <1>1, <1>2
  <1>4. ASSUME r \in gang, CoresNeeded[r] = 1
        PROVE  SumFunctionOnSet(counterData', cpus[r]) = SumFunctionOnSet(counterRegister, cpus[r])
    <2>1. PICK c \in CpuIds : cpus[r] = {c}
      BY <1>4 DEF Types, BookInv
    <2>2. c \in Int
      BY AccountingAssumption DEF CpuIds
    <2>3. cpu = c
      BY <2>1, <2>2
    <2>4. counterData'[c] = counterRegister[c] /\ counterRegister[c] \in Nat
      <3> HIDE DEF cpu
      <3> QED
        BY <1>1, <1>2, <2>1, <2>3
    <2> QED
      BY <2>1, <2>4, SumOne
  <1> QED
    BY <1>1, <1>3, <1>4, HeldNat DEF Held

\* The clock of a program that is reaped: its intervals are closed.
LEMMA ReapClock ==
    ASSUME Types, NEW r \in Slots
    PROVE  /\ sched_update_clock(clock[r], now).running = OpenRunning(r)
           /\ sched_update_clock(clock[r], now).waiting = OpenWaiting(r)
           /\ OpenRunning(r) \in Nat /\ OpenWaiting(r) \in Nat
  <1>1. clock[r] \in ClockValues /\ now \in Nat /\ clock[r].rstart <= now /\ clock[r].wstart <= now
    BY DEF Types, BookInv
  <1>2. clock[r].status = IF r \in gang THEN "RUNNING" ELSE "STOPED"
    BY DEF Types, TypeOK
  <1>3. CASE r \in gang
    <2>1. sched_update_clock(clock[r], now)
            = [clock[r] EXCEPT !.wstart = now,
                               !.running = clock[r].running + (now - clock[r].rstart)]
      BY <1>1, <1>2, <1>3, UpdateRunning
    <2> QED
      BY <1>1, <1>3, <2>1 DEF OpenRunning, OpenWaiting, ClockValues
  <1>4. CASE r \notin gang
    <2>1. sched_update_clock(clock[r], now)
            = [clock[r] EXCEPT !.rstart = now,
                               !.waiting = clock[r].waiting + (now - clock[r].wstart)]
      BY <1>1, <1>2, <1>4, UpdateWaiting
    <2> QED
      BY <1>1, <1>4, <2>1 DEF OpenRunning, OpenWaiting, ClockValues
  <1> QED
    BY <1>3, <1>4

\* A program is reaped: its totals close with what was open of its clock and of
\* its counters.
LEMMA RebalanceNext ==
    ASSUME IInv, NEW r \in Slots, Rebalance(r)
    PROVE  IInv'
  <1>1. Types /\ \A s \in Slots : Exact(s) /\ Agrees(s) /\ (s \notin misread => Own(s))
    BY IInvSlots
  <1>2. PICK charge \in Nat : charge = Held(r, counterData')
    BY <1>1, ReapCharge
  <1>3. PICK run \in Nat, wait \in Nat : run = OpenRunning(r) /\ wait = OpenWaiting(r)
    BY <1>1, ReapClock
  <1>4. /\ life[r] = "dead" /\ life'[r] \in {"new", "ended"}
        /\ life' = [life EXCEPT ![r] = life'[r]]
    BY <1>1 DEF Rebalance, Types, TypeOK
  <1>5. /\ target_instr' = [target_instr EXCEPT ![r] = target_instr[r] - charge]
        /\ events_tmp' = [events_tmp EXCEPT ![r] = 0]
        /\ clock' = [clock EXCEPT ![r] = sched_init_clock(0)]
        /\ gang' = gang \ {r} /\ overdue' = overdue \ {r}
        /\ UNCHANGED <<cpus, monitor_wnd, counterRegister, thawedAt, now, lived, ran,
                       retired, monitored>>
    BY <1>2 DEF Rebalance
  <1>6. /\ events_tmp[r] \in Nat
        /\ total_instr' = [total_instr EXCEPT ![r] = total_instr[r] + (events_tmp[r] + charge)]
        /\ total_rtime' = [total_rtime EXCEPT ![r] = total_rtime[r] + run]
        /\ total_wtime' = [total_wtime EXCEPT ![r] = total_wtime[r] + wait]
    <2> DEFINE events == [events_tmp EXCEPT ![r] = @ + Held(r, counterData')]
               clk == [clock EXCEPT ![r] = sched_update_clock(clock[r], now)]
    <2>1. UpdateTotals({r}, clk, events)
      BY DEF Rebalance
    <2>2. events[r] = events_tmp[r] + charge /\ events_tmp[r] \in Nat
      BY <1>1, <1>2 DEF Types, TypeOK
    <2>3. clk[r].running = run /\ clk[r].waiting = wait
      BY <1>1, <1>3, ReapClock DEF Types, BookInv
    <2>4. /\ total_instr \in [Slots -> Nat] /\ total_rtime \in [Slots -> Nat]
          /\ total_wtime \in [Slots -> Nat]
      BY <1>1 DEF Types, TypeOK
    <2> HIDE DEF events, clk
    <2>5. total_instr' = [total_instr EXCEPT ![r] = total_instr[r] + (events_tmp[r] + charge)]
      <3>1. \A s \in Slots : total_instr[s] + (IF s \in {r} THEN events[s] ELSE 0)
                              = [total_instr EXCEPT ![r] = total_instr[r] + (events_tmp[r] + charge)][s]
        BY <2>2, <2>3, <2>4
      <3>2. total_instr' = [s \in Slots |-> total_instr[s] + (IF s \in {r} THEN events[s] ELSE 0)]
        BY <2>1 DEF UpdateTotals
      <3> QED
        BY <2>4, <3>1, <3>2
    <2>6. total_rtime' = [total_rtime EXCEPT ![r] = total_rtime[r] + run]
      <3>1. \A s \in Slots : total_rtime[s] + (IF s \in {r} THEN clk[s].running ELSE 0)
                              = [total_rtime EXCEPT ![r] = total_rtime[r] + run][s]
        BY <2>2, <2>3, <2>4
      <3>2. total_rtime' = [s \in Slots |-> total_rtime[s] + (IF s \in {r} THEN clk[s].running ELSE 0)]
        BY <2>1 DEF UpdateTotals
      <3> QED
        BY <2>4, <3>1, <3>2
    <2>7. total_wtime' = [total_wtime EXCEPT ![r] = total_wtime[r] + wait]
      <3>1. \A s \in Slots : total_wtime[s] + (IF s \in {r} THEN clk[s].waiting ELSE 0)
                              = [total_wtime EXCEPT ![r] = total_wtime[r] + wait][s]
        BY <2>2, <2>3, <2>4
      <3>2. total_wtime' = [s \in Slots |-> total_wtime[s] + (IF s \in {r} THEN clk[s].waiting ELSE 0)]
        BY <2>1 DEF UpdateTotals
      <3> QED
        BY <2>4, <3>1, <3>2
    <2> QED
      BY <2>2, <2>5, <2>6, <2>7
  <1>7. Listed' = Listed \ {r} /\ r \in Listed
    BY <1>1, <1>4 DEF Types, TypeOK, Listed
  <1>8. Types'
    <2>1. sched_init_clock(0) \in ClockValues
      BY DEF sched_init_clock, ClockValues
    <2>2. /\ clock' \in [Slots -> ClockValues] /\ clock'[r] = sched_init_clock(0)
          /\ \A s \in Slots : s # r => clock'[s] = clock[s]
      BY <1>1, <1>5, <2>1 DEF Types, BookInv
    <2>3. /\ \A s \in Slots : clock'[s].status = IF s \in gang' THEN "RUNNING" ELSE "STOPED"
          /\ \A s \in Slots : clock'[s].running \in Nat /\ clock'[s].waiting \in Nat
      BY <1>1, <1>5, <2>2 DEF Types, TypeOK, sched_init_clock
    <2>4. \A s \in Slots : clock'[s].rstart <= now' /\ clock'[s].wstart <= now'
      BY <1>1, <1>5, <2>2 DEF Types, BookInv, sched_init_clock
    <2>5. /\ events_tmp' \in [Slots -> Nat] /\ total_instr' \in [Slots -> Nat]
          /\ total_rtime' \in [Slots -> Nat] /\ total_wtime' \in [Slots -> Nat]
          /\ target_instr' \in [Slots -> Int]
      BY <1>1, <1>5, <1>6 DEF Types, TypeOK
    <2>6. /\ life' \in [Slots -> {"alive", "dead", "new", "killed", "ended"}]
          /\ gang' \subseteq Listed' /\ overdue' \subseteq Slots
      BY <1>1, <1>4, <1>5, <1>7 DEF Types, TypeOK
    <2>7. TypeOK'
      BY <1>1, <1>5, <2>3, <2>5, <2>6, ReapCharge DEF Types, TypeOK
    <2>8. \A s \in Slots : life'[s] = "new" => events_tmp'[s] = 0
      BY <1>1, <1>4, <1>5 DEF Types, BookInv, TypeOK
    <2> QED
      BY <1>1, <1>5, <2>2, <2>4, <2>7, <2>8 DEF Types, BookInv
  <1>9. Exact(r)' /\ Agrees(r)'
    <2>1. /\ total_rtime[r] \in Nat /\ total_wtime[r] \in Nat /\ total_instr[r] \in Nat
          /\ target_instr[r] \in Int /\ ran[r] \in Nat /\ lived[r] \in Nat
          /\ monitored[r] \in Nat
      BY <1>1 DEF Types, TypeOK, BookInv
    <2>2. /\ total_rtime'[r] = total_rtime[r] + run /\ total_wtime'[r] = total_wtime[r] + wait
          /\ total_instr'[r] = total_instr[r] + (events_tmp[r] + charge)
          /\ target_instr'[r] = target_instr[r] - charge
      BY <1>1, <1>5, <1>6 DEF Types, TypeOK
    <2>3. Exact(r)'
      BY <1>1, <1>3, <1>5, <1>7, <2>1, <2>2 DEF Exact
    <2>4. Agrees(r)'
      BY <1>1, <1>5, <1>6, <1>7, <2>1, <2>2, AccountingAssumption DEF Agrees
    <2> QED
      BY <2>3, <2>4
  <1>10. ASSUME r \notin misread' PROVE Own(r)'
    <2>1. r \in gang /\ CoresNeeded[r] = 1 /\ r \notin misread
      <3>1. /\ r \in gang /\ ~(CoresNeeded[r] > 1) /\ r \notin misread
        BY <1>10 DEF Rebalance
      <3>2. CoresNeeded[r] \in Nat \ {0}
        BY AccountingAssumption
      <3> QED
        BY <3>1, <3>2
    <2>2. charge = Held(r, counterRegister)
      BY <1>1, <1>2, <2>1, ReapCharge
    <2>3. total_instr[r] \in Nat /\ total_instr'[r] = total_instr[r] + (events_tmp[r] + charge)
      BY <1>1, <1>6 DEF Types, TypeOK
    <2> QED
      BY <1>1, <1>2, <1>5, <1>6, <1>7, <2>1, <2>2, <2>3 DEF Own
  <1>11. ASSUME NEW s \in Slots, s # r
         PROVE  Exact(s)' /\ Agrees(s)' /\ (s \notin misread' => Own(s)')
    <2>1. /\ s \in Listed' <=> s \in Listed
          /\ s \in gang' <=> s \in gang
      BY <1>5, <1>7, <1>11
    <2>2. /\ total_rtime'[s] = total_rtime[s] /\ total_wtime'[s] = total_wtime[s]
          /\ total_instr'[s] = total_instr[s] /\ target_instr'[s] = target_instr[s]
          /\ events_tmp'[s] = events_tmp[s] /\ clock'[s] = clock[s]
      BY <1>1, <1>5, <1>6, <1>11 DEF Types, TypeOK, BookInv
    <2>3. Exact(s)'
      BY <1>1, <1>5, <2>1, <2>2 DEF Exact, OpenRunning, OpenWaiting
    <2>4. Agrees(s)'
      BY <1>1, <1>5, <2>1, <2>2 DEF Agrees
    <2>5. Held(s, counterRegister)' = Held(s, counterRegister)
      BY <1>5 DEF Held
    <2>6. ASSUME s \notin misread' PROVE Own(s)'
      <3>1. s \notin misread
        BY <2>6 DEF Rebalance
      <3> QED
        BY <1>1, <1>5, <2>1, <2>2, <2>5, <3>1 DEF Own
    <2> QED
      BY <2>3, <2>4, <2>6
  <1> QED
    BY <1>8, <1>9, <1>10, <1>11, IInvNext

-----------------------------------------------------------------------------
(* A tick.                                                                  *)

\* The cores a program gets are cpus that have counters, and a program of one
\* core gets one.
LEMMA CoresGiven ==
    ASSUME NEW n \in Slots, NEW from \in 0..(Cores - 1)
    PROVE  /\ from..(from + CoresNeeded[n] - 1) \in SUBSET CpuIds
           /\ CoresNeeded[n] = 1 => from \in CpuIds /\ from..(from + CoresNeeded[n] - 1) = {from}
  <1>1. PICK k \in Nat \ {0} : k = CoresNeeded[n] /\ Cores - 1 + k <= CpusNr
    BY AccountingAssumption
  <1>2. CpusNr \in Nat /\ Cores \in Nat \ {0}
    BY AccountingAssumption
  <1>3. from \in Nat /\ from <= Cores - 1
    BY <1>2
  <1>4. from..(from + k - 1) \in SUBSET CpuIds
    BY <1>1, <1>2, <1>3 DEF CpuIds
  <1>5. k = 1 => from \in CpuIds /\ from..(from + k - 1) = {from}
    BY <1>1, <1>2, <1>3 DEF CpuIds
  <1> QED
    BY <1>1, <1>4, <1>5

\* A gang is chosen from the pool, and its programs get their cores.
LEMMA ScheduleTypes ==
    ASSUME TypeOK, NEW wnd \in Nat, NEW pool \in SUBSET Slots, NEW order,
           Schedule(order, wnd, pool)
    PROVE  /\ gang' = Range(order) /\ gang' \in SUBSET pool /\ monitor_wnd' \in Nat
           /\ cpus' \in [Slots -> SUBSET CpuIds]
           /\ \A s \in gang' : CoresNeeded[s] = 1 => \E c \in CpuIds : cpus'[s] = {c}
  <1>1. PICK k \in 0..Cores : order \in [1..k -> pool]
    BY DEF Schedule, Choices
  <1>2. gang' = Range(order) /\ gang' \in SUBSET pool /\ DOMAIN order = 1..k /\ k \in Nat
    BY <1>1, AccountingAssumption DEF Schedule, Range
  <1>3. cpus \in [Slots -> SUBSET CpuIds]
    BY DEF TypeOK
  <1>4. CASE /\ Len(order) = 1
             /\ cpus' = [cpus EXCEPT ![order[1]] =
                           (wnd % Cores)..((wnd % Cores) + CoresNeeded[order[1]] - 1)]
             /\ monitor_wnd' = wnd + 1
    <2>1. order \in Seq(pool) /\ Len(order) = k
      BY <1>1, <1>2
    <2>2. k = 1
      BY <1>4, <2>1
    <2>3. PICK n \in Slots : n = order[1] /\ gang' = {n}
      BY <1>1, <1>2, <2>2 DEF Range
    <2>4. PICK from \in 0..(Cores - 1) : from = wnd % Cores
      BY AccountingAssumption
    <2>5. cpus' = [cpus EXCEPT ![n] = from..(from + CoresNeeded[n] - 1)]
      BY <1>4, <2>3, <2>4
    <2>6. cpus' \in [Slots -> SUBSET CpuIds] /\ cpus'[n] = from..(from + CoresNeeded[n] - 1)
      BY <1>3, <2>5, CoresGiven
    <2>7. CoresNeeded[n] = 1 => \E c \in CpuIds : cpus'[n] = {c}
      BY <2>6, CoresGiven
    <2> QED
      BY <1>2, <1>4, <2>3, <2>6, <2>7
  <1>5. CASE /\ cpus' = [s \in Slots |->
                  IF s \in Range(order)
                    THEN LET from == Allocated(order, CHOOSE i \in DOMAIN order : order[i] = s)
                         IN  from..(from + CoresNeeded[s] - 1)
                    ELSE cpus[s]]
             /\ monitor_wnd' = wnd
    <2>1. ASSUME NEW s \in Slots, s \in Range(order)
          PROVE  \E from \in 0..(Cores - 1) : cpus'[s] = from..(from + CoresNeeded[s] - 1)
      <3> DEFINE i == CHOOSE j \in DOMAIN order : order[j] = s
      <3>1. i \in 1..k
        BY <1>2, <2>1 DEF Range
      <3>2. Allocated(order, i) < Cores
        BY <1>2, <3>1 DEF Schedule, Choices
      <3>3. Allocated(order, i) \in Nat
        <4> HIDE DEF i
        <4>0. i \in Nat /\ 1 <= i /\ i <= k
          BY <1>2, <3>1
        <4>1. PICK n \in Nat : n = i - 1 /\ n <= k
          BY <1>2, <4>0
        <4> DEFINE need == [j \in DOMAIN order |-> CoresNeeded[order[j]]]
        <4>2. \A j \in 1..n : need[j] \in Nat
          <5>1. \A j \in 1..n : j \in DOMAIN order /\ order[j] \in Slots
            BY <1>1, <1>2, <4>1
          <5> QED
            BY <5>1, AccountingAssumption
        <4>3. IsFiniteSet(1..n)
          BY <4>1, FS_Interval
        <4> HIDE DEF need
        <4>4. SumFunctionOnSet(need, 1..n) \in Nat
          BY <4>2, <4>3, SumNat
        <4> QED
          BY <4>1, <4>4 DEF Allocated, need
      <3>4. cpus'[s] = Allocated(order, i)..(Allocated(order, i) + CoresNeeded[s] - 1)
        BY <1>5, <2>1
      <3>5. Allocated(order, i) \in 0..(Cores - 1)
        <4> HIDE DEF i
        <4> QED
          BY <3>2, <3>3, AccountingAssumption
      <3> QED
        BY <3>4, <3>5
    <2>2. ASSUME NEW s \in Slots PROVE cpus'[s] \in SUBSET CpuIds
      <3>1. CASE s \in Range(order)
        BY <2>1, <3>1, CoresGiven
      <3>2. CASE s \notin Range(order)
        BY <1>3, <1>5, <3>2
      <3> QED
        BY <3>1, <3>2
    <2>3. cpus' \in [Slots -> SUBSET CpuIds]
      <3>1. cpus' = [s \in Slots |-> cpus'[s]]
        BY <1>5
      <3> QED
        BY <2>2, <3>1
    <2>4. ASSUME NEW s \in gang', CoresNeeded[s] = 1 PROVE \E c \in CpuIds : cpus'[s] = {c}
      <3>1. PICK from \in 0..(Cores - 1) : cpus'[s] = from..(from + CoresNeeded[s] - 1)
        BY <1>2, <2>1
      <3> QED
        BY <1>2, <2>4, <3>1, CoresGiven
    <2> QED
      BY <1>2, <1>5, <2>3, <2>4
  <1> QED
    BY <1>4, <1>5 DEF Schedule

\* Freezing a program closes the interval of its clock if it runs.
LEMMA FrozenClock ==
    ASSUME Types, NEW s \in Slots
    PROVE  \E c \in ClockValues :
             /\ c = Frozen(s) /\ c.status = "STOPED" /\ c.rstart <= now /\ c.wstart <= now
             /\ c.running = OpenRunning(s) /\ c.waiting + (now - c.wstart) = OpenWaiting(s)
             /\ s \in gang => c.waiting = OpenWaiting(s)
  <1>1. clock[s] \in ClockValues /\ now \in Nat /\ clock[s].rstart <= now /\ clock[s].wstart <= now
    BY DEF Types, BookInv
  <1>2. clock[s].status = IF s \in gang THEN "RUNNING" ELSE "STOPED"
    BY DEF Types, TypeOK
  <1>3. CASE s \in gang
    <2>1. sched_update_clock(clock[s], now)
            = [clock[s] EXCEPT !.wstart = now,
                               !.running = clock[s].running + (now - clock[s].rstart)]
      BY <1>1, <1>2, <1>3, UpdateRunning
    <2>2. PICK run \in Nat : run = clock[s].running + (now - clock[s].rstart)
      BY <1>1 DEF ClockValues
    <2>3. PICK b \in ClockValues : /\ b = sched_update_clock(clock[s], now) /\ b.wstart = now
                                   /\ b.rstart = clock[s].rstart /\ b.running = run
                                   /\ b.waiting = clock[s].waiting
      BY <1>1, <2>1, <2>2 DEF ClockValues
    <2>4. PICK c \in ClockValues : /\ c = [b EXCEPT !.status = "STOPED"]
                                   /\ c.status = "STOPED" /\ c.wstart = b.wstart
                                   /\ c.rstart = b.rstart /\ c.running = b.running
                                   /\ c.waiting = b.waiting
      BY SetStatus
    <2>5. c = Frozen(s)
      <3>1. Frozen(s) = FreezeClock(clock[s])
        BY <1>3 DEF Frozen
      <3>2. FreezeClock(clock[s]) = [b EXCEPT !.status = "STOPED"]
        BY <2>3 DEF FreezeClock
      <3> QED
        BY <2>4, <3>1, <3>2
    <2>6. c.waiting + (now - c.wstart) = c.waiting
      BY <1>1, <2>3, <2>4 DEF ClockValues
    <2> QED
      BY <1>1, <1>3, <2>2, <2>3, <2>4, <2>5, <2>6 DEF OpenRunning, OpenWaiting, ClockValues
  <1>4. CASE s \notin gang
    BY <1>1, <1>2, <1>4 DEF Frozen, OpenRunning, OpenWaiting, ClockValues
  <1> QED
    BY <1>3, <1>4

\* Thawing a program closes the interval of its clock and opens one of running.
LEMMA ThawedClock ==
    ASSUME now \in Nat, NEW c \in ClockValues, c.status = "STOPED", c.wstart <= now
    PROVE  \E d \in ClockValues :
             /\ d = ThawClock(c) /\ d.status = "RUNNING" /\ d.rstart = now
             /\ d.wstart = c.wstart /\ d.running = c.running
             /\ d.waiting = c.waiting + (now - c.wstart)
  <1>1. sched_update_clock(c, now)
          = [c EXCEPT !.rstart = now, !.waiting = c.waiting + (now - c.wstart)]
    BY UpdateWaiting
  <1>2. PICK wait \in Nat : wait = c.waiting + (now - c.wstart)
    BY DEF ClockValues
  <1>3. PICK b \in ClockValues : /\ b = sched_update_clock(c, now) /\ b.rstart = now
                                 /\ b.wstart = c.wstart /\ b.running = c.running
                                 /\ b.waiting = wait
    BY <1>1, <1>2 DEF ClockValues
  <1>4. PICK d \in ClockValues : /\ d = [b EXCEPT !.status = "RUNNING"]
                                 /\ d.status = "RUNNING" /\ d.rstart = b.rstart
                                 /\ d.wstart = b.wstart /\ d.running = b.running
                                 /\ d.waiting = b.waiting
    BY <1>3, SetStatus
  <1> QED
    BY <1>2, <1>3, <1>4 DEF ThawClock

\* What a tick does to the books of the slots.
LEMMA TickSteps ==
    ASSUME Types, NEW order, Tick(order)
    PROVE  /\ Reached \in SUBSET gang /\ Listed' = Listed \ Reached
           /\ gang' \in SUBSET (Listed \ Reached)
           /\ life' = [s \in Slots |-> IF s \in Reached THEN "killed" ELSE life[s]]
           /\ overdue' \in SUBSET Slots /\ monitor_wnd' \in Nat
           /\ cpus' \in [Slots -> SUBSET CpuIds]
           /\ \A s \in gang' : CoresNeeded[s] = 1 => \E c \in CpuIds : cpus'[s] = {c}
           /\ counterData' = counterRegister /\ counterRegister' = [c \in CpuIds |-> 0]
           /\ clock' = [s \in Slots |-> CASE s \in gang'   -> ThawClock(Frozen(s))
                                          [] s \in Reached -> sched_init_clock(0)
                                          [] OTHER         -> Frozen(s)]
           /\ UNCHANGED <<now, lived, ran, retired, misread>>
  <1> DEFINE pool == Listed \ Reached
             wnd == IF monitor_wnd = Cardinality(pool) THEN monitor_wnd + 1 ELSE monitor_wnd
  <1>1. FreezeSched /\ Schedule(order, wnd, pool)
    BY DEF Tick
  <1>2. ThawSched(Range(order), [s \in Slots |-> Frozen(s)])
    BY DEF Tick
  <1>3. Reached \in SUBSET gang /\ gang \in SUBSET Listed /\ Listed \in SUBSET Slots
    BY DEF Reached, Types, TypeOK, Listed
  <1>4. wnd \in Nat /\ pool \in SUBSET Slots
    BY <1>3 DEF Types, TypeOK
  <1>5. /\ gang' = Range(order) /\ gang' \in SUBSET pool /\ monitor_wnd' \in Nat
        /\ cpus' \in [Slots -> SUBSET CpuIds]
        /\ \A s \in gang' : CoresNeeded[s] = 1 => \E c \in CpuIds : cpus'[s] = {c}
    <2> HIDE DEF wnd, pool
    <2> QED
      BY <1>1, <1>4, ScheduleTypes DEF Types
  <1>6. life' = [s \in Slots |-> IF s \in Reached THEN "killed" ELSE life[s]]
    BY <1>1 DEF FreezeSched
  <1>7. Listed' = Listed \ Reached
    <2>1. Reached \in SUBSET Slots /\ \A s \in Slots : life'[s] = IF s \in Reached THEN "killed" ELSE life[s]
      BY <1>3, <1>6
    <2> QED
      BY <2>1 DEF Listed
  <1>8. overdue' \in SUBSET Slots /\ counterData' = counterRegister
    BY <1>1, <1>3 DEF FreezeSched
  <1>9. /\ counterRegister' = [c \in CpuIds |-> 0]
        /\ clock' = [s \in Slots |-> CASE s \in gang'   -> ThawClock(Frozen(s))
                                       [] s \in Reached -> sched_init_clock(0)
                                       [] OTHER         -> Frozen(s)]
    BY <1>2, <1>5 DEF ThawSched
  <1>10. UNCHANGED <<now, lived, ran, retired, misread>>
    BY DEF Tick
  <1> QED
    BY <1>3, <1>5, <1>6, <1>7, <1>8, <1>9, <1>10

\* The clock of each slot after a tick.
LEMMA TickClock ==
    ASSUME Types, NEW order, Tick(order), NEW s \in Slots
    PROVE  \E c \in ClockValues :
             /\ c.status = "STOPED" /\ c.rstart <= now /\ c.wstart <= now
             /\ c.running = OpenRunning(s) /\ c.waiting + (now - c.wstart) = OpenWaiting(s)
             /\ s \in gang => c.waiting = OpenWaiting(s)
             /\ c = Frozen(s) /\ clock'[s] \in ClockValues
             /\ s \in gang' => /\ clock'[s].status = "RUNNING" /\ clock'[s].rstart = now
                                /\ clock'[s].wstart = c.wstart /\ clock'[s].running = c.running
                                /\ clock'[s].waiting = c.waiting + (now - c.wstart)
             /\ s \in Reached => clock'[s] = sched_init_clock(0)
             /\ s \notin gang' \cup Reached => clock'[s] = c
  <1>1. PICK c \in ClockValues :
             /\ c = Frozen(s) /\ c.status = "STOPED" /\ c.rstart <= now /\ c.wstart <= now
             /\ c.running = OpenRunning(s) /\ c.waiting + (now - c.wstart) = OpenWaiting(s)
             /\ s \in gang => c.waiting = OpenWaiting(s)
    BY FrozenClock
  <1>2. now \in Nat
    BY DEF Types, BookInv
  <1>3. PICK d \in ClockValues :
             /\ d = ThawClock(c) /\ d.status = "RUNNING" /\ d.rstart = now
             /\ d.wstart = c.wstart /\ d.running = c.running
             /\ d.waiting = c.waiting + (now - c.wstart)
    BY <1>1, <1>2, ThawedClock
  <1>4. gang' \in SUBSET (Listed \ Reached)
    BY TickSteps
  <1>5. clock' = [t \in Slots |-> CASE t \in gang'   -> ThawClock(Frozen(t))
                                    [] t \in Reached -> sched_init_clock(0)
                                    [] OTHER         -> Frozen(t)]
    BY TickSteps
  <1>6. /\ s \in gang' => clock'[s] = d
        /\ s \in Reached => clock'[s] = sched_init_clock(0)
        /\ s \notin gang' \cup Reached => clock'[s] = c
    BY <1>1, <1>3, <1>4, <1>5
  <1>7. sched_init_clock(0) \in ClockValues
    BY DEF sched_init_clock, ClockValues
  <1>8. clock'[s] \in ClockValues
    BY <1>1, <1>3, <1>6, <1>7
  <1> QED
    BY <1>1, <1>3, <1>6, <1>8

\* What each slot is charged with, and what its totals are, after a tick.
LEMMA TickBooks ==
    ASSUME Types, NEW order, Tick(order), NEW s \in Slots
    PROVE  \E h \in Nat :
             /\ h = Held(s, counterRegister)
             /\ events_tmp'[s] = events_tmp[s] + (IF s \in gang THEN h ELSE 0)
             /\ target_instr'[s] - monitored'[s]
                  = (target_instr[s] - monitored[s]) - (IF s \in gang THEN h ELSE 0)
             /\ target_instr'[s] \in Int /\ monitored'[s] \in Nat
             /\ total_instr'[s] = total_instr[s] + (IF s \in Reached THEN events_tmp'[s] ELSE 0)
             /\ total_rtime'[s] = total_rtime[s] + (IF s \in Reached THEN Frozen(s).running ELSE 0)
             /\ total_wtime'[s] = total_wtime[s] + (IF s \in Reached THEN Frozen(s).waiting ELSE 0)
  <1>1. PICK h \in Nat : h = Held(s, counterRegister)
    BY HeldNat DEF Held, Types, TypeOK
  <1>2. FreezeSched
    BY DEF Tick
  <1>3. /\ events_tmp[s] \in Nat /\ target_instr[s] \in Int /\ monitored[s] \in Nat
    BY DEF Types, TypeOK, BookInv
  <1>4. events_tmp'[s] = events_tmp[s] + (IF s \in gang THEN h ELSE 0)
    BY <1>1, <1>2 DEF FreezeSched
  <1>5. /\ target_instr'[s] = IF s \in gang THEN Charged(s) ELSE target_instr[s]
        /\ monitored'[s] = monitored[s] + (IF s \in gang /\ Monitors THEN h ELSE 0)
    BY <1>1, <1>2 DEF FreezeSched
  <1>6. Charged(s) = IF Monitors THEN target_instr[s] ELSE target_instr[s] - h
    BY <1>1 DEF Charged
  <1>7. /\ target_instr'[s] - monitored'[s]
             = (target_instr[s] - monitored[s]) - (IF s \in gang THEN h ELSE 0)
        /\ target_instr'[s] \in Int /\ monitored'[s] \in Nat
    <2>1. CASE Monitors
      BY <1>3, <1>5, <1>6, <2>1
    <2>2. CASE ~Monitors
      BY <1>3, <1>5, <1>6, <2>2
    <2> QED
      BY <2>1, <2>2
  <1>8. UpdateTotals(Reached, [t \in Slots |-> Frozen(t)], events_tmp')
    BY <1>2 DEF FreezeSched
  <1>9. /\ total_instr'[s] = total_instr[s] + (IF s \in Reached THEN events_tmp'[s] ELSE 0)
        /\ total_rtime'[s] = total_rtime[s] + (IF s \in Reached THEN Frozen(s).running ELSE 0)
        /\ total_wtime'[s] = total_wtime[s] + (IF s \in Reached THEN Frozen(s).waiting ELSE 0)
    BY <1>8 DEF UpdateTotals
  <1> QED
    BY <1>1, <1>4, <1>7, <1>9

\* The books remain functions of the slots.
LEMMA TickTypes ==
    ASSUME Types, NEW order, Tick(order)
    PROVE  Types'
  <1>1. /\ \A s \in Slots : events_tmp'[s] \in Nat /\ target_instr'[s] \in Int
        /\ \A s \in Slots : monitored'[s] \in Nat /\ total_instr'[s] \in Nat
        /\ \A s \in Slots : total_rtime'[s] \in Nat /\ total_wtime'[s] \in Nat
    <2> SUFFICES ASSUME NEW s \in Slots
                 PROVE  /\ events_tmp'[s] \in Nat /\ target_instr'[s] \in Int
                        /\ monitored'[s] \in Nat /\ total_instr'[s] \in Nat
                        /\ total_rtime'[s] \in Nat /\ total_wtime'[s] \in Nat
      OBVIOUS
    <2>1. /\ events_tmp[s] \in Nat /\ total_instr[s] \in Nat
          /\ total_rtime[s] \in Nat /\ total_wtime[s] \in Nat
      BY DEF Types, TypeOK
    <2>2. PICK c \in ClockValues : c = Frozen(s)
      BY TickClock
    <2>3. c.running \in Nat /\ c.waiting \in Nat
      BY DEF ClockValues
    <2>4. PICK h \in Nat :
             /\ events_tmp'[s] = events_tmp[s] + (IF s \in gang THEN h ELSE 0)
             /\ target_instr'[s] \in Int /\ monitored'[s] \in Nat
             /\ total_instr'[s] = total_instr[s] + (IF s \in Reached THEN events_tmp'[s] ELSE 0)
             /\ total_rtime'[s] = total_rtime[s] + (IF s \in Reached THEN c.running ELSE 0)
             /\ total_wtime'[s] = total_wtime[s] + (IF s \in Reached THEN c.waiting ELSE 0)
      BY <2>2, TickBooks
    <2>5. events_tmp'[s] \in Nat
      BY <2>1, <2>4
    <2> QED
      BY <2>1, <2>3, <2>4, <2>5
  <1>2. /\ events_tmp' = [s \in Slots |-> events_tmp'[s]]
        /\ target_instr' = [s \in Slots |-> target_instr'[s]]
        /\ monitored' = [s \in Slots |-> monitored'[s]]
        /\ total_instr' = [s \in Slots |-> total_instr'[s]]
        /\ total_rtime' = [s \in Slots |-> total_rtime'[s]]
        /\ total_wtime' = [s \in Slots |-> total_wtime'[s]]
    BY DEF Tick, FreezeSched, UpdateTotals
  <1>3. /\ events_tmp' \in [Slots -> Nat] /\ target_instr' \in [Slots -> Int]
        /\ monitored' \in [Slots -> Nat] /\ total_instr' \in [Slots -> Nat]
        /\ total_rtime' \in [Slots -> Nat] /\ total_wtime' \in [Slots -> Nat]
    BY <1>1, <1>2
  <1>4. /\ Reached \in SUBSET gang /\ gang' \in SUBSET Listed'
        /\ gang' \in SUBSET (Listed \ Reached)
        /\ life' = [s \in Slots |-> IF s \in Reached THEN "killed" ELSE life[s]]
        /\ overdue' \in SUBSET Slots /\ monitor_wnd' \in Nat
        /\ cpus' \in [Slots -> SUBSET CpuIds]
        /\ \A s \in gang' : CoresNeeded[s] = 1 => \E c \in CpuIds : cpus'[s] = {c}
        /\ counterData' = counterRegister /\ counterRegister' = [c \in CpuIds |-> 0]
        /\ UNCHANGED <<now, lived, ran, retired, misread>>
    BY TickSteps
  <1>5. /\ life' \in [Slots -> {"alive", "dead", "new", "killed", "ended"}]
        /\ counterData' \in [CpuIds -> Nat] /\ counterRegister' \in [CpuIds -> Nat]
    BY <1>4 DEF Types, TypeOK
  <1>6. ASSUME NEW s \in Slots
        PROVE  /\ clock'[s] \in ClockValues
               /\ clock'[s].status = IF s \in gang' THEN "RUNNING" ELSE "STOPED"
               /\ clock'[s].rstart <= now /\ clock'[s].wstart <= now
    <2>1. PICK c \in ClockValues :
             /\ c.status = "STOPED" /\ c.rstart <= now /\ c.wstart <= now
             /\ clock'[s] \in ClockValues
             /\ s \in gang' => /\ clock'[s].status = "RUNNING" /\ clock'[s].rstart = now
                                /\ clock'[s].wstart = c.wstart
             /\ s \in Reached => clock'[s] = sched_init_clock(0)
             /\ s \notin gang' \cup Reached => clock'[s] = c
      BY TickClock
    <2>2. now \in Nat
      BY DEF Types, BookInv
    <2>3. CASE s \in gang'
      BY <2>1, <2>2, <2>3
    <2>4. CASE s \in Reached
      <3>1. s \notin gang'
        BY <1>4, <2>4
      <3> QED
        BY <2>1, <2>2, <2>4, <3>1 DEF sched_init_clock
    <2>5. CASE s \notin gang' \cup Reached
      BY <2>1, <2>5
    <2> QED
      BY <2>3, <2>4, <2>5
  <1>7. clock' \in [Slots -> ClockValues]
    <2>1. clock' = [s \in Slots |-> clock'[s]]
      BY TickSteps
    <2> QED
      BY <1>6, <2>1
  <1>8. TypeOK'
    <2>1. \A s \in Slots : clock'[s].running \in Nat /\ clock'[s].waiting \in Nat
      BY <1>6 DEF ClockValues
    <2> QED
      BY <1>3, <1>4, <1>5, <1>6, <2>1 DEF TypeOK
  <1>9. \A s \in Slots : life'[s] = "new" => events_tmp'[s] = 0
    <2> SUFFICES ASSUME NEW s \in Slots, life'[s] = "new" PROVE events_tmp'[s] = 0
      OBVIOUS
    <2>1. life[s] = "new" /\ events_tmp[s] = 0
      BY <1>4 DEF Types, BookInv
    <2>2. s \notin gang
      BY <2>1 DEF Types, TypeOK, Listed
    <2>3. events_tmp'[s] = events_tmp[s] + 0
      BY <2>2, TickBooks
    <2> QED
      BY <2>1, <2>3
  <1> QED
    BY <1>3, <1>4, <1>6, <1>7, <1>8, <1>9 DEF Types, BookInv

\* A tick: intervals that are closed are counted, what is charged is recorded
\* twice and once, and the counters start from zero.
LEMMA TickNext ==
    ASSUME IInv, NEW order, Tick(order)
    PROVE  IInv'
  <1>1. Types /\ \A s \in Slots : Exact(s) /\ Agrees(s) /\ (s \notin misread => Own(s))
    BY IInvSlots
  <1>2. Types'
    BY <1>1, TickTypes
  <1>3. ASSUME NEW s \in Slots PROVE Exact(s)' /\ Agrees(s)' /\ (s \notin misread' => Own(s)')
    <2>1. PICK c \in ClockValues :
             /\ c.rstart <= now /\ c.wstart <= now
             /\ c.running = OpenRunning(s) /\ c.waiting + (now - c.wstart) = OpenWaiting(s)
             /\ s \in gang => c.waiting = OpenWaiting(s)
             /\ c = Frozen(s)
             /\ s \in gang' => /\ clock'[s].rstart = now
                                /\ clock'[s].running = c.running
                                /\ clock'[s].waiting = c.waiting + (now - c.wstart)
             /\ s \notin gang' \cup Reached => clock'[s] = c
      BY <1>1, TickClock
    <2>2. PICK h \in Nat :
             /\ h = Held(s, counterRegister)
             /\ events_tmp'[s] = events_tmp[s] + (IF s \in gang THEN h ELSE 0)
             /\ target_instr'[s] - monitored'[s]
                  = (target_instr[s] - monitored[s]) - (IF s \in gang THEN h ELSE 0)
             /\ target_instr'[s] \in Int /\ monitored'[s] \in Nat
             /\ total_instr'[s] = total_instr[s] + (IF s \in Reached THEN events_tmp'[s] ELSE 0)
             /\ total_rtime'[s] = total_rtime[s] + (IF s \in Reached THEN c.running ELSE 0)
             /\ total_wtime'[s] = total_wtime[s] + (IF s \in Reached THEN c.waiting ELSE 0)
      BY <1>1, <2>1, TickBooks
    <2>3. /\ now \in Nat /\ now' = now /\ ran'[s] = ran[s] /\ lived'[s] = lived[s]
          /\ retired'[s] = retired[s] /\ misread' = misread
          /\ c.running \in Nat /\ c.waiting \in Nat /\ c.wstart \in Nat
          /\ counterRegister' = [k \in CpuIds |-> 0]
      BY <1>1, TickSteps DEF Types, BookInv, ClockValues
    <2>4. /\ (s \in Listed' <=> s \in Listed /\ s \notin Reached)
          /\ (s \in Reached => s \in gang) /\ (s \in gang => s \in Listed)
          /\ (s \in gang' => s \in Listed')
      BY <1>1, TickSteps DEF Types, TypeOK
    <2>5. /\ total_rtime[s] \in Nat /\ total_wtime[s] \in Nat /\ total_instr[s] \in Nat
          /\ events_tmp[s] \in Nat /\ events_tmp'[s] \in Nat /\ target_instr[s] \in Int
          /\ monitored[s] \in Nat /\ lived[s] \in Nat /\ ran[s] \in Nat
      BY <1>1, <1>2 DEF Types, TypeOK, BookInv
    <2>6. s \in Listed' => /\ OpenRunning(s)' = OpenRunning(s)
                           /\ OpenWaiting(s)' = OpenWaiting(s)
      <3>1. CASE s \in gang'
        BY <2>1, <2>3, <3>1 DEF OpenRunning, OpenWaiting
      <3>2. CASE s \notin gang' /\ s \in Listed'
        BY <2>1, <2>3, <2>4, <3>2 DEF OpenRunning, OpenWaiting
      <3> QED
        BY <3>1, <3>2
    <2>7. Exact(s)'
      <3>1. Exact(s)
        BY <1>1
      <3>2. CASE s \in Listed'
        BY <2>2, <2>3, <2>4, <2>5, <2>6, <3>1, <3>2 DEF Exact
      <3>3. CASE s \in Reached
        BY <2>1, <2>2, <2>3, <2>4, <2>5, <3>1, <3>3 DEF Exact
      <3>4. CASE s \notin Listed
        BY <2>2, <2>3, <2>4, <2>5, <3>1, <3>4 DEF Exact
      <3> QED
        BY <2>4, <3>2, <3>3, <3>4
    <2>8. Agrees(s)'
      <3>1. Agrees(s) /\ Work \in Nat
        BY <1>1, AccountingAssumption
      <3> QED
        BY <2>2, <2>4, <2>5, <3>1 DEF Agrees
    <2>9. ASSUME s \notin misread' PROVE Own(s)'
      <3>1. Own(s)
        BY <1>1, <2>3, <2>9
      <3>2. Held(s, counterRegister)' = 0
        <4>1. cpus'[s] \in SUBSET CpuIds /\ counterRegister' \in [CpuIds -> Nat]
          BY <1>2 DEF Types, TypeOK
        <4>2. \A k \in CpuIds : counterRegister'[k] = 0
          BY <2>3
        <4> QED
          BY <4>1, <4>2, HeldNat DEF Held
      <3> QED
        BY <2>2, <2>3, <2>4, <2>5, <3>1, <3>2 DEF Own
    <2> QED
      BY <2>7, <2>8, <2>9
  <1> QED
    BY <1>2, <1>3, IInvNext

-----------------------------------------------------------------------------
(* The theorems.                                                            *)

\* Nothing has been counted yet.
LEMMA InitIInv ==
    ASSUME Init PROVE IInv
  <1>1. Listed = Slots /\ gang = {}
    BY DEF Init, Listed
  <1>2. CpuIds \in SUBSET CpuIds /\ sched_init_clock(0) \in ClockValues
    BY DEF sched_init_clock, ClockValues
  <1>3. TypeOK
    BY <1>1, AccountingAssumption DEF Init, TypeOK, sched_init_clock
  <1>4. BookInv
    BY <1>1, <1>2 DEF Init, BookInv, sched_init_clock
  <1>5. \A s \in Slots : Exact(s) /\ Agrees(s) /\ Own(s)
    BY <1>1, AccountingAssumption
       DEF Init, Exact, Agrees, Own, OpenRunning, OpenWaiting, sched_init_clock
  <1> QED
    BY <1>3, <1>4, <1>5, IInvSlots DEF Types

\* The inductive invariant holds in every state.
THEOREM Inductive == Spec => []IInv
  <1>1. IInv /\ UNCHANGED vars => IInv'
    <2> SUFFICES ASSUME IInv, UNCHANGED vars PROVE IInv'
      OBVIOUS
    <2> USE DEF vars, progVars, clockVars, instrVars, seenVars
    <2>1. Listed' = Listed /\ \A s \in Slots : Held(s, counterRegister)' = Held(s, counterRegister)
      BY DEF Listed, Held
    <2>2. ClockExact'
      BY <2>1 DEF IInv, ClockExact, TypeOK, OpenRunning, OpenWaiting
    <2>3. TotalsAgree' /\ ChargedOwn'
      BY <2>1 DEF IInv, TotalsAgree, ChargedOwn
    <2>4. BookInv'
      BY DEF IInv, BookInv
    <2> QED
      BY <2>2, <2>3, <2>4 DEF IInv
  <1>2. IInv /\ [Next]_vars => IInv'
    BY <1>1, ElapseNext, ExitNext, AddProgNext, RebalanceNext, TickNext DEF Next
  <1> QED
    BY InitIInv, <1>2, PTL DEF Spec

\* ClockExact: tm_running and tm_waiting share out the life of a program.
THEOREM ClocksCorrect == Spec => []ClockExact
  <1>1. IInv => ClockExact
    BY DEF IInv
  <1> QED
    BY Inductive, <1>1, PTL

\* TotalsAgree: total_instr and target_instr tell the same, but for what was
\* measured while the program was monitored.
THEOREM TotalsCorrect == Spec => []TotalsAgree
  <1>1. IInv => TotalsAgree
    BY DEF IInv
  <1> QED
    BY Inductive, <1>1, PTL

\* ChargedOwn: a slot whose programs had one core, and were reaped in time, is
\* charged with its own instructions.
THEOREM ChargeCorrect == Spec => []ChargedOwn
  <1>1. IInv => ChargedOwn
    BY DEF IInv
  <1> QED
    BY Inductive, <1>1, PTL
=============================================================================
