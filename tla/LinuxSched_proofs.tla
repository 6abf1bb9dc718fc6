-------------------------- MODULE LinuxSched_proofs --------------------------
(***************************************************************************)
(* Proofs about LinuxSched for every set of slots, every numbers of times  *)
(* and every unit they are counted in.                                     *)
(***************************************************************************)
EXTENDS LinuxSched, FiniteSetTheorems, TLAPS

\* Every subset of the finite set Slots is finite; its cardinality is 0 only
\* when it is empty.
LEMMA SlotSets ==
    ASSUME NEW S \in SUBSET Slots
    PROVE  IsFiniteSet(S) /\ Cardinality(S) \in Nat /\ (Cardinality(S) = 0 <=> S = {})
  BY SlotsAssumption, FS_Subset, FS_CardinalityType, FS_EmptySet

\* The sets that the counters are compared with.
LEMMA CountedSets ==
    /\ In("WAITING") \in SUBSET Slots /\ In("NEW") \in SUBSET Slots
    /\ In("RUNNING") \in SUBSET Slots /\ Owing \in SUBSET Slots
  BY DEF In, Owing

\* Removing from a set of slots those of another: the cardinality falls by the
\* number of slots they share.
LEMMA RemoveSlots ==
    ASSUME NEW S \in SUBSET Slots, NEW R \in SUBSET Slots
    PROVE  Cardinality(S \ R) = Cardinality(S) - Cardinality(S \cap R)
  BY SlotSets, FS_Difference

\* The cardinalities of disjoint sets of slots add up.
LEMMA JoinSlots ==
    ASSUME NEW S \in SUBSET Slots, NEW R \in SUBSET Slots, S \cap R = {}
    PROVE  Cardinality(S \cup R) = Cardinality(S) + Cardinality(R)
  <1>1. IsFiniteSet(S) /\ IsFiniteSet(R)
    BY SlotSets
  <1>2. Cardinality(S \cup R) = Cardinality(S) + Cardinality(R) - Cardinality(S \cap R)
    BY <1>1, FS_Union
  <1>3. Cardinality(S \cap R) = 0
    BY FS_EmptySet
  <1> QED
    BY <1>2, <1>3, SlotSets

\* Instances of a whole number q of times that f of them leave.
LEMMA WholeLeft ==
    ASSUME NEW q \in Int, NEW f \in Int
    PROVE  q * One - f * One = (q - f) * One
  BY TimesAssumption

\* A multiple of One that is below One is not positive.
LEMMA Multiple ==
    ASSUME NEW k \in Int, k * One < One
    PROVE  k <= 0
  <1>1. CASE k >= 1
    <2>1. k * One >= 1 * One
      BY <1>1, TimesAssumption
    <2> QED
      BY <2>1, TimesAssumption
  <1> QED
    BY <1>1

\* Quotient and remainder, named apart from their operators.
LEMMA Quotient ==
    ASSUME NEW t \in Int, NEW q \in Int, NEW x \in Int, q = t \div One, x = t % One
    PROVE  t = q * One + x
  BY TimesAssumption

\* The whole part of a number of times and its fraction.
LEMMA WholePart ==
    ASSUME NEW t \in Nat
    PROVE  \E q \in Nat, x \in 0 .. (One - 1) :
             q = t \div One /\ x = t % One /\ t = q * One + x
  <1>1. PICK q \in Nat : q = t \div One
    BY TimesAssumption
  <1>2. PICK x \in 0 .. (One - 1) : x = t % One
    BY TimesAssumption
  <1>3. t = q * One + x
    BY <1>1, <1>2, Quotient
  <1> QED
    BY <1>1, <1>2, <1>3

\* A whole number of times of which less than one instance is left has none left.
LEMMA WholeEnds ==
    ASSUME NEW t \in Nat, t % One = 0, NEW f \in Nat, t - f * One < One
    PROVE  t - f * One <= 0
  <1>1. PICK q \in Nat, x \in 0 .. (One - 1) : x = t % One /\ t = q * One + x
    BY WholePart
  <1>2. PICK k \in Int : k = q - f
    OBVIOUS
  <1>3. q * One \in Int /\ f * One \in Int /\ k * One \in Int
    BY TimesAssumption
  <1>4. q * One - f * One = k * One
    BY <1>2, WholeLeft
  <1>5. t - f * One = k * One
    BY <1>1, <1>3, <1>4
  <1>6. k <= 0
    BY <1>5, Multiple
  <1>7. k * One <= 0
    BY <1>6, TimesAssumption
  <1> QED
    BY <1>5, <1>7

-----------------------------------------------------------------------------
(* The inductive invariant.                                                 *)

\* Every slot waits at the start.
LEMMA InitIInv == Init => IInv
  <1> SUFFICES ASSUME Init PROVE IInv
    OBVIOUS
  <1>1. Cardinality(Slots) \in Nat /\ Cardinality(Slots) > 0
    BY SlotSets, SlotsAssumption
  <1>2. In("WAITING") = Slots /\ In("NEW") = {} /\ In("RUNNING") = {}
        /\ In("FINISHED") = {} /\ Owing = Slots
    BY DEF Init, In, Owing
  <1>3. Cardinality({}) = 0
    BY FS_EmptySet
  <1>4. TypeOK
    <2>1. target \in [Slots -> Int]
      BY TimesAssumption DEF Init
    <2>2. ticked \in BOOLEAN /\ sigchld \in BOOLEAN /\ energyF \in BOOLEAN /\ misused \in BOOLEAN
      BY Zenon DEF Init
    <2> QED
      BY <1>1, <2>1, <2>2 DEF Init, TypeOK
  <1>5. ListInv
    BY <1>2, SlotsAssumption DEF Init, ListInv
  <1>6. CountInv
    BY <1>1, <1>2, <1>3 DEF Init, CountInv
  <1>7. FileInv
    BY <1>1 DEF Init, FileInv, FilesUsedWhileOpen
  <1>8. TimesInv
    <2> SUFFICES ASSUME NEW s \in Slots
                 PROVE  /\ target[s] = Times[s] - finished[s] * One
                        /\ st[s] = "GONE" /\ s \notin killed => target[s] = 0
                        /\ Whole(s) => s \notin killed /\ (st[s] # "GONE" => target[s] > 0)
      BY DEF TimesInv
    <2>1. Times[s] \in Nat /\ target[s] = Times[s] /\ finished[s] * One = 0
      BY TimesAssumption DEF Init
    <2> QED
      BY <2>1 DEF Init, Whole
  <1> QED
    BY <1>4, <1>5, <1>6, <1>7, <1>8 DEF IInv

\* A step that leaves lists, flags and counters alone keeps all but ListInv.
LEMMA SameBooks ==
    ASSUME IInv, UNCHANGED <<st, killed, target, finished, countVars, fileVars>>
    PROVE  CountInv' /\ FileInv' /\ TimesInv'
  <1>1. /\ In("WAITING")' = In("WAITING") /\ In("NEW")' = In("NEW")
        /\ In("RUNNING")' = In("RUNNING") /\ Owing' = Owing
    BY DEF In, Owing
  <1>2. CountInv'
    BY <1>1 DEF IInv, CountInv, countVars, fileVars
  <1>3. FileInv'
    BY DEF IInv, FileInv, FilesUsedWhileOpen, countVars, fileVars
  <1>4. TimesInv'
    BY DEF IInv, TimesInv, Whole
  <1> QED
    BY <1>2, <1>3, <1>4

\* The steps of the loop and of the processes that only read the books.  The
\* counters tell whether a program is listed: the loop ends when none is.
LEMMA StepReaders ==
    ASSUME IInv,
           \/ SelectTimeout \/ SigchldEnter \/ ReapNone \/ EndRebalance
           \/ UNCHANGED vars \/ \E s \in Slots : Exit(s) \/ Die(s)
    PROVE  IInv'
  <1> USE DEF progVars, countVars, fileVars
  <1>1. CountInv' /\ FileInv' /\ TimesInv'
    <2>1. UNCHANGED <<st, killed, target, finished, countVars, fileVars>>
      BY DEF SelectTimeout, SigchldEnter, ReapNone, EndRebalance, Exit, Die, vars
    <2> QED
      BY <2>1, SameBooks
  <1>2. TypeOK'
    BY DEF IInv, TypeOK, SelectTimeout, SigchldEnter, ReapNone, EndRebalance, Exit, Die, vars
  <1>3. NothingLeft <=> \A s \in Slots : st[s] \notin {"WAITING", "NEW", "RUNNING"}
    <2>1. NothingLeft <=> In("WAITING") = {} /\ In("NEW") = {} /\ In("RUNNING") = {}
      BY SlotSets, CountedSets DEF IInv, CountInv, NothingLeft
    <2> QED
      BY <2>1 DEF In
  <1>4. ListInv'
    <2>1. CASE SelectTimeout
      BY <2>1, <1>3 DEF IInv, ListInv, SelectTimeout, In, OnLast, TypeOK
    <2>2. CASE EndRebalance
      BY <2>2, <1>3 DEF IInv, ListInv, EndRebalance, In, OnLast, TypeOK
    <2>3. CASE SigchldEnter \/ ReapNone
      BY <2>3 DEF IInv, ListInv, SigchldEnter, ReapNone, In, OnLast
    <2>4. CASE UNCHANGED vars
      BY <2>4 DEF IInv, ListInv, vars, In, OnLast
    <2>5. ASSUME NEW s \in Slots, Exit(s) \/ Die(s) PROVE ListInv'
      BY <2>5 DEF IInv, ListInv, Exit, Die, In, OnLast, TypeOK
    <2> QED
      BY <2>1, <2>2, <2>3, <2>4, <2>5
  <1> QED
    BY <1>1, <1>2, <1>4 DEF IInv

-----------------------------------------------------------------------------
(* The events.                                                              *)

\* WAITING -> NEW moves one slot between two counted lists.
LEMMA StepProgWaitingNew ==
    ASSUME IInv, NEW s \in Slots, ProgWaitingNew(s)
    PROVE  IInv'
  <1> USE DEF ProgWaitingNew, fileVars
  <1>0. TypeOK /\ ListInv /\ CountInv /\ FileInv /\ TimesInv
    BY DEF IInv
  <1>1. /\ In("WAITING")' = In("WAITING") \ {s} /\ s \in In("WAITING")
        /\ In("NEW")' = In("NEW") \cup {s} /\ s \notin In("NEW")
        /\ In("RUNNING")' = In("RUNNING") /\ In("FINISHED")' = In("FINISHED")
        /\ Owing' = Owing
    BY <1>0 DEF TypeOK, In, Owing
  <1>2. /\ Cardinality(In("WAITING")') = Cardinality(In("WAITING")) - 1
        /\ Cardinality(In("NEW")') = Cardinality(In("NEW")) + 1
    BY <1>1, CountedSets, SlotSets, FS_AddElement, FS_RemoveElement
  <1>3. Cardinality(In("WAITING")') \in Nat
    BY <1>1, CountedSets, SlotSets
  <1>4. TypeOK'
    BY <1>0, <1>2, <1>3 DEF TypeOK, CountInv
  <1>5. ListInv'
    BY <1>0, <1>1 DEF TypeOK, ListInv, OnLast
  <1>6. CountInv'
    BY <1>0, <1>1, <1>2 DEF CountInv
  <1>7. FileInv'
    BY <1>0 DEF FileInv, FilesUsedWhileOpen
  <1>8. TimesInv'
    BY <1>0 DEF TimesInv, Whole, TypeOK
  <1> QED
    BY <1>4, <1>5, <1>6, <1>7, <1>8 DEF IInv

\* The new programs become the running ones.
LEMMA StepEndEvents ==
    ASSUME IInv, EndEvents
    PROVE  IInv'
  <1> USE DEF EndEvents, fileVars
  <1>0. TypeOK /\ ListInv /\ CountInv /\ FileInv /\ TimesInv
    BY DEF IInv
  <1>1. /\ In("WAITING")' = In("WAITING") /\ In("NEW")' = {}
        /\ In("RUNNING")' = In("RUNNING") \cup In("NEW")
        /\ In("RUNNING") \cap In("NEW") = {}
        /\ In("FINISHED")' = In("FINISHED") /\ Owing' = Owing
    BY <1>0 DEF TypeOK, In, Owing
  <1>2. Cardinality({}) = 0
    BY FS_EmptySet
  <1>3. Cardinality(In("RUNNING")') = Cardinality(In("RUNNING")) + Cardinality(In("NEW"))
    BY <1>1, CountedSets, JoinSlots
  <1>4. Cardinality(In("NEW")) \in Nat
    BY CountedSets, SlotSets
  <1>5. CountInv'
    BY <1>0, <1>1, <1>2, <1>3, <1>4 DEF CountInv, Running, TypeOK
  <1>6. TypeOK'
    <2>1. new_nr' \in Nat /\ running_nr' \in Nat
      BY <1>0, <1>4 DEF CountInv, Running, TypeOK
    <2>2. proc' \in [Slots -> {"frozen", "thawed", "dying", "zombie", "reaped"}]
      BY <1>0 DEF ThawNew, TypeOK
    <2>3. st' \in [Slots -> {"WAITING", "NEW", "RUNNING", "FINISHED", "GONE"}]
      BY <1>0 DEF TypeOK
    <2> QED
      BY <1>0, <2>1, <2>2, <2>3 DEF TypeOK
  <1>7. ListInv'
    BY <1>0, <1>1 DEF TypeOK, ListInv, OnLast, ThawNew, In
  <1>8. FileInv'
    BY <1>0 DEF FileInv, FilesUsedWhileOpen
  <1>9. TimesInv'
    BY <1>0 DEF TimesInv, Whole, TypeOK
  <1> QED
    BY <1>5, <1>6, <1>7, <1>8, <1>9 DEF IInv

\* A tick.  The programs it kills for the first time leave Owing, those it kills
\* again are counted off without leaving it.
LEMMA StepQExpired ==
    ASSUME IInv, NEW late \in SUBSET Slots, QExpired(late)
    PROVE  IInv'
  <1> USE DEF QExpired, Tick
  <1>0. TypeOK /\ ListInv /\ CountInv /\ FileInv /\ TimesInv
    BY DEF IInv
  <1>1. /\ In("WAITING")' = In("WAITING") /\ In("NEW")' = In("NEW")
        /\ In("RUNNING")' = In("RUNNING") /\ In("FINISHED")' = In("FINISHED")
        /\ Owing' = Owing \ late /\ Owing \cap late = late \ killed
    BY <1>0 DEF TypeOK, In, Owing
  <1>2. Cardinality(late) \in Nat /\ Cardinality(late \cap killed) \in Nat
        /\ Cardinality(late \ killed) \in Nat /\ Cardinality(Owing) \in Nat
        /\ Cardinality(Owing') \in Nat
    <2>1. /\ late \cap killed \in SUBSET Slots /\ late \ killed \in SUBSET Slots
          /\ Owing \in SUBSET Slots /\ Owing' \in SUBSET Slots
      BY <1>1, CountedSets
    <2> HIDE DEF QExpired, Tick
    <2> QED
      BY <2>1, SlotSets
  <1>3. Cardinality(Owing') = Cardinality(Owing) - Cardinality(late \ killed)
    <2> HIDE DEF QExpired, Tick
    <2>1. PICK S \in SUBSET Slots : S = Owing
      BY CountedSets
    <2>2. Cardinality(S \ late) = Cardinality(S) - Cardinality(S \cap late)
      BY RemoveSlots
    <2> QED
      BY <1>1, <2>1, <2>2
  <1>4. Cardinality(late \ killed) = Cardinality(late) - Cardinality(late \cap killed)
    BY <1>0, RemoveSlots DEF TypeOK
  <1>5. CountInv'
    BY <1>0, <1>1, <1>2, <1>3, <1>4 DEF CountInv, TypeOK
  <1>6. progs_left' \in Int /\ rekills' \in Nat /\ progs_left' <= progs_left
    BY <1>0, <1>2 DEF TypeOK
  <1>7. printed' \in Nat /\ printed' <= printed + 1
        /\ (printed' > 0 <=> progs_left' <= 0)
    BY <1>0, <1>6, BoundAssumption DEF Printed, Totals, FileInv, TypeOK
  <1>8. TypeOK'
    <2>1. energyF' \in BOOLEAN /\ misused' \in BOOLEAN
      BY Zenon
    <2>2. proc' \in [Slots -> {"frozen", "thawed", "dying", "zombie", "reaped"}]
      BY <1>0 DEF TypeOK
    <2>3. ticked' \in BOOLEAN /\ killed' \subseteq Slots
      BY <1>0 DEF TypeOK
    <2> QED
      BY <1>0, <1>6, <1>7, <2>1, <2>2, <2>3 DEF TypeOK
  <1>9. ListInv'
    BY <1>0, <1>1 DEF TypeOK, ListInv, OnLast
  <1>10. FileInv'
    <2>1. ~energyF' => printed' > 0
      BY <1>0, <1>6, <1>7 DEF FileInv, Totals, TypeOK
    \* With the files closed and no second kill so far, no slot owes work;
    \* the loop goes on, so some killed program is still running, and this
    \* tick kills it a second time.
    <2>2. ASSUME rekills' = 0 PROVE printed = 0
      <3> SUFFICES ASSUME printed # 0 PROVE FALSE
        OBVIOUS
      <3>1. rekills = 0 /\ Cardinality(late \cap killed) = 0
        BY <1>0, <1>2, <2>2 DEF TypeOK
      <3>2. late \cap killed = {}
        BY <3>1, SlotSets
      <3>3. Owing = {}
        <4>1. progs_left <= 0
          BY <1>0 DEF FileInv, TypeOK
        <4>2. Cardinality(Owing) = 0
          BY <1>0, <1>2, <3>1, <4>1 DEF CountInv
        <4> QED
          BY <4>2, CountedSets, SlotSets
      <3>4. PICK s \in Slots : st[s] \in {"WAITING", "NEW", "RUNNING"}
        BY <1>0 DEF ListInv
      <3>5. s \in killed /\ st[s] = "RUNNING" /\ OnLast(s)
        BY <1>0, <3>3, <3>4 DEF Owing, ListInv
      <3>6. s \in late
        BY <3>5 DEF Overdue, In
      <3> QED
        BY <3>2, <3>5, <3>6
    <2>3. FilesUsedWhileOpen'
      <3> SUFFICES ASSUME rekills' = 0 PROVE misused' = FALSE /\ printed' <= 1
        BY DEF FilesUsedWhileOpen
      <3>1. printed = 0
        BY <2>2
      <3>2. rekills = 0
        BY <1>0, <1>2 DEF TypeOK
      <3>3. energyF = TRUE /\ misused = FALSE
        BY <1>0, <3>1, <3>2 DEF FileInv, FilesUsedWhileOpen, TypeOK
      <3> QED
        BY <1>7, <3>1, <3>3
    <2> QED
      BY <1>7, <2>1, <2>3 DEF FileInv
  <1>11. TimesInv'
    <2>1. ASSUME NEW s \in Slots, Whole(s), s \in late PROVE FALSE
      <3>1. target[s] > 0 /\ target[s] < One /\ target[s] = Times[s] - finished[s] * One
        BY <1>0, <2>1 DEF TimesInv, OnLast
      <3>2. Times[s] \in Nat /\ finished[s] \in Nat /\ Times[s] % One = 0
        BY <1>0, <2>1, TimesAssumption DEF TypeOK, Whole
      <3>3. target[s] <= 0
        BY <3>1, <3>2, WholeEnds
      <3> QED
        BY <1>0, <3>1, <3>3 DEF TypeOK
    <2> QED
      BY <1>0, <2>1 DEF TimesInv, Whole
  <1> QED
    BY <1>5, <1>8, <1>9, <1>10, <1>11 DEF IInv

-----------------------------------------------------------------------------
(* sigchld_handler.                                                         *)

\* A dead process is that of a running program, which leaves the counted list.
LEMMA StepReap ==
    ASSUME IInv, NEW s \in Slots, Reap(s)
    PROVE  IInv'
  <1> USE DEF Reap, fileVars
  <1>0. TypeOK /\ ListInv /\ CountInv /\ FileInv /\ TimesInv
    BY DEF IInv
  <1>1. /\ In("RUNNING")' = In("RUNNING") \ {s} /\ s \in In("RUNNING")
        /\ In("WAITING")' = In("WAITING") /\ In("NEW")' = In("NEW")
        /\ Owing' = Owing
    BY <1>0 DEF TypeOK, ListInv, In, Owing
  <1>2. Cardinality(In("RUNNING")') = Cardinality(In("RUNNING")) - 1
        /\ Cardinality(In("RUNNING")') \in Nat
    BY <1>1, CountedSets, SlotSets, FS_RemoveElement
  <1>3. TypeOK'
    BY <1>0, <1>2 DEF TypeOK, CountInv
  <1>4. ListInv'
    BY <1>0 DEF TypeOK, ListInv, OnLast
  <1>5. CountInv'
    BY <1>0, <1>1, <1>2 DEF CountInv
  <1>6. FileInv'
    BY <1>0 DEF FileInv, FilesUsedWhileOpen
  <1>7. TimesInv'
    BY <1>0 DEF TypeOK, ListInv, TimesInv, Whole
  <1> QED
    BY <1>3, <1>4, <1>5, <1>6, <1>7 DEF IInv

\* rebalance for a killed program: it was counted off by the tick.
LEMMA StepFinishKilled ==
    ASSUME IInv, NEW s \in Slots, Finish(s), FinishKilled(s)
    PROVE  IInv'
  <1> USE DEF Finish, FinishKilled
  <1>0. TypeOK /\ ListInv /\ CountInv /\ FileInv /\ TimesInv
    BY DEF IInv
  <1>1. /\ In("RUNNING")' = In("RUNNING") /\ Owing' = Owing
        /\ In("WAITING")' = In("WAITING") /\ In("NEW")' = In("NEW")
    BY <1>0 DEF TypeOK, In, Owing
  <1>2. TypeOK'
    BY <1>0 DEF TypeOK
  <1>3. ListInv'
    BY <1>0 DEF TypeOK, ListInv, OnLast
  <1>4. CountInv'
    BY <1>0, <1>1 DEF CountInv
  <1>5. FileInv'
    BY <1>0 DEF FileInv, FilesUsedWhileOpen
  <1>6. TimesInv'
    BY <1>0 DEF TypeOK, TimesInv, Whole
  <1> QED
    BY <1>2, <1>3, <1>4, <1>5, <1>6 DEF IInv

\* One instance more completes: times_target moves one down in step with it.
LEMMA OneInstance ==
    ASSUME NEW t \in Nat, NEW f \in Nat
    PROVE  t - (f + 1) * One = (t - f * One) - One
  BY TimesAssumption

\* times_target after an exit is what the number of instances says; with a
\* whole number of times it is not negative.
LEMMA FinishTimes ==
    ASSUME IInv, NEW s \in Slots, Finish(s), FinishLive(s)
    PROVE  TimesInv'
  <1>0. TypeOK /\ TimesInv /\ s \notin killed /\ st[s] = "FINISHED"
        /\ killed' = killed
    BY DEF IInv, Finish, FinishLive
  <1>1. /\ target' = [target EXCEPT ![s] = target[s] - One]
        /\ finished' = [finished EXCEPT ![s] = finished[s] + 1]
        /\ st' = [st EXCEPT ![s] = IF target[s] - One # 0 THEN "WAITING" ELSE "GONE"]
    BY DEF FinishLive
  <1>2. Times[s] \in Nat /\ finished[s] \in Nat /\ target[s] \in Int /\ One \in Int
    BY <1>0, TimesAssumption DEF TypeOK
  <1>3. /\ target'[s] = target[s] - One /\ finished'[s] = finished[s] + 1
        /\ st'[s] = IF target[s] - One # 0 THEN "WAITING" ELSE "GONE"
    BY <1>0, <1>1 DEF TypeOK
  <1>4. target'[s] = Times[s] - finished'[s] * One
    <2>1. target[s] = Times[s] - finished[s] * One
      BY <1>0 DEF TimesInv
    <2> QED
      BY <1>2, <1>3, <2>1, OneInstance
  <1>5. Whole(s) => target[s] >= One
    <2> SUFFICES ASSUME Whole(s), target[s] < One PROVE FALSE
      BY <1>2
    <2>1. target[s] = Times[s] - finished[s] * One /\ target[s] > 0
      BY <1>0 DEF TimesInv
    <2>2. target[s] <= 0
      BY <1>2, <2>1, WholeEnds DEF Whole
    <2> QED
      BY <1>2, <2>1, <2>2
  <1>6. /\ st'[s] = "GONE" => target'[s] = 0
        /\ Whole(s) => (st'[s] # "GONE" => target'[s] > 0)
    BY <1>2, <1>3, <1>5
  <1>7. \A r \in Slots \ {s} :
          target'[r] = target[r] /\ finished'[r] = finished[r] /\ st'[r] = st[r]
    BY <1>0, <1>1 DEF TypeOK
  <1> QED
    BY <1>0, <1>4, <1>6, <1>7 DEF TimesInv, Whole

\* rebalance for a program that exited: its slot waits again, or is over and
\* counted off.  It owed work until now, so the files are open.
LEMMA StepFinishLive ==
    ASSUME IInv, NEW s \in Slots, Finish(s), FinishLive(s)
    PROVE  IInv'
  <1> USE DEF Finish, FinishLive
  <1>0. TypeOK /\ ListInv /\ CountInv /\ FileInv
    BY DEF IInv
  <1>1. /\ s \in Owing /\ s \notin In("WAITING")
        /\ In("RUNNING")' = In("RUNNING") /\ In("NEW")' = In("NEW")
    BY <1>0 DEF TypeOK, In, Owing
  <1>2. Cardinality(Owing) \in Nat /\ Cardinality(Owing) # 0
    BY <1>1, CountedSets, SlotSets
  <1>3. CountInv' /\ progs_left' <= progs_left /\ waiting_nr' \in Nat /\ progs_left' \in Int
    <2>1. CASE target[s] - One # 0
      <3>1. In("WAITING")' = In("WAITING") \cup {s} /\ Owing' = Owing
        BY <1>0, <2>1 DEF TypeOK, In, Owing
      <3>2. Cardinality(In("WAITING")') = Cardinality(In("WAITING")) + 1
        BY <1>1, <3>1, CountedSets, SlotSets, FS_AddElement
      <3> QED
        BY <1>0, <1>1, <2>1, <3>1, <3>2 DEF CountInv, TypeOK
    <2>2. CASE ~(target[s] - One # 0)
      <3>1. In("WAITING")' = In("WAITING") /\ Owing' = Owing \ {s}
        BY <1>0, <2>2 DEF TypeOK, In, Owing
      <3>2. Cardinality(Owing') = Cardinality(Owing) - 1
        BY <1>1, <3>1, CountedSets, SlotSets, FS_RemoveElement
      <3> QED
        BY <1>0, <1>1, <1>2, <2>2, <3>1, <3>2 DEF CountInv, TypeOK
    <2> QED
      BY <2>1, <2>2
  <1>4. printed' \in Nat /\ printed' <= printed + 1
        /\ (printed' > 0 <=> progs_left' <= 0)
    BY <1>0, <1>3, BoundAssumption DEF Printed, Totals, FileInv, TypeOK
  <1>5. TypeOK'
    <2>1. misused' \in BOOLEAN
      BY Zenon
    <2>2. st' \in [Slots -> {"WAITING", "NEW", "RUNNING", "FINISHED", "GONE"}]
          /\ proc' \in [Slots -> {"frozen", "thawed", "dying", "zombie", "reaped"}]
      BY <1>0 DEF TypeOK
    <2>3. target' \in [Slots -> Int] /\ finished' \in [Slots -> Nat]
      BY <1>0, TimesAssumption DEF TypeOK
    <2> QED
      BY <1>0, <1>3, <1>4, <2>1, <2>2, <2>3 DEF TypeOK
  <1>6. ListInv'
    BY <1>0 DEF TypeOK, ListInv, OnLast
  <1>7. FileInv'
    <2>1. ~energyF' => printed' > 0
      BY <1>0, <1>3, <1>4 DEF FileInv, TypeOK
    <2>2. ASSUME rekills = 0 PROVE misused' = FALSE /\ printed' <= 1
      <3>1. printed = 0
        BY <1>0, <1>2, <2>2 DEF CountInv, FileInv, TypeOK
      <3>2. misused = FALSE
        BY <1>0, <2>2 DEF FileInv, FilesUsedWhileOpen, TypeOK
      <3>3. ~(printed > 0) /\ printed' <= 1
        BY <1>4, <3>1
      <3> QED
        BY <3>2, <3>3, Zenon
    <2> QED
      BY <1>4, <2>1, <2>2 DEF FileInv, FilesUsedWhileOpen
  <1> QED
    BY <1>3, <1>5, <1>6, <1>7, FinishTimes DEF IInv

-----------------------------------------------------------------------------
(* The results.                                                             *)

\* IInv holds in every reachable state.
LEMMA Inductive == Spec => []IInv
  <1>1. IInv /\ [Next]_vars => IInv'
    BY StepReaders, StepProgWaitingNew, StepEndEvents, StepQExpired, StepReap,
       StepFinishKilled, StepFinishLive DEF Next, Finish, Terminated
  <1> QED
    BY <1>1, InitIInv, PTL DEF Spec

\* progs_left is the number of slots that owe work, less one for every time a
\* tick killed a program again, whatever the order of ticks, exits and reaps.
THEOREM LeftCorrect == Spec => []LeftExact
  <1>1. IInv => LeftExact
    BY DEF IInv, CountInv, LeftExact
  <1> QED
    BY <1>1, Inductive, PTL

\* As long as no tick meets a program that an earlier tick killed, the totals
\* are printed at most once and no file is used after it was closed.
THEOREM FilesCorrect == Spec => []FilesUsedWhileOpen
  <1>1. IInv => FilesUsedWhileOpen
    BY DEF IInv, FileInv
  <1> QED
    BY <1>1, Inductive, PTL

\* The executor exits when every slot has come to its end and the totals are
\* printed, even if progs_left was counted down too often.
THEOREM ExitCorrect == Spec => []ExitComplete
  <1>1. ASSUME IInv, pc = "exited" PROVE Owing = {} /\ printed > 0
    <2>1. Owing = {}
      BY <1>1 DEF IInv, ListInv, Owing
    <2>2. Cardinality(Owing) = 0
      BY <2>1, FS_EmptySet
    <2>3. progs_left <= 0
      BY <1>1, <2>2 DEF IInv, CountInv, TypeOK
    <2> QED
      BY <1>1, <2>1, <2>3 DEF IInv, FileInv
  <1>2. IInv => ExitComplete
    BY <1>1 DEF ExitComplete
  <1> QED
    BY <1>2, Inductive, PTL

\* No slot ends before the whole part of its times is complete: a program is
\* killed only on its last, partial instance, and a whole number of times is met
\* exactly.
THEOREM TimesCorrect == Spec => []TimesReached
  <1>1. ASSUME NEW t \in Nat, NEW f \in Nat, t - f * One < One
        PROVE  f >= t \div One
    <2>1. PICK q \in Nat, x \in 0 .. (One - 1) : q = t \div One /\ t = q * One + x
      BY WholePart
    <2> q \in Nat
      BY <2>1
    <2>2. PICK k \in Int : k = q - f
      OBVIOUS
    <2>3. q * One \in Int /\ f * One \in Int /\ k * One \in Int
      BY TimesAssumption
    <2>4. q * One - f * One = k * One
      BY <2>2, WholeLeft
    <2>5. k * One < One
      BY <1>1, <2>1, <2>3, <2>4, TimesAssumption
    <2>6. k <= 0
      BY <2>5, Multiple
    <2>7. f >= q
      BY <2>2, <2>6
    <2> QED
      BY <2>1, <2>7
  <1>2. ASSUME NEW t \in Nat, NEW f \in Nat, t = f * One
        PROVE  f = t \div One
    <2>1. PICK q \in Nat, x \in 0 .. (One - 1) : q = t \div One /\ t = q * One + x
      BY WholePart
    <2> q \in Nat
      BY <2>1
    <2>2. PICK k \in Int : k = f - q
      OBVIOUS
    <2>3. q * One \in Int /\ f * One \in Int /\ k * One \in Int
      BY TimesAssumption
    <2>4. f * One - q * One = k * One
      BY <2>2, WholeLeft
    <2>5. k * One < One
      BY <1>2, <2>1, <2>3, <2>4, TimesAssumption
    <2>6. k <= 0
      BY <2>5, Multiple
    <2>7. f >= q
      <3>1. t - f * One < One
        BY <1>2, <2>3, TimesAssumption
      <3> QED
        BY <1>1, <2>1, <3>1
    <2>8. f = q
      BY <2>2, <2>6, <2>7
    <2> QED
      BY <2>1, <2>8
  <1>3. ASSUME IInv, NEW s \in Slots, s \notin Owing
        PROVE  /\ finished[s] >= Times[s] \div One
               /\ Times[s] # 0 /\ Times[s] % One = 0 => finished[s] = Times[s] \div One
    <2>1. /\ Times[s] \in Nat /\ finished[s] \in Nat
          /\ target[s] = Times[s] - finished[s] * One /\ One > 0
      BY <1>3, TimesAssumption DEF IInv, TimesInv, TypeOK
    <2>2. target[s] < One
      BY <1>3, <2>1, TimesAssumption DEF IInv, TypeOK, ListInv, TimesInv, OnLast, Owing
    <2>3. finished[s] >= Times[s] \div One
      BY <1>1, <2>1, <2>2
    <2>4. ASSUME Times[s] # 0 /\ Times[s] % One = 0
          PROVE  finished[s] = Times[s] \div One
      <3>1. target[s] = 0
        BY <1>3, <2>4 DEF IInv, TimesInv, Whole, Owing
      <3>2. finished[s] * One \in Int
        BY <2>1, TimesAssumption
      <3>3. Times[s] = finished[s] * One
        BY <2>1, <3>1, <3>2
      <3> QED
        BY <1>2, <2>1, <3>3
    <2> QED
      BY <2>3, <2>4
  <1>4. IInv => TimesReached
    BY <1>3 DEF TimesReached
  <1> QED
    BY <1>4, Inductive, PTL
=============================================================================
