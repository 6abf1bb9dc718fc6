--------------------------- MODULE Startup_proofs ----------------------------
(***************************************************************************)
(* Proofs about Startup for every set of programs and every configuration. *)
(***************************************************************************)
EXTENDS Startup, FiniteSetTheorems, FunctionTheorems, SequenceTheorems, TLAPS

-----------------------------------------------------------------------------
(* How often a program occurs in a sequence of handles.                     *)

\* Where p is in a sequence.
At(p, seq) == {i \in 1..Len(seq) : seq[i] = p}

\* Times counts the places of p, of which there are finitely many.
LEMMA TimesAt ==
    ASSUME NEW p, NEW seq \in Seq(Progs)
    PROVE  /\ At(p, seq) \in SUBSET (1..Len(seq)) /\ IsFiniteSet(At(p, seq))
           /\ Times(p, seq) = Cardinality(At(p, seq)) /\ Times(p, seq) \in Nat
  <1>1. DOMAIN seq = 1..Len(seq) /\ Len(seq) \in Nat
    BY LenProperties
  <1>2. IsFiniteSet(1..Len(seq))
    BY <1>1, FS_Interval
  <1>3. At(p, seq) \in SUBSET (1..Len(seq)) /\ At(p, seq) = {i \in DOMAIN seq : seq[i] = p}
    BY <1>1 DEF At
  <1>4. IsFiniteSet(At(p, seq)) /\ Cardinality(At(p, seq)) \in Nat
    BY <1>2, <1>3, FS_Subset, FS_CardinalityType
  <1> QED
    BY <1>3, <1>4 DEF Times

\* The empty sequence has nobody.
LEMMA TimesEmpty ==
    ASSUME NEW p PROVE Times(p, <<>>) = 0
  BY FS_EmptySet DEF Times

\* Append adds one occurrence of the element appended.
LEMMA TimesAppend ==
    ASSUME NEW p \in Progs, NEW seq \in Seq(Progs), NEW q \in Progs
    PROVE  Times(p, Append(seq, q)) = Times(p, seq) + (IF q = p THEN 1 ELSE 0)
  <1>1. /\ Append(seq, q) \in Seq(Progs) /\ Len(Append(seq, q)) = Len(seq) + 1
        /\ \A i \in 1..Len(seq) : Append(seq, q)[i] = seq[i]
        /\ Append(seq, q)[Len(seq) + 1] = q /\ Len(seq) \in Nat
    BY AppendProperties, LenProperties
  <1> DEFINE longer == Append(seq, q)
  <1> HIDE DEF longer
  <1>t. /\ Times(p, longer) = Cardinality(At(p, longer))
        /\ Times(p, seq) = Cardinality(At(p, seq)) /\ Times(p, seq) \in Nat
        /\ IsFiniteSet(At(p, seq))
    BY <1>1, TimesAt DEF longer
  <1>2. CASE q = p
    <2>1. At(p, Append(seq, q)) = At(p, seq) \cup {Len(seq) + 1}
          /\ Len(seq) + 1 \notin At(p, seq)
      BY <1>1, <1>2 DEF At
    <2>2. Cardinality(At(p, longer)) = Cardinality(At(p, seq)) + 1
      BY <1>t, <2>1, FS_AddElement DEF longer
    <2> QED
      BY <1>t, <1>2, <2>2 DEF longer
  <1>3. CASE q # p
    <2>1. At(p, Append(seq, q)) = At(p, seq)
      BY <1>1, <1>3 DEF At
    <2> QED
      BY <1>t, <1>3, <2>1 DEF longer
  <1> QED
    BY <1>2, <1>3

\* Two sets that agree but for x.
LEMMA OneMore ==
    ASSUME NEW I, NEW x, NEW B \in SUBSET I, NEW A \in SUBSET (I \cup {x}),
           x \notin I, x \in A, \A i \in I : i \in A <=> i \in B
    PROVE  A = B \cup {x} /\ x \notin B
  OBVIOUS

\* Front loses the occurrence at the end.
LEMMA TimesFront ==
    ASSUME NEW p \in Progs, NEW seq \in Seq(Progs), Len(seq) > 0
    PROVE  /\ Front(seq) \in Seq(Progs) /\ Len(Front(seq)) = Len(seq) - 1
           /\ Last(seq) \in Progs
           /\ Times(p, seq) = Times(p, Front(seq)) + (IF Last(seq) = p THEN 1 ELSE 0)
  <1>1. Len(seq) \in Nat /\ \A i \in 1..Len(seq) : seq[i] \in Progs
    BY LenProperties, ElementOfSeq
  <1>2. /\ Front(seq) \in Seq(Progs) /\ Len(Front(seq)) = Len(seq) - 1
        /\ \A i \in 1..Len(seq) - 1 : Front(seq)[i] = seq[i]
    <2>1. PICK n \in Nat : n = Len(seq) - 1
      BY <1>1
    <2>2. \A i \in 1..n : seq[i] \in Progs
      BY <1>1, <2>1
    <2>3. /\ SubSeq(seq, 1, n) \in Seq(Progs)
          /\ Len(SubSeq(seq, 1, n)) = IF 1 <= n THEN n - 1 + 1 ELSE 0
          /\ \A i \in 1..(n - 1 + 1) : SubSeq(seq, 1, n)[i] = seq[1 + i - 1]
      BY <2>2, SubSeqProperties
    <2>4. /\ Len(SubSeq(seq, 1, n)) = n
          /\ \A i \in 1..n : SubSeq(seq, 1, n)[i] = seq[i]
      BY <2>3
    <2> QED
      BY <2>1, <2>3, <2>4 DEF Front
  <1>3. Last(seq) = seq[Len(seq)] /\ Last(seq) \in Progs
    BY <1>1 DEF Last
  <1>t. /\ Times(p, seq) = Cardinality(At(p, seq))
        /\ Times(p, Front(seq)) = Cardinality(At(p, Front(seq)))
        /\ Times(p, Front(seq)) \in Nat /\ IsFiniteSet(At(p, Front(seq)))
    BY <1>2, TimesAt
  <1>4. CASE Last(seq) = p
    <2>a. PICK n \in Nat : n + 1 = Len(seq) /\ n = Len(Front(seq))
      BY <1>1, <1>2
    <2>b. 1..(n + 1) = (1..n) \cup {n + 1} /\ n + 1 \notin 1..n
      BY <2>a
    <2>c. At(p, seq) \subseteq 1..(n + 1) /\ At(p, Front(seq)) \subseteq 1..n
      BY <2>a DEF At
    <2>d. \A i \in 1..n : i \in At(p, seq) <=> i \in At(p, Front(seq))
      BY <1>2, <2>a DEF At
    <2>e. n + 1 \in At(p, seq)
      <3>a. Len(seq) \in 1..Len(seq)
        BY <1>1
      <3>b. seq[Len(seq)] = p
        BY <1>3, <1>4
      <3>1. Len(seq) \in At(p, seq)
        BY <3>a, <3>b DEF At
      <3> QED
        BY <2>a, <3>1
    <2>f. At(p, seq) = At(p, Front(seq)) \cup {n + 1} /\ n + 1 \notin At(p, Front(seq))
      <3>1. /\ At(p, seq) \in SUBSET ((1..n) \cup {n + 1})
            /\ At(p, Front(seq)) \in SUBSET (1..n)
        BY <2>b, <2>c
      <3> QED
        BY <2>b, <2>d, <2>e, <3>1, OneMore
    <2>1. At(p, seq) = At(p, Front(seq)) \cup {Len(seq)} /\ Len(seq) \notin At(p, Front(seq))
      BY <2>a, <2>f
    <2>2. Cardinality(At(p, seq)) = Cardinality(At(p, Front(seq))) + 1
      BY <1>t, <2>1, FS_AddElement
    <2> QED
      BY <1>2, <1>3, <1>t, <1>4, <2>2
  <1>5. CASE Last(seq) # p
    <2>1. At(p, seq) = At(p, Front(seq))
      BY <1>1, <1>2, <1>3, <1>5 DEF At
    <2> QED
      BY <1>2, <1>3, <1>t, <1>5, <2>1
  <1> QED
    BY <1>2, <1>3, <1>4, <1>5

\* Tail loses the occurrence at the head; the places of the others move by one.
LEMMA TimesTail ==
    ASSUME NEW p \in Progs, NEW seq \in Seq(Progs), seq # <<>>
    PROVE  /\ Head(seq) \in Progs /\ Tail(seq) \in Seq(Progs)
           /\ Times(p, seq) = Times(p, Tail(seq)) + (IF Head(seq) = p THEN 1 ELSE 0)
  <1>1. /\ Head(seq) \in Progs /\ Tail(seq) \in Seq(Progs)
        /\ Len(Tail(seq)) = Len(seq) - 1 /\ Len(seq) \in Nat \ {0}
        /\ \A i \in 1..Len(Tail(seq)) : Tail(seq)[i] = seq[i + 1]
        /\ Head(seq) = seq[1]
    BY HeadTailProperties, EmptySeq
  <1>t. /\ Times(p, seq) = Cardinality(At(p, seq)) /\ IsFiniteSet(At(p, seq))
        /\ Times(p, Tail(seq)) = Cardinality(At(p, Tail(seq)))
        /\ Times(p, Tail(seq)) \in Nat /\ IsFiniteSet(At(p, Tail(seq)))
    BY <1>1, TimesAt
  <1> DEFINE later == At(p, seq) \ {1}
             moved == [i \in At(p, Tail(seq)) |-> i + 1]
  <1>2. moved \in Bijection(At(p, Tail(seq)), later)
    <2>1. moved \in [At(p, Tail(seq)) -> later]
      BY <1>1 DEF At
    <2>2. \A i, j \in At(p, Tail(seq)) : moved[i] = moved[j] => i = j
      BY <1>1 DEF At
    <2>3. ASSUME NEW k \in later PROVE \E i \in At(p, Tail(seq)) : moved[i] = k
      <3>1. k - 1 \in At(p, Tail(seq)) /\ (k - 1) + 1 = k
        BY <1>1 DEF At
      <3> QED
        BY <3>1
    <2> QED
      BY <2>1, <2>2, <2>3, Fun_IsBij
  <1>3. Cardinality(later) = Cardinality(At(p, Tail(seq)))
    BY <1>t, <1>2, FS_Bijection DEF ExistsBijection
  <1>4. CASE Head(seq) = p
    <2>1. 1 \in At(p, seq)
      BY <1>1, <1>4 DEF At
    <2>2. Cardinality(later) = Cardinality(At(p, seq)) - 1
      BY <1>t, <2>1, FS_RemoveElement
    <2>3. Cardinality(At(p, seq)) \in Nat
      BY <1>t, FS_CardinalityType
    <2> QED
      BY <1>1, <1>t, <1>3, <1>4, <2>2, <2>3
  <1>5. CASE Head(seq) # p
    <2>1. later = At(p, seq)
      BY <1>1, <1>5 DEF At
    <2>2. Times(p, seq) = Times(p, Tail(seq))
      BY <1>t, <1>3, <2>1
    <2> QED
      BY <1>1, <1>t, <1>5, <2>2
  <1> QED
    BY <1>4, <1>5

\* A sequence in which nobody occurs twice, of members of a finite set, is no
\* longer than the set is large.
LEMMA ShortSeq ==
    ASSUME NEW seq \in Seq(Progs), NEW S \in SUBSET Progs,
           \A p \in Progs : Times(p, seq) <= (IF p \in S THEN 1 ELSE 0)
    PROVE  Len(seq) <= Cardinality(S)
  <1>1. Len(seq) \in Nat /\ DOMAIN seq = 1..Len(seq) /\ seq \in [1..Len(seq) -> Progs]
    BY LenProperties
  <1>2. ASSUME NEW i \in 1..Len(seq) PROVE seq[i] \in S
    <2>1. seq[i] \in Progs /\ i \in At(seq[i], seq)
      BY <1>1 DEF At
    <2>2. /\ IsFiniteSet(At(seq[i], seq)) /\ Times(seq[i], seq) = Cardinality(At(seq[i], seq))
      BY <2>1, TimesAt
    <2>3. Times(seq[i], seq) # 0
      BY <2>1, <2>2, FS_EmptySet
    <2>4. Times(seq[i], seq) \in Nat
      BY <2>1, TimesAt
    <2> QED
      BY <2>1, <2>3, <2>4
  <1>3. ASSUME NEW i \in 1..Len(seq), NEW j \in 1..Len(seq), seq[i] = seq[j]
        PROVE  i = j
    <2>1. i \in At(seq[i], seq) /\ j \in At(seq[i], seq) /\ seq[i] \in Progs
      BY <1>1, <1>3 DEF At
    <2>2. /\ IsFiniteSet(At(seq[i], seq)) /\ Cardinality(At(seq[i], seq)) <= 1
          /\ Cardinality(At(seq[i], seq)) \in Nat
      BY <1>2, <2>1, TimesAt
    <2>3. SUFFICES ASSUME i # j PROVE FALSE
      OBVIOUS
    <2>4. {i} \cup {j} \in SUBSET At(seq[i], seq)
      BY <2>1
    <2>5. Cardinality({i} \cup {j}) <= Cardinality(At(seq[i], seq))
      BY <2>2, <2>4, FS_Subset
    <2>6. IsFiniteSet({i}) /\ Cardinality({i}) = 1 /\ j \notin {i}
      BY <2>3, FS_Singleton
    <2>7. Cardinality({i} \cup {j}) = Cardinality({i}) + 1
      BY <2>6, FS_AddElement
    <2> QED
      BY <2>2, <2>5, <2>6, <2>7
  <1>4. seq \in Injection(1..Len(seq), S)
    <2>1. seq \in [1..Len(seq) -> S]
      BY <1>1, <1>2
    <2> QED
      BY <1>3, <2>1, Fun_IsInj
  <1>5. IsFiniteSet(S)
    BY StartupAssumption, FS_Subset
  <1>6. Cardinality(1..Len(seq)) <= Cardinality(S)
    BY <1>4, <1>5, FS_Injection
  <1>7. Cardinality(1..Len(seq)) = Len(seq)
    BY <1>1, FS_Interval
  <1> QED
    BY <1>6, <1>7

-----------------------------------------------------------------------------
(* Types.                                                                   *)

\* A lone "comment" or "malformed" is not a program.
LEMMA LinesRead ==
    ASSUME TypeOK
    PROVE  /\ Len(config.lines) \in Nat /\ DOMAIN config.lines = 1..Len(config.lines)
           /\ line \in 0..Len(config.lines) /\ waiting_nr \in Nat
           /\ \A i, j \in 1..Len(config.lines) :
                config.lines[i] = config.lines[j] /\ config.lines[i] \in Progs => i = j
  <1>1. config.lines \in Seq(Progs \cup {"comment", "malformed"})
    BY StartupAssumption DEF TypeOK
  <1>2. Len(config.lines) \in Nat /\ DOMAIN config.lines = 1..Len(config.lines)
    BY <1>1, LenProperties
  <1> QED
    BY <1>2, StartupAssumption DEF TypeOK

\* Whose handle is answered waits, unless it has ended, and no other answer is
\* under way.
LEMMA AnsweredOnce ==
    ASSUME TypeOK, RequestInv, Len(prog_fds) > 0, ~Ended(Last(prog_fds))
    PROVE  \E p \in Progs : /\ p = Last(prog_fds)
                             /\ app[p] = "wait" /\ answers[p] = 0
  <1>1. prog_fds \in Seq(Progs) /\ pipe \in Seq(Progs)
    BY DEF TypeOK
  <1>2. PICK p \in Progs : p = Last(prog_fds)
    BY <1>1, TimesFront
  <1>3. Times(p, prog_fds) = Times(p, Front(prog_fds)) + 1 /\ Front(prog_fds) \in Seq(Progs)
    BY <1>1, <1>2, TimesFront
  <1>4. Times(p, Front(prog_fds)) \in Nat /\ Times(p, pipe) \in Nat
    BY <1>1, <1>3, TimesAt
  <1>5. answers[p] \in Nat
    <2>1. answers \in [Progs -> 0..1]
      BY DEF TypeOK
    <2> QED
      BY <2>1
  <1>6. Requests(p) \in IF app[p] = "wait" THEN {1} ELSE {0}
    BY <1>2 DEF RequestInv, Owed
  <1>7. Requests(p) >= 1 + answers[p]
    <2>1. PICK a, b, c \in Nat : /\ a = Times(p, Front(prog_fds)) /\ b = Times(p, pipe)
                                 /\ c = answers[p]
      BY <1>4, <1>5
    <2>2. Requests(p) = b + (a + 1) + c
      BY <1>3, <2>1 DEF Requests
    <2> QED
      BY <2>1, <2>2
  <1>8. app[p] = "wait" /\ answers[p] = 0
    BY <1>5, <1>6, <1>7
  <1> QED
    BY <1>2, <1>8

\* What a quantum that expires changes, whatever the policy.
LEMMA AnyTick ==
    ASSUME NEW new, NEW dead, GangTick(new, dead) \/ LinuxTick(new, dead)
    PROVE  Quantum(new, dead)
  BY DEF GangTick, LinuxTick

\* Every step keeps the types.
LEMMA TypeNext ==
    ASSUME TypeOK, RequestInv, [Next]_vars
    PROVE  TypeOK'
  <1> USE DEF files, exec, notes
  <1>1. ASSUME NEW p \in Progs, NEW f, NEW to \in AppValues, AppStep(p, f, to),
               cgroup' \in [Progs -> {"absent", "thawed", "freezing", "frozen"}],
               app_pid' \subseteq Progs, pipe' \in Seq(Progs), prog_fds' \in Seq(Progs),
               answers' \in [Progs -> 0..1]
        PROVE  TypeOK'
    BY <1>1 DEF AppStep, TypeOK
  <1>2. ASSUME NEW p \in Progs, Exec(p) \/ SetPid(p) \/ JoinGroup(p) \/ FreezeSelf(p)
               \/ Enter(p) \/ Exit(p) \/ Die(p) \/ Fail(p)
        PROVE  TypeOK'
    BY <1>1, <1>2 DEF Exec, SetPid, JoinGroup, FreezeSelf, Enter, Exit, Die, Fail, TypeOK,
                      AppValues
  <1>3. ASSUME NEW p \in Progs, Notify(p) PROVE TypeOK'
    <2>1. pipe' \in Seq(Progs)
      BY <1>3, AppendProperties DEF Notify, TypeOK
    <2> QED
      BY <1>1, <1>3, <2>1 DEF Notify, TypeOK, AppValues
  <1>4. ASSUME NEW p \in Progs, Answered(p) PROVE TypeOK'
    <2>1. answers' \in [Progs -> 0..1]
      BY <1>4 DEF Answered, TypeOK
    <2> QED
      BY <1>1, <1>4, <2>1 DEF Answered, TypeOK, AppValues
  <1>5. ASSUME NEW p \in Progs, Frozen(p) PROVE TypeOK'
    BY <1>5 DEF Frozen, TypeOK
  <1>6. ASSUME NEW p \in Progs, StartNext(p) PROVE TypeOK'
    <2>1. /\ line' \in 0..Len(config.lines) /\ waiting_nr' \in 0..line'
          /\ IdOffset + waiting_nr \in Nat
      BY <1>6, LinesRead DEF StartNext, ReadLine, TypeOK, IdOffset
    <2> QED
      BY <1>6, <2>1 DEF StartNext, ReadLine, Fork, TypeOK, PcValues, AppValues
  <1>7. CASE Comment \/ Malformed
    <2>1. line' \in 0..Len(config.lines) /\ waiting_nr' \in 0..line'
      BY <1>7, LinesRead DEF Comment, Malformed, ReadLine, TypeOK
    <2> QED
      BY <1>7, <2>1 DEF Comment, Malformed, ReadLine, TypeOK, PcValues
  <1>8. CASE Started \/ AllStarted \/ SelectTimeout \/ ReadEnd
    BY <1>8 DEF Started, AllStarted, SelectTimeout, ReadEnd, TypeOK, PcValues
  <1>9. CASE SelectPipe
    BY <1>9, EmptySeq DEF SelectPipe, TypeOK, PcValues
  <1>10. CASE ReadHandle
    <2>1. pipe' \in Seq(Progs) /\ prog_fds' \in Seq(Progs)
      BY <1>10, HeadTailProperties, AppendProperties DEF ReadHandle, TypeOK
    <2> QED
      BY <1>10, <2>1 DEF ReadHandle, TypeOK, PcValues
  <1>11. CASE Reply
    <2>1. CASE Len(prog_fds) > 0 /\ ~Ended(Last(prog_fds))
      <3>a. PICK p \in Progs : p = Last(prog_fds) /\ answers[p] = 0
        BY <2>1, AnsweredOnce
      <3>b. answers' = [answers EXCEPT ![p] = answers[p] + 1]
        BY <1>11, <2>1, <3>a DEF Reply, ToAnswer
      <3>1. answers' \in [Progs -> 0..1]
        BY <3>a, <3>b DEF TypeOK
      <3>2. prog_fds' \in Seq(Progs)
        BY <1>11, <2>1, TimesFront DEF Reply, ToAnswer, Rest, TypeOK
      <3> QED
        BY <1>11, <2>1, <3>1, <3>2 DEF Reply, ToAnswer, TypeOK
    <2>2. CASE Len(prog_fds) > 0 /\ Ended(Last(prog_fds))
      <3>1. prog_fds' \in Seq(Progs)
        BY <1>11, <2>2, TimesFront DEF Reply, ToAnswer, Rest, TypeOK
      <3> QED
        BY <1>11, <2>2, <3>1 DEF Reply, ToAnswer, TypeOK, PcValues
    <2>3. CASE ~(Len(prog_fds) > 0)
      BY <1>11, <2>3, EmptySeq DEF Reply, ToAnswer, TypeOK, PcValues
    <2> QED
      BY <2>1, <2>2, <2>3
  <1>12. ASSUME NEW new \in SUBSET Present, NEW dead \in SUBSET MayReach,
                GangTick(new, dead) \/ LinuxTick(new, dead)
         PROVE  TypeOK'
    <2>1. new \subseteq Progs /\ dead \subseteq MayKill
      BY DEF Present, MayReach
    <2> QED
      BY <1>12, <2>1, AnyTick DEF Quantum, Switch, Kill, TypeOK, PcValues
  <1>13. ASSUME NEW p \in Progs, Reap(p) PROVE TypeOK'
    <2>1. id' \in [Progs -> Nat]
      <3>1. id \in [Progs -> Nat] /\ waiting_nr \in Nat
        BY DEF TypeOK
      <3>2. RespawnId(p) \in Nat
        BY <3>1 DEF RespawnId
      <3>3. id' = id \/ id' = [id EXCEPT ![p] = RespawnId(p)]
        BY <1>13 DEF Reap
      <3> QED
        BY <3>1, <3>2, <3>3
    <2>2. app' \in [Progs -> AppValues] /\ pc' \in PcValues /\ back' \in PcValues
          /\ cur' \in Progs
      BY <1>13 DEF Reap, Fork, TypeOK, AppValues, PcValues
    <2>3. respawned' \in 0..Respawns
      BY <1>13, StartupAssumption DEF Reap, Fork, TypeOK
    <2>5. old' \in Nat /\ killed' \subseteq MayKill
      BY <1>13 DEF Reap, Fork, TypeOK
    <2>4. answers' \in [Progs -> 0..1]
          /\ cgroup' \in [Progs -> {"absent", "thawed", "freezing", "frozen"}]
      BY <1>13 DEF Reap, TypeOK
    <2> QED
      BY <1>13, <2>1, <2>2, <2>3, <2>4, <2>5 DEF Reap, TypeOK
  <1>14. CASE UNCHANGED vars
    BY <1>14 DEF vars, TypeOK
  <1> QED
    BY <1>2, <1>3, <1>4, <1>5, <1>6, <1>7, <1>8, <1>9, <1>10, <1>11, <1>12, <1>13, <1>14
       DEF Next, Executor, Begins, Works, Poll, Exited

-----------------------------------------------------------------------------
(* The handshake.                                                           *)

\* A line of the file names a program that has not been started before.
LEMMA NextIsNew ==
    ASSUME TypeOK, IdInv, NEW p \in Progs, StartNext(p)
    PROVE  app[p] = "none" /\ p \notin ReadProgs
  <1>1. config.lines[line + 1] = p /\ line + 1 \in 1..Len(config.lines)
    BY LinesRead DEF StartNext, ReadLine
  <1>2. ASSUME NEW i \in 1..line, config.lines[i] = p PROVE FALSE
    <2>1. i \in 1..Len(config.lines) /\ i # line + 1
      BY <1>2, LinesRead
    <2> QED
      BY <1>1, <1>2, <2>1, LinesRead
  <1> QED
    BY <1>2 DEF IdInv, ReadProgs

\* The steps of a process: it makes its cgroup and freezes itself while the
\* executor waits for it, and it goes on only when thawed as one of the gang.
LEMMA HandProgram ==
    ASSUME TypeOK, HandInv, NEW p \in Progs, Begins(p) \/ Fail(p) \/ Works(p)
    PROVE  HandInv'
  <1> USE DEF files, exec, notes, AppStep, HandInv, TypeOK, Starting, Loading
  <1>1. CASE Exec(p)
    BY <1>1 DEF Exec
  <1>2. CASE SetPid(p)
    BY <1>2 DEF SetPid
  <1>3. CASE JoinGroup(p)
    BY <1>3 DEF JoinGroup
  <1>4. CASE FreezeSelf(p)
    BY <1>4 DEF FreezeSelf
  <1>5. CASE Frozen(p)
    BY <1>5 DEF Frozen
  <1>6. CASE Fail(p)
    BY <1>6 DEF Fail
  <1>7. CASE Enter(p)
    BY <1>7 DEF Enter
  <1>8. CASE Notify(p)
    BY <1>8 DEF Notify, Runs
  <1>9. CASE Answered(p)
    BY <1>9 DEF Answered, Runs
  <1>10. CASE Exit(p)
    BY <1>10 DEF Exit, Runs
  <1>11. CASE Die(p)
    <2>1. app[p] \in {"entry", "main", "wait"} /\ ~Starting(p)
      BY <1>11 DEF Die
    <2> QED
      BY <1>11, <2>1 DEF Die, Runs
  <1> QED
    BY <1>1, <1>2, <1>3, <1>4, <1>5, <1>6, <1>7, <1>8, <1>9, <1>10, <1>11 DEF Begins, Works

\* The steps of the executor: it starts one program at a time, and thaws only
\* programs that it has seen frozen.
LEMMA HandExecutor ==
    ASSUME TypeOK, HandInv, IdInv, Executor
    PROVE  HandInv'
  <1> USE DEF files, exec, notes, HandInv, TypeOK, Starting, Loading
  <1>1. CASE Comment \/ Malformed
    BY <1>1 DEF Comment, Malformed, ReadLine
  <1>2. CASE Started
    BY <1>2 DEF Started, IsFrozen
  <1>3. CASE AllStarted
    BY <1>3 DEF AllStarted
  <1>4. CASE SelectPipe \/ SelectTimeout \/ ReadHandle \/ ReadEnd \/ Reply
    BY <1>4 DEF SelectPipe, SelectTimeout, ReadHandle, ReadEnd, Reply
  <1>5. ASSUME NEW new \in SUBSET Present, NEW dead \in SUBSET MayReach,
               GangTick(new, dead) \/ LinuxTick(new, dead)
        PROVE  HandInv'
    BY <1>5, AnyTick DEF Quantum, Switch, Present
  <1>6. ASSUME NEW p \in Progs, StartNext(p) PROVE HandInv'
    BY <1>6, NextIsNew DEF StartNext, ReadLine, Fork
  <1>7. ASSUME NEW p \in Progs, Reap(p) PROVE HandInv'
    BY <1>7 DEF Reap, Fork
  <1> QED
    BY <1>1, <1>2, <1>3, <1>4, <1>5, <1>6, <1>7 DEF Executor

\* A step that changes nothing.
LEMMA HandNext ==
    ASSUME TypeOK, HandInv, IdInv, [Next]_vars
    PROVE  HandInv'
  <1>1. CASE UNCHANGED vars
    BY <1>1 DEF vars, files, exec, notes, HandInv, Starting, Loading
  <1> QED
    BY <1>1, HandProgram, HandExecutor DEF Next, Poll, Exited

-----------------------------------------------------------------------------
(* The ids.                                                                 *)

\* A step that starts no program keeps IdInv, if it does not go back to the
\* reading of the file, and leaves it only at its end.
LEMMA IdSame ==
    ASSUME TypeOK, IdInv, UNCHANGED <<config, line, waiting_nr, id, respawned>>,
           \A p \in Progs : app'[p] # "none" <=> app[p] # "none",
           Loading' => Loading, ~Loading' => line = Len(config.lines)
    PROVE  IdInv'
  <1>1. ReadProgs' = ReadProgs /\ \A p \in Progs : Slot(p)' = Slot(p)
    BY DEF ReadProgs, Slot
  <1>2. {p \in Progs : app[p] # "none"}' = {p \in Progs : app[p] # "none"}
    OBVIOUS
  <1>3. ReadProgs \subseteq Progs /\ id' = id /\ waiting_nr' = waiting_nr
    BY DEF ReadProgs
  <1>4. ASSUME NEW p \in ReadProgs
        PROVE  \E k \in 0..respawned' :
                 id'[p] = (IdOffset + Slot(p)') + k * waiting_nr' /\ (Loading' => k = 0)
    <2>1. PICK k \in 0..respawned : 
            id[p] = (IdOffset + Slot(p)) + k * waiting_nr /\ (Loading => k = 0)
      BY DEF IdInv
    <2>2. id'[p] = (IdOffset + Slot(p)') + k * waiting_nr' /\ (Loading' => k = 0)
      BY <1>1, <1>3, <2>1
    <2>3. k \in 0..respawned'
      BY <2>1
    <2> QED
      BY <2>2, <2>3
  <1> QED
    BY <1>1, <1>2, <1>4 DEF IdInv

\* The slot of the program on the next line is the number of programs so far.
LEMMA IdStartNext ==
    ASSUME TypeOK, IdInv, NEW p \in Progs, StartNext(p)
    PROVE  IdInv'
  <1> USE DEF StartNext, ReadLine, Fork
  <1>1. app[p] = "none" /\ p \notin ReadProgs
    BY NextIsNew
  <1>2. config.lines[line + 1] = p /\ line + 1 \in 1..Len(config.lines) /\ line \in Nat
    BY LinesRead
  <1>3. ReadProgs' = ReadProgs \cup {p}
    <2>1. 1..line' = (1..line) \cup {line + 1}
      BY <1>2
    <2> QED
      BY <1>2, <2>1 DEF ReadProgs
  <1>4. Slot(p) = Cardinality(ReadProgs)
    <2>1. ASSUME NEW q \in Progs
          PROVE  (\E i, j \in DOMAIN config.lines :
                    i < j /\ config.lines[i] = q /\ config.lines[j] = p)
                 <=> (\E i \in 1..line : config.lines[i] = q)
      <3>1. ASSUME NEW i \in DOMAIN config.lines, NEW j \in DOMAIN config.lines,
                   i < j, config.lines[i] = q, config.lines[j] = p
            PROVE  \E n \in 1..line : config.lines[n] = q
        <4>1. j = line + 1 /\ i \in 1..Len(config.lines)
          BY <1>2, <3>1, LinesRead
        <4>2. i \in 1..line
          BY <1>2, <3>1, <4>1
        <4> QED
          BY <3>1, <4>2
      <3>2. ASSUME NEW i \in 1..line, config.lines[i] = q
            PROVE  \E n, j \in DOMAIN config.lines :
                     n < j /\ config.lines[n] = q /\ config.lines[j] = p
        <4>1. i \in DOMAIN config.lines /\ line + 1 \in DOMAIN config.lines /\ i < line + 1
          BY <1>2, LinesRead
        <4> QED
          BY <1>2, <3>2, <4>1
      <3> QED
        BY <3>1, <3>2
    <2>2. {q \in Progs : \E i, j \in DOMAIN config.lines :
             i < j /\ config.lines[i] = q /\ config.lines[j] = p} = ReadProgs
      BY <2>1 DEF ReadProgs
    <2> QED
      BY <2>2 DEF Slot
  <1>5. waiting_nr = Cardinality(ReadProgs) /\ waiting_nr \in Nat
    BY LinesRead DEF IdInv
  <1>6. Cardinality(ReadProgs') = Cardinality(ReadProgs) + 1
    <2>1. IsFiniteSet(ReadProgs)
      BY StartupAssumption, FS_Subset DEF ReadProgs
    <2> QED
      BY <1>1, <1>3, <2>1, FS_AddElement
  <1>7. {q \in Progs : app[q] # "none"}' = {q \in Progs : app[q] # "none"} \cup {p}
    BY DEF TypeOK
  <1>8. Loading /\ Loading'
    BY DEF Loading
  <1>9. \A q \in Progs : Slot(q)' = Slot(q)
    BY DEF Slot
  <1>10. respawned \in Nat /\ respawned' = respawned
    BY StartupAssumption DEF TypeOK
  <1>11. ASSUME NEW q \in ReadProgs'
         PROVE  id'[q] = (IdOffset + Slot(q)') + 0 * waiting_nr'
    <2>1. q \in Progs
      BY DEF ReadProgs
    <2>2. CASE q = p
      <3>1. id'[q] = IdOffset + waiting_nr
        BY <2>1, <2>2 DEF TypeOK
      <3>2. Slot(q)' = waiting_nr
        BY <1>4, <1>5, <1>9, <2>2
      <3>3. 0 * waiting_nr' = 0
        BY <1>5
      <3> QED
        BY <1>5, <3>1, <3>2, <3>3 DEF IdOffset
    <2>3. CASE q # p
      <3>1. q \in ReadProgs
        BY <1>3, <2>3
      <3>2. PICK k \in 0..respawned : 
            id[q] = (IdOffset + Slot(q)) + k * waiting_nr /\ (Loading => k = 0)
        BY <3>1 DEF IdInv
      <3>3. id[q] = (IdOffset + Slot(q)) + 0 * waiting_nr
        BY <1>8, <3>2
      <3>4. 0 * waiting_nr = 0 * waiting_nr'
        BY <1>5
      <3>5. id'[q] = id[q]
        BY <2>1, <2>3 DEF TypeOK
      <3> QED
        BY <1>9, <2>1, <3>3, <3>4, <3>5
    <2> QED
      BY <2>2, <2>3
  <1>12. 0 \in 0..respawned'
    BY <1>10
  <1>13. waiting_nr' = Cardinality(ReadProgs')
    BY <1>5, <1>6
  <1> QED
    BY <1>3, <1>7, <1>8, <1>11, <1>12, <1>13 DEF IdInv

\* One instance more moves the id on by the number of slots.
LEMMA NextInstance ==
    ASSUME NEW b \in Nat, NEW k \in Nat, NEW w \in Nat
    PROVE  (b + k * w) + w = b + (k + 1) * w
  OBVIOUS

\* The programs of the file that stand before a program are among those read.
LEMMA SlotNat ==
    ASSUME TypeOK, NEW p \in Progs
    PROVE  Slot(p) \in Nat
  <1> DEFINE before == {q \in Progs : \E i, j \in DOMAIN config.lines :
                          i < j /\ config.lines[i] = q /\ config.lines[j] = p}
  <1>1. IsFiniteSet(before)
    BY StartupAssumption, FS_Subset
  <1>2. Cardinality(before) \in Nat
    BY <1>1, FS_CardinalityType
  <1> QED
    BY <1>2 DEF Slot

\* A program that is started again keeps its slot.
LEMMA IdReap ==
    ASSUME TypeOK, IdInv, NEW r \in Progs, Reap(r)
    PROVE  IdInv'
  <1> USE DEF Reap, files, exec
  <1>1. ~Loading /\ ~Loading' /\ line = Len(config.lines)
    BY DEF Loading, Fork, IdInv
  <1>2. CASE UNCHANGED <<exec, id, respawned>> /\ app' = [app EXCEPT ![r] = "gone"]
    <2>1. \A p \in Progs : app'[p] # "none" <=> app[p] # "none"
      BY <1>2 DEF TypeOK
    <2> QED
      BY <1>1, <1>2, <2>1, IdSame
  <1>3. CASE /\ app' = [app EXCEPT ![r] = "shell"] /\ respawned' = respawned + 1
             /\ id' = [id EXCEPT ![r] = RespawnId(r)]
    <2>1. {p \in Progs : app[p] # "none"}' = {p \in Progs : app[p] # "none"}
      BY <1>3 DEF TypeOK
    <2>2. ReadProgs' = ReadProgs /\ \A p \in Progs : Slot(p)' = Slot(p)
      BY DEF ReadProgs, Slot
    <2>3. respawned \in Nat /\ waiting_nr \in Nat
      BY StartupAssumption, LinesRead DEF TypeOK
    <2>4. ASSUME NEW p \in ReadProgs
          PROVE  \E k \in 0..respawned' : id'[p] = (IdOffset + Slot(p)) + k * waiting_nr
      <3>1. p \in Progs
        BY DEF ReadProgs
      <3>2. PICK k \in 0..respawned : id[p] = (IdOffset + Slot(p)) + k * waiting_nr
        BY DEF IdInv
      <3>3. k \in 0..respawned' /\ k + 1 \in 0..respawned' /\ k \in Nat
        BY <1>3, <2>3, <3>2
      <3>4. CASE p = r
        <4>1. id'[p] = id[p] + waiting_nr
          BY <1>3, <3>1, <3>4 DEF RespawnId, TypeOK
        <4>2. IdOffset + Slot(p) \in Nat
          BY <3>1, SlotNat DEF IdOffset
        <4>3. id'[p] = (IdOffset + Slot(p)) + (k + 1) * waiting_nr
          BY <2>3, <3>2, <3>3, <4>1, <4>2, NextInstance
        <4> QED
          BY <3>3, <4>3
      <3>5. CASE p # r
        <4>1. id'[p] = id[p]
          BY <1>3, <3>1, <3>5 DEF TypeOK
        <4> QED
          BY <3>2, <3>3, <4>1
      <3> QED
        BY <3>4, <3>5
    <2>5. ReadProgs \subseteq Progs
      BY DEF ReadProgs
    <2> QED
      BY <1>1, <2>1, <2>2, <2>4, <2>5 DEF IdInv
  <1> QED
    BY <1>2, <1>3 DEF Fork

\* Every step keeps IdInv.
LEMMA IdNext ==
    ASSUME TypeOK, HandInv, IdInv, [Next]_vars
    PROVE  IdInv'
  <1> USE DEF files, exec, notes
  <1>1. ASSUME NEW p \in Progs, Begins(p) \/ Fail(p) \/ Works(p) PROVE IdInv'
    <2>1. /\ UNCHANGED <<config, line, waiting_nr, id, respawned>> /\ Loading' = Loading
          /\ \A q \in Progs : app'[q] # "none" <=> app[q] # "none"
      BY <1>1 DEF Begins, Works, Exec, SetPid, JoinGroup, FreezeSelf, Frozen, Fail, Enter,
                  Notify, Answered, Exit, Die, AppStep, Loading, TypeOK
    <2> QED
      BY <2>1, IdSame DEF IdInv
  <1>2. CASE Comment \/ Malformed
    <2>1. /\ ReadProgs' = ReadProgs /\ UNCHANGED <<config, waiting_nr, id, app, respawned>>
          /\ Loading /\ Loading'
      <3>1. config.lines[line + 1] \notin Progs /\ line \in Nat /\ line' = line + 1
        BY <1>2, StartupAssumption, LinesRead DEF Comment, Malformed, ReadLine
      <3>2. 1..line' = (1..line) \cup {line + 1}
        BY <3>1
      <3> QED
        BY <1>2, <3>1, <3>2 DEF Comment, Malformed, ReadLine, ReadProgs, Loading
    <2>2. \A p \in Progs : Slot(p)' = Slot(p)
      BY <2>1 DEF Slot
    <2>3. ReadProgs \subseteq Progs
      BY DEF ReadProgs
    <2> QED
      BY <2>1, <2>2, <2>3 DEF IdInv
  <1>3. CASE \/ Started \/ AllStarted \/ SelectPipe \/ SelectTimeout \/ ReadHandle
             \/ ReadEnd \/ Reply \/ UNCHANGED vars
             \/ \E new \in SUBSET Present, dead \in SUBSET MayReach :
                  GangTick(new, dead) \/ LinuxTick(new, dead)
    <2>1. /\ UNCHANGED <<config, line, waiting_nr, id, respawned>> /\ UNCHANGED app
          /\ (Loading' => Loading) /\ (~Loading' => line = Len(config.lines))
      BY <1>3 DEF Started, AllStarted, SelectPipe, SelectTimeout, ReadHandle,
                  ReadEnd, Reply, vars, GangTick, LinuxTick, Quantum, Loading, IdInv, HandInv
    <2>2. \A q \in Progs : app'[q] # "none" <=> app[q] # "none"
      BY <2>1
    <2> QED
      BY <2>1, <2>2, IdSame
  <1> QED
    BY <1>1, <1>2, <1>3, IdStartNext, IdReap DEF Next, Executor, Poll, Exited

\* A predecessor stays the one of the program that is started.
LEMMA OldSame ==
    ASSUME OldInv, UNCHANGED <<config, line, waiting_nr, id, exec, old, respawned>>
    PROVE  OldInv'
  <1>1. ReadProgs' = ReadProgs /\ \A p : Slot(p)' = Slot(p)
    BY DEF ReadProgs, Slot
  <1> QED
    BY <1>1 DEF OldInv, exec, Loading

\* Every step keeps OldInv: a successor's id is waiting_nr greater.
LEMMA OldNext ==
    ASSUME TypeOK, HandInv, IdInv, OldInv, [Next]_vars
    PROVE  OldInv'
  <1> USE DEF files, notes
  <1>1. CASE \E p \in Progs : Begins(p) \/ Fail(p) \/ Works(p)
    BY <1>1, OldSame DEF Begins, Works, Exec, SetPid, JoinGroup, FreezeSelf, Frozen, Fail,
                         Enter, Notify, Answered, Exit, Die, AppStep
  <1>2. CASE UNCHANGED vars
    BY <1>2, OldSame DEF vars
  <1>3. CASE Started
    BY <1>3 DEF Started, OldInv
  <1>4. CASE \/ Comment \/ Malformed \/ AllStarted \/ SelectPipe \/ SelectTimeout
             \/ ReadHandle \/ ReadEnd \/ Reply \/ (\E p \in Progs : StartNext(p))
             \/ \E new \in SUBSET Present, dead \in SUBSET MayReach :
                  GangTick(new, dead) \/ LinuxTick(new, dead)
    <2>1. pc # "poll" /\ old' = old
      BY <1>4 DEF Comment, Malformed, AllStarted, SelectPipe, SelectTimeout, ReadHandle, ReadEnd,
                  Reply, StartNext, ReadLine, GangTick, LinuxTick, Quantum
    <2> QED
      BY <2>1 DEF OldInv
  <1>5. ASSUME NEW p \in Progs, Reap(p) PROVE OldInv'
    <2> USE <1>5 DEF Reap
    <2>1. pc # "poll" /\ old = 0
      BY DEF OldInv
    <2>2. CASE old' = old
      BY <2>1, <2>2 DEF OldInv
    <2>3. CASE /\ Fork(p, pc) /\ respawned' = respawned + 1
               /\ id' = [id EXCEPT ![p] = RespawnId(p)] /\ old' = id[p]
      <3>1. p \in ReadProgs /\ ReadProgs' = ReadProgs /\ Slot(p)' = Slot(p)
        BY DEF IdInv, ReadProgs, Slot
      <3>2. PICK k \in 0..respawned : id[p] = (IdOffset + Slot(p)) + k * waiting_nr
        BY <3>1 DEF IdInv
      <3>3. k \in 0..respawned'
        BY <2>3, StartupAssumption DEF TypeOK
      <3>4. id'[p] = id[p] + waiting_nr
        BY <2>3 DEF RespawnId, TypeOK
      <3>5. pc' = "poll" /\ cur' = p /\ ~Loading'
        BY <2>3 DEF Fork, Loading
      <3> QED
        BY <2>3, <3>1, <3>2, <3>3, <3>4, <3>5 DEF OldInv
    <2> QED
      BY <2>2, <2>3
  <1> QED
    BY <1>1, <1>2, <1>3, <1>4, <1>5 DEF Next, Executor, Poll, Exited

-----------------------------------------------------------------------------
(* The requests.                                                            *)

\* Where handles are answered: the first part of RequestInv.
Answering == prog_fds # <<>> =>
               pc \in {"read", "reply", "lost"} \/ (pc = "poll" /\ back \in {"read", "reply"})

\* The terms of Requests are numbers.
LEMMA RequestTypes ==
    ASSUME TypeOK, NEW p \in Progs
    PROVE  /\ Times(p, pipe) \in Nat /\ Times(p, prog_fds) \in Nat /\ answers[p] \in Nat
           /\ pipe \in Seq(Progs) /\ prog_fds \in Seq(Progs)
  <1>1. pipe \in Seq(Progs) /\ prog_fds \in Seq(Progs)
    BY DEF TypeOK
  <1>2. answers[p] \in 0..1
    BY DEF TypeOK
  <1>3. \A n \in 0..1 : n \in Nat
    OBVIOUS
  <1> QED
    BY <1>1, <1>2, <1>3, TimesAt

\* A step that touches no pipe keeps RequestInv if it asks no more of anybody.
LEMMA RequestSame ==
    ASSUME RequestInv, UNCHANGED notes, Answering',
           \A p \in Progs : Owed(p) \subseteq Owed(p)'
    PROVE  RequestInv'
  BY DEF RequestInv, Requests, Answering, notes

\* A program asks: its handle is appended to the pipe.
LEMMA RequestNotify ==
    ASSUME TypeOK, RequestInv, NEW p \in Progs, Notify(p)
    PROVE  RequestInv'
  <1> USE DEF Notify, AppStep, exec
  <1>1. ASSUME NEW q \in Progs
        PROVE  Requests(q)' \in Owed(q)'
    <2>1. Times(q, pipe') = Times(q, pipe) + (IF p = q THEN 1 ELSE 0)
      BY RequestTypes, TimesAppend
    <2>a. Requests(q)' = Times(q, pipe') + Times(q, prog_fds) + answers[q]
      BY DEF Requests
    <2>2. Requests(q)' = Requests(q) + (IF p = q THEN 1 ELSE 0)
      <3>1. Requests(q) = Times(q, pipe) + Times(q, prog_fds) + answers[q]
        BY DEF Requests
      <3>2. Times(q, pipe) \in Nat /\ Times(q, prog_fds) \in Nat /\ answers[q] \in Nat
        BY RequestTypes
      <3> QED
        BY <2>1, <2>a, <3>1, <3>2
    <2>3. Requests(q) \in Owed(q)
      BY DEF RequestInv
    <2> QED
      BY <2>2, <2>3 DEF TypeOK, Owed, Ended
  <1> QED
    BY <1>1 DEF RequestInv

\* It reads its answer.
LEMMA RequestTaken ==
    ASSUME TypeOK, RequestInv, NEW p \in Progs, Answered(p)
    PROVE  RequestInv'
  <1> USE DEF Answered, AppStep, exec
  <1>1. ASSUME NEW q \in Progs
        PROVE  Requests(q)' \in Owed(q)'
    <2>1. answers'[q] = answers[q] - (IF p = q THEN 1 ELSE 0)
      <3>1. answers \in [Progs -> 0..1] /\ answers[q] \in Int
        BY DEF TypeOK
      <3> QED
        BY <3>1
    <2>2. Requests(q)' = Requests(q) - (IF p = q THEN 1 ELSE 0)
      BY <2>1, RequestTypes DEF Requests
    <2>3. Requests(q) \in Owed(q)
      BY DEF RequestInv
    <2> QED
      BY <2>2, <2>3 DEF TypeOK, Owed, Ended
  <1> QED
    BY <1>1 DEF RequestInv

\* A handle that is read is in prog_fds instead of the pipe.
LEMMA HandleMoves ==
    ASSUME TypeOK, ReadHandle, NEW q \in Progs
    PROVE  Times(q, pipe') + Times(q, prog_fds') = Times(q, pipe) + Times(q, prog_fds)
  <1> USE DEF ReadHandle
  <1>1. /\ Head(pipe) \in Progs /\ Tail(pipe) \in Seq(Progs)
        /\ Times(q, pipe) = Times(q, pipe') + (IF Head(pipe) = q THEN 1 ELSE 0)
    BY RequestTypes, TimesTail
  <1>2. Times(q, pipe') \in Nat
    BY <1>1, TimesAt
  <1>3. Times(q, prog_fds') = Times(q, prog_fds) + (IF Head(pipe) = q THEN 1 ELSE 0)
    BY <1>1, RequestTypes, TimesAppend
  <1> QED
    BY <1>1, <1>2, <1>3, RequestTypes

\* The executor takes a handle from the pipe.
LEMMA RequestRead ==
    ASSUME TypeOK, RequestInv, ReadHandle
    PROVE  RequestInv'
  <1>1. ASSUME NEW q \in Progs PROVE Requests(q)' = Requests(q) /\ Owed(q)' = Owed(q)
    BY HandleMoves DEF Requests, ReadHandle, Owed, Ended
  <1> QED
    BY <1>1 DEF RequestInv, ReadHandle

\* A handle that is taken from prog_fds was there once more.
LEMMA HandleTaken ==
    ASSUME TypeOK, Reply, Len(prog_fds) > 0, NEW q \in Progs
    PROVE  /\ Times(q, prog_fds) = Times(q, prog_fds') + (IF Last(prog_fds) = q THEN 1 ELSE 0)
           /\ Times(q, prog_fds') \in Nat /\ Last(prog_fds) \in Progs
  <1> USE DEF Reply, ToAnswer, Rest
  <1>1. /\ Times(q, prog_fds) = Times(q, prog_fds') + (IF Last(prog_fds) = q THEN 1 ELSE 0)
        /\ Front(prog_fds) \in Seq(Progs) /\ Last(prog_fds) \in Progs
    BY RequestTypes, TimesFront
  <1>2. Times(q, prog_fds') \in Nat
    BY <1>1, TimesAt
  <1> QED
    BY <1>1, <1>2

\* The executor answers the last of them, or is lost at the handle of one that
\* has ended.
LEMMA RequestReply ==
    ASSUME TypeOK, RequestInv, Reply
    PROVE  RequestInv'
  <1> USE DEF Reply, ToAnswer, Rest, files
  <1>0. \A q \in Progs : Owed(q)' = Owed(q)
    BY DEF Owed, Ended
  <1>1. CASE Len(prog_fds) > 0 /\ ~Ended(Last(prog_fds))
    <2>1. ASSUME NEW q \in Progs PROVE Requests(q)' = Requests(q)
      <3>1. /\ Times(q, prog_fds) = Times(q, prog_fds') + (IF Last(prog_fds) = q THEN 1 ELSE 0)
            /\ Times(q, prog_fds') \in Nat
        BY <1>1, HandleTaken
      <3>2. PICK p \in Progs : p = Last(prog_fds)
        BY <1>1, RequestTypes, TimesFront
      <3>3. answers' = [answers EXCEPT ![p] = answers[p] + 1]
        BY <1>1, <3>2
      <3>a. answers \in [Progs -> 0..1] /\ answers[q] \in Int
        BY DEF TypeOK
      <3>5. answers'[q] = answers[q] + (IF p = q THEN 1 ELSE 0)
        BY <3>2, <3>3, <3>a
      <3>b. Times(q, pipe) \in Nat /\ answers[q] \in Nat
        BY RequestTypes
      <3>c. /\ Requests(q) = Times(q, pipe) + Times(q, prog_fds) + answers[q]
            /\ Requests(q)' = Times(q, pipe) + Times(q, prog_fds') + answers'[q]
        BY DEF Requests
      <3> QED
        BY <3>1, <3>2, <3>5, <3>b, <3>c
    <2> QED
      BY <1>0, <1>1, <2>1 DEF RequestInv
  <1>2. CASE Len(prog_fds) > 0 /\ Ended(Last(prog_fds))
    <2>1. ASSUME NEW q \in Progs PROVE Requests(q)' \in Owed(q)
      <3>1. /\ Times(q, prog_fds) = Times(q, prog_fds') + (IF Last(prog_fds) = q THEN 1 ELSE 0)
            /\ Times(q, prog_fds') \in Nat
        BY <1>2, HandleTaken
      <3>2. Times(q, pipe) \in Nat /\ answers[q] \in Nat
        BY RequestTypes
      <3>3. /\ Requests(q) = Times(q, pipe) + Times(q, prog_fds) + answers[q]
            /\ Requests(q)' = Times(q, pipe) + Times(q, prog_fds') + answers[q]
        BY <1>2 DEF Requests
      <3>4. Requests(q) \in Owed(q)
        BY DEF RequestInv
      <3>5. CASE Last(prog_fds) = q
          <4>1. (Owed(q) \subseteq {0, 1} /\ 0 \in Owed(q)) \/ Owed(q) = {0}
          BY <1>2, <3>5 DEF Owed, Ended
        <4> QED
          BY <3>1, <3>2, <3>3, <3>4, <3>5, <4>1
      <3>6. CASE Last(prog_fds) # q
        BY <3>1, <3>2, <3>3, <3>4, <3>6
      <3> QED
        BY <3>5, <3>6
    <2> QED
      BY <1>0, <1>2, <2>1 DEF RequestInv
  <1>3. CASE ~(Len(prog_fds) > 0)
    <2>1. prog_fds = <<>>
      BY <1>3, EmptySeq DEF TypeOK
    <2> QED
      BY <1>0, <1>3, <2>1, RequestSame DEF notes, Answering
  <1> QED
    BY <1>1, <1>2, <1>3

\* The answer of a program that is dead is closed with its pipe: only one that
\* was killed has any, and may leave its handle.
LEMMA RequestReap ==
    ASSUME TypeOK, HandInv, RequestInv, NEW p \in Progs, Reap(p)
    PROVE  RequestInv'
  <1> USE DEF Reap, exec
  <1>1. Answering'
    BY DEF RequestInv, Answering, Fork
  <1>2. CASE p \notin killed
    <2>1. answers[p] = 0
      <3>1. Times(p, pipe) + Times(p, prog_fds) + answers[p] = 0
        BY <1>2 DEF RequestInv, Requests, Owed
      <3> QED
        BY <3>1, RequestTypes
    <2>2. UNCHANGED notes
      BY <2>1 DEF notes, TypeOK
    <2>3. \A q \in Progs : Owed(q) \subseteq Owed(q)'
      BY <1>2 DEF Owed, Ended, Fork, TypeOK
    <2> QED
      BY <1>1, <2>2, <2>3, RequestSame
  <1>3. CASE p \in killed
    <2>1. app' = [app EXCEPT ![p] = "gone"]
      BY <1>3
    <2>2. ASSUME NEW q \in Progs PROVE Requests(q)' \in Owed(q)'
      <3>1. Owed(q)' = Owed(q)
        BY <2>1 DEF Owed, Ended, TypeOK
      <3>2. Requests(q) \in Owed(q)
        BY DEF RequestInv
      <3>3. CASE q = p
        <4>1. Owed(q) = {0, 1}
          BY <1>3, <3>3 DEF Owed, Ended
        <4>2. answers'[q] = 0
          BY <3>3 DEF TypeOK
        <4>3. /\ Requests(q) = Times(q, pipe) + Times(q, prog_fds) + answers[q]
              /\ Requests(q)' = Times(q, pipe) + Times(q, prog_fds) + 0
          BY <4>2 DEF Requests
        <4> QED
          BY <3>1, <3>2, <4>1, <4>3, RequestTypes
      <3>4. CASE q # p
        <4>1. answers'[q] = answers[q]
          BY <3>4 DEF TypeOK
        <4> QED
          BY <3>1, <3>2, <4>1 DEF Requests
      <3> QED
        BY <3>3, <3>4
    <2> QED
      BY <1>1, <2>2 DEF RequestInv, Answering
  <1> QED
    BY <1>2, <1>3

\* Every step keeps RequestInv.
LEMMA RequestNext ==
    ASSUME TypeOK, HandInv, IdInv, RequestInv, [Next]_vars
    PROVE  RequestInv'
  <1> USE DEF files, exec, notes
  <1>1. ASSUME NEW p \in Progs, Begins(p) \/ Fail(p) \/ Enter(p) \/ Exit(p) \/ Die(p)
        PROVE  RequestInv'
    <2>1. UNCHANGED notes /\ UNCHANGED <<pc, back>>
          /\ \A q \in Progs : Owed(q) \subseteq Owed(q)'
      BY <1>1 DEF Begins, Exec, SetPid, JoinGroup, FreezeSelf, Frozen, Fail, Enter,
                  Exit, Die, AppStep, TypeOK, Owed, Ended
    <2> QED
      BY <2>1, RequestSame DEF Answering, RequestInv
  <1>2. CASE \/ Comment \/ Malformed \/ Started \/ AllStarted \/ SelectPipe \/ SelectTimeout
             \/ ReadEnd \/ UNCHANGED vars
             \/ \E new \in SUBSET Present, dead \in SUBSET MayReach :
                  GangTick(new, dead) \/ LinuxTick(new, dead)
    <2>1. UNCHANGED notes
      BY <1>2 DEF Comment, Malformed, ReadLine, Started, AllStarted, SelectPipe, SelectTimeout,
                  ReadEnd, vars, GangTick, LinuxTick, Quantum, RequestInv
    <2>2. Answering'
      BY <1>2 DEF Comment, Malformed, ReadLine, Started, AllStarted, SelectPipe, SelectTimeout,
                  ReadEnd, vars, GangTick, LinuxTick, Quantum, RequestInv, HandInv, Answering
    <2>3. app' = app /\ killed \subseteq killed'
      BY <1>2 DEF Comment, Malformed, ReadLine, Started, AllStarted, SelectPipe, SelectTimeout,
                  ReadEnd, vars, GangTick, LinuxTick, Quantum, Kill
    <2>4. \A q \in Progs : Owed(q) \subseteq Owed(q)'
      BY <2>3 DEF Owed, Ended
    <2> QED
      BY <2>1, <2>2, <2>4, RequestSame
  <1>3. ASSUME NEW p \in Progs, StartNext(p) PROVE RequestInv'
    <2>1. app[p] = "none"
      BY <1>3, NextIsNew
    <2>2. UNCHANGED notes /\ \A q \in Progs : Owed(q) \subseteq Owed(q)'
      BY <1>3, <2>1 DEF StartNext, ReadLine, Fork, TypeOK, Owed, Ended
    <2>3. Answering'
      BY <1>3 DEF StartNext, ReadLine, Fork, RequestInv, HandInv, Answering
    <2> QED
      BY <2>2, <2>3, RequestSame
  <1> QED
    BY <1>1, <1>2, <1>3, RequestNotify, RequestTaken, RequestRead, RequestReply, RequestReap
       DEF Next, Executor, Works, Poll, Exited

-----------------------------------------------------------------------------
(* Who can have a request under way.                                        *)

\* A step that changes neither gang nor phase, in which only a member of the
\* gang may start to ask.
LEMMA WindowSame ==
    ASSUME WindowInv, UNCHANGED <<config, gang, killed>>, pc' = "pass" => pc = "pass",
           \A p \in Progs : Asks(p)' => Asks(p) \/ p \in gang
    PROVE  WindowInv'
  <1>1. ASSUME NEW last, AskedBy(last) PROVE AskedBy(last)'
    BY <1>1 DEF AskedBy
  <1>2. Prompt /\ Gangs =>
          \E last \in SUBSET Progs : Cardinality(last) <= GangSize /\ AskedBy(last)'
    BY <1>1 DEF WindowInv
  <1>3. Prompt /\ Gangs /\ pc' = "pass" => AskedBy({})'
    BY <1>1 DEF WindowInv
  <1> QED
    BY <1>2, <1>3 DEF WindowInv, Gangs

\* When nobody asks any more the next pass may begin.
LEMMA WindowClosed ==
    ASSUME WindowInv, UNCHANGED <<config, gang, killed>>,
           Prompt => \A p \in Progs : ~Asks(p)'
    PROVE  WindowInv'
  <1>1. Prompt => AskedBy({})'
    BY DEF AskedBy
  <1>2. Cardinality({}) <= GangSize
    BY FS_EmptySet, StartupAssumption
  <1>3. Prompt => \E last \in SUBSET Progs : Cardinality(last) <= GangSize /\ AskedBy(last)'
    BY <1>1, <1>2
  <1> QED
    BY <1>1, <1>3 DEF WindowInv, Gangs

\* A program writes a handle while it is in the gang, or still freezing.
LEMMA WindowProgram ==
    ASSUME TypeOK, HandInv, WindowInv, NEW p \in Progs, Begins(p) \/ Fail(p) \/ Works(p)
    PROVE  WindowInv'
  <1> USE DEF files, exec, AppStep
  <1>1. UNCHANGED <<config, gang, killed, pc, cur>>
    BY DEF Begins, Works, Exec, SetPid, JoinGroup, FreezeSelf, Frozen, Fail, Enter,
           Notify, Answered, Exit, Die
  <1>2. ASSUME NEW q \in Progs, Asks(q)' PROVE Asks(q) \/ q \in gang
    <2>1. CASE Begins(p) \/ Fail(p) \/ Enter(p) \/ Answered(p) \/ Exit(p) \/ Die(p)
      <3>1. pipe' = pipe /\ prog_fds' = prog_fds
        BY <2>1 DEF Begins, Exec, SetPid, JoinGroup, FreezeSelf, Frozen, Fail, Enter,
                    Answered, Exit, Die, notes
      <3>2. Starting(q)' <=> Starting(q)
        BY <1>1 DEF Starting
      <3>3. cgroup'[q] = "freezing" /\ ~Starting(q) => cgroup[q] = "freezing"
        BY <2>1 DEF Begins, Exec, SetPid, JoinGroup, FreezeSelf, Frozen, Fail, Enter,
                    Answered, Exit, Die, TypeOK, HandInv
      <3> QED
        BY <1>2, <3>1, <3>2, <3>3 DEF Asks
    <2>2. CASE Notify(p)
      <3>1. CASE q = p
        BY <2>2, <3>1 DEF Notify, Runs, HandInv, Starting, Asks
      <3>2. CASE q # p
        <4>1. Times(q, pipe') = Times(q, pipe)
          BY <2>2, <3>2, RequestTypes, TimesAppend DEF Notify
        <4> QED
          BY <1>1, <1>2, <2>2, <4>1 DEF Notify, Asks, Starting
      <3> QED
        BY <3>1, <3>2
    <2> QED
      BY <2>1, <2>2 DEF Works
  <1> QED
    BY <1>1, <1>2, WindowSame

\* A quantum expires: those who ask are of the gang before.
LEMMA WindowTick ==
    ASSUME TypeOK, HandInv, WindowInv, NEW new \in SUBSET Present, NEW dead \in SUBSET MayReach,
           GangTick(new, dead) \/ LinuxTick(new, dead)
    PROVE  WindowInv'
  <1> USE DEF Quantum, Switch, Kill, notes, files
  <1>1. CASE ~Gangs
    BY <1>1, AnyTick DEF WindowInv, Gangs
  <1>2. CASE Gangs
    <2>a. GangTick(new, dead)
      BY <1>2 DEF LinuxTick
    <2>1. PICK last \in SUBSET Progs : last = gang
      BY DEF TypeOK
    <2>2. ASSUME Prompt PROVE AskedBy(last)'
      <3>1. AskedBy({})
        BY <1>2, <2>2, <2>a DEF WindowInv, GangTick
      <3>2. ASSUME NEW p \in Progs, Asks(p)', p \notin gang PROVE FALSE
        <4>1. Asks(p)
          BY <2>a, <3>2 DEF GangTick, Asks, Starting, TypeOK
        <4> QED
          BY <3>1, <3>2, <4>1 DEF AskedBy
      <3> QED
        BY <2>1, <3>2 DEF AskedBy
    <2>3. /\ Cardinality(last) <= GangSize /\ Cardinality(gang') <= GangSize /\ pc' # "pass"
          /\ gang' \cap killed' = {}
      BY <1>2, <2>1, <2>a DEF WindowInv, GangTick
    <2>4. Prompt => \E k \in SUBSET Progs : Cardinality(k) <= GangSize /\ AskedBy(k)'
      BY <2>1, <2>2, <2>3
    <2> QED
      BY <2>3, <2>4 DEF WindowInv
  <1> QED
    BY <1>1, <1>2

\* A program that is dead leaves the gang; if it has left a handle it was killed,
\* and belongs to the gang before.
LEMMA WindowReap ==
    ASSUME TypeOK, HandInv, RequestInv, WindowInv, NEW r \in Progs, Reap(r)
    PROVE  WindowInv'
  <1> USE DEF Reap
  <1>0. UNCHANGED <<config, killed, pipe, prog_fds>>
    BY DEF files
  <1>1. gang' = gang \ {r} /\ pc' # "pass" /\ pc # "poll"
    BY DEF Fork, exec
  <1>2. ASSUME NEW p \in Progs, Asks(p)' PROVE Asks(p) /\ (p = r => r \in killed)
    <2>1. CASE p = r
      <3>1. cgroup'[r] = "absent"
        BY DEF TypeOK
      <3>2. Times(r, pipe) + Times(r, prog_fds) > 0
        BY <1>0, <1>2, <2>1, <3>1 DEF Asks
      <3>3. Requests(r) # 0
        BY <3>2, RequestTypes DEF Requests
      <3>4. r \in killed
        BY <3>3 DEF RequestInv, Owed
      <3> QED
        BY <2>1, <3>2, <3>4 DEF Asks
    <2>2. CASE p # r
      <3>1. cgroup'[p] = cgroup[p] /\ ~Starting(p)
        BY <1>1, <2>2 DEF TypeOK, Starting
      <3> QED
        BY <1>0, <1>2, <2>2, <3>1 DEF Asks
    <2> QED
      BY <2>1, <2>2
  <1>3. ASSUME Gangs, NEW last, AskedBy(last) PROVE AskedBy(last)'
    <2>1. gang \cap killed = {}
      BY <1>3 DEF WindowInv
    <2> QED
      BY <1>1, <1>2, <1>3, <2>1 DEF AskedBy
  <1>4. Prompt /\ Gangs =>
          \E last \in SUBSET Progs : Cardinality(last) <= GangSize /\ AskedBy(last)'
    BY <1>3 DEF WindowInv
  <1>5. Gangs => Cardinality(gang') <= GangSize
    <2>1. IsFiniteSet(gang) /\ gang' \in SUBSET gang
      BY <1>1, StartupAssumption, FS_Subset DEF TypeOK
    <2>2. /\ Cardinality(gang') <= Cardinality(gang)
          /\ Cardinality(gang') \in Nat /\ Cardinality(gang) \in Nat
      BY <2>1, FS_Subset, FS_CardinalityType
    <2> QED
      BY <2>2, StartupAssumption DEF WindowInv
  <1>6. Gangs => gang' \cap killed' = {}
    BY <1>0, <1>1 DEF WindowInv
  <1> QED
    BY <1>0, <1>1, <1>4, <1>5, <1>6 DEF WindowInv, Gangs

\* Every step keeps WindowInv.
LEMMA WindowNext ==
    ASSUME TypeOK, HandInv, IdInv, RequestInv, WindowInv, [Next]_vars
    PROVE  WindowInv'
  <1> USE DEF files, exec, notes
  <1>1. CASE Comment \/ Malformed \/ Started \/ SelectPipe \/ ReadEnd \/ UNCHANGED vars
    <2>1. /\ UNCHANGED <<config, gang, killed, pipe>> /\ (pc' = "pass" => pc = "pass")
          /\ UNCHANGED prog_fds
      BY <1>1 DEF Comment, Malformed, ReadLine, Started, SelectPipe, ReadEnd, vars,
                  HandInv, RequestInv
    <2>2. \A p \in Progs : Asks(p)' => Asks(p)
      BY <1>1, <2>1 DEF Comment, Malformed, ReadLine, Started, SelectPipe,
                  ReadEnd, vars, Asks, Starting, IsFrozen
    <2> QED
      BY <2>1, <2>2, WindowSame
  <1>2. CASE ReadHandle
    <2>1. \A p \in Progs : Asks(p)' => Asks(p)
      BY <1>2, HandleMoves DEF ReadHandle, Asks, Starting
    <2> QED
      BY <1>2, <2>1, WindowSame DEF ReadHandle
  <1>3. CASE Reply
    <2>1. ASSUME NEW p \in Progs, Asks(p)' PROVE Asks(p)
      <3>1. ~Starting(p) /\ cgroup'[p] = cgroup[p] /\ pipe' = pipe
        BY <1>3 DEF Reply, Starting
      <3>2. CASE Len(prog_fds) > 0
        <4>0. Times(p, pipe) \in Nat /\ Times(p, prog_fds) \in Nat
          BY RequestTypes
        <4>2. /\ Times(p, prog_fds) = Times(p, prog_fds') + (IF Last(prog_fds) = p THEN 1 ELSE 0)
              /\ Times(p, prog_fds') \in Nat
          BY <1>3, <3>2, HandleTaken
        <4>1. /\ Times(p, pipe) \in Nat /\ Times(p, prog_fds) \in Nat /\ Times(p, prog_fds') \in Nat
              /\ Times(p, prog_fds') <= Times(p, prog_fds)
          BY <4>0, <4>2
        <4> QED
          BY <2>1, <3>1, <4>1 DEF Asks
      <3>3. CASE ~(Len(prog_fds) > 0)
        <4>1. prog_fds' = prog_fds
          BY <1>3, <3>3, EmptySeq DEF Reply, ToAnswer, TypeOK
        <4> QED
          BY <2>1, <3>1, <4>1 DEF Asks
      <3> QED
        BY <3>2, <3>3
    <2>2. UNCHANGED <<config, gang, killed>> /\ pc' # "pass"
      BY <1>3 DEF Reply
    <2> QED
      BY <2>1, <2>2, WindowSame
  <1>4. ASSUME NEW s \in Progs, StartNext(s) PROVE WindowInv'
    <2>1. app[s] = "none"
      BY <1>4, NextIsNew
    <2>2. \A p \in Progs : Asks(p)' => Asks(p)
      BY <1>4, <2>1 DEF StartNext, ReadLine, Fork, Asks, Starting, TypeOK
    <2> QED
      BY <1>4, <2>2, WindowSame DEF StartNext, ReadLine, Fork
  <1>5. CASE AllStarted
    <2>1. /\ UNCHANGED <<config, gang, killed, app, cgroup, pid, pipe, prog_fds>>
          /\ Loading /\ pc = "start" /\ \A p \in Progs : ~Starting(p)
      BY <1>5 DEF AllStarted, Loading, Starting
    <2>2. killed = {} /\ \A p \in pid : app[p] = "entry" /\ cgroup[p] = "frozen"
      BY <2>1 DEF HandInv
    <2>3. ASSUME NEW p \in Progs, p \notin pid PROVE app[p] \in {"none", "gone"}
      <3>1. app[p] \in AppValues
        BY DEF TypeOK
      <3> QED
        BY <2>1, <2>3, <3>1 DEF HandInv, AppValues
    <2>4. ASSUME NEW p \in Progs PROVE app[p] # "wait" /\ cgroup[p] # "freezing"
      <3>1. CASE p \in pid
        BY <2>2, <3>1
      <3>2. CASE p \notin pid
        BY <2>3, <3>2 DEF HandInv
      <3> QED
        BY <3>1, <3>2
    <2>5. ASSUME NEW p \in Progs PROVE Times(p, pipe) = 0 /\ Times(p, prog_fds) = 0
      <3>1. Times(p, pipe) + Times(p, prog_fds) + answers[p] = 0
        BY <2>2, <2>4 DEF RequestInv, Owed, Requests
      <3> QED
        BY <3>1, RequestTypes
    <2>6. \A p \in Progs : ~Asks(p)'
      BY <2>1, <2>4, <2>5 DEF Asks
    <2> QED
      BY <2>1, <2>6, WindowClosed
  <1>6. CASE SelectTimeout
    <2>1. pipe = <<>> /\ prog_fds = <<>>
      BY <1>6 DEF SelectTimeout, NothingToRead, RequestInv
    <2>2. Prompt => \A p \in Progs : ~Asks(p)'
      BY <1>6, <2>1, TimesEmpty DEF SelectTimeout, Asks
    <2> QED
      BY <1>6, <2>2, WindowClosed DEF SelectTimeout
  <1> QED
    BY <1>1, <1>2, <1>3, <1>4, <1>5, <1>6, WindowProgram, WindowTick, WindowReap
       DEF Next, Executor, Poll, Exited
-----------------------------------------------------------------------------
(* The inductive invariant.                                                 *)

\* Nothing has been read and nobody has been started.
LEMMA InitIInv ==
    ASSUME Init PROVE IInv
  <1>1. Len(config.lines) \in Nat /\ line = 0
    <2>1. config.lines \in Seq(Progs \cup {"comment", "malformed"})
      BY StartupAssumption DEF Init
    <2> QED
      BY <2>1, LenProperties DEF Init
  <1>2. TypeOK
    BY <1>1, StartupAssumption DEF Init, TypeOK, PcValues, AppValues
  <1>3. HandInv
    BY DEF Init, HandInv, Starting
  <1>4. IdInv
    <2>1. ReadProgs = {}
      BY <1>1 DEF ReadProgs
    <2>2. {p \in Progs : app[p] # "none"} = {} /\ waiting_nr = 0 /\ Loading
      BY DEF Init, Loading
    <2> QED
      BY <2>1, <2>2, FS_EmptySet DEF IdInv
  <1>7. OldInv
    BY DEF Init, OldInv
  <1>5. RequestInv
    <2>1. ASSUME NEW p \in Progs PROVE Requests(p) = 0 /\ app[p] = "none"
      <3>1. Times(p, pipe) = 0 /\ Times(p, prog_fds) = 0 /\ answers[p] = 0
        BY TimesEmpty DEF Init
      <3> QED
        BY <3>1 DEF Requests, Init
    <2> QED
      BY <2>1 DEF RequestInv, Init, Owed, Ended
  <1>6. WindowInv
    <2>1. Cardinality(gang) = 0 /\ Cardinality({}) = 0
      BY FS_EmptySet DEF Init
    <2>2. AskedBy({})
      BY TimesEmpty DEF AskedBy, Asks, Init
    <2>3. gang \cap killed = {}
      BY DEF Init
    <2> QED
      BY <2>1, <2>2, <2>3, StartupAssumption DEF WindowInv
  <1> QED
    BY <1>2, <1>3, <1>4, <1>5, <1>6, <1>7 DEF IInv

\* The inductive invariant holds in every state.
THEOREM Inductive == Spec => []IInv
  <1>1. IInv /\ [Next]_vars => IInv'
    BY TypeNext, HandNext, IdNext, OldNext, RequestNext, WindowNext DEF IInv
  <1> QED
    BY InitIInv, <1>1, PTL DEF Spec

-----------------------------------------------------------------------------
(* What the runs check.                                                     *)

\* HandshakeSound: do_execute thaws nobody before its own FROZEN, and knows the
\* pid of everybody it has started.
THEOREM HandshakeCorrect == Spec => []HandshakeSound
  <1>1. ASSUME IInv PROVE HandshakeSound
    <2> USE <1>1 DEF IInv
    <2>1. ASSUME NEW p \in gang
          PROVE  cgroup[p] = "thawed" /\ app[p] \notin {"shell", "ctor", "told", "grouped"}
      BY DEF HandInv, TypeOK
    <2>2. ASSUME pc # "poll", NEW p \in Progs, app[p] \notin {"none", "gone"} PROVE p \in pid
      <3>1. app[p] \in AppValues /\ ~Starting(p)
        BY <2>2 DEF TypeOK, Starting
      <3> QED
        BY <2>2, <3>1 DEF HandInv, AppValues
    <2>3. pc = "exited" => \A p \in pid : app[p] = "entry" /\ cgroup[p] = "frozen"
      BY DEF HandInv, Loading
    <2> QED
      BY <2>1, <2>2, <2>3 DEF HandshakeSound
  <1> QED
    BY Inductive, <1>1, PTL

\* The programs whose line stands before that of p.
Before(p) == {q \in Progs : \E i, j \in DOMAIN config.lines :
                i < j /\ config.lines[i] = q /\ config.lines[j] = p}

\* The program of the later line has the greater slot.
LEMMA SlotGrows ==
    ASSUME TypeOK, NEW i \in 1..Len(config.lines), NEW j \in 1..Len(config.lines), i < j,
           NEW p \in Progs, NEW q \in Progs, config.lines[i] = p, config.lines[j] = q
    PROVE  Slot(p) < Slot(q)
  <1>1. Before(p) \cup {p} \in SUBSET Before(q)
    <2>1. ASSUME NEW r \in Before(p) PROVE r \in Before(q)
      <3>1. PICK m \in 1..Len(config.lines), n \in 1..Len(config.lines) :
              m < n /\ config.lines[m] = r /\ config.lines[n] = p
        BY LinesRead DEF Before
      <3>2. n = i
        BY <3>1, LinesRead
      <3>3. m < j
        BY <3>1, <3>2, LinesRead
      <3> QED
        BY <3>1, <3>3, LinesRead DEF Before
    <2>2. p \in Before(q)
      BY LinesRead DEF Before
    <2> QED
      BY <2>1, <2>2
  <1>2. p \notin Before(p)
    <2>1. ASSUME NEW m \in 1..Len(config.lines), NEW n \in 1..Len(config.lines), m < n,
                 config.lines[m] = p, config.lines[n] = p
          PROVE  FALSE
      <3>1. m = n
        BY <2>1, LinesRead
      <3> QED
        BY <2>1, <3>1, LinesRead
    <2> QED
      BY <2>1, LinesRead DEF Before
  <1>3. IsFiniteSet(Before(p)) /\ IsFiniteSet(Before(q))
    BY StartupAssumption, FS_Subset DEF Before
  <1>4. Cardinality(Before(p) \cup {p}) = Cardinality(Before(p)) + 1
    BY <1>2, <1>3, FS_AddElement
  <1>5. Cardinality(Before(p) \cup {p}) <= Cardinality(Before(q))
    BY <1>1, <1>3, FS_Subset
  <1>6. Cardinality(Before(p)) \in Nat /\ Cardinality(Before(q)) \in Nat
    BY <1>3, FS_CardinalityType
  <1> QED
    BY <1>4, <1>5, <1>6 DEF Slot, Before

\* A program that was read has a slot of its own among those of the programs
\* that were read.
LEMMA SlotRead ==
    ASSUME TypeOK, IdInv, NEW p \in ReadProgs
    PROVE  Slot(p) \in Nat /\ Slot(p) < waiting_nr
  <1>1. p \in Progs
    BY DEF ReadProgs
  <1>2. PICK n \in 1..line : config.lines[n] = p
    BY DEF ReadProgs
  <1>3. line \in Nat /\ 1..line \subseteq 1..Len(config.lines)
    BY LinesRead
  <1>4. Before(p) \in SUBSET ReadProgs /\ p \notin Before(p)
    <2>1. ASSUME NEW i \in 1..Len(config.lines), NEW j \in 1..Len(config.lines), i < j,
                 config.lines[j] = p
          PROVE  i \in 1..line /\ config.lines[i] # p
      <3>1. j = n
        BY <1>1, <1>2, <1>3, <2>1, LinesRead
      <3>2. i \in 1..line /\ i # n
        BY <1>3, <2>1, <3>1
      <3> QED
        BY <1>1, <1>2, <1>3, <3>2, LinesRead
    <2> QED
      BY <2>1, LinesRead DEF Before, ReadProgs
  <1>5. IsFiniteSet(ReadProgs) /\ IsFiniteSet(Before(p))
    BY StartupAssumption, FS_Subset DEF Before, ReadProgs
  <1>6. Cardinality(Before(p) \cup {p}) = Cardinality(Before(p)) + 1
    BY <1>4, <1>5, FS_AddElement
  <1>7. Before(p) \cup {p} \in SUBSET ReadProgs
    BY <1>4
  <1>8. Cardinality(Before(p) \cup {p}) <= Cardinality(ReadProgs)
    BY <1>5, <1>7, FS_Subset
  <1>9. Cardinality(Before(p)) \in Nat /\ Cardinality(ReadProgs) = waiting_nr /\ waiting_nr \in Nat
    BY <1>5, FS_CardinalityType, LinesRead DEF IdInv
  <1> QED
    BY <1>6, <1>8, <1>9 DEF Slot, Before

\* A number has one remainder: the quotients cannot differ by d when the
\* remainders are less than w apart.
LEMMA SameRemainder ==
    ASSUME NEW w \in Nat, NEW s \in 0..(w - 1), NEW t \in 0..(w - 1),
           NEW k \in Int, NEW l \in Int, s + k * w = t + l * w
    PROVE  s = t
  <1>1. PICK d \in Int : d = l - k
    OBVIOUS
  <1>2. k * w \in Int /\ l * w \in Int /\ d * w \in Int
    OBVIOUS
  <1>3. l * w = k * w + d * w
    <2>1. l = k + d
      BY <1>1
    <2> QED
      BY <2>1
  <1>4. s - t = d * w
    BY <1>2, <1>3
  <1>5. d >= 1 => d * w >= w
    OBVIOUS
  <1>6. d <= -1 => d * w <= -w
    OBVIOUS
  <1>7. d = 0 => d * w = 0
    OBVIOUS
  <1>8. d >= 1 \/ d <= -1 \/ d = 0
    OBVIOUS
  <1> QED
    BY <1>2, <1>4, <1>5, <1>6, <1>7, <1>8

\* Adding multiples of w leaves the remainder.
LEMMA Remainder ==
    ASSUME NEW w \in Nat, NEW s \in 0..(w - 1), NEW k \in Nat, NEW a \in Int, a = s + k * w
    PROVE  a % w = s
  <1>1. w > 0
    OBVIOUS
  <1>2. PICK q \in Int : q = a \div w
    BY <1>1
  <1>3. PICK x \in 0..(w - 1) : x = a % w
    BY <1>1
  <1>4. a = x + q * w
    <2>1. ASSUME NEW M \in Int, M > 0, NEW b \in Int, NEW m \in Int, NEW y \in Int,
                 m = b \div M, y = b % M
          PROVE  b = y + m * M
      BY <2>1
    <2> QED
      BY <1>1, <1>2, <1>3, <2>1
  <1>5. k \in Int /\ s + k * w = x + q * w
    BY <1>4
  <1>6. x = s
    BY <1>5, SameRemainder
  <1> QED
    BY <1>3, <1>6

\* The programs there are have ids that tell their slots, which differ.
LEMMA IdOf ==
    ASSUME TypeOK, IdInv, NEW p \in ReadProgs
    PROVE  /\ Slot(p) \in 0..(waiting_nr - 1) /\ waiting_nr \in Nat
           /\ \E k \in Nat : id[p] - IdOffset = Slot(p) + k * waiting_nr
  <1>1. Slot(p) \in Nat /\ Slot(p) < waiting_nr /\ waiting_nr \in Nat
    BY SlotRead, LinesRead
  <1>2. PICK k \in 0..respawned : id[p] = (IdOffset + Slot(p)) + k * waiting_nr
    BY DEF IdInv
  <1>3. k \in Nat
    <2>1. respawned \in Nat
      BY StartupAssumption DEF TypeOK
    <2> QED
      BY <1>2, <2>1
  <1>4. k * waiting_nr \in Nat
    BY <1>1, <1>3
  <1>5. id[p] - IdOffset = Slot(p) + k * waiting_nr
    BY <1>1, <1>2, <1>4 DEF IdOffset
  <1>6. \E n \in Nat : id[p] - IdOffset = Slot(p) + n * waiting_nr
    BY <1>3, <1>5
  <1>7. Slot(p) \in 0..(waiting_nr - 1)
    BY <1>1
  <1> QED
    BY <1>1, <1>6, <1>7

\* A slot belongs to one program.
LEMMA SlotTells ==
    ASSUME TypeOK, IdInv, NEW p \in ReadProgs, NEW q \in ReadProgs, Slot(p) = Slot(q)
    PROVE  p = q
  <1>1. PICK i \in 1..Len(config.lines) : config.lines[i] = p
    BY LinesRead DEF ReadProgs
  <1>2. PICK j \in 1..Len(config.lines) : config.lines[j] = q
    BY LinesRead DEF ReadProgs
  <1>3. p \in Progs /\ q \in Progs /\ Slot(p) \in Nat /\ Slot(q) \in Nat
    BY SlotRead DEF ReadProgs
  <1>4. ~(i < j) /\ ~(j < i)
    BY <1>1, <1>2, <1>3, SlotGrows
  <1>5. i = j
    BY <1>4, LinesRead
  <1> QED
    BY <1>1, <1>2, <1>5

\* Whose ids differ by multiples of the number of slots have one slot.
LEMMA IdTells ==
    ASSUME TypeOK, IdInv, NEW p \in ReadProgs, NEW q \in ReadProgs, NEW l \in Nat,
           id[p] - IdOffset = Slot(q) + l * waiting_nr
    PROVE  p = q
  <1>1. PICK k \in Nat : id[p] - IdOffset = Slot(p) + k * waiting_nr
    BY IdOf
  <1>2. Slot(p) + k * waiting_nr = Slot(q) + l * waiting_nr
    BY <1>1
  <1>3. /\ waiting_nr \in Nat /\ k \in Int /\ l \in Int
        /\ Slot(p) \in 0..(waiting_nr - 1) /\ Slot(q) \in 0..(waiting_nr - 1)
    BY <1>1, IdOf
  <1>4. Slot(p) = Slot(q)
    BY <1>2, <1>3, SameRemainder
  <1> QED
    BY <1>4, SlotTells

\* The id of a predecessor is nobody's.
LEMMA OldDiffers ==
    ASSUME TypeOK, IdInv, OldInv, NEW p \in ReadProgs
    PROVE  id[p] # old
  <1>0. id[p] \in Nat /\ p \in Progs
    BY DEF TypeOK, ReadProgs
  <1>1. CASE old = 0
    <2>1. PICK k \in Nat : id[p] - IdOffset = Slot(p) + k * waiting_nr
      BY IdOf
    <2>2. Slot(p) \in Nat /\ k * waiting_nr \in Nat
      BY <2>1, IdOf, LinesRead
    <2> QED
      BY <1>0, <1>1, <2>1, <2>2 DEF IdOffset
  <1>2. CASE old # 0
    <2>1. cur \in ReadProgs /\ id[cur] = old + waiting_nr
      BY <1>2 DEF OldInv
    <2>2. PICK k \in 0..respawned : old = (IdOffset + Slot(cur)) + k * waiting_nr
      BY <1>2 DEF OldInv
    <2>3. respawned \in Nat
      BY StartupAssumption DEF TypeOK
    <2>4. k \in Nat
      BY <2>2, <2>3
    <2>5. Slot(cur) \in Nat /\ waiting_nr \in Nat /\ waiting_nr > 0
      BY <2>1, SlotRead, LinesRead
    <2>6. k * waiting_nr \in Nat
      BY <2>4, <2>5
    <2>7. old - IdOffset = Slot(cur) + k * waiting_nr
      BY <2>2, <2>5, <2>6 DEF IdOffset
    <2>8. ASSUME id[p] = old PROVE p = cur
      BY <2>1, <2>4, <2>7, <2>8, IdTells
    <2>9. old \in Nat
      BY DEF TypeOK
    <2> QED
      BY <2>1, <2>5, <2>8, <2>9
  <1> QED
    BY <1>1, <1>2

\* IdsSound: no two programs share an id, nor a program and a predecessor, and
\* init_id is the slot, after any number of respawns.
THEOREM IdsCorrect == Spec => []IdsSound
  <1>1. ASSUME IInv PROVE IdsSound
    <2> USE <1>1 DEF IInv
    <2>1. {p \in Progs : app[p] # "none"} = ReadProgs
      BY DEF IdInv
    <2>2. ASSUME NEW p \in ReadProgs, NEW q \in ReadProgs, id[p] = id[q] PROVE p = q
      <3>1. PICK l \in Nat : id[q] - IdOffset = Slot(q) + l * waiting_nr
        BY IdOf
      <3> QED
        BY <2>2, <3>1, IdTells
    <2>3. ASSUME NEW p \in ReadProgs PROVE init_id(p) = Slot(p)
      <3>1. PICK k \in Nat : id[p] - IdOffset = Slot(p) + k * waiting_nr
        BY IdOf
      <3>2. id[p] - IdOffset \in Int
        BY DEF IdOffset, TypeOK, ReadProgs
      <3> QED
        BY <3>1, <3>2, IdOf, Remainder DEF init_id
    <2> QED
      BY <2>1, <2>2, <2>3, OldDiffers DEF IdsSound
  <1> QED
    BY Inductive, <1>1, PTL

\* OneRequest: a request is in one place while its program waits, only one that
\* was killed leaves a handle, and the array of those to be answered never holds
\* more than two gangs.
THEOREM OneRequestCorrect == Spec => []OneRequest
  <1>1. ASSUME IInv PROVE OneRequest
    <2> USE <1>1 DEF IInv
    <2>1. \A p \in Progs : Requests(p) \in Owed(p)
      BY DEF RequestInv
    <2>2. ASSUME Prompt, Gangs PROVE Len(prog_fds) <= 2 * GangSize
      <3>1. PICK last \in SUBSET Progs : Cardinality(last) <= GangSize /\ AskedBy(last)
        BY <2>2 DEF WindowInv
      <3>2. gang \cup last \in SUBSET Progs
        BY <3>1 DEF TypeOK
      <3>3. ASSUME NEW p \in Progs
            PROVE  Times(p, prog_fds) <= (IF p \in gang \cup last THEN 1 ELSE 0)
        <4>1. /\ Times(p, pipe) \in Nat /\ Times(p, prog_fds) \in Nat /\ answers[p] \in Nat
          BY RequestTypes
        <4>2. Times(p, prog_fds) <= 1
          <5>1. Requests(p) \in {0, 1}
            BY <2>1 DEF Owed
          <5> QED
            BY <4>1, <5>1 DEF Requests
        <4>3. ASSUME Times(p, prog_fds) # 0 PROVE p \in gang \cup last
          <5>1. Asks(p)
            BY <4>1, <4>3 DEF Asks
          <5> QED
            BY <3>1, <5>1 DEF AskedBy
        <4> QED
          BY <4>1, <4>2, <4>3
      <3>4. Len(prog_fds) <= Cardinality(gang \cup last) /\ Len(prog_fds) \in Nat
        BY <3>2, <3>3, ShortSeq, LenProperties DEF TypeOK
      <3>5. IsFiniteSet(gang) /\ IsFiniteSet(last)
        BY <3>1, StartupAssumption, FS_Subset DEF TypeOK
      <3>6. /\ Cardinality(gang) \in Nat /\ Cardinality(last) \in Nat
            /\ Cardinality(gang \cap last) \in Nat
            /\ Cardinality(gang \cup last)
                 = Cardinality(gang) + Cardinality(last) - Cardinality(gang \cap last)
        BY <3>5, FS_Union, FS_Intersection, FS_CardinalityType
      <3>7. Cardinality(gang) <= GangSize /\ GangSize \in Nat
        BY <2>2, StartupAssumption DEF WindowInv
      <3> QED
        BY <3>1, <3>4, <3>6, <3>7
    <2> QED
      BY <2>1, <2>2 DEF OneRequest
  <1> QED
    BY Inductive, <1>1, PTL
=============================================================================
