----------------------------- MODULE GangQuanta -----------------------------
(***************************************************************************)
(* Quantum after quantum of a gang policy: the monitoring phase, in which  *)
(* every program runs alone once, and then gangs.  One module for the four *)
(* files, which repeat each other.  The two lists are sequences here,      *)
(* because the policies depend on their order.                             *)
(*                                                                         *)
(* Module Executor shows how ticks, signals and the freezer interleave;    *)
(* here a freeze takes effect at once and a tick is one step.              *)
(***************************************************************************)
EXTENDS GangPolicies, QuickSort

CONSTANTS Workloads, \* the policies and the classes of the programs
          Late,      \* the policies whose programs may start after the first tick
          Short,     \* Short[policy]: programs that may end during monitoring
          Exits,     \* bound: exits that no kill causes
          Target,    \* Target[policy][p]: target_instr
          Rest,      \* an exit with no more than this left is not respawned
          Rate,      \* Rate[policy][p]: instructions of p in a quantum alone
          Cycles     \* unh_cycles of a quantum

Policies == {"perf", "fair", "perf_fair", "fair_bw_cache"}

ASSUME QuantaAssumption ==
    /\ Workloads \subseteq [policy : Policies, class : [Slots -> Classes]]
    /\ Late \subseteq Policies /\ Short \in [Policies -> SUBSET Slots]
    /\ Exits \in Nat /\ Rest \in Nat
    /\ Target \in [Policies -> [Slots -> Nat \ {0}]]
    /\ Rate \in [Policies -> [Slots -> Nat \ {0}]]
    /\ Cycles \in Nat \ {0}

VARIABLES
    all,      \* progs_all
    sch,      \* progs_sch: the gang of the quantum
    out,      \* programs that wait for their start, or for their new start
    done,     \* programs that owe nothing any more
    wnd,      \* monitor_wnd
    begun,    \* has the first quantum expired?
    cores,    \* cores_allocated of the last choice
    ipc,      \* ipc_alone, 0 before it is measured
    instr,    \* instr_retd_sum
    ideal,    \* ideal_instr
    ratio,    \* ratio, the progress of a program
    waiting,  \* waiting_time, in halves of a quantum
    exits,    \* exits so far
    fault     \* what the program would have died of

config == <<policy, class>>
progress == <<ipc, instr, ideal, ratio>>
vars == <<config, all, sch, out, done, wnd, begun, cores, progress, waiting, exits, fault>>

Faults == {"none", "divide", "head", "wrap"}

Running == ToSet(sch)
Present == ToSet(all) \union Running

\* A program is in one place.
OnePlace ==
    /\ IsInjective(all) /\ IsInjective(sch)
    /\ UNION {Present, out, done} = Slots
    /\ ToSet(all) \intersect Running = {}
    /\ Present \intersect out = {} /\ Present \intersect done = {} /\ out \intersect done = {}

Books ==
    /\ policy \in Policies /\ class \in [Slots -> Classes]
    /\ all \in Seq(Slots) /\ sch \in Seq(Slots)
    /\ out \subseteq Slots /\ done \subseteq Slots
    /\ OnePlace
    /\ wnd \in Nat /\ begun \in BOOLEAN
    /\ cores \in Nat
    /\ {ipc, instr, ideal, ratio} \subseteq [Slots -> Nat]
    /\ waiting \in [Slots -> Int]
    /\ exits \in 0..Exits /\ fault \in Faults

\* The cores given out are indices of cpus[].
TypeOK == Books /\ cores \in 0..MaxCores

ProgsNr == Len(all) + Len(sch)
\* Mutant: the last program is not measured.
MonitoringShort(w, nr) == w < nr
Monitoring(w, nr) == w <= nr
Left(p) == Target[policy][p] - instr[p]
Init ==
    /\ \E w \in Workloads : policy = w.policy /\ class = w.class
    /\ all = <<>> /\ sch = <<>> /\ out = Slots /\ done = {}
    /\ wnd = 0 /\ begun = FALSE /\ cores = 0
    /\ ipc = [p \in Slots |-> 0] /\ instr = ipc /\ ideal = ipc /\ ratio = ipc
    /\ waiting = [p \in Slots |-> 0]
    /\ exits = 0 /\ fault = "none"

\* rebalance for a new program: its wait begins now, between two ticks.
Arrive(p) ==
    /\ fault = "none" /\ p \in out
    /\ out' = out \ {p}
    /\ all' = Append(all, p)
    /\ waiting' = [waiting EXCEPT ![p] = -1]
    /\ ratio' = [ratio EXCEPT ![p] = 0]
    /\ UNCHANGED <<config, sch, done, wnd, begun, cores, ipc, instr, ideal, exits, fault>>

(***************************************************************************)
(* The tick: freeze_sched, schedule, thaw_sched.                           *)
(***************************************************************************)
Alone(retired) == (retired * 1000) \div Cycles      \* collect
Ideal(p) == (ipc[p] * Cycles) \div 1000            \* a quantum at full speed

\* What a program can retire in a quantum: all of Rate if it runs alone.
FullSpeed(p) == Rate[policy][p]
Retires(p) == IF Len(sch) = 1 THEN {FullSpeed(p)} ELSE 1..FullSpeed(p)

Killed(got) == {p \in Running : Left(p) <= got[p]}

\* monitor_wnd after the freeze: fair compares it with 2*progs_nr.
SkipWnd(w, nr) == IF w = (IF policy = "fair" THEN 2 * nr ELSE nr) THEN w + 1 ELSE w

\* kill_app has taken the dead out of the list.
Frozen(dead) == all \o Keep(sch, Slots \ dead)

\* update_progress for everybody, by the cycles of the first of the gang.
Progress(list, instr1) ==
    LET who == IF policy = "perf" \/ sch = <<>> THEN {} ELSE ToSet(list)
        ideal1 == [p \in Slots |-> IF p \in who THEN ideal[p] + Ideal(p) ELSE ideal[p]]
    IN [ideal |-> ideal1,
        zero |-> \E p \in who : ideal1[p] = 0,
        ratio |-> [p \in Slots |-> IF p \in who /\ ideal1[p] # 0
                                   THEN (instr1[p] * 1000) \div ideal1[p] ELSE ratio[p]]]

Waited(list) ==
    [p \in Slots |-> IF p \in Running THEN 0
                     ELSE IF p \in ToSet(list) THEN waiting[p] + 2 ELSE waiting[p]]

\* Mutant: the sort is called with DESC.
Descending(list, r) == Reverse(Sort(list, r).list)

\* fair, perf_fair and fair_bw_cache walk the list in ascending progress.
Ascending(list, r) == Sort(list, r).list

Gang(list, r, w, nr) ==
    CASE policy = "perf" -> PerfGang(list, w)
      [] policy = "fair" -> FairGang(Ascending(list, r))
      [] policy = "perf_fair" -> PerfFairGang(Ascending(list, r), nr)
      [] policy = "fair_bw_cache" -> BwCacheGang(Ascending(list, r), nr)

Fail(what) ==
    /\ fault' = what
    /\ UNCHANGED <<config, all, sch, out, done, wnd, begun, cores, progress, waiting, exits>>

\* monitor takes the first entry of the list without looking for one.
Monitor(list, w) ==
    IF list = <<>>
    THEN fault' = "head" /\ all' = list /\ sch' = list /\ UNCHANGED <<wnd, cores>>
    ELSE /\ sch' = <<list[1]>> /\ all' = Tail(list)
         /\ cores' = (w % MaxCores) + Need[list[1]]
         /\ wnd' = w + 1
         /\ UNCHANGED fault

Choose(list, w, r, wt) ==
    LET st == Gang(list, r, wt, Len(list))
    IN  /\ sch' = st.sch /\ all' = st.all
        /\ cores' = st.cores /\ fault' = st.fault
        /\ wnd' = w

Schedule(list, w, r, wt) ==
    IF Monitoring(w, Len(list)) THEN Monitor(list, w) ELSE Choose(list, w, r, wt)

\* The programs of the configuration that start at time 0 are there before the
\* first quantum expires.
MayTick == fault = "none" /\ (policy \in Late \/ begun \/ out = {})

Retired == {got \in [Running -> 1..Max({FullSpeed(p) : p \in Slots})] :
               \A p \in Running : got[p] \in Retires(p)}

\* A tick that measures the program that has run.
MonitorTick ==
    /\ MayTick /\ Monitoring(wnd, ProgsNr)
    /\ \E got \in Retired :
         ipc' = [p \in Slots |-> IF p \in Running THEN Alone(got[p]) ELSE ipc[p]]
    /\ begun' = TRUE
    /\ waiting' = Waited(Frozen({}))
    /\ Schedule(Frozen({}), SkipWnd(wnd, ProgsNr), ratio, Waited(Frozen({})))
    /\ UNCHANGED <<config, out, done, instr, ideal, ratio, exits>>

\* A tick that accounts the gang and kills who has reached the target.
Account(got) ==
    LET dead == Killed(got)
        list == Frozen(dead)
        instr1 == [p \in Slots |-> IF p \in Running THEN instr[p] + got[p] ELSE instr[p]]
        pr == Progress(list, instr1)
    IN IF pr.zero THEN Fail("divide")
       ELSE /\ done' = done \union dead
            /\ instr' = instr1 /\ ideal' = pr.ideal /\ ratio' = pr.ratio
            /\ begun' = TRUE
            /\ waiting' = Waited(list)
            /\ Schedule(list, SkipWnd(wnd, Len(list)), pr.ratio, Waited(list))
            /\ UNCHANGED <<config, out, ipc, exits>>

GangTick ==
    /\ MayTick /\ ~Monitoring(wnd, ProgsNr)
    /\ \E got \in Retired : Account(got)

(***************************************************************************)
(* rebalance for a program that has ended by itself: it is accounted, and  *)
(* respawned with what it has measured and retired so far.                 *)
(***************************************************************************)
Respawns(left) == left > Rest

Exit(p) ==
    /\ fault = "none" /\ exits < Exits
    /\ p \in Running
    /\ Monitoring(wnd, ProgsNr) => p \in Short[policy]
    /\ IF policy # "perf" /\ ideal[p] + Ideal(p) = 0 THEN Fail("divide")
       ELSE \E got \in 1..FullSpeed(p) :
            LET left == Left(p) - got
            IN /\ instr' = [instr EXCEPT ![p] = @ + got]
               /\ ideal' = [ideal EXCEPT ![p] = IF policy = "perf" THEN @ ELSE @ + Ideal(p)]
               /\ sch' = RemoveFirst(sch, p)
               /\ out' = IF Respawns(left) THEN out \union {p} ELSE out
               /\ done' = IF Respawns(left) THEN done ELSE done \union {p}
               /\ exits' = exits + 1
               /\ UNCHANGED <<config, all, wnd, begun, cores, ipc, ratio, waiting, fault>>

Finished == done = Slots /\ UNCHANGED vars

Tick == MonitorTick \/ GangTick
Next == Tick \/ (\E p \in Slots : Arrive(p) \/ Exit(p)) \/ Finished

Spec == Init /\ [][Next]_vars

\* Time passes, so quanta expire and the events of the programs come due: weak
\* fairness of Tick and of Arrive, with what enables them spelled out.  A tick
\* that finds no program changes nothing.
QuantaExpire == []<>(~MayTick \/ Present = {}) \/ []<><<Tick>>_vars
FairSpec == Spec /\ QuantaExpire /\ \A p \in Slots : []<>(p \notin out)

(***************************************************************************)
(* Properties.                                                             *)
(***************************************************************************)

\* update_progress divides by ideal_instr: a program is measured before its
\* progress is computed, in freeze_sched and in rebalance.
DivisionDefined == fault # "divide"

\* collect writes ipc_alone, the 'ipc alone execution' of common.h: what it has
\* measured is what the program does alone and not beside others, although the
\* phase is computed from progs_nr, which changes between two ticks.  And every
\* program is measured before update_progress divides by it.
AloneMeasured ==
    policy \notin Late
      => /\ DivisionDefined
         /\ \A p \in Slots : ipc[p] \in {0, Alone(FullSpeed(p))}

\* good_neighbors and monitor take the first entry of a list, and the loop
\* over the neighbours ends only on an exact number of cores: the list is
\* never exhausted before that.  The bandwidth that is left never falls below
\* the reserve, where the unsigned comparison of the code would let every
\* program in.  And a choice neither loses nor doubles a program, nor gives out
\* more cores than there are entries in cpus[].
ChoiceSound == TypeOK /\ fault \notin {"head", "wrap"}

\* perf starts with the program that has waited longest: nobody waits for
\* as many quanta as there are other programs.
WaitBound ==
    policy = "perf" /\ fault = "none"
      => \A p \in ToSet(all) : waiting[p] < 2 * (Cardinality(Slots) - 1)

\* A tick whose gang the policy has chosen: monitor would have moved wnd on.
Chosen == Tick /\ fault' = "none" /\ wnd' = SkipWnd(wnd, Len(all') + Len(sch'))

\* schedule leaves no core idle while a program could run on it.
NoIdleCore == [][Chosen /\ all' # <<>> => cores' >= MaxCores]_vars

\* The program that is furthest behind is in the next gang: otherwise ratio
\* would equalize nothing.
LeastServedRuns ==
    [][Chosen => \A p \in ToSet(all') : \E q \in ToSet(sch') : ratio'[q] <= ratio'[p]]_vars

\* The sort, which relinks a list in place, yields the programs of the list in
\* ascending progress, and never reads the progress of the list head.
SortedByProgress ==
    LET s == Sort(all, ratio)
    IN /\ ~s.head
       /\ Len(s.list) = Len(all) /\ ToSet(s.list) = ToSet(all)
       /\ \A i, j \in DOMAIN s.list : i < j => ratio[s.list[i]] <= ratio[s.list[j]]

\* fair_bw_cache gives a gang to programs of class BW or of class CS, the one
\* it meets first, and adds the other only when there are no more of it.
OfClass(list, c) == {p \in ToSet(list) : class[p] = c}
MixedOnlyIfNeeded ==
    [][Chosen /\ policy = "fair_bw_cache" /\ Len(all') + Len(sch') > MaxCores
         => LET heavy == {i \in DOMAIN sch' : class[sch'[i]] \in {"BW", "CS"}}
            IN  \A i, j \in heavy : (\A k \in heavy : i <= k) /\ class[sch'[i]] # class[sch'[j]]
                                   => OfClass(all', class[sch'[i]]) = {}]_vars

\* Every program is brought to its target.
AllServed == <>(done = Slots)
=============================================================================
