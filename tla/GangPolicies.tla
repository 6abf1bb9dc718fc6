---------------------------- MODULE GangPolicies ----------------------------
(***************************************************************************)
(* How the four gang policies choose the programs of the next quantum:     *)
(* xxx_schedule of src/scheds/perf.c, fair.c, perf_fair.c, fair_bw_cache.c *)
(* outside their monitoring phase.  Each choice is a fold of the loop body *)
(* over the list it walks; the locals of the C function are the fields of  *)
(* the record st that is folded.                                           *)
(***************************************************************************)
EXTENDS Integers, Sequences, SequencesExt, FiniteSetsExt

CONSTANTS Slots,      \* the programs
          MaxCores,   \* MAX_CORES, 6 in the code
          Need,       \* Need[p]: cores_needed, the threads of p
          Bw,         \* Bw[p]: sum_mem_reads as monitoring measures it
          Llc,        \* Llc[p]: llc_alone as monitoring measures it
          BwLimit,    \* BW_LIMIT
          BwReserve,  \* what perf and perf_fair keep back of BW_LIMIT
          BwSlack,    \* what fair_bw_cache allows above it
          LlcLimit,   \* LLC_LIMIT
          LlcSlack    \* what fair_bw_cache allows above it

Classes == {"NONE", "BW", "CS", "CNS", "N"}

ASSUME PoliciesAssumption ==
    /\ IsFiniteSet(Slots) /\ MaxCores \in Nat \ {0}
    /\ Need \in [Slots -> Nat \ {0}]
    /\ Bw \in [Slots -> Nat] /\ Llc \in [Slots -> Nat]
    /\ {BwLimit, BwReserve, BwSlack, LlcLimit, LlcSlack} \subseteq Nat
    /\ BwReserve <= BwLimit

VARIABLES policy,     \* the scheduling policy, an argument of the program
          class       \* class[p]: category, a column of the configuration

Start(list, bw) ==
    [all |-> list, sch |-> <<>>, cores |-> 0, bw |-> bw, llc |-> LlcLimit,
     bwOn |-> FALSE, csOn |-> FALSE, fault |-> "none"]

Full(st) == st.cores = MaxCores

\* Move p to the gang and give it the next cores: elem_move2tail, setcpurange.
Place(st, p) == [st EXCEPT !.all = RemoveFirst(@, p), !.sch = Append(@, p),
                           !.cores = @ + Need[p]]

\* The entries of a list that are in S, in their order.
Keep(list, S) == FoldLeft(LAMBDA kept, p : IF p \in S THEN Append(kept, p) ELSE kept, <<>>, list)

NotNegative(n) == IF n < 0 THEN 0 ELSE n
Distance(m, n) == IF m >= n THEN m - n ELSE n - m

\* The first program of a list with the least value of measure: the strict
\* comparison of the code keeps the earlier of two equal ones.
FirstLeast(list, measure) ==
    list[CHOOSE i \in DOMAIN list :
            /\ \A j \in DOMAIN list : measure[list[i]] <= measure[list[j]]
            /\ \A j \in 1..(i - 1) : measure[list[i]] < measure[list[j]]]

\* fair_schedule, and fill_rest_cores of the other two: in order, until full.
InOrderStep(st, p) == IF Full(st) THEN st ELSE Place(st, p)
FillRestCores(st) == FoldLeft(InOrderStep, st, st.all)
FairGang(order) == FillRestCores(Start(order, BwLimit))

(***************************************************************************)
(* perf: the program that waits longest, then the nearest to the bandwidth *)
(* that is left.                                                           *)
(***************************************************************************)
TakeBw(st, p) == Place([st EXCEPT !.bw = NotNegative(@ - Bw[p])], p)
Nearest(st) == LET Fitness == [p \in Slots |-> Distance(st.bw, Bw[p])] IN FirstLeast(st.all, Fitness)

\* Mutants: max_waiting is never asked; the loop stops a core too early.
PerfStepNearest(st, waiting) ==
    IF st.cores >= MaxCores \/ st.all = <<>> THEN st ELSE TakeBw(st, Nearest(st))
PerfStepEarly(st, waiting) ==
    LET Patience == [p \in Slots |-> -waiting[p]]
    IN IF st.cores >= MaxCores - 1 \/ st.all = <<>> THEN st
       ELSE TakeBw(st, FirstLeast(st.all, Patience))
PerfStep(st, waiting) ==
    LET Patience == [p \in Slots |-> -waiting[p]]
    IN IF st.cores >= MaxCores \/ st.all = <<>> THEN st
       ELSE TakeBw(st, IF st.cores = 0 THEN FirstLeast(st.all, Patience) ELSE Nearest(st))

PerfGang(list, waiting) ==
    FoldLeft(LAMBDA st, p : PerfStep(st, waiting),
             Start(list, BwLimit - BwReserve), list)

(***************************************************************************)
(* perf_fair: in order of progress, leaving out what does not fit in the   *)
(* bandwidth; then neighbours, if there are more programs than cores.      *)
(* sum_mem_reads is unsigned: against it a negative number is a huge one,  *)
(* and the program that would not fit is let in.  That is a fault.         *)
(***************************************************************************)
Unsigned(st, room) == IF room < 0 THEN [st EXCEPT !.fault = "wrap"] ELSE st
\* Mutant: the test forgets the reserve.
FitsAll(p, room) == Bw[p] <= room + BwReserve

Fits(p, room) == room < 0 \/ Bw[p] <= room

PerfFairStep(st, p) ==
    LET room == st.bw - BwReserve
        seen == Unsigned(st, room)
    IN IF Full(st) THEN st
       ELSE IF Fits(p, room) THEN TakeBw(seen, p) ELSE seen

\* One turn of while(cores_allocated != MAX_CORES); good_neighbors takes the
\* first entry of the list without looking whether there is one.
PerfFairNeighbour(st) ==
    IF Full(st) THEN st
    ELSE IF st.all = <<>> THEN [st EXCEPT !.fault = "head"]
    ELSE TakeBw(st, Nearest(st))

PerfFairGang(order, nr) ==
    LET st == FoldLeft(PerfFairStep, Start(order, BwLimit), order)
    IN IF Full(st) \/ st.all = <<>> THEN st
       ELSE IF nr <= MaxCores THEN FillRestCores(st)
       ELSE FoldLeft(LAMBDA s, p : PerfFairNeighbour(s),
                     st, Append(st.all, st.all[1]))

(***************************************************************************)
(* fair_bw_cache: in order of progress; a gang gets either programs of     *)
(* class BW or of class CS.                                                *)
(***************************************************************************)
\* Mutant: a program of class CS does not look at bw_on.
AdmitsCs(st, p) ==
    /\ class[p] = "BW" => ~st.csOn /\ Fits(p, st.bw + BwSlack)
    /\ class[p] = "CS" => Llc[p] <= st.llc + LlcSlack

Admits(st, p) ==
    /\ class[p] = "BW" => ~st.csOn /\ Fits(p, st.bw + BwSlack)
    /\ class[p] = "CS" => ~st.bwOn /\ Llc[p] <= st.llc + LlcSlack
    /\ class[p] = "CNS" /\ st.csOn => Llc[p] <= st.llc + LlcSlack

Charge(st, p) ==
    CASE class[p] = "BW" -> [Unsigned(st, st.bw + BwSlack) EXCEPT !.bw = @ - Bw[p], !.bwOn = TRUE]
      [] class[p] = "CS" -> [st EXCEPT !.llc = @ - Llc[p], !.csOn = TRUE]
      [] class[p] = "CNS" -> [st EXCEPT !.llc = @ - Llc[p]]
      [] OTHER -> st

BwCacheStep(st, p) ==
    IF Full(st) \/ ~Admits(st, p) THEN st ELSE Place(Charge(st, p), p)

\* good_neighbors looks for programs of some classes.
Wanted(st) == {p \in Slots : class[p] \in IF st.bwOn THEN {"BW"} ELSE {"CS", "CNS"}}
Cost(st, p) == IF st.bwOn THEN Bw[p] ELSE Llc[p]

\* Mutant: the rest is not moved back to the list.
BwCacheNeighbourLoses(st) ==
    LET rest == Keep(st.all, Wanted(st))
        others == Keep(st.all, Slots \ Wanted(st))
    IN IF Full(st) THEN st
       ELSE IF rest = <<>> THEN FillRestCores(st)
       ELSE Place([st EXCEPT !.all = others], rest[1])

\* One turn of the loop: the programs of the wanted classes that are not
\* taken go back to the tail of the list.
BwCacheNeighbour(st) ==
    LET rest == Keep(st.all, Wanted(st))
        others == Keep(st.all, Slots \ Wanted(st))
        CostHere == [p \in Slots |-> Cost(st, p)]
    IN IF Full(st) THEN st
       ELSE IF rest = <<>> THEN FillRestCores(st)
       ELSE Place([st EXCEPT !.all = others \o rest], FirstLeast(rest, CostHere))

BwCacheGang(order, nr) ==
    LET st == FoldLeft(BwCacheStep, Start(order, BwLimit), order)
    IN IF Full(st) \/ st.all = <<>> THEN st
       ELSE IF nr <= MaxCores THEN FillRestCores(st)
       ELSE FoldLeft(LAMBDA s, p : BwCacheNeighbour(s), st, st.all)
=============================================================================
