------------------------------ MODULE Counters ------------------------------
(* How a quantum is measured: freeze_sched, schedule, thaw_sched and        *)
(* rebalance of the gang schedulers, call by call, over the counters of the *)
(* cpus (prfcnt_xeon.h), the statistics of the programs (stats.c), and the  *)
(* counters of the package, its memory controller and its energy.  Programs *)
(* execute, exit and come to a stop between any two of these calls; module  *)
(* Accounting takes a tick in one step and has the clocks.                  *)
(*                                                                          *)
(* A loop over the cpus that touches one of them at a time is one step.     *)
(* counted, misread, startedAt and span are what an observer would write    *)
(* down: the program does not have them.                                    *)
EXTENDS Integers, FiniteSets, Functions

CONSTANTS
    Progs,      \* the programs
    Cpus,       \* the cpus that have counters
    CoresNeeded,\* cores of each program
    EnergyMod,  \* the energy counter has 32 bits
    EnergyAtStart, \* what it holds when the executor starts
    MaxWork     \* bound: instructions executed in a run

ASSUME CountersAssumption ==
    /\ Cpus \subseteq Nat /\ IsFiniteSet(Cpus)
    /\ CoresNeeded \in [Progs -> Nat \ {0}]
    /\ EnergyMod \in Nat \ {0} /\ EnergyAtStart \in 0..(EnergyMod - 1) /\ MaxWork \in Nat

VARIABLES
    pc,         \* the next call of the tick, "idle" between two ticks
    todo,       \* programs the loop of the tick has yet to handle
    life,       \* "alive", "dead" (not reaped), "gone", "killed"
    overdue,    \* dead when the last tick ended: reaped before the next
    gang,       \* progs_sch
    cpus,       \* cpuset of a program
    thawed,     \* programs of a THAWED cgroup
    freezing,   \* told to freeze, not yet stopped by the kernel
    on,         \* the enable bits of MSR_PERF_GLOBAL_CTRL
    counterRegister, counterData,
    ticked,     \* cpus whose running[] of a program has ticks
    events, events_tmp,
    work,       \* instructions executed: memory reads and energy go with them
    previousMCNormalReads, UncMCNormalReads,
    prev_energy, pkg_energy,
    counted, misread, startedAt, span

progVars == <<life, overdue, gang, cpus, thawed, freezing>>
hwVars   == <<on, counterRegister, counterData>>
statVars == <<ticked, events, events_tmp>>
offVars  == <<previousMCNormalReads, UncMCNormalReads, prev_energy, pkg_energy,
              startedAt, span>>
seenVars == <<counted, misread>>
vars == <<pc, todo, progVars, hwVars, statVars, work, offVars, seenVars>>

Zero == [c \in Cpus |-> 0]

\* Every program is there, frozen; the counters are stopped and zero, and
\* those of the package have been started.
Init ==
    /\ pc = "idle" /\ todo = {}
    /\ life = [p \in Progs |-> "alive"]
    /\ overdue = {} /\ gang = {} /\ thawed = {} /\ freezing = {}
    /\ cpus = [p \in Progs |-> Cpus]             \* do_execute
    /\ on = [c \in Cpus |-> FALSE]
    /\ counterRegister = Zero /\ counterData = Zero
    /\ ticked = [p \in Progs |-> {}]
    /\ events = [p \in Progs |-> Zero] /\ events_tmp = events
    /\ counted = events /\ misread = {}
    /\ work = 0
    /\ previousMCNormalReads = 0 /\ UncMCNormalReads = 0
    /\ prev_energy = EnergyAtStart /\ pkg_energy = 0
    /\ startedAt = 0 /\ span = 0

------------------------------------------------------------------------------
(* Programs, the kernel and the hardware.                                  *)

\* A program retires an instruction on one of its cpus, until it has stopped.
Execute(p, c) ==
    /\ p \in thawed \cup freezing /\ life[p] = "alive" /\ c \in cpus[p]
    /\ work < MaxWork /\ work + 1 - startedAt < EnergyMod
    /\ work' = work + 1
    /\ counterRegister' = [counterRegister EXCEPT ![c] = IF on[c] THEN @ + 1 ELSE @]
    /\ counted' = [counted EXCEPT ![p][c] = IF on[c] THEN @ + 1 ELSE @]
    /\ UNCHANGED <<pc, todo, progVars, on, counterData, statVars, offVars, misread>>

Exit(p) ==
    /\ p \in thawed \cup freezing /\ life[p] = "alive"
    /\ life' = [life EXCEPT ![p] = "dead"]
    /\ UNCHANGED <<pc, todo, overdue, gang, cpus, thawed, freezing, hwVars, statVars,
                   work, offVars, seenVars>>

\* The freezer has stopped a program.
Stopped(p) ==
    /\ p \in freezing
    /\ freezing' = freezing \ {p}
    /\ UNCHANGED <<pc, todo, life, overdue, gang, cpus, thawed, hwVars, statVars,
                   work, offVars, seenVars>>

------------------------------------------------------------------------------
(* The counters of the package.                                            *)

Joules == (EnergyAtStart + work) % EnergyMod

\* The difference of two readings; the mutant is one short where it wrapped.
EnergySinceShort(prev) ==
    IF Joules >= prev THEN Joules - prev ELSE (EnergyMod - 1 - prev) + Joules
EnergySince(prev) ==
    IF Joules >= prev THEN Joules - prev ELSE (EnergyMod - prev) + Joules

startMCCounters == previousMCNormalReads' = work
stopMCCounters  == UncMCNormalReads' = work - previousMCNormalReads
startPower      == prev_energy' = Joules
stopPower       == pkg_energy' = EnergySince(prev_energy)

StopPackage ==
    /\ stopMCCounters /\ stopPower
    /\ span' = work - startedAt
    /\ UNCHANGED <<previousMCNormalReads, prev_energy, startedAt>>

StartPackage ==
    /\ startMCCounters /\ startPower
    /\ startedAt' = work
    /\ UNCHANGED <<UncMCNormalReads, pkg_energy, span>>

------------------------------------------------------------------------------
(* The statistics of a program.                                            *)

\* ss_aff_stats_pause and ss_aff_stats_read of p, given the readings.
PauseAndRead(p, readings) ==
    /\ ticked' = [ticked EXCEPT ![p] = @ \cup cpus[p]]
    /\ events' = [events EXCEPT ![p] =
                    [c \in Cpus |-> IF c \in cpus[p] THEN readings[c] ELSE @[c]]]
    /\ events_tmp' = [events_tmp EXCEPT ![p] =
                        [c \in Cpus |-> IF c \in cpus[p] THEN @[c] + readings[c] ELSE @[c]]]

ss_get_counter(p) == SumFunctionOnSet(events[p], ticked[p])
get_total_instr(p) == SumFunctionOnSet(events_tmp[p], Cpus)

\* ss_aff_zero_stats; the mutant leaves what other cpus gave.
ZeroStatsKept(p) == events
ZeroStats(p) == [events EXCEPT ![p] = Zero]

------------------------------------------------------------------------------
(* A tick, from freeze_sched on.  A child that was dead when the last tick  *)
(* ended is reaped as soon as the loop unblocks SIGCHLD, so before this one. *)

StopCounters ==
    /\ pc = "idle" /\ overdue = {} /\ pc' = "stopped"
    /\ on' = [c \in Cpus |-> FALSE]
    /\ UNCHANGED <<todo, progVars, counterRegister, counterData, statVars, work, offVars, seenVars>>

ReadCounters ==
    /\ pc = "stopped" /\ pc' = "read"
    /\ counterData' = counterRegister
    /\ UNCHANGED <<todo, progVars, on, counterRegister, statVars, work, offVars, seenVars>>

GetOffcore ==
    /\ pc = "read" /\ pc' = "freeze"
    /\ StopPackage
    /\ UNCHANGED <<todo, progVars, hwVars, statVars, work, seenVars>>

FreezePrograms ==
    /\ pc = "freeze" /\ pc' = "account"
    /\ freezing' = freezing \cup {p \in thawed : life[p] = "alive"}
    /\ thawed' = {}
    /\ todo' = gang
    /\ UNCHANGED <<life, overdue, gang, cpus, hwVars, statVars, work, offVars, seenVars>>

\* One turn of the loop over the gang: a program that has reached its target is
\* killed, the others go back to progs_all.
Account(p, kill) ==
    /\ pc = "account" /\ p \in todo
    /\ todo' = todo \ {p} /\ gang' = gang \ {p}
    /\ PauseAndRead(p, counterData)
    /\ life' = IF kill THEN [life EXCEPT ![p] = "killed"] ELSE life
    /\ UNCHANGED <<pc, overdue, cpus, thawed, freezing, hwVars, work, offVars, seenVars>>

\* schedule: the programs of the next gang get cpus of their own, one after the
\* other.  Which ones is up to the policies.
Ranges(p) == {s \in {c..(c + CoresNeeded[p] - 1) : c \in Cpus} : s \subseteq Cpus}

Schedule(chosen, place) ==
    /\ pc = "account" /\ todo = {} /\ pc' = "thaw"
    /\ chosen \subseteq {p \in Progs : life[p] \in {"alive", "dead"}}
    /\ \A p \in chosen : place[p] \in Ranges(p)
    /\ \A p, q \in chosen : p # q => place[p] \cap place[q] = {}
    /\ gang' = chosen /\ todo' = chosen
    /\ cpus' = [p \in Progs |-> IF p \in chosen THEN place[p] ELSE cpus[p]]
    /\ UNCHANGED <<life, overdue, thawed, freezing, hwVars, statVars, work, offVars, seenVars>>

\* One turn of the loop of thaw_sched.
Thaw(p) ==
    /\ pc = "thaw" /\ p \in todo
    /\ todo' = todo \ {p}
    /\ events' = ZeroStats(p)
    /\ thawed' = thawed \cup {p} /\ freezing' = freezing \ {p}
    /\ UNCHANGED <<pc, life, overdue, gang, cpus, hwVars, ticked, events_tmp, work, offVars, seenVars>>

\* ss_aff_zero_cntrs; the mutant leaves the counts of the last quantum.
ZeroedNot == counterRegister
Zeroed == Zero

ZeroCounters ==
    /\ pc = "thaw" /\ todo = {} /\ pc' = "start"
    /\ counterRegister' = Zeroed
    /\ UNCHANGED <<todo, progVars, on, counterData, statVars, work, offVars, seenVars>>

\* By now the kernel has stopped whom freeze_sched told to freeze: between the
\* two the tick sorts, prints and moves tasks between cpusets.  The code does
\* not wait for it; if it took longer, the instructions of a program on its way
\* out would be charged to the one that got its cpu.
StartCounters ==
    /\ pc = "start" /\ freezing = {} /\ pc' = "power"
    /\ on' = [c \in Cpus |-> TRUE]
    /\ UNCHANGED <<todo, progVars, counterRegister, counterData, statVars, work, offVars, seenVars>>

EndThaw ==
    /\ pc = "power" /\ pc' = "idle"
    /\ StartPackage
    /\ overdue' = {p \in Progs : life[p] = "dead"}
    /\ UNCHANGED <<todo, life, gang, cpus, thawed, freezing, hwVars, statVars, work, seenVars>>

Tick ==
    \/ StopCounters \/ ReadCounters \/ GetOffcore \/ FreezePrograms
    \/ \E p \in Progs, kill \in BOOLEAN : Account(p, kill)
    \/ \E chosen \in SUBSET Progs : \E place \in [chosen -> SUBSET Cpus] : Schedule(chosen, place)
    \/ \E p \in Progs : Thaw(p)
    \/ ZeroCounters \/ StartCounters \/ EndThaw

------------------------------------------------------------------------------
(* rebalance, between two ticks.                                           *)

\* pd->cpu, the first of the cpuset.
cpu(p) == CHOOSE c \in cpus[p] : \A d \in cpus[p] : c <= d

\* Only this counter is stopped, read and started; the rest of counterData is
\* what the last tick has read.
ReadCpu(c) == [counterData EXCEPT ![c] = counterRegister[c]]

\* A program that has exited; that is right if it had one cpu and still has it.
Rebalance(p) ==
    /\ pc = "idle" /\ life[p] = "dead"
    /\ life' = [life EXCEPT ![p] = "gone"]
    /\ on' = [on EXCEPT ![cpu(p)] = TRUE]
    /\ counterData' = ReadCpu(cpu(p))
    /\ StopPackage
    /\ PauseAndRead(p, counterData')
    /\ gang' = gang \ {p} /\ overdue' = overdue \ {p} /\ thawed' = thawed \ {p}
    /\ misread' = IF p \notin gang \/ CoresNeeded[p] > 1 THEN misread \cup {p} ELSE misread
    /\ UNCHANGED <<pc, todo, cpus, freezing, counterRegister, work, counted>>

\* sched_prog_alloc for the next instance.
AddProg(p) ==
    /\ pc = "idle" /\ life[p] = "gone"
    /\ life' = [life EXCEPT ![p] = "alive"]
    /\ cpus' = [cpus EXCEPT ![p] = Cpus]
    /\ ticked' = [ticked EXCEPT ![p] = {}]
    /\ events' = [events EXCEPT ![p] = Zero]
    /\ events_tmp' = [events_tmp EXCEPT ![p] = Zero]
    /\ counted' = [counted EXCEPT ![p] = Zero]
    /\ misread' = misread \ {p}
    /\ UNCHANGED <<pc, todo, overdue, gang, thawed, freezing, hwVars, work, offVars>>

Next ==
    \/ Tick
    \/ \E p \in Progs : Rebalance(p) \/ AddProg(p) \/ Exit(p) \/ Stopped(p)
    \/ \E p \in Progs, c \in Cpus : Execute(p, c)

Spec == Init /\ [][Next]_vars

------------------------------------------------------------------------------
(* Properties.                                                             *)

PcValues == {"idle", "stopped", "read", "freeze", "account", "thaw", "start", "power"}
PerCpu == [Progs -> [Cpus -> Nat]]

TypeOK ==
    /\ pc \in PcValues /\ todo \subseteq gang /\ gang \subseteq Progs
    /\ life \in [Progs -> {"alive", "dead", "gone", "killed"}]
    /\ overdue \subseteq Progs
    /\ cpus \in [Progs -> SUBSET Cpus] /\ ticked \in [Progs -> SUBSET Cpus]
    /\ thawed \subseteq Progs /\ freezing \subseteq Progs
    /\ on \in [Cpus -> BOOLEAN]
    /\ counterRegister \in [Cpus -> Nat] /\ counterData \in [Cpus -> Nat]
    /\ events \in PerCpu /\ events_tmp \in PerCpu /\ counted \in PerCpu
    /\ work \in Nat /\ startedAt \in 0..work
    /\ misread \subseteq Progs

\* What the quantum has counted for p on c and has not charged to it yet.
Pending(p, c) ==
    IF p \notin gang \/ c \notin cpus[p] \/ pc \in {"thaw", "start"} THEN 0
    ELSE IF pc \in {"read", "freeze", "account"} THEN counterData[c]
    ELSE counterRegister[c]

\* A program is charged, cpu by cpu, with exactly what it has executed while the
\* counters were on: nothing of another program, nothing twice and nothing of
\* an earlier quantum, whatever runs between the calls of a tick.  Left out are
\* the programs whose exit rebalance reads wrongly, see Rebalance.
BillExact ==
    /\ TypeOK
    /\ \A p \in Progs \ misread, c \in Cpus :
         events_tmp[p][c] + Pending(p, c) = counted[p][c]

\* The two ways the instructions of a quantum are summed agree: ss_get_counter,
\* which adds the events of every cpu the program was ever on and pays for the
\* target, and events_tmp, which makes the total.
RetdExact ==
    [][\A p \in Progs :
         Rebalance(p) \/ (\E kill \in BOOLEAN : Account(p, kill))
           => ss_get_counter(p)' = get_total_instr(p)' - get_total_instr(p)]_vars

\* The memory reads and the energy of a quantum, or of the part of it that ends
\* with an exit, are those since thaw_sched started the two counters, also when
\* the 32 bits of the energy counter have wrapped.
OffcoreExact == UncMCNormalReads = span /\ pkg_energy = span
=============================================================================
