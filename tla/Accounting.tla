----------------------------- MODULE Accounting -----------------------------
(* The books of the gang schedulers: the two clocks of a program, the      *)
(* instructions the counters of its cores charge it with, the totals of its *)
(* slot.  Executor has the life cycle step by step, Counters the calls that *)
(* measure a quantum and the counters of the package; here a tick           *)
(* (freeze_sched, schedule, thaw_sched) is one step, since SIGCHLD is       *)
(* blocked while it lasts.                                                  *)
(*                                                                          *)
(* The freezer is taken to act at once, so that counters never count for a  *)
(* program that has been told to freeze; Executor has the slow freezer.     *)
(*                                                                          *)
(* now, lived, ran, retired, monitored, misread and thawedAt are what       *)
(* an observer outside the program would write down; nothing reads them but *)
(* the bounds and the properties.                                           *)
EXTENDS Integers, FiniteSets, Sequences, Functions

CONSTANTS
    Slots,          \* the programs of the configuration file
    Cores,          \* number of cores, MAX_CORES in the code
    CpusNr,         \* the cpus that have counters
    CoresNeeded,    \* cores of each program
    Work,           \* target_instr of a slot
    RespawnAbove,   \* the 10^9 of respawn: what is worth another instance
    MaxTime         \* bound of a run

ASSUME AccountingAssumption ==
    /\ Cores \in Nat \ {0} /\ CoresNeeded \in [Slots -> Nat \ {0}]
    /\ CpusNr \in Nat /\ \A s \in Slots : Cores - 1 + CoresNeeded[s] <= CpusNr
    /\ Work \in Nat \ {0} /\ RespawnAbove \in Nat
    /\ MaxTime \in Nat

VARIABLES
    life,           \* "alive", "dead" (not reaped), "new", "killed", "ended"
    gang,           \* progs_sch
    overdue,        \* died before a tick, to be reaped before the next
    cpus,           \* cpuset of a program, of its last gang once it left
    monitor_wnd,
    clock,          \* run_status and tm_* of each program
    target_instr,
    events_tmp,     \* what the counters charged the instance with
    total_instr, total_rtime, total_wtime,
    counterRegister, counterData,
    now, lived, ran, retired, monitored, misread, thawedAt

progVars  == <<life, gang, overdue, cpus, monitor_wnd>>
clockVars == <<clock, total_rtime, total_wtime>>
instrVars == <<target_instr, events_tmp, total_instr, counterRegister, counterData>>
seenVars  == <<lived, ran, retired, monitored, misread>>
vars == <<progVars, clockVars, instrVars, seenVars, now, thawedAt>>

CpuIds  == 0..(CpusNr - 1)
Listed  == {s \in Slots : life[s] \in {"alive", "dead"}}

\* What the counters of a program's cpuset hold.
Held(s, cnt) == SumFunctionOnSet(cnt, cpus[s])

------------------------------------------------------------------------------
(* The clocks of a program.                                                *)

sched_init_clock(t) ==
    [status |-> "STOPED", wstart |-> t, rstart |-> t, running |-> 0, waiting |-> 0]

sched_start_clock(c, t) ==
    IF c.status = "RUNNING" THEN c
    ELSE [c EXCEPT !.rstart = t, !.waiting = @ + (t - c.wstart)]

sched_stop_clock(c, t) ==
    IF c.status = "STOPED" THEN c
    ELSE [c EXCEPT !.wstart = t, !.running = @ + (t - c.rstart)]

sched_update_clock(c, t) == sched_stop_clock(sched_start_clock(c, t), t)

\* What thaw_sched and freeze_sched do to the clock of a gang member; in the
\* mutant run_status is set before the clock is updated.
ThawClock(c)   == [sched_update_clock(c, now) EXCEPT !.status = "RUNNING"]
FreezeClockEarly(c) == sched_update_clock([c EXCEPT !.status = "STOPED"], now)
FreezeClock(c) == [sched_update_clock(c, now) EXCEPT !.status = "STOPED"]

------------------------------------------------------------------------------
\* Every program of the file is running and none is in a gang yet.
Init ==
    /\ life = [s \in Slots |-> "alive"]
    /\ gang = {} /\ overdue = {}
    /\ cpus = [s \in Slots |-> CpuIds]      \* do_execute
    /\ monitor_wnd = 0
    /\ clock = [s \in Slots |-> sched_init_clock(0)]
    /\ target_instr = [s \in Slots |-> Work]
    /\ events_tmp = [s \in Slots |-> 0] /\ total_instr = events_tmp
    /\ total_rtime = events_tmp /\ total_wtime = events_tmp
    /\ lived = events_tmp /\ ran = events_tmp
    /\ retired = events_tmp /\ monitored = events_tmp
    /\ counterRegister = [c \in CpuIds |-> 0]
    /\ counterData = [c \in CpuIds |-> 0]
    /\ now = 0 /\ thawedAt = 0 /\ misread = {}

\* Time passes: the programs of the gang may retire instructions on the cpus
\* they have, those that exited do not.
Elapse(busy) ==
    /\ now < MaxTime
    /\ busy \subseteq UNION {cpus[s] : s \in {t \in gang : life[t] = "alive"}}
    /\ now' = now + 1
    /\ lived' = [s \in Slots |-> lived[s] + (IF s \in Listed THEN 1 ELSE 0)]
    /\ ran' = [s \in Slots |-> ran[s] + (IF s \in gang THEN 1 ELSE 0)]
    /\ retired' = [s \in Slots |-> retired[s] +
                     (IF s \in gang \ misread THEN Cardinality(busy \cap cpus[s]) ELSE 0)]
    /\ counterRegister' = [c \in CpuIds |-> counterRegister[c] +
                             (IF c \in busy THEN 1 ELSE 0)]
    /\ UNCHANGED <<progVars, clockVars, target_instr, events_tmp, total_instr,
                   counterData, thawedAt, monitored, misread>>

\* A program exits; it has executed something by then.
Exit(s) ==
    /\ s \in gang /\ life[s] = "alive"
    /\ events_tmp[s] + Held(s, counterRegister) > 0
    /\ life' = [life EXCEPT ![s] = "dead"]
    /\ UNCHANGED <<gang, overdue, cpus, monitor_wnd, clockVars, instrVars,
                   seenVars, now, thawedAt>>

------------------------------------------------------------------------------
(* A tick.                                                                 *)

monitoring_phase(wnd, nr) == wnd <= nr
Monitors == monitoring_phase(monitor_wnd, Cardinality(Listed))

\* freeze_sched reads all counters and charges each member of the gang with
\* those of its cpuset; a quantum in which a program is monitored is free, but
\* not in the mutant.
ChargedAlways(s) == target_instr[s] - Held(s, counterRegister)
Charged(s) == IF Monitors THEN target_instr[s]
                          ELSE target_instr[s] - Held(s, counterRegister)
Reached == IF Monitors THEN {} ELSE {s \in gang : Charged(s) <= 0}

Frozen(s) == IF s \in gang THEN FreezeClock(clock[s]) ELSE clock[s]

\* sched_update_totals: what a slot gets when its program ends.
UpdateTotals(ended, clk, events) ==
    /\ total_instr' = [s \in Slots |-> total_instr[s] + (IF s \in ended THEN events[s] ELSE 0)]
    /\ total_rtime' = [s \in Slots |-> total_rtime[s] + (IF s \in ended THEN clk[s].running ELSE 0)]
    /\ total_wtime' = [s \in Slots |-> total_wtime[s] + (IF s \in ended THEN clk[s].waiting ELSE 0)]

\* kill_app for the programs that reached their target, the others go back to
\* progs_all.
FreezeSched ==
    /\ counterData' = counterRegister
    /\ target_instr' = [s \in Slots |-> IF s \in gang THEN Charged(s) ELSE target_instr[s]]
    /\ events_tmp' = [s \in Slots |-> events_tmp[s] +
                        (IF s \in gang THEN Held(s, counterRegister) ELSE 0)]
    /\ life' = [s \in Slots |-> IF s \in Reached THEN "killed" ELSE life[s]]
    /\ overdue' = {s \in Listed \ Reached : life[s] = "dead"}
    /\ UpdateTotals(Reached, [s \in Slots |-> Frozen(s)], events_tmp')
    /\ monitored' = [s \in Slots |-> monitored[s] +
                       (IF s \in gang /\ Monitors THEN Held(s, counterRegister) ELSE 0)]

\* The cores before the i-th program of a choice.
Allocated(order, i) ==
    SumFunctionOnSet([j \in DOMAIN order |-> CoresNeeded[order[j]]], 1..(i - 1))

\* schedule: a policy picks programs one after the other while cores are left;
\* monitor picks one, on the next core.
Choices(pool) ==
    {order \in UNION {[1..k -> pool] : k \in 0..Cores} :
       /\ IsInjective(order)
       /\ \A i \in DOMAIN order : Allocated(order, i) < Cores
       /\ pool # {} => order # <<>>}

Schedule(order, wnd, pool) ==
    /\ order \in Choices(pool)
    /\ gang' = Range(order)
    /\ \/ /\ monitoring_phase(wnd, Cardinality(pool)) /\ pool # {}
          /\ Len(order) = 1
          /\ cpus' = [cpus EXCEPT ![order[1]] =
                        (wnd % Cores)..((wnd % Cores) + CoresNeeded[order[1]] - 1)]
          /\ monitor_wnd' = wnd + 1
       \/ /\ ~monitoring_phase(wnd, Cardinality(pool)) \/ pool = {}
          /\ cpus' = [s \in Slots |->
                IF s \in Range(order)
                  THEN LET from == Allocated(order, CHOOSE i \in DOMAIN order : order[i] = s)
                       IN  from..(from + CoresNeeded[s] - 1)
                  ELSE cpus[s]]
          /\ monitor_wnd' = wnd

\* thaw_sched starts the clocks of the new gang and all counters from zero.
ThawSched(next, clk) ==
    /\ clock' = [s \in Slots |-> CASE s \in next    -> ThawClock(clk[s])
                                   [] s \in Reached -> sched_init_clock(0)
                                   [] OTHER         -> clk[s]]
    /\ counterRegister' = [c \in CpuIds |-> 0]
    /\ thawedAt' = now

Tick(order) ==
    /\ overdue = {} /\ now # thawedAt
    /\ FreezeSched
    /\ LET pool == Listed \ Reached
           wnd  == IF monitor_wnd = Cardinality(pool) THEN monitor_wnd + 1 ELSE monitor_wnd
       IN  Schedule(order, wnd, pool)
    /\ ThawSched(Range(order), [s \in Slots |-> Frozen(s)])
    /\ UNCHANGED <<now, lived, ran, retired, misread>>

------------------------------------------------------------------------------
(* rebalance.                                                              *)

\* Only the first counter of the program's cpuset is read anew (NotRead, a
\* mutant: none is).
NotRead(s) == counterData
ReadAtExit(s) ==
    LET cpu == CHOOSE c \in cpus[s] : \A d \in cpus[s] : c <= d
    IN  [counterData EXCEPT ![cpu] = counterRegister[cpu]]

\* A program that exited is reaped: it is charged with what the counters of its
\* cpuset hold, also when they count for another gang by now, and started again
\* if its slot owes more than RespawnAbove.
Rebalance(s) ==
    /\ life[s] = "dead"
    /\ counterData' = ReadAtExit(s)
    /\ LET charge == Held(s, counterData')
           ended  == sched_update_clock(clock[s], now)
           events == [events_tmp EXCEPT ![s] = @ + charge]
       IN  /\ target_instr' = [target_instr EXCEPT ![s] = @ - charge]
           /\ UpdateTotals({s}, [clock EXCEPT ![s] = ended], events)
    /\ life' = [life EXCEPT ![s] = IF target_instr'[s] > RespawnAbove THEN "new" ELSE "ended"]
    /\ events_tmp' = [events_tmp EXCEPT ![s] = 0]
    /\ clock' = [clock EXCEPT ![s] = sched_init_clock(0)]
    /\ gang' = gang \ {s} /\ overdue' = overdue \ {s}
    /\ misread' = IF s \notin gang \/ CoresNeeded[s] > 1 THEN misread \cup {s} ELSE misread
    /\ UNCHANGED <<cpus, monitor_wnd, counterRegister, thawedAt,
                   now, lived, ran, retired, monitored>>

\* sched_add_prog for the new instance.
AddProg(s) ==
    /\ life[s] = "new"
    /\ life' = [life EXCEPT ![s] = "alive"]
    /\ cpus' = [cpus EXCEPT ![s] = CpuIds]
    /\ clock' = [clock EXCEPT ![s] = sched_init_clock(now)]
    /\ UNCHANGED <<gang, overdue, monitor_wnd, total_rtime, total_wtime,
                   instrVars, seenVars, now, thawedAt>>

Next ==
    \/ \E busy \in SUBSET CpuIds : Elapse(busy)
    \/ \E order \in UNION {[1..k -> Slots] : k \in 0..Cores} : Tick(order)
    \/ \E s \in Slots : Exit(s) \/ Rebalance(s) \/ AddProg(s)

Spec == Init /\ [][Next]_vars

------------------------------------------------------------------------------
(* Properties.                                                             *)

TypeOK ==
    /\ life \in [Slots -> {"alive", "dead", "new", "killed", "ended"}]
    /\ gang \subseteq Listed /\ overdue \subseteq Slots
    /\ cpus \in [Slots -> SUBSET CpuIds]
    /\ monitor_wnd \in Nat
    /\ \A s \in Slots : clock[s].status = IF s \in gang THEN "RUNNING" ELSE "STOPED"
    /\ \A s \in Slots : clock[s].running \in Nat /\ clock[s].waiting \in Nat
    /\ target_instr \in [Slots -> Int]
    /\ events_tmp \in [Slots -> Nat] /\ total_instr \in [Slots -> Nat]
    /\ total_rtime \in [Slots -> Nat] /\ total_wtime \in [Slots -> Nat]
    /\ counterRegister \in [CpuIds -> Nat] /\ counterData \in [CpuIds -> Nat]

\* tm_running and tm_waiting share out the life of a program: together with
\* the totals of its earlier instances and the interval that is open they are
\* the time the slot's programs spent in a gang and out of one, through every
\* tick, exit, kill and respawn.
OpenRunning(s) == clock[s].running + (IF s \in gang THEN now - clock[s].rstart ELSE 0)
OpenWaiting(s) == clock[s].waiting + (IF s \in gang THEN 0 ELSE now - clock[s].wstart)
ClockExact ==
    /\ TypeOK
    /\ \A s \in Slots :
         /\ total_rtime[s] + (IF s \in Listed THEN OpenRunning(s) ELSE 0) = ran[s]
         /\ total_wtime[s] + (IF s \in Listed THEN OpenWaiting(s) ELSE 0) = lived[s] - ran[s]

\* The two records of a slot's instructions, total_instr from events_tmp and
\* target_instr from instr_retd, differ by what the slot did while monitored.
TotalsAgree ==
    \A s \in Slots :
        total_instr[s] + (IF s \in Listed THEN events_tmp[s] ELSE 0)
          = monitored[s] + (Work - target_instr[s])

\* A slot whose programs had one core, and were reaped in the quantum of their
\* exit, is charged with its own instructions, all of them and each once.
ChargedOwn ==
    \A s \in Slots \ misread :
        total_instr[s] + (IF s \in Listed THEN events_tmp[s] ELSE 0)
                       + (IF s \in gang THEN Held(s, counterRegister) ELSE 0) = retired[s]

------------------------------------------------------------------------------
(* The inductive invariant of Accounting_proofs.                           *)

\* No clock was started or stopped in the future; a new instance has been
\* charged with nothing; and a gang member of one core has one, so that the one
\* counter that is read at its exit is all there is.
ClockValues == [status : {"RUNNING", "STOPED"}, wstart : Nat, rstart : Nat,
                running : Nat, waiting : Nat]
BookInv ==
    /\ now \in Nat /\ clock \in [Slots -> ClockValues]
    /\ lived \in [Slots -> Nat] /\ ran \in [Slots -> Nat]
    /\ retired \in [Slots -> Nat] /\ monitored \in [Slots -> Nat]
    /\ \A s \in Slots : clock[s].rstart <= now /\ clock[s].wstart <= now
    /\ \A s \in Slots : life[s] = "new" => events_tmp[s] = 0
    /\ \A s \in gang : CoresNeeded[s] = 1 => \E c \in CpuIds : cpus[s] = {c}

IInv == ClockExact /\ TotalsAgree /\ ChargedOwn /\ BookInv
=============================================================================
