# A TLA+ model of the BACH scheduler

`aff-executor` runs the programs of a configuration file on a set of cores and
decides, quantum by quantum, which of them run together. This directory models
the executor and its scheduling policies in TLA+, checks the models with TLC on
small instances and proves with TLAPS what can be proved for all of them.
Paths below are relative to the repository (`src/aff-executor.c` is the main
program, `src/scheds/` the policies).

## 1. Inventory

| Component | Source | State | Operations | What is hard |
|---|---|---|---|---|
| Executor loop | `src/aff-executor.c` | `ExecSt`: `pnew_l`, `pfinished_l`, `waiting_nr`, `new_nr`, `running_nr`, `prog_pid_hash`, event heap, `massacre` | `main`, `handle_events`, `select_ready_events`, `check_shutdown`, `shutdown` | one process, but its signal handler runs the scheduler from inside `select` |
| Signal handlers | `src/aff-executor.c` | pending SIGCHLD (one bit for any number of deaths) | `sigchld_handler`, `sigterm_handler`, `signals_disable/enable` | coalesced signals, early exits of the `waitpid` loop |
| Program start | `src/aff-executor.c`, `src/aff-executor-preload.c`, `src/freezer.c`, `src/aff_shm.h` | the program's cgroup state, the shared page (`app_pid`, pipe ends) | `do_execute`, `affhooks_init`, `frzr_setstate/getstate` | parent and child synchronise through a cgroup file and a shared page |
| Gang life cycle | `src/scheds/perf.c`, `fair.c`, `perf_fair.c`, `fair_bw_cache.c`, `common.c` | `sched_t`: `progs_all`, `progs_sch`, `progs_left`, `progs_nr`, `monitor_wnd`, `stop_execution`, `target_instr` | `thaw_sched`, `freeze_sched`, `kill_app`, `kill_all`, `respawn`, `rebalance`, `qexpired` | a kill at the target races with the exit of the same program |
| Gang policies | the same files | `ratio`, `waiting_time`, `fitness`, order of the lists, core ranges | `monitor`, `schedule`, `max_waiting`, `max_fitness`, `good_neighbors`, `fill_rest_cores` | starvation, loops that end on an exact count of cores |
| Linux policy | `src/scheds/linux.c` | one list, `times_target`, `average_rtime` | `linux_rebalance`, `linux_qexpired` | the tick kills programs that the handler has not reaped yet |
| Event heap | `src/heap.c` | an array used as a binary heap | push, peek, pop, pop of an element | an element's key changes while it is in the heap |
| Pid table | `src/hash.c` | an array of buckets, each a linked list | `hash_insert`, `hash_lookup`, `hash_delete`, `hash_swap` | unlinking through a `prev` pointer, replacement on insert, keys that are the pid of a shell or of the program |
| Sorting | `src/scheds/c_qsort.c`, `src/list.h` | a linked list | `partition`, `quicksort` | sorting in place by relinking |
| Clocks and totals | `src/scheds/common.c`, `src/prfcnt/tsc.h` | `tm_*`, `run_status`, totals per slot | `sched_*_clock`, `sched_update_totals`, `sched_print_totals` | an interval counted twice or not at all; wrap-around |
| Notifications | `src/aff-executor.c`, `src/aff-executor-preload.c` | two pipes, the shared page | `handle_prog_notifications`, `affhook_region_notify` | a handler with signals enabled; a program waiting for an answer |
| Counters | `src/stats.c`, `src/prfcnt/` | MSRs, energy and memory-controller counters, `events`, `events_tmp` | start, stop, read, pause | counters that wrap; a counter read when it counts for somebody else |
| Hardware control | `src/intel_technologies.c`, `src/stats.c` | device registers | CPUID, prefetchers, turbo mode | nothing that a model would show |
| Parsing and printing | `src/aff-executor.c`, `src/scheds/common.c` | `id`, `init_id`, `waiting_nr` | `parse_file`, `parse_line`, `parse_intlist`, `sched_print_*` | a file that is rejected when half of its programs have started; otherwise text handling |
| Scheduler registry | `src/aff-executor.h`, `src/aff-executor.c` | a list of constructors' entries | `REGISTER_SCHEDULER`, `get_scheduler` | an unknown name is found out after the programs have started |
| Growing arrays | `src/dynarray.c` | `elems_nr`, `alloc_nr` | `dynarray_alloc`, `dynarray_dealloc` | growing before the element is written |

Interaction: `main` pops due events and calls the scheduler's hooks `qexpired`
and `rebalance`; the SIGCHLD handler reaps the dead children, calls `rebalance`
and may end the process; the scheduler calls back into the executor
(`prog_respawn`, `aff_prog_new_running`), into the freezer and into the event
heap. Everything is one thread, so the interleavings are those of the signal
handler with `select`, of the kernel's freezer, and of the programs.

The properties that make each part right:

- executor and life cycle: every configuration line is brought to its target
  or finishes, is counted off once, and the executor exits then and not before;
  nobody runs outside the gang; the scheduler is finalized once;
- policies: nobody starves, cores are neither idle nor over-committed, the
  limits on bandwidth and cache hold, no division by zero, no list entry taken
  from an empty list;
- linux policy: each line completes its number of times, files are used while open;
- event heap: each event is handled once, in order, not before its time;
- pid table: it is a map; sorting: a sorted permutation;
- start and notifications: no freeze overtakes a thaw, each request is answered
  once, no id is shared, a rejected configuration leaves nobody running;
- clocks and totals: every interval is entered once, and the totals of a slot agree;
- counters: a program is charged, cpu by cpu, with exactly what it has executed.

## 2. Modules

Each row is a module; "MC" modules only give constants their values for TLC.

| Module | Models | Used by |
|---|---|---|
| `Lifecycle` | abstract: slots complete one at a time, then the executor exits | refined by `Executor` |
| `Executor` | `main`, handlers, the life cycle of a program under a gang scheduler | `Executor_proofs`, `MCExecutor` |
| `Executor_proofs` | theorems about `Executor` | |
| `GangPolicies` | the choice of a gang: the four `xxx_schedule` functions | `GangQuanta` |
| `QuickSort` | `c_qsort.c` as a recursive function | `GangQuanta` |
| `GangQuanta` | quantum after quantum of a policy: monitoring, progress, waiting times | `GangQuanta_proofs`, `MCGangQuanta` |
| `GangQuanta_proofs` | theorems about `GangQuanta`, `GangPolicies` and `QuickSort` | |
| `LinuxSched` | the executor with the `linux` policy | `LinuxSched_proofs`, `MCLinuxSched` |
| `LinuxSched_proofs` | theorems about `LinuxSched` | |
| `EventQueue` | abstract: events handled once, earliest first | refined by `EventHeap` |
| `EventHeap` | `heap.c` and the timing of the loop | `EventHeap_proofs`, `MCEventHeap` |
| `EventHeap_proofs` | theorems about `EventHeap` | |
| `PidMap` | abstract: a map from pids to programs | refined by `HashTable` |
| `HashTable` | `hash.c`, its linked buckets | `HashTable_proofs`, `MCHashTable` |
| `HashTable_proofs` | theorems about `HashTable` | |
| `Startup` | `parse_file`, `get_scheduler`, `do_execute`, the preload object, `handle_prog_notifications` | `Startup_proofs`, `MCStartup` |
| `Startup_proofs` | theorems about `Startup` | |
| `Accounting` | clocks, totals of a slot, what an exit is charged; a tick in one step | `Accounting_proofs`, `MCAccounting` |
| `Accounting_proofs` | theorems about `Accounting` | |
| `Counters` | `stats.c` and `prfcnt_xeon.h`: a tick call by call, while the programs run | `Counters_proofs`, `MCCounters` |
| `Counters_proofs` | theorems about `Counters` | |

### Executor

A configuration line is a *slot*; the instances respawned for it share
`init_id`, and at most one exists at a time. `st[s]` is the list the slot's
program is in (`WAITING`: its event is in the heap; `NEW`: `pnew_l`; `ALL`,
`SCH`: `progs_all`, `progs_sch`; `FINISHED`: `pfinished_l`; `KILLED`: taken out
by `kill_app`, not reaped; `GONE`), `proc[s]` the process as the kernel sees it,
`hashed` the keys of `prog_pid_hash`, and the counters have their names from
the code. `pc` is where the one executor process is. `ProgWaitingNew`,
`QExpired`, `Account`, `Schedule`, `EndEvents` are a pass of the event loop,
`SelectTimeout` and `SigchldEnter` the two ways out of `select`, `Reap`,
`ReapBogus`, `ReapNone` the `waitpid` loop, `Finish`, `Respawn`, `Terminate`,
`EndRebalance` the rebalance of the gang schedulers. `Exit` and `Frozen` belong
to the programs and the kernel: writing `FROZEN` only begins a freeze.

Abstracted: lists are sets (their order is in `GangQuanta`); the gang is any
set a policy could return; `finished_nr` and `progs_fnsh`, which are only
printed, and children that `waitpid` reports as stopped are left out; pids are
not reused; `waitpid` returns dead children in any order.
`direct` is the set of slots whose `/bin/sh -c` becomes the program itself, so
that `shell_pid = pid`. In the others the shell forks the program, and the
table is keyed by a pid that `sched_clear_prog` does not use. Which shells do
what is chosen in the initial state, among the sets of `Shells`, and does not
change. What the code keeps only with shells that exec their programs
(`AllDirect`) says so in the property.

### GangPolicies, QuickSort, GangQuanta

`GangPolicies` has the four choices as operators on the ordered list, step by
step as the loops go (each is a fold of the loop's body, and the fields of the
record that is folded are the locals of the C function); `QuickSort` has the partition with its two scans, and
says whether a scan ran onto the list head. `GangQuanta` keeps the order of
`progs_all` and `progs_sch`, the monitoring phase, `ratio`, `ideal_instr` and
the waiting times, and a `fault` for what the C program would not survive: a
division by zero, an entry of an empty list, an unsigned wrap. The policy is
chosen in the initial state. A tick is one
step and freezes at once; a program exits only while it runs. `Late` is the set
of policies under which a program may also start after the first quantum:
`AloneMeasured` leaves these out, because the code does not measure such a
program (hazard at `fair.c:53`). Waiting is in
halves of a quantum, since a program may arrive within one. What a program
needs of bandwidth and cache is a constant, as monitoring leaves it; each
program has one thread.

### LinuxSched

The same loop with another policy: `times_target` in units of `One` (a fraction
is a last, partial instance), the tick kills a program that has run for its
share of the average. Run times are abstracted to a choice of who is late, so
the model has every outcome of the comparison in the code. SIGTERM and
`massacre` are left out, since Executor has them.

### EventQueue, EventHeap

The array of `heap.c` is a sequence, `elems_nr` the room `dynarray.c` has made
for it (it grows by `AllocGrain` and never shrinks); push, pop and the removal of an inner
element are written as they sift, and `Loaded` as `parse_file` pushes the programs. Time is relative: `left[e]` is how long until
event `e` is due. `Select(d)` is any return of `select` after `d`; the
`reset_qt` block overwrites the quantum event's time while it is in the heap, and
is one step with it (section 6).
`EventHeap` refines `EventQueue`, in which the earliest pending event is handled.

### PidMap, HashTable

`HashTable` has a head per bucket and `next` per entry, insertion at the front
with replacement of an equal key, deletion through the previous entry, and
`hash_swap`. The map it implements is read from the chains.

### Startup

A configuration (`config`) is its lines, the name of a policy and whether there
is a file of targets. `parse_file` goes through the lines and exits at the
first malformed one; policy and targets are looked at only after that. The ids
are counted as in the code, from `ID_USER_OFFSET` on and by `progs_init` at a
respawn. One program at a time is forked and waited for (`pc = "poll"`), also from
inside the signal handler (`back` is where it returns to). The program's side
are the steps of the preload object's constructor: write `app_pid`, join the
group, freeze itself. Later it may write its handle into the pipe and wait for
the answer.

A tick is `GangTick` (freeze the gang, kill who has reached the target, thaw the
next one) or, under `linux`, `LinuxTick` (thaw who is new, kill, freeze nobody);
which programs may reach their target before they end is the constant
`MayKill`, and what is scheduled is left open. The signal takes effect in `Die`,
wherever the program is then, waiting for its answer too, or before it is
frozen. `Reap` is the rebalance of the handler: it frees the program, or starts
its successor first and frees it when that has frozen itself; `old` is the id of
a predecessor that is still there. Neither looks into the pipe. A handle of a
freed program that is read, or an answer to a dead one, ends the model
(`pc = "lost"`): the first is undefined in C, the second is SIGPIPE, a failed
write, or a write into the pipe of another program.

A command of `MayFail` may end before it has frozen: then the
executor polls for ever (`Stuck`), the one case the liveness properties except. With `Prompt`, a gang that was told to freeze
is frozen before the next quantum ends, which is what 200 ms are for; the bound
on `prog_fds` needs it.

### Accounting

A tick is one step again, with the record of the clock of each program, the
counter register of each cpu and the value last read from it. History
variables (`ran`, `lived`, `retired`, `monitored`) say what really happened.
The freezer acts at once. A program that died just before a tick is `overdue`:
the handler reaps it before the next one, by which time its cpu counts for
another gang.
The final `freeze_sched` and `kill_all` of `respawn` are left out: when they
are reached there is no program left (theorem `StopIsLast`).

### Counters

The same tick cut into the calls of `freeze_sched`, `schedule` and `thaw_sched`
(`pc` is the next one), so that a program may execute, exit or come to a stop
between any two of them; a loop over the cpus is one step, a turn of a loop over
the gang is one. `on`, `counterRegister` and `counterData` are a cpu's enable
bits, its register and what was last read; `events`, `events_tmp` and `ticked`
the statistics of a program (`ticked` is where its time stamp counters have
ticks). The memory controller and the energy counter count what is executed.
The policies are free in what they choose and whom they kill. `counted` is what
a program has executed while its cpu counted, `misread` marks the exits that the code charges
wrongly. One assumption: `StartCounters` waits for the kernel to have
stopped the old gang, which the code does not; in between lie sorting, printing
and a move of every task to its cpuset.

## 3. Runs

| Run | Instance | Shows |
|---|---|---|
| `executor` | 2 slots, any mix of shells, work 3, with respawns | each slot counted off once, one finalization, only the gang runs, monitoring finds a program, killed means killed, refinement of `Lifecycle`; when all shells exec, counters exact, no death lost, exit only when complete, termination |
| `reap` | 2 slots, all shells exec | **finding**: the assertion on the hash entry of a reaped pid fails |
| `early` | 2 slots, all shells fork | **finding**: the executor exits while a slot owes work |
| `linux` | targets 1.5, 2 and 0.5 times | the linux policy completes; its counter is off by exactly the repeated kills |
| `events` | 4 programs and the quantum, grains of 2 | heap order, room in the array, each event once, refinement of `EventQueue`, liveness of programs and quanta |
| `gangs` | all four policies, 4 programs on 3 cores, with late starts and an exit under `perf` | bounded waiting, cores used and not over-committed, no division by zero, no empty list, no wrap, sorting, everyone measured alone and served |
| `gang_short` | `fair`, a program that ends while monitored | **finding**: division by zero |
| `hash` | 3 colliding keys and one other | the buckets stay sound and are a map |
| `startup` | 3 programs, gangs of one, 2 respawns, a program that may be killed and a command that may fail, under a gang policy; 2 programs under `linux`; 3 configurations that are rejected | freeze and thaw in order, ids, one request for who waits and no more than one left by who was killed, each answered, array large enough, starts end |
| `handle` | `linux`, 2 programs, one of which may be killed | **finding**: a handle is read after its program was freed |
| `books` | a program of one core and one of two, work 2 | clocks, totals and charges add up |
| `calls` | a program of one core and one of two on 3 cpus, 2 instructions | each is charged with what it has executed, whatever runs between the calls; memory reads and energy too |

Why the bounds are enough: the hazards are races between one slot and the
executor, or between two slots (one kills the counter while another exits,
two die before one SIGCHLD), and every run has as many slots as its hazards
need actors; for more slots the safety properties of `Executor` are proved
(section 5). Work of 2 or 3 units, retired one or two at a
time, gives a quantum that falls short of the target, one that hits and one
that passes it. Five events make a heap of three levels; three colliding keys
make a first, a middle and a last entry. Four programs on three cores leave
somebody waiting in every quantum. In `startup` two
gangs do not cover all programs, so a third party exists; a second respawn adds `progs_init` to an id twice. In `books` five units
of time are two monitored quanta, two gangs, and a late reaping after them. In
`calls` the two programs can run side by side or one after the other on the
same cpu, which is where a charge may go wrong; two instructions are enough for
one of each, or for two in a row across a tick, and the energy counter starts
one short of its wrap at 3.
Named bounds: `Work`, `Retired`, `Exits`, `Respawns`, `MaxExtra`, `MaxStart`,
`MaxSleep`, `MaxFraction`, `MaxTime`, `MaxWork`, `EnergyMod`, `AllocGrain`.

`CHECK_DEADLOCK FALSE` is used only in `books`, where a run stops at `MaxTime`.

### Fairness

- The executor process is scheduled: weak fairness of its own steps. It blocks
  only in `select`, which has a timeout.
- Time passes: an event whose time comes is handled. Strong fairness, since the
  model leaves and re-enters the event pass without keeping the clock; in
  `GangQuanta` the same is written as "infinitely often disabled or infinitely
  often taken", with the enabling condition spelled out.
- `ScheduleWith(s)` in `Executor`: the policies do not starve a program. This is
  not assumed of the code but what `WaitBound` and `AllServed` check of the policies.
- The kernel and the programs are *not* assumed to do anything in `Executor`,
  `GangQuanta` or `EventHeap`: a program need not exit. In `LinuxSched` a
  program that no tick may kill terminates by itself, and SIGKILL takes effect,
  since there the target is a number of completions. In `Startup` a program
  that was forked and whose command does not fail gets to its own freeze.
- `Retired` contains no 0 where termination is checked: a program in a gang makes
  progress. `Termination` of `Executor` counts the failed assertion of `reap` as an end.

## 4. Findings

1. `reap`: `kill_app` deletes the hash entry when it sends SIGKILL, and the
   reaped pid is asserted to be there (`aff-executor.c:129`), unless no program runs.
2. `early`: the table is keyed by the shell's pid and `sched_clear_prog` deletes
   by the program's. With a shell that forks its program one death decrements
   `running_nr` twice, and `check_shutdown` exits while a slot owes work.
3. `gang_short`: `fair_rebalance` updates the progress of a program that ended
   in its own monitoring quantum; `ideal_instr` is 0.
4. `handle`: the handle that a program writes into the common pipe is the address
   of its `aff_prog_t`, and is to tell which program a request is from
   (`aff-executor.c:266`). Under `linux` a program asks while `handle_events`
   blocks SIGCHLD, the tick kills it (`linux.c:252`), the handler runs at
   `signals_enable` and frees it (`linux.c:211`), and the next `select` returns
   for the handle: line 877 reads `prog->shm` of freed memory. Between the
   reading of the handle and the answer the same order leaves a closed
   descriptor in `prog_fds`, or one that belongs to another program by then; and
   if the program is dead but not yet freed, the write at line 894 meets a pipe
   without a reader, and nothing handles SIGPIPE. Under the gang policies
   (`perf.c:79`, `perf.c:451`) this needs a shell that forks its program; with
   one that execs it the assertion of finding 1 comes first.

Two more divergences are described as hazards and not as runs: a program reaped
after a tick is charged with the instructions of its successor on the cpu, and
a program of several cores is charged at its exit with stale counters
(`perf.c:432`, against `common.h:93`). `ChargedOwn` states the case that is right.

## 5. Proofs

Every invariant and every step or refinement property that the runs check is
also proved for all values of the constants; only liveness is not. The
assumptions are the ASSUMEs of the modules, which TLC evaluates in their runs,
and the hypotheses that the table names.

| Module | Theorems | For |
|---|---|---|
| `Executor_proofs` | the safety of `executor`, `ExitsWhenOver` and `LifecycleRefined` | any finite set of slots, any work, any mix of shells |
| `GangQuanta_proofs` | `SortIsRight`, `BooksKept`, `SortIsKept`, `ChoiceIsSound`, `NoCoreIdles`, `LeastServed`, `MixIsNeeded`, `WaitIsBounded`, `MeasuredAlone` | any finite set of programs, cores, limits, workloads, rates and targets; three under `OneCore`, `EachFits`, `Measurable` |
| `LinuxSched_proofs` | `LeftCorrect`, `FilesCorrect`, `ExitCorrect`, `TimesCorrect` | any finite set of slots, any numbers of times, any unit `One` |
| `Startup_proofs` | `HandshakeCorrect`, `IdsCorrect`, `OneRequestCorrect` | any programs, respawns, gangs and configurations that name no program twice |
| `EventHeap_proofs` | `HeapCorrect`, `QueueImplemented` | any number of events, any quantum, grain and time of sleep |
| `HashTable_proofs` | `ChainsCorrect`, `MapImplemented` | any number of buckets, keys and addresses |
| `Accounting_proofs` | `ClocksCorrect`, `TotalsCorrect`, `ChargeCorrect` | any slots, cores, work and time |
| `Counters_proofs` | `BillIsExact`, `RetdAgrees`, `OffcoreIsExact` | any programs, cores, finite set of cpus, size of the energy counter |

Each safety theorem rests on an invariant `IInv`, shown to hold initially and to
be kept by each action; the modules differ in what has to be said for that.

### Executor

- `IInv == TypeOK /\ ListInv /\ CountInv` is inductive. `ListInv` says what
  lists, hash table and processes say of each other: finished programs exist
  only while the handler runs, a killed slot is `KILLED`, `FINISHED` or `GONE`,
  only the gang is thawed. `CountInv` equates the counters with cardinalities of
  lists. Neither is inductive alone: that `progs_left` is decremented once needs
  `ListInv` (a killed slot is not live), and `StopMeansNothingLeft` needs
  `CountInv`: `respawn` raises the flag when `progs_left` is 0, which says that
  no slot is live only because the count is exact. `progs_nr` is only bounded,
  as with a forking shell the code miscounts it.
- `FinishedLive` and `LastFinished`: the program that `rebalance` handles is
  itself live, so when the count reaches 0 it was the last one, `kill_all` finds
  nobody, and `Terminate` leaves every list as it was.
- `MonitorNotEmpty`: with an empty `progs_all` nothing is held, so `CountInv`
  gives `progs_nr <= 0`, and the window, at least 0 and moved on when it equals
  `progs_nr`, is beyond it: this is not the monitoring phase.
- `DirectInv` adds that the hash table is the set of listed programs and
  `running_nr` their number; `AllDirect => DirectInv` is inductive together with
  `IInv`, since how the shells behave does not change. From it follow `RunningCorrect`, `NoChildForgotten`
  (the handler leaves its loop early only when `running_nr = 0`, when no listed
  program can be a zombie) and `ExitsWhenOver`, which the run `early` refutes
  for other shells.
- `LifecycleRefined`: a step removes at most one slot from `Live` (`LiveStep`),
  whatever the shells do; `exited` of `Lifecycle` is the exit of an executor whose
  shells exec, which comes only when `Live` is empty.

### GangQuanta

The choices are loops over lists, written as folds; what they compute is not
visible to a prover until the fold is a run, a function from the number of the
turn to the state after it (`FoldRuns`, then `PerfRun`, `PerfFairRun`,
`BwCacheRun`, `FillRun` and so on for the loops). The lemmas go from lists to
loops to choices to actions.

- `SortIsRight`: a turn of the partition keeps the list a permutation, with
  everything up to `i` at most the pivot and everything from `j` on at least
  (`TurnScanned`). The pivot, and after the first swap what has been swapped,
  stops both scans before the head (`TurnFinds`). `i` grows with every turn, so
  the scans meet before the fold ends, and both parts are shorter than the list:
  induction on the length gives the sorted list, for any list and values.
- `BooksKept`, without hypotheses: `Books` (all of `TypeOK` but the bound on the
  cores) is inductive. A choice splits its list into gang and rest (`Split`),
  turn by turn.
- `ChoiceIsSound` under `OneCore`, every program has one thread: a gang of k
  programs has then k cores, so the loops that stop on an exact number of cores
  stop on it, and before their list is empty, since they are entered only with
  more programs than cores. The bandwidth that is left starts at BW_LIMIT and a
  program is let in only while its need fits, so the unsigned difference of the
  code does not wrap. With more threads the property is false (hazard at
  `aff-executor.c:205`).
- `NoCoreIdles` needs no hypothesis: whoever is left out was left out by a full
  gang, or by one of the loops that go on until it is full.
- `LeastServed` under `EachFits`, a program that runs alone is within the limits
  (of `perf_fair` and `fair_bw_cache`): then the head of the sorted list is
  taken in the first turn of every choice. Without it a program that never fits
  is passed over. `perf` computes no progress (`NoRatio`).
- `MixIsNeeded`: the first heavy program switches `bw_on` or `cs_on` on for good
  (`Unmixed`), and `good_neighbors` takes its class until there is none left.
- `WaitIsBounded` is not inductive by itself. `PerfWaits` is: the list of `perf`
  is in the order of the waiting times, and the program at place k of it has
  waited less than N - k quanta, for N programs. The order holds because the
  choice removes programs and keeps the rest in order, while the gang and new
  programs, with the least waits, join at the tail; the bound because the first
  of the list is taken in every quantum, so that each other moves up by one.
- `MeasuredAlone` under `Measurable`: under the policies whose programs are all
  there at the first tick none ends while it is measured, and none is so slow
  that collect rounds its speed to nothing; the run `gang_short` refutes it
  otherwise. The inductive part is `Phases`: while `monitor_wnd` is at most the
  number N of programs, there is one program in the gang, nobody has left, and
  the last `monitor_wnd` - 1 of the list are those that have been measured,
  since monitor takes the first of the list and the next freeze puts it behind
  the others. When the window has passed N everybody has been measured, and
  nobody is moved back into the monitoring phase, as the number of programs only
  shrinks from then on.

### LinuxSched

The code counts a slot off `progs_left` once too often for each kill of a
program that was killed before (`rekills`), so `progs_left` is the number of
slots that owe work less `rekills`. Three parts are inductive with it.
`ListInv`: a killed program is on its last instance and never restarted, which
makes a repeated kill the only miscount. `FileInv`: the totals are printed when
`progs_left` reaches 0, only then, and a tick closes the energy file only after
that. `TimesInv`: `times_target` is what the finished instances leave of the
times, so that a whole number of times (`WholeEnds`) is counted down to 0 and
never ended by a kill. For `ExitCorrect` a count that is too low does no harm:
when the lists are empty no slot owes work, so `progs_left` is at most 0 and the
totals have been printed.

### Startup

`HandInv` says for each stage of a program's process what its cgroup is and
which of its two pids the executor knows. A program is between `fork` and its
own freeze only while `do_execute` polls for it, and is then in no gang and not
killed: no thaw can overtake that freeze. `IdInv` gives the id of the k-th
instance of a slot as its first one plus `k * waiting_nr`; with first ids that
are less than `waiting_nr` apart, two equal ids come from one slot
(`SameRemainder`). It needs that no program starts twice, thus that no line of a
configuration is repeated. `OldInv` says the same of the predecessor that waits
to be freed: its slot is that of the program that is being started, one instance
back, and so its id differs from all (`OldDiffers`).

`RequestInv` counts a program's handle in pipe, array and answers: one for who
waits, none for who does not, and none or one for who was killed and has ended
(`Owed`). That the last never becomes two rests on a killed program having no
successor, which `Reap` guarantees and `killed` remembers; a program that exits
by itself never waits, so its successor starts without a handle. `WindowInv`
bounds the array under the gang policies: under `Prompt` whoever may still write,
or has left a handle, is in this gang or in one other set of the size of a gang,
for a killed program is frozen with its gang and is thawed no more.

### EventHeap

`IInv` is `HeapSound` and that the quantum is never due later than in one
quantum. Without the latter the heap may lose its order: `reset_qt` overwrites
the time of `qt_event` where it is, which is right towards its parent only if it
is put off, and towards its children because it is moved down afterwards.

`SiftGives` and `SinkGives` are the correctness of the two loops of `heap.c`.
The first carries "in order but for the element at this place, whose parent is
before its children", the second "in order but at the hole". Each turn is a swap
of neighbours (`SwapKeeps`), so nothing is lost or doubled. `PushGives`,
`PopGives`, `PopElemAt` and `LoadGives` say what that makes of the operations;
`FirstLeast`, by induction along the parents of a place, that the first element
is the earliest. `QueueImplemented` follows, one step of the heap at a time.

### HashTable

`ChainsSound` speaks of whole chains, which no step of a proof can follow.
`IInv` says the same of an entry and its neighbours: it is linked with entries
of its bucket, it is pointed to once, no key is there twice; and `NoCircle`:
every set of entries has one that points out of it. Insertion and deletion
change three pointers, and each part survives (`FrontKeeps`, `UnlinkKeeps`).
From `NoCircle` the walk along a chain ends, and by `Source` it finds every
entry of the bucket (`WalkFinds`), so that lookup, deletion and swap act on the
entry of their key if there is one: that is `MapImplemented`. `LinkedIs` bounds
the length of a chain by the number of addresses, which gives `ChainsSound`
back.

### Accounting

The three properties are inductive with `BookInv`: clocks are not in the future,
a new program has counted nothing, a program of one core has one cpu.
`ChargedOwn` needs that nobody else executes on that cpu: `Schedule` hands out
the cores in order, and the core of a program begins where the sum of those
before it ends, which grows with every program (`CoresGiven`). What a quantum
has counted is a sum over the cpus; `SumMore` says what one unit of time adds to
it.

### Counters

- `BillExact` is inductive together with `TurnInv` and `PlaceInv`. That an
  instruction which is counted belongs to the program that will pay for it needs
  both: when a cpu counts, the tick is over, nobody is freezing any more and
  only the gang is thawed (`TurnInv`); and the cpu belongs to one program of the
  gang (`PlaceInv`). `Account` and `Rebalance` turn what is pending into a
  charge (`ReadFacts`), and `Schedule` finds that nothing is pending, since the
  loop over the gang is done.
- For `Rebalance`, `RangeFacts` shows that the one counter it reads is the whole
  of the cpuset of a program of one core.
- `RetdExact` compares a sum over the cpus a program was ever on with one over
  all cpus. `StaleInv` says that off its present cpus its events are 0, unless
  `schedule` has just moved it and `thaw_sched` has yet to zero them; then the
  first sum is that of the reading (`SumWithin`) and so is the growth of the
  other (`SumAdd`).
- `OffcoreExact`: memory controller and energy were started together (`OffInv`),
  and `Wrap`, a lemma about two remainders whose quotients differ by 0 or 1,
  gives the difference across the wrap.

### Induction

The provers cannot use the library's induction theorems, which take a predicate.
Each module of proofs that needs induction states it of a *set*: a set of
numbers that is not empty has a least element (`LeastNat`), a set that has 0 and
all successors is everything (`Induct`), and the same for the subsets of a
finite set (`SubsetInduct`). That a recursive function has the value its
definition says is shown where it is needed, by an induction over its initial
segments: an iteration (`Iterated`), a fold (`FoldExists`), a loop with a
decreasing measure (`LoopExists`, `LoopKeeps`), the sum over a finite set
(`SumExists`), the recursion of quicksort on shorter lists (`Calls`). These
lemmas are repeated, not shared: a module of proofs EXTENDS only the component
it is about.

### Only model-checked

- Liveness, as fairness and ENABLED are beyond the prover: `Termination` of
  `Executor` and `LinuxSched`, `EventsHappen`, `AllServed`, `StartsEnd`,
  `RequestAnswered`.

## 6. Not modelled

- `src/intel_technologies.c`, event selectors, PCI sockets, CPUID: device set-up.
- Parsing of masks and lists and the splitting of a line, result files: text
  without state. The printed finish times wrap every 10000 s (`common.c:222`).
- What a program without a counted cycle does to `freeze_sched`, which divides by
  them (`perf.c:254`): whether a program that runs can be blocked for a whole
  quantum is up to it and the kernel.
- In `dynarray.c`, what nobody calls.
- A respawn in the middle of the `reset_qt` block (`aff-executor.c:1044-1051`).
  SIGCHLD is not blocked there, and the handler's `heap_push` can come between
  the overwriting of `qt_event.tv`, `heap_pop_elem` and `heap_push`, or into
  them. Taken as separate steps they do lose the order of the heap: the program
  that is respawned rises past `qt_event`, whose time is late already, and stays
  above an event that is due before it. No policy sets `reset_qt`, so the block is
  never entered, and `Select` keeps it as one step.
- What the executor does after it has read the memory of a freed program, and a
  kill that comes between the reading of a handle and the use of the pointer:
  reading and using are one step. The failed assertion of `reap`, which ends the
  executor before such a handle is read, is not repeated in `Startup`.
- Failing system calls: the code exits at once in nearly all of them.
- The life time of counters and files after `sched_finalization`: the current
  tick goes on with them.
- TIME_WINDOW, which no file defines.

## 7. Plan

Done, in this order: `Executor` with its proofs, `LinuxSched`, `EventHeap`,
the policies, `HashTable`, `Startup`, `Accounting`, `Counters`.

Then the proofs: `LinuxSched`, `Startup`, `Accounting`, `HashTable`, `EventHeap`,
`Counters`, and last `QuickSort` and the policies (`GangQuanta`).

Left, the most valuable first:

1. the life time of what `sched_finalization` frees, as a part of `Executor`;
2. programs of several threads in a run of `GangQuanta`, where `perf` passes MAX_CORES.
