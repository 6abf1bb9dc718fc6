----------------------------- MODULE LinuxSched -----------------------------
(***************************************************************************)
(* The linux policy (src/scheds/linux.c) on the executor's loop: every      *)
(* program runs as soon as it is new, and the kernel shares the cores.  A   *)
(* slot must complete times_target[s] times, a number with a fraction: the  *)
(* last instance of 2.4 is killed by a tick once it has run for 0.4 of the  *)
(* average.  Numbers of times are counted in fractions 1/One here.          *)
(*                                                                         *)
(* Unlike the gang schedulers the tick leaves a killed program in the list  *)
(* and in the hash table until the handler reaps it, so a later tick meets  *)
(* it again: rekills counts those meetings.                                 *)
(***************************************************************************)
EXTENDS Integers, FiniteSets

CONSTANTS Slots,       \* the lines of the configuration file
          One,         \* 1.0
          Times,       \* [Slots -> Nat]: times_target as read from the file
          MaxRekills,  \* bound: ticks that meet a program killed before
          MaxExtra,    \* bound: instances beyond the target that exit between
                       \* two ticks (each is respawned)
          MaxPrinted   \* bound: calls of linux_print_totals that are told apart

ASSUME SlotsAssumption == IsFiniteSet(Slots) /\ Slots # {}
ASSUME TimesAssumption == One \in Nat \ {0} /\ Times \in [Slots -> Nat]
ASSUME BoundAssumption == MaxRekills \in Nat /\ MaxExtra \in Nat
                          /\ MaxPrinted \in Nat \ {0, 1}

VARIABLES
    pc,            \* where the executor process is
    ticked,        \* the quantum event was handled in this pass of the heap
    sigchld,       \* a SIGCHLD is pending
    st,            \* st[s]: the list that holds the program of slot s
    proc,          \* proc[s]: its process
    killed,        \* slots whose prog_data has killed = 1
    target,        \* times_target
    finished,      \* prog_times_finished
    waiting_nr, new_nr, running_nr, progs_left,
    printed,       \* calls of linux_print_totals; each closes totalsF
    energyF,       \* TRUE while energyF is open
    misused,       \* a closed file was written or closed
    rekills        \* programs killed by a tick that had been killed before

progVars  == <<st, proc, killed, target, finished>>
countVars == <<waiting_nr, new_nr, running_nr, progs_left>>
fileVars  == <<printed, energyF, misused, rekills>>
vars      == <<pc, ticked, sigchld, progVars, countVars, fileVars>>

In(list) == {s \in Slots : st[s] = list}

Init ==
    /\ pc = "events" /\ ticked = FALSE /\ sigchld = FALSE
    /\ st = [s \in Slots |-> "WAITING"] /\ proc = [s \in Slots |-> "frozen"]
    /\ killed = {} /\ target = Times /\ finished = [s \in Slots |-> 0]
    /\ waiting_nr = Cardinality(Slots) /\ new_nr = 0 /\ running_nr = 0
    /\ progs_left = Cardinality(Slots)
    /\ printed = 0 /\ energyF = TRUE /\ misused = FALSE /\ rekills = 0

-----------------------------------------------------------------------------
(* The events of the heap, SIGCHLD blocked.                                *)

ProgWaitingNew(s) ==
    /\ pc = "events" /\ st[s] = "WAITING"
    /\ st' = [st EXCEPT ![s] = "NEW"]
    /\ waiting_nr' = waiting_nr - 1 /\ new_nr' = new_nr + 1
    /\ UNCHANGED <<pc, ticked, sigchld, proc, killed, target, finished, running_nr,
                   progs_left, fileVars>>

\* Less than one instance is left.  The run time that the tick compares with
\* the average decides, except that nothing is compared below zero or before
\* an instance has completed (the average is 0 then), and that a program that
\* was over its share stays over it.
OnLastOrOne(s) == target[s] <= One
OnLast(s)      == target[s] < One
Overdue(s) == OnLast(s) /\ (target[s] <= 0 \/ finished[s] = 0 \/ s \in killed)

\* linux_print_totals, which is called whenever progs_left is not positive.
TotalsEarly(left) == left <= 1
Totals(left) == left <= 0

\* linux_qexpired: the tick writes energyF, kills the programs of late and
\* prints the totals when no slot is left, closing both files.
TickUncounted(late) ==
    /\ UNCHANGED progs_left
    /\ rekills' = rekills + Cardinality(late \cap killed)
Tick(late) ==
    /\ progs_left' = progs_left - Cardinality(late)
    /\ rekills' = rekills + Cardinality(late \cap killed)

\* The number of calls saturates at MaxPrinted.
Printed(left) == IF Totals(left) /\ printed < MaxPrinted THEN printed + 1 ELSE printed

QExpired(late) ==
    /\ pc = "events" /\ ~ticked /\ ticked' = TRUE
    /\ \A s \in late : st[s] = "RUNNING" /\ OnLast(s)
    /\ \A s \in In("RUNNING") : Overdue(s) => s \in late
    /\ rekills + Cardinality(late \cap killed) <= MaxRekills
    /\ Tick(late)
    /\ killed' = killed \cup late
    /\ proc' = [s \in Slots |-> IF s \in late /\ proc[s] = "thawed"
                                  THEN "dying" ELSE proc[s]]
    /\ printed' = Printed(progs_left')
    /\ energyF' = (energyF /\ ~Totals(progs_left'))
    /\ misused' = (\/ misused \/ ~energyF
                   \/ printed > 0 /\ (late # {} \/ Totals(progs_left')))
    /\ UNCHANGED <<pc, sigchld, st, target, finished, waiting_nr, new_nr, running_nr>>

\* No event is due any more: the programs of pnew_l become RUNNING and are
\* thawed at once.
ThawNobody == proc
ThawNew == [s \in Slots |-> IF st[s] = "NEW" THEN "thawed" ELSE proc[s]]
Running(nr) == nr + Cardinality(In("NEW"))
EndEvents ==
    /\ pc = "events" /\ pc' = "select" /\ ticked' = FALSE
    /\ st' = [s \in Slots |-> IF st[s] = "NEW" THEN "RUNNING" ELSE st[s]]
    /\ proc' = ThawNew
    /\ new_nr' = new_nr - Cardinality(In("NEW"))
    /\ running_nr' = Running(running_nr)
    /\ UNCHANGED <<sigchld, killed, target, finished, waiting_nr, progs_left, fileVars>>

-----------------------------------------------------------------------------
(* select() and sigchld_handler.                                           *)

NothingNew  == running_nr = 0 /\ new_nr = 0
NothingLeft == running_nr = 0 /\ new_nr = 0 /\ waiting_nr = 0

SelectTimeout ==
    /\ pc = "select" /\ ~sigchld
    /\ pc' = IF NothingLeft THEN "exited" ELSE "events"
    /\ UNCHANGED <<ticked, sigchld, progVars, countVars, fileVars>>

SigchldEnter ==
    /\ pc = "select" /\ sigchld
    /\ pc' = "sigchld" /\ sigchld' = FALSE
    /\ UNCHANGED <<ticked, progVars, countVars, fileVars>>

\* waitpid returns the shell of slot s, whose entry is still in the hash table.
Reap(s) ==
    /\ pc = "sigchld" /\ proc[s] = "zombie"
    /\ proc' = [proc EXCEPT ![s] = "reaped"]
    /\ st' = [st EXCEPT ![s] = "FINISHED"]
    /\ running_nr' = running_nr - 1
    /\ UNCHANGED <<pc, ticked, sigchld, killed, target, finished, waiting_nr, new_nr,
                   progs_left, fileVars>>

\* waitpid has nothing more to report.
ReapNone ==
    /\ pc = "sigchld" /\ \A s \in Slots : proc[s] # "zombie"
    /\ pc' = "rebalance"
    /\ UNCHANGED <<ticked, sigchld, progVars, countVars, fileVars>>

\* linux_rebalance for a program that a tick had killed.
FinishKilled(s) ==
    /\ s \in killed
    /\ st' = [st EXCEPT ![s] = "GONE"]
    /\ UNCHANGED <<proc, target, finished, waiting_nr, progs_left, printed, misused>>

\* ... and for one that exited: times_target is compared with 0.0 exactly.
FinishLive(s) ==
    /\ s \notin killed
    /\ finished' = [finished EXCEPT ![s] = @ + 1]
    /\ target' = [target EXCEPT ![s] = @ - One]
    /\ IF target[s] - One # 0
         THEN /\ st' = [st EXCEPT ![s] = "WAITING"]
              /\ proc' = [proc EXCEPT ![s] = "frozen"]
              /\ waiting_nr' = waiting_nr + 1
              /\ UNCHANGED progs_left
         ELSE /\ st' = [st EXCEPT ![s] = "GONE"]
              /\ progs_left' = progs_left - 1
              /\ UNCHANGED <<proc, waiting_nr>>
    /\ printed' = Printed(progs_left')
    /\ misused' = (misused \/ printed > 0)

Finish(s) ==
    /\ pc = "rebalance" /\ st[s] = "FINISHED"
    /\ FinishKilled(s) \/ FinishLive(s)
    /\ UNCHANGED <<pc, ticked, sigchld, killed, new_nr, running_nr, energyF, rekills>>

\* The handler ends with check_shutdown.
EndRebalance ==
    /\ pc = "rebalance" /\ In("FINISHED") = {}
    /\ pc' = IF NothingLeft THEN "exited" ELSE "select"
    /\ UNCHANGED <<ticked, sigchld, progVars, countVars, fileVars>>

-----------------------------------------------------------------------------
(* The programs.  A SIGKILL takes effect some time after the tick.          *)

Exit(s) ==
    /\ pc # "exited" /\ proc[s] = "thawed" /\ target[s] + MaxExtra * One > 0
    /\ proc' = [proc EXCEPT ![s] = "zombie"] /\ sigchld' = TRUE
    /\ UNCHANGED <<pc, ticked, st, killed, target, finished, countVars, fileVars>>

Die(s) ==
    /\ pc # "exited" /\ proc[s] = "dying"
    /\ proc' = [proc EXCEPT ![s] = "zombie"] /\ sigchld' = TRUE
    /\ UNCHANGED <<pc, ticked, st, killed, target, finished, countVars, fileVars>>

Terminated == pc = "exited" /\ UNCHANGED vars

Next ==
    \/ EndEvents \/ SelectTimeout \/ SigchldEnter \/ ReapNone \/ EndRebalance
    \/ Terminated
    \/ \E late \in SUBSET Slots : QExpired(late)
    \/ \E s \in Slots : \/ ProgWaitingNew(s) \/ Reap(s) \/ Finish(s)
                        \/ Exit(s) \/ Die(s)

Spec == Init /\ [][Next]_vars

KilledByTick(s) == \E late \in SUBSET Slots : s \in late /\ QExpired(late)

\* The process is scheduled; time passes, so start times come, and a program
\* that is on its last, partial instance sooner or later has run for its share
\* of the average; a SIGKILL takes effect; and a program that may not be killed
\* by a tick terminates by itself.
Fairness ==
    /\ WF_vars(\/ EndEvents \/ SelectTimeout \/ SigchldEnter \/ ReapNone \/ EndRebalance
               \/ \E s \in Slots : Reap(s) \/ Finish(s))
    /\ \A s \in Slots : /\ SF_vars(ProgWaitingNew(s)) /\ SF_vars(KilledByTick(s))
                        /\ WF_vars(Die(s))
                        /\ WF_vars(Exit(s) /\ ~OnLast(s))

FairSpec == Spec /\ Fairness

-----------------------------------------------------------------------------
(* Properties.                                                             *)

TypeOK ==
    /\ pc \in {"events", "select", "sigchld", "rebalance", "exited"}
    /\ ticked \in BOOLEAN /\ sigchld \in BOOLEAN
    /\ st \in [Slots -> {"WAITING", "NEW", "RUNNING", "FINISHED", "GONE"}]
    /\ proc \in [Slots -> {"frozen", "thawed", "dying", "zombie", "reaped"}]
    /\ killed \subseteq Slots
    /\ target \in [Slots -> Int] /\ finished \in [Slots -> Nat]
    /\ waiting_nr \in Nat /\ new_nr \in Nat /\ running_nr \in Nat
    /\ progs_left \in Int /\ printed \in Nat /\ rekills \in Nat
    /\ energyF \in BOOLEAN /\ misused \in BOOLEAN

\* The slots that have not reached their number of times.
Owing == {s \in Slots : s \notin killed /\ st[s] # "GONE"}

\* progs_left is the number of slots that owe work, less one for every time a
\* tick killed a program that an earlier tick had killed: linux_qexpired does
\* not look at pd->killed.
LeftExact == TypeOK /\ progs_left = Cardinality(Owing) - rekills

\* The totals are printed, and the two files closed, once and never used
\* afterwards, unless a tick came between a kill and the reaping of the killed
\* program.
FilesUsedWhileOpen == rekills = 0 => ~misused /\ printed <= 1

\* The executor exits only when no slot owes work, and the totals have been
\* printed by then, whatever the ticks did.
ExitComplete == pc = "exited" => Owing = {} /\ printed > 0

\* A slot that is over has completed at least the whole part of its number of
\* times, and exactly that many when the number has no fraction.
TimesReached ==
    \A s \in Slots : s \notin Owing =>
      /\ finished[s] >= Times[s] \div One
      /\ Times[s] # 0 /\ Times[s] % One = 0 => finished[s] = Times[s] \div One

\* Every slot comes to its end and the executor exits.
Termination == <>(pc = "exited")

-----------------------------------------------------------------------------
(* The inductive invariant of LinuxSched_proofs, conjoined with TypeOK.     *)

\* What the lists, the processes and the killed flags say of each other.  The
\* loop goes on only while some program is listed.
ListInv ==
    /\ pc \notin {"sigchld", "rebalance"} => In("FINISHED") = {}
    /\ pc = "events" => \E s \in Slots : st[s] \in {"WAITING", "NEW", "RUNNING"}
    /\ pc = "exited" => \A s \in Slots : st[s] = "GONE"
    /\ \A s \in Slots :
         /\ s \in killed => st[s] \notin {"WAITING", "NEW"} /\ OnLast(s)
         /\ proc[s] \in {"thawed", "dying", "zombie"} => st[s] = "RUNNING"

\* The counters against the lists.
CountInv ==
    /\ waiting_nr = Cardinality(In("WAITING")) /\ new_nr = Cardinality(In("NEW"))
    /\ running_nr = Cardinality(In("RUNNING"))
    /\ progs_left = Cardinality(Owing) - rekills

\* The totals against progs_left, and energyF, which only a tick closes.
FileInv ==
    /\ printed > 0 <=> progs_left <= 0
    /\ ~energyF => printed > 0
    /\ FilesUsedWhileOpen

\* times_target counts the instances down; a slot with a whole number of times
\* is never killed, it ends when times_target is 0.
Whole(s) == Times[s] # 0 /\ Times[s] % One = 0
TimesInv ==
    \A s \in Slots :
      /\ target[s] = Times[s] - finished[s] * One
      /\ st[s] = "GONE" /\ s \notin killed => target[s] = 0
      /\ Whole(s) => s \notin killed /\ (st[s] # "GONE" => target[s] > 0)

IInv == TypeOK /\ ListInv /\ CountInv /\ FileInv /\ TimesInv
=============================================================================
