------------------------------ MODULE Executor ------------------------------
(***************************************************************************)
(* The executor (src/aff-executor.c) and the life cycle that its gang      *)
(* schedulers (src/scheds/perf.c, whose handlers fair.c, perf_fair.c and   *)
(* fair_bw_cache.c repeat) give to the programs of a configuration file.   *)
(*                                                                         *)
(* One process runs a loop: with SIGCHLD blocked it handles the events     *)
(* that are due (a program starts, the quantum expires), then it unblocks  *)
(* SIGCHLD and sleeps in select(), where the handler reaps the children    *)
(* that have died.  pc says where that process is.  The kernel and the     *)
(* programs move in parallel: a program that was told to freeze stops only *)
(* some time later, and until it has stopped it may still exit.            *)
(*                                                                         *)
(* A configuration line is a "slot": all the instances respawned for it    *)
(* have its init_id, and at most one of them exists at a time.  Lists are  *)
(* sets here (GangQuanta keeps their order), and which gang a policy picks *)
(* is left open (GangPolicies chooses it).                                 *)
(***************************************************************************)
EXTENDS Integers, FiniteSets

CONSTANTS
    Slots,        \* the lines of the configuration file
    Shells,       \* what the shells of the slots may do: a set of choices of
                  \* direct
    Work,         \* [Slots -> Nat]: target_instr as read from the target file
    Retired,      \* instructions a program can retire in one time slice
    Respawnable,  \* the work that is left must exceed this for a respawn
                  \* (1000000000 in the code, in the units of Work)
    MonitorFactor \* freeze_sched ends the monitoring phase when monitor_wnd
                  \* is this multiple of progs_nr: 2 in fair.c, else 1

ASSUME SlotsAssumption       == IsFiniteSet(Slots) /\ Slots # {}
ASSUME ShellsAssumption      == Shells \subseteq SUBSET Slots
ASSUME WorkAssumption        == Work \in [Slots -> Nat]
ASSUME RetiredAssumption     == Retired \subseteq Nat
ASSUME RespawnableAssumption == Respawnable \in Nat
ASSUME MonitorAssumption     == MonitorFactor \in {1, 2}

VARIABLES
    direct,       \* slots whose "/bin/sh -c cmd" becomes the program itself
                  \* (shell_pid = pid); the other shells fork the program
    pc,           \* where the executor process is
    ticked,       \* the quantum event was handled in this pass of the heap
    sigchld,      \* a SIGCHLD is pending for the executor
    st,           \* st[s]: the list that holds the program of slot s
    proc,         \* proc[s]: its process, as the kernel sees it
    hashed,       \* slots whose shell_pid is a key of prog_pid_hash
    killed,       \* slots whose prog_data has killed = 1
    target,       \* target_instr: the work that is left
    waiting_nr, new_nr, running_nr,   \* counters of struct exec_state
    progs_left, progs_nr,             \* counters of sched_t
    monitor_wnd,                      \* programs monitored so far
    stop_execution,                   \* flag of sched_t
    massacre,                         \* flag of struct exec_state
    sigterm,                          \* a SIGTERM was received
    finalizations                     \* calls of sched_finalization so far

procVars  == <<sigchld, st, proc, hashed, killed, target>>
countVars == <<waiting_nr, new_nr, running_nr, progs_left, progs_nr>>
endVars   == <<stop_execution, massacre, sigterm, finalizations>>
vars      == <<direct, pc, ticked, monitor_wnd, procVars, countVars, endVars>>

PcValues == {"events",     \* in select_ready_events, SIGCHLD blocked
             "freeze",     \* in freeze_sched, called by qexpired
             "select",     \* asleep in select(), SIGCHLD deliverable
             "sigchld",    \* in the waitpid loop of sigchld_handler
             "rebalance",  \* in rebalance, called by sigchld_handler
             "exited", "aborted"}

StValues == {"WAITING",    \* its EVNT_NEWPROG is in the heap
             "NEW",        \* in ExecSt.pnew_l
             "ALL",        \* in sched->progs_all
             "SCH",        \* in sched->progs_sch, the gang
             "KILLED",     \* in no list, SIGKILL sent, not reaped
             "FINISHED",   \* reaped, in ExecSt.pfinished_l
             "GONE"}       \* deallocated and not respawned

ProcValues == {"frozen", "freezing", "thawed", "zombie", "reaped"}

In(list)  == {s \in Slots : st[s] = list}
Listed    == In("ALL") \cup In("SCH")
Over      == pc \in {"exited", "aborted"}

-----------------------------------------------------------------------------
(* init_state, parse_file: every program is forked and has frozen itself   *)
(* before the loop begins; init of the scheduler sets progs_left to the    *)
(* number of waiting programs.                                             *)
Init ==
    /\ direct \in Shells
    /\ pc = "events" /\ ticked = FALSE /\ sigchld = FALSE
    /\ st   = [s \in Slots |-> "WAITING"]
    /\ proc = [s \in Slots |-> "frozen"]
    /\ hashed = {} /\ killed = {}
    /\ target = Work
    /\ waiting_nr = Cardinality(Slots) /\ new_nr = 0 /\ running_nr = 0
    /\ progs_left = Cardinality(Slots) /\ progs_nr = 0 /\ monitor_wnd = 0
    /\ stop_execution = FALSE /\ massacre = FALSE /\ sigterm = FALSE
    /\ finalizations = 0

-----------------------------------------------------------------------------
(* The events of the heap, SIGCHLD blocked.                                *)

\* EVNT_NEWPROG is due: WAITING -> NEW.
ProgWaitingNew(s) ==
    /\ pc = "events" /\ st[s] = "WAITING"
    /\ st' = [st EXCEPT ![s] = "NEW"]
    /\ waiting_nr' = waiting_nr - 1
    /\ new_nr' = new_nr + 1
    /\ UNCHANGED <<direct, pc, ticked, monitor_wnd, sigchld, proc, hashed,
                   killed, target,
                   running_nr, progs_left, progs_nr, endVars>>

\* The first loop of freeze_sched: FROZEN is written for every gang member.
FreezeNobody == proc
FreezeGang == [s \in Slots |-> IF st[s] = "SCH" /\ proc[s] = "thawed"
                                 THEN "freezing" ELSE proc[s]]

\* EVNT_QEXPIRED is due: freeze_sched writes FROZEN for the whole gang.  The
\* kernel only starts to freeze it, and one that has exited stays a zombie.
QExpired ==
    /\ pc = "events" /\ ~ticked
    /\ pc' = "freeze" /\ ticked' = TRUE
    /\ proc' = FreezeGang
    /\ UNCHANGED <<direct, monitor_wnd, sigchld, st, hashed, killed, target,
                   countVars, endVars>>

\* sched_clear_prog deletes the hash entry of prog->pid, which is there only
\* when the shell and the program are one process.
ClearProgUncounted(s) ==
    /\ hashed' = IF s \in direct THEN hashed \ {s} ELSE hashed
    /\ UNCHANGED running_nr
ClearProg(s) ==
    /\ hashed' = IF s \in direct THEN hashed \ {s} ELSE hashed
    /\ running_nr' = running_nr - 1

\* kill_app calls sched_finalization when it leaves no program.
FinalizationsLate(left) == finalizations + (IF left < 0 THEN 1 ELSE 0)
Finalizations(left) == finalizations + (IF left <= 0 THEN 1 ELSE 0)

\* kill_app: the program reached its target in the quantum that ended.
KillApp(s) ==
    /\ st' = [st EXCEPT ![s] = "KILLED"]
    /\ killed' = killed \cup {s}
    /\ ClearProg(s)
    /\ progs_left' = progs_left - 1
    /\ progs_nr' = progs_nr - 1
    /\ finalizations' = Finalizations(progs_left - 1)

\* monitoring_phase: the programs run one at a time, to be measured alone.
Monitoring(wnd, nr) == wnd <= nr

\* The last line of freeze_sched.
MonitorWndKept(nr) == monitor_wnd
MonitorWnd(nr) == IF monitor_wnd = MonitorFactor * nr THEN monitor_wnd + 1
                                                      ELSE monitor_wnd

\* The loop of freeze_sched that reads the counters of each gang member and
\* returns the survivors to progs_all.  The target is not charged with what a
\* program retires while it is monitored.
Account(s) ==
    /\ pc = "freeze" /\ st[s] = "SCH"
    /\ \/ /\ Monitoring(monitor_wnd, progs_nr)
          /\ st' = [st EXCEPT ![s] = "ALL"]
          /\ UNCHANGED <<target, hashed, killed, running_nr, progs_left,
                         progs_nr, finalizations>>
       \/ /\ ~Monitoring(monitor_wnd, progs_nr)
          /\ \E n \in Retired :
               /\ target' = [target EXCEPT ![s] = @ - n]
               /\ \/ target[s] - n <= 0 /\ KillApp(s)
                  \/ /\ target[s] - n > 0
                     /\ st' = [st EXCEPT ![s] = "ALL"]
                     /\ UNCHANGED <<hashed, killed, running_nr, progs_left,
                                    progs_nr, finalizations>>
    /\ UNCHANGED <<direct, pc, ticked, monitor_wnd, sigchld, proc, waiting_nr,
                   new_nr,
                   stop_execution, massacre, sigterm>>

\* The last line of monitor.
MonitoredDown(wnd) == wnd - 1
Monitored(wnd) == wnd + 1

\* monitor takes one program of progs_all; the policies take any number, but
\* none only when progs_all is empty.
Gang(gang, wnd) ==
    /\ gang \subseteq In("ALL")
    /\ \/ /\ Monitoring(wnd, progs_nr)
          /\ \E s \in gang : gang = {s}
          /\ monitor_wnd' = Monitored(wnd)
       \/ /\ ~Monitoring(wnd, progs_nr)
          /\ gang = {} => In("ALL") = {}
          /\ monitor_wnd' = wnd

\* freeze_sched ends, schedule picks a gang and thaw_sched writes THAWED for
\* it; the quantum event is pushed back.
Schedule(gang) ==
    /\ pc = "freeze" /\ In("SCH") = {}
    /\ Gang(gang, MonitorWnd(progs_nr))
    /\ st' = [s \in Slots |-> IF s \in gang THEN "SCH" ELSE st[s]]
    /\ proc' = [s \in Slots |->
                  IF s \in gang /\ proc[s] \in {"frozen", "freezing"}
                    THEN "thawed" ELSE proc[s]]
    /\ pc' = "events"
    /\ UNCHANGED <<direct, ticked, sigchld, hashed, killed, target, countVars,
                   endVars>>

\* The second loop of rebalance: the programs of pnew_l enter progs_all and
\* become RUNNING.  With stop_execution they are sent SIGKILL (which a frozen
\* process does not act upon) and are left in pnew_l.
AdmitNew ==
    IF stop_execution
      THEN /\ new_nr' = new_nr - Cardinality(In("NEW"))
           /\ UNCHANGED <<st, hashed, running_nr, progs_nr>>
      ELSE /\ st' = [s \in Slots |-> IF st[s] = "NEW" THEN "ALL" ELSE st[s]]
           /\ hashed' = hashed \cup In("NEW")
           /\ new_nr' = new_nr - Cardinality(In("NEW"))
           /\ running_nr' = running_nr + Cardinality(In("NEW"))
           /\ progs_nr' = progs_nr + Cardinality(In("NEW"))

\* No event is due any more: handle_events calls rebalance if programs are
\* new, and main unblocks SIGCHLD.
EndEvents ==
    /\ pc = "events" /\ pc' = "select" /\ ticked' = FALSE
    /\ IF new_nr > 0 THEN AdmitNew
                     ELSE UNCHANGED <<st, hashed, new_nr, running_nr, progs_nr>>
    /\ UNCHANGED <<direct, monitor_wnd, sigchld, proc, killed, target,
                   waiting_nr, progs_left, endVars>>

-----------------------------------------------------------------------------
(* select() and the signal handlers.                                       *)

NothingLeft == running_nr = 0 /\ waiting_nr = 0 /\ new_nr = 0

\* select() times out (a pending SIGCHLD would have interrupted it).
SelectTimeout ==
    /\ pc = "select" /\ ~sigchld
    /\ pc' = IF NothingLeft THEN "exited" ELSE "events"
    /\ UNCHANGED <<direct, ticked, monitor_wnd, procVars, countVars, endVars>>

\* sigterm_handler; SIGTERM is masked only inside the other handler.
Sigterm ==
    /\ pc \notin {"sigchld", "rebalance"} /\ ~Over /\ ~sigterm
    /\ massacre' = TRUE /\ sigterm' = TRUE
    /\ UNCHANGED <<direct, pc, ticked, monitor_wnd, procVars, countVars,
                   stop_execution, finalizations>>

SigchldEnter ==
    /\ pc = "select" /\ sigchld
    /\ pc' = "sigchld" /\ sigchld' = FALSE
    /\ UNCHANGED <<direct, ticked, monitor_wnd, st, proc, hashed, killed,
                   target, countVars, endVars>>

\* The handler leaves its waitpid loop: rebalance if deaths > 0 (pfinished_l
\* is empty otherwise), else check_shutdown at once.
LeaveLoop ==
    pc' = IF In("FINISHED") # {} THEN "rebalance"
          ELSE IF NothingLeft THEN "exited" ELSE "select"

\* waitpid returns the pid of slot s and the program is RUNNING -> FINISHED.
\* The assertion of aff_prog_running_finished fails on an unknown pid.
Reap(s) ==
    /\ pc = "sigchld" /\ proc[s] = "zombie" /\ running_nr # 0
    /\ proc' = [proc EXCEPT ![s] = "reaped"]
    /\ IF s \in hashed
         THEN /\ st' = [st EXCEPT ![s] = "FINISHED"]
              /\ hashed' = hashed \ {s}
              /\ running_nr' = running_nr - 1
              /\ UNCHANGED pc
         ELSE pc' = "aborted" /\ UNCHANGED <<st, hashed, running_nr>>
    /\ UNCHANGED <<direct, ticked, monitor_wnd, sigchld, killed, target,
                   waiting_nr, new_nr,
                   progs_left, progs_nr, endVars>>

\* waitpid returns a pid while running_nr is 0: "bogus SIGCHILD", the loop is
\* left although other children may wait to be reaped.
ReapBogus(s) ==
    /\ pc = "sigchld" /\ proc[s] = "zombie" /\ running_nr = 0
    /\ proc' = [proc EXCEPT ![s] = "reaped"]
    /\ LeaveLoop
    /\ UNCHANGED <<direct, ticked, monitor_wnd, sigchld, st, hashed, killed,
                   target, countVars, endVars>>

\* waitpid has no more children to report.
ReapNoMore ==
    /\ pc = "sigchld" /\ LeaveLoop
    /\ UNCHANGED <<direct, ticked, monitor_wnd, procVars, countVars, endVars>>
ReapNone ==
    /\ pc = "sigchld" /\ \A s \in Slots : proc[s] # "zombie"
    /\ LeaveLoop
    /\ UNCHANGED <<direct, ticked, monitor_wnd, procVars, countVars, endVars>>

-----------------------------------------------------------------------------
(* The first loop of rebalance: the programs of pfinished_l.               *)

\* prog_respawn: a new instance is forked, freezes itself and waits.
Respawn(s) ==
    /\ st' = [st EXCEPT ![s] = "WAITING"]
    /\ proc' = [proc EXCEPT ![s] = "frozen"]
    /\ waiting_nr' = waiting_nr + 1
    /\ progs_nr' = progs_nr - 1
    /\ UNCHANGED <<monitor_wnd, hashed, killed, running_nr, progs_left,
                   stop_execution,
                   massacre, finalizations>>

\* The last program has finished: freeze_sched accounts the gang once more
\* (done are the members it kills), kill_all clears every listed program, and
\* the scheduler is finalized.
Terminate(s) ==
    \E done \in SUBSET In("SCH") :
      /\ st' = [p \in Slots |-> IF p = s THEN "GONE"
                                ELSE IF p \in Listed THEN "KILLED" ELSE st[p]]
      /\ proc' = FreezeGang
      /\ hashed' = hashed \ (Listed \cap direct)
      /\ killed' = killed \cup done
      /\ running_nr' = running_nr - Cardinality(Listed)
      /\ progs_nr' = progs_nr - 1 - Cardinality(Listed)
      /\ progs_left' = progs_left - 1 - Cardinality(done)
      /\ monitor_wnd' = MonitorWnd(progs_nr - Cardinality(done))
      /\ finalizations' = finalizations + 1 + Cardinality(done)
      /\ massacre' = TRUE /\ stop_execution' = TRUE
      /\ UNCHANGED waiting_nr

\* No further instance of slot s: its program data is deallocated.
Retire(s) ==
    /\ st' = [st EXCEPT ![s] = "GONE"]
    /\ progs_nr' = progs_nr - 1
    /\ UNCHANGED <<monitor_wnd, proc, hashed, killed, running_nr, waiting_nr,
                   stop_execution, massacre, finalizations>>

\* The test of respawn after its decrement of progs_left.
AlmostLastProg == progs_left - 1 <= 1
LastProg == progs_left - 1 <= 0

\* A program that was neither killed nor finished after the end: its last
\* slice is charged, and respawn decides.
FinishLive(s) ==
    /\ s \notin killed /\ ~stop_execution
    /\ \E n \in Retired :
         /\ target' = [target EXCEPT ![s] = @ - n]
         /\ \/ target[s] - n > Respawnable /\ Respawn(s)
            \/ /\ target[s] - n <= Respawnable /\ ~LastProg
               /\ progs_left' = progs_left - 1 /\ Retire(s)
            \/ target[s] - n <= Respawnable /\ LastProg /\ Terminate(s)

\* It had been killed, or everything is over.
FinishKilledCounted(s) ==
    /\ s \in killed \/ stop_execution
    /\ Retire(s)
    /\ progs_left' = progs_left - 1 /\ UNCHANGED target
FinishKilledRespawned(s) ==
    /\ s \in killed \/ stop_execution
    /\ Respawn(s)
    /\ UNCHANGED target
FinishKilled(s) ==
    /\ s \in killed \/ stop_execution
    /\ Retire(s)
    /\ UNCHANGED <<target, progs_left>>

Finish(s) ==
    /\ pc = "rebalance" /\ st[s] = "FINISHED"
    /\ FinishLive(s) \/ FinishKilled(s)
    /\ UNCHANGED <<direct, pc, ticked, sigchld, new_nr, sigterm>>

\* rebalance goes on to the new programs, and the handler ends with
\* check_shutdown.
EndRebalance ==
    /\ pc = "rebalance" /\ In("FINISHED") = {}
    /\ AdmitNew
    /\ UNCHANGED <<direct, ticked, monitor_wnd, sigchld, proc, killed, target,
                   waiting_nr,
                   progs_left, endVars>>
    /\ pc' = IF NothingLeft' THEN "exited" ELSE "select"

-----------------------------------------------------------------------------
(* The kernel and the programs.                                            *)

\* The freezer cgroup reaches FROZEN; a SIGKILL that comes now stays pending.
Frozen(s) ==
    /\ ~Over /\ proc[s] = "freezing"
    /\ proc' = [proc EXCEPT ![s] = "frozen"]
    /\ UNCHANGED <<direct, pc, ticked, monitor_wnd, sigchld, st, hashed,
                   killed, target, countVars, endVars>>

\* A program that is not yet frozen exits, or dies of a SIGKILL.
Exit(s) ==
    /\ ~Over /\ proc[s] \in {"thawed", "freezing"}
    /\ proc' = [proc EXCEPT ![s] = "zombie"]
    /\ sigchld' = TRUE
    /\ UNCHANGED <<direct, pc, ticked, monitor_wnd, st, hashed, killed, target,
                   countVars, endVars>>

Terminated == Over /\ UNCHANGED vars

-----------------------------------------------------------------------------
Next ==
    \/ QExpired \/ EndEvents \/ SelectTimeout \/ Sigterm
    \/ SigchldEnter \/ ReapNone \/ EndRebalance \/ Terminated
    \/ \E gang \in SUBSET Slots : Schedule(gang)
    \/ \E s \in Slots : \/ ProgWaitingNew(s) \/ Account(s)
                        \/ Reap(s) \/ ReapBogus(s) \/ Finish(s)
                        \/ Frozen(s) \/ Exit(s)

Spec == Init /\ [][Next]_vars

-----------------------------------------------------------------------------
(* Fairness.  The process is scheduled by the kernel; time passes, so every *)
(* start time comes and the quantum expires again and again; and a policy   *)
(* leaves no program of progs_all out for ever (the longest waiting, or the *)
(* one that made the least progress, is taken first).  Programs need not    *)
(* exit by themselves.                                                      *)
ExecutorStep ==
    \/ EndEvents \/ SelectTimeout \/ SigchldEnter \/ ReapNone \/ EndRebalance
    \/ \E gang \in SUBSET Slots : Schedule(gang)
    \/ \E s \in Slots : Account(s) \/ Reap(s) \/ ReapBogus(s) \/ Finish(s)

ScheduleWith(s) == \E gang \in SUBSET Slots : s \in gang /\ Schedule(gang)

Fairness ==
    /\ WF_vars(ExecutorStep)
    /\ SF_vars(QExpired)
    /\ \A s \in Slots : SF_vars(ProgWaitingNew(s)) /\ SF_vars(ScheduleWith(s))

FairSpec == Spec /\ Fairness

-----------------------------------------------------------------------------
(* Properties.                                                             *)

TypeOK ==
    /\ direct \subseteq Slots
    /\ pc \in PcValues /\ ticked \in BOOLEAN /\ sigchld \in BOOLEAN
    /\ st \in [Slots -> StValues] /\ proc \in [Slots -> ProcValues]
    /\ hashed \subseteq Slots /\ killed \subseteq Slots
    /\ target \in [Slots -> Int]
    /\ waiting_nr \in Int /\ new_nr \in Int /\ running_nr \in Int
    /\ progs_left \in Int /\ progs_nr \in Int /\ monitor_wnd \in Nat
    /\ stop_execution \in BOOLEAN /\ massacre \in BOOLEAN
    /\ sigterm \in BOOLEAN /\ finalizations \in Nat

\* The slots that still owe work: some instance is waiting, new, listed, or
\* reaped but not yet handled by rebalance.
Live == {s \in Slots : \/ st[s] \in {"WAITING", "NEW", "ALL", "SCH"}
                       \/ st[s] = "FINISHED" /\ s \notin killed}

\* progs_left, decremented in kill_app and in respawn, is the number of slots
\* that still owe work, whatever the order of ticks, kills, exits and reaps;
\* a program that is killed and then reaped is not counted off twice.
ProgsLeftExact == progs_left = Cardinality(Live)

\* sched_finalization frees the counters and closes the result files: it is
\* called at most once, and exactly when no slot owes work any more.
AtMostOneFinalization ==
    /\ finalizations <= 1
    /\ (finalizations = 1) <=> (Live = {})

\* When stop_execution is raised nothing is waiting, new or listed: kill_all
\* has nobody to kill, and the branch of rebalance that would leave a frozen,
\* SIGKILLed program in pnew_l is never taken.
StopMeansNothingLeft == stop_execution => Live = {}

\* A program executes only while it is in the gang, and from the moment the
\* gang has been told to freeze no program executes freely.
OnlyGangRuns ==
    \A s \in Slots : proc[s] = "thawed" => st[s] = "SCH" /\ pc # "freeze"

\* monitor() takes the first entry of progs_all without testing for an empty
\* list; whenever freeze_sched ends in the monitoring phase there is one.
MonitorHasProgram ==
    (/\ pc = "freeze" /\ In("SCH") = {}
     /\ Monitoring(MonitorWnd(progs_nr), progs_nr)) => In("ALL") # {}

\* A slot whose program reached its target is never given another instance,
\* nor does the killed program come back to a list of the scheduler.
KilledForGood ==
    [][\A s \in killed : s \in killed' /\ st'[s] \in {"KILLED", "FINISHED", "GONE"}]_vars

\* Only with shells that exec their programs are the keys of the pid table those
\* that sched_clear_prog deletes; the run early shows what happens with others.
AllDirect == direct = Slots

\* With shells that exec the program, running_nr and progs_nr count the
\* listed programs at every step, until an assertion stops the executor.
RunningExact ==
    AllDirect => /\ running_nr = Cardinality(Listed)
                 /\ progs_nr = Cardinality(Listed \cup In("FINISHED"))

\* No exit of a listed program is forgotten although the handler may leave
\* its loop early: a SIGCHLD is pending or the loop is going on.
DeathsKnown == \A s \in Listed : proc[s] = "zombie" => sigchld \/ pc \in {"sigchld", "aborted"}
NoLostChild == AllDirect => DeathsKnown

\* check_shutdown lets the executor exit only when every slot has finished.
ExitComplete == pc = "exited" => Live = {}

\* The executor implements the abstract life cycle of Lifecycle: slots complete
\* one at a time, whatever the shells do, and with shells that exec the program
\* it exits only then.  With others its exit is none of Lifecycle.
Abstract  == INSTANCE Lifecycle WITH owing <- Live, exited <- (pc = "exited" /\ AllDirect)
ImplementsLifecycle == Abstract!Spec

\* The assertion of aff_prog_running_finished: waitpid returns no pid that the
\* hash table does not know.
ReapedPidKnown == pc # "aborted"

\* Everything ends: each slot is brought to its target or finishes, and the
\* executor leaves its loop; again with shells that exec the program.
Termination == AllDirect => <>Over

-----------------------------------------------------------------------------
(* The inductive invariant of Executor_proofs, conjoined with TypeOK.       *)

\* The instances that progs_nr counts.
Held == Listed \cup (In("FINISHED") \ killed)

\* What the lists, the hash table and the processes say of each other.
ListInv ==
    /\ pc \notin {"sigchld", "rebalance", "aborted"} => In("FINISHED") = {}
    /\ \A s \in Slots :
         /\ s \in killed => st[s] \in {"KILLED", "FINISHED", "GONE"}
         /\ st[s] = "KILLED" => s \in killed
         /\ s \in hashed => st[s] \in {"ALL", "SCH", "KILLED"}
         /\ proc[s] = "thawed" => st[s] = "SCH" /\ pc # "freeze"
         /\ st[s] \in {"WAITING", "NEW"} => proc[s] = "frozen"

\* The counters against the lists, for any mix of shells.
CountInv ==
    /\ waiting_nr = Cardinality(In("WAITING")) /\ new_nr = Cardinality(In("NEW"))
    /\ progs_left = Cardinality(Live)
    /\ finalizations = IF Live = {} THEN 1 ELSE 0
    /\ stop_execution => Live = {}
    /\ progs_nr <= Cardinality(Held)

\* What holds in addition when every shell execs its program.
DirectInv ==
    /\ hashed = Listed /\ In("FINISHED") \cap killed = {}
    /\ running_nr = Cardinality(Listed) /\ progs_nr = Cardinality(Held)
    /\ DeathsKnown /\ ExitComplete
=============================================================================
