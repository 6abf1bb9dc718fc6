------------------------------ MODULE Startup -------------------------------
(***************************************************************************)
(* How the executor starts, how it starts a program, and how a program     *)
(* talks to it.                                                            *)
(*                                                                         *)
(* main reads the configuration file, starting a program for each line of  *)
(* it, and only then looks for the policy and for the file of the targets; *)
(* it exits at the first thing that is wrong.  do_execute forks a shell    *)
(* and waits until the program has frozen itself: the constructor of the   *)
(* preload object (src/aff-executor-preload.c) does it before main() is    *)
(* entered.  Later the program asks for cores: it writes its handle into   *)
(* the pipe that all programs share and waits for an answer on a pipe of   *)
(* its own, which handle_prog_notifications writes.  What is scheduled is  *)
(* left open here, but for the size of a gang, and so is when a program    *)
(* reaches its target: the tick kills it then, asking for cores or not.    *)
(***************************************************************************)
EXTENDS Integers, Sequences, SequencesExt, FiniteSets

CONSTANTS Progs,      \* the programs of the configuration file
          GangSize,   \* MAX_CORES: the most programs that are thawed at once
          FdsNr,      \* the iterations of the reading loop: sizeof(prog_fds)
          Prompt,     \* is a gang frozen before its successor's quantum ends?
          Respawns,   \* bound: how many programs are started again
          Configs,    \* what it may be started with: the lines of the
                      \* configuration file, the name of a policy, and whether
                      \* there is a file of targets
          Registered, \* aff_schedulers: the policies whose constructor has run
          MayFail,    \* programs whose command may not get as far as freezing
          MayKill     \* programs that may reach their target before they end

ASSUME StartupAssumption == /\ IsFiniteSet(Progs) /\ Respawns \in Nat
                            /\ GangSize \in Nat \ {0} /\ FdsNr \in Nat \ {0}
                            /\ Prompt \in BOOLEAN /\ MayFail \subseteq Progs /\ MayKill \subseteq Progs
                            /\ {"comment", "malformed"} \cap Progs = {}
                            /\ \A c \in Configs :
                                 /\ c.lines \in Seq(Progs \cup {"comment", "malformed"})
                                 /\ \A i, j \in DOMAIN c.lines :
                                      c.lines[i] = c.lines[j] /\ c.lines[i] \in Progs => i = j

VARIABLES config,     \* the arguments and the files
          line,       \* the lines of the configuration that have been read
          waiting_nr, \* programs of the file started so far; progs_init then
          id,         \* id[p]: prog->id, which names its cgroup, its cpuset and
                      \* its shared memory
          pc,         \* where the executor process is
          cur,        \* the program do_execute waits for
          back,       \* where it goes on then
          app,        \* app[p]: where the process of p is
          cgroup,     \* cgroup[p]: what frzr_getstate finds
          app_pid,    \* the programs whose pid is in the shared memory
          pid,        \* the programs whose prog->pid is set
          gang,       \* the programs that were thawed last
          killed,     \* the programs with pd->killed set
          old,        \* the id of a program that is freed as soon as its
                      \* successor has started; 0 if there is none
          pipe,       \* ExecSt.pipe: handles, in order
          prog_fds,   \* the local array: who has to be answered
          answers,    \* answers[p]: what is in prog->pipe
          respawned   \* programs started again so far

files == <<config, line, waiting_nr>>
exec == <<pc, cur, back>>
notes == <<pipe, prog_fds, answers>>
vars == <<files, id, exec, app, cgroup, app_pid, pid, gang, killed, old, notes, respawned>>

PcValues == {"start",   \* in parse_file
             "exited",  \* the configuration was rejected
             "poll",    \* in the loop of do_execute
             "pass",    \* in handle_events, SIGCHLD blocked
             "select",
             "read", "reply",   \* in handle_prog_notifications
             "lost"}  \* dead by SIGPIPE, or gone on with a freed program

AppValues == {"none", "shell",
              "ctor", "told",     \* in the constructor, before and after the pid is stored
              "grouped",          \* in its own freezer cgroup
              "entry",            \* the constructor has written FROZEN
              "main", "wait",     \* running, and waiting for an answer
              "zombie", "gone",
              "failed"}           \* ended before its cgroup was frozen

Init ==
    /\ config \in Configs /\ line = 0 /\ waiting_nr = 0
    /\ id = [p \in Progs |-> 0]
    /\ pc = "start" /\ cur \in Progs /\ back = "start"
    /\ app = [p \in Progs |-> "none"] /\ cgroup = [p \in Progs |-> "absent"]
    /\ app_pid = {} /\ pid = {} /\ gang = {} /\ killed = {} /\ old = 0
    /\ pipe = <<>> /\ prog_fds = <<>> /\ answers = [p \in Progs |-> 0]
    /\ respawned = 0

-----------------------------------------------------------------------------
(* The program.  It runs unless its cgroup is frozen; one that is told to  *)
(* freeze from outside goes on for a while.                                *)
Runs(p) == cgroup[p] \in {"absent", "thawed", "freezing"}

AppStep(p, from, to) ==
    /\ app[p] = from /\ app' = [app EXCEPT ![p] = to]
    /\ UNCHANGED <<files, id, exec, pid, gang, killed, old, respawned>>

\* The shell runs the command, and the dynamic linker the constructor.
Exec(p) == AppStep(p, "shell", "ctor") /\ UNCHANGED <<cgroup, app_pid, notes>>

\* There is no such command, or the constructor dies: it does at a missing
\* variable, object or cgroup.
Fail(p) ==
    /\ p \in MayFail
    /\ \E at \in {"shell", "ctor", "told", "grouped"} : AppStep(p, at, "failed")
    /\ UNCHANGED <<cgroup, app_pid, notes>>

SetPid(p) ==
    /\ AppStep(p, "ctor", "told")
    /\ app_pid' = app_pid \cup {p} /\ UNCHANGED <<cgroup, notes>>

\* frzr_init: mkdir, then the process becomes a task of the new cgroup.
JoinGroup(p) ==
    /\ AppStep(p, "told", "grouped")
    /\ cgroup' = [cgroup EXCEPT ![p] = "thawed"] /\ UNCHANGED <<app_pid, notes>>

\* Mutant: the wrong state is written.
ThawSelf(p) ==
    /\ AppStep(p, "grouped", "entry")
    /\ cgroup' = [cgroup EXCEPT ![p] = "thawed"] /\ UNCHANGED <<app_pid, notes>>

\* frzr_setstate by the program itself, which does not return from it before
\* it is thawed again.
FreezeSelf(p) ==
    /\ AppStep(p, "grouped", "entry")
    /\ cgroup' = [cgroup EXCEPT ![p] = "freezing"] /\ UNCHANGED <<app_pid, notes>>

Enter(p) ==
    /\ cgroup[p] = "thawed" /\ AppStep(p, "entry", "main")
    /\ UNCHANGED <<cgroup, app_pid, notes>>

\* affhook_region_notify: the handle is written, and a blocking read follows.
Notify(p) ==
    /\ Runs(p) /\ AppStep(p, "main", "wait")
    /\ pipe' = Append(pipe, p)
    /\ UNCHANGED <<cgroup, app_pid, prog_fds, answers>>

Answered(p) ==
    /\ Runs(p) /\ answers[p] > 0 /\ AppStep(p, "wait", "main")
    /\ answers' = [answers EXCEPT ![p] = @ - 1]
    /\ UNCHANGED <<cgroup, app_pid, pipe, prog_fds>>

Exit(p) ==
    /\ Runs(p) /\ AppStep(p, "main", "zombie")
    /\ UNCHANGED <<cgroup, app_pid, notes>>

\* SIGKILL takes effect, wherever the program is: its handle stays where it is.
\* A program that is frozen first stands still with the signal pending.
Die(p) ==
    /\ p \in killed /\ Runs(p)
    /\ \E at \in {"entry", "main", "wait"} : AppStep(p, at, "zombie")
    /\ UNCHANGED <<cgroup, app_pid, notes>>

\* The kernel has stopped the last task of the cgroup.
Frozen(p) ==
    /\ cgroup[p] = "freezing" /\ cgroup' = [cgroup EXCEPT ![p] = "frozen"]
    /\ UNCHANGED <<files, id, exec, app, app_pid, pid, gang, killed, old, notes, respawned>>

-----------------------------------------------------------------------------
(* The executor: starting.                                                 *)

\* parse_file counts the programs from 1000 on, respawn adds progs_init (which
\* is what waiting_nr was when the scheduler was initialized); the mutant adds
\* one.
IdOffset == 1000
NextId(p) == id[p] + 1
RespawnId(p) == id[p] + waiting_nr

\* aff_prog_alloc and do_execute up to the fork.
Fork(p, return) ==
    /\ pc' = "poll" /\ cur' = p /\ back' = return
    /\ app' = [app EXCEPT ![p] = "shell"]

\* The next line of the configuration file.
ReadLine(what) ==
    /\ pc = "start" /\ line < Len(config.lines)
    /\ config.lines[line + 1] = what
    /\ line' = line + 1
    /\ UNCHANGED <<config, cgroup, app_pid, pid, gang, killed, old, notes, respawned>>

StartNext(p) ==
    /\ ReadLine(p) /\ Fork(p, "start")
    /\ id' = [id EXCEPT ![p] = IdOffset + waiting_nr]
    /\ waiting_nr' = waiting_nr + 1

Comment == ReadLine("comment") /\ UNCHANGED <<waiting_nr, id, exec, app>>

\* exit(1): a line that is too long, or has no end, or too few columns.
Malformed ==
    /\ ReadLine("malformed") /\ pc' = "exited"
    /\ UNCHANGED <<waiting_nr, id, cur, back, app>>

\* "we wait until the program is FROZEN".  Back in rebalance, the predecessor
\* of a program that was started again is freed.
\* Mutant: it waits only for the cgroup to exist.
IsThere == cgroup[cur] # "absent"
IsFrozen == cgroup[cur] = "frozen"
Started ==
    /\ pc = "poll" /\ IsFrozen
    /\ pid' = IF cur \in app_pid THEN pid \cup {cur} ELSE pid
    /\ pc' = back /\ old' = 0
    /\ UNCHANGED <<files, id, cur, back, app, cgroup, app_pid, gang, killed, notes, respawned>>

Poll == pc = "poll" /\ ~IsFrozen /\ UNCHANGED vars

\* get_scheduler and the initialization of the policy, which opens the file of
\* the targets; either exits.
Accepted == config.policy \in Registered /\ config.targets
AllStarted ==
    /\ pc = "start" /\ line = Len(config.lines)
    /\ pc' = IF Accepted THEN "pass" ELSE "exited"
    /\ UNCHANGED <<files, id, cur, back, app, cgroup, app_pid, pid, gang, killed, old, notes, respawned>>

Exited == pc \in {"exited", "lost"} /\ UNCHANGED vars

-----------------------------------------------------------------------------
(* The executor: events, select and notifications.                         *)

Present == {p \in Progs : cgroup[p] # "absent"}
Gangs == config.policy # "linux"

\* The last gang is told to freeze, and does so in its own time.
Switch(new) ==
    /\ gang' = new
    /\ cgroup' = [p \in Progs |->
                    IF p \in new THEN "thawed"
                    ELSE IF p \in gang /\ cgroup[p] = "thawed" THEN "freezing" ELSE cgroup[p]]

\* SIGKILL for programs that run and have reached their target; "killed" keeps
\* them from being started again.
MayReach == gang \cap MayKill
Kill(dead) == killed' = killed \cup dead

Quantum(new, dead) ==
    /\ pc = "pass" /\ pc' = "select"
    /\ Switch(new) /\ Kill(dead)
    /\ UNCHANGED <<files, id, cur, back, app, app_pid, pid, old, notes, respawned>>

\* A quantum expires: freeze_sched, which kills, schedule, thaw_sched.  A killed
\* program is in none of the policy's lists any more and is not thawed again.
GangTick(new, dead) ==
    /\ Quantum(new, dead) /\ Gangs
    /\ Cardinality(new) <= GangSize /\ new \cap (killed \cup dead) = {}

\* linux thaws the programs that are new and freezes none.
LinuxTick(new, dead) == Quantum(new, dead) /\ ~Gangs /\ gang \subseteq new

\* select() returns as long as there is something to read.
SelectPipe ==
    /\ pc = "select" /\ pipe # <<>>
    /\ pc' = "read" /\ prog_fds' = <<>>
    /\ UNCHANGED <<files, id, cur, back, app, cgroup, app_pid, pid, gang, killed, old, pipe, answers, respawned>>

NothingToRead == pipe = <<>>

\* Nothing to read until the quantum expires; a pass that only starts
\* programs changes nothing here.
SelectTimeout ==
    /\ pc = "select" /\ NothingToRead
    /\ Prompt => \A p \in Progs : cgroup[p] # "freezing"
    /\ pc' = "pass"
    /\ UNCHANGED <<files, id, cur, back, app, cgroup, app_pid, pid, gang, killed, old, notes, respawned>>

\* One handle is read; the pipe is not blocking.  prog->shm and prog->pipe are
\* looked up at once: if the program has been freed, that is undefined.
ReadHandle ==
    /\ pc = "read" /\ pipe # <<>> /\ Len(prog_fds) < FdsNr
    /\ prog_fds' = Append(prog_fds, Head(pipe)) /\ pipe' = Tail(pipe)
    /\ pc' = IF app[Head(pipe)] = "gone" THEN "lost" ELSE pc
    /\ UNCHANGED <<files, id, cur, back, app, cgroup, app_pid, pid, gang, killed, old, answers, respawned>>

ReadEnd ==
    /\ pc = "read" /\ (pipe = <<>> \/ Len(prog_fds) = FdsNr)
    /\ pc' = "reply"
    /\ UNCHANGED <<files, id, cur, back, app, cgroup, app_pid, pid, gang, killed, old, notes, respawned>>

\* Mutant: the first program is not answered.
AllButFirst(fds) == Len(fds) > 1

\* The answers are written from the last to the first.  Nobody reads the pipe
\* of a dead program: SIGPIPE ends the executor.  That of a freed one is closed,
\* unless the descriptor belongs to another program by now.
ToAnswer(fds) == Len(fds) > 0
Rest(fds) == Front(fds)
Ended(p) == app[p] \in {"zombie", "gone"}
Reply ==
    /\ pc = "reply"
    /\ IF ToAnswer(prog_fds)
       THEN /\ prog_fds' = Rest(prog_fds)
            /\ IF Ended(Last(prog_fds))
               THEN pc' = "lost" /\ UNCHANGED answers
               ELSE answers' = [answers EXCEPT ![Last(prog_fds)] = @ + 1] /\ UNCHANGED pc
       ELSE pc' = "select" /\ prog_fds' = <<>> /\ UNCHANGED answers
    /\ UNCHANGED <<files, id, cur, back, app, cgroup, app_pid, pid, gang, killed, old, pipe, respawned>>

\* SIGCHLD, which select and the notifications do not block.  rebalance runs in
\* the handler: it may start a successor, and frees the program after that; or
\* it frees it at once, whether it was killed or not, and does not ask what is
\* in the pipe.
Reap(p) ==
    /\ pc \in {"select", "read", "reply"} /\ app[p] = "zombie"
    /\ cgroup' = [cgroup EXCEPT ![p] = "absent"]
    /\ app_pid' = app_pid \ {p} /\ pid' = pid \ {p} /\ gang' = gang \ {p}
    /\ \/ /\ p \notin killed /\ respawned < Respawns
          /\ Fork(p, pc) /\ respawned' = respawned + 1
          /\ id' = [id EXCEPT ![p] = RespawnId(p)] /\ old' = id[p]
       \/ app' = [app EXCEPT ![p] = "gone"] /\ UNCHANGED <<exec, id, old, respawned>>
    /\ answers' = [answers EXCEPT ![p] = 0]
    /\ UNCHANGED <<files, killed, pipe, prog_fds>>

Executor ==
    \/ Comment \/ Malformed \/ Started \/ AllStarted \/ SelectPipe \/ SelectTimeout
    \/ ReadHandle \/ ReadEnd \/ Reply
    \/ \E new \in SUBSET Present, dead \in SUBSET MayReach :
         GangTick(new, dead) \/ LinuxTick(new, dead)
    \/ \E p \in Progs : StartNext(p) \/ Reap(p)

Begins(p) == Exec(p) \/ SetPid(p) \/ JoinGroup(p) \/ FreezeSelf(p) \/ Frozen(p)
Works(p) == Enter(p) \/ Notify(p) \/ Answered(p) \/ Exit(p) \/ Die(p)

Next == Executor \/ Poll \/ Exited \/ \E p \in Progs : Begins(p) \/ Fail(p) \/ Works(p)

Spec == Init /\ [][Next]_vars

\* The processes are scheduled; a program need not ask, exit or go on.
Fairness == WF_vars(Executor) /\ \A p \in Progs : WF_vars(Begins(p))
FairSpec == Spec /\ Fairness

-----------------------------------------------------------------------------
(* Properties.                                                             *)

TypeOK ==
    /\ config \in Configs /\ line \in 0..Len(config.lines) /\ waiting_nr \in 0..line
    /\ id \in [Progs -> Nat]
    /\ pc \in PcValues /\ back \in PcValues /\ cur \in Progs
    /\ app \in [Progs -> AppValues]
    /\ cgroup \in [Progs -> {"absent", "thawed", "freezing", "frozen"}]
    /\ app_pid \subseteq Progs /\ pid \subseteq Progs /\ gang \subseteq Progs
    /\ killed \subseteq MayKill /\ old \in Nat
    /\ pipe \in Seq(Progs) /\ prog_fds \in Seq(Progs)
    /\ answers \in [Progs -> 0..1] /\ respawned \in 0..Respawns

\* The comment of do_execute: the state is not set to THAWED before the
\* program has frozen itself, or its own FROZEN would undo it and the program
\* would stand still in the gang.  And prog->pid, which kill_app uses, is known
\* for every program that has been started, however the constructor and the
\* waiting executor interleave.  When main rejects its configuration half way,
\* what it has started stands frozen and has not entered its main().
HandshakeSound ==
    /\ TypeOK
    /\ \A p \in gang : cgroup[p] = "thawed" /\ app[p] \notin {"shell", "ctor", "told", "grouped"}
    /\ pc # "poll" => {p \in Progs : app[p] \notin {"none", "gone"}} \subseteq pid
    /\ pc = "exited" => \A p \in pid : app[p] = "entry" /\ cgroup[p] = "frozen"

\* Two programs that exist never share a cgroup, nor does a program share one
\* with its predecessor, which is still there while the executor waits for its
\* FROZEN.  And the slot a program is accounted to, its init_id, is that of its
\* line among the programs of the file, however often it and others have been
\* started again.
init_id(p) == (id[p] - IdOffset) % waiting_nr
Slot(p) == Cardinality({q \in Progs : \E i, j \in DOMAIN config.lines :
                          i < j /\ config.lines[i] = q /\ config.lines[j] = p})
IdsSound ==
    LET there == {p \in Progs : app[p] # "none"}
    IN /\ \A p, q \in there : id[p] = id[q] => p = q
       /\ \A p \in there : id[p] # old
       /\ pc \in {"pass", "select"} => \A p \in there : init_id(p) = Slot(p)

\* A program that waits has exactly one request under way: its handle is in
\* the pipe or in prog_fds, or the answer in its own pipe.  Nobody else has
\* one, but for a program that was killed while it waited: it leaves one handle
\* behind, never more, and is not started again under it.  And prog_fds has 16
\* entries, which nothing in the loop checks: if a gang is frozen within a
\* quantum, the requests are those of the gang and of the one before it, twice
\* MAX_CORES at most, which is 12, the killed included.
Times(p, seq) == Cardinality({i \in DOMAIN seq : seq[i] = p})
Requests(p) == Times(p, pipe) + Times(p, prog_fds) + answers[p]
Owed(p) == IF app[p] = "wait" THEN {1}
           ELSE IF p \in killed /\ Ended(p) THEN {0, 1} ELSE {0}
OneRequest ==
    /\ \A p \in Progs : Requests(p) \in Owed(p)
    /\ Prompt /\ Gangs => Len(prog_fds) <= 2 * GangSize

\* What aff_shm_alloc says of the handle: it tells the executor which program a
\* request in the pipe is from.  So no handle outlives the program it points to.
HandleNamesProgram ==
    \A p \in Progs : Times(p, pipe) + Times(p, prog_fds) > 0 => app[p] # "gone"

\* do_execute does not look whether its child lives, and while it waits nobody
\* reaps: SIGCHLD has no handler yet, or is being handled.
Stuck == pc = "poll" /\ app[cur] = "failed"

\* The executor gets through all its starts, but for one whose command fails:
\* that one it waits for.
StartsEnd == pc = "poll" ~> (pc # "poll" \/ Stuck)

\* Whoever asks is answered, even if it is frozen by then, unless a start that
\* is under way fails, or the handle of a killed program has ended the executor.
RequestAnswered ==
    \A p \in Progs :
        app[p] = "wait" ~> (answers[p] = 1 \/ app[p] # "wait" \/ Stuck \/ pc = "lost")

-----------------------------------------------------------------------------
(* The inductive invariant of Startup_proofs, conjoined with TypeOK.        *)

\* do_execute waits for p; and the configuration file is being read.
Starting(p) == pc = "poll" /\ cur = p
Loading == pc \in {"start", "exited"} \/ (pc = "poll" /\ back = "start")

\* How far a process has come, against its cgroup and what the executor knows
\* of it: it is thawed by being in the gang, or has just made its cgroup.
HandInv ==
    /\ back \in {"start", "select", "read", "reply"} /\ pid \subseteq app_pid
    /\ Loading => /\ gang = {} /\ killed = {}
                  /\ \A p \in pid : app[p] = "entry" /\ cgroup[p] = "frozen"
    /\ \A p \in Progs :
         /\ app[p] \in {"shell", "ctor", "told", "grouped", "failed"} => Starting(p)
         /\ Starting(p) =>
              /\ p \notin gang \cup pid \cup killed
              /\ app[p] \in {"shell", "ctor", "told", "grouped", "failed", "entry"}
              /\ app[p] = "entry" => cgroup[p] \in {"freezing", "frozen"}
         /\ app[p] \in {"entry", "main", "wait", "zombie"} =>
              p \in app_pid /\ cgroup[p] # "absent" /\ (p \in pid \/ Starting(p))
         /\ app[p] \in {"told", "grouped"} => p \in app_pid
         /\ app[p] \in {"none", "gone", "shell", "ctor", "told"} => cgroup[p] = "absent"
         /\ app[p] \in {"grouped", "failed"} => cgroup[p] \in {"absent", "thawed"}
         /\ p \in pid => app[p] \in {"entry", "main", "wait", "zombie"}
         /\ p \in gang => cgroup[p] = "thawed"
         /\ cgroup[p] = "thawed" => p \in gang \/ Starting(p)

\* The lines that were read against the programs there are, and the ids: that
\* of the k-th instance after the first is k times the number of slots on.
ReadProgs == {q \in Progs : \E i \in 1..line : config.lines[i] = q}
IdInv ==
    /\ {p \in Progs : app[p] # "none"} = ReadProgs
    /\ waiting_nr = Cardinality(ReadProgs)
    /\ ~Loading => line = Len(config.lines)
    /\ \A p \in ReadProgs : \E k \in 0..respawned :
         /\ id[p] = (IdOffset + Slot(p)) + k * waiting_nr
         /\ Loading => k = 0

\* A predecessor has the same slot and is one instance back.
OldInv ==
    old # 0 => /\ ~Loading /\ pc = "poll" /\ cur \in ReadProgs
               /\ id[cur] = old + waiting_nr
               /\ \E k \in 0..respawned : old = (IdOffset + Slot(cur)) + k * waiting_nr

\* Handles are being answered only while the handler of the pipe is at work,
\* and a program that was killed and has ended is not followed by another.
RequestInv ==
    /\ prog_fds # <<>> =>
         pc \in {"read", "reply", "lost"} \/ (pc = "poll" /\ back \in {"read", "reply"})
    /\ \A p \in Progs : Requests(p) \in Owed(p)

\* Whose handle is read and not answered, or may still be written before the
\* program is frozen: a member of this gang or of the last.
Asks(p) == \/ Times(p, pipe) + Times(p, prog_fds) > 0
           \/ cgroup[p] = "freezing" /\ ~Starting(p)
AskedBy(last) == \A p \in Progs : Asks(p) => p \in gang \cup last
WindowInv ==
    Gangs =>
      /\ Cardinality(gang) <= GangSize /\ gang \cap killed = {}
      /\ Prompt /\ pc = "pass" => AskedBy({})
      /\ Prompt => \E last \in SUBSET Progs : Cardinality(last) <= GangSize /\ AskedBy(last)

IInv == TypeOK /\ HandInv /\ IdInv /\ OldInv /\ RequestInv /\ WindowInv
=============================================================================
