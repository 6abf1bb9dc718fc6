----------------------------- MODULE EventHeap ------------------------------
(***************************************************************************)
(* The event heap (src/heap.c) under the loop of main                      *)
(* (src/aff-executor.c).  The array of the heap is the sequence heap:      *)
(* position i of the code is i + 1 here, so the parent of p is p \div 2;   *)
(* the array itself, which grows by grains and never shrinks               *)
(* (src/dynarray.c), has room for elems_nr of them.  Elements are pointers *)
(* to events, compared by their times; left[e] is the time that is left    *)
(* until e is due, so that passing time is subtracted from all of them.    *)
(***************************************************************************)
EXTENDS Integers, Sequences, SequencesExt

CONSTANTS Progs,       \* the EVNT_NEWPROG events, one for each program
          Qt,          \* qt_event
          Order,       \* the order of the programs in the configuration file
          Quantum,     \* qt
          MaxStart,    \* bound: the latest start time
          MaxSleep,    \* bound: the longest sleep in select()
          MaxFraction, \* bound: how far tv_sec lags behind the time of day
          AllocGrain,  \* alloc_grain, 128 in heap_init
          MayReset     \* does the scheduler set ExecSt.reset_qt?

ASSUME EventsAssumption == /\ Qt \notin Progs /\ Order \in Seq(Progs)
                           /\ IsInjective(Order) /\ ToSet(Order) = Progs
ASSUME TimesAssumption  == /\ Quantum \in Nat \ {0} /\ MaxStart \in Nat
                           /\ MaxSleep \in Nat \ {0} /\ MaxFraction \in Nat
ASSUME ResetAssumption  == MayReset \in BOOLEAN
ASSUME GrainAssumption  == AllocGrain \in Nat \ {0}

Events == Progs \cup {Qt}

VARIABLES heap,      \* ExecSt.events_heap
          elems_nr,  \* how many elements its array has room for
          left,      \* the time until an event is due; 0 if not in the heap
          phase,     \* "pass" in select_ready_events, "select" in select()
          wake,      \* next_wakeup: what is left of the sleep
          reset_qt

vars == <<heap, elems_nr, left, phase, wake, reset_qt>>

-----------------------------------------------------------------------------
(* dynarray_alloc for an array of n elements: it expands a full one; in the *)
(* mutant one that is more than full.                                       *)

ExpandLate(n, room) == IF n > room THEN room + AllocGrain ELSE room
Expand(n, room) == IF n >= room THEN room + AllocGrain ELSE room

-----------------------------------------------------------------------------
(* heap.c; key[e] stands for evnt->tv.                                      *)

Leq(key, e, f) == key[e] <= key[f]

\* A position of the array h that is to be written, and the array so far.
Places(h) == [heap : [DOMAIN h -> Events], pos : DOMAIN h]

\* The element of position q moves to the place, and leaves one.
Move(at, q) == [heap |-> [at.heap EXCEPT ![at.pos] = at.heap[q]], pos |-> q]

\* siftdown: the ancestors of position p that come after e move down.
SiftDown(key, h, p, e) ==
    LET sift[at \in Places(h)] ==
          IF at.pos = 1 \/ Leq(key, at.heap[at.pos \div 2], e)
            THEN [at.heap EXCEPT ![at.pos] = e]
            ELSE sift[Move(at, at.pos \div 2)]
    IN sift[[heap |-> h, pos |-> p]]

HeapPush(key, h, e) == SiftDown(key, Append(h, e), Len(h) + 1, e)

\* The child that is moved into an empty position p of a heap of size n.
LeftChild(key, h, p, n) == 2 * p
Child(key, h, p, n) ==
    IF 2 * p + 1 <= n /\ Leq(key, h[2 * p + 1], h[2 * p]) THEN 2 * p + 1 ELSE 2 * p

\* The loop of __heap_pop: the empty position sinks to a leaf.
Sink(key, h, p, n) ==
    LET sink[at \in Places(h)] ==
          IF 2 * at.pos > n THEN at ELSE sink[Move(at, Child(key, at.heap, at.pos, n))]
    IN sink[[heap |-> h, pos |-> p]]

\* __heap_pop: the last element goes to the empty leaf and moves up from there.
HeapPopAt(key, h, p) ==
    LET sunk == Sink(key, h, p, Len(h) - 1)
    IN  SubSeq(SiftDown(key, sunk.heap, sunk.pos, Last(h)), 1, Len(h) - 1)

HeapPopElem(key, h, e) ==
    IF \E p \in DOMAIN h : h[p] = e
      THEN HeapPopAt(key, h, SelectInSeq(h, LAMBDA f : f = e))
      ELSE h

-----------------------------------------------------------------------------
\* parse_file pushes the programs, init of the scheduler the quantum event.
Loaded(key, list) ==
    LET load[n \in 0 .. Len(list)] ==
          IF n = 0 THEN [heap |-> <<>>, room |-> AllocGrain]
          ELSE [heap |-> HeapPush(key, load[n - 1].heap, list[n]),
                room |-> Expand(n - 1, load[n - 1].room)]
    IN load[Len(list)]

Init ==
    /\ \E start \in [Progs -> 0 .. MaxStart] :
         left = [e \in Events |-> IF e = Qt THEN Quantum ELSE start[e]]
    /\ heap = Loaded(left, Order \o <<Qt>>).heap
    /\ elems_nr = Loaded(left, Order \o <<Qt>>).room
    /\ phase = "pass" /\ wake = 0 /\ reset_qt = FALSE

Due(e) == heap # <<>> /\ heap[1] = e /\ left[e] <= 0

\* EVNT_NEWPROG is popped, handled and deallocated.
HandleProg(e) ==
    /\ phase = "pass" /\ e \in Progs /\ Due(e)
    /\ heap' = HeapPopAt(left, heap, 1)
    /\ left' = [left EXCEPT ![e] = 0]
    /\ UNCHANGED <<elems_nr, phase, wake, reset_qt>>

\* EVNT_QEXPIRED is popped; qexpired sets its time and pushes it back.
Tick == [left EXCEPT ![Qt] = Quantum]
HandleQuantum ==
    /\ phase = "pass" /\ Due(Qt)
    /\ left' = Tick
    /\ heap' = HeapPush(left', HeapPopAt(left, heap, 1), Qt)
    /\ elems_nr' = Expand(Len(heap) - 1, elems_nr)
    /\ reset_qt' \in {reset_qt, reset_qt \/ MayReset}
    /\ UNCHANGED <<phase, wake>>

\* The first event is not due: next_wakeup is the time until it is.
Later(e)      == left[e] > 0
Wakeup     == left[heap[1]]
EndPass ==
    /\ phase = "pass" /\ heap # <<>> /\ Later(heap[1])
    /\ phase' = "select" /\ wake' = Wakeup
    /\ UNCHANGED <<heap, elems_nr, left, reset_qt>>

\* The SIGCHLD handler, which interrupts select(), respawns a program.
Respawn(e) ==
    /\ phase = "select" /\ e \in Progs /\ e \notin ToSet(heap)
    /\ \E f \in 0 .. MaxFraction : left' = [left EXCEPT ![e] = -f]
    /\ heap' = HeapPush(left', heap, e)
    /\ elems_nr' = Expand(Len(heap), elems_nr)
    /\ UNCHANGED <<phase, wake, reset_qt>>

\* d later select() returns, because of a signal or of the timeout.  With
\* reset_qt the time of qt_event is overwritten in the heap, and only then is
\* the event popped and pushed again.  That is one step here, although SIGCHLD
\* is not blocked in it: a handler that respawns a program between the three
\* calls or inside them is left out.  Such a respawn rises past qt_event by its
\* new time, and can come to stand above an event that is due before it; inside
\* heap_pop_elem it finds the array half written.  No scheduler of the
\* repository sets reset_qt, so that the block is never entered; one that did
\* would have to block SIGCHLD around it.
ResetAlways == TRUE
ResetNow == reset_qt
Select(d) ==
    /\ phase = "select"
    /\ left' = [e \in Events |-> IF e = Qt /\ ResetNow THEN Quantum
                                 ELSE IF e \in ToSet(heap) THEN left[e] - d ELSE 0]
    /\ heap' = IF ResetNow THEN HeapPush(left', HeapPopElem(left', heap, Qt), Qt)
                           ELSE heap
    /\ elems_nr' = IF ResetNow THEN Expand(Len(heap) - 1, elems_nr) ELSE elems_nr
    /\ IF d < wake THEN phase' = "select" /\ wake' = wake - d
                   ELSE phase' = "pass" /\ wake' = 0
    /\ UNCHANGED reset_qt

Next ==
    \/ HandleQuantum \/ EndPass
    \/ \E e \in Progs : HandleProg(e) \/ Respawn(e)
    \/ \E d \in 0 .. MaxSleep : Select(d)

Spec == Init /\ [][Next]_vars

\* The process is scheduled, and time passes.
Fairness ==
    /\ WF_vars(HandleQuantum \/ EndPass \/ \E e \in Progs : HandleProg(e))
    /\ WF_vars(\E d \in 1 .. MaxSleep : Select(d))

FairSpec == Spec /\ Fairness

-----------------------------------------------------------------------------
(* Properties.                                                             *)

TypeOK ==
    /\ heap \in Seq(Events) /\ elems_nr \in Nat /\ left \in [Events -> Int]
    /\ phase \in {"pass", "select"} /\ wake \in 0 .. Quantum /\ reset_qt \in BOOLEAN

\* No child is due before its parent, also while the events age together and
\* after qt_event, whose time was overwritten in place, has been moved; an
\* event is in the heap at most once, and the quantum event always.  The array
\* has room for the heap: it grows only while the file is loaded, and what is
\* respawned later was popped before.
HeapSound ==
    /\ TypeOK
    /\ \A p \in 2 .. Len(heap) : Leq(left, heap[p \div 2], heap[p])
    /\ IsInjective(heap) /\ Qt \in ToSet(heap)
    /\ Len(heap) <= elems_nr

\* The loop handles its events as EventQueue demands: each once, none before
\* its time, the earliest first.
Queue == INSTANCE EventQueue WITH pending <- ToSet(heap)
ImplementsQueue == Queue!Spec

\* A program that waits in the heap is started, and the quantum expires again
\* and again.  It does not once reset_qt is set: nothing clears the flag, and
\* every return of select() starts the quantum anew.  No scheduler of the
\* repository sets it.
EventsHappen ==
    /\ \A e \in Progs : e \in ToSet(heap) ~> e \notin ToSet(heap)
    /\ <>reset_qt \/ []<><<HandleQuantum>>_vars

\* The inductive invariant of EventHeap_proofs: that the quantum is never due
\* later than after a whole one keeps wake in its range, and the heap in order
\* where reset_qt puts the quantum off.
IInv == HeapSound /\ left[Qt] <= Quantum
=============================================================================
