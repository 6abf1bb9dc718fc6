----------------------------- MODULE QuickSort ------------------------------
(***************************************************************************)
(* qsrt_quicksort of src/scheds/c_qsort.c, ascending, as the policies call  *)
(* it.  A list is the sequence of its nodes without the head, which the     *)
(* pointers i and j reach at the positions Len(list) + 1 and 0; reading the *)
(* value of the head is reading what is not a program.                      *)
(***************************************************************************)
EXTENDS Integers, Sequences, SequencesExt, FiniteSetsExt

\* Mutant: i does not stop at a value equal to the pivot.
ScanUpPast(list, val, pivot, i) ==
    Min({k \in (i + 1)..(Len(list) + 1) : k > Len(list) \/ val[list[k]] > pivot})

\* The two scans: the next position from i on, and the one before j, that
\* stops the loop, which may be the head's.
ScanUp(list, val, pivot, i) ==
    Min({k \in (i + 1)..(Len(list) + 1) : k > Len(list) \/ val[list[k]] >= pivot})
ScanDown(list, val, pivot, j) ==
    Max({k \in 0..(j - 1) : k = 0 \/ val[list[k]] <= pivot})

SwapNodes(list, i, j) == [list EXCEPT ![i] = list[j], ![j] = list[i]]

\* One turn of while(1): scan from both ends, then swap or stop where the
\* pointers have met.
Turn(part, val, pivot) ==
    LET i == ScanUp(part.list, val, pivot, part.i)
        j == ScanDown(part.list, val, pivot, part.j)
    IN IF part.met THEN part
       ELSE IF i >= j THEN [part EXCEPT !.met = TRUE, !.j = j, !.head = i > Len(part.list) \/ j = 0]
       ELSE [part EXCEPT !.list = SwapNodes(@, i, j), !.i = i, !.j = j]

Partition(list, val) ==
    FoldLeft(LAMBDA part, p : Turn(part, val, val[list[1]]),
             [list |-> list, i |-> 0, j |-> Len(list) + 1, met |-> FALSE, head |-> FALSE],
             Append(list, list[1]))

\* The parts are sorted in place and linked again.  head tells whether the
\* value of a list head was read on the way.
Sort(list, val) ==
    LET sort[l \in SeqOf(ToSet(list), Len(list))] ==
          IF Len(l) <= 1 THEN [list |-> l, head |-> FALSE]
          ELSE LET part == Partition(l, val)
                   low == sort[SubSeq(part.list, 1, part.j)]
                   high == sort[SubSeq(part.list, part.j + 1, Len(l))]
               IN IF part.head THEN part
                  ELSE [list |-> low.list \o high.list, head |-> low.head \/ high.head]
    IN sort[list]
=============================================================================
