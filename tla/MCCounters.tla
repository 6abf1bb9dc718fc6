----------------------------- MODULE MCCounters -----------------------------
(* An instance of Counters for TLC: a program of one core and one of two.   *)
EXTENDS Counters

CONSTANTS p1, p2

MCCoresNeeded == [p \in Progs |-> IF p = p2 THEN 2 ELSE 1]
=============================================================================
