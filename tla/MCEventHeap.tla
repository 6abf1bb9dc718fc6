---------------------------- MODULE MCEventHeap -----------------------------
(* Instances of EventHeap for TLC.  Five events make a heap of three        *)
(* levels, in which an inner position has two children.                     *)
EXTENDS EventHeap

CONSTANTS p1, p2, p3, p4, q

Four == <<p1, p2, p3, p4>>
=============================================================================
