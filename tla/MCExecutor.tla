----------------------------- MODULE MCExecutor -----------------------------
(* Instances of Executor for TLC.  The work of a slot is 2 or 3 units       *)
(* and a slice retires 1 or 2 of them: a program may be killed at its       *)
(* target, may exit with so little left that it is not respawned, and may   *)
(* exit early and be respawned once.                                        *)
EXTENDS Executor

CONSTANTS s1, s2

\* What the shells may do: exec their programs, fork them, or any mix.
AllExec == {Slots}
AllFork == {{}}
AnyMix  == SUBSET Slots

TwoEach   == [s \in Slots |-> 2]
ThreeEach == [s \in Slots |-> 3]
=============================================================================
