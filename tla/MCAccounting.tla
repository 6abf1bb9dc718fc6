---------------------------- MODULE MCAccounting ----------------------------
(* An instance of Accounting for TLC: a program of one core and one of two,   *)
(* on two cores; the program of two may reach a third cpu.                   *)
EXTENDS Accounting

CONSTANTS s1, s3

MCCoresNeeded == [s \in Slots |-> IF s = s3 THEN 2 ELSE 1]
=============================================================================
