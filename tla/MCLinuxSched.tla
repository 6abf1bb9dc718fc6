---------------------------- MODULE MCLinuxSched ----------------------------
(* Instances of LinuxSched for TLC, in halves of an instance.               *)
EXTENDS LinuxSched

CONSTANTS s1, s2, s3

\* A whole number of times (2), and two fractions: 1.5, and 0.5, whose program
\* may be killed before any instance has completed.
Mixed == [s \in Slots |-> CASE s = s1 -> 3 [] s = s2 -> 4 [] OTHER -> 1]
=============================================================================
