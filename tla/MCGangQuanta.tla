---------------------------- MODULE MCGangQuanta ----------------------------
(* Instances of GangQuanta for TLC: four programs of one thread, and more   *)
(* programs than cores.                                                     *)
EXTENDS GangQuanta

CONSTANTS a, b, c, d

One == [p \in Slots |-> 1]
Two == [p \in Slots |-> 2]

\* Three programs bound by bandwidth, of which the limits admit one at a time,
\* and one of another class.  Bandwidth alone would make perf run a, d and b for
\* ever and c never.
Heavy == [p \in Slots |-> CASE p = a -> 8 [] p = b -> 4 [] p = c -> 6 [] p = d -> 1]
LongPair == [p \in Slots |-> IF p = c THEN 2 ELSE 5]

Targets == [q \in Policies |-> IF q = "perf" THEN LongPair ELSE Two]
Rates == [q \in Policies |-> IF q = "perf" THEN One ELSE Two]

\* The programs of perf start and end when they like.
LatePerf == {"perf"}
ShortPerf == [q \in Policies |-> IF q = "perf" THEN Slots ELSE {}]
ShortA == [q \in Policies |-> {a}]

Unclassed == [p \in Slots |-> "NONE"]
With(k) == [p \in Slots |-> IF p = d THEN k ELSE "BW"]
JustFair == {[policy |-> "fair", class |-> Unclassed]}
FourPolicies == {[policy |-> q, class |-> Unclassed] : q \in {"perf", "fair", "perf_fair"}}
                \union {[policy |-> "fair_bw_cache", class |-> With(k)] : k \in {"CS", "CNS"}}
=============================================================================
