------------------------------- MODULE PidMap -------------------------------
(***************************************************************************)
(* What the comments of src/hash.h promise of the table: a map from keys   *)
(* to values, and the value that every operation returns.                  *)
(***************************************************************************)
EXTENDS Functions

CONSTANTS Keys, Vals, NotFound

VARIABLES map,  \* the value of each key that has one
          ret   \* what the last operation has returned

vars == <<map, ret>>

Get(k) == IF k \in DOMAIN map THEN map[k] ELSE NotFound

Init == map = <<>> /\ ret = NotFound

\* hash_insert: "If an entry for the key exists, just replace it".
Insert(k, v) ==
    /\ map' = [j \in DOMAIN map \cup {k} |-> IF j = k THEN v ELSE map[j]]
    /\ UNCHANGED ret

Lookup(k) == ret' = Get(k) /\ UNCHANGED map

\* hash_delete: "If entry exists return old value".
Delete(k) == map' = Restrict(map, DOMAIN map \ {k}) /\ ret' = Get(k)

\* hash_swap: "exchange the values of two keys".
Swap(j, k) ==
    IF {j, k} \subseteq DOMAIN map
    THEN map' = [map EXCEPT ![j] = map[k], ![k] = map[j]] /\ ret' = 0
    ELSE ret' = -1 /\ UNCHANGED map

Next == \E k \in Keys : \/ \E v \in Vals : Insert(k, v)
                        \/ Lookup(k) \/ Delete(k)
                        \/ \E j \in Keys : Swap(j, k)

Spec == Init /\ [][Next]_vars
=============================================================================
