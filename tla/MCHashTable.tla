---------------------------- MODULE MCHashTable -----------------------------
(* Instances of HashTable for TLC: two buckets, three keys that collide in  *)
(* the first and one in the second, and three addresses: a chain can hold   *)
(* all the keys of the first bucket, and not every key is there at once.    *)
EXTENDS HashTable, TLC

CONSTANTS n1, n2, n3, v1, v2

\* Addresses are exchangeable.
Symmetry == Permutations(Nodes)
=============================================================================
