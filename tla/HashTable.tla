----------------------------- MODULE HashTable ------------------------------
(***************************************************************************)
(* The hash table of src/hash.c, which finds the program of a pid: chains  *)
(* of entries linked by pointers, one for each residue of the key.  The    *)
(* memory of an entry is an address of Nodes; malloc takes any that is     *)
(* free, and free() leaves what was written there.                         *)
(***************************************************************************)
EXTENDS Integers, FiniteSets

CONSTANTS Keys,      \* the keys in use, pids
          Vals,      \* what is stored, pointers to programs
          Size,      \* number of buckets
          Nodes,     \* addresses
          Null,      \* the null pointer
          NotFound   \* HASH_ENTRY_NOTFOUND, which is no value

ASSUME HashAssumption ==
    /\ Keys \subseteq Nat /\ Size \in Nat \ {0}
    /\ IsFiniteSet(Nodes) /\ Null \notin Nodes
    /\ NotFound \notin Vals

VARIABLES table,     \* hash->table: the first entry of each bucket
          key, val, next,   \* the fields of the entry at an address
          used,      \* the addresses malloc has given out
          ret        \* the value returned by the last operation

entries == <<key, val, next>>
vars == <<table, entries, used, ret>>

Bucket(k) == k % Size
Pointers == Nodes \cup {Null}

\* The loop that all operations begin with: from the entry curr on, to the
\* one of key k, with the entry before it.
Places == [prev : Pointers, curr : Pointers]
Walk(k) ==
    LET from[at \in Places] ==
          IF at.curr = Null \/ key[at.curr] = k THEN at
          ELSE from[[prev |-> at.curr, curr |-> next[at.curr]]]
    IN from[[prev |-> table[Bucket(k)], curr |-> table[Bucket(k)]]]

Find(k) == Walk(k).curr

Init ==
    /\ table = [b \in 0..(Size - 1) |-> Null]
    /\ key = [n \in Nodes |-> 0] /\ val = [n \in Nodes |-> NotFound]
    /\ next = [n \in Nodes |-> Null]
    /\ used = {} /\ ret = NotFound

\* Mutant: the new entry forgets the chain.
FrontAlone(k, v, n) ==
    /\ key' = [key EXCEPT ![n] = k] /\ val' = [val EXCEPT ![n] = v]
    /\ next' = [next EXCEPT ![n] = Null]
    /\ table' = [table EXCEPT ![Bucket(k)] = n]
    /\ used' = used \cup {n}

\* "put new entry, at the beggining of the bucket"
Front(k, v, n) ==
    /\ key' = [key EXCEPT ![n] = k] /\ val' = [val EXCEPT ![n] = v]
    /\ next' = [next EXCEPT ![n] = table[Bucket(k)]]
    /\ table' = [table EXCEPT ![Bucket(k)] = n]
    /\ used' = used \cup {n}

Insert(k, v) ==
    /\ \/ /\ Find(k) # Null
          /\ val' = [val EXCEPT ![Find(k)] = v]
          /\ UNCHANGED <<table, key, next, used>>
       \/ /\ Find(k) = Null
          /\ \E n \in Nodes \ used : Front(k, v, n)
    /\ UNCHANGED ret

Lookup(k) ==
    /\ ret' = IF Find(k) = Null THEN NotFound ELSE val[Find(k)]
    /\ UNCHANGED <<table, entries, used>>

\* Mutant: an inner entry is removed like the first one.
UnlinkFirst(b, prev, curr) ==
    table' = [table EXCEPT ![b] = next[curr]] /\ UNCHANGED next

Unlink(b, prev, curr) ==
    IF curr = table[b]
    THEN table' = [table EXCEPT ![b] = next[curr]] /\ UNCHANGED next
    ELSE next' = [next EXCEPT ![prev] = next[curr]] /\ UNCHANGED table

Delete(k) ==
    \/ Find(k) = Null /\ ret' = NotFound /\ UNCHANGED <<table, entries, used>>
    \/ /\ Find(k) # Null
       /\ ret' = val[Find(k)]
       /\ Unlink(Bucket(k), Walk(k).prev, Find(k))
       /\ used' = used \ {Find(k)}
       /\ UNCHANGED <<key, val>>

Swap(j, k) ==
    /\ IF Null \in {Find(j), Find(k)}
       THEN ret' = -1 /\ UNCHANGED val
       ELSE /\ val' = [val EXCEPT ![Find(j)] = val[Find(k)], ![Find(k)] = val[Find(j)]]
            /\ ret' = 0
    /\ UNCHANGED <<table, key, next, used>>

Next ==
    \E k \in Keys : \/ \E v \in Vals : Insert(k, v)
                    \/ Lookup(k) \/ Delete(k)
                    \/ \E j \in Keys : Swap(j, k)

Spec == Init /\ [][Next]_vars

(***************************************************************************)
(* Properties.                                                             *)
(***************************************************************************)

\* The entries that can be reached from bucket b, and how: a chain longer
\* than there are addresses runs in a circle.
Chain(b) ==
    LET step[i \in 0..Cardinality(Nodes)] ==
          IF i = 0 THEN table[b]
          ELSE IF step[i - 1] = Null THEN Null ELSE next[step[i - 1]]
    IN step

Linked(b) == {n \in Nodes : \E i \in DOMAIN Chain(b) : Chain(b)[i] = n}

\* Inserting and unlinking keep the chains: each ends, in order, holds only
\* allocated entries of its own bucket, no key twice, and no allocated entry
\* is out of reach (a program that could never be found again).
ChainsSound ==
    /\ \A b \in DOMAIN table :
         /\ Chain(b)[Cardinality(Nodes)] = Null
         /\ \A m, n \in Linked(b) : Bucket(key[n]) = b /\ (key[m] = key[n] => m = n)
    /\ used = UNION {Linked(b) : b \in DOMAIN table}

\* The pointers implement the map of PidMap: what is found, replaced,
\* deleted and swapped under a key, whatever shares its bucket.
Stored == {k \in Keys : Find(k) # Null}
Map == INSTANCE PidMap WITH map <- [k \in Stored |-> val[Find(k)]]
ImplementsMap == Map!Spec

(***************************************************************************)
(* The inductive invariant of HashTable_proofs: what ChainsSound says of   *)
(* whole chains, said of an entry and its neighbours.                      *)
(***************************************************************************)

FieldsInv ==
    /\ table \in [0..(Size - 1) -> used \cup {Null}] /\ used \subseteq Nodes
    /\ key \in [Nodes -> Nat] /\ next \in [Nodes -> Pointers]
    /\ val \in [Nodes -> Vals \cup {NotFound}]
    /\ \A n \in used : key[n] \in Keys /\ val[n] \in Vals /\ next[n] \in used \cup {Null}

\* An entry is linked with those of its bucket only, no two have the same key,
\* and each is pointed to once: by its bucket or by another entry.
LinkInv ==
    /\ \A b \in 0..(Size - 1) : table[b] # Null => Bucket(key[table[b]]) = b
    /\ \A n \in used : next[n] # Null => Bucket(key[next[n]]) = Bucket(key[n])
    /\ \A m, n \in used : key[m] = key[n] => m = n
    /\ \A m, n \in used : next[m] = next[n] /\ next[m] # Null => m = n
    /\ \A m \in used, b \in 0..(Size - 1) : next[m] = table[b] => next[m] = Null
    /\ \A n \in used : n = table[Bucket(key[n])] \/ \E m \in used : next[m] = n

\* No pointers run in a circle, not even those left in freed memory.
NoCircle == \A S \in SUBSET Nodes : S # {} => \E n \in S : next[n] \notin S

IInv == FieldsInv /\ LinkInv /\ NoCircle
=============================================================================
