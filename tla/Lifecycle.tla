----------------------------- MODULE Lifecycle ------------------------------
(* What the executor promises to the user who gave it a configuration file: *)
(* each slot is brought to the end of its work once, one after the other,   *)
(* and the executor exits only then.                                        *)
CONSTANT Slots

VARIABLES owing,   \* slots whose work has not been completed
          exited   \* the executor has exited

Init == owing = Slots /\ exited = FALSE

Complete(s) == ~exited /\ s \in owing /\ owing' = owing \ {s} /\ UNCHANGED exited

Exit == ~exited /\ owing = {} /\ exited' = TRUE /\ UNCHANGED owing

Next == Exit \/ \E s \in Slots : Complete(s)

Spec == Init /\ [][Next]_<<owing, exited>>
=============================================================================
