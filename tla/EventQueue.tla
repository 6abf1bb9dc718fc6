----------------------------- MODULE EventQueue -----------------------------
(* What the loop of the executor expects of its events: an event is handled *)
(* once, not before its time, and the earliest first.  left[e] is the time  *)
(* that is left until e is due; it is 0 for an event that is not pending.   *)
EXTENDS Integers

CONSTANTS Progs,   \* the EVNT_NEWPROG events, one for each program
          Qt,      \* the quantum event
          MaxSleep \* bound: the longest sleep in select()

Events == Progs \cup {Qt}

VARIABLES pending, left

Init ==
    /\ pending = Events
    /\ left \in [Events -> Nat]

Earliest(e) == e \in pending /\ left[e] <= 0 /\ \A f \in pending : left[e] <= left[f]

\* The quantum starts (again): it is due some time from now.
Restarted(key) == key[Qt] > 0

\* A program event is handled and gone; the quantum event is pushed back.
HandleProg(e) ==
    /\ e \in Progs /\ Earliest(e)
    /\ pending' = pending \ {e} /\ left' = [left EXCEPT ![e] = 0]

HandleQuantum ==
    /\ Earliest(Qt)
    /\ Restarted(left') /\ left' = [left EXCEPT ![Qt] = left'[Qt]]
    /\ UNCHANGED pending

\* A respawned program starts now (in whole seconds: a little earlier).
Push(e) ==
    /\ e \in Progs \ pending
    /\ left'[e] <= 0 /\ left' = [left EXCEPT ![e] = left'[e]]
    /\ pending' = pending \cup {e}

\* Time passes, and the quantum may be started again.
Sleep ==
    /\ \E d \in 0 .. MaxSleep :
         \A e \in Events \ {Qt} :
           left'[e] = IF e \in pending THEN left[e] - d ELSE 0
    /\ left'[Qt] <= left[Qt] \/ Restarted(left')
    /\ DOMAIN left' = Events
    /\ UNCHANGED pending

Next ==
    \/ HandleQuantum \/ Sleep
    \/ \E e \in Progs : HandleProg(e) \/ Push(e)

Spec == Init /\ [][Next]_<<pending, left>>
=============================================================================
