--------------------------- MODULE Executor_proofs ---------------------------
(***************************************************************************)
(* Proofs about Executor for every set of slots, every mix of shells,      *)
(* every amount of work and both monitoring factors.                       *)
(***************************************************************************)
EXTENDS Executor, FiniteSetTheorems, TLAPS

\* Every subset of the finite set Slots is finite; its cardinality is 0 only
\* when it is empty.
LEMMA SlotSets ==
    ASSUME NEW S \in SUBSET Slots
    PROVE  IsFiniteSet(S) /\ Cardinality(S) \in Nat /\ (Cardinality(S) = 0 <=> S = {})
  BY SlotsAssumption, FS_Subset, FS_CardinalityType, FS_EmptySet

\* The initial states (every program forked, frozen and waiting) have the types.
LEMMA TypeInit == Init => TypeOK
  <1> SUFFICES ASSUME Init PROVE TypeOK
    OBVIOUS
  <1>1. Cardinality(Slots) \in Nat
    BY SlotSets
  <1>2. target \in [Slots -> Int]
    BY WorkAssumption DEF Init
  <1>3. st \in [Slots -> StValues] /\ proc \in [Slots -> ProcValues]
    BY DEF Init, StValues, ProcValues
  <1>4. /\ pc \in PcValues /\ hashed \subseteq Slots /\ killed \subseteq Slots
        /\ direct \subseteq Slots
    BY ShellsAssumption DEF Init, PcValues
  <1>5. /\ ticked \in BOOLEAN /\ sigchld \in BOOLEAN /\ stop_execution \in BOOLEAN
        /\ massacre \in BOOLEAN /\ sigterm \in BOOLEAN
    BY Zenon DEF Init
  <1>6. /\ waiting_nr \in Int /\ new_nr \in Int /\ running_nr \in Int
        /\ progs_left \in Int /\ progs_nr \in Int
        /\ monitor_wnd \in Nat /\ finalizations \in Nat
    BY <1>1 DEF Init
  <1> QED
    BY <1>2, <1>3, <1>4, <1>5, <1>6, Zenon DEF TypeOK

\* Charging a gang member, killed or not, keeps the types.
LEMMA TypeAccount ==
    ASSUME TypeOK, NEW s \in Slots, Account(s)
    PROVE  TypeOK'
  <1>1. CASE Monitoring(monitor_wnd, progs_nr) /\ st' = [st EXCEPT ![s] = "ALL"]
             /\ UNCHANGED <<target, hashed, killed, running_nr, progs_left,
                            progs_nr, finalizations>>
    BY <1>1 DEF Account, TypeOK, StValues
  <1>2. ASSUME NEW n \in Retired, target' = [target EXCEPT ![s] = @ - n], KillApp(s)
        PROVE  TypeOK'
    <2>1. n \in Int
      BY RetiredAssumption
    <2>2. target' \in [Slots -> Int]
      BY <2>1, <1>2 DEF TypeOK
    <2>3. finalizations' \in Nat
      BY <1>2 DEF TypeOK, KillApp, Finalizations
    <2> QED
      BY <1>2, <2>2, <2>3 DEF Account, KillApp, ClearProg, Finalizations, TypeOK, StValues
  <1>3. ASSUME NEW n \in Retired, target' = [target EXCEPT ![s] = @ - n],
               st' = [st EXCEPT ![s] = "ALL"],
               UNCHANGED <<hashed, killed, running_nr, progs_left, progs_nr, finalizations>>
        PROVE  TypeOK'
    <2>1. n \in Int
      BY RetiredAssumption
    <2>2. target' \in [Slots -> Int]
      BY <2>1, <1>3 DEF TypeOK
    <2> QED
      BY <1>3, <2>2 DEF Account, TypeOK, StValues
  <1> QED
    BY <1>1, <1>2, <1>3 DEF Account

\* Picking and thawing a gang keeps the types.
LEMMA TypeSchedule ==
    ASSUME TypeOK, NEW gang \in SUBSET Slots, Schedule(gang)
    PROVE  TypeOK'
  <1>1. monitor_wnd' \in Nat
    BY DEF Schedule, Gang, Monitored, MonitorWnd, TypeOK
  <1>2. st' \in [Slots -> StValues] /\ proc' \in [Slots -> ProcValues]
    BY DEF Schedule, TypeOK, StValues, ProcValues
  <1> QED
    BY <1>1, <1>2 DEF Schedule, TypeOK, countVars, endVars, PcValues

\* Admitting the programs of pnew_l keeps the types of what it writes.
LEMMA TypeAdmitNew ==
    ASSUME TypeOK, AdmitNew
    PROVE  /\ st' \in [Slots -> StValues] /\ hashed' \subseteq Slots
           /\ new_nr' \in Int /\ running_nr' \in Int /\ progs_nr' \in Int
  <1>1. Cardinality(In("NEW")) \in Nat /\ In("NEW") \subseteq Slots
    BY SlotSets DEF In
  <1> QED
    BY <1>1 DEF AdmitNew, TypeOK, StValues

\* Every outcome of rebalance for a finished program keeps the types.
LEMMA TypeFinish ==
    ASSUME TypeOK, NEW s \in Slots, Finish(s)
    PROVE  TypeOK'
  <1>1. ASSUME NEW n \in Retired, target' = [target EXCEPT ![s] = @ - n]
        PROVE  target' \in [Slots -> Int]
    BY <1>1, RetiredAssumption DEF TypeOK
  <1>2. ASSUME Respawn(s), target' \in [Slots -> Int] PROVE TypeOK'
    BY <1>2 DEF Respawn, Finish, TypeOK, StValues, ProcValues
  <1>3. ASSUME Retire(s), target' \in [Slots -> Int], progs_left' \in Int PROVE TypeOK'
    BY <1>3 DEF Retire, Finish, TypeOK, StValues
  <1>4. ASSUME Terminate(s), target' \in [Slots -> Int] PROVE TypeOK'
    <2>1. PICK done \in SUBSET In("SCH") :
            /\ killed' = killed \cup done
            /\ progs_left' = progs_left - 1 - Cardinality(done)
            /\ finalizations' = finalizations + 1 + Cardinality(done)
      BY <1>4 DEF Terminate
    <2>2. done \subseteq Slots /\ Cardinality(done) \in Nat
      BY SlotSets DEF In
    <2>3. Cardinality(Listed) \in Nat
      BY SlotSets DEF Listed, In
    <2>4. monitor_wnd' \in Nat
      BY <1>4 DEF Terminate, MonitorWnd, TypeOK
    <2>5. st' \in [Slots -> StValues] /\ proc' \in [Slots -> ProcValues]
      BY <1>4 DEF Terminate, FreezeGang, TypeOK, StValues, ProcValues
    <2> QED
      BY <1>4, <2>1, <2>2, <2>3, <2>4, <2>5 DEF Terminate, Finish, TypeOK
  <1>5. CASE FinishLive(s)
    <2>1. PICK n \in Retired :
            /\ target' = [target EXCEPT ![s] = @ - n]
            /\ \/ Respawn(s)
               \/ progs_left' = progs_left - 1 /\ Retire(s)
               \/ Terminate(s)
      BY <1>5 DEF FinishLive, LastProg
    <2>2. progs_left - 1 \in Int
      BY DEF TypeOK
    <2> QED
      BY <1>1, <1>2, <1>3, <1>4, <2>1, <2>2
  <1>6. CASE FinishKilled(s)
    BY <1>3, <1>6 DEF FinishKilled, TypeOK
  <1> QED
    BY <1>5, <1>6 DEF Finish

\* Every step of the executor, the kernel or a program keeps the types.
LEMMA TypeNext == TypeOK /\ [Next]_vars => TypeOK'
  <1> SUFFICES ASSUME TypeOK, [Next]_vars PROVE TypeOK'
    OBVIOUS
  <1> USE DEF countVars, endVars, procVars
  <1>1. CASE QExpired
    BY <1>1 DEF QExpired, FreezeGang, TypeOK, PcValues, ProcValues
  <1>2. CASE EndEvents
    BY <1>2, TypeAdmitNew DEF EndEvents, TypeOK, PcValues
  <1>3. CASE SelectTimeout
    BY <1>3 DEF SelectTimeout, TypeOK, PcValues
  <1>4. CASE Sigterm
    BY <1>4 DEF Sigterm, TypeOK
  <1>5. CASE SigchldEnter
    BY <1>5 DEF SigchldEnter, TypeOK, PcValues
  <1>6. CASE ReapNone
    BY <1>6 DEF ReapNone, LeaveLoop, TypeOK, PcValues
  <1>7. CASE EndRebalance
    BY <1>7, TypeAdmitNew DEF EndRebalance, TypeOK, PcValues
  <1>8. CASE UNCHANGED vars
    BY <1>8 DEF vars, TypeOK
  <1>9. ASSUME NEW gang \in SUBSET Slots, Schedule(gang) PROVE TypeOK'
    BY <1>9, TypeSchedule
  <1>10. ASSUME NEW s \in Slots, ProgWaitingNew(s) PROVE TypeOK'
    BY <1>10 DEF ProgWaitingNew, TypeOK, StValues
  <1>11. ASSUME NEW s \in Slots, Account(s) PROVE TypeOK'
    BY <1>11, TypeAccount
  <1>12. ASSUME NEW s \in Slots, Reap(s) PROVE TypeOK'
    BY <1>12 DEF Reap, TypeOK, PcValues, StValues, ProcValues
  <1>13. ASSUME NEW s \in Slots, ReapBogus(s) PROVE TypeOK'
    BY <1>13 DEF ReapBogus, LeaveLoop, TypeOK, PcValues, ProcValues
  <1>14. ASSUME NEW s \in Slots, Finish(s) PROVE TypeOK'
    BY <1>14, TypeFinish
  <1>15. ASSUME NEW s \in Slots, Frozen(s) \/ Exit(s) PROVE TypeOK'
    BY <1>15 DEF Frozen, Exit, TypeOK, ProcValues
  <1> QED
    BY <1>1, <1>2, <1>3, <1>4, <1>5, <1>6, <1>7, <1>8, <1>9, <1>10, <1>11,
       <1>12, <1>13, <1>14, <1>15 DEF Next, Terminated

\* Every variable keeps its type; in particular monitor_wnd and the number of
\* finalizations never become negative.
THEOREM TypeCorrect == Spec => []TypeOK
  BY TypeInit, TypeNext, PTL DEF Spec

-----------------------------------------------------------------------------
(* The inductive invariant for any mix of shells.                           *)

IInv == TypeOK /\ ListInv /\ CountInv

\* The sets that the counters are compared with.
LEMMA CountedSets ==
    /\ In("WAITING") \in SUBSET Slots /\ In("NEW") \in SUBSET Slots
    /\ In("ALL") \in SUBSET Slots /\ In("SCH") \in SUBSET Slots
    /\ Live \in SUBSET Slots /\ Held \in SUBSET Slots /\ Listed \in SUBSET Slots
  BY DEF In, Live, Held, Listed

\* CountInv survives a step that changes none of the sets and counters.
LEMMA CountStutter ==
    ASSUME CountInv,
           In("WAITING")' = In("WAITING"), In("NEW")' = In("NEW"),
           Live' = Live, Held' = Held,
           UNCHANGED <<waiting_nr, new_nr, progs_left, progs_nr,
                       finalizations, stop_execution>>
    PROVE  CountInv'
  BY DEF CountInv

\* In particular one that leaves the lists and the killed flags alone.
LEMMA CountSameLists ==
    ASSUME CountInv, UNCHANGED <<st, killed>>,
           UNCHANGED <<waiting_nr, new_nr, progs_left, progs_nr,
                       finalizations, stop_execution>>
    PROVE  CountInv'
  <1>1. /\ In("WAITING")' = In("WAITING") /\ In("NEW")' = In("NEW")
        /\ Live' = Live /\ Held' = Held
    BY DEF In, Live, Held, Listed
  <1> QED
    BY <1>1, CountStutter

\* All the slots wait, so every counter agrees with its set at the start.
LEMMA IndInit == Init => IInv
  <1> SUFFICES ASSUME Init PROVE IInv
    OBVIOUS
  <1>1. TypeOK
    BY TypeInit
  <1>2. ListInv
    BY DEF Init, ListInv, In
  <1>3. In("WAITING") = Slots /\ In("NEW") = {} /\ Live = Slots /\ Held = {}
    BY DEF Init, In, Live, Held, Listed
  <1>4. Cardinality({}) = 0
    BY FS_EmptySet
  <1>5. CountInv
    BY <1>3, <1>4, SlotsAssumption DEF Init, CountInv
  <1> QED
    BY <1>1, <1>2, <1>5 DEF IInv

\* WAITING -> NEW moves one slot between two counted sets.
LEMMA IndProgWaitingNew ==
    ASSUME IInv, NEW s \in Slots, ProgWaitingNew(s)
    PROVE  ListInv' /\ CountInv'
  <1> USE DEF IInv
  <1>1. ListInv'
    BY DEF ProgWaitingNew, ListInv, TypeOK, In
  <1>2. /\ In("WAITING")' = In("WAITING") \ {s} /\ s \in In("WAITING")
        /\ In("NEW")' = In("NEW") \cup {s} /\ s \notin In("NEW")
        /\ Live' = Live /\ Held' = Held
    BY DEF ProgWaitingNew, TypeOK, In, Live, Held, Listed
  <1>3. /\ Cardinality(In("WAITING")') = Cardinality(In("WAITING")) - 1
        /\ Cardinality(In("NEW")') = Cardinality(In("NEW")) + 1
    BY <1>2, CountedSets, SlotSets, FS_AddElement, FS_RemoveElement
  <1>4. CountInv'
    BY <1>2, <1>3 DEF CountInv, ProgWaitingNew, endVars
  <1> QED
    BY <1>1, <1>4

\* kill_app takes one slot out of the slots that owe work.
LEMMA IndKillApp ==
    ASSUME IInv, NEW s \in Slots, Account(s), KillApp(s)
    PROVE  ListInv' /\ CountInv'
  <1> USE DEF IInv
  <1>1. ListInv'
    BY DEF Account, KillApp, ClearProg, Finalizations, ListInv, TypeOK, In
  <1>2. /\ In("WAITING")' = In("WAITING") /\ In("NEW")' = In("NEW")
        /\ Live' = Live \ {s} /\ s \in Live
        /\ Held' = Held \ {s} /\ s \in Held
    BY DEF Account, KillApp, ListInv, TypeOK, In, Live, Held, Listed
  <1>3. /\ Cardinality(Live') = Cardinality(Live) - 1
        /\ Cardinality(Held') = Cardinality(Held) - 1
    BY <1>2, CountedSets, SlotSets, FS_RemoveElement
  <1>4. /\ Cardinality(Live') \in Nat /\ Cardinality(Held) \in Nat
        /\ (Cardinality(Live') = 0 <=> Live' = {})
    BY <1>2, CountedSets, SlotSets
  <1>5. progs_left' = Cardinality(Live')
    BY <1>3 DEF KillApp, CountInv
  <1>6. Live # {} /\ finalizations = 0 /\ ~stop_execution
    BY <1>2 DEF CountInv
  <1>7. finalizations' = IF Live' = {} THEN 1 ELSE 0
    BY <1>4, <1>5, <1>6 DEF KillApp, Finalizations
  <1>8. progs_nr' <= Cardinality(Held')
    BY <1>3, <1>4 DEF KillApp, CountInv, TypeOK
  <1>9. CountInv'
    BY <1>2, <1>5, <1>6, <1>7, <1>8 DEF CountInv, Account
  <1> QED
    BY <1>1, <1>9

\* Charging a gang member moves it to progs_all or kills it.
LEMMA IndAccount ==
    ASSUME IInv, NEW s \in Slots, Account(s)
    PROVE  ListInv' /\ CountInv'
  <1>1. CASE KillApp(s)
    BY <1>1, IndKillApp
  <1>2. CASE /\ st' = [st EXCEPT ![s] = "ALL"]
             /\ UNCHANGED <<hashed, killed, running_nr, progs_left, progs_nr, finalizations>>
    <2> USE DEF IInv
    <2>1. ListInv'
      BY <1>2 DEF Account, ListInv, TypeOK, In
    <2>2. /\ In("WAITING")' = In("WAITING") /\ In("NEW")' = In("NEW")
          /\ Live' = Live /\ Held' = Held
      BY <1>2 DEF Account, TypeOK, In, Live, Held, Listed
    <2>3. CountInv'
      BY <1>2, <2>2, CountStutter DEF Account
    <2> QED
      BY <2>1, <2>3
  <1> QED
    BY <1>1, <1>2 DEF Account

\* A gang moves between two lists that are counted together.
LEMMA IndSchedule ==
    ASSUME IInv, NEW gang \in SUBSET Slots, Schedule(gang)
    PROVE  ListInv' /\ CountInv'
  <1> USE DEF IInv
  <1>0. gang \subseteq In("ALL")
    BY DEF Schedule, Gang, Monitored
  <1>1. ListInv'
    BY <1>0 DEF Schedule, ListInv, TypeOK, In
  <1>2. /\ In("WAITING")' = In("WAITING") /\ In("NEW")' = In("NEW")
        /\ Live' = Live /\ Held' = Held
    BY <1>0 DEF Schedule, TypeOK, In, Live, Held, Listed
  <1>3. CountInv'
    BY <1>2, CountStutter DEF Schedule, countVars, endVars
  <1> QED
    BY <1>1, <1>3

\* The new programs of pnew_l are moved as a whole.
LEMMA AdmitNewSets ==
    ASSUME IInv, AdmitNew, UNCHANGED <<proc, killed>>,
           pc' \in {"events", "select", "exited"},
           In("FINISHED") = {},
           UNCHANGED <<waiting_nr, progs_left, endVars>>
    PROVE  ListInv' /\ CountInv'
  <1> USE DEF IInv
  <1>1. CASE stop_execution
    <2>1. Live = {} /\ In("NEW") = {}
      BY <1>1 DEF CountInv, Live, In
    <2>2. new_nr' = new_nr
      BY <1>1, <2>1, FS_EmptySet DEF AdmitNew, TypeOK
    <2>3. ListInv'
      BY <1>1 DEF AdmitNew, ListInv, TypeOK, In
    <2>4. CountInv'
      BY <1>1, <2>2, CountSameLists DEF AdmitNew, endVars
    <2> QED
      BY <2>3, <2>4
  <1>2. CASE ~stop_execution
    <2>1. ListInv'
      BY <1>2 DEF AdmitNew, ListInv, TypeOK, In
    <2>2. /\ In("WAITING")' = In("WAITING") /\ In("NEW")' = {}
          /\ Live' = Live
          /\ Held' = Held \cup In("NEW") /\ Held \cap In("NEW") = {}
      BY <1>2 DEF AdmitNew, TypeOK, In, Live, Held, Listed
    <2>3. Cardinality(Held') = Cardinality(Held) + Cardinality(In("NEW"))
      BY <2>2, CountedSets, SlotSets, FS_Union, FS_EmptySet
    <2>4. Cardinality(Held) \in Nat /\ Cardinality(In("NEW")) \in Nat
      BY CountedSets, SlotSets
    <2>5. new_nr' = 0 /\ Cardinality(In("NEW")') = 0
      BY <1>2, <2>2, <2>4, FS_EmptySet DEF AdmitNew, CountInv
    <2>6. progs_nr' <= Cardinality(Held')
      BY <1>2, <2>3, <2>4 DEF AdmitNew, CountInv, TypeOK
    <2>7. CountInv'
      BY <2>2, <2>5, <2>6 DEF CountInv, endVars
    <2> QED
      BY <2>1, <2>7
  <1> QED
    BY <1>1, <1>2

\* The end of the events admits the new programs or changes no list.
LEMMA IndEndEvents ==
    ASSUME IInv, EndEvents
    PROVE  ListInv' /\ CountInv'
  <1>1. In("FINISHED") = {}
    BY DEF IInv, ListInv, EndEvents
  <1>2. CASE AdmitNew
    BY <1>1, <1>2, AdmitNewSets DEF EndEvents
  <1>3. CASE UNCHANGED <<st, hashed, new_nr, running_nr, progs_nr>>
    <2>1. ListInv'
      BY <1>3 DEF IInv, EndEvents, ListInv, In
    <2>2. CountInv'
      BY <1>3, CountSameLists DEF IInv, EndEvents, endVars
    <2> QED
      BY <2>1, <2>2
  <1> QED
    BY <1>2, <1>3 DEF EndEvents

\* So does the end of rebalance.
LEMMA IndEndRebalance ==
    ASSUME IInv, EndRebalance
    PROVE  ListInv' /\ CountInv'
  BY AdmitNewSets DEF EndRebalance

\* A reaped program still owes work unless it was killed.
LEMMA IndReap ==
    ASSUME IInv, NEW s \in Slots, Reap(s)
    PROVE  ListInv' /\ CountInv'
  <1> USE DEF IInv
  <1>1. CASE s \in hashed
    <2>1. ListInv'
      BY <1>1 DEF Reap, ListInv, TypeOK, In
    <2>2. /\ In("WAITING")' = In("WAITING") /\ In("NEW")' = In("NEW")
          /\ Live' = Live /\ Held' = Held
      BY <1>1 DEF Reap, ListInv, TypeOK, In, Live, Held, Listed
    <2>3. CountInv'
      BY <2>2, CountStutter DEF Reap, endVars
    <2> QED
      BY <2>1, <2>3
  <1>2. CASE s \notin hashed
    <2>1. ListInv'
      BY <1>2 DEF Reap, ListInv, TypeOK, In
    <2>2. CountInv'
      BY <1>2, CountSameLists DEF Reap, endVars
    <2> QED
      BY <2>1, <2>2
  <1> QED
    BY <1>1, <1>2

\* Leaving the waitpid loop changes no list, and no finished program is
\* left behind when it does not call rebalance.
LEMMA IndLeaveLoop ==
    ASSUME IInv, ReapNone \/ \E s \in Slots : ReapBogus(s)
    PROVE  ListInv' /\ CountInv'
  <1> USE DEF IInv
  <1>1. ListInv'
    BY DEF ReapNone, ReapBogus, LeaveLoop, ListInv, TypeOK, In, procVars
  <1>2. CountInv'
    BY CountSameLists DEF ReapNone, ReapBogus, procVars, countVars, endVars
  <1> QED
    BY <1>1, <1>2

\* The slot of a program in pfinished_l that was not killed owes work, so the
\* scheduler is not finalized yet.
LEMMA FinishedLive ==
    ASSUME IInv, NEW s \in Slots, st[s] = "FINISHED", s \notin killed
    PROVE  /\ s \in Live /\ s \in Held /\ s \notin Listed
           /\ finalizations = 0 /\ ~stop_execution
           /\ progs_left = Cardinality(Live) /\ progs_left >= 1
           /\ Cardinality(Live \ {s}) = progs_left - 1
  <1>1. s \in Live /\ s \in Held /\ s \notin Listed
    BY DEF Live, Held, Listed, In
  <1>2. Cardinality(Live) \in Nat /\ Cardinality(Live) # 0
    BY <1>1, CountedSets, SlotSets
  <1>3. Cardinality(Live \ {s}) = Cardinality(Live) - 1
    BY <1>1, CountedSets, SlotSets, FS_RemoveElement
  <1> QED
    BY <1>1, <1>2, <1>3 DEF IInv, CountInv

\* When respawn finds progs_left <= 0 after its decrement, no other slot owes
\* work: the lists that freeze_sched and kill_all walk through are empty.
LEMMA LastFinished ==
    ASSUME IInv, NEW s \in Slots, st[s] = "FINISHED", s \notin killed,
           progs_left - 1 <= 0
    PROVE  /\ progs_left = 1 /\ Live = {s} /\ In("SCH") = {} /\ Listed = {}
           /\ In("WAITING") = {} /\ In("NEW") = {}
  <1>1. progs_left = 1 /\ Cardinality(Live \ {s}) = 0 /\ s \in Live
    BY FinishedLive DEF IInv, TypeOK
  <1>2. Live \ {s} = {}
    BY <1>1, CountedSets, SlotSets
  <1>3. Live = {s}
    BY <1>1, <1>2
  <1> QED
    BY <1>1, <1>3 DEF Live, Listed, In

\* A respawned program still owes work: it moves from FINISHED to WAITING.
LEMMA IndRespawn ==
    ASSUME IInv, NEW s \in Slots, Finish(s), s \notin killed, Respawn(s)
    PROVE  ListInv' /\ CountInv'
  <1> USE DEF IInv
  <1>0. st[s] = "FINISHED" /\ pc = "rebalance"
    BY DEF Finish
  <1>1. ListInv'
    BY <1>0 DEF Finish, Respawn, ListInv, TypeOK, In
  <1>2. /\ In("WAITING")' = In("WAITING") \cup {s} /\ s \notin In("WAITING")
        /\ In("NEW")' = In("NEW")
        /\ Live' = Live /\ Held' = Held \ {s} /\ s \in Held
    BY <1>0 DEF Respawn, TypeOK, In, Live, Held, Listed
  <1>3. /\ Cardinality(In("WAITING")') = Cardinality(In("WAITING")) + 1
        /\ Cardinality(Held') = Cardinality(Held) - 1
    BY <1>2, CountedSets, SlotSets, FS_AddElement, FS_RemoveElement
  <1>4. Cardinality(Held) \in Nat
    BY CountedSets, SlotSets
  <1>5. progs_nr' <= Cardinality(Held')
    BY <1>3, <1>4 DEF Respawn, CountInv, TypeOK
  <1>6. CountInv'
    BY <1>2, <1>3, <1>5 DEF CountInv, Finish, Respawn
  <1> QED
    BY <1>1, <1>6

\* A program that is not respawned, and is not the last, stops owing work
\* together with the decrement of progs_left.
LEMMA IndRetireLive ==
    ASSUME IInv, NEW s \in Slots, Finish(s), s \notin killed, Retire(s),
           progs_left' = progs_left - 1, progs_left - 1 > 0
    PROVE  ListInv' /\ CountInv'
  <1> USE DEF IInv
  <1>0. st[s] = "FINISHED" /\ pc = "rebalance"
    BY DEF Finish
  <1>1. ListInv'
    BY <1>0 DEF Finish, Retire, ListInv, TypeOK, In
  <1>2. /\ In("WAITING")' = In("WAITING") /\ In("NEW")' = In("NEW")
        /\ Live' = Live \ {s} /\ Held' = Held \ {s} /\ s \in Held
    BY <1>0 DEF Retire, TypeOK, In, Live, Held, Listed
  <1>3. /\ finalizations = 0 /\ ~stop_execution
        /\ Cardinality(Live') = progs_left'
    BY <1>0, <1>2, FinishedLive
  <1>4. Live' # {}
    <2>1. progs_left \in Int /\ progs_left' > 0
      BY DEF TypeOK
    <2> QED
      BY <1>3, <2>1, FS_EmptySet
  <1>5. Cardinality(Held') = Cardinality(Held) - 1 /\ Cardinality(Held) \in Nat
    BY <1>2, CountedSets, SlotSets, FS_RemoveElement
  <1>6. progs_nr' <= Cardinality(Held')
    BY <1>5 DEF Retire, CountInv, TypeOK
  <1>7. CountInv'
    BY <1>2, <1>3, <1>4, <1>6 DEF CountInv, Finish, Retire
  <1> QED
    BY <1>1, <1>7

\* When the last program finishes nobody else owes work: kill_all finds
\* no listed program and sched_finalization is called for the first time.
LEMMA IndTerminate ==
    ASSUME IInv, NEW s \in Slots, Finish(s), s \notin killed,
           progs_left - 1 <= 0, Terminate(s)
    PROVE  ListInv' /\ CountInv'
  <1> USE DEF IInv
  <1>0. st[s] = "FINISHED" /\ pc = "rebalance"
    BY DEF Finish
  <1>1. /\ progs_left = 1 /\ Live = {s} /\ In("SCH") = {} /\ Listed = {}
        /\ In("WAITING") = {} /\ In("NEW") = {}
    BY <1>0, LastFinished
  <1>2. finalizations = 0
    BY <1>0, FinishedLive
  <1>3. Cardinality({}) = 0
    BY FS_EmptySet
  <1>4. /\ killed' = killed /\ progs_left' = 0 /\ finalizations' = 1
        /\ progs_nr' = progs_nr - 1 /\ stop_execution' = TRUE
        /\ waiting_nr' = waiting_nr /\ new_nr' = new_nr /\ pc' = pc
        /\ hashed' = hashed
    <2>1. PICK done \in SUBSET {} :
            /\ hashed' = hashed \ (Listed \cap direct)
            /\ killed' = killed \cup done
            /\ progs_nr' = progs_nr - 1 - Cardinality(Listed)
            /\ progs_left' = progs_left - 1 - Cardinality(done)
            /\ finalizations' = finalizations + 1 + Cardinality(done)
            /\ stop_execution' = TRUE /\ waiting_nr' = waiting_nr
      BY <1>1 DEF Terminate
    <2>2. done = {}
      BY <2>1
    <2>3. new_nr' = new_nr /\ pc' = pc
      BY DEF Finish
    <2> QED
      BY <1>1, <1>2, <1>3, <2>1, <2>2, <2>3 DEF TypeOK
  <1>5. st' = [st EXCEPT ![s] = "GONE"] /\ proc' = proc
    BY <1>1 DEF Terminate, FreezeGang, TypeOK, In, Listed
  <1>6. ListInv'
    BY <1>0, <1>4, <1>5 DEF ListInv, TypeOK, In
  <1>7. /\ In("WAITING")' = In("WAITING") /\ In("NEW")' = In("NEW")
        /\ Live' = {} /\ Held' = Held \ {s} /\ s \in Held
    BY <1>0, <1>1, <1>4, <1>5 DEF TypeOK, In, Live, Held, Listed
  <1>8. Cardinality(Held') = Cardinality(Held) - 1 /\ Cardinality(Held) \in Nat
    BY <1>7, CountedSets, SlotSets, FS_RemoveElement
  <1>9. progs_nr' <= Cardinality(Held')
    BY <1>4, <1>8 DEF CountInv, TypeOK
  <1>10. CountInv'
    BY <1>3, <1>4, <1>7, <1>9 DEF CountInv
  <1> QED
    BY <1>6, <1>10

\* A killed program that is reaped is counted off progs_nr a second time, but
\* not off progs_left.
LEMMA IndFinishKilled ==
    ASSUME IInv, NEW s \in Slots, Finish(s), FinishKilled(s)
    PROVE  ListInv' /\ CountInv'
  <1> USE DEF IInv
  <1>0. st[s] = "FINISHED" /\ pc = "rebalance" /\ Retire(s)
    BY DEF Finish, FinishKilled
  <1>1. s \in killed
    BY <1>0, FinishedLive DEF FinishKilled
  <1>2. ListInv'
    BY <1>0 DEF Finish, Retire, ListInv, TypeOK, In
  <1>3. /\ In("WAITING")' = In("WAITING") /\ In("NEW")' = In("NEW")
        /\ Live' = Live /\ Held' = Held
    BY <1>0, <1>1 DEF Retire, TypeOK, In, Live, Held, Listed
  <1>4. Cardinality(Held) \in Nat
    BY CountedSets, SlotSets
  <1>5. progs_nr' <= Cardinality(Held')
    BY <1>0, <1>3, <1>4 DEF Retire, CountInv, TypeOK
  <1>6. CountInv'
    BY <1>0, <1>3, <1>5 DEF CountInv, Finish, FinishKilled, Retire
  <1> QED
    BY <1>2, <1>6

\* rebalance keeps the invariant whatever it decides for a finished program.
LEMMA IndFinish ==
    ASSUME IInv, NEW s \in Slots, Finish(s)
    PROVE  ListInv' /\ CountInv'
  <1>1. CASE FinishLive(s)
    <2>1. progs_left - 1 > 0 <=> ~LastProg
      BY DEF LastProg, IInv, TypeOK
    <2>2. s \notin killed
      BY <1>1 DEF FinishLive
    <2>3. CASE Respawn(s)
      BY <2>2, <2>3, IndRespawn
    <2>4. CASE ~LastProg /\ progs_left' = progs_left - 1 /\ Retire(s)
      BY <2>1, <2>2, <2>4, IndRetireLive
    <2>5. CASE LastProg /\ Terminate(s)
      BY <2>2, <2>5, IndTerminate DEF LastProg
    <2> QED
      BY <1>1, <2>3, <2>4, <2>5 DEF FinishLive
  <1>2. CASE FinishKilled(s)
    BY <1>2, IndFinishKilled
  <1> QED
    BY <1>1, <1>2 DEF Finish

\* Every step keeps the inductive invariant.
LEMMA IndNext == IInv /\ [Next]_vars => IInv'
  <1> SUFFICES ASSUME IInv, [Next]_vars PROVE ListInv' /\ CountInv'
    BY TypeNext DEF IInv
  <1> USE DEF IInv, countVars, endVars, procVars
  <1>1. CASE QExpired
    <2>1. ListInv'
      BY <1>1 DEF QExpired, FreezeGang, ListInv, TypeOK, In
    <2> QED
      BY <1>1, <2>1, CountSameLists DEF QExpired
  <1>2. CASE EndEvents
    BY <1>2, IndEndEvents
  <1>3. CASE SelectTimeout
    <2>1. ListInv'
      BY <1>3 DEF SelectTimeout, ListInv, TypeOK, In
    <2> QED
      BY <1>3, <2>1, CountSameLists DEF SelectTimeout
  <1>4. CASE Sigterm
    <2>1. ListInv'
      BY <1>4 DEF Sigterm, ListInv, In
    <2> QED
      BY <1>4, <2>1, CountSameLists DEF Sigterm
  <1>5. CASE SigchldEnter
    <2>1. ListInv'
      BY <1>5 DEF SigchldEnter, ListInv, In
    <2> QED
      BY <1>5, <2>1, CountSameLists DEF SigchldEnter
  <1>6. CASE ReapNone
    BY <1>6, IndLeaveLoop
  <1>7. CASE EndRebalance
    BY <1>7, IndEndRebalance
  <1>8. CASE UNCHANGED vars
    <2>1. ListInv'
      BY <1>8 DEF vars, ListInv, In
    <2> QED
      BY <1>8, <2>1, CountSameLists DEF vars
  <1>9. ASSUME NEW gang \in SUBSET Slots, Schedule(gang) PROVE ListInv' /\ CountInv'
    BY <1>9, IndSchedule
  <1>10. ASSUME NEW s \in Slots, ProgWaitingNew(s) PROVE ListInv' /\ CountInv'
    BY <1>10, IndProgWaitingNew
  <1>11. ASSUME NEW s \in Slots, Account(s) PROVE ListInv' /\ CountInv'
    BY <1>11, IndAccount
  <1>12. ASSUME NEW s \in Slots, Reap(s) PROVE ListInv' /\ CountInv'
    BY <1>12, IndReap
  <1>13. ASSUME NEW s \in Slots, ReapBogus(s) PROVE ListInv' /\ CountInv'
    BY <1>13, IndLeaveLoop
  <1>14. ASSUME NEW s \in Slots, Finish(s) PROVE ListInv' /\ CountInv'
    BY <1>14, IndFinish
  <1>15. ASSUME NEW s \in Slots, Frozen(s) \/ Exit(s) PROVE ListInv' /\ CountInv'
    <2>1. ListInv'
      BY <1>15 DEF Frozen, Exit, ListInv, TypeOK, In
    <2> QED
      BY <1>15, <2>1, CountSameLists DEF Frozen, Exit
  <1> QED
    BY <1>1, <1>2, <1>3, <1>4, <1>5, <1>6, <1>7, <1>8, <1>9, <1>10, <1>11,
       <1>12, <1>13, <1>14, <1>15 DEF Next, Terminated

\* The inductive invariant holds in every reachable state.
LEMMA Inductive == Spec => []IInv
  BY IndInit, IndNext, PTL DEF Spec

-----------------------------------------------------------------------------
(* The invariants that the runs check, for every mix of shells.             *)

\* progs_left counts exactly the slots that still owe work, across kills,
\* exits, reaps and respawns in any order.
THEOREM ProgsLeftCorrect == Spec => []ProgsLeftExact
  <1>1. IInv => ProgsLeftExact
    BY DEF IInv, CountInv, ProgsLeftExact
  <1> QED
    BY <1>1, Inductive, PTL

\* The counters are freed and the result files closed once, at the end.
THEOREM FinalizedOnce == Spec => []AtMostOneFinalization
  <1>1. IInv => AtMostOneFinalization
    BY DEF IInv, CountInv, AtMostOneFinalization
  <1> QED
    BY <1>1, Inductive, PTL

\* Once stop_execution is raised no program is left to kill or to refuse.
THEOREM StopIsLast == Spec => []StopMeansNothingLeft
  <1>1. IInv => StopMeansNothingLeft
    BY DEF IInv, CountInv, StopMeansNothingLeft
  <1> QED
    BY <1>1, Inductive, PTL

\* Only members of the gang execute.
THEOREM GangIsolation == Spec => []OnlyGangRuns
  <1>1. IInv => OnlyGangRuns
    BY DEF IInv, ListInv, OnlyGangRuns
  <1> QED
    BY <1>1, Inductive, PTL

\* monitor() never takes the first entry of an empty list, because
\* freeze_sched has moved monitor_wnd past a progs_nr of 0 by then.
THEOREM MonitorNotEmpty == Spec => []MonitorHasProgram
  <1>1. ASSUME IInv, pc = "freeze", In("SCH") = {}, In("ALL") = {}
        PROVE  ~Monitoring(MonitorWnd(progs_nr), progs_nr)
    <2>1. Held = {}
      BY <1>1 DEF IInv, ListInv, Held, Listed
    <2>2. progs_nr <= 0 /\ progs_nr \in Int /\ monitor_wnd \in Nat
      BY <1>1, <2>1, FS_EmptySet DEF IInv, CountInv, TypeOK
    <2>3. CASE progs_nr = 0
      BY <2>2, <2>3, MonitorAssumption DEF Monitoring, MonitorWnd
    <2>4. CASE progs_nr < 0
      BY <2>2, <2>4, MonitorAssumption DEF Monitoring, MonitorWnd
    <2> QED
      BY <2>2, <2>3, <2>4
  <1>2. IInv => MonitorHasProgram
    BY <1>1 DEF MonitorHasProgram
  <1> QED
    BY <1>2, Inductive, PTL

\* A slot that reached its target gets no further instance.
THEOREM KilledStays == Spec => KilledForGood
  <1>1. ASSUME IInv, [Next]_vars, NEW s \in killed
        PROVE  s \in killed'
    BY <1>1 DEF Next, vars, procVars, QExpired, EndEvents, SelectTimeout, Sigterm,
         SigchldEnter, ReapNone, EndRebalance, Terminated, Schedule,
         ProgWaitingNew, Account, KillApp, Reap, ReapBogus, Finish,
         FinishLive, FinishKilled, Respawn, Retire, Terminate, Frozen, Exit
  <1>2. ASSUME IInv, [Next]_vars, NEW s \in killed
        PROVE  st'[s] \in {"KILLED", "FINISHED", "GONE"}
    <2>1. IInv' /\ s \in killed'
      BY <1>1, <1>2, IndNext
    <2> QED
      BY <2>1 DEF IInv, ListInv, TypeOK
  <1>3. IInv /\ [Next]_vars =>
          [\A s \in killed : s \in killed' /\ st'[s] \in {"KILLED", "FINISHED", "GONE"}]_vars
    BY <1>1, <1>2
  <1> QED
    BY <1>3, Inductive, PTL DEF Spec, KilledForGood

-----------------------------------------------------------------------------
(* The executor whose shells all exec the program they run.                 *)

\* DirectInv survives a step that changes no list, flag or process.
LEMMA DirectStutter ==
    ASSUME DirectInv, UNCHANGED <<st, killed, hashed, running_nr, progs_nr>>,
           DeathsKnown', ExitComplete'
    PROVE  DirectInv'
  <1>1. Listed' = Listed /\ Held' = Held /\ In("FINISHED")' = In("FINISHED")
    BY DEF In, Held, Listed
  <1> QED
    BY <1>1 DEF DirectInv

\* Nothing is listed at the start, and nothing is counted as running.
LEMMA DirectInit == direct = Slots /\ Init => DirectInv
  <1> SUFFICES ASSUME direct = Slots, Init PROVE DirectInv
    OBVIOUS
  <1>1. Listed = {} /\ Held = {} /\ In("FINISHED") = {}
    BY DEF Init, In, Listed, Held
  <1>2. DeathsKnown /\ ExitComplete
    BY DEF Init, DeathsKnown, ExitComplete, Listed, In
  <1> QED
    BY <1>1, <1>2, FS_EmptySet DEF Init, DirectInv

\* kill_app takes a program from the lists, the hash table and the counters.
LEMMA DirectAccount ==
    ASSUME IInv, DirectInv, direct = Slots, NEW s \in Slots, Account(s)
    PROVE  DirectInv'
  <1> USE DEF IInv
  <1>0. st[s] = "SCH" /\ pc = "freeze" /\ pc' = pc /\ proc' = proc /\ sigchld' = sigchld
    BY DEF Account
  <1>1. CASE KillApp(s)
    <2>1. /\ Listed' = Listed \ {s} /\ s \in Listed
          /\ Held' = Held \ {s} /\ s \in Held
          /\ In("FINISHED")' = In("FINISHED")
      BY <1>0, <1>1 DEF KillApp, TypeOK, ListInv, In, Held, Listed
    <2>2. /\ Cardinality(Listed') = Cardinality(Listed) - 1
          /\ Cardinality(Held') = Cardinality(Held) - 1
      BY <2>1, CountedSets, SlotSets, FS_RemoveElement
    <2>3. hashed' = Listed' /\ running_nr' = Cardinality(Listed')
          /\ progs_nr' = Cardinality(Held')
      BY <1>1, <2>1, <2>2 DEF KillApp, ClearProg, DirectInv
    <2>4. In("FINISHED")' \cap killed' = {}
      BY <1>0, <1>1, <2>1 DEF KillApp, DirectInv, In
    <2>5. DeathsKnown'
      BY <1>0, <2>1 DEF DeathsKnown, DirectInv
    <2>6. ExitComplete'
      BY <1>0 DEF ExitComplete
    <2> QED
      BY <2>3, <2>4, <2>5, <2>6 DEF DirectInv
  <1>2. CASE /\ st' = [st EXCEPT ![s] = "ALL"]
             /\ UNCHANGED <<hashed, killed, running_nr, progs_left, progs_nr, finalizations>>
    <2>1. Listed' = Listed /\ Held' = Held /\ In("FINISHED")' = In("FINISHED")
      BY <1>0, <1>2 DEF TypeOK, In, Held, Listed
    <2>2. DeathsKnown' /\ ExitComplete'
      BY <1>0, <2>1 DEF DeathsKnown, ExitComplete, DirectInv
    <2> QED
      BY <1>2, <2>1, <2>2 DEF DirectInv
  <1> QED
    BY <1>1, <1>2 DEF Account

\* A gang stays within the listed programs.
LEMMA DirectSchedule ==
    ASSUME IInv, DirectInv, NEW gang \in SUBSET Slots, Schedule(gang)
    PROVE  DirectInv'
  <1> USE DEF IInv
  <1>1. Listed' = Listed /\ Held' = Held /\ In("FINISHED")' = In("FINISHED")
    BY DEF Schedule, Gang, Monitored, TypeOK, In, Held, Listed
  <1>2. DeathsKnown' /\ ExitComplete'
    BY <1>1 DEF Schedule, DeathsKnown, ExitComplete, DirectInv, TypeOK, In, Listed
  <1> QED
    BY <1>1, <1>2 DEF DirectInv, Schedule, countVars

\* Nothing counted, nothing listed: the executor may exit.
LEMMA NothingLeftLive ==
    ASSUME IInv, DirectInv, In("FINISHED") = {}, NothingLeft
    PROVE  Live = {}
  <1>1. Listed = {} /\ In("WAITING") = {} /\ In("NEW") = {}
    BY CountedSets, SlotSets DEF NothingLeft, DirectInv, IInv, CountInv
  <1> QED
    BY <1>1 DEF Live, Listed, In

\* A program that becomes new is not listed yet.
LEMMA DirectProgWaitingNew ==
    ASSUME IInv, DirectInv, NEW s \in Slots, ProgWaitingNew(s)
    PROVE  DirectInv'
  <1> USE DEF IInv
  <1>1. Listed' = Listed /\ Held' = Held /\ In("FINISHED")' = In("FINISHED")
    BY DEF ProgWaitingNew, TypeOK, In, Held, Listed
  <1>2. DeathsKnown' /\ ExitComplete'
    BY <1>1 DEF ProgWaitingNew, DeathsKnown, ExitComplete, DirectInv
  <1> QED
    BY <1>1, <1>2 DEF DirectInv, ProgWaitingNew

\* The new programs enter the lists, the hash table and the counters at once.
LEMMA DirectAdmitNew ==
    ASSUME IInv, DirectInv, AdmitNew, UNCHANGED <<proc, sigchld, killed>>,
           In("FINISHED") = {}, pc # "sigchld", pc # "aborted"
    PROVE  /\ hashed' = Listed' /\ In("FINISHED")' \cap killed' = {}
           /\ running_nr' = Cardinality(Listed') /\ progs_nr' = Cardinality(Held')
           /\ DeathsKnown'
  <1> USE DEF IInv
  <1>1. CASE stop_execution
    <2>1. Listed' = Listed /\ Held' = Held /\ In("FINISHED")' = In("FINISHED")
      BY <1>1 DEF AdmitNew, In, Held, Listed
    <2>2. DeathsKnown'
      BY <1>1, <2>1 DEF DeathsKnown, DirectInv, AdmitNew
    <2> QED
      BY <1>1, <2>1, <2>2 DEF DirectInv, AdmitNew
  <1>2. CASE ~stop_execution
    <2>1. /\ Listed' = Listed \cup In("NEW") /\ Listed \cap In("NEW") = {}
          /\ Held' = Held \cup In("NEW") /\ Held \cap In("NEW") = {}
          /\ In("FINISHED")' = {}
      BY <1>2 DEF AdmitNew, TypeOK, In, Held, Listed
    <2>2. /\ Cardinality(Listed') = Cardinality(Listed) + Cardinality(In("NEW"))
          /\ Cardinality(Held') = Cardinality(Held) + Cardinality(In("NEW"))
      <3>1. /\ IsFiniteSet(Listed) /\ Cardinality(Listed) \in Nat
            /\ IsFiniteSet(Held) /\ Cardinality(Held) \in Nat
            /\ IsFiniteSet(In("NEW")) /\ Cardinality(In("NEW")) \in Nat
        BY CountedSets, SlotSets
      <3>2. Cardinality(Listed \cap In("NEW")) = 0 /\ Cardinality(Held \cap In("NEW")) = 0
        BY <2>1, FS_EmptySet
      <3>3. Cardinality(Listed \cup In("NEW")) =
              Cardinality(Listed) + Cardinality(In("NEW")) - Cardinality(Listed \cap In("NEW"))
        BY <3>1, FS_Union
      <3>4. Cardinality(Held \cup In("NEW")) =
              Cardinality(Held) + Cardinality(In("NEW")) - Cardinality(Held \cap In("NEW"))
        BY <3>1, FS_Union
      <3> QED
        BY <2>1, <3>1, <3>2, <3>3, <3>4
    <2>3. DeathsKnown'
      BY <2>1 DEF DeathsKnown, DirectInv, ListInv, In
    <2> QED
      BY <1>2, <2>1, <2>2, <2>3 DEF DirectInv, AdmitNew
  <1> QED
    BY <1>1, <1>2

\* The end of the events admits the new programs or changes no list.
LEMMA DirectEndEvents ==
    ASSUME IInv, DirectInv, EndEvents
    PROVE  DirectInv'
  <1>1. ExitComplete' /\ pc = "events" /\ pc' = "select"
    BY DEF EndEvents, ExitComplete
  <1>2. CASE AdmitNew
    BY <1>1, <1>2, DirectAdmitNew DEF EndEvents, DirectInv, IInv, ListInv
  <1>3. CASE UNCHANGED <<st, hashed, new_nr, running_nr, progs_nr>>
    <2>1. DeathsKnown'
      BY <1>1, <1>3 DEF DeathsKnown, DirectInv, EndEvents, Listed, In
    <2> QED
      BY <1>1, <1>3, <2>1, DirectStutter DEF EndEvents
  <1> QED
    BY <1>2, <1>3 DEF EndEvents

\* The end of rebalance admits them, and exits only if nobody owes work.
LEMMA DirectEndRebalance ==
    ASSUME IInv, IInv', DirectInv, EndRebalance
    PROVE  DirectInv'
  <1>1. /\ hashed' = Listed' /\ In("FINISHED")' \cap killed' = {}
        /\ running_nr' = Cardinality(Listed') /\ progs_nr' = Cardinality(Held')
        /\ DeathsKnown'
    BY DirectAdmitNew DEF EndRebalance
  <1>2. ASSUME pc' = "exited" PROVE Live' = {}
    <2>1. running_nr' = 0 /\ waiting_nr' = 0 /\ new_nr' = 0
      BY <1>2 DEF EndRebalance, NothingLeft
    <2>2. /\ Cardinality(Listed') = 0 /\ Cardinality(In("WAITING")') = 0
          /\ Cardinality(In("NEW")') = 0
      BY <1>1, <2>1 DEF IInv, CountInv
    <2>3. /\ Listed' \in SUBSET Slots /\ In("WAITING")' \in SUBSET Slots
          /\ In("NEW")' \in SUBSET Slots
      BY DEF Listed, In
    <2>4. Listed' = {} /\ In("WAITING")' = {} /\ In("NEW")' = {}
      BY <2>2, <2>3, SlotSets
    <2>5. In("FINISHED")' = {}
      BY <1>2 DEF IInv, ListInv
    <2> QED
      BY <2>4, <2>5 DEF Live, Listed, In
  <1> QED
    BY <1>1, <1>2 DEF DirectInv, ExitComplete

\* Reaping takes a program from the lists, the hash table and running_nr.
LEMMA DirectReap ==
    ASSUME IInv, DirectInv, NEW s \in Slots, Reap(s)
    PROVE  DirectInv'
  <1> USE DEF IInv
  <1>0. pc = "sigchld" /\ sigchld' = sigchld /\ killed' = killed
    BY DEF Reap
  <1>1. CASE s \in hashed
    <2>1. s \in Listed
      BY <1>1 DEF DirectInv
    <2>2. s \notin killed /\ st[s] # "FINISHED"
      BY <2>1 DEF Listed, In, ListInv
    <2>3. /\ Listed' = Listed \ {s} /\ Held' = Held
          /\ In("FINISHED")' = In("FINISHED") \cup {s}
      BY <1>1, <2>1, <2>2 DEF Reap, TypeOK, In, Held, Listed
    <2>4. Cardinality(Listed') = Cardinality(Listed) - 1
      BY <2>1, <2>3, CountedSets, SlotSets, FS_RemoveElement
    <2>5. In("FINISHED")' \cap killed' = {}
      BY <1>0, <2>2, <2>3 DEF DirectInv
    <2>6. DeathsKnown' /\ ExitComplete'
      BY <1>0, <1>1 DEF Reap, DeathsKnown, ExitComplete
    <2> QED
      BY <1>1, <2>3, <2>4, <2>5, <2>6 DEF DirectInv, Reap
  <1>2. CASE s \notin hashed
    <2>1. DeathsKnown' /\ ExitComplete'
      BY <1>2 DEF Reap, DeathsKnown, ExitComplete
    <2> QED
      BY <1>2, <2>1, DirectStutter DEF Reap
  <1> QED
    BY <1>1, <1>2

\* The loop is left early only when no listed program is left to be reaped.
LEMMA DirectLeaveLoop ==
    ASSUME IInv, DirectInv, ReapNone \/ \E s \in Slots : ReapBogus(s)
    PROVE  DirectInv'
  <1>0. /\ UNCHANGED <<st, killed, hashed, running_nr, progs_nr, waiting_nr, new_nr>>
        /\ LeaveLoop
    BY DEF ReapNone, ReapBogus, procVars, countVars
  <1>1. DeathsKnown'
    <2>1. CASE ReapNone
      BY <2>1 DEF ReapNone, DeathsKnown, procVars, Listed, In
    <2>2. CASE \E s \in Slots : ReapBogus(s)
      <3>1. Listed = {}
        BY <2>2, CountedSets, SlotSets DEF ReapBogus, DirectInv
      <3> QED
        BY <1>0, <3>1 DEF DeathsKnown, Listed, In
    <2> QED
      BY <2>1, <2>2
  <1>2. ExitComplete'
    <2>1. Live' = Live
      BY <1>0 DEF Live
    <2> QED
      BY <1>0, <2>1, NothingLeftLive DEF LeaveLoop, ExitComplete
  <1> QED
    BY <1>0, <1>1, <1>2, DirectStutter

\* rebalance keeps the counters of the listed programs exact.
LEMMA DirectFinish ==
    ASSUME IInv, DirectInv, NEW s \in Slots, Finish(s)
    PROVE  DirectInv'
  <1> USE DEF IInv
  <1>0. st[s] = "FINISHED" /\ pc = "rebalance" /\ pc' = pc /\ sigchld' = sigchld
    BY DEF Finish
  <1>1. s \notin killed /\ s \notin Listed /\ s \in Held
    BY <1>0 DEF DirectInv, In, Listed, Held
  <1>2. ExitComplete'
    BY <1>0 DEF ExitComplete
  <1>3. Cardinality(Held \ {s}) = Cardinality(Held) - 1
    BY <1>1, CountedSets, SlotSets, FS_RemoveElement
  <1>4. ASSUME NEW new \in {"WAITING", "GONE"}, st' = [st EXCEPT ![s] = new],
               proc' \in {proc, [proc EXCEPT ![s] = "frozen"]},
               UNCHANGED <<killed, hashed, running_nr>>, progs_nr' = progs_nr - 1
        PROVE  DirectInv'
    <2>1. /\ Listed' = Listed /\ Held' = Held \ {s}
          /\ In("FINISHED")' = In("FINISHED") \ {s}
      BY <1>0, <1>1, <1>4 DEF TypeOK, In, Held, Listed
    <2>2. DeathsKnown'
      BY <1>0, <1>1, <1>4, <2>1 DEF DeathsKnown, DirectInv, TypeOK, Listed, In
    <2> QED
      BY <1>2, <1>3, <1>4, <2>1, <2>2 DEF DirectInv
  <1>5. CASE FinishLive(s)
    <2>1. CASE Respawn(s)
      BY <1>4, <2>1 DEF Respawn
    <2>2. CASE Retire(s)
      BY <1>4, <2>2 DEF Retire
    <2>3. CASE progs_left - 1 <= 0 /\ Terminate(s)
      <3>1. In("SCH") = {} /\ Listed = {} /\ Cardinality({}) = 0
        BY <1>0, <1>1, <2>3, LastFinished, FS_EmptySet
      <3>2. /\ UNCHANGED <<killed, hashed>>
            /\ running_nr' = running_nr /\ progs_nr' = progs_nr - 1
        BY <2>3, <3>1 DEF Terminate, TypeOK
      <3>3. st' = [st EXCEPT ![s] = "GONE"] /\ proc' = proc
        BY <2>3, <3>1 DEF Terminate, FreezeGang, TypeOK, In
      <3> QED
        BY <1>4, <3>2, <3>3
    <2> QED
      BY <1>5, <2>1, <2>2, <2>3 DEF FinishLive, LastProg
  <1>6. CASE FinishKilled(s)
    <2>1. Retire(s) /\ UNCHANGED killed
      BY <1>0, <1>1, <1>6, FinishedLive DEF FinishKilled
    <2> QED
      BY <1>4, <2>1 DEF Retire
  <1> QED
    BY <1>5, <1>6 DEF Finish

\* Every step keeps the additional invariant of direct shells.
LEMMA DirectNext ==
    ASSUME direct = Slots, IInv, DirectInv, [Next]_vars
    PROVE  DirectInv'
  <1> USE DEF countVars, endVars, procVars
  <1>0. IInv'
    BY IndNext
  <1>1. CASE QExpired
    <2>1. DeathsKnown' /\ ExitComplete'
      BY <1>1 DEF QExpired, FreezeGang, DeathsKnown, ExitComplete, DirectInv, IInv, TypeOK, Listed, In
    <2> QED
      BY <1>1, <2>1, DirectStutter DEF QExpired
  <1>2. CASE EndEvents
    BY <1>2, DirectEndEvents
  <1>3. CASE SelectTimeout
    <2>1. DeathsKnown'
      BY <1>3 DEF SelectTimeout, DeathsKnown, DirectInv, Listed, In
    <2>2. Live' = Live
      BY <1>3 DEF SelectTimeout, Live
    <2>3. ExitComplete'
      BY <1>3, <2>2, NothingLeftLive DEF SelectTimeout, ExitComplete, IInv, ListInv
    <2> QED
      BY <1>3, <2>1, <2>3, DirectStutter DEF SelectTimeout
  <1>4. CASE Sigterm \/ SigchldEnter \/ UNCHANGED vars
    <2>1. DeathsKnown'
      BY <1>4 DEF Sigterm, SigchldEnter, vars, DeathsKnown, DirectInv, Listed, In
    <2>2. ExitComplete'
      BY <1>4 DEF Sigterm, SigchldEnter, vars, ExitComplete, DirectInv, Live
    <2> QED
      BY <1>4, <2>1, <2>2, DirectStutter DEF Sigterm, SigchldEnter, vars
  <1>5. CASE ReapNone
    BY <1>5, DirectLeaveLoop
  <1>6. CASE EndRebalance
    BY <1>0, <1>6, DirectEndRebalance
  <1>7. ASSUME NEW gang \in SUBSET Slots, Schedule(gang) PROVE DirectInv'
    BY <1>7, DirectSchedule
  <1>8. ASSUME NEW s \in Slots, ProgWaitingNew(s) PROVE DirectInv'
    BY <1>8, DirectProgWaitingNew
  <1>9. ASSUME NEW s \in Slots, Account(s) PROVE DirectInv'
    BY <1>9, DirectAccount
  <1>10. ASSUME NEW s \in Slots, Reap(s) PROVE DirectInv'
    BY <1>10, DirectReap
  <1>11. ASSUME NEW s \in Slots, ReapBogus(s) PROVE DirectInv'
    BY <1>11, DirectLeaveLoop
  <1>12. ASSUME NEW s \in Slots, Finish(s) PROVE DirectInv'
    BY <1>12, DirectFinish
  <1>13. ASSUME NEW s \in Slots, Frozen(s) \/ Exit(s) PROVE DirectInv'
    <2>1. DeathsKnown' /\ ExitComplete'
      BY <1>13 DEF Frozen, Exit, Over, DeathsKnown, ExitComplete, DirectInv,
                   IInv, TypeOK, Listed, In
    <2> QED
      BY <1>13, <2>1, DirectStutter DEF Frozen, Exit
  <1> QED
    BY <1>1, <1>2, <1>3, <1>4, <1>5, <1>6, <1>7, <1>8, <1>9, <1>10, <1>11,
       <1>12, <1>13 DEF Next, Terminated

\* How the shells behave does not change.
LEMMA ShellsStay == [Next]_vars => direct' = direct
  BY DEF Next, vars, QExpired, EndEvents, SelectTimeout, Sigterm, SigchldEnter, ReapNone,
         EndRebalance, Terminated, Schedule, ProgWaitingNew, Account, Reap, ReapBogus,
         Finish, Frozen, Exit

\* Both invariants hold in every reachable state when every shell execs
\* its program.
LEMMA DirectInductive == Spec => [](IInv /\ (AllDirect => DirectInv))
  <1>1. Init => IInv /\ (AllDirect => DirectInv)
    BY IndInit, DirectInit DEF AllDirect
  <1>2. (IInv /\ (AllDirect => DirectInv)) /\ [Next]_vars
          => (IInv /\ (AllDirect => DirectInv))'
    BY IndNext, DirectNext, ShellsStay DEF AllDirect
  <1> QED
    BY <1>1, <1>2, PTL DEF Spec

\* With shells that exec their program, running_nr and progs_nr count the
\* listed programs at every step.
THEOREM RunningCorrect == Spec => []RunningExact
  <1>1. (AllDirect => DirectInv) => RunningExact
    <2>1. In("FINISHED") \cap killed = {} => Held = Listed \cup In("FINISHED")
      BY DEF Held
    <2> QED
      BY <2>1 DEF DirectInv, RunningExact
  <1> QED
    BY <1>1, DirectInductive, PTL

\* Then the handler never leaves its loop with a dead child unreaped and no
\* SIGCHLD pending: it leaves early only when running_nr is 0.
THEOREM NoChildForgotten == Spec => []NoLostChild
  <1>1. (AllDirect => DirectInv) => NoLostChild
    BY DEF DirectInv, NoLostChild
  <1> QED
    BY <1>1, DirectInductive, PTL

\* Then the executor exits only when every slot has finished, what the run
\* early refutes for a shell that forks its program.
THEOREM ExitsWhenOver == Spec => [](AllDirect => ExitComplete)
  <1>1. (AllDirect => DirectInv) => (AllDirect => ExitComplete)
    BY DEF DirectInv
  <1> QED
    BY <1>1, DirectInductive, PTL

-----------------------------------------------------------------------------
(* Refinement of Lifecycle.                                                 *)

\* One step of the executor completes at most one slot, and never while it
\* exits.
LEMMA LiveStep ==
    ASSUME IInv, [Next]_vars
    PROVE  \/ Live' = Live
           \/ pc' = pc /\ ~Over /\ \E s \in Live : Live' = Live \ {s}
  <1> USE DEF IInv, countVars, endVars, procVars
  <1>1. CASE \/ QExpired \/ SelectTimeout \/ Sigterm \/ SigchldEnter \/ ReapNone
             \/ UNCHANGED vars \/ \E s \in Slots : ReapBogus(s) \/ Frozen(s) \/ Exit(s)
    <2>1. UNCHANGED <<st, killed>>
      BY <1>1 DEF QExpired, FreezeGang, SelectTimeout, Sigterm, SigchldEnter, ReapNone, vars,
                  ReapBogus, Frozen, Exit
    <2> QED
      BY <2>1 DEF Live
  <1>2. CASE EndEvents \/ EndRebalance
    BY <1>2 DEF EndEvents, EndRebalance, AdmitNew, TypeOK, Live
  <1>3. ASSUME NEW gang \in SUBSET Slots, Schedule(gang) PROVE Live' = Live
    BY <1>3 DEF Schedule, Gang, Monitored, TypeOK, In, Live
  <1>4. ASSUME NEW s \in Slots, ProgWaitingNew(s) PROVE Live' = Live
    BY <1>4 DEF ProgWaitingNew, TypeOK, Live
  <1>5. ASSUME NEW s \in Slots, Account(s)
        PROVE  \/ Live' = Live
               \/ pc' = pc /\ ~Over /\ s \in Live /\ Live' = Live \ {s}
    <2>1. CASE KillApp(s)
      BY <1>5, <2>1 DEF Account, KillApp, Over, TypeOK, Live
    <2>2. CASE st' = [st EXCEPT ![s] = "ALL"] /\ UNCHANGED killed
      BY <1>5, <2>2 DEF Account, TypeOK, Live
    <2> QED
      BY <1>5, <2>1, <2>2 DEF Account
  <1>6. ASSUME NEW s \in Slots, Reap(s) PROVE Live' = Live
    BY <1>6 DEF Reap, ListInv, TypeOK, Live
  <1>7. ASSUME NEW s \in Slots, Finish(s)
        PROVE  \/ Live' = Live
               \/ pc' = pc /\ ~Over /\ s \in Live /\ Live' = Live \ {s}
    <2>0. st[s] = "FINISHED" /\ pc = "rebalance" /\ pc' = pc
      BY <1>7 DEF Finish
    <2>1. CASE Respawn(s) /\ s \notin killed
      BY <2>0, <2>1 DEF Respawn, TypeOK, Live
    <2>2. CASE Retire(s) /\ UNCHANGED killed
      BY <2>0, <2>2 DEF Retire, Over, TypeOK, Live
    <2>3. CASE Terminate(s) /\ progs_left - 1 <= 0 /\ s \notin killed
      <3>1. Live = {s} /\ Listed = {} /\ In("SCH") = {}
        BY <2>0, <2>3, LastFinished
      <3>2. st' = [st EXCEPT ![s] = "GONE"] /\ killed' = killed
        BY <2>3, <3>1 DEF Terminate, TypeOK
      <3> QED
        BY <2>0, <3>1, <3>2 DEF Over, TypeOK, Live
    <2> QED
      BY <1>7, <2>0, <2>1, <2>2, <2>3 DEF Finish, FinishLive, LastProg, FinishKilled, Retire
  <1> QED
    BY <1>1, <1>2, <1>3, <1>4, <1>5, <1>6, <1>7 DEF Next, Terminated

\* Every behaviour of the executor is one of Lifecycle: slots complete one by
\* one, and with shells that exec their program it exits only after the last.
THEOREM LifecycleRefined == Spec => ImplementsLifecycle
  <1> DEFINE Left == pc = "exited" /\ AllDirect
  <1>1. Init => Abstract!Init
    BY DEF Init, Abstract!Init, Live
  <1>2. ASSUME IInv, AllDirect => DirectInv, (AllDirect => DirectInv)', [Next]_vars
        PROVE  [Abstract!Next]_<<Live, Left>>
    <2>0. AllDirect' = AllDirect
      BY <1>2, ShellsStay DEF AllDirect
    <2>1. CASE Live' = Live
      <3>1. CASE Left' = Left
        BY <2>1, <3>1
      <3>2. CASE ~Left /\ Left'
        <4>1. Live = {}
          BY <1>2, <2>1, <3>2 DEF DirectInv, ExitComplete
        <4>2. Abstract!Exit
          BY <2>1, <3>2, <4>1 DEF Abstract!Exit
        <4> QED
          BY <4>2 DEF Abstract!Next
      <3>3. CASE Left /\ ~Left'
        <4>1. pc = "exited" /\ pc' # "exited"
          BY <2>0, <3>3
        <4> QED
          BY <1>2, <4>1 DEF Next, vars, QExpired, EndEvents, SelectTimeout, Sigterm,
             SigchldEnter, ReapNone, EndRebalance, Terminated, Schedule, Over,
             ProgWaitingNew, Account, Reap, ReapBogus, Finish, Frozen, Exit
      <3> QED
        BY <3>1, <3>2, <3>3
    <2>2. CASE pc' = pc /\ ~Over /\ \E s \in Live : Live' = Live \ {s}
      <3>1. PICK s \in Live : Live' = Live \ {s}
        BY <2>2
      <3>2. s \in Slots
        BY DEF Live
      <3>3. Abstract!Complete(s)
        BY <2>0, <2>2, <3>1 DEF Over, Abstract!Complete
      <3> QED
        BY <3>2, <3>3 DEF Abstract!Next
    <2> QED
      BY <1>2, <2>1, <2>2, LiveStep
  <1>3. (IInv /\ (AllDirect => DirectInv)) /\ (IInv /\ (AllDirect => DirectInv))'
          /\ [Next]_vars => [Abstract!Next]_<<Live, Left>>
    BY <1>2
  <1> QED
    BY <1>1, <1>3, DirectInductive, PTL DEF Spec, ImplementsLifecycle, Abstract!Spec
=============================================================================
