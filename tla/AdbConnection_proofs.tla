------------------------- MODULE AdbConnection_proofs -------------------------
(***************************************************************************)
(* Proofs about AdbConnection, for every set of tasks and any delays.      *)
(***************************************************************************)
EXTENDS AdbConnection, TLAPS

(* As long as nothing slipped, a task that goes on is the one whose handle *)
(* the client has.                                                         *)
Held == slips = {} => \A t \in Tasks : Over(t) \/ handle = t

IInv == TypeOK /\ Held /\ WatchFollowsState /\ TableIsTransports

------------------------------------------------------------------------------

(* The delay doubles up to its maximum.                                    *)
LEMMA DelayBound ==
  ASSUME NEW d \in InitialDelay..MaxDelay
  PROVE  NextDelay(d) \in InitialDelay..MaxDelay
BY DelayAssumption, SMT DEF NextDelay

(* The initial state.                                                      *)
LEMMA InitInv == Init => IInv
<1> SUFFICES ASSUME Init PROVE IInv
  OBVIOUS
<1>1. InitialDelay \in InitialDelay..MaxDelay
  BY DelayAssumption
<1>2. TypeOK
  BY <1>1 DEF Init, TypeOK, States
<1> QED
  BY <1>2 DEF Init, IInv, Held, WatchFollowsState, TableIsTransports, Over

(* Each step keeps the types.                                              *)
LEMMA TypeStep == TypeOK /\ [Next]_vars => TypeOK'
<1> SUFFICES ASSUME TypeOK, [Next]_vars PROVE TypeOK'
  OBVIOUS
<1> USE DEF TypeOK, States
<1>1. CASE ConnectBegin  BY <1>1 DEF ConnectBegin, SetState, taskVars
<1>2. CASE DisconnectBegin
  <2>1. /\ task' \in [Tasks -> {"over", "sleep", "announce", "select", "shake"}]
        /\ delay' \in [Tasks -> InitialDelay..MaxDelay]
        /\ aborted' \in [Tasks -> BOOLEAN]
        /\ slips' \subseteq {"doubled", "caught", "cut"}
    <3>1. CASE ~HoldsTask  BY <1>2, <3>1 DEF DisconnectBegin, Abort, taskVars
    <3>2. CASE HoldsTask /\ Ends(handle) /\ UNCHANGED slips
      <4>1. handle \in Tasks
        BY <3>2 DEF HoldsTask
      <4> QED
        BY <3>2, <4>1, DelayAssumption DEF Ends
    <3>3. CASE /\ HoldsTask /\ aborted' = [aborted EXCEPT ![handle] = TRUE]
               /\ slips' = slips \cup {"caught"} /\ UNCHANGED <<task, delay>>
      BY <3>3
    <3> QED
      BY <1>2, <3>1, <3>2, <3>3 DEF DisconnectBegin, Abort
  <2> QED
    BY <1>2, <2>1 DEF DisconnectBegin, NewTable, SetState
<1>3. CASE ConnectSelects  BY <1>3 DEF ConnectSelects, ConnectFails, SetState, taskVars
<1>4. CASE ConnectShakes  BY <1>4 DEF ConnectShakes, ConnectFails, NewTable, SetState, taskVars
<1>5. CASE DisconnectEnd  BY <1>5 DEF DisconnectEnd, NewTable, SetState, taskVars
<1>6. CASE Cancel  BY <1>6 DEF Cancel, taskVars
<1>7. CASE Operate  BY <1>7 DEF Operate, taskVars
<1>8. CASE GuestChanges  BY <1>8 DEF GuestChanges, clientVars, taskVars
<1>9. ASSUME NEW t \in Tasks, StartAutoReconnect(t)
      PROVE  TypeOK'
  BY <1>9 DEF StartAutoReconnect
<1>10. ASSUME NEW t \in Tasks, Task(t)
       PROVE  TypeOK'
  <2>0. UNCHANGED <<clientVars, guest, slips>>
    BY <1>10 DEF Task
  <2>1. CASE Wake(t)  BY <2>0, <2>1 DEF Wake, TaskGoes, clientVars
  <2>2. CASE Announce(t)  BY <2>0, <2>2 DEF Announce, TaskGoes, clientVars
  <2>3. ASSUME TryAgain(t)
        PROVE  /\ task' \in [Tasks -> {"over", "sleep", "announce", "select", "shake"}]
               /\ delay' \in [Tasks -> InitialDelay..MaxDelay]
               /\ aborted' \in [Tasks -> BOOLEAN]
    BY <2>3, DelayBound DEF TryAgain, TaskGoes
  <2>4. ASSUME Ends(t)
        PROVE  /\ task' \in [Tasks -> {"over", "sleep", "announce", "select", "shake"}]
               /\ delay' \in [Tasks -> InitialDelay..MaxDelay]
               /\ aborted' \in [Tasks -> BOOLEAN]
    BY <2>4, DelayAssumption DEF Ends
  <2>5. CASE TaskSelects(t)  BY <2>0, <2>3, <2>5 DEF TaskSelects, TaskGoes, clientVars
  <2>6. CASE TaskShakes(t)  BY <2>0, <2>3, <2>4, <2>6 DEF TaskShakes, clientVars
  <2>7. CASE Vanish(t)  BY <2>0, <2>4, <2>7 DEF Vanish, clientVars
  <2> QED
    BY <1>10, <2>1, <2>2, <2>5, <2>6, <2>7 DEF Task
<1>11. CASE UNCHANGED vars  BY <1>11 DEF vars, clientVars, taskVars
<1> QED
  BY <1>1, <1>2, <1>3, <1>4, <1>5, <1>6, <1>7, <1>8, <1>9, <1>10, <1>11 DEF Next, Client

(* A step of a task is of one that goes on, starts none and leaves the     *)
(* client alone.                                                           *)
LEMMA TaskStep ==
  ASSUME TypeOK, NEW t \in Tasks, Task(t)
  PROVE  /\ ~Over(t)
         /\ \A u \in Tasks : Over(u) => Over(u)'
         /\ UNCHANGED <<clientVars, slips>>
<1>1. UNCHANGED <<clientVars, slips>>
  BY DEF Task
<1>2. CASE Wake(t)  BY <1>1, <1>2 DEF Wake, TaskGoes, Over, TypeOK
<1>3. CASE Announce(t)  BY <1>1, <1>3 DEF Announce, TaskGoes, Over, TypeOK
<1>4. CASE TaskSelects(t)  BY <1>1, <1>4 DEF TaskSelects, TryAgain, TaskGoes, Over, TypeOK
<1>5. CASE TaskShakes(t)  BY <1>1, <1>5 DEF TaskShakes, TryAgain, TaskGoes, Ends, Over, TypeOK
<1>6. CASE Vanish(t)  BY <1>1, <1>6 DEF Vanish, Ends, Over, TypeOK
<1> QED
  BY <1>2, <1>3, <1>4, <1>5, <1>6 DEF Task

(* No task escapes the client unless something slips.                      *)
LEMMA HeldStep == IInv /\ [Next]_vars => Held'
<1> SUFFICES ASSUME IInv, [Next]_vars PROVE Held'
  OBVIOUS
<1> USE DEF IInv, Held
<1>1. CASE ConnectBegin  BY <1>1 DEF ConnectBegin, taskVars, Over
<1>2. CASE DisconnectBegin
  <2> SUFFICES ASSUME slips' = {} PROVE \A t \in Tasks : Over(t)'
    OBVIOUS
  <2>1. CASE ~HoldsTask
    <3>1. UNCHANGED <<task, slips>>
      BY <1>2, <2>1 DEF DisconnectBegin, Abort, taskVars
    <3>2. \A t \in Tasks : Over(t)
      BY <2>1, <3>1, TaskAssumption DEF HoldsTask
    <3> QED
      BY <3>1, <3>2 DEF Over
  <2>2. CASE HoldsTask
    <3>1. Ends(handle) /\ UNCHANGED slips
      BY <1>2, <2>2 DEF DisconnectBegin, Abort
    <3>2. \A t \in Tasks : Over(t) \/ handle = t
      BY <3>1
    <3> QED
      BY <3>1, <3>2 DEF Ends, Over, TypeOK
  <2> QED
    BY <2>1, <2>2
<1>3. CASE ConnectSelects  BY <1>3 DEF ConnectSelects, taskVars, Over
<1>4. CASE ConnectShakes  BY <1>4 DEF ConnectShakes, taskVars, Over
<1>5. CASE DisconnectEnd  BY <1>5 DEF DisconnectEnd, taskVars, Over
<1>6. CASE Cancel  BY <1>6 DEF Cancel, taskVars, Over
<1>7. CASE Operate  BY <1>7 DEF Operate, taskVars, Over
<1>8. CASE GuestChanges  BY <1>8 DEF GuestChanges, clientVars, taskVars, Over
<1>9. ASSUME NEW t \in Tasks, StartAutoReconnect(t)
      PROVE  Held'
  <2> SUFFICES ASSUME slips' = {}, NEW u \in Tasks, u # t PROVE Over(u)'
    BY <1>9 DEF StartAutoReconnect
  <2>1. slips = {} /\ ~HoldsTask
    BY <1>9 DEF StartAutoReconnect
  <2>2. Over(u)
    BY <2>1, TaskAssumption DEF HoldsTask
  <2> QED
    BY <1>9, <2>2 DEF StartAutoReconnect, Over, TypeOK
<1>10. ASSUME NEW t \in Tasks, Task(t)
       PROVE  Held'
  BY <1>10, TaskStep DEF clientVars
<1>11. CASE UNCHANGED vars  BY <1>11 DEF vars, clientVars, taskVars, Over
<1> QED
  BY <1>1, <1>2, <1>3, <1>4, <1>5, <1>6, <1>7, <1>8, <1>9, <1>10, <1>11 DEF Next, Client

(* The watch channel follows the client: only a task that is held has the  *)
(* other end of it.                                                        *)
LEMMA WatchStep == IInv /\ [Next]_vars => WatchFollowsState'
<1> SUFFICES ASSUME IInv, [Next]_vars PROVE WatchFollowsState'
  OBVIOUS
<1> USE DEF IInv, WatchFollowsState
<1>1. CASE ConnectBegin  BY <1>1 DEF ConnectBegin, SetState
<1>2. CASE DisconnectBegin  BY <1>2 DEF DisconnectBegin, SetState
<1>3. CASE ConnectSelects  BY <1>3 DEF ConnectSelects, ConnectFails, SetState
<1>4. CASE ConnectShakes  BY <1>4 DEF ConnectShakes, ConnectFails, SetState
<1>5. CASE DisconnectEnd  BY <1>5 DEF DisconnectEnd, SetState
<1>6. CASE Cancel
  <2> SUFFICES ASSUME slips' = {}, handle = NoTask PROVE shown' = state'
    BY <1>6 DEF Cancel
  <2>1. pc # "closing" /\ slips = {}
    BY <1>6 DEF Cancel
  <2> QED
    BY <1>6, <2>1 DEF Cancel
<1>7. CASE Operate  BY <1>7 DEF Operate
<1>8. CASE GuestChanges  BY <1>8 DEF GuestChanges, clientVars
<1>9. ASSUME NEW t \in Tasks, StartAutoReconnect(t)
      PROVE  WatchFollowsState'
  BY <1>9, TaskAssumption DEF StartAutoReconnect
<1>10. ASSUME NEW t \in Tasks, Task(t)
       PROVE  WatchFollowsState'
  BY <1>10, TaskStep, TaskAssumption DEF Held, clientVars
<1>11. CASE UNCHANGED vars  BY <1>11 DEF vars, clientVars
<1> QED
  BY <1>1, <1>2, <1>3, <1>4, <1>5, <1>6, <1>7, <1>8, <1>9, <1>10, <1>11 DEF Next, Client

(* The table is replaced with the transport or after it is taken.          *)
LEMMA TableStep == IInv /\ [Next]_vars => TableIsTransports'
<1> SUFFICES ASSUME IInv, [Next]_vars PROVE TableIsTransports'
  OBVIOUS
<1> USE DEF IInv, TableIsTransports
<1>1. CASE ConnectBegin  BY <1>1 DEF ConnectBegin
<1>2. CASE DisconnectBegin  BY <1>2 DEF DisconnectBegin
<1>3. CASE ConnectSelects  BY <1>3 DEF ConnectSelects, ConnectFails
<1>4. CASE ConnectShakes  BY <1>4 DEF ConnectShakes, ConnectFails, NewTable
<1>5. CASE DisconnectEnd  BY <1>5 DEF DisconnectEnd, NewTable
<1>6. CASE Cancel  BY <1>6 DEF Cancel
<1>7. CASE Operate  BY <1>7 DEF Operate
<1>8. CASE GuestChanges  BY <1>8 DEF GuestChanges, clientVars
<1>9. ASSUME NEW t \in Tasks, StartAutoReconnect(t)
      PROVE  TableIsTransports'
  BY <1>9 DEF StartAutoReconnect
<1>10. ASSUME NEW t \in Tasks, Task(t)
       PROVE  TableIsTransports'
  BY <1>10, TaskStep DEF clientVars
<1>11. CASE UNCHANGED vars  BY <1>11 DEF vars, clientVars
<1> QED
  BY <1>1, <1>2, <1>3, <1>4, <1>5, <1>6, <1>7, <1>8, <1>9, <1>10, <1>11 DEF Next, Client

------------------------------------------------------------------------------

(* The inductive invariant holds throughout.                               *)
THEOREM Inductive == Spec => []IInv
<1>1. Init => IInv
  BY InitInv
<1>2. IInv /\ [Next]_vars => IInv'
  BY TypeStep, HeldStep, WatchStep, TableStep DEF IInv
<1> QED
  BY <1>1, <1>2, PTL DEF Spec

(* Every state is of the declared types; a delay stays within its maximum. *)
THEOREM TypeCorrect == Spec => []TypeOK
<1>1. IInv => TypeOK
  BY DEF IInv
<1> QED
  BY <1>1, Inductive, PTL

(* Watchers see the client's own state once disconnect has aborted the     *)
(* task, with the exceptions that slips names.                             *)
THEOREM WatchCorrect == Spec => []WatchFollowsState
<1>1. IInv => WatchFollowsState
  BY DEF IInv
<1> QED
  BY <1>1, Inductive, PTL

(* Streams of an earlier transport are never in the table of the next.     *)
THEOREM TableCorrect == Spec => []TableIsTransports
<1>1. IInv => TableIsTransports
  BY DEF IInv
<1> QED
  BY <1>1, Inductive, PTL

==============================================================================
