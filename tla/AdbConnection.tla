---------------------------- MODULE AdbConnection ----------------------------
(***************************************************************************)
(* nux-core's AdbClient (adb/mod.rs) around its operations: connect,       *)
(* disconnect, the task that start_auto_reconnect spawns, and the watch    *)
(* channel that both the client and the task announce states on.  The task *)
(* has a transport of its own, which it drops; the client's state and      *)
(* transport are the client's alone.                                       *)
(*                                                                         *)
(* The client's methods take &mut self.  The task runs on another worker   *)
(* thread: it is aborted where it waits, but while it is being polled it   *)
(* goes on to its next wait.  What an operation does in its streams is     *)
(* AdbStreams.                                                             *)
(***************************************************************************)
EXTENDS Naturals

CONSTANTS
    Tasks,         \* bound: tasks there are at a time
    NoTask,        \* no JoinHandle
    InitialDelay,  \* delay_ms at first, 500 in the code
    MaxDelay       \* max_delay_ms, 10000 in the code

ASSUME TaskAssumption == NoTask \notin Tasks
ASSUME DelayAssumption ==
    InitialDelay \in Nat \ {0} /\ MaxDelay \in Nat /\ InitialDelay <= MaxDelay

VARIABLES
    state,      \* AdbClient.state
    shown,      \* what the watch channel holds
    transport,  \* AdbClient.transport is Some
    table,      \* AdbClient.streams: empty, of the transport, or of another
    pc,         \* where connect or disconnect stands
    handle,     \* reconnect_handle
    task,       \* where each task stands
    delay,      \* its delay_ms
    aborted,    \* it was aborted while it was polled
    guest,      \* adbd: down, mute (it accepts and does not shake hands), up
    slips       \* history: a live task's handle was overwritten, an abort
                \* came during a poll, a disconnect's future was dropped

clientVars == <<state, transport, table, pc, handle>>
taskVars == <<task, delay, aborted>>
vars == <<clientVars, shown, taskVars, guest, slips>>

States == {"Disconnected", "Connecting", "Connected", "Error"}
Over(t) == task[t] = "over"
HoldsTask == handle # NoTask /\ ~Over(handle)

TypeOK ==
    /\ state \in States /\ shown \in States
    /\ transport \in BOOLEAN
    /\ table \in {"empty", "current", "stale"}
    /\ pc \in {"rest", "select", "shake", "closing"}
    /\ handle \in Tasks \cup {NoTask}
    /\ task \in [Tasks -> {"over", "sleep", "announce", "select", "shake"}]
    /\ delay \in [Tasks -> InitialDelay..MaxDelay]
    /\ aborted \in [Tasks -> BOOLEAN]
    /\ guest \in {"down", "mute", "up"}
    /\ slips \subseteq {"doubled", "caught", "cut"}

Init ==
    /\ state = "Disconnected" /\ shown = "Disconnected"
    /\ transport = FALSE /\ table = "empty"
    /\ pc = "rest"
    /\ handle = NoTask
    /\ task = [t \in Tasks |-> "over"]
    /\ delay = [t \in Tasks |-> InitialDelay]
    /\ aborted = [t \in Tasks |-> FALSE]
    /\ guest = "down"
    /\ slips = {}

------------------------------------------------------------------------------
(* connect.                                                                *)

SetState(s) == state' = s /\ shown' = s

(* Either transport will do for select_transport, and a mute guest's       *)
(* answer is none or not a CNXN.                                           *)
Selected == guest # "down"
Shaken == guest = "up"

ConnectBegin ==
    /\ pc = "rest"
    /\ pc' = "select"
    /\ SetState("Connecting")
    /\ UNCHANGED <<transport, table, handle, taskVars, guest, slips>>

(* An error leaves the transport of an earlier connect where it is. *)
ConnectFails ==
    /\ pc' = "rest"
    /\ SetState("Error")
    /\ UNCHANGED <<transport, table>>

(* select_transport, and the host's CNXN. *)
ConnectSelects ==
    /\ pc = "select"
    /\ IF Selected THEN pc' = "shake" /\ UNCHANGED <<state, shown, transport, table>>
       ELSE ConnectFails
    /\ UNCHANGED <<handle, taskVars, guest, slips>>

NewTable == table' = "empty"

(* The guest's CNXN, or the timeout. *)
ConnectShakes ==
    /\ pc = "shake"
    /\ IF Shaken THEN pc' = "rest" /\ transport' = TRUE /\ NewTable /\ SetState("Connected")
       ELSE ConnectFails
    /\ UNCHANGED <<handle, taskVars, guest, slips>>

------------------------------------------------------------------------------
(* disconnect.                                                             *)

(* A task ends with its locals. *)
Ends(t) ==
    /\ task' = [task EXCEPT ![t] = "over"]
    /\ delay' = [delay EXCEPT ![t] = InitialDelay]
    /\ aborted' = [aborted EXCEPT ![t] = FALSE]

(* JoinHandle::abort. *)
AbortMutant == UNCHANGED <<taskVars, slips>>
Abort ==
    \/ /\ ~HoldsTask
       /\ UNCHANGED <<taskVars, slips>>
    \/ /\ HoldsTask
       /\ Ends(handle)
       /\ UNCHANGED slips
    \/ /\ HoldsTask /\ task[handle] # "sleep"
       /\ aborted' = [aborted EXCEPT ![handle] = TRUE]
       /\ slips' = slips \cup {"caught"}
       /\ UNCHANGED <<task, delay>>

(* The transport is taken before it is closed, the table replaced after. *)
DisconnectBegin ==
    /\ pc = "rest"
    /\ Abort
    /\ handle' = NoTask /\ transport' = FALSE
    /\ IF transport
         THEN /\ pc' = "closing"
              /\ table' = IF table = "current" THEN "stale" ELSE table
              /\ UNCHANGED <<state, shown>>
         ELSE NewTable /\ SetState("Disconnected") /\ UNCHANGED pc
    /\ UNCHANGED guest

DisconnectEndMutant ==
    /\ pc = "closing"
    /\ pc' = "rest" /\ state' = "Disconnected"
    /\ NewTable
    /\ UNCHANGED <<shown, transport, handle, taskVars, guest, slips>>
DisconnectEnd ==
    /\ pc = "closing"
    /\ pc' = "rest"
    /\ NewTable /\ SetState("Disconnected")
    /\ UNCHANGED <<transport, handle, taskVars, guest, slips>>

(* The caller drops the future of either. *)
Cancel ==
    /\ pc # "rest"
    /\ pc' = "rest"
    /\ slips' = IF pc = "closing" THEN slips \cup {"cut"} ELSE slips
    /\ UNCHANGED <<state, shown, transport, table, handle, taskVars, guest>>

------------------------------------------------------------------------------
(* An operation: shell_exec, the queries and injections that are one,      *)
(* push_file, pull_file, and those made of several.  It may leave a stream *)
(* in the table.                                                           *)
Operate ==
    /\ pc = "rest" /\ state = "Connected" /\ transport
    /\ table' = IF table = "stale" THEN "stale" ELSE "current"
    /\ UNCHANGED <<state, shown, transport, pc, handle, taskVars, guest, slips>>

------------------------------------------------------------------------------
(* The task.                                                               *)

(* An earlier task whose handle is overwritten is detached and goes on. *)
StartAutoReconnect(t) ==
    /\ pc = "rest" /\ Over(t)
    /\ handle' = t
    /\ task' = [task EXCEPT ![t] = "sleep"]
    /\ slips' = IF HoldsTask THEN slips \cup {"doubled"} ELSE slips
    /\ UNCHANGED <<state, shown, transport, table, pc, delay, aborted, guest>>

TaskGoes(t, to) == task' = [task EXCEPT ![t] = to] /\ UNCHANGED aborted

NextDelay(d) == IF 2 * d < MaxDelay THEN 2 * d ELSE MaxDelay
TryAgain(t) == TaskGoes(t, "sleep") /\ delay' = [delay EXCEPT ![t] = NextDelay(@)]

Wake(t) ==
    /\ task[t] = "sleep" /\ ~aborted[t]
    /\ TaskGoes(t, "announce")
    /\ UNCHANGED <<shown, delay>>

Announce(t) ==
    /\ task[t] = "announce"
    /\ shown' = "Connecting"
    /\ TaskGoes(t, "select")
    /\ UNCHANGED delay

TaskSelectsMutant(t) ==
    /\ task[t] = "select"
    /\ \/ ~Selected /\ shown' = "Error" /\ Ends(t)
       \/ Selected /\ TaskGoes(t, "shake") /\ UNCHANGED <<shown, delay>>
TaskSelects(t) ==
    /\ task[t] = "select"
    /\ \/ ~Selected /\ shown' = "Error" /\ TryAgain(t)
       \/ Selected /\ TaskGoes(t, "shake") /\ UNCHANGED <<shown, delay>>

(* A handshake that fails is announced to nobody; after one that succeeds  *)
(* the task returns and drops its transport.                               *)
TaskShakes(t) ==
    /\ task[t] = "shake"
    /\ \/ ~Shaken /\ TryAgain(t) /\ UNCHANGED shown
       \/ Shaken /\ shown' = "Connected" /\ Ends(t)

(* It comes to a wait. *)
Vanish(t) ==
    /\ aborted[t] /\ task[t] \in {"sleep", "select", "shake"}
    /\ Ends(t)
    /\ UNCHANGED shown

------------------------------------------------------------------------------

GuestChanges ==
    /\ guest' \in {"down", "mute", "up"} \ {guest}
    /\ UNCHANGED <<clientVars, shown, taskVars, slips>>

Client == ConnectSelects \/ ConnectShakes \/ DisconnectEnd
Task(t) ==
    /\ Wake(t) \/ Announce(t) \/ TaskSelects(t) \/ TaskShakes(t) \/ Vanish(t)
    /\ UNCHANGED <<clientVars, guest, slips>>

Next ==
    \/ ConnectBegin \/ DisconnectBegin \/ Client \/ Cancel \/ Operate
    \/ \E t \in Tasks : StartAutoReconnect(t) \/ Task(t)
    \/ GuestChanges

Spec == Init /\ [][Next]_vars

(* Timers fire and the runtime polls the task and the future it was given. *)
FairSpec == Spec /\ WF_vars(Client) /\ \A t \in Tasks : WF_vars(Task(t))

------------------------------------------------------------------------------
(* What holds.                                                             *)

(* Without an auto-reconnect task the watch channel has the client's own   *)
(* state: a task that disconnect aborted announces nothing over it, unless *)
(* it was caught in a poll, was detached by a second start_auto_reconnect, *)
(* or the disconnect's future was dropped.                                 *)
WatchFollowsState == slips = {} /\ handle = NoTask /\ pc # "closing" => shown = state

(* The stream table never holds another transport's streams while there is *)
(* a transport, in spite of connects that fail or are dropped half-way and *)
(* of a disconnect that is dropped between the transport and the table.    *)
TableIsTransports == transport => table # "stale"

(* A disconnect stops the task, caught in a poll or not, unless a second   *)
(* start_auto_reconnect had detached it.                                   *)
DisconnectStops ==
    handle = NoTask
        ~> (\A t \in Tasks : Over(t)) \/ handle # NoTask \/ "doubled" \in slips

(* The task that is held announces a connection, if the guest comes to     *)
(* stay, however often it failed before.                                   *)
Reconnects ==
    <>[](guest = "up") =>
        \A t \in Tasks : handle = t /\ task[t] = "sleep" ~> shown = "Connected" \/ handle # t

==============================================================================
