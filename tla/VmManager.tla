------------------------------ MODULE VmManager ------------------------------
(***************************************************************************)
(* nux-core's VmManager with its VmProcess and ControlClient, the files    *)
(* they share with a later run of Nux (the PID file and the control        *)
(* socket), and crosvm as the code sees it.                                *)
(*                                                                         *)
(* Every operation of the manager takes &mut self, so one is in progress   *)
(* at a time: pc says which, and where it waits.  An operation is one      *)
(* action per stretch of code between two points at which something else   *)
(* can happen: an await, or a system call between which crosvm runs or Nux *)
(* dies.  Dropping the operation's future at an await is Cancel.           *)
(*                                                                         *)
(* A definition named ...Mutant is no part of the specification: it is     *)
(* what a plausible slip in the code would make of the definition after    *)
(* it, and is there to see that the properties would notice.               *)
(***************************************************************************)
EXTENDS VmState, Naturals, Sequences

CONSTANTS
    Vms,         \* the crosvm processes that can ever be spawned
    NoVm,        \* no process: None, an absent file, a closed stream
    Garbage,     \* content of a PID file that is no number
    MaxTries,    \* rounds of start's connect loop (10 in the code)
    MaxPending,  \* bound: no command is issued with more bytes in the socket
    Faults       \* which of FaultKinds the environment can commit

FaultKinds ==
    {"cancel",     \* the caller drops a future before it is done
     "waiterr",    \* waiting for a dead child fails (it was reaped elsewhere)
     "pidwrite",   \* the PID file cannot be written
     "relaunch"}   \* Nux dies and is started again

ASSUME VmsAssumption == NoVm \notin Vms /\ Garbage \notin Vms /\ NoVm # Garbage
ASSUME BoundAssumption == MaxTries \in Nat \ {0} /\ MaxPending \in Nat
ASSUME FaultAssumption == Faults \subseteq FaultKinds

VARIABLES
    state,      \* VmManager.state
    process,    \* VmManager.process: the child it holds
    inherited,  \* a process that the child started has the child's stderr
    control,    \* VmManager.control is Some
    stream,     \* ControlClient.stream: the crosvm at the other end
    pc,         \* where the operation in progress stands, "rest" between two
    tries,      \* the counter of start's connect loop
    fresh,      \* the local child of VmProcess::spawn, not recorded yet
    pidFile,    \* the PID file: absent, the process it names, or Garbage
    sock,       \* the socket's path: absent, or who bound it (dead: stale)
    vm,         \* each crosvm process
    halted,     \* whether its vCPUs are halted
    term,       \* whether it has been sent SIGTERM
    toVm,       \* commands written to stream that crosvm has not read
    fromVm,     \* replies in stream that the client has not read
    unrecorded, \* history: processes spawned whose PID was not written
    unanswered  \* history: a command's own reply was not waited for

managerVars == <<state, process, control, stream, pc, tries, fresh>>
fileVars == <<pidFile, sock>>
vmVars == <<vm, halted, term, inherited>>
channelVars == <<toVm, fromVm>>
historyVars == <<unrecorded, unanswered>>
vars == <<managerVars, fileVars, vmVars, channelVars, historyVars>>

VmStatus == {"unborn", "booting", "listening", "dead"}
Live(v) == vm[v] \in {"booting", "listening"}

(* Where an operation can wait.  An await is a point the caller can drop   *)
(* the future at; the rest is straight-line code between system calls.     *)
Awaits == {"orphan", "connect", "pausing", "resuming", "stopping", "terminating", "killing"}
Requesting == {"pausing", "resuming", "stopping"}
Pcs == {"rest", "prepare", "spawn", "record"} \cup Awaits

TypeOK ==
    /\ state \in VmStates
    /\ process \in Vms \cup {NoVm}
    /\ inherited \in BOOLEAN
    /\ control \in BOOLEAN
    /\ stream \in Vms \cup {NoVm}
    /\ pc \in Pcs
    /\ tries \in 0 .. MaxTries
    /\ fresh \in Vms \cup {NoVm}
    /\ pidFile \in Vms \cup {NoVm, Garbage}
    /\ sock \in Vms \cup {NoVm}
    /\ vm \in [Vms -> VmStatus]
    /\ halted \in [Vms -> BOOLEAN]
    /\ term \in [Vms -> BOOLEAN]
    /\ toVm \in Seq({"pause", "resume", "stop"})
    /\ fromVm \in Seq({"ok", "error"})
    /\ unrecorded \subseteq Vms
    /\ unanswered \in BOOLEAN

Init ==
    /\ state = "Idle"
    /\ process = NoVm /\ inherited = FALSE /\ control = FALSE /\ stream = NoVm
    /\ pc = "rest" /\ tries = 0 /\ fresh = NoVm
    /\ pidFile = NoVm /\ sock = NoVm
    /\ vm = [v \in Vms |-> "unborn"]
    /\ halted = [v \in Vms |-> FALSE]
    /\ term = [v \in Vms |-> FALSE]
    /\ toVm = <<>> /\ fromVm = <<>>
    /\ unrecorded = {} /\ unanswered = FALSE

------------------------------------------------------------------------------
(* Helpers.                                                                *)

(* VmManager::transition: refused, with no effect, off the table's edges.  *)
TransitionMutant(target) == state' = target
Transition(target) == CanTransition(state, target) /\ state' = target

(* ControlClient gone or disconnected: what was in the stream is lost.     *)
Disconnect == stream' = NoVm /\ toVm' = <<>> /\ fromVm' = <<>>

(* VmProcess::cleanup. *)
RemoveFiles == pidFile' = NoVm /\ sock' = NoVm

(* VmProcess::wait comes back: the child has ended, and its stderr has been *)
(* read to the end, which is not before all who inherited it closed it.     *)
(* The error of the wait itself returns without reading.                    *)
WaitedMutant == ~inherited
Waited == ~Live(process) /\ ~inherited
WaitFails == "waiterr" \in Faults /\ ~Live(process)

(* The files once the child was waited for: an error returns before cleanup. *)
CleanupAfterWait ==
    \/ Waited /\ RemoveFiles
    \/ WaitFails /\ UNCHANGED fileVars

(* Both handles dropped and the VM reported stopped: how stop and          *)
(* force_kill end.                                                         *)
Release ==
    /\ process' = NoVm
    /\ inherited' = FALSE
    /\ control' = FALSE
    /\ Disconnect
    /\ state' = "Stopped"
    /\ pc' = "rest"

SigkillMutant(v) == UNCHANGED vm
Sigkill(v) == vm' = [vm EXCEPT ![v] = "dead"]
Sigterm(v) == term' = [term EXCEPT ![v] = TRUE]

------------------------------------------------------------------------------
(* VmManager::start and VmProcess::spawn.                                  *)

StartBegin ==
    /\ pc = "rest"
    /\ Transition("Starting")
    /\ pc' = "prepare"
    /\ UNCHANGED <<process, control, stream, tries, fresh>>
    /\ UNCHANGED <<fileVars, vmVars, channelVars, historyVars>>

(* start ends in Failed: an invalid configuration, KVM not ready, a        *)
(* directory that cannot be made, a spawn that fails.                      *)
StartFails ==
    /\ pc \in {"prepare", "spawn"}
    /\ state' = "Failed"
    /\ pc' = "rest"
    /\ UNCHANGED <<process, control, stream, tries, fresh>>
    /\ UNCHANGED <<fileVars, vmVars, channelVars, historyVars>>

(* process_exists of the PID in the file. *)
OrphanAliveMutant == FALSE
OrphanAlive == pidFile \in Vms /\ vm[pidFile] # "dead"

(* cleanup_orphan up to its sleep.  A live process named by the PID file   *)
(* is asked to end; any other content is just removed.  The socket of the  *)
(* old process stays.                                                      *)
CheckOrphan ==
    /\ pc = "prepare"
    /\ IF OrphanAlive
       THEN Sigterm(pidFile) /\ pc' = "orphan" /\ UNCHANGED pidFile
       ELSE pidFile' = NoVm /\ pc' = "spawn" /\ UNCHANGED term
    /\ UNCHANGED <<state, process, control, stream, tries, fresh>>
    /\ UNCHANGED <<sock, vm, halted, inherited, channelVars, historyVars>>

(* The rest of cleanup_orphan, half a second later. *)
KillOrphan ==
    /\ pc = "orphan"
    /\ Sigkill(pidFile)
    /\ pidFile' = NoVm
    /\ pc' = "spawn"
    /\ UNCHANGED <<state, process, control, stream, tries, fresh>>
    /\ UNCHANGED <<sock, halted, term, inherited, channelVars, historyVars>>

SpawnChild ==
    /\ pc = "spawn"
    /\ \E v \in Vms :
        /\ vm[v] = "unborn"
        /\ vm' = [vm EXCEPT ![v] = "booting"]
        /\ fresh' = v
    /\ pc' = "record"
    /\ UNCHANGED <<state, process, control, stream, tries>>
    /\ UNCHANGED <<fileVars, halted, term, inherited, channelVars, historyVars>>

(* The PID file is written and the child becomes the manager's process.    *)
RecordPid ==
    /\ pc = "record"
    /\ pidFile' = fresh
    /\ process' = fresh
    /\ fresh' = NoVm
    /\ tries' = 0
    /\ pc' = "connect"
    /\ UNCHANGED <<state, control, stream, sock, vmVars, channelVars, historyVars>>

(* The PID file cannot be written.  spawn returns the error and drops the  *)
(* Child, which does not end the process.  The file may have been created. *)
RecordFails ==
    /\ "pidwrite" \in Faults
    /\ pc = "record"
    /\ pidFile' \in {pidFile, Garbage}
    /\ unrecorded' = unrecorded \cup {fresh}
    /\ fresh' = NoVm
    /\ state' = "Failed"
    /\ pc' = "rest"
    /\ UNCHANGED <<process, control, stream, tries, sock, vmVars, channelVars>>
    /\ UNCHANGED unanswered

(* A round of the connect loop finds the process gone, and waits for it.   *)
(* An error of wait returns from start with the state as it is.            *)
StartExited ==
    /\ pc = "connect"
    /\ \/ Waited /\ state' = "Failed"
       \/ WaitFails /\ UNCHANGED state
    /\ pc' = "rest"
    /\ UNCHANGED <<process, control, stream, tries, fresh>>
    /\ UNCHANGED <<fileVars, vmVars, channelVars, historyVars>>

(* Somebody accepts connections at the socket's path. *)
Listening == sock \in Vms /\ vm[sock] = "listening"

(* A round that connects: to whoever bound the path. *)
StartConnects ==
    /\ pc = "connect"
    /\ Live(process)
    /\ Listening
    /\ stream' = sock
    /\ control' = TRUE
    /\ state' = "Running"
    /\ pc' = "rest"
    /\ UNCHANGED <<process, tries, fresh>>
    /\ UNCHANGED <<fileVars, vmVars, channelVars, historyVars>>

(* A round that does not, and after the last one the VM is taken to run    *)
(* all the same.                                                           *)
NextTryMutant == tries
NextTry == tries + 1
LastTry == NextTry >= MaxTries
StartRetries ==
    /\ pc = "connect"
    /\ Live(process)
    /\ ~Listening
    /\ tries' = NextTry
    /\ IF LastTry
       THEN state' = "Running" /\ control' = TRUE /\ pc' = "rest"
       ELSE UNCHANGED <<state, control, pc>>
    /\ UNCHANGED <<process, stream, fresh>>
    /\ UNCHANGED <<fileVars, vmVars, channelVars, historyVars>>

------------------------------------------------------------------------------
(* ControlClient::send_command: the part before its read.                  *)

(* The crosvm a command reaches: the open stream's, else the one the       *)
(* client can reconnect to.                                                *)
Peer == IF stream # NoVm THEN stream ELSE IF Listening THEN sock ELSE NoVm
Reachable == Peer # NoVm /\ Live(Peer)

Send(cmd) ==
    /\ Reachable
    /\ stream' = Peer
    /\ toVm' = Append(toVm, cmd)
    /\ UNCHANGED <<fromVm, unanswered>>

(* Connecting fails, or writing does: EPIPE closes the stream. *)
SendFails ==
    /\ ~Reachable
    /\ Disconnect
    /\ unanswered' = (unanswered \/ stream # NoVm)

(* Bound: the user issues no command over a socket this full. *)
RoomToSend == Len(toVm) + Len(fromVm) < MaxPending

(* The read of send_command and its result.  Whatever is there is read, to *)
(* the last byte, and searched for an error; whose reply it is does not    *)
(* matter.                                                                 *)
ReadReply(ok) ==
    /\ fromVm # <<>>
    /\ ok = (\A i \in 1 .. Len(fromVm) : fromVm[i] # "error")
    /\ fromVm' = <<>>
    /\ UNCHANGED <<stream, toVm, unanswered>>

(* End of file, or a connection reset, once the replies are read. *)
ReadBreaks(ok) ==
    /\ ~Live(stream)
    /\ fromVm = <<>>
    /\ ok = FALSE
    /\ Disconnect
    /\ unanswered' = TRUE

(* Five seconds without a byte.  The stream stays open. *)
ReadTimesOutMutant(ok) == FALSE
ReadTimesOut(ok) ==
    /\ Live(stream)
    /\ fromVm = <<>>
    /\ ok = FALSE
    /\ unanswered' = TRUE
    /\ UNCHANGED <<stream, channelVars>>

Await(ok) == ReadReply(ok) \/ ReadBreaks(ok) \/ ReadTimesOut(ok)

------------------------------------------------------------------------------
(* VmManager::pause, resume, stop and force_kill.  Where they find control *)
(* or process to be None they skip what needs it; HandlesMatchState is why *)
(* neither is None in the states that admit pause, resume and stop.        *)

(* pause sets Paused before it asks crosvm, and takes it back on an error. *)
PauseBegin ==
    /\ pc = "rest"
    /\ state = "Running"
    /\ RoomToSend
    /\ \/ Transition("Paused") /\ Send("pause") /\ pc' = "pausing"
       \/ SendFails /\ UNCHANGED <<state, pc>>
    /\ UNCHANGED <<process, control, tries, fresh, fileVars, vmVars, unrecorded>>

PauseEndMutant(ok) ==
    /\ pc = "pausing"
    /\ Await(ok)
    /\ pc' = "rest"
    /\ UNCHANGED <<state, process, control, tries, fresh, fileVars, vmVars, unrecorded>>
PauseEnd(ok) ==
    /\ pc = "pausing"
    /\ Await(ok)
    /\ state' = IF ok THEN state ELSE "Running"
    /\ pc' = "rest"
    /\ UNCHANGED <<process, control, tries, fresh, fileVars, vmVars, unrecorded>>

(* resume, the same the other way round. *)
ResumeBegin ==
    /\ pc = "rest"
    /\ state = "Paused"
    /\ RoomToSend
    /\ \/ Transition("Running") /\ Send("resume") /\ pc' = "resuming"
       \/ SendFails /\ UNCHANGED <<state, pc>>
    /\ UNCHANGED <<process, control, tries, fresh, fileVars, vmVars, unrecorded>>

ResumeEnd(ok) ==
    /\ pc = "resuming"
    /\ Await(ok)
    /\ state' = IF ok THEN state ELSE "Paused"
    /\ pc' = "rest"
    /\ UNCHANGED <<process, control, tries, fresh, fileVars, vmVars, unrecorded>>

(* stop asks over the socket first; with no socket to ask it goes on to    *)
(* the signal at once.                                                     *)
StopBegin ==
    /\ pc = "rest"
    /\ Transition("Stopping")
    /\ \/ Send("stop") /\ pc' = "stopping" /\ UNCHANGED term
       \/ SendFails /\ Sigterm(process) /\ pc' = "terminating"
    /\ UNCHANGED <<process, control, tries, fresh, fileVars, vm, halted, inherited, unrecorded>>

(* Whatever came of the command, VmProcess::stop sends SIGTERM. *)
StopSignal ==
    /\ pc = "stopping"
    /\ \E ok \in BOOLEAN : Await(ok)
    /\ Sigterm(process)
    /\ pc' = "terminating"
    /\ UNCHANGED <<state, process, control, tries, fresh, fileVars, vm, halted, inherited>>
    /\ UNCHANGED unrecorded

(* Ten seconds went by and the process lives. *)
StopKills ==
    /\ pc = "terminating"
    /\ Live(process)
    /\ Sigkill(process)
    /\ UNCHANGED <<managerVars, fileVars, halted, term, inherited, channelVars, historyVars>>

(* force_kill of a VM that is up, starting or stopping. *)
ForceKill ==
    /\ pc = "rest"
    /\ state \in Killable
    /\ process # NoVm
    /\ Sigkill(process)
    /\ pc' = "killing"
    /\ UNCHANGED <<state, process, control, stream, tries, fresh>>
    /\ UNCHANGED <<fileVars, halted, term, inherited, channelVars, historyVars>>

(* The end of stop, and of force_kill: the child was waited for. *)
StopEnd ==
    /\ pc \in {"terminating", "killing"}
    /\ CleanupAfterWait
    /\ Release
    /\ UNCHANGED <<tries, fresh, vm, halted, term, historyVars>>

(* A start that was dropped before it stored a process has none to kill. *)
ForceStop ==
    /\ pc = "rest"
    /\ state \in Killable
    /\ process = NoVm
    /\ Release
    /\ UNCHANGED <<tries, fresh, fileVars, vm, halted, term, historyVars>>

(* force_kill otherwise: only what a failed start left is cleaned up. *)
Discard ==
    /\ pc = "rest"
    /\ state \notin Killable
    /\ IF process # NoVm THEN RemoveFiles ELSE UNCHANGED fileVars
    /\ process' = NoVm
    /\ inherited' = FALSE
    /\ control' = FALSE
    /\ Disconnect
    /\ UNCHANGED <<state, pc, tries, fresh, vm, halted, term, historyVars>>

------------------------------------------------------------------------------
(* The caller and Nux itself.                                              *)

(* The future of the operation is dropped where it waits.  What start held *)
(* in locals goes with it; what it stored in the manager stays.            *)
Cancel ==
    /\ "cancel" \in Faults
    /\ pc \in Awaits
    /\ pc' = "rest"
    /\ unanswered' = (unanswered \/ pc \in Requesting)
    /\ UNCHANGED <<state, process, control, stream, tries, fresh>>
    /\ UNCHANGED <<fileVars, vmVars, channelVars, unrecorded>>

(* PR_SET_PDEATHSIG: when Nux dies every child is sent SIGTERM. *)
ParentDeathSignalMutant == UNCHANGED term
ParentDeathSignal == term' = [v \in Vms |-> term[v] \/ Live(v)]

(* Nux dies, whatever it was doing, and is started again: a new manager    *)
(* over the same files.                                                    *)
Relaunch ==
    /\ "relaunch" \in Faults
    /\ state' = "Idle" /\ process' = NoVm /\ inherited' = FALSE /\ control' = FALSE
    /\ Disconnect
    /\ pc' = "rest" /\ tries' = 0 /\ fresh' = NoVm
    /\ ParentDeathSignal
    /\ unanswered' = FALSE
    /\ IF pc = "record"
       THEN pidFile' \in {pidFile, Garbage} /\ unrecorded' = unrecorded \cup {fresh}
       ELSE UNCHANGED <<pidFile, unrecorded>>
    /\ UNCHANGED <<sock, vm, halted>>

------------------------------------------------------------------------------
(* crosvm, from how the code uses it.                                      *)

(* It binds its socket, replacing a file it finds there. *)
Bind(v) ==
    /\ vm[v] = "booting"
    /\ vm' = [vm EXCEPT ![v] = "listening"]
    /\ sock' = v
    /\ UNCHANGED <<managerVars, pidFile, halted, term, inherited, channelVars, historyVars>>

(* It ends: told to, by itself, or because the path was taken.  It may     *)
(* leave its socket behind.                                                *)
Exit(v) ==
    /\ Live(v)
    /\ vm' = [vm EXCEPT ![v] = "dead"]
    /\ \/ UNCHANGED sock
       \/ sock = v /\ sock' = NoVm
    /\ UNCHANGED <<managerVars, pidFile, halted, term, inherited, channelVars, historyVars>>

(* It carries out the next command, or refuses it, and replies. *)
Serve ==
    /\ stream # NoVm /\ Live(stream)
    /\ toVm # <<>>
    /\ toVm' = Tail(toVm)
    /\ \/ fromVm' = Append(fromVm, "error") /\ UNCHANGED <<vm, halted>>
       \/ /\ fromVm' = Append(fromVm, "ok")
          /\ halted' = [halted EXCEPT ![stream] =
                            CASE Head(toVm) = "pause"  -> TRUE
                              [] Head(toVm) = "resume" -> FALSE
                              [] OTHER -> halted[stream]]
          /\ vm' = [vm EXCEPT ![stream] = IF Head(toVm) = "stop" THEN "dead" ELSE @]
    /\ UNCHANGED <<managerVars, fileVars, term, inherited, historyVars>>

(* The child starts a process that inherits its stderr, one of its own for *)
(* a device, say; such processes end when they please, before it or after. *)
Inherit ==
    /\ process # NoVm /\ Live(process)
    /\ inherited' = TRUE
    /\ UNCHANGED <<managerVars, fileVars, vm, halted, term, channelVars, historyVars>>

HeirsEnd ==
    /\ inherited
    /\ inherited' = FALSE
    /\ UNCHANGED <<managerVars, fileVars, vm, halted, term, channelVars, historyVars>>

------------------------------------------------------------------------------

(* The manager going on with the operation it is in. *)
ManagerStep ==
    \/ StartFails \/ CheckOrphan \/ KillOrphan \/ SpawnChild
    \/ RecordPid \/ RecordFails
    \/ StartExited \/ StartConnects \/ StartRetries
    \/ \E ok \in BOOLEAN : PauseEnd(ok) \/ ResumeEnd(ok)
    \/ StopSignal \/ StopKills \/ StopEnd

(* Its caller. *)
Command ==
    \/ StartBegin \/ PauseBegin \/ ResumeBegin \/ StopBegin
    \/ ForceKill \/ ForceStop \/ Discard \/ Cancel \/ Relaunch

Crosvm == Serve \/ Inherit \/ HeirsEnd \/ \E v \in Vms : Bind(v) \/ Exit(v)

Next == ManagerStep \/ Command \/ Crosvm

Spec == Init /\ [][Next]_vars

(* Timers fire and the runtime polls a future it was given: an operation   *)
(* in progress goes on.  Nothing is assumed of crosvm, of what it started  *)
(* or of the user.                                                         *)
FairSpec == Spec /\ WF_vars(ManagerStep)

------------------------------------------------------------------------------
(* What the manager guarantees.                                            *)

(* The handle, the control client and the reported state move together     *)
(* through every operation, failure and abandoned future: a VM reported up *)
(* or stopping has both, an idle or stopped one neither, and one that      *)
(* failed to start at most a process that has ended.  The pauses, stops    *)
(* and kills of mod.rs rely on it.                                         *)
HandlesMatchState ==
    /\ state \in {"Running", "Paused", "Stopping"} => control /\ process # NoVm
    /\ state \in {"Idle", "Stopped", "Failed"} => ~control
    /\ state \in {"Idle", "Stopped"} => process = NoVm
    /\ state = "Failed" /\ process # NoVm => ~Live(process)

(* No crosvm is lost: each one that lives is held by the manager, or is    *)
(* named by the PID file, where the next start finds it, or is one whose   *)
(* PID could not be written.                                               *)
NoLostVm ==
    \A v \in Vms : Live(v) => v \in {process, fresh, pidFile} \cup unrecorded

(* One VM at a time: a living crosvm that has not been told to end is the  *)
(* manager's own, over any number of relaunches, unless a PID file could   *)
(* not be written while Nux went on.                                       *)
SingleVm ==
    \A v \in Vms :
        Live(v) /\ ~term[v] =>
            \/ v \in {process, fresh}
            \/ "pidwrite" \in Faults /\ v \in unrecorded

(* Commands go to the manager's own VM.  The socket's path is shared with  *)
(* earlier runs, whose processes may still listen there when start         *)
(* connects: only one that escaped the PID file can be mistaken for it.    *)
ControlsOwnVm == stream # NoVm => stream \in {process} \cup unrecorded

(* As long as every command has been answered, the reported state is the   *)
(* guest's: pause's and resume's early store of the new state, and their   *)
(* reverting it on an error, leave nothing behind.                         *)
AnsweredMeansAgreed ==
    /\ pc = "rest" /\ ~unanswered
    /\ state \in {"Running", "Paused"}
    /\ Live(process) /\ stream \in {NoVm, process}
    => halted[process] = (state = "Paused")

(* A handle is given up only once its process is dead, whichever way stop, *)
(* force_kill or a failed start ends; only the death of Nux drops a live   *)
(* one.                                                                    *)
NeverDropsLiveVm ==
    [][process # NoVm /\ process' # process =>
           state' = "Idle" \/ vm'[process] = "dead"]_vars

(* VmManager implements VmLifecycle: state.rs's table of transitions, with *)
(* the forced kill that mod.rs adds to it.                                 *)
Lifecycle == INSTANCE VmLifecycle WITH owned <- process # NoVm
ImplementsLifecycle == Lifecycle!LSpec

(* The child has ended and its stderr is still open: VmProcess::wait reads *)
(* on, without a deadline.                                                 *)
HeldUp == process # NoVm /\ vm[process] = "dead" /\ inherited

(* A start that is not abandoned ends: the connect loop and the clean-up   *)
(* of an orphan do not wait for crosvm.  Only a process that outlives      *)
(* crosvm and has its stderr can keep a failed start, for as long.         *)
StartSettles == state = "Starting" ~> state \in {"Running", "Failed"} \/ HeldUp

(* A stop, and a forced one, ends with the process dead, whether crosvm    *)
(* answers, refuses, keeps silent or ignores the signal, and is reported   *)
(* once nobody has its stderr any more.                                    *)
StopSettles ==
    \A v \in Vms :
        process = v /\ (state = "Stopping" \/ pc = "killing")
            ~> vm[v] = "dead" /\ (state = "Stopped" \/ HeldUp)

(* What the documents say and the code does not do.                        *)

(* The specification of crosvm-integration: an unexpected exit of crosvm   *)
(* while Running or Paused is detected, so the VM is not reported up for   *)
(* ever after.                                                             *)
CrashNoticed ==
    state \in {"Running", "Paused"} /\ ~Live(process)
        ~> state \notin {"Running", "Paused"}

==============================================================================
