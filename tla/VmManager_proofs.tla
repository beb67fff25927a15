--------------------------- MODULE VmManager_proofs ---------------------------
(***************************************************************************)
(* Proofs about VmManager, for every set of processes, every bound and     *)
(* every set of faults; and about VmHost, what its start looks at, for any *)
(* configs, backends and number of passt processes.                        *)
(***************************************************************************)
EXTENDS VmManager, VmHost, TLAPS

(* Where an operation stands decides what it holds. *)
Phases ==
    /\ pc \in {"prepare", "orphan", "spawn", "record"} =>
           state = "Starting" /\ process = NoVm
    /\ pc = "connect" => state = "Starting" /\ process # NoVm /\ tries < MaxTries
    /\ pc = "pausing" => state = "Paused"
    /\ pc = "resuming" => state = "Running"
    /\ pc \in {"stopping", "terminating"} => state = "Stopping"
    /\ pc = "killing" => state \in Killable /\ process # NoVm
    /\ pc \in Requesting => stream # NoVm
    /\ pc = "record" <=> fresh # NoVm
    /\ control => state \in {"Running", "Paused", "Stopping"}
    /\ state # "Crashed"
    /\ stream # NoVm => control

(* The PID file names the process held, and while there is none to hold    *)
(* yet, the orphan that is being removed.                                  *)
Files ==
    /\ process # NoVm => pidFile = process
    /\ pc = "orphan" => pidFile \in Vms
    /\ pc \in {"spawn", "record"} => pidFile = NoVm

(* One command in the socket at most, with the guest as the reported state *)
(* has it when the command is still there or was refused, and as the       *)
(* command asks when it was accepted.                                      *)
Waiting(cmd) == toVm = <<cmd>> /\ fromVm = <<>>
Replied(r) == toVm = <<>> /\ fromVm = <<r>>

Exchange(cmd, before, after) ==
    \/ Waiting(cmd) /\ halted[process] = before
    \/ Replied("ok") /\ halted[process] = after
    \/ Replied("error") /\ halted[process] = before

OneCommand ==
    /\ pc \notin Requesting => toVm = <<>> /\ fromVm = <<>>
    /\ pc = "pausing" => Waiting("pause") \/ Replied("ok") \/ Replied("error")
    /\ pc = "resuming" => Waiting("resume") \/ Replied("ok") \/ Replied("error")
    /\ pc = "stopping" => Waiting("stop") \/ Replied("ok") \/ Replied("error")

Agreed ==
    /\ pc \in {"rest", "killing"} /\ state \in {"Running", "Paused"} =>
           halted[process] = (state = "Paused")
    /\ pc = "pausing" => Exchange("pause", FALSE, TRUE)
    /\ pc = "resuming" => Exchange("resume", TRUE, FALSE)

NotHaltedYet ==
    /\ \A v \in Vms : vm[v] = "unborn" => ~halted[v]
    /\ pc = "record" => ~halted[fresh]
    /\ pc = "connect" => ~halted[process]

Agreement ==
    /\ NotHaltedYet
    /\ ~unanswered => OneCommand
    /\ ~unanswered /\ stream \in {NoVm, process} => Agreed

(* A process that is held has been spawned. *)
Born ==
    /\ process # NoVm => vm[process] # "unborn"
    /\ fresh # NoVm => vm[fresh] # "unborn"

IInv ==
    /\ TypeOK
    /\ HandlesMatchState
    /\ Phases
    /\ Files
    /\ Born
    /\ NoLostVm
    /\ SingleVm
    /\ ControlsOwnVm
    /\ Agreement

------------------------------------------------------------------------------
(* The helpers of the commands, for the types. *)

Commands == {"pause", "resume", "stop"}
Replies == {"ok", "error"}

ChannelType ==
    /\ stream \in Vms \cup {NoVm}
    /\ toVm \in Seq(Commands)
    /\ fromVm \in Seq(Replies)
    /\ unanswered \in BOOLEAN

(* Append keeps a sequence over its set.                                   *)
LEMMA AppendType ==
  ASSUME NEW S, NEW q \in Seq(S), NEW e \in S
  PROVE  Append(q, e) \in Seq(S)
OBVIOUS

(* Head and Tail of a sequence that is not empty.                          *)
LEMMA TailType ==
  ASSUME NEW S, NEW q \in Seq(S), q # <<>>
  PROVE  Tail(q) \in Seq(S) /\ Head(q) \in S
OBVIOUS

(* A stream that is closed is of the right type.                           *)
LEMMA DisconnectType ==
  ASSUME Disconnect
  PROVE  stream' = NoVm /\ toVm' \in Seq(Commands) /\ fromVm' \in Seq(Replies)
BY DEF Disconnect

(* Writing a command to crosvm keeps the types of the stream.              *)
LEMMA SendType ==
  ASSUME TypeOK, NEW cmd \in Commands, Send(cmd)
  PROVE  ChannelType'
BY AppendType DEF Send, TypeOK, Reachable, Peer, Listening, ChannelType, Commands, Replies

(* So does failing to reach it.                                            *)
LEMMA SendFailsType ==
  ASSUME TypeOK, SendFails
  PROVE  ChannelType'
BY DisconnectType DEF SendFails, TypeOK, ChannelType

(* So does each way the read of send_command ends.                         *)
LEMMA AwaitType ==
  ASSUME TypeOK, NEW ok \in BOOLEAN, Await(ok)
  PROVE  ChannelType'
<1>1. CASE ReadReply(ok)
  BY <1>1 DEF ReadReply, TypeOK, ChannelType, Commands, Replies
<1>2. CASE ReadBreaks(ok)
  BY <1>2, DisconnectType DEF ReadBreaks, ChannelType
<1>3. CASE ReadTimesOut(ok)
  BY <1>3 DEF ReadTimesOut, TypeOK, ChannelType, channelVars, Commands, Replies
<1>4. QED
  BY <1>1, <1>2, <1>3 DEF Await

(* Every step of Nux, its caller, crosvm and the faults keeps the types.   *)
LEMMA TypeStep == TypeOK /\ Phases /\ [Next]_vars => TypeOK'
<1> SUFFICES ASSUME TypeOK, Phases, [Next]_vars PROVE TypeOK'
  OBVIOUS
<1> USE VmsAssumption, BoundAssumption DEF TypeOK, VmStatus, Pcs, Awaits, VmStates, ChannelType, Commands, Replies, managerVars, fileVars, vmVars, channelVars, historyVars
<1>1. ASSUME StartBegin PROVE TypeOK'
  BY <1>1 DEF StartBegin, Transition
<1>2. ASSUME StartFails PROVE TypeOK'
  BY <1>2 DEF StartFails
<1>3. ASSUME CheckOrphan PROVE TypeOK'
  BY <1>3 DEF CheckOrphan, Sigterm
<1>4. ASSUME KillOrphan PROVE TypeOK'
  BY <1>4 DEF KillOrphan, Sigkill, Phases
<1>5. ASSUME SpawnChild PROVE TypeOK'
  BY <1>5 DEF SpawnChild, Phases
<1>6. ASSUME RecordPid PROVE TypeOK'
  BY <1>6 DEF RecordPid
<1>7. ASSUME RecordFails PROVE TypeOK'
  BY <1>7 DEF RecordFails, Phases
<1>8. ASSUME StartExited PROVE TypeOK'
  BY <1>8 DEF StartExited
<1>9. ASSUME StartConnects PROVE TypeOK'
  BY <1>9 DEF StartConnects, Listening
<1>10. ASSUME StartRetries PROVE TypeOK'
  <2>1. tries' \in 0 .. MaxTries
    BY <1>10 DEF StartRetries, NextTry, Phases
  <2>2. state' \in VmStates /\ control' \in BOOLEAN /\ pc' \in Pcs
    BY <1>10 DEF StartRetries
  <2>3. UNCHANGED <<process, stream, fresh, fileVars, vmVars, channelVars, historyVars>>
    BY <1>10 DEF StartRetries
  <2>4. QED
    BY <2>1, <2>2, <2>3
<1>11. ASSUME PauseBegin PROVE TypeOK'
  BY <1>11, SendType, SendFailsType DEF PauseBegin, Transition
<1>12. ASSUME ResumeBegin PROVE TypeOK'
  BY <1>12, SendType, SendFailsType DEF ResumeBegin, Transition
<1>13. ASSUME StopBegin PROVE TypeOK'
  BY <1>13, SendType, SendFailsType DEF StopBegin, Transition, Sigterm
<1>14. ASSUME NEW ok \in BOOLEAN, PauseEnd(ok) PROVE TypeOK'
  BY <1>14, AwaitType DEF PauseEnd
<1>15. ASSUME NEW ok \in BOOLEAN, ResumeEnd(ok) PROVE TypeOK'
  BY <1>15, AwaitType DEF ResumeEnd
<1>16. ASSUME StopSignal PROVE TypeOK'
  BY <1>16, AwaitType DEF StopSignal, Sigterm
<1>17. ASSUME StopKills \/ StopEnd PROVE TypeOK'
  BY <1>17, DisconnectType DEF StopKills, StopEnd, Sigkill, CleanupAfterWait, RemoveFiles, Release
<1>18. ASSUME ForceKill \/ ForceStop PROVE TypeOK'
  BY <1>18, DisconnectType DEF ForceKill, ForceStop, Sigkill, CleanupAfterWait, RemoveFiles, Release
<1>19. ASSUME Discard PROVE TypeOK'
  BY <1>19, DisconnectType DEF Discard, RemoveFiles
<1>20. ASSUME Cancel PROVE TypeOK'
  BY <1>20 DEF Cancel
<1>21. ASSUME Relaunch PROVE TypeOK'
  <2>1. term' \in [Vms -> BOOLEAN]
    BY <1>21 DEF Relaunch, ParentDeathSignal, Live
  <2>2. pidFile' \in Vms \cup {NoVm, Garbage} /\ unrecorded' \subseteq Vms
    BY <1>21 DEF Relaunch, Phases
  <2>3. tries' \in 0 .. MaxTries
    BY <1>21 DEF Relaunch
  <2>4. stream' = NoVm /\ toVm' \in Seq(Commands) /\ fromVm' \in Seq(Replies)
    BY <1>21, DisconnectType DEF Relaunch
  <2>5. QED
    BY <1>21, <2>1, <2>2, <2>3, <2>4 DEF Relaunch
<1>22. ASSUME NEW v \in Vms, Bind(v) PROVE TypeOK'
  BY <1>22 DEF Bind
<1>23. ASSUME NEW v \in Vms, Exit(v) PROVE TypeOK'
  BY <1>23 DEF Exit
<1>24. ASSUME Serve PROVE TypeOK'
  <2>1. toVm' \in Seq(Commands) /\ fromVm' \in Seq(Replies)
    <3>1. \E r \in Replies : fromVm' = Append(fromVm, r) /\ toVm' = Tail(toVm)
      BY <1>24 DEF Serve
    <3>2. QED
      BY <1>24, <3>1, AppendType, TailType DEF Serve
  <2>2. vm' \in [Vms -> VmStatus]
    BY <1>24 DEF Serve
  <2>3. halted' \in [Vms -> BOOLEAN]
    BY <1>24 DEF Serve
  <2>4. QED
    BY <1>24, <2>1, <2>2, <2>3 DEF Serve
<1>25. CASE Inherit
  BY <1>25 DEF Inherit
<1>26. CASE HeirsEnd
  <2>1. inherited' \in BOOLEAN
    BY <1>26 DEF HeirsEnd
  <2>2. UNCHANGED <<managerVars, fileVars, vm, halted, term, channelVars, historyVars>>
    BY <1>26 DEF HeirsEnd
  <2>3. QED
    BY <2>1, <2>2
<1>27. CASE UNCHANGED vars
  BY <1>27 DEF vars
<1> HIDE DEF TypeOK, VmStatus, Pcs, Awaits, VmStates, ChannelType, Commands, Replies, managerVars, fileVars, vmVars, channelVars, historyVars
<1>28. QED
  BY <1>1, <1>2, <1>3, <1>4, <1>5, <1>6, <1>7, <1>8, <1>9, <1>10, <1>11, <1>12, <1>13, <1>14, <1>15, <1>16, <1>17, <1>18, <1>19, <1>20, <1>21, <1>22, <1>23, <1>24, <1>25, <1>26, <1>27 DEF Next, ManagerStep, Command, Crosvm

------------------------------------------------------------------------------
(* What the helpers of the commands do to the stream. *)

(* A command that is written goes to the peer the client reaches.          *)
LEMMA SendStream ==
  ASSUME NEW cmd, Send(cmd)
  PROVE  stream' = Peer /\ Peer # NoVm
BY DEF Send, Reachable

(* After a command that could not be written the stream is closed.         *)
LEMMA SendFailsStream ==
  ASSUME SendFails
  PROVE  stream' = NoVm
BY DEF SendFails, Disconnect

(* A read leaves the stream as it is or closes it.                         *)
LEMMA AwaitStream ==
  ASSUME NEW ok, Await(ok)
  PROVE  stream' \in {stream, NoVm}
BY DEF Await, ReadReply, ReadBreaks, ReadTimesOut, Disconnect, channelVars

(* What an operation holds where it waits: kept by every step.             *)
LEMMA PhasesStep == TypeOK /\ HandlesMatchState /\ Phases /\ [Next]_vars => Phases'
<1> SUFFICES ASSUME TypeOK, HandlesMatchState, Phases, [Next]_vars PROVE Phases'
  OBVIOUS
<1> USE VmsAssumption DEF TypeOK, HandlesMatchState, Phases, Requesting, managerVars, fileVars, vmVars, channelVars, historyVars
<1>1. ASSUME StartBegin PROVE Phases'
  BY <1>1 DEF StartBegin, Transition, CanTransition
<1>2. ASSUME StartFails PROVE Phases'
  BY <1>2 DEF StartFails
<1>3. ASSUME CheckOrphan PROVE Phases'
  BY <1>3 DEF CheckOrphan, Sigterm
<1>4. ASSUME KillOrphan PROVE Phases'
  BY <1>4 DEF KillOrphan, Sigkill
<1>5. ASSUME SpawnChild PROVE Phases'
  BY <1>5 DEF SpawnChild
<1>6. ASSUME RecordPid PROVE Phases'
  BY <1>6, BoundAssumption DEF RecordPid
<1>7. ASSUME RecordFails PROVE Phases'
  BY <1>7 DEF RecordFails
<1>8. ASSUME StartExited PROVE Phases'
  BY <1>8 DEF StartExited
<1>9. ASSUME StartConnects PROVE Phases'
  BY <1>9 DEF StartConnects, Listening
<1>10. ASSUME StartRetries PROVE Phases'
  BY <1>10, BoundAssumption DEF StartRetries, LastTry, NextTry
<1>11. ASSUME PauseBegin PROVE Phases'
  BY <1>11, SendStream, SendFailsStream DEF PauseBegin, Transition
<1>12. ASSUME ResumeBegin PROVE Phases'
  BY <1>12, SendStream, SendFailsStream DEF ResumeBegin, Transition
<1>13. ASSUME StopBegin PROVE Phases'
  BY <1>13, SendStream, SendFailsStream DEF StopBegin, Transition, CanTransition, Sigterm
<1>14. ASSUME NEW ok \in BOOLEAN, PauseEnd(ok) PROVE Phases'
  BY <1>14, AwaitStream DEF PauseEnd
<1>15. ASSUME NEW ok \in BOOLEAN, ResumeEnd(ok) PROVE Phases'
  BY <1>15, AwaitStream DEF ResumeEnd
<1>16. ASSUME StopSignal PROVE Phases'
  BY <1>16, AwaitStream DEF StopSignal, Sigterm
<1>17. ASSUME StopKills \/ StopEnd PROVE Phases'
  BY <1>17 DEF StopKills, StopEnd, Sigkill, Release, Disconnect
<1>18. ASSUME ForceKill \/ ForceStop PROVE Phases'
  BY <1>18 DEF ForceKill, ForceStop, Sigkill, Release, Disconnect
<1>19. ASSUME Discard PROVE Phases'
  BY <1>19 DEF Discard, Killable, Disconnect
<1>20. ASSUME Cancel PROVE Phases'
  BY <1>20 DEF Cancel, Awaits
<1>21. ASSUME Relaunch PROVE Phases'
  BY <1>21 DEF Relaunch, Disconnect
<1>22. ASSUME NEW v \in Vms, Bind(v) PROVE Phases'
  BY <1>22 DEF Bind
<1>23. ASSUME NEW v \in Vms, Exit(v) PROVE Phases'
  BY <1>23 DEF Exit
<1>24. ASSUME Serve PROVE Phases'
  BY <1>24 DEF Serve
<1>25. CASE Inherit \/ HeirsEnd \/ UNCHANGED vars
  BY <1>25 DEF Inherit, HeirsEnd, vars
<1> HIDE DEF TypeOK, HandlesMatchState, Phases, Requesting, managerVars, fileVars, vmVars, channelVars, historyVars
<1>26. QED
  BY <1>1, <1>2, <1>3, <1>4, <1>5, <1>6, <1>7, <1>8, <1>9, <1>10, <1>11, <1>12, <1>13, <1>14, <1>15, <1>16, <1>17, <1>18, <1>19, <1>20, <1>21, <1>22, <1>23, <1>24, <1>25 DEF Next, ManagerStep, Command, Crosvm

(* The handles follow the state through every step.                        *)
LEMMA HandlesStep == TypeOK /\ HandlesMatchState /\ Phases /\ [Next]_vars => HandlesMatchState'
<1> SUFFICES ASSUME TypeOK, HandlesMatchState, Phases, [Next]_vars PROVE HandlesMatchState'
  OBVIOUS
<1> USE VmsAssumption DEF TypeOK, HandlesMatchState, Phases, Live, VmStatus, managerVars, fileVars, vmVars, channelVars, historyVars
<1>1. ASSUME StartBegin PROVE HandlesMatchState'
  BY <1>1 DEF StartBegin, Transition, CanTransition
<1>2. ASSUME StartFails PROVE HandlesMatchState'
  BY <1>2 DEF StartFails
<1>3. ASSUME CheckOrphan PROVE HandlesMatchState'
  BY <1>3 DEF CheckOrphan, Sigterm
<1>4. ASSUME KillOrphan PROVE HandlesMatchState'
  BY <1>4 DEF KillOrphan, Sigkill
<1>5. ASSUME SpawnChild PROVE HandlesMatchState'
  BY <1>5 DEF SpawnChild
<1>6. ASSUME RecordPid PROVE HandlesMatchState'
  BY <1>6 DEF RecordPid
<1>7. ASSUME RecordFails PROVE HandlesMatchState'
  BY <1>7 DEF RecordFails
<1>8. ASSUME StartExited PROVE HandlesMatchState'
  BY <1>8 DEF StartExited, Waited, WaitFails
<1>9. ASSUME StartConnects PROVE HandlesMatchState'
  BY <1>9 DEF StartConnects, Listening
<1>10. ASSUME StartRetries PROVE HandlesMatchState'
  BY <1>10 DEF StartRetries, LastTry, NextTry
<1>11. ASSUME PauseBegin PROVE HandlesMatchState'
  BY <1>11 DEF PauseBegin, Transition
<1>12. ASSUME ResumeBegin PROVE HandlesMatchState'
  BY <1>12 DEF ResumeBegin, Transition
<1>13. ASSUME StopBegin PROVE HandlesMatchState'
  BY <1>13 DEF StopBegin, Transition, CanTransition
<1>14. ASSUME NEW ok \in BOOLEAN, PauseEnd(ok) PROVE HandlesMatchState'
  BY <1>14 DEF PauseEnd
<1>15. ASSUME NEW ok \in BOOLEAN, ResumeEnd(ok) PROVE HandlesMatchState'
  BY <1>15 DEF ResumeEnd
<1>16. ASSUME StopSignal PROVE HandlesMatchState'
  BY <1>16 DEF StopSignal
<1>17. ASSUME StopKills \/ StopEnd PROVE HandlesMatchState'
  BY <1>17 DEF StopKills, StopEnd, Release
<1>18. ASSUME ForceKill \/ ForceStop PROVE HandlesMatchState'
  BY <1>18 DEF ForceKill, ForceStop, Release, Killable, Sigkill
<1>19. ASSUME Discard PROVE HandlesMatchState'
  BY <1>19 DEF Discard, Killable
<1>20. ASSUME Cancel PROVE HandlesMatchState'
  BY <1>20 DEF Cancel, Awaits
<1>21. ASSUME Relaunch PROVE HandlesMatchState'
  BY <1>21 DEF Relaunch
<1>22. ASSUME NEW v \in Vms, Bind(v) PROVE HandlesMatchState'
  BY <1>22 DEF Bind
<1>23. ASSUME NEW v \in Vms, Exit(v) PROVE HandlesMatchState'
  BY <1>23 DEF Exit
<1>24. ASSUME Serve PROVE HandlesMatchState'
  BY <1>24 DEF Serve
<1>25. CASE Inherit \/ HeirsEnd \/ UNCHANGED vars
  BY <1>25 DEF Inherit, HeirsEnd, vars
<1> HIDE DEF TypeOK, HandlesMatchState, Phases, Live, VmStatus, managerVars, fileVars, vmVars, channelVars, historyVars
<1>26. QED
  BY <1>1, <1>2, <1>3, <1>4, <1>5, <1>6, <1>7, <1>8, <1>9, <1>10, <1>11, <1>12, <1>13, <1>14, <1>15, <1>16, <1>17, <1>18, <1>19, <1>20, <1>21, <1>22, <1>23, <1>24, <1>25 DEF Next, ManagerStep, Command, Crosvm

------------------------------------------------------------------------------
(* The files and the processes. *)

(* The PID file follows the handle through every step.                     *)
LEMMA FilesStep ==
  TypeOK /\ Phases /\ Files /\ [Next]_vars => Files'
<1> SUFFICES ASSUME TypeOK, Phases, Files, [Next]_vars PROVE Files'
  OBVIOUS
<1> USE VmsAssumption DEF TypeOK, Phases, Files, managerVars, fileVars, vmVars, channelVars, historyVars
<1>1. ASSUME CheckOrphan PROVE Files'
  BY <1>1 DEF CheckOrphan, OrphanAlive
<1>2. ASSUME KillOrphan PROVE Files'
  BY <1>2 DEF KillOrphan
<1>3. ASSUME RecordPid PROVE Files'
  BY <1>3 DEF RecordPid
<1>4. ASSUME RecordFails PROVE Files'
  BY <1>4 DEF RecordFails
<1>5. ASSUME StopKills \/ StopEnd PROVE Files'
  BY <1>5 DEF StopKills, StopEnd, Release
<1>6. ASSUME ForceKill \/ ForceStop PROVE Files'
  BY <1>6 DEF ForceKill, ForceStop, Release
<1>7. ASSUME Discard PROVE Files'
  BY <1>7 DEF Discard
<1>8. ASSUME Relaunch PROVE Files'
  BY <1>8 DEF Relaunch
<1>9. ASSUME \/ StartBegin
              \/ StartFails
              \/ SpawnChild
              \/ StartExited
              \/ StartConnects
              \/ StartRetries
              \/ PauseBegin
              \/ ResumeBegin
              \/ StopBegin
              \/ StopSignal
              \/ Cancel
              \/ Serve
              \/ Inherit \/ HeirsEnd
              \/ UNCHANGED vars
      PROVE  Files'
  BY <1>9 DEF vars, Inherit, HeirsEnd, StartBegin, StartFails, SpawnChild, StartExited, StartConnects, StartRetries, PauseBegin, ResumeBegin, StopBegin, StopSignal, Cancel, Serve
<1>10. ASSUME NEW ok \in BOOLEAN, PauseEnd(ok) PROVE Files'
  BY <1>10 DEF PauseEnd
<1>11. ASSUME NEW ok \in BOOLEAN, ResumeEnd(ok) PROVE Files'
  BY <1>11 DEF ResumeEnd
<1>12. ASSUME NEW v \in Vms, Bind(v) PROVE Files'
  BY <1>12 DEF Bind
<1>13. ASSUME NEW v \in Vms, Exit(v) PROVE Files'
  BY <1>13 DEF Exit
<1> HIDE DEF TypeOK, Phases, Files, managerVars, fileVars, vmVars, channelVars, historyVars
<1>14. QED
  BY <1>1, <1>2, <1>3, <1>4, <1>5, <1>6, <1>7, <1>8, <1>9, <1>10, <1>11, <1>12, <1>13 DEF Next, ManagerStep, Command, Crosvm

(* No step of spawn, cleanup_orphan, stop or force_kill loses a crosvm.    *)
LEMMA NoLostVmStep ==
  TypeOK /\ Phases /\ Files /\ HandlesMatchState /\ NoLostVm /\ [Next]_vars => NoLostVm'
<1> SUFFICES ASSUME TypeOK, Phases, Files, HandlesMatchState, NoLostVm, [Next]_vars PROVE NoLostVm'
  OBVIOUS
<1> USE VmsAssumption DEF TypeOK, Live, VmStatus, Phases, Files, HandlesMatchState, NoLostVm, managerVars, fileVars, vmVars, channelVars, historyVars
<1>1. ASSUME CheckOrphan PROVE NoLostVm'
  BY <1>1 DEF CheckOrphan, OrphanAlive
<1>2. ASSUME KillOrphan PROVE NoLostVm'
  BY <1>2 DEF KillOrphan, Sigkill
<1>3. ASSUME SpawnChild PROVE NoLostVm'
  BY <1>3 DEF SpawnChild
<1>4. ASSUME RecordPid PROVE NoLostVm'
  BY <1>4 DEF RecordPid
<1>5. ASSUME RecordFails PROVE NoLostVm'
  BY <1>5 DEF RecordFails
<1>6. ASSUME StopKills \/ StopEnd PROVE NoLostVm'
  BY <1>6 DEF StopKills, StopEnd, Sigkill, Release, CleanupAfterWait, Waited, WaitFails, RemoveFiles
<1>7. ASSUME ForceKill \/ ForceStop PROVE NoLostVm'
  BY <1>7 DEF ForceKill, ForceStop, Sigkill, Release, CleanupAfterWait, RemoveFiles
<1>8. ASSUME Discard PROVE NoLostVm'
  BY <1>8 DEF Discard, Killable, VmStates, RemoveFiles
<1>9. ASSUME Relaunch PROVE NoLostVm'
  BY <1>9 DEF Relaunch
<1>10. ASSUME NEW v \in Vms, Bind(v) PROVE NoLostVm'
  BY <1>10 DEF Bind
<1>11. ASSUME NEW v \in Vms, Exit(v) PROVE NoLostVm'
  BY <1>11 DEF Exit
<1>12. ASSUME Serve PROVE NoLostVm'
  BY <1>12 DEF Serve
<1>13. ASSUME \/ StartBegin
              \/ StartFails
              \/ StartExited
              \/ StartConnects
              \/ StartRetries
              \/ PauseBegin
              \/ ResumeBegin
              \/ StopBegin
              \/ \E ok \in BOOLEAN : PauseEnd(ok) \/ ResumeEnd(ok)
              \/ StopSignal
              \/ Cancel
              \/ Inherit \/ HeirsEnd
              \/ UNCHANGED vars
      PROVE  NoLostVm'
  BY <1>13 DEF vars, Inherit, HeirsEnd, StartBegin, StartFails, StartExited, StartConnects, StartRetries, PauseBegin, ResumeBegin, StopBegin, PauseEnd, ResumeEnd, StopSignal, Cancel
<1> HIDE DEF TypeOK, Live, VmStatus, Phases, Files, HandlesMatchState, NoLostVm, managerVars, fileVars, vmVars, channelVars, historyVars
<1>14. QED
  BY <1>1, <1>2, <1>3, <1>4, <1>5, <1>6, <1>7, <1>8, <1>9, <1>10, <1>11, <1>12, <1>13 DEF Next, ManagerStep, Command, Crosvm

(* No step of them leaves a second one running unasked to end.             *)
LEMMA SingleVmStep ==
  TypeOK /\ Phases /\ Files /\ HandlesMatchState /\ SingleVm /\ [Next]_vars => SingleVm'
<1> SUFFICES ASSUME TypeOK, Phases, Files, HandlesMatchState, SingleVm, [Next]_vars PROVE SingleVm'
  OBVIOUS
<1> USE VmsAssumption DEF TypeOK, Live, VmStatus, Phases, Files, HandlesMatchState, SingleVm, managerVars, fileVars, vmVars, channelVars, historyVars
<1>1. ASSUME CheckOrphan PROVE SingleVm'
  BY <1>1 DEF CheckOrphan, Sigterm
<1>2. ASSUME KillOrphan PROVE SingleVm'
  BY <1>2 DEF KillOrphan, Sigkill
<1>3. ASSUME SpawnChild PROVE SingleVm'
  BY <1>3 DEF SpawnChild
<1>4. ASSUME RecordPid PROVE SingleVm'
  BY <1>4 DEF RecordPid
<1>5. ASSUME RecordFails PROVE SingleVm'
  BY <1>5 DEF RecordFails
<1>6. ASSUME StopBegin PROVE SingleVm'
  BY <1>6 DEF StopBegin, Sigterm
<1>7. ASSUME StopSignal PROVE SingleVm'
  BY <1>7 DEF StopSignal, Sigterm
<1>8. ASSUME StopKills \/ StopEnd PROVE SingleVm'
  BY <1>8 DEF StopKills, StopEnd, Sigkill, Release, CleanupAfterWait, Waited, WaitFails
<1>9. ASSUME ForceKill \/ ForceStop PROVE SingleVm'
  BY <1>9 DEF ForceKill, ForceStop, Sigkill, Release
<1>10. ASSUME Discard PROVE SingleVm'
  BY <1>10 DEF Discard, Killable, VmStates
<1>11. ASSUME Relaunch PROVE SingleVm'
  BY <1>11 DEF Relaunch, ParentDeathSignal, Live
<1>12. ASSUME NEW v \in Vms, Bind(v) PROVE SingleVm'
  BY <1>12 DEF Bind
<1>13. ASSUME NEW v \in Vms, Exit(v) PROVE SingleVm'
  BY <1>13 DEF Exit
<1>14. ASSUME Serve PROVE SingleVm'
  BY <1>14 DEF Serve
<1>15. ASSUME \/ StartBegin
              \/ StartFails
              \/ StartExited
              \/ StartConnects
              \/ StartRetries
              \/ PauseBegin
              \/ ResumeBegin
              \/ \E ok \in BOOLEAN : PauseEnd(ok) \/ ResumeEnd(ok)
              \/ Cancel
              \/ Inherit \/ HeirsEnd
              \/ UNCHANGED vars
      PROVE  SingleVm'
  BY <1>15 DEF vars, Inherit, HeirsEnd, StartBegin, StartFails, StartExited, StartConnects, StartRetries, PauseBegin, ResumeBegin, PauseEnd, ResumeEnd, Cancel
<1> HIDE DEF TypeOK, Live, VmStatus, Phases, Files, HandlesMatchState, SingleVm, managerVars, fileVars, vmVars, channelVars, historyVars
<1>16. QED
  BY <1>1, <1>2, <1>3, <1>4, <1>5, <1>6, <1>7, <1>8, <1>9, <1>10, <1>11, <1>12, <1>13, <1>14, <1>15 DEF Next, ManagerStep, Command, Crosvm

(* No step connects the control client to a stranger's crosvm.             *)
LEMMA ControlsOwnVmStep ==
  TypeOK /\ Phases /\ Files /\ HandlesMatchState /\ NoLostVm /\ ControlsOwnVm /\ [Next]_vars => ControlsOwnVm'
<1> SUFFICES ASSUME TypeOK, Phases, Files, HandlesMatchState, NoLostVm, ControlsOwnVm, [Next]_vars PROVE ControlsOwnVm'
  OBVIOUS
<1> USE VmsAssumption DEF TypeOK, Phases, Files, HandlesMatchState, NoLostVm, ControlsOwnVm, managerVars, fileVars, vmVars, channelVars, historyVars
<1>1. ASSUME RecordPid PROVE ControlsOwnVm'
  BY <1>1 DEF RecordPid
<1>2. ASSUME RecordFails PROVE ControlsOwnVm'
  BY <1>2 DEF RecordFails
<1>3. ASSUME StartConnects PROVE ControlsOwnVm'
  BY <1>3 DEF StartConnects, Listening, Live
<1>4. ASSUME PauseBegin PROVE ControlsOwnVm'
  BY <1>4, SendStream, SendFailsStream DEF PauseBegin, Peer, Listening, Live
<1>5. ASSUME ResumeBegin PROVE ControlsOwnVm'
  BY <1>5, SendStream, SendFailsStream DEF ResumeBegin, Peer, Listening, Live
<1>6. ASSUME StopBegin PROVE ControlsOwnVm'
  BY <1>6, SendStream, SendFailsStream DEF StopBegin, Peer, Listening, Live, Transition, CanTransition
<1>7. ASSUME NEW ok \in BOOLEAN, PauseEnd(ok) PROVE ControlsOwnVm'
  BY <1>7, AwaitStream DEF PauseEnd
<1>8. ASSUME NEW ok \in BOOLEAN, ResumeEnd(ok) PROVE ControlsOwnVm'
  BY <1>8, AwaitStream DEF ResumeEnd
<1>9. ASSUME StopSignal PROVE ControlsOwnVm'
  BY <1>9, AwaitStream DEF StopSignal
<1>10. ASSUME StopKills \/ StopEnd PROVE ControlsOwnVm'
  BY <1>10 DEF StopKills, StopEnd, Release, Disconnect
<1>11. ASSUME ForceKill \/ ForceStop PROVE ControlsOwnVm'
  BY <1>11 DEF ForceKill, ForceStop, Release, Disconnect
<1>12. ASSUME Discard PROVE ControlsOwnVm'
  BY <1>12 DEF Discard, Disconnect
<1>13. ASSUME Relaunch PROVE ControlsOwnVm'
  BY <1>13 DEF Relaunch, Disconnect
<1>14. ASSUME \/ StartBegin
              \/ StartFails
              \/ CheckOrphan
              \/ KillOrphan
              \/ SpawnChild
              \/ StartExited
              \/ StartRetries
              \/ Cancel
              \/ \E v \in Vms : Bind(v)
              \/ \E v \in Vms : Exit(v)
              \/ Serve
              \/ Inherit \/ HeirsEnd
              \/ UNCHANGED vars
      PROVE  ControlsOwnVm'
  BY <1>14 DEF vars, Inherit, HeirsEnd, StartBegin, StartFails, CheckOrphan, KillOrphan, SpawnChild, StartExited, StartRetries, Cancel, Bind, Exit, Serve
<1> HIDE DEF TypeOK, Phases, Files, HandlesMatchState, NoLostVm, ControlsOwnVm, managerVars, fileVars, vmVars, channelVars, historyVars
<1>15. QED
  BY <1>1, <1>2, <1>3, <1>4, <1>5, <1>6, <1>7, <1>8, <1>9, <1>10, <1>11, <1>12, <1>13, <1>14 DEF Next, ManagerStep, Command, Crosvm

------------------------------------------------------------------------------
(* The commands and the guest. *)

(* Appending to an empty socket.                                           *)
LEMMA AppendToNone == ASSUME NEW e PROVE Append(<<>>, e) = <<e>>
OBVIOUS

(* A sequence of one element.                                              *)
LEMMA One ==
  ASSUME NEW e
  PROVE  /\ <<e>> # <<>> /\ Head(<<e>>) = e /\ Tail(<<e>>) = <<>>
         /\ Len(<<e>>) = 1 /\ <<e>>[1] = e
OBVIOUS

(* With one reply in the socket the read returns it. *)
LEMMA ReadOne ==
  ASSUME NEW ok \in BOOLEAN, NEW r, Replied(r), ReadReply(ok)
  PROVE  ok = (r # "error") /\ toVm' = <<>> /\ fromVm' = <<>> /\ stream' = stream
<1>1. fromVm = <<r>> /\ Len(fromVm) = 1 /\ fromVm[1] = r /\ toVm = <<>>
  BY One DEF Replied
<1>2. ok = \A i \in {1} : fromVm[i] # "error"
  <2>1. 1 .. Len(fromVm) = {1}
    BY <1>1
  <2>2. QED
    BY <2>1, Zenon DEF ReadReply
<1>3. QED
  BY <1>1, <1>2, Zenon DEF ReadReply

(* Serving the one command in the socket. *)
LEMMA ServeOne ==
  ASSUME TypeOK, NEW cmd \in Commands, Waiting(cmd), Serve
  PROVE  \/ Replied("error")' /\ halted' = halted
         \/ /\ Replied("ok")'
            /\ cmd = "pause" => halted'[stream] = TRUE
            /\ cmd = "resume" => halted'[stream] = FALSE
BY One, AppendToNone, Zenon DEF Waiting, Replied, Serve, TypeOK, Commands

(* A crosvm that start has not finished with is not halted.                *)
LEMMA NotHaltedYetStep ==
  TypeOK /\ HandlesMatchState /\ Phases /\ NotHaltedYet /\ [Next]_vars => NotHaltedYet'
<1> SUFFICES ASSUME TypeOK, HandlesMatchState, Phases, NotHaltedYet, [Next]_vars PROVE NotHaltedYet'
  OBVIOUS
<1> USE VmsAssumption DEF TypeOK, Live, VmStatus, HandlesMatchState, Phases, NotHaltedYet, managerVars, fileVars, vmVars, channelVars, historyVars
<1>1. ASSUME KillOrphan PROVE NotHaltedYet'
  BY <1>1 DEF KillOrphan, Sigkill
<1>2. ASSUME SpawnChild PROVE NotHaltedYet'
  BY <1>2 DEF SpawnChild
<1>3. ASSUME RecordPid PROVE NotHaltedYet'
  BY <1>3 DEF RecordPid
<1>4. ASSUME StopKills \/ StopEnd PROVE NotHaltedYet'
  BY <1>4 DEF StopKills, StopEnd, Sigkill, Release
<1>5. ASSUME ForceKill \/ ForceStop PROVE NotHaltedYet'
  BY <1>5 DEF ForceKill, ForceStop, Sigkill, Release
<1>6. ASSUME Relaunch PROVE NotHaltedYet'
  BY <1>6 DEF Relaunch
<1>7. ASSUME NEW v \in Vms, Bind(v) PROVE NotHaltedYet'
  BY <1>7 DEF Bind
<1>8. ASSUME NEW v \in Vms, Exit(v) PROVE NotHaltedYet'
  BY <1>8 DEF Exit
<1>9. ASSUME Serve PROVE NotHaltedYet'
  BY <1>9 DEF Serve
<1>10. ASSUME \/ StartBegin
              \/ StartFails
              \/ CheckOrphan
              \/ RecordFails
              \/ StartExited
              \/ StartConnects
              \/ StartRetries
              \/ PauseBegin
              \/ ResumeBegin
              \/ StopBegin
              \/ \E ok \in BOOLEAN : PauseEnd(ok) \/ ResumeEnd(ok)
              \/ StopSignal
              \/ Discard
              \/ Cancel
              \/ Inherit \/ HeirsEnd
              \/ UNCHANGED vars
      PROVE  NotHaltedYet'
  BY <1>10 DEF vars, Inherit, HeirsEnd, StartBegin, StartFails, CheckOrphan, RecordFails, StartExited, StartConnects, StartRetries, PauseBegin, ResumeBegin, StopBegin, PauseEnd, ResumeEnd, StopSignal, Discard, Cancel
<1> HIDE DEF TypeOK, Live, VmStatus, HandlesMatchState, Phases, NotHaltedYet, managerVars, fileVars, vmVars, channelVars, historyVars
<1>11. QED
  BY <1>1, <1>2, <1>3, <1>4, <1>5, <1>6, <1>7, <1>8, <1>9, <1>10 DEF Next, ManagerStep, Command, Crosvm


(* What each helper does to a socket that holds no command, or one. *)
LEMMA SendOne ==
  ASSUME NEW cmd, Send(cmd), toVm = <<>>, fromVm = <<>>
  PROVE  Waiting(cmd)' /\ unanswered' = unanswered
BY AppendToNone DEF Send, Waiting

(* A command that cannot be sent leaves the socket empty.                  *)
LEMMA SendFailsNone ==
  ASSUME SendFails
  PROVE  /\ toVm' = <<>> /\ fromVm' = <<>>
         /\ ~unanswered' => ~unanswered /\ stream = NoVm
BY DEF SendFails, Disconnect

(* A read that returned the command's own reply returns its verdict.       *)
LEMMA AwaitOne ==
  ASSUME TypeOK, NEW ok \in BOOLEAN, Await(ok), ~unanswered',
         NEW cmd, Waiting(cmd) \/ Replied("ok") \/ Replied("error")
  PROVE  /\ ~unanswered /\ toVm' = <<>> /\ fromVm' = <<>> /\ stream' = stream
         /\ \/ Replied("ok") /\ ok
            \/ Replied("error") /\ ~ok
<1>1. ReadReply(ok)
  BY DEF Await, ReadBreaks, ReadTimesOut
<1>2. unanswered' = unanswered
  BY <1>1 DEF ReadReply
<1>3. ~Waiting(cmd)
  BY <1>1 DEF ReadReply, Waiting
<1>4. CASE Replied("ok")
  BY <1>1, <1>2, <1>4, ReadOne
<1>5. CASE Replied("error")
  BY <1>1, <1>2, <1>5, ReadOne
<1>6. QED
  BY <1>3, <1>4, <1>5

(* As long as every command was answered, the socket holds one at most.    *)
LEMMA OneCommandStep ==
  /\ TypeOK /\ HandlesMatchState /\ Phases
  /\ ~unanswered => OneCommand
  /\ [Next]_vars
  => (~unanswered' => OneCommand')
<1> SUFFICES ASSUME TypeOK, HandlesMatchState, Phases, [Next]_vars,
                    ~unanswered => OneCommand, ~unanswered'
             PROVE  OneCommand'
  OBVIOUS
<1>1. ASSUME StartConnects PROVE OneCommand'
  BY <1>1 DEF StartConnects, channelVars, historyVars, OneCommand, Requesting
<1>2. ASSUME PauseBegin PROVE OneCommand'
  <2>1. CASE Send("pause") /\ pc' = "pausing"
    <3>1. toVm = <<>> /\ fromVm = <<>>
      BY <1>2, <2>1 DEF PauseBegin, Send, OneCommand, Requesting
    <3>2. QED
      BY <2>1, <3>1, SendOne DEF OneCommand, Requesting
  <2>2. CASE SendFails /\ pc' = pc
    BY <1>2, <2>2, SendFailsNone DEF PauseBegin, OneCommand, Requesting
  <2>3. QED
    BY <1>2, <2>1, <2>2 DEF PauseBegin
<1>3. ASSUME ResumeBegin PROVE OneCommand'
  <2>1. CASE Send("resume") /\ pc' = "resuming"
    <3>1. toVm = <<>> /\ fromVm = <<>>
      BY <1>3, <2>1 DEF ResumeBegin, Send, OneCommand, Requesting
    <3>2. QED
      BY <2>1, <3>1, SendOne DEF OneCommand, Requesting
  <2>2. CASE SendFails /\ pc' = pc
    BY <1>3, <2>2, SendFailsNone DEF ResumeBegin, OneCommand, Requesting
  <2>3. QED
    BY <1>3, <2>1, <2>2 DEF ResumeBegin
<1>4. ASSUME StopBegin PROVE OneCommand'
  <2>1. CASE Send("stop") /\ pc' = "stopping"
    <3>1. toVm = <<>> /\ fromVm = <<>>
      BY <1>4, <2>1 DEF StopBegin, Send, OneCommand, Requesting
    <3>2. QED
      BY <2>1, <3>1, SendOne DEF OneCommand, Requesting
  <2>2. CASE SendFails /\ pc' = "terminating"
    BY <1>4, <2>2, SendFailsNone DEF StopBegin, OneCommand, Requesting
  <2>3. QED
    BY <1>4, <2>1, <2>2 DEF StopBegin
<1>5. ASSUME NEW ok \in BOOLEAN, PauseEnd(ok) PROVE OneCommand'
  <2>1. ~unanswered
    BY <1>5 DEF PauseEnd, Await, ReadReply, ReadBreaks, ReadTimesOut
  <2>2. toVm' = <<>> /\ fromVm' = <<>>
    BY <1>5, <2>1, AwaitOne DEF PauseEnd, OneCommand
  <2>3. QED
    BY <1>5, <2>2 DEF PauseEnd, OneCommand
<1>6. ASSUME NEW ok \in BOOLEAN, ResumeEnd(ok) PROVE OneCommand'
  <2>1. ~unanswered
    BY <1>6 DEF ResumeEnd, Await, ReadReply, ReadBreaks, ReadTimesOut
  <2>2. toVm' = <<>> /\ fromVm' = <<>>
    BY <1>6, <2>1, AwaitOne DEF ResumeEnd, OneCommand
  <2>3. QED
    BY <1>6, <2>2 DEF ResumeEnd, OneCommand
<1>7. ASSUME StopSignal PROVE OneCommand'
  <2>1. PICK ok \in BOOLEAN : Await(ok)
    BY <1>7 DEF StopSignal
  <2>2. ~unanswered
    BY <2>1 DEF Await, ReadReply, ReadBreaks, ReadTimesOut
  <2>3. toVm' = <<>> /\ fromVm' = <<>>
    BY <1>7, <2>1, <2>2, AwaitOne DEF StopSignal, OneCommand
  <2>4. QED
    BY <1>7, <2>3 DEF StopSignal, OneCommand
<1>8. ASSUME StopKills \/ StopEnd \/ ForceKill \/ ForceStop PROVE OneCommand'
  BY <1>8 DEF StopKills, StopEnd, ForceKill, ForceStop, Release, Disconnect, OneCommand, Requesting, managerVars, channelVars, historyVars
<1>9. ASSUME Discard PROVE OneCommand'
  BY <1>9 DEF Discard, Disconnect, OneCommand
<1>10. ASSUME Relaunch PROVE OneCommand'
  BY <1>10 DEF Relaunch, Disconnect, OneCommand
<1>11. ASSUME Cancel PROVE OneCommand'
  BY <1>11 DEF Cancel, OneCommand, Requesting, channelVars
<1>12. ASSUME NEW v \in Vms, Bind(v) \/ Exit(v) PROVE OneCommand'
  BY <1>12 DEF Bind, Exit, OneCommand, Requesting, managerVars, channelVars, historyVars, Waiting, Replied
<1>13. ASSUME Serve PROVE OneCommand'
  <2>1. pc' = pc /\ OneCommand /\ toVm # <<>>
    BY <1>13 DEF Serve, managerVars, historyVars
  <2>2. \/ pc = "pausing" /\ Waiting("pause")
        \/ pc = "resuming" /\ Waiting("resume")
        \/ pc = "stopping" /\ Waiting("stop")
    BY <2>1 DEF OneCommand, Requesting, Replied
  <2>3. Replied("error")' \/ Replied("ok")'
    BY <1>13, <2>2, ServeOne DEF Commands
  <2>4. QED
    BY <2>1, <2>2, <2>3 DEF OneCommand, Requesting
<1>14. ASSUME \/ StartBegin
              \/ StartFails
              \/ CheckOrphan
              \/ KillOrphan
              \/ SpawnChild
              \/ RecordPid
              \/ RecordFails
              \/ StartExited
              \/ StartRetries
       PROVE  OneCommand'
  BY <1>14 DEF StartBegin, StartFails, CheckOrphan, KillOrphan, SpawnChild, RecordPid, RecordFails, StartExited, StartRetries, channelVars, historyVars, OneCommand, Requesting
<1>15. CASE Inherit \/ HeirsEnd \/ UNCHANGED vars
  BY <1>15 DEF Inherit, HeirsEnd, vars, managerVars, channelVars, historyVars, OneCommand, Waiting, Replied, Requesting
<1>16. QED
  BY <1>1, <1>2, <1>3, <1>4, <1>5, <1>6, <1>7, <1>8, <1>9, <1>10, <1>11, <1>12, <1>13, <1>14, <1>15 DEF Next, ManagerStep, Command, Crosvm

(* A socket holds one reply or another, or a command and none. *)
LEMMA TheReply ==
  /\ Replied("ok") => ~Replied("error") /\ fromVm # <<>>
  /\ Replied("error") => ~Replied("ok") /\ fromVm # <<>>
BY One DEF Replied

(* And the reported state is what the guest is in or about to be in.       *)
LEMMA AgreedStep ==
  /\ TypeOK /\ HandlesMatchState /\ Phases /\ NotHaltedYet
  /\ ~unanswered => OneCommand
  /\ ~unanswered /\ stream \in {NoVm, process} => Agreed
  /\ [Next]_vars
  => (~unanswered' /\ stream' \in {NoVm, process'} => Agreed')
<1> SUFFICES ASSUME TypeOK, HandlesMatchState, Phases, NotHaltedYet, [Next]_vars,
                    ~unanswered => OneCommand,
                    ~unanswered /\ stream \in {NoVm, process} => Agreed,
                    ~unanswered', stream' \in {NoVm, process'}
             PROVE  Agreed'
  OBVIOUS
<1>1. ASSUME StartConnects \/ StartRetries PROVE Agreed'
  <2>1. halted[process] = FALSE
    BY <1>1 DEF StartConnects, StartRetries, NotHaltedYet, Phases, TypeOK
  <2>2. UNCHANGED <<process, halted>>
    BY <1>1 DEF StartConnects, StartRetries, vmVars
  <2>3. \/ pc' = "rest" /\ state' = "Running"
        \/ pc' = "connect"
    BY <1>1 DEF StartConnects, StartRetries
  <2>4. QED
    BY <2>1, <2>2, <2>3 DEF Agreed
<1>2. ASSUME PauseBegin PROVE Agreed'
  <2>1. CASE Send("pause") /\ pc' = "pausing"
    <3>1. toVm = <<>> /\ fromVm = <<>> /\ ~unanswered
      BY <1>2, <2>1 DEF PauseBegin, Send, OneCommand, Requesting
    <3>2. Agreed
      BY <1>2, <2>1, <3>1, SendStream DEF PauseBegin, Peer
    <3>3. halted'[process'] = (state = "Paused") /\ Waiting("pause")'
      BY <1>2, <2>1, <3>1, <3>2, SendOne DEF PauseBegin, Agreed, vmVars
    <3>4. QED
      BY <1>2, <2>1, <3>3 DEF PauseBegin, Agreed, Exchange
  <2>2. CASE SendFails /\ UNCHANGED <<state, pc>>
    BY <1>2, <2>2, SendFailsNone DEF PauseBegin, Agreed, vmVars
  <2>3. QED
    BY <1>2, <2>1, <2>2 DEF PauseBegin
<1>3. ASSUME ResumeBegin PROVE Agreed'
  <2>1. CASE Send("resume") /\ pc' = "resuming"
    <3>1. toVm = <<>> /\ fromVm = <<>> /\ ~unanswered
      BY <1>3, <2>1 DEF ResumeBegin, Send, OneCommand, Requesting
    <3>2. Agreed
      BY <1>3, <2>1, <3>1, SendStream DEF ResumeBegin, Peer
    <3>3. halted'[process'] = (state = "Paused") /\ Waiting("resume")'
      BY <1>3, <2>1, <3>1, <3>2, SendOne DEF ResumeBegin, Agreed, vmVars
    <3>4. QED
      BY <1>3, <2>1, <3>3 DEF ResumeBegin, Agreed, Exchange
  <2>2. CASE SendFails /\ UNCHANGED <<state, pc>>
    BY <1>3, <2>2, SendFailsNone DEF ResumeBegin, Agreed, vmVars
  <2>3. QED
    BY <1>3, <2>1, <2>2 DEF ResumeBegin
<1>4. ASSUME NEW ok \in BOOLEAN, PauseEnd(ok) PROVE Agreed'
  <2>1. ~unanswered /\ pc = "pausing"
    <3>1. Await(ok) /\ pc = "pausing"
      BY <1>4 DEF PauseEnd
    <3>2. ~unanswered
      BY <3>1 DEF Await, ReadReply, ReadBreaks, ReadTimesOut
    <3>3. QED
      BY <3>1, <3>2
  <2>2. /\ stream' = stream
        /\ \/ Replied("ok") /\ ok
           \/ Replied("error") /\ ~ok
    BY <1>4, <2>1, AwaitOne DEF PauseEnd, OneCommand
  <2>3. Exchange("pause", FALSE, TRUE)
    BY <1>4, <2>1, <2>2 DEF PauseEnd, Agreed
  <2>4. halted[process] = (IF ok THEN TRUE ELSE FALSE)
    BY <2>2, <2>3, TheReply DEF Exchange, Waiting
  <2>5. QED
    BY <1>4, <2>4 DEF PauseEnd, Agreed, Phases, vmVars
<1>5. ASSUME NEW ok \in BOOLEAN, ResumeEnd(ok) PROVE Agreed'
  <2>1. ~unanswered /\ pc = "resuming"
    <3>1. Await(ok) /\ pc = "resuming"
      BY <1>5 DEF ResumeEnd
    <3>2. ~unanswered
      BY <3>1 DEF Await, ReadReply, ReadBreaks, ReadTimesOut
    <3>3. QED
      BY <3>1, <3>2
  <2>2. /\ stream' = stream
        /\ \/ Replied("ok") /\ ok
           \/ Replied("error") /\ ~ok
    BY <1>5, <2>1, AwaitOne DEF ResumeEnd, OneCommand
  <2>3. Exchange("resume", TRUE, FALSE)
    BY <1>5, <2>1, <2>2 DEF ResumeEnd, Agreed
  <2>4. halted[process] = (IF ok THEN FALSE ELSE TRUE)
    BY <2>2, <2>3, TheReply DEF Exchange, Waiting
  <2>5. QED
    BY <1>5, <2>4 DEF ResumeEnd, Agreed, Phases, vmVars
<1>6. ASSUME StopBegin \/ StopSignal PROVE Agreed'
  BY <1>6 DEF StopBegin, StopSignal, Agreed
<1>7. ASSUME StopKills \/ StopEnd \/ ForceKill \/ ForceStop PROVE Agreed'
  BY <1>7 DEF StopKills, StopEnd, ForceKill, ForceStop, Release, Agreed, managerVars, channelVars, historyVars
<1>8. ASSUME Discard PROVE Agreed'
  BY <1>8 DEF Discard, Killable, Agreed
<1>9. ASSUME Relaunch PROVE Agreed'
  BY <1>9 DEF Relaunch, Agreed
<1>10. ASSUME Cancel PROVE Agreed'
  BY <1>10 DEF Cancel, Awaits, Phases, Requesting, Agreed, vmVars
<1>11. ASSUME NEW v \in Vms, Bind(v) \/ Exit(v) PROVE Agreed'
  BY <1>11 DEF Bind, Exit, Agreed, Exchange, Waiting, Replied, managerVars, channelVars, historyVars
<1>12. ASSUME Serve PROVE Agreed'
  <2>1. /\ UNCHANGED <<pc, state, process, stream>>
        /\ stream = process /\ toVm # <<>>
        /\ OneCommand /\ Agreed
    BY <1>12 DEF Serve, managerVars, historyVars
  <2>2. CASE pc = "pausing"
    <3>1. Waiting("pause") /\ halted[process] = FALSE
      BY <2>1, <2>2 DEF OneCommand, Agreed, Exchange, Replied
    <3>2. Exchange("pause", FALSE, TRUE)'
      BY <1>12, <2>1, <3>1, ServeOne DEF Exchange, Commands
    <3>3. QED
      BY <2>1, <2>2, <3>2 DEF Agreed
  <2>3. CASE pc = "resuming"
    <3>1. Waiting("resume") /\ halted[process] = TRUE
      BY <2>1, <2>3 DEF OneCommand, Agreed, Exchange, Replied
    <3>2. Exchange("resume", TRUE, FALSE)'
      BY <1>12, <2>1, <3>1, ServeOne DEF Exchange, Commands
    <3>3. QED
      BY <2>1, <2>3, <3>2 DEF Agreed
  <2>4. pc \notin {"rest", "killing"}
    BY <2>1 DEF OneCommand, Requesting
  <2>5. QED
    BY <2>1, <2>2, <2>3, <2>4 DEF Agreed
<1>13. ASSUME \/ StartBegin
              \/ StartFails
              \/ CheckOrphan
              \/ KillOrphan
              \/ SpawnChild
              \/ RecordPid
              \/ RecordFails
              \/ StartExited
       PROVE  Agreed'
  BY <1>13 DEF StartBegin, StartFails, CheckOrphan, KillOrphan, SpawnChild, RecordPid, RecordFails, StartExited, Phases, Transition, Agreed
<1>14. CASE Inherit \/ HeirsEnd \/ UNCHANGED vars
  BY <1>14 DEF Inherit, HeirsEnd, vars, managerVars, vmVars, channelVars, historyVars, Agreed, Exchange, Waiting, Replied
<1>15. QED
  BY <1>1, <1>2, <1>3, <1>4, <1>5, <1>6, <1>7, <1>8, <1>9, <1>10, <1>11, <1>12, <1>13, <1>14 DEF Next, ManagerStep, Command, Crosvm

(* A held process has been spawned, before and after every step.           *)
LEMMA BornStep ==
  TypeOK /\ Phases /\ Born /\ [Next]_vars => Born'
<1> SUFFICES ASSUME TypeOK, Phases, Born, [Next]_vars PROVE Born'
  OBVIOUS
<1> USE VmsAssumption DEF TypeOK, Phases, Born, VmStatus, managerVars, vmVars
<1>1. ASSUME KillOrphan PROVE Born'
  BY <1>1 DEF KillOrphan, Sigkill
<1>2. ASSUME SpawnChild PROVE Born'
  BY <1>2 DEF SpawnChild
<1>3. ASSUME RecordPid PROVE Born'
  BY <1>3 DEF RecordPid
<1>4. ASSUME RecordFails PROVE Born'
  BY <1>4 DEF RecordFails
<1>5. ASSUME StopKills \/ StopEnd PROVE Born'
  BY <1>5 DEF StopKills, StopEnd, Release, Sigkill
<1>6. ASSUME ForceKill \/ ForceStop PROVE Born'
  BY <1>6 DEF ForceKill, ForceStop, Release, Sigkill
<1>7. ASSUME Discard PROVE Born'
  BY <1>7 DEF Discard
<1>8. ASSUME Relaunch PROVE Born'
  BY <1>8 DEF Relaunch
<1>9. ASSUME NEW ok \in BOOLEAN, PauseEnd(ok) PROVE Born'
  BY <1>9 DEF PauseEnd
<1>10. ASSUME NEW ok \in BOOLEAN, ResumeEnd(ok) PROVE Born'
  BY <1>10 DEF ResumeEnd
<1>11. ASSUME NEW v \in Vms, Bind(v) PROVE Born'
  BY <1>11 DEF Bind
<1>12. ASSUME NEW v \in Vms, Exit(v) PROVE Born'
  BY <1>12 DEF Exit, Live
<1>13. ASSUME Serve PROVE Born'
  BY <1>13 DEF Serve
<1>14. ASSUME \/ StartBegin
              \/ StartFails
              \/ CheckOrphan
              \/ StartExited
              \/ StartConnects
              \/ StartRetries
              \/ PauseBegin
              \/ ResumeBegin
              \/ StopBegin
              \/ StopSignal
              \/ Cancel
              \/ Inherit \/ HeirsEnd
              \/ UNCHANGED vars
       PROVE  Born'
  BY <1>14 DEF vars, Inherit, HeirsEnd, StartBegin, StartFails, CheckOrphan, StartExited, StartConnects, StartRetries, PauseBegin, ResumeBegin, StopBegin, StopSignal, Cancel
<1> HIDE DEF TypeOK, Phases, Born, VmStatus, managerVars, vmVars
<1>15. QED
  BY <1>1, <1>2, <1>3, <1>4, <1>5, <1>6, <1>7, <1>8, <1>9, <1>10, <1>11, <1>12, <1>13, <1>14 DEF Next, ManagerStep, Command, Crosvm

------------------------------------------------------------------------------
(* The inductive invariant and what follows from it. *)

(* A new manager over no files satisfies the invariant.                    *)
LEMMA InitIInv == Init => IInv
<1> SUFFICES ASSUME Init PROVE IInv
  OBVIOUS
<1>1. TypeOK
  <2>1. toVm \in Seq({"pause", "resume", "stop"}) /\ fromVm \in Seq({"ok", "error"})
    BY DEF Init
  <2>2. tries \in 0 .. MaxTries /\ unrecorded \subseteq Vms
    BY BoundAssumption DEF Init
  <2>3. vm \in [Vms -> VmStatus] /\ halted \in [Vms -> BOOLEAN] /\ term \in [Vms -> BOOLEAN]
    BY DEF Init, VmStatus
  <2>4. QED
    BY <2>1, <2>2, <2>3 DEF Init, TypeOK, VmStates, Pcs
<1>2. HandlesMatchState /\ Phases /\ Files /\ Born
  BY DEF Init, HandlesMatchState, Phases, Files, Born, Requesting
<1>3. NoLostVm /\ SingleVm /\ ControlsOwnVm
  BY DEF Init, NoLostVm, SingleVm, ControlsOwnVm, Live
<1>4. Agreement
  BY DEF Init, Agreement, NotHaltedYet, OneCommand, Agreed
<1>5. QED
  BY <1>1, <1>2, <1>3, <1>4 DEF IInv

(* Every step keeps the agreement with the guest.                          *)
LEMMA AgreementStep == IInv /\ [Next]_vars => Agreement'
BY NotHaltedYetStep, OneCommandStep, AgreedStep DEF IInv, Agreement

(* Every step keeps the invariant.                                         *)
LEMMA StepIInv == IInv /\ [Next]_vars => IInv'
BY TypeStep, PhasesStep, HandlesStep, FilesStep, BornStep, NoLostVmStep, SingleVmStep, ControlsOwnVmStep, AgreementStep DEF IInv

(* Whatever the caller, crosvm and the faults do, the manager's fields,    *)
(* files and socket stay within the inductive invariant.                   *)
THEOREM Inductive == Spec => []IInv
BY InitIInv, StepIInv, PTL DEF Spec

(* No step of start, pause, resume, stop, force_kill, of crosvm or of a    *)
(* fault takes a variable out of its type.                                 *)
THEOREM TypeCorrect == Spec => []TypeOK
<1>1. IInv => TypeOK
  BY DEF IInv
<1>2. QED
  BY <1>1, Inductive, PTL

(* The process handle, the control client and the reported state of        *)
(* VmManager agree after every operation, failure or dropped future.       *)
THEOREM HandlesCorrect == Spec => []HandlesMatchState
<1>1. IInv => HandlesMatchState
  BY DEF IInv
<1>2. QED
  BY <1>1, Inductive, PTL

(* Through every spawn, clean-up and relaunch a living crosvm is held,     *)
(* named by the PID file, or one whose PID file could not be written.      *)
THEOREM NoVmIsLost == Spec => []NoLostVm
<1>1. IInv => NoLostVm
  BY DEF IInv
<1>2. QED
  BY <1>1, Inductive, PTL

(* cleanup_orphan and PR_SET_PDEATHSIG leave no second crosvm that has not *)
(* been told to end, unless a PID file could not be written.               *)
THEOREM OneVmAtATime == Spec => []SingleVm
<1>1. IInv => SingleVm
  BY DEF IInv
<1>2. QED
  BY <1>1, Inductive, PTL

(* The control socket's stream leads to the manager's own process, though  *)
(* earlier runs leave their sockets at the same path.                      *)
THEOREM CommandsReachOwnVm == Spec => []ControlsOwnVm
<1>1. IInv => ControlsOwnVm
  BY DEF IInv
<1>2. QED
  BY <1>1, Inductive, PTL

(* pause's and resume's early store of the new state and their revert on   *)
(* an error end with the state the guest is in, as long as every command   *)
(* got its own reply.                                                      *)
THEOREM AnswersAgree == Spec => []AnsweredMeansAgreed
<1>1. IInv => AnsweredMeansAgreed
  BY DEF IInv, Agreement, Agreed, AnsweredMeansAgreed
<1>2. QED
  BY <1>1, Inductive, PTL

(* stop, force_kill and the discarding of a failed start drop a process    *)
(* handle only when its process is dead.                                   *)
THEOREM LiveVmIsKept == Spec => NeverDropsLiveVm
<1> DEFINE Kept == process # NoVm /\ process' # process =>
                        state' = "Idle" \/ vm'[process] = "dead"
<1>1. IInv /\ [Next]_vars => [Kept]_vars
  <2> SUFFICES ASSUME IInv, Next, process # NoVm, process' # process
               PROVE  state' = "Idle" \/ vm'[process] = "dead"
    BY DEF Kept
  <2> USE DEF IInv, managerVars
  <2>1. CASE RecordPid
    BY <2>1 DEF RecordPid, Phases
  <2>2. CASE StopEnd
    BY <2>2 DEF StopEnd, CleanupAfterWait, Waited, WaitFails, Live, Born, TypeOK, VmStatus
  <2>3. CASE Discard
    BY <2>3 DEF Discard, Killable, HandlesMatchState, Live, Phases, Born, TypeOK, VmStatus, VmStates, vmVars
  <2>4. CASE Relaunch
    BY <2>4 DEF Relaunch
  <2>5. CASE \E ok \in BOOLEAN : PauseEnd(ok) \/ ResumeEnd(ok)
    BY <2>5 DEF PauseEnd, ResumeEnd
  <2>6. CASE Crosvm
    BY <2>6 DEF Crosvm, Serve, Inherit, HeirsEnd, Bind, Exit
  <2>7. CASE StartFails \/ CheckOrphan \/ KillOrphan \/ SpawnChild \/ RecordFails
    BY <2>7 DEF StartFails, CheckOrphan, KillOrphan, SpawnChild, RecordFails
  <2>8. CASE StartExited \/ StartConnects \/ StartRetries \/ StopSignal \/ StopKills
    BY <2>8 DEF StartExited, StartConnects, StartRetries, StopSignal, StopKills
  <2>9. CASE StartBegin \/ PauseBegin \/ ResumeBegin \/ StopBegin \/ Cancel \/ ForceKill \/ ForceStop
    BY <2>9 DEF StartBegin, PauseBegin, ResumeBegin, StopBegin, Cancel, ForceKill, ForceStop, Release
  <2>10. QED
    BY <2>1, <2>2, <2>3, <2>4, <2>5, <2>6, <2>7, <2>8, <2>9 DEF Next, ManagerStep, Command
<1>2. QED
  BY <1>1, Inductive, PTL DEF Spec, NeverDropsLiveVm

------------------------------------------------------------------------------
(* VmManager implements VmLifecycle. *)

(* A new manager is an idle lifecycle.                                     *)
LEMMA ImplementsInit == Init => Lifecycle!LInit
BY DEF Init, Lifecycle!LInit

(* Every step of the manager is a step of the lifecycle or none.           *)
LEMMA ImplementsStep == IInv /\ [Next]_vars => [Lifecycle!LNext]_<<state, process # NoVm>>
<1> SUFFICES ASSUME IInv, Next
             PROVE  \/ Lifecycle!LNext
                    \/ UNCHANGED <<state, process # NoVm>>
  BY DEF vars, managerVars
<1> USE DEF Lifecycle!LNext, managerVars
<1>1. CASE StartBegin
  BY <1>1 DEF StartBegin, Transition, CanTransition, Lifecycle!CanTransition, Lifecycle!Begin, Lifecycle!Move
<1>2. CASE StartFails \/ RecordFails \/ StartExited
  BY <1>2 DEF StartFails, RecordFails, StartExited, IInv, Phases, CanTransition, Lifecycle!CanTransition, Lifecycle!GiveUp, Lifecycle!Move
<1>3. CASE RecordPid
  BY <1>3, VmsAssumption DEF RecordPid, IInv, Phases, TypeOK, Lifecycle!Acquire
<1>4. CASE StartConnects \/ StartRetries
  BY <1>4 DEF StartConnects, StartRetries, IInv, Phases, CanTransition, Lifecycle!CanTransition, Lifecycle!Succeed, Lifecycle!Move
<1>5. CASE PauseBegin \/ ResumeBegin
  BY <1>5 DEF PauseBegin, ResumeBegin, Transition, CanTransition, Lifecycle!CanTransition, Lifecycle!Suspend, Lifecycle!Continue, Lifecycle!Move
<1>6. CASE \E ok \in BOOLEAN : PauseEnd(ok) \/ ResumeEnd(ok)
  BY <1>6 DEF PauseEnd, ResumeEnd, IInv, Phases, CanTransition, Lifecycle!CanTransition, Lifecycle!Suspend, Lifecycle!Continue, Lifecycle!Move
<1>7. CASE StopBegin
  BY <1>7 DEF StopBegin, Transition, CanTransition, Lifecycle!CanTransition, Lifecycle!Shutdown, Lifecycle!Move
<1>8. CASE StopEnd /\ pc = "terminating"
  BY <1>8 DEF StopEnd, Release, IInv, Phases, CanTransition, Lifecycle!CanTransition, Lifecycle!Finish, Lifecycle!Move
<1>9. CASE ForceStop \/ (StopEnd /\ pc = "killing")
  BY <1>9 DEF ForceStop, StopEnd, Release, IInv, Phases, Killable, Lifecycle!Killable, Lifecycle!Kill
<1>10. CASE Discard
  BY <1>10 DEF Discard, Killable, Lifecycle!Killable, Lifecycle!Discard
<1>11. CASE Relaunch
  BY <1>11 DEF Relaunch, Lifecycle!Relaunch
<1>12. CASE CheckOrphan \/ KillOrphan \/ SpawnChild \/ StopSignal \/ StopKills \/ ForceKill \/ Cancel
  BY <1>12 DEF CheckOrphan, KillOrphan, SpawnChild, StopSignal, StopKills, ForceKill, Cancel
<1>13. CASE Crosvm
  BY <1>13 DEF Crosvm, Serve, Inherit, HeirsEnd, Bind, Exit
<1>14. QED
  BY <1>1, <1>2, <1>3, <1>4, <1>5, <1>6, <1>7, <1>8, <1>9, <1>10, <1>11, <1>12, <1>13 DEF Next, ManagerStep, Command, StopEnd

(* Every step of VmManager is an edge of state.rs's table, a forced kill,  *)
(* a discarded failure, a relaunch, or leaves state and handle alone.      *)
THEOREM Implementation == Spec => ImplementsLifecycle
BY ImplementsInit, ImplementsStep, Inductive, PTL DEF Spec, ImplementsLifecycle, Lifecycle!LSpec, Lifecycle!lvars

(* OwnedWhileUp is inductive in the lifecycle once a state is known to be  *)
(* one of the enum's and never Crashed, which nothing in nux-core sets.    *)
LInv == Lifecycle!LTypeOK /\ Lifecycle!OwnedWhileUp /\ state # "Crashed"

LEMMA LifecycleInit == Lifecycle!LInit => LInv
BY DEF Lifecycle!LInit, LInv, Lifecycle!LTypeOK, Lifecycle!OwnedWhileUp, Lifecycle!VmStates

LEMMA LifecycleStep == LInv /\ [Lifecycle!LNext]_<<state, process # NoVm>> => LInv'
<1> SUFFICES ASSUME LInv, [Lifecycle!LNext]_<<state, process # NoVm>> PROVE LInv'
  OBVIOUS
<1> USE DEF LInv, Lifecycle!LTypeOK, Lifecycle!OwnedWhileUp, Lifecycle!VmStates,
            Lifecycle!CanTransition, Lifecycle!Move
<1>1. CASE Lifecycle!Begin \/ Lifecycle!Acquire \/ Lifecycle!Succeed \/ Lifecycle!GiveUp
  BY <1>1 DEF Lifecycle!Begin, Lifecycle!Acquire, Lifecycle!Succeed, Lifecycle!GiveUp
<1>2. CASE Lifecycle!Suspend \/ Lifecycle!Continue
  BY <1>2 DEF Lifecycle!Suspend, Lifecycle!Continue
<1>3. CASE Lifecycle!Shutdown \/ Lifecycle!Finish
  BY <1>3 DEF Lifecycle!Shutdown, Lifecycle!Finish
<1>4. CASE Lifecycle!Kill \/ Lifecycle!Discard \/ Lifecycle!Relaunch
  BY <1>4 DEF Lifecycle!Kill, Lifecycle!Discard, Lifecycle!Relaunch, Lifecycle!Killable
<1>5. CASE UNCHANGED <<state, process # NoVm>>
  BY <1>5
<1> QED
  BY <1>1, <1>2, <1>3, <1>4, <1>5 DEF Lifecycle!LNext

(* mod.rs's manager owns a process while its state is up and none while it *)
(* is idle or stopped, along every path of state.rs's table, forced kills  *)
(* and relaunches included, and no path leads to Crashed: the lifecycle    *)
(* promises it, and the manager implements the lifecycle.                  *)
THEOREM OwnsWhileUp == Spec => [](Lifecycle!OwnedWhileUp /\ state # "Crashed")
<1>1. Lifecycle!LSpec => []LInv
  BY LifecycleInit, LifecycleStep, PTL DEF Lifecycle!LSpec, Lifecycle!lvars
<1>2. LInv => Lifecycle!OwnedWhileUp /\ state # "Crashed"
  BY DEF LInv
<1> QED
  BY <1>1, <1>2, Implementation, PTL DEF ImplementsLifecycle

------------------------------------------------------------------------------
(* Operations end.  That an operation in progress is gone on with is       *)
(* fairness, which stays with TLC; what StartSettles and StopSettles rest  *)
(* on besides is that going on brings it nearer its end, and that a VM     *)
(* reported as starting or stopping has its operation in progress.         *)

(* At most as many steps of the manager are left of the operation.         *)
StepsLeft ==
    CASE pc = "prepare"     -> MaxTries + 4
      [] pc = "orphan"      -> MaxTries + 3
      [] pc = "spawn"       -> MaxTries + 2
      [] pc = "record"      -> MaxTries + 1
      [] pc = "connect"     -> MaxTries - tries
      [] pc = "stopping"    -> 3
      [] pc = "terminating" -> IF Live(process) THEN 2 ELSE 1
      [] pc = "killing"     -> 1
      [] pc = "pausing"     -> 1
      [] pc = "resuming"    -> 1
      [] pc = "rest"        -> 0
GoesOn ==
    /\ StepsLeft \in Nat
    /\ pc # "rest" => StepsLeft > 0
    /\ ManagerStep => StepsLeft' < StepsLeft
    /\ Crosvm => StepsLeft' <= StepsLeft

Beginning == {"prepare", "orphan", "spawn", "record", "connect"}
Ending == {"stopping", "terminating"}
InProgress ==
    /\ "cancel" \notin Faults /\ state = "Stopping" => pc \in Ending
    /\ {"cancel", "waiterr"} \cap Faults = {} /\ state = "Starting" => pc \in Beginning

(* What is left is a number, not 0 before the end. *)
LEMMA LeftType == TypeOK /\ Phases => StepsLeft \in Nat /\ (pc # "rest" => StepsLeft > 0)
BY BoundAssumption DEF TypeOK, Phases, Pcs, Awaits, StepsLeft

(* Each step of an operation leaves less of it. *)
LEMMA ManagerGoesOn ==
    ASSUME TypeOK, Phases, HandlesMatchState, ManagerStep
    PROVE  StepsLeft' < StepsLeft
<1>1. /\ StepsLeft \in Nat /\ MaxTries \in Nat /\ tries \in Nat
      /\ pc # "rest" => StepsLeft > 0
  BY LeftType, BoundAssumption DEF TypeOK
<1> USE DEF StepsLeft
<1>2. CASE pc' = "rest"
  <2>1. pc # "rest"
    BY DEF ManagerStep, StartFails, CheckOrphan, KillOrphan, SpawnChild, RecordPid,
       RecordFails, StartExited, StartConnects, StartRetries, PauseEnd, ResumeEnd,
       StopSignal, StopKills, StopEnd, managerVars
  <2>2. StepsLeft' = 0
    BY <1>2
  <2> QED
    BY <1>1, <2>1, <2>2
<1>3. CASE CheckOrphan
  BY <1>1, <1>3 DEF CheckOrphan
<1>4. CASE KillOrphan
  BY <1>1, <1>4 DEF KillOrphan
<1>5. CASE SpawnChild
  BY <1>1, <1>5 DEF SpawnChild
<1>6. CASE RecordPid
  BY <1>1, <1>6 DEF RecordPid
<1>7. CASE StartRetries /\ pc' # "rest"
  BY <1>1, <1>7 DEF StartRetries, NextTry
<1>8. CASE StopSignal
  BY <1>8 DEF StopSignal
<1>9. CASE StopKills
  <2>1. pc' = "terminating" /\ Live(process) /\ pc = "terminating" /\ process' = process
    BY <1>9 DEF StopKills, managerVars
  <2>2. process \in Vms
    BY <2>1 DEF Phases, HandlesMatchState, TypeOK
  <2>3. vm'[process'] = "dead"
    BY <1>9, <2>1, <2>2 DEF StopKills, Sigkill, TypeOK
  <2>4. ~Live(process)'
    BY <2>3 DEF Live
  <2> QED
    BY <2>1, <2>4
<1>10. ManagerStep => \/ pc' = "rest" \/ CheckOrphan \/ KillOrphan \/ SpawnChild
                      \/ RecordPid \/ StartRetries \/ StopSignal \/ StopKills
  BY DEF ManagerStep, StartFails, RecordFails, StartExited, StartConnects, PauseEnd,
     ResumeEnd, StopEnd, Release
<1> QED
  BY <1>2, <1>3, <1>4, <1>5, <1>6, <1>7, <1>8, <1>9, <1>10

(* No step of crosvm, or of what it started, brings a process back to life. *)
LEMMA CrosvmRaisesNothing ==
    ASSUME TypeOK, Phases, HandlesMatchState, Crosvm, StepsLeft \in Nat
    PROVE  StepsLeft' <= StepsLeft
<1>1. pc' = pc /\ tries' = tries /\ process' = process
  BY DEF Crosvm, Serve, Inherit, HeirsEnd, Bind, Exit, managerVars
<1>2. CASE pc = "terminating"
  <2>1. process \in Vms
    BY <1>2 DEF Phases, HandlesMatchState, TypeOK
  <2>2. vm' = vm \/ \E v \in Vms, s \in {"listening", "dead"} :
                        /\ vm' = [vm EXCEPT ![v] = s]
                        /\ s = "listening" => vm[v] = "booting"
    <3>1. CASE Serve
      <4>1. stream \in Vms
        BY <3>1 DEF Serve, TypeOK
      <4>2. vm' = vm \/ vm' = [vm EXCEPT ![stream] = "dead"]
        BY <3>1, <4>1 DEF Serve, TypeOK
      <4> QED
        BY <4>1, <4>2 DEF TypeOK
    <3>2. CASE Inherit \/ HeirsEnd
      BY <3>2 DEF Inherit, HeirsEnd
    <3>3. CASE \E v \in Vms : Bind(v) \/ Exit(v)
      BY <3>3 DEF Bind, Exit, TypeOK
    <3> QED
      BY <3>1, <3>2, <3>3 DEF Crosvm
  <2>3. Live(process)' => Live(process)
    <3>1. vm'[process] \in {"booting", "listening"} => vm[process] \in {"booting", "listening"}
      <4>1. CASE vm' = vm
        BY <4>1
      <4>2. ASSUME NEW v \in Vms, NEW s \in {"listening", "dead"}, vm' = [vm EXCEPT ![v] = s],
                   s = "listening" => vm[v] = "booting"
            PROVE  vm'[process] = vm[process] \/ vm'[process] = "dead" \/ vm[process] = "booting"
        BY <2>1, <4>2 DEF TypeOK
      <4> QED
        BY <2>2, <4>1, <4>2
    <3> QED
      BY <1>1, <3>1 DEF Live
  <2>4. StepsLeft = (IF Live(process) THEN 2 ELSE 1)
    BY <1>2 DEF StepsLeft
  <2>5. StepsLeft' = (IF Live(process)' THEN 2 ELSE 1)
    BY <1>1, <1>2 DEF StepsLeft
  <2> QED
    BY <2>3, <2>4, <2>5
<1>3. CASE pc # "terminating"
  <2>1. StepsLeft' = StepsLeft
    BY <1>1, <1>3 DEF StepsLeft
  <2> QED
    BY <2>1
<1> QED
  BY <1>2, <1>3

(* What is reported as starting or stopping has its operation in progress. *)
LEMMA InProgressStep == TypeOK /\ Phases /\ InProgress /\ [Next]_vars => InProgress'
<1> SUFFICES ASSUME TypeOK, Phases, InProgress, [Next]_vars PROVE InProgress'
  OBVIOUS
<1> USE DEF InProgress, Beginning, Ending, Phases
<1>1. CASE StartFails \/ CheckOrphan \/ KillOrphan \/ SpawnChild \/ RecordPid \/ RecordFails
  BY <1>1 DEF StartFails, CheckOrphan, KillOrphan, SpawnChild, RecordPid, RecordFails
<1>2. CASE StartExited \/ StartConnects \/ StartRetries
  BY <1>2 DEF StartExited, StartConnects, StartRetries, WaitFails
<1>3. ASSUME NEW ok \in BOOLEAN, PauseEnd(ok) \/ ResumeEnd(ok) PROVE InProgress'
  BY <1>3 DEF PauseEnd, ResumeEnd
<1>4. CASE StopSignal \/ StopKills \/ StopEnd
  BY <1>4 DEF StopSignal, StopKills, StopEnd, Release, managerVars
<1>5. CASE StartBegin \/ PauseBegin \/ ResumeBegin \/ StopBegin
  BY <1>5 DEF StartBegin, PauseBegin, ResumeBegin, StopBegin, Transition
<1>6. CASE ForceKill \/ ForceStop \/ Discard
  BY <1>6 DEF ForceKill, ForceStop, Discard, Release, Killable
<1>7. CASE Cancel \/ Relaunch
  BY <1>7 DEF Cancel, Relaunch
<1>8. CASE Crosvm \/ UNCHANGED vars
  BY <1>8 DEF Crosvm, Serve, Inherit, HeirsEnd, Bind, Exit, vars, managerVars
<1> QED
  BY <1>1, <1>2, <1>3, <1>4, <1>5, <1>6, <1>7, <1>8 DEF Next, ManagerStep, Command

(* Whatever its environment does, an operation of the manager ends within  *)
(* a bounded number of its own steps: each of start's rounds, of the waits *)
(* of pause, resume and stop brings it nearer, and nothing that crosvm or  *)
(* what it started does takes it back.                                     *)
THEOREM OperationsGetOn == Spec => [][GoesOn]_vars
<1>1. IInv /\ [Next]_vars => [GoesOn]_vars
  <2> SUFFICES ASSUME IInv PROVE GoesOn
    OBVIOUS
  <2>1. TypeOK /\ Phases /\ HandlesMatchState
    BY DEF IInv
  <2>2. StepsLeft \in Nat /\ (pc # "rest" => StepsLeft > 0)
    BY <2>1, LeftType
  <2>3. Crosvm => StepsLeft' <= StepsLeft
    BY <2>1, <2>2, CrosvmRaisesNothing
  <2> QED
    BY <2>1, <2>2, <2>3, ManagerGoesOn DEF GoesOn
<1> QED
  BY <1>1, Inductive, PTL DEF Spec

(* A VM is not left reported as stopping unless the caller dropped the     *)
(* future of stop, nor as starting unless he dropped start's or the wait   *)
(* for a process that ended failed.                                        *)
THEOREM NothingIsLeftHalfway == Spec => []InProgress
<1>1. Init => InProgress
  BY DEF Init, InProgress
<1>2. IInv /\ InProgress /\ [Next]_vars => InProgress'
  BY InProgressStep DEF IInv
<1> QED
  BY <1>1, <1>2, Inductive, PTL DEF Spec

------------------------------------------------------------------------------
(* VmHost.                                                                 *)

(* What the properties need to be inductive.  While spawn waits, the       *)
(* caller has no other PasstProcess; as long as no other passt was there,  *)
(* the file at the path is missing or the process's own.                   *)
PasstInv ==
    /\ step = "wait" <=> child # NoOne
    /\ step \in {"bridge", "path", "spawn", "wait"} => handle = NoOne
    /\ alone /\ child # NoOne => Alive \subseteq {child} /\ passtSock \in {NoOne, child}
    /\ alone /\ handle # NoOne => Alive \subseteq {handle} /\ passtSock = handle

(* What each check that has passed says of a host that does not change.    *)
SelectInv ==
    /\ step = "bridge" => wanted \in {"auto", "tap"} /\ setup = "none"
    /\ step = "path" =>
            setup = "none" /\ wanted \in {"auto", "passt"} /\ (wanted = "auto" => ~BridgeExists)
    /\ step \in {"spawn", "wait", "validate", "device", "api", "cpu", "build", "up"} =>
            setup = Preferred(wanted)
CheckInv ==
    /\ failed # {} => ~Usable(config)
    /\ step \in {"bridge", "path", "spawn", "wait", "validate", "device", "api", "build", "up"} =>
            failed = {}
    /\ step \in {"device", "api", "cpu", "build"} => Valid(config)
    /\ step = "api" => KvmDevice
    /\ step = "cpu" /\ failed = {} => KvmApiVersion
    /\ step = "build" => KvmApiVersion /\ CpuVirtualization
    /\ step = "up" => Usable(config)
HInv == HTypeOK /\ PasstInv /\ NoStrayPasst /\ (steady => SelectInv /\ CheckInv)

(* The types, step by step.                                                *)
LEMMA HTypeStep == HTypeOK /\ [HNext]_hvars => HTypeOK'
<1> SUFFICES ASSUME HTypeOK, [HNext]_hvars PROVE HTypeOK'
  OBVIOUS
<1> USE DEF HTypeOK, startVars, passtVars, Keeps, Goes, Steps, Resolved, Checks
<1>1. ASSUME NEW c \in VmConfigs, NEW b \in Backends, Begin(c, b) PROVE HTypeOK'
  BY <1>1 DEF Begin
<1>2. CASE LookForBridge
  BY <1>2 DEF LookForBridge
<1>3. CASE LookForPasst
  BY <1>3 DEF LookForPasst
<1>4. ASSUME NEW p \in Procs, SpawnPasst(p) PROVE HTypeOK'
  BY <1>4 DEF SpawnPasst
<1>5. CASE CannotSpawn
  BY <1>5 DEF CannotSpawn
<1>6. CASE SocketFound
  BY <1>6 DEF SocketFound
<1>7. CASE SocketTimeout
  BY <1>7 DEF SocketTimeout, Alive
<1>8. CASE StopPasst
  BY <1>8 DEF StopPasst
<1>9. ASSUME NEW p \in Procs, PasstBinds(p) \/ PasstEnds(p) PROVE HTypeOK'
  BY <1>9 DEF PasstBinds, PasstEnds
<1>10. CASE Validate
  BY <1>10 DEF Validate
<1>11. CASE CheckDevice
  BY <1>11 DEF CheckDevice
<1>12. CASE CheckApi
  BY <1>12 DEF CheckApi
<1>13. CASE CheckCpu
  BY <1>13 DEF CheckCpu
<1>14. CASE Build
  BY <1>14 DEF Build
<1>15. CASE VmEnds
  BY <1>15 DEF VmEnds
<1>16. CASE Quit
  BY <1>16 DEF Quit, Alive
<1>17. ASSUME NEW h \in Hosts, Change(h) PROVE HTypeOK'
  BY <1>17 DEF Change
<1>18. CASE UNCHANGED hvars
  BY <1>18 DEF hvars
<1>19. QED
  BY <1>1, <1>2, <1>3, <1>4, <1>5, <1>6, <1>7, <1>8, <1>9, <1>10, <1>11, <1>12, <1>13, <1>14,
     <1>15, <1>16, <1>17, <1>18 DEF HNext, Select, Passt, Start

(* Processes and the socket's file, step by step.                          *)
PasstOK == PasstInv /\ NoStrayPasst

LEMMA PasstStep == HTypeOK /\ PasstOK /\ [HNext]_hvars => PasstOK'
<1> SUFFICES ASSUME HTypeOK, PasstOK, [HNext]_hvars PROVE PasstOK'
  OBVIOUS
<1> USE DEF HTypeOK, PasstOK, PasstInv, NoStrayPasst, passtVars, Alive
<1>1. CASE UNCHANGED <<passtVars, step>>
  BY <1>1
<1>2. ASSUME UNCHANGED passtVars, step' \notin {"bridge", "path", "spawn", "wait"}, step # "wait"
      PROVE PasstOK'
  BY <1>2
<1>3. ASSUME NEW c \in VmConfigs, NEW b \in Backends, Begin(c, b) PROVE PasstOK'
  BY <1>3 DEF Begin
<1>4. CASE Select
  BY <1>4 DEF Select, LookForBridge, LookForPasst, Goes
<1>5. ASSUME NEW p \in Procs, SpawnPasst(p) PROVE PasstOK'
  BY <1>5, ProcAssumption DEF SpawnPasst, Goes
<1>6. CASE CannotSpawn
  BY <1>6 DEF CannotSpawn, Goes
<1>7. CASE SocketFound
  BY <1>7 DEF SocketFound, Goes
<1>8. CASE SocketTimeout
  BY <1>8 DEF SocketTimeout, Goes
<1>9. CASE StopPasst
  BY <1>9 DEF StopPasst
<1>10. ASSUME NEW p \in Procs, PasstBinds(p) PROVE PasstOK'
  BY <1>10, ProcAssumption DEF PasstBinds, startVars
<1>11. ASSUME NEW p \in Procs, PasstEnds(p) PROVE PasstOK'
  BY <1>11 DEF PasstEnds, startVars
<1>12. CASE Quit
  BY <1>12 DEF Quit
<1>13. CASE Start
  <2>1. UNCHANGED passtVars /\ step' \notin {"bridge", "path", "spawn", "wait"} /\ step # "wait"
    BY <1>13 DEF Start, Validate, CheckDevice, CheckApi, CheckCpu, Build, VmEnds, Goes, Keeps
  <2>2. QED
    BY <1>2, <2>1
<1>14. QED
  BY <1>1, <1>3, <1>4, <1>5, <1>6, <1>7, <1>8, <1>9, <1>10, <1>11, <1>12, <1>13
     DEF HNext, Passt, Change, hvars, startVars

(* What Preferred chooses. *)
LEMMA PreferredIs ==
  ASSUME NEW b \in {"auto", "tap", "passt", "disabled"}
  PROVE  Preferred(b) =
            IF b = "disabled" THEN "disabled"
            ELSE IF b \in {"tap", "auto"} /\ BridgeExists THEN "tap"
            ELSE IF b \in {"passt", "auto"} /\ PasstAvailable THEN "passt" ELSE "none"
<1> DEFINE fit == {i \in DOMAIN Offered : b \in {Offered[i], "auto"} /\ Has(Offered[i])}
<1>1. Offered[1] = "tap" /\ Offered[2] = "passt" /\ DOMAIN Offered = {1, 2}
  BY DEF Offered
<1>2. 1 \in fit <=> b \in {"tap", "auto"} /\ BridgeExists
  BY <1>1 DEF Has, BridgeExists
<1>3. 2 \in fit <=> b \in {"passt", "auto"} /\ PasstAvailable
  BY <1>1 DEF Has, PasstAvailable
<1>4. fit \subseteq {1, 2}
  BY <1>1
<1>5. Preferred(b) = IF b = "disabled" THEN b ELSE IF fit = {} THEN "none"
                     ELSE Offered[CHOOSE i \in fit : \A j \in fit : i <= j]
  BY DEF Preferred
<1> HIDE DEF fit
<1>6. 1 \in fit => (CHOOSE i \in fit : \A j \in fit : i <= j) = 1
  <2> SUFFICES ASSUME 1 \in fit PROVE (CHOOSE i \in fit : \A j \in fit : i <= j) = 1
    OBVIOUS
  <2>1. \A j \in fit : 1 <= j
    BY <1>4
  <2>2. \A i \in fit : (\A j \in fit : i <= j) => i = 1
    BY <1>4
  <2> QED
    BY <2>1, <2>2
<1>7. 1 \notin fit /\ 2 \in fit => (CHOOSE i \in fit : \A j \in fit : i <= j) = 2
  <2> SUFFICES ASSUME 1 \notin fit, 2 \in fit
               PROVE  (CHOOSE i \in fit : \A j \in fit : i <= j) = 2
    OBVIOUS
  <2>1. fit = {2}
    BY <1>4
  <2> QED
    BY <2>1
<1>8. 1 \notin fit /\ 2 \notin fit => fit = {}
  BY <1>4
<1>9. CASE b = "disabled"
  BY <1>5, <1>9
<1>10. CASE b # "disabled" /\ 1 \in fit
  BY <1>1, <1>2, <1>5, <1>6, <1>10
<1>11. CASE b # "disabled" /\ 1 \notin fit /\ 2 \in fit
  BY <1>1, <1>2, <1>3, <1>5, <1>7, <1>11
<1>12. CASE b # "disabled" /\ 1 \notin fit /\ 2 \notin fit
  BY <1>2, <1>3, <1>5, <1>8, <1>12
<1> QED
  BY <1>9, <1>10, <1>11, <1>12

(* The two parts that hold of a host that does not change.                 *)
Selected == steady => SelectInv
Checked == steady => CheckInv

(* What is said of a host and a config is so as long as these are the same. *)
LEMMA SameHost ==
  ASSUME HTypeOK, UNCHANGED <<host, wanted, config>>
  PROVE  /\ Preferred(wanted)' = Preferred(wanted) /\ BridgeExists' = BridgeExists
         /\ Valid(config)' = Valid(config) /\ Usable(config)' = Usable(config)
         /\ KvmDevice' = KvmDevice /\ KvmApiVersion' = KvmApiVersion
         /\ CpuVirtualization' = CpuVirtualization
<1>1. host' = host /\ wanted' = wanted /\ config' = config
  OBVIOUS
<1>2. Preferred(wanted)' = Preferred(wanted)
  <2> DEFINE fit == {i \in DOMAIN Offered : wanted \in {Offered[i], "auto"} /\ Has(Offered[i])}
             best(s) == CHOOSE i \in s : \A j \in s : i <= j
  <2>1. /\ Preferred(wanted) = IF wanted = "disabled" THEN wanted ELSE IF fit = {} THEN "none"
                               ELSE Offered[best(fit)]
        /\ Preferred(wanted)' = IF wanted' = "disabled" THEN wanted' ELSE IF fit' = {} THEN "none"
                                ELSE Offered[best(fit')]
    BY Zenon DEF Preferred
  <2>2. fit' = fit
    BY <1>1 DEF Has
  <2> HIDE DEF fit, best
  <2> QED
    BY <1>1, <2>1, <2>2
<1>3. BridgeExists' = BridgeExists
  BY <1>1, Zenon DEF BridgeExists
<1>4. Valid(config)' = Valid(config)
  BY <1>1, Zenon DEF Valid
<1>5. Usable(config)' = Usable(config)
  BY <1>1, Zenon DEF Usable
<1>6. KvmDevice' = KvmDevice /\ KvmApiVersion' = KvmApiVersion /\ CpuVirtualization' = CpuVirtualization
  BY <1>1, Zenon DEF KvmDevice, KvmApiVersion, KvmExtensions, CpuVirtualization
<1> QED
  BY <1>2, <1>3, <1>4, <1>5, <1>6

(* The backend that is selected is the preferred one.                      *)
LEMMA SelectStep == HTypeOK /\ Selected /\ [HNext]_hvars => Selected'
<1> SUFFICES ASSUME HTypeOK, Selected, [HNext]_hvars PROVE Selected'
  OBVIOUS
<1> DEFINE Late == {"spawn", "wait", "validate", "device", "api", "cpu", "build", "up"}
<1>0. wanted \in {"auto", "tap", "passt", "disabled"}
  BY BackendAssumption DEF HTypeOK
<1>1. ASSUME NEW c \in VmConfigs, NEW b \in Backends, Begin(c, b) PROVE Selected'
  <2>1. b \in {"auto", "tap", "passt", "disabled"}
    BY BackendAssumption
  <2>2. b = "disabled" => Preferred(wanted)' = "disabled"
    BY <1>1 DEF Begin, Preferred
  <2>3. QED
    BY <1>1, <2>1, <2>2 DEF Begin, Selected, SelectInv
<1>2. ASSUME NEW h \in Hosts, Change(h) PROVE Selected'
  BY <1>2 DEF Change, Selected
<1>3. ASSUME UNCHANGED <<host, wanted, config, steady, setup>>,
             step' \in Late => step \in Late,
             step' = "bridge" => step = "bridge", step' = "path" => step = "path"
      PROVE Selected'
  BY <1>3, SameHost DEF Selected, SelectInv
<1>4. CASE LookForBridge
  <2>1. UNCHANGED <<host, wanted, config, steady>> /\ step = "bridge"
    BY <1>4 DEF LookForBridge, Goes, Keeps
  <2>2. steady => wanted \in {"auto", "tap"} /\ setup = "none"
    BY <2>1 DEF Selected, SelectInv
  <2>3. CASE BridgeExists
    <3>1. step' = "validate" /\ setup' = "tap"
      BY <1>4, <2>3 DEF LookForBridge, Goes
    <3>2. steady => Preferred(wanted) = "tap"
      BY <1>0, <2>2, <2>3, PreferredIs
    <3>3. QED
      BY <2>1, <3>1, <3>2, SameHost DEF Selected, SelectInv
  <2>4. CASE ~BridgeExists
    <3>1. setup' = setup /\ step' = IF wanted = "auto" THEN "path" ELSE "failed"
      BY <1>4, <2>4 DEF LookForBridge, Goes
    <3>2. QED
      BY <2>1, <2>2, <2>4, <3>1, SameHost DEF Selected, SelectInv
  <2>5. QED
    BY <2>3, <2>4
<1>5. CASE LookForPasst
  <2>1. UNCHANGED <<host, wanted, config, steady>> /\ step = "path"
    BY <1>5 DEF LookForPasst, Goes, Keeps
  <2>2. steady => setup = "none" /\ wanted \in {"auto", "passt"} /\ (wanted = "auto" => ~BridgeExists)
    BY <2>1 DEF Selected, SelectInv
  <2>3. CASE PasstAvailable
    <3>1. step' = "spawn" /\ setup' = "passt"
      BY <1>5, <2>3 DEF LookForPasst, Goes
    <3>2. steady => Preferred(wanted) = "passt"
      BY <1>0, <2>2, <2>3, PreferredIs
    <3>3. QED
      BY <2>1, <3>1, <3>2, SameHost DEF Selected, SelectInv
  <2>4. CASE ~PasstAvailable
    <3>1. step' = "failed"
      BY <1>5, <2>4 DEF LookForPasst, Goes
    <3>2. QED
      BY <3>1 DEF Selected, SelectInv
  <2>5. QED
    BY <2>3, <2>4
<1>6. ASSUME NEW p \in Procs, SpawnPasst(p) PROVE Selected'
  BY <1>3, <1>6 DEF SpawnPasst, Goes, Keeps
<1>7. CASE CannotSpawn \/ SocketFound \/ SocketTimeout \/ StopPasst
  BY <1>3, <1>7 DEF CannotSpawn, SocketFound, SocketTimeout, StopPasst, Goes, Keeps
<1>8. ASSUME NEW p \in Procs, PasstBinds(p) \/ PasstEnds(p) PROVE Selected'
  BY <1>3, <1>8 DEF PasstBinds, PasstEnds, startVars, Keeps
<1>9. CASE Validate \/ VmEnds
  BY <1>3, <1>9 DEF Validate, VmEnds, Goes, Keeps
<1>10. CASE CheckDevice \/ CheckApi \/ CheckCpu
  BY <1>3, <1>10 DEF CheckDevice, CheckApi, CheckCpu, Goes, Keeps
<1>11. CASE Build \/ Quit
  BY <1>3, <1>11 DEF Build, Quit, Keeps
<1>12. CASE UNCHANGED hvars
  BY <1>3, <1>12 DEF hvars, startVars
<1>13. QED
  BY <1>1, <1>2, <1>4, <1>5, <1>6, <1>7, <1>8, <1>9, <1>10, <1>11, <1>12
     DEF HNext, Select, Passt, Start

(* A check that fails shows what is missing; all that pass leave nothing.  *)
LEMMA CheckStep == HTypeOK /\ Checked /\ [HNext]_hvars => Checked'
<1> SUFFICES ASSUME HTypeOK, Checked, [HNext]_hvars PROVE Checked'
  OBVIOUS
<1> DEFINE Before == {"bridge", "path", "spawn", "wait", "validate"}
<1>1. ASSUME NEW c \in VmConfigs, NEW b \in Backends, Begin(c, b) PROVE Checked'
  BY <1>1 DEF Begin, Checked, CheckInv
<1>2. ASSUME NEW h \in Hosts, Change(h) PROVE Checked'
  BY <1>2 DEF Change, Checked
<1>3. ASSUME UNCHANGED <<host, wanted, config, steady, failed>>,
             step' = step \/ step' \in {"idle", "failed"} \/ (step \in Before /\ step' \in Before)
      PROVE Checked'
  BY <1>3, SameHost DEF Checked, CheckInv
<1>4. CASE Select
  BY <1>3, <1>4 DEF Select, LookForBridge, LookForPasst, Goes, Keeps
<1>5. ASSUME NEW p \in Procs, SpawnPasst(p) PROVE Checked'
  BY <1>3, <1>5 DEF SpawnPasst, Goes, Keeps
<1>6. CASE CannotSpawn \/ SocketFound \/ SocketTimeout \/ StopPasst
  BY <1>3, <1>6 DEF CannotSpawn, SocketFound, SocketTimeout, StopPasst, Goes, Keeps
<1>7. ASSUME NEW p \in Procs, PasstBinds(p) \/ PasstEnds(p) PROVE Checked'
  BY <1>3, <1>7 DEF PasstBinds, PasstEnds, startVars, Keeps
<1>8. CASE VmEnds \/ Quit
  BY <1>3, <1>8 DEF VmEnds, Quit, Goes, Keeps
<1>9. CASE UNCHANGED hvars
  BY <1>3, <1>9 DEF hvars, startVars
<1>10. CASE Validate
  <2>1. /\ UNCHANGED <<host, wanted, config, steady, failed>> /\ step = "validate"
        /\ step' = IF Valid(config) THEN "device" ELSE "failed"
    BY <1>10 DEF Validate, Goes, Keeps
  <2>2. QED
    BY <2>1, SameHost DEF Checked, CheckInv
<1>11. host.kvm \in {"missing", "file", "denied", "mute", "old", "poor", "good"}
  BY KvmAssumption DEF HTypeOK, Hosts
<1>12. /\ ~KvmDevice => ~Usable(config)
       /\ ~KvmApiVersion => ~Usable(config)
       /\ ~CpuVirtualization => ~Usable(config)
       /\ Valid(config) /\ KvmApiVersion /\ CpuVirtualization => Usable(config)
  <2>1. config.cpus \in Nat /\ config.ram_mb \in Nat
    BY ConfigAssumption DEF HTypeOK
  <2>2. config.cpus >= 1 => config.cpus > 0
    BY <2>1
  <2>3. config.ram_mb >= 512 => config.ram_mb > 511
    BY <2>1
  <2>4. KvmApiVersion <=> host.kvm = "good"
    BY <1>11 DEF KvmApiVersion, KvmDevice, KvmExtensions
  <2>5. ~KvmDevice => host.kvm # "good"
    BY DEF KvmDevice
  <2>6. QED
    BY <2>2, <2>3, <2>4, <2>5 DEF Usable, Valid, CpuVirtualization
<1>13. CASE CheckDevice
  <2>1. /\ UNCHANGED <<host, wanted, config, steady>> /\ step = "device"
        /\ failed' = IF KvmDevice THEN failed ELSE failed \cup {"kvm_device"}
        /\ step' = IF failed' = {} THEN "api" ELSE "cpu"
    BY <1>13 DEF CheckDevice, Checks, Goes, Keeps
  <2>2. steady => failed = {} /\ Valid(config)
    BY <2>1 DEF Checked, CheckInv
  <2>3. steady => (failed' = {} <=> KvmDevice)
    BY <2>1, <2>2
  <2>4. QED
    BY <1>12, <2>1, <2>2, <2>3, SameHost DEF Checked, CheckInv
<1>14. CASE CheckApi
  <2>1. /\ UNCHANGED <<host, wanted, config, steady>> /\ step = "api"
        /\ failed' = IF KvmApiVersion THEN failed ELSE failed \cup {"kvm_api_version"}
        /\ step' = "cpu"
    BY <1>14 DEF CheckApi, Checks, Goes, Keeps
  <2>2. steady => failed = {} /\ Valid(config)
    BY <2>1 DEF Checked, CheckInv
  <2>3. steady => (failed' = {} <=> KvmApiVersion)
    BY <2>1, <2>2
  <2>4. QED
    BY <1>12, <2>1, <2>2, <2>3, SameHost DEF Checked, CheckInv
<1>15. CASE CheckCpu
  <2>1. /\ UNCHANGED <<host, wanted, config, steady>> /\ step = "cpu"
        /\ failed' = IF CpuVirtualization THEN failed ELSE failed \cup {"cpu_virtualization"}
        /\ step' = IF failed' = {} THEN "build" ELSE "failed"
    BY <1>15 DEF CheckCpu, Checks, Goes, Keeps
  <2>2. steady => Valid(config) /\ (failed = {} => KvmApiVersion) /\ (failed # {} => ~Usable(config))
    BY <2>1 DEF Checked, CheckInv
  <2>3. failed' = {} <=> failed = {} /\ CpuVirtualization
    BY <2>1
  <2>4. steady /\ failed' # {} => ~Usable(config)
    BY <1>12, <2>2, <2>3
  <2>5. QED
    BY <2>1, <2>2, <2>3, <2>4, SameHost DEF Checked, CheckInv
<1>16. CASE Build
  <2>1. UNCHANGED <<host, wanted, config, steady, failed>> /\ step = "build" /\ step' = "up"
    BY <1>16 DEF Build, Keeps
  <2>2. QED
    BY <1>12, <2>1, SameHost DEF Checked, CheckInv
<1>17. QED
  BY <1>1, <1>2, <1>4, <1>5, <1>6, <1>7, <1>8, <1>9, <1>10, <1>13, <1>14, <1>15, <1>16
     DEF HNext, Passt, Start

(* The inductive invariant of the host, its checks and passt.              *)
THEOREM HostInductive == HSpec => []HInv
<1>1. HInit => HInv
  BY DEF HInit, HInv, HTypeOK, PasstInv, NoStrayPasst, SelectInv, CheckInv, Steps, Resolved, Alive
<1>2. HInv /\ [HNext]_hvars => HInv'
  BY HTypeStep, PasstStep, SelectStep, CheckStep DEF HInv, PasstOK, Selected, Checked
<1>3. QED
  BY <1>1, <1>2, PTL DEF HSpec

(* crosvm is run on a host that has all it needs, and with the best        *)
(* backend: check_kvm_readiness and select_backend, on a host that does    *)
(* not change meanwhile.                                                   *)
THEOREM HostUsable == HSpec => []ReadyIsUsable
<1>1. HInv => ReadyIsUsable
  BY DEF HInv, ReadyIsUsable, SelectInv, CheckInv
<1>2. QED
  BY <1>1, HostInductive, PTL

(* The socket that PasstProcess::spawn waited for is its own.              *)
THEOREM SocketOwn == HSpec => []SocketIsOwn
<1>1. HInv => SocketIsOwn
  BY DEF HInv, SocketIsOwn, PasstInv
<1>2. QED
  BY <1>1, HostInductive, PTL

(* A passt that is let go of is one whose start timed out, or whose        *)
(* program ended.                                                          *)
THEOREM NoPasstStrays == HSpec => []NoStrayPasst
<1>1. HInv => NoStrayPasst
  BY DEF HInv
<1>2. QED
  BY <1>1, HostInductive, PTL

==============================================================================
