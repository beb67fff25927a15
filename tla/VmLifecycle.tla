----------------------------- MODULE VmLifecycle -----------------------------
(***************************************************************************)
(* What VmManager promises its caller: how the reported state and the      *)
(* ownership of a crosvm process go together.  VmManager is shown to       *)
(* implement this specification, with owned standing for "self.process is  *)
(* Some".  No step here says why something fails: the causes (files, the   *)
(* control socket, crosvm itself) are VmManager's.                         *)
(***************************************************************************)
EXTENDS VmState

VARIABLES
    state,   \* what VmManager::state returns
    owned    \* whether the manager holds a crosvm process

lvars == <<state, owned>>

LInit == state = "Idle" /\ owned = FALSE

(* Every change of state but a forced kill and a new manager follows an    *)
(* edge of the enum's table.                                               *)
Move(from, to) == state = from /\ CanTransition(from, to) /\ state' = to

Begin   == Move("Idle", "Starting") /\ UNCHANGED owned
Acquire == state = "Starting" /\ ~owned /\ owned' = TRUE /\ UNCHANGED state
Succeed == Move("Starting", "Running") /\ owned /\ UNCHANGED owned
GiveUp  == Move("Starting", "Failed") /\ UNCHANGED owned

Suspend  == Move("Running", "Paused") /\ UNCHANGED owned
Continue == Move("Paused", "Running") /\ UNCHANGED owned
Shutdown == \E up \in {"Running", "Paused"} : Move(up, "Stopping") /\ UNCHANGED owned
Finish   == Move("Stopping", "Stopped") /\ owned' = FALSE

Kill ==
    /\ state \in Killable
    /\ state' = "Stopped"
    /\ owned' = FALSE

(* A forced kill of a VM that is not up only drops what a failed start     *)
(* left behind.                                                            *)
Discard ==
    /\ state \notin Killable
    /\ owned' = FALSE
    /\ UNCHANGED state

(* Nux ends and is started again: a new manager. *)
Relaunch == state' = "Idle" /\ owned' = FALSE

LNext ==
    \/ Begin \/ Acquire \/ Succeed \/ GiveUp
    \/ Suspend \/ Continue \/ Shutdown \/ Finish
    \/ Kill \/ Discard \/ Relaunch

LSpec == LInit /\ [][LNext]_lvars

------------------------------------------------------------------------------

LTypeOK == state \in VmStates /\ owned \in BOOLEAN

(* A VM that is reported to be up or going down is owned, one that is      *)
(* reported idle or stopped is not.                                        *)
OwnedWhileUp ==
    /\ state \in {"Running", "Paused", "Stopping"} => owned
    /\ state \in {"Idle", "Stopped"} => ~owned

==============================================================================
