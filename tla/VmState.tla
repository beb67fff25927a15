------------------------------- MODULE VmState -------------------------------
(***************************************************************************)
(* The states of nux-core's VM and the transitions between them that the   *)
(* enum VmState allows (nux-core/src/vm/state.rs).  VmLifecycle and        *)
(* VmManager both extend this module.                                      *)
(***************************************************************************)

VmStates == {"Idle", "Starting", "Running", "Paused",
             "Stopping", "Stopped", "Crashed", "Failed"}

(* VmState::can_transition_to. *)
CanTransition(from, to) ==
    <<from, to>> \in
        {<<"Idle", "Starting">>,
         <<"Starting", "Running">>, <<"Starting", "Failed">>,
         <<"Running", "Paused">>, <<"Paused", "Running">>}
        \cup ({"Running", "Paused"} \X {"Stopping", "Crashed"})
        \cup ({"Stopping"} \X {"Stopped", "Crashed"})
        \cup ({"Stopped", "Crashed", "Failed"} \X {"Idle"})

(* The states in which force_kill finds something to kill: the first arm   *)
(* of its match.                                                           *)
Killable == {"Running", "Paused", "Starting", "Stopping"}

==============================================================================
