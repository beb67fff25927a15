-------------------------------- MODULE Window --------------------------------
(***************************************************************************)
(* The rest of nux-ui's window around its launcher: the actions that a VM  *)
(* must run for, the APKs it installs, each on a thread that a timer asks  *)
(* for its result, and the close handler, which asks the user when one is  *)
(* being installed.  The handlers of VmLauncher stay as they are.          *)
(*                                                                         *)
(* Screenshot, volume and rotation leave nothing in the window's state, a  *)
(* dropped APK is only announced, and the window's size is not saved yet:  *)
(* they are left out.                                                      *)
(***************************************************************************)
EXTENDS VmLauncher

CONSTANT MaxInstalls  \* bound: APK installs at a time

ASSUME InstallsAssumption == MaxInstalls \in Nat \ {0}

VARIABLES
    enabled,     \* the sensitivity of the VM's actions
    choosing,    \* the file chooser is open
    adb,         \* installs whose adb runs
    done,        \* installs whose result is still to be taken
    installing,  \* UiState.apk_installing
    overlapped   \* history: those underway have not been one at a time

installVars == <<choosing, adb, done, installing, overlapped>>
windowVars == <<enabled, installVars>>
wvars == <<vars, windowVars>>

Underway == adb + done

WindowTypeOK ==
    /\ enabled \in BOOLEAN /\ choosing \in BOOLEAN
    /\ adb \in Nat /\ done \in Nat /\ Underway <= MaxInstalls
    /\ installing \in BOOLEAN
    /\ overlapped \in BOOLEAN

WindowInit ==
    /\ enabled = FALSE
    /\ choosing = FALSE /\ installing = FALSE /\ overlapped = FALSE
    /\ adb = 0 /\ done = 0

------------------------------------------------------------------------------
(* The launcher's handlers.                                                *)

(* set_vm_action_sensitivity is called by the handlers that set vm_running *)
(* after a start, after a stop, and when the monitor finds QEMU gone.      *)
SetVmActionSensitivity(on) == enabled' = on

Report(s) ==
    /\ PollStart(s)
    /\ SetVmActionSensitivity(enabled \/ thread[s] = "ok")
    /\ UNCHANGED installVars

Stopped ==
    /\ ~closing /\ StopEnds
    /\ SetVmActionSensitivity(FALSE)
    /\ UNCHANGED installVars

FindGoneMutant(s) ==
    /\ MonitorSeesNothing(s)
    /\ UNCHANGED windowVars
FindGone(s) ==
    /\ MonitorSeesNothing(s)
    /\ SetVmActionSensitivity(FALSE)
    /\ UNCHANGED installVars

(* The others leave the actions as they are. *)
Launching ==
    /\ \/ StopAsks
       \/ \E s \in Starts :
            StartVm(s) \/ Thread(s) \/ MonitorEnds(s) \/ MonitorSeesBoot(s) \/ Qemu(s)
    /\ UNCHANGED windowVars

StopVm ==
    /\ StopBegin /\ ~closing'
    /\ UNCHANGED windowVars

------------------------------------------------------------------------------
(* Installing APKs.                                                        *)

(* The install-apk action; it is the booted VM's that opens the chooser.   *)
OpenChooser ==
    /\ ui = "idle" /\ enabled /\ booted
    /\ ~choosing /\ choosing' = TRUE
    /\ UNCHANGED <<vars, enabled, adb, done, installing, overlapped>>

DismissChooser ==
    /\ ui = "idle" /\ choosing
    /\ choosing' = FALSE
    /\ UNCHANGED <<vars, enabled, adb, done, installing, overlapped>>

(* A file is chosen, whatever has become of the VM since. *)
ChooseMutant ==
    /\ ui = "idle" /\ choosing /\ Underway < MaxInstalls
    /\ choosing' = FALSE /\ adb' = adb + 1
    /\ overlapped' = (Underway > 0)
    /\ UNCHANGED <<vars, enabled, done, installing>>
Choose ==
    /\ ui = "idle" /\ choosing /\ Underway < MaxInstalls
    /\ choosing' = FALSE /\ adb' = adb + 1
    /\ installing' = TRUE
    /\ overlapped' = (Underway > 0)
    /\ UNCHANGED <<vars, enabled, done>>

(* adb install ends, well or not. *)
Installed ==
    /\ ui # "exited" /\ adb > 0
    /\ adb' = adb - 1 /\ done' = done + 1
    /\ UNCHANGED <<vars, enabled, choosing, installing, overlapped>>

(* The timer has its result: one flag stands for all installs.             *)
PollInstall ==
    /\ ui = "idle" /\ done > 0
    /\ done' = done - 1 /\ installing' = FALSE
    /\ overlapped' = (overlapped /\ Underway > 1)
    /\ UNCHANGED <<vars, enabled, choosing, adb>>

------------------------------------------------------------------------------
(* Closing.                                                                *)

(* What is left when the application has ended: none of its threads.       *)
Gone ==
    /\ choosing' = FALSE /\ installing' = FALSE /\ overlapped' = FALSE
    /\ adb' = 0 /\ done' = 0

Close ==
    /\ ui = "idle" /\ ~choosing
    /\ running
    /\ StopBegin /\ closing'
    /\ UNCHANGED windowVars

(* Then, with the VM stopped and adb install about to fail, the user is    *)
(* asked, or the application ends.  The dialog does nothing when it is     *)
(* cancelled, and Leave when it is not.                                    *)
Asks == installing
CloseEnds ==
    \/ Asks /\ ui' = "idle" /\ UNCHANGED installVars
    \/ ~Asks /\ Gone /\ ui' = "exited"

CloseStopped ==
    /\ closing /\ StopEnds
    /\ CloseEnds
    /\ UNCHANGED enabled

CloseIdleMutant ==
    /\ ui = "idle" /\ ~choosing
    /\ ~booted
    /\ CloseEnds
    /\ UNCHANGED <<closing, running, booted, watch, process, thread, qemuVars, image, stray, enabled>>
CloseIdle ==
    /\ ui = "idle" /\ ~choosing
    /\ ~running
    /\ CloseEnds
    /\ UNCHANGED <<closing, running, booted, watch, process, thread, qemuVars, image, stray, enabled>>

(* The dialog's "Quit Anyway", the quit action, or a crash. *)
Leave ==
    /\ Exit /\ Gone
    /\ UNCHANGED enabled

ReopenWindow ==
    /\ Reopen
    /\ SetVmActionSensitivity(FALSE)
    /\ UNCHANGED installVars

------------------------------------------------------------------------------

Installing == OpenChooser \/ DismissChooser \/ Choose \/ Installed \/ PollInstall
Closing == Close \/ CloseStopped \/ CloseIdle \/ Leave
WNext ==
    \/ \E s \in Starts : Report(s) \/ FindGone(s)
    \/ Stopped \/ Launching \/ StopVm \/ Installing \/ Closing \/ ReopenWindow

WInit == Init /\ WindowInit
WSpec == WInit /\ [][WNext]_wvars

(* Of the launcher's fairness what its liveness needs: a blocking stop and *)
(* the monitor's timer.                                                    *)
WFairSpec ==
    /\ WSpec
    /\ WF_wvars(StopAsks /\ Launching) /\ WF_wvars(Stopped \/ CloseStopped)
    /\ \A s \in Starts : SF_wvars(FindGone(s))

------------------------------------------------------------------------------
(* What holds.                                                             *)

(* The actions that need a VM may be taken when the window takes one to    *)
(* run, and at no other time, whichever handler found out.                 *)
ActionsFollowVm == ui # "exited" => enabled = running

(* The close handler ends the application, rather than the quit action, a  *)
(* crash or the question's answer.                                         *)
ClosesItself == (CloseStopped \/ CloseIdle) /\ ui' = "exited"

(* What closing leaves running: no QEMU of this application, whatever the  *)
(* monitors, quits and deadlines made of it, but one whose start is still  *)
(* to be reported and those that were let go of.                           *)
ClosedMeansStopped ==
    [][ClosesItself =>
           \A s \in Starts : Alive(s)' => thread[s] \in {"store", "ok"} \/ s \in stray]_wvars

(* The application does not exit over an install that adb is still at      *)
(* before it has asked, if the installs have been one at a time.  What it  *)
(* asks about is the exit: the VM has been stopped by then.                *)
ExitAsks == [][ClosesItself /\ adb > 0 => overlapped]_wvars

==============================================================================
