------------------------------ MODULE VmLauncher ------------------------------
(***************************************************************************)
(* nux-ui's way of running the VM: the start, stop, quit and close         *)
(* handlers of the window, the threads they spawn, the timers that follow  *)
(* a start and its boot, the launcher's handle of QEMU, the disk images a  *)
(* first start makes, and QEMU itself.                                     *)
(*                                                                         *)
(* Handlers and timers run on the UI thread, one at a time, and block it   *)
(* for as long as they take; each start runs start_kernel on a thread of   *)
(* its own.  A start spawns one QEMU at most, so both have one name.       *)
(***************************************************************************)
EXTENDS Naturals, FiniteSets

CONSTANTS
    Starts,    \* the times the start action is ever taken
    NoStart    \* no QEMU: None, or nobody at the monitor socket

ASSUME StartsAssumption == NoStart \notin Starts

Images == {"userdata", "cache"}

VARIABLES
    ui,          \* the UI thread: idle, within VmLauncher::stop, or exited
    closing,     \* that stop is the close handler's
    running,     \* UiState.vm_running
    booted,      \* UiState.vm_booted
    watch,       \* the starts whose boot monitor is still a timer
    process,     \* VmLauncher.process
    thread,      \* where each start's thread is
    qemu,        \* each start's QEMU
    monitorSock, \* the QEMU that bound the path of the monitor socket
    image,       \* the disk images
    stray        \* history: QEMUs that were let go of alive

uiVars == <<ui, closing, running, booted, watch>>
qemuVars == <<qemu, monitorSock>>
vars == <<uiVars, process, thread, qemuVars, image, stray>>

(* start_kernel in the order of its stages.  Its bootstrap makes userdata, *)
(* then cache: looks for the file, creates it, formats it.                 *)
Find == [userdata |-> "find userdata", cache |-> "find cache"]
Create == [userdata |-> "create userdata", cache |-> "create cache"]
Format == [userdata |-> "format userdata", cache |-> "format cache"]
AfterImage == [userdata |-> "find cache", cache |-> "launch"]

Stages ==
    {Find[i] : i \in Images} \cup {Create[i] : i \in Images}
    \cup {Format[i] : i \in Images}
    \cup {"none", "check", "launch", "store", "ok", "failed", "over"}
InFlight(s) == thread[s] \notin {"none", "over"}

QemuStatus == {"none", "starting", "bound", "up", "dead"}
Alive(s) == qemu[s] \in {"starting", "bound", "up"}

TypeOK ==
    /\ ui \in {"idle", "asking", "waiting", "exited"}
    /\ closing \in BOOLEAN /\ running \in BOOLEAN /\ booted \in BOOLEAN
    /\ watch \subseteq Starts
    /\ process \in Starts \cup {NoStart}
    /\ thread \in [Starts -> Stages]
    /\ qemu \in [Starts -> QemuStatus]
    /\ monitorSock \in Starts \cup {NoStart}
    /\ image \in [Images -> {"absent", "raw", "made"}]
    /\ stray \subseteq Starts

Init ==
    /\ ui = "idle" /\ closing = FALSE
    /\ running = FALSE /\ booted = FALSE
    /\ watch = {}
    /\ process = NoStart
    /\ thread = [s \in Starts |-> "none"]
    /\ qemu = [s \in Starts |-> "none"]
    /\ monitorSock = NoStart
    /\ image = [i \in Images |-> "absent"]
    /\ stray = {}

------------------------------------------------------------------------------
(* Helpers.                                                                *)

Goto(s, stage) == thread' = [thread EXCEPT ![s] = stage]

(* VmLauncher::is_running, which forgets a child that has ended. *)
IsRunningMutant == process # NoStart
IsRunning == process # NoStart /\ Alive(process)
Forget == process' = IF IsRunning THEN process ELSE NoStart

(* vm_bootstrap::is_bootstrapped. *)
IsBootstrapped == image["userdata"] # "absent"

------------------------------------------------------------------------------
(* The start action, start_kernel on its thread, and the timer that waits  *)
(* for its result.                                                         *)

StartVm(s) ==
    /\ ui = "idle"
    /\ ~running
    /\ thread[s] = "none"
    /\ Goto(s, "check")
    /\ UNCHANGED <<uiVars, process, qemuVars, image, stray>>

Check(s) ==
    /\ thread[s] = "check"
    /\ \/ IsRunning /\ Goto(s, "failed")
       \/ ~IsRunning /\ IsBootstrapped /\ Goto(s, "launch")
       \/ ~IsRunning /\ ~IsBootstrapped /\ Goto(s, "find userdata")
    /\ Forget
    /\ UNCHANGED <<uiVars, qemuVars, image, stray>>

(* create_sparse_image: a file that exists is left alone. *)
Exists(i) == image[i] # "absent"
FindImage(s, i) ==
    /\ thread[s] = Find[i]
    /\ Goto(s, IF Exists(i) THEN AfterImage[i] ELSE Create[i])
    /\ UNCHANGED <<uiVars, process, qemuVars, image, stray>>

(* truncate makes the file; an existing one keeps its content. *)
CreateImage(s, i) ==
    /\ thread[s] = Create[i]
    /\ \/ /\ image' = [image EXCEPT ![i] = IF @ = "absent" THEN "raw" ELSE @]
          /\ Goto(s, Format[i])
       \/ Goto(s, "failed") /\ UNCHANGED image
    /\ UNCHANGED <<uiVars, process, qemuVars, stray>>

(* mkfs.ext4 -F formats it, whatever is in it. *)
FormatImage(s, i) ==
    /\ thread[s] = Format[i]
    /\ \/ image' = [image EXCEPT ![i] = "made"] /\ Goto(s, AfterImage[i])
       \/ Goto(s, "failed") /\ UNCHANGED image
    /\ UNCHANGED <<uiVars, process, qemuVars, stray>>

(* The monitor socket of an earlier QEMU is removed, dead or alive, and    *)
(* the new one is spawned.                                                 *)
Launch(s) ==
    /\ thread[s] = "launch"
    /\ monitorSock' = NoStart
    /\ \/ qemu' = [qemu EXCEPT ![s] = "starting"] /\ Goto(s, "store")
       \/ Goto(s, "failed") /\ UNCHANGED qemu
    /\ UNCHANGED <<uiVars, process, image, stray>>

(* The child becomes the launcher's, over one that another start stored. *)
Store(s) ==
    /\ thread[s] = "store"
    /\ process' = s
    /\ stray' = IF IsRunning THEN stray \cup {process} ELSE stray
    /\ Goto(s, "ok")
    /\ UNCHANGED <<uiVars, qemuVars, image>>

(* start_boot_monitor. *)
NoWatchMutant(s) == UNCHANGED watch
Watch(s) == watch' = watch \cup {s}

PollStart(s) ==
    /\ ui = "idle"
    /\ \/ thread[s] = "ok" /\ running' = TRUE /\ Watch(s)
       \/ thread[s] = "failed" /\ UNCHANGED <<running, watch>>
    /\ Goto(s, "over")
    /\ UNCHANGED <<ui, closing, booted, process, qemuVars, image, stray>>

------------------------------------------------------------------------------
(* The boot monitor, every three seconds.                                  *)

(* What adb says of the one port all QEMUs forward. *)
BootStatus ==
    {"NotConnected"} \cup
        (IF \E s \in Starts : qemu[s] = "up" THEN {"Booting", "Booted"} ELSE {})

MonitorEnds(s) ==
    /\ ui = "idle" /\ s \in watch
    /\ ~running
    /\ watch' = watch \ {s}
    /\ UNCHANGED <<ui, closing, running, booted, process, thread, qemuVars, image, stray>>

MonitorSeesBoot(s) ==
    /\ ui = "idle" /\ s \in watch
    /\ running
    /\ "Booted" \in BootStatus
    /\ booted' = TRUE
    /\ UNCHANGED <<ui, closing, running, watch, process, thread, qemuVars, image, stray>>

(* Without a connection it asks the launcher whether QEMU is gone. *)
MonitorSeesNothingMutant(s) ==
    /\ ui = "idle" /\ s \in watch
    /\ running
    /\ "NotConnected" \in BootStatus
    /\ running' = FALSE /\ booted' = FALSE
    /\ watch' = watch \ {s}
    /\ UNCHANGED <<ui, closing, process, thread, qemuVars, image, stray>>
MonitorSeesNothing(s) ==
    /\ ui = "idle" /\ s \in watch
    /\ running
    /\ "NotConnected" \in BootStatus
    /\ ~IsRunning
    /\ Forget
    /\ running' = FALSE /\ booted' = FALSE
    /\ watch' = watch \ {s}
    /\ UNCHANGED <<ui, closing, thread, qemuVars, image, stray>>

------------------------------------------------------------------------------
(* VmLauncher::stop, which the stop action and the close handler call.     *)

StopBegin ==
    /\ ui = "idle"
    /\ running
    /\ ui' = "asking"
    /\ closing' \in BOOLEAN
    /\ UNCHANGED <<running, booted, watch, process, thread, qemuVars, image, stray>>

(* quit goes to whoever bound the monitor socket; QEMU may not obey. *)
StopAsks ==
    /\ ui = "asking"
    /\ \/ /\ monitorSock # NoStart /\ qemu[monitorSock] \in {"bound", "up"}
          /\ qemu' = [qemu EXCEPT ![monitorSock] = "dead"]
       \/ UNCHANGED qemu
    /\ ui' = "waiting"
    /\ UNCHANGED <<closing, running, booted, watch, process, thread, monitorSock, image, stray>>

KillMutant == UNCHANGED qemu
Kill == qemu' = IF IsRunning THEN [qemu EXCEPT ![process] = "dead"] ELSE qemu

(* The child is gone, or is killed after five seconds.  The stop action    *)
(* then reports it; the close handler lets the application end, unless an  *)
(* APK install is in progress and the user keeps the window.               *)
StopEnds ==
    /\ ui = "waiting"
    /\ Kill
    /\ process' = NoStart
    /\ IF closing
       THEN ui' \in {"idle", "exited"} /\ UNCHANGED <<running, booted>>
       ELSE ui' = "idle" /\ running' = FALSE /\ booted' = FALSE
    /\ closing' = FALSE
    /\ UNCHANGED <<watch, thread, monitorSock, image, stray>>

------------------------------------------------------------------------------
(* The application.                                                        *)

(* It ends: the quit action, closing a window with no VM reported running, *)
(* or a crash, at any time.  Its threads end with it; QEMU does not.       *)
Exit ==
    /\ ui # "exited"
    /\ ui' = "exited"
    /\ UNCHANGED <<closing, running, booted, watch, process, thread, qemuVars, image, stray>>

(* It is opened again, over the files and processes the last one left. *)
Reopen ==
    /\ ui = "exited"
    /\ ui' = "idle" /\ closing' = FALSE
    /\ running' = FALSE /\ booted' = FALSE
    /\ watch' = {}
    /\ process' = NoStart
    /\ thread' = [s \in Starts |-> IF thread[s] = "none" THEN "none" ELSE "over"]
    /\ stray' = {s \in Starts : Alive(s)}
    /\ UNCHANGED <<qemuVars, image>>

------------------------------------------------------------------------------
(* QEMU, from how the code uses it.                                        *)

(* The monitor socket comes first, replacing a file at its path. *)
Bind(s) ==
    /\ qemu[s] = "starting"
    /\ qemu' = [qemu EXCEPT ![s] = "bound"]
    /\ monitorSock' = s
    /\ UNCHANGED <<uiVars, process, thread, image, stray>>

(* Then the images, which it locks, and the forwarded port. *)
ComeUp(s) ==
    /\ qemu[s] = "bound"
    /\ \A t \in Starts : qemu[t] # "up"
    /\ \A i \in Images : image[i] # "absent"
    /\ qemu' = [qemu EXCEPT ![s] = "up"]
    /\ UNCHANGED <<uiVars, process, thread, monitorSock, image, stray>>

Die(s) ==
    /\ Alive(s)
    /\ qemu' = [qemu EXCEPT ![s] = "dead"]
    /\ monitorSock' = IF monitorSock = s THEN NoStart ELSE monitorSock
    /\ UNCHANGED <<uiVars, process, thread, image, stray>>

------------------------------------------------------------------------------

(* A thread runs as long as the application does. *)
Thread(s) ==
    /\ ui # "exited"
    /\ \/ Check(s) \/ Launch(s) \/ Store(s)
       \/ \E i \in Images : FindImage(s, i) \/ CreateImage(s, i) \/ FormatImage(s, i)

Monitor(s) == MonitorEnds(s) \/ MonitorSeesBoot(s) \/ MonitorSeesNothing(s)
Stop == StopAsks \/ StopEnds
Qemu(s) == Bind(s) \/ ComeUp(s) \/ Die(s)

Next ==
    \/ StopBegin \/ Stop \/ Exit \/ Reopen
    \/ \E s \in Starts : StartVm(s) \/ PollStart(s) \/ Thread(s) \/ Monitor(s) \/ Qemu(s)

Spec == Init /\ [][Next]_vars

(* A blocking stop has its own deadline and the threads are scheduled.     *)
(* The main loop dispatches the timers that are due each time a handler    *)
(* returns to it, however often the user makes it run another: strong      *)
(* fairness.                                                               *)
FairSpec ==
    /\ Spec
    /\ WF_vars(Stop)
    /\ \A s \in Starts :
        /\ WF_vars(Thread(s)) /\ SF_vars(PollStart(s))
        /\ SF_vars(MonitorEnds(s)) /\ SF_vars(MonitorSeesNothing(s))

------------------------------------------------------------------------------
(* What holds.                                                             *)

(* A living QEMU is the launcher's, or about to be, unless a second start  *)
(* stored its own over it or the application ended: is_running, stop and   *)
(* the monitor lose none.                                                  *)
QemuAccounted ==
    ui # "exited" =>
        \A s \in Starts : Alive(s) => s = process \/ thread[s] = "store" \/ s \in stray

(* Once the UI says the VM does not run, none does that this run of Nux    *)
(* started, but for those whose start is still to be reported, and those   *)
(* it let go of.                                                           *)
NotRunningMeansStopped ==
    ui = "idle" /\ ~running =>
        \A s \in Starts : Alive(s) => thread[s] \in {"store", "ok"} \/ s \in stray

(* A running VM is watched: however stops and starts follow one another,   *)
(* the monitor of an earlier start that ends leaves a later one's.         *)
RunningIsWatched == running => watch # {}

(* A QEMU that ends is noticed: with none left the UI does not go on       *)
(* saying that the VM runs.                                                *)
EndNoticed ==
    running /\ (\A s \in Starts : ~Alive(s))
        ~> ~running \/ ui = "exited" \/ \E s \in Starts : Alive(s)

(* What the comment at is_bootstrapped says and the code does not do: it   *)
(* tells whether the bootstrap, if none is under way, has been performed.  *)
BootstrappedMeansPerformed ==
    IsBootstrapped /\ (\A s \in Starts : ~InFlight(s))
        => \A i \in Images : image[i] = "made"

==============================================================================
