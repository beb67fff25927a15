# Nux Emulator in TLA+

TLA+ modules of the parts of Nux that keep state while other things happen:
processes, threads, timers, a guest, a user, crashes. Each is translated from
the source, model-checked with TLC on a small instance, and, where its
properties can be proved for every instance, proved with TLAPS.

## 1. The system

Nux is two crates. `nux-core` is a library of managers, each owned by one
caller (`&mut self`) and most of them `async`; `nux-ui` is the GTK application.
At this commit the application runs its virtual machine with a launcher of its
own (QEMU), and uses of `nux-core` only the keymap table with the overlay's
hints. Nothing constructs `nux-ui`'s own keymap engine (the methods by which it
would get its socket are empty) or `nux-core`'s VM manager, which drives crosvm,
its ADB client, its input manager, its network setup or its Google Services and
root managers yet, so their models let a caller issue every operation at any time
its borrow allows.

| part | source | state | operations | interacts with |
|---|---|---|---|---|
| VM manager | `nux-core/src/vm` | lifecycle state, child handle, control client, PID file, control socket | start, stop, pause, resume, force_kill, discard | crosvm (process, signals, socket), files a later run finds |
| Host | `nux-core/src/vm/{config,detect,command}.rs`, `nux-core/src/network` | what the host has, the readiness report, passt's process and socket | select a backend, spawn and stop passt, validate, check KVM, build the command | kernel, bridge, passt, VM manager |
| VM launcher | `nux-ui/src/{window,vm_launcher,vm_bootstrap,state,main}.rs` | UI state, timers, one thread for each start, QEMU handle, disk images | start, stop, quit, close, boot monitor, bootstrap | QEMU, its monitor socket, adb, images on disk |
| Window | `nux-ui/src/{window,state}.rs` | sensitivity of the VM's actions, installs and their flag | choose and install an APK, close, ask | launcher, adb, user |
| ADB streams and operations | `nux-core/src/adb/{shell,sync,protocol,transport}.rs` | stream table, local ids, the operation's locals, bytes in flight | shell, screenshot, push, pull | adbd over one transport |
| ADB connection | `nux-core/src/adb/{mod,types}.rs` | connection state, watch channel, transport, reconnect task | connect, disconnect, auto-reconnect, the app operations | transports, watchers |
| Keymap engine | `nux-ui/src/keymap` | active flag, flags of touches, held keys, threads | key and mouse handlers | the guest's input through a shared socket |
| Google Services | `nux-core/src/gservices` | overlay directory, its backup, package cache, provider in the config | switch, detect, status | VM (stopped or running), config, download |
| Root manager | `nux-core/src/root` | boot images, root mode in the config | patch, set mode, unroot | ADB, config, the guest that boots |
| Configuration | `nux-core/src/config` | TOML files, global and for each instance | load, merge, migrate, validate, save | every manager |
| Input manager | `nux-core/src/input` | multi-touch slots, pinch, grab, display metrics, socket | key, motion, click, scroll, pinch, grab, resize | crosvm's input socket |
| Keymap table | `nux-core/src/keymap`, `nux-ui/src/overlay.rs` | active keymap, its resolution, the labels on the window | load, unload, rescale, lookup, hints | keymap files, the overlay |
| Display pipeline | `nux-core/src/display` | frame channel, pacer, FPS window | send, present, shut down | capture backend, UI |
| Audio | `nux-core/src/audio` | volume, mute | set, toggle, estimate latency | config, adb |
| Widgets, scripts | `nux-ui/src/{settings,toolbar,overlay}.rs`, `scripts` | none of their own | | the launcher |

What is hard in them, and what makes each correct:

- **VM manager.** An operation may be dropped at any `await`, crosvm may die or
  keep silent at any time, Nux may die between spawning crosvm and writing its
  PID. Correct: handles and reported state agree, no crosvm is lost or doubled,
  commands reach the manager's own crosvm, an operation ends.
- **Host.** Each check looks at a host that may change before the next; passt
  may be slow, die, or be left over from an earlier run at the same socket path.
  Correct: what was found ready is usable, a socket that was waited for is the
  process's own, a process that nobody holds is one that timed out or outlived
  its program.
- **VM launcher.** Handlers check a flag that a timer sets much later; threads
  and timers of several starts coexist; the application may end without
  stopping QEMU. Correct: every QEMU is held or known to be let go of, "not
  running" is true when it is said, an end is noticed.
- **Window.** Several handlers learn that a VM runs or has ended, and one flag
  stands for any number of installs. Correct: the actions follow the VM; closing
  leaves no QEMU behind, and asks before it exits over an install.
- **ADB streams.** All operations share one connection, and a timeout, a dropped
  future or a finished transfer leaves messages for the next. Correct: an operation
  that only finished commands came before takes its own messages, its success is a
  success, and a push ends; so does a pull, if each WRTE is one sync message.
- **ADB connection.** A task announces states for a client it does not share.
  Correct: operations use a handshaken transport and its own stream table;
  after a disconnect no task goes on.
- **Keymap engine.** Threads lift touches whatever became of the keymap; the
  keymap switches itself off. Correct: its flags are the guest's touches, and
  each touch has something left to lift it.
- **Google Services.** Several file operations that may each fail or be the
  last before a crash, around a download of minutes. Correct: a whole overlay
  is not lost, a failed switch changes nothing, the config names the provider that
  the overlay is marked for or, once it was detected, the one the guest shows.
- **Root manager, configuration.** A copy over the image in use, a config saved
  in place, steps called one by one in any order. Correct: the mode in the config
  has an image, of that mode; a guest runs what the config names or a restart is
  asked for; what was saved whole is what is loaded over a global file that can be.
- **Input manager.** Slots and tracking ids over clicks, pinches and grabs that
  interrupt each other, on a connection that breaks. Correct: what is down comes
  up, two fingers are two, a motion is what the pointer travelled, a position is
  the pixel under the pointer.
- **Keymap table.** Bindings are scaled from an authored resolution to a display
  that may change, in numbers that are cast to an i32, and labels drawn once.
  Correct: a binding touches where it was authored to however often it was
  rescaled, and its label covers that in a window that was not resized.
- **Display, audio.** A frame is presented once and the newest wins; arithmetic
  stays in range.

`PROJECT.json` lists the hazards of each at its line, with the properties that
would notice it going wrong, and the definitions of each module with the lines
they model.

## 2. The modules

A definition named `...Mutant` is no part of a specification: it is what a
plausible slip in the code would make of the definition that follows it, and
is there to see that the properties would notice.

### VmManager, with VmState, VmLifecycle and MCVmManager

`VmState` has the lifecycle's states and the table of `can_transition_to`.
`VmLifecycle` is what the manager promises: a state that moves along that
table, with the forced kill that `mod.rs` adds, and whether a process is owned.
`VmManager` is the code: `VmManager`, `VmProcess`, `ControlClient`, the PID file
and the control socket, and crosvm.

| state | code |
|---|---|
| `state`, `process`, `control` | the fields of `VmManager` |
| `stream`, `toVm`, `fromVm` | `ControlClient.stream`: its other end, and what is in it each way |
| `pc`, `tries`, `fresh` | where the one operation in progress stands, with its locals |
| `pidFile`, `sock` | the files that a later run of Nux finds |
| `vm`, `halted`, `term` | each crosvm process: its status, its vCPUs, whether it was sent SIGTERM |
| `inherited` | a process that the child started has its stderr, a pipe that the manager reads |
| `unrecorded`, `unanswered` | history: spawned without a PID file; a command whose reply was not waited for |

An operation is one action for each stretch between two points at which
something else can happen. `start` is `StartBegin`, `StartFails`, `CheckOrphan`,
`KillOrphan`, `SpawnChild`, `RecordPid` or `RecordFails`, then rounds of
`StartExited`, `StartConnects` and `StartRetries`; `pause` and `resume` are a
`...Begin` that sends and a `...End` that reads the reply, fails or times out;
`stop` adds `StopSignal`, `StopKills` and `StopEnd`; `force_kill` is `ForceKill`
with the same end, `ForceStop` or `Discard`. `StartExited` and `StopEnd` wait for
the child as `VmProcess::wait` does: for its exit, and then, without a deadline,
for the end of file on its stderr (`Waited`), or with the error of the wait itself
(`WaitFails`). `Cancel` drops the future, `Relaunch` is the death of Nux (with the
parent-death signal to its child) and its next run. `Bind`, `Exit` and `Serve` are
crosvm; `Inherit` and `HeirsEnd` are what crosvm starts itself.

### VmHost, with MCVmHost

What a start looks at before VmManager's `StartBegin`, and the network it is
given. `host` is what there is: files, /dev/kvm, the CPU's virtualization, the
bridge, passt's binary; `Change` alters one thing at any moment of a start.
`Begin` takes a config and a backend; `LookForBridge` and `LookForPasst` are
`select_backend`; `SpawnPasst`, `CannotSpawn`, `SocketFound`, `SocketTimeout` and
`StopPasst` are `PasstProcess`, over `procs`, the socket file `passtSock`, and the
handles `child` and `handle`; `Validate` is `VmConfig::validate`, `CheckDevice`,
`CheckApi` and `CheckCpu` are `check_kvm_readiness`, `Build` makes the
`BuildCommand`. Its specification is `HSpec`: the names have an H where VmManager
has the same, so that one module can prove about both.
`PasstBinds` and `PasstEnds` are passt, `Quit` a program that ends without `stop`.
`steady`, `alone` and `strays` are history: that the host did not change, that no
other passt was there, which processes were let go of.

### VmLauncher and Window, with MCWindow

The window's own way of running QEMU. Handlers and timers run on the UI thread,
one at a time (`ui` says whether `VmLauncher::stop` is blocking it); each start
runs `start_kernel` on a thread of its own (`thread[s]` is its stage).
`StartVm` is the action of the start entry; `Check`, `FindImage`, `CreateImage`,
`FormatImage`, `Launch` and `Store` are the thread; `PollStart` is the timer that
learns its outcome, and `MonitorEnds`, `MonitorSeesBoot` and
`MonitorSeesNothing` are the boot monitor; `StopBegin`, `StopAsks` and
`StopEnds` are stopping, by the entry or the closing window; `Exit` ends the
application, `Reopen` starts it again. `Bind`, `ComeUp` and `Die` are QEMU.
`stray` remembers which QEMUs were let go of alive.

`Window` composes the launcher with what the window does around it. `enabled` is
the sensitivity of the actions that need a VM, changed by `Report`, `Stopped`,
`FindGone` and `ReopenWindow`, which are the launcher's `PollStart`, `StopEnds`,
`MonitorSeesNothing` and `Reopen` with that call; `Launching` and `StopVm` are its
other handlers. `OpenChooser`, `Choose`, `Installed` and `PollInstall` are the
install of an APK, on a thread that a timer asks; `installing` is
`UiState.apk_installing`. `Close`, `CloseStopped` and `CloseIdle` are the close
handler with its question, `Leave` its answer, the quit action or a crash.

### AdbStreams

`shell_exec` (the loop of `capture_screenshot` is the same), `push_file` and
`pull_file` on one transport, over the streams of `StreamManager`. `op`, `stage`,
`request`, `remote` and `output` are an operation's locals; `toHost` and
`toGuest` the messages in flight; `torn` says that a read was dropped inside a
message. `OpenShell`, `ShellOkay`, `ShellData`, `ShellEnds` and `ShellTimesOut`
are the shell; `OpenSync`, `SyncOpened`, `OpenTimesOut`, `Acked`, `Reply` a
transfer; `Unexpected` and `ReadFails` its errors; `Cancel` the dropped future;
`Connect` a new transport. `Guest...` is adbd, external to the repository and
modelled from what the client expects of it; `GuestPacks` is its writes of a pull
where they do not put each sync message whole, and alone, in a WRTE.

### AdbConnection, with MCAdbConnection

`AdbClient` around its operations. `state`, `transport`, `table` (the stream
table: empty, of this transport, of another), `handle` are its fields; `shown` is
the watch channel; `task`, `delay` and `aborted` the reconnect tasks. `connect`
is `ConnectBegin`, `ConnectSelects`, `ConnectShakes`; `disconnect` is
`DisconnectBegin` and, once the transport is closed, `DisconnectEnd`;
`StartAutoReconnect`, `Operate` and `Cancel` are the rest of the client. A task
is `Wake`, `Announce`, `TaskSelects`, `TaskShakes`. An abort ends it where it waits;
one that meets it in the middle of a poll, on another worker thread, lets it go
on to its next wait (`Vanish`). `slips` remembers the ways in which a task escapes
a disconnect. AdbStreams is what happens within one `Operate`.

### KeymapTouch, with MCKeymapTouch

nux-ui's `KeymapEngine`: how keys and the mouse become touches. `active`,
`wheel` (`steer_keys`), `ads` and `holding` (`steer_active`, `mouse_active`,
`toggle_state`) are its fields; `taps`, `pulls` and `drags` count the threads that
will lift a click's touch, put down a drag's and lift it; `down` is what the
guest has down, `pressed` what the keyboard has. `SwitchOn`, `SwitchOff`,
`AdsDown`, `AdsUp`, `NodesDown`, `WheelUp` and `KeyElsewhere` are the key
handlers, `MouseButton` and `MouseMove` the mouse's, `TapEnds`, `DragBegins` and
`DragEnds` the threads, `Connect` the arrival of the shared socket.

### InputManager and KeymapTable, with MCInputManager

`InputManager` is nux-core's. Each handler makes one batch of events and
`Inject`s it whole or not at all: `device` is what the guest's virtio-input
device has after it (keys, BTN_TOUCH, the tracking ids of two slots, the latest
relative motion), `held`, `button` and `pointer` what the host's user does.
`HandleKey`, `HandleMotion`, `HandleScroll`, `LeftPress`, `LeftRelease`,
`RightPress`, `EndPinchIfActive`, `ToggleGrab` and `ResetGrabPosition` are the
handlers, `UpdateHost` and `UpdateGuest` the metrics, `Connect` and `Disconnected`
the socket. `MapHostToGuest` is the mapping of positions, in exact arithmetic.
Tracking ids wrap at `MaxId` as an `i32` does.

`KeymapTable` composes it with nux-core's keymap engine and the window's overlay,
which are of the same screen: `LoadStr` (validation, and what is refused changes
nothing), `Unload`, `UpdateResolution`, `Lookup`, `OverlayHints` and the overlay's
toggle. `ScaleBinding` scales what was authored, rounding as the code does:
`ScaleAxis` has the cast of an f64, which stops at the ends of the i32s, and the
division by an authored 0; `WrapInt` the casts and sums of integers, which wrap
(as a release build's do). `MaxInt` stands for the greatest i32. A label is put
with its upper left corner `LabelInset` left of and above the place it is for, and
is at least `LabelSize` large: 16, and 24 by 24 with a padding of 8 and 4 at each
side, in the code.

### ConfigStore and RootPatch, with MCInstance

`ConfigStore` is `config/`: a config is a function from any set of fields, a file
is absent, garbled or a table of some of them; `Load` resolves the instance's
over the global one over the defaults, `Save` writes in place and `SaveFails`
leaves what was there, nothing, or a prefix. `RootPatch` composes it with the root
manager: `images` are the boot images by mode, `call` the steps that the call in
progress still has to take (the workflow whole, or any step alone), each of
which may fail (`StepFails`) and a copy be cut short; `Boot` runs the image that
`active_boot_image_path` names.

### ProviderSwitch

`switch_provider` of nux-core's Google Services manager. `overlay` and `backup`
are directories that are absent, whole with a provider's marker, or torn; `part` and
`package` the download; `config` the saved provider. `step` is the operation it
awaits: `Clean`, `Copy`, `UseCached` or `Download` and `Publish`, `Reset`,
`Create`, `Mark`, and the caller's `Save`. `BackupFails`, `TransitionFails`,
`Remove`, `Rename`, `RestoreFails` and `SaveFails` are its failures and the way
back, `Crash` the end of the process with any operation half made. `VmStart`,
`VmStop` and `Detect` are the virtual machine and the status that is read from
it. A guest shows the base image's packages (`Shown`), or none if the marker says
so: of a downloaded package nothing is put into the overlay but the marker.

## 3. The runs

Deadlock is checked in every run. Where the system may rest for ever a step of
the environment is always possible, so a deadlock would be the model's mistake.

| run | what it asks | bounds |
|---|---|---|
| `vm_safety` | handles, files, socket and guest stay consistent through every interleaving, failure, dropped future and relaunch; the manager implements `VmLifecycle` | three processes, two rounds of the connect loop, two messages in the socket, all faults; processes symmetric |
| `vm_live` | a start ends Running or Failed, a stop ends with the process dead and is reported, unless a process that outlives crosvm keeps its stderr open | two processes, two rounds, three messages; the PID file may not be written |
| `vm_crash` | *violated:* a crosvm that dies is noticed | as `vm_live` |
| `host` | a start runs crosvm on a host that has what is needed, with the best backend; passt's socket is the own process's; none is forgotten | two passt processes, two paths, three configs, three kinds of /dev/kvm; processes symmetric |
| `launcher` | no QEMU is lost, "not running" is true, a running VM is watched and its end noticed, the actions follow it, closing leaves no QEMU that was reported and does not exit over an install unasked | two starts, two installs |
| `launcher_bootstrap` | *violated:* `is_bootstrapped` tells that the bootstrap was performed | as `launcher` |
| `adb_streams` | after finished commands only, an operation's success is true, it reads nothing of another, and a push ends; so does a pull while each sync message comes in a WRTE of its own | two operations on one connection, two pieces |
| `adb_connection` | the watch channel is the client's state, a disconnect stops the task, a held task announces a guest that stays | two tasks, delays of 500 and 750 ms |
| `keymap` | flags and touches agree, what is held is held, off means released, taps end | two wheel keys, a click, a click with switch_map, a key with a toggle and a drag; two threads of a node at a time, one for the switch_map click |
| `input` | no ghost touch, two fingers are two, a motion is the travel, a position is the nearest pixel; bindings touch where they were authored to, and in a window not resized their labels are over that | two surfaces, two screens, two positions, one key, tracking ids -2 to 1, coordinates -10 to 9; a keymap with points and a radius beyond them and one axis authored as 0 long, one that is refused and a file that has none |
| `provider` | a failed switch changes nothing, a crash loses no whole overlay, the config follows it | none but the three providers of the code |
| `instance` | what was saved whole is loaded over a global file that can be, the mode in the config has its image, the guest runs what the config names | two rooting modes; two fields, one of them an Option; two global files |

Why they are enough:

- **vm.** One process is the manager's, one is left of an earlier run and may
  still listen, a third is spawned after both: the wrong-socket and two-VMs
  cases need no more. Two rounds of the connect loop have a first, which goes
  on, and a last, which gives up; the code's ten differ in nothing else. Two
  messages in a socket are a late reply and the command it is mistaken for. For
  the liveness runs two processes with three messages suffice: nothing in them
  depends on an orphan's orphan.
- **host.** A second passt is the one left over by an earlier run; a third would
  be left over as it is. Of /dev/kvm there is one that fails the first check, one
  that fails the second, and one that is good; the others fail at the same places.
  A config each is accepted on some host, needs one file more, and is refused on
  every host, by its last mebibyte. A host differs from the next in one thing, so
  a change of two is two changes.
- **launcher.** Two starts overlap, or one follows the other's stop, crash or
  relaunch; each hazard listed is of one start against another or against a stop.
  Two installs overlap, and that is what their one flag cannot tell.
- **adb.** What an operation leaves behind is met by the next one. Two pieces of
  data have an order. `Connect` begins a new connection with nothing in flight,
  which is what the code makes it.
- **adb_connection.** One task is held while another was detached or is aborted
  in a poll; a third would stand to the second as the second to the first. Two
  delays have the doubling and the limit.
- **keymap.** Two keys of the wheel are the least for one to be lifted while the
  other holds. Two threads of a node meet when its key repeats within a tap.
  `MaxThreads` guards only that bound: a key whose thread could not be counted
  is not pressed.
- **input.** The surfaces are wider and taller than the screens, larger and smaller
  (on one of no size nothing is drawn, and the properties say nothing); one position is off the surface. With ids up to 1 a pinch begins on
  either side of the overflow. `MCInputManager` has keymaps with every type of
  binding, authored for another screen and for the same; one has a key twice.
- **provider.** It has no bound, the state being finite.
- **instance.** Two rooting modes differ from each other as any do: the image of
  one under the name of the other. The mode comes first in the file, so a file
  that was cut short has it without the field after it, or has nothing.

### What the violations show

1. **A crosvm that dies is not noticed** (`CrashNoticed`). Nothing waits for the
   child after `start`, and no code sets `Crashed`, which the specification of
   crosvm-integration asks for.
2. **A bootstrap that was interrupted counts as performed**
   (`BootstrappedMeansPerformed`). Only the existence of userdata is looked at.

### Where the passing properties end

`AnsweredMeansAgreed`, and the conditions `clean`, `kept`, `stray`,
`smooth`, `steady`, `alone`, `wrapped`, `skipped` and `overlapped` of the passing
properties say how far these reach: apart from them the guarantees hold. What
lies beyond, as the models or the reading of the code show it:

- **vm.** After a command's timeout the stream is kept, and its late reply is
  taken for the next command's: a VM may be reported Paused while its vCPUs run
  (`control.rs:133`). A wait for a child that ended reads its stderr to the end
  (`process.rs:169`), so `stop`, `force_kill` and a start that failed hang as long
  as a process it started has that open. A PID file may outlive its process, and its PID be given to
  another program, which `cleanup_orphan` then signals.
- **launcher.** Two first starts both find no image, and the later mkfs formats
  one that the earlier's QEMU runs from. The quit action ends the application
  without its close handler, and QEMU goes on, where the app-shell specification
  asks for a graceful shutdown; so it does when the window is closed while a start
  is still to be reported. Closing stops the VM before it asks about an install,
  which is cut off whatever is answered (`window.rs:779`); with two installs, the
  first to end clears the flag of both, and closing does not ask. A screencap that fails
  leaves the /sdcard/screenshot.png of an earlier one to be pulled
  (`vm_launcher.rs:340`).
- **adb.** `shell_exec` never compares a message's stream with its own: after a
  timeout the output of the earlier command, which is sent no CLSE if its OKAY was
  still to come and runs on, may be the next one's. A timeout may drop a read in
  the middle of a message, and every later read starts inside it. Every push and
  pull leaves the answer to its QUIT for the next operation (`sync.rs:167`).
  `pull_file` takes one sync message of each WRTE (`sync.rs:309`): when adbd puts
  several into one, pieces are lost and the pull may wait for ever for a DONE it
  has been sent; when one is cut in two, its second part is taken for a message.
- **adb_connection.** `slips` remembers how a task escapes a disconnect: a second
  `start_auto_reconnect` detaches the first task, which then announces states that
  no disconnect ends, and a task's Connected comes from a transport it has
  dropped, so watchers may read Connected while the client refuses every operation
  (`types.rs:51` has "Connected and ready for operations").
- **keymap.** Switched off by its key, the keymap leaves the fire touch down, and
  letting go of the button afterwards is ignored.
- **provider.** A failed switch away from the base image has no backup, so the
  half-made overlay stays (`overlay.rs`, `restore_overlay`); nothing looks for a
  backup after a crash. A VM may be started while a switch downloads, which looked
  for one only before (`switching.rs:52`). A switch to GApps writes a marker and no
  package (`overlay.rs:98`): the next detection finds microg and sets the config
  back, and a switch to microg, which would remove the marker, is then refused as
  already active.
- **input.** The second finger of a pinch is at width - x, which for x = 0 is one
  past the last pixel. After a billion pinches the tracking ids are negative, and
  -1 lifts the finger it should put down (`translate.rs:64`). A pinch keeps the grab's last position, so the
  motion after it may jump (`manager.rs:170`).
- **keymap table.** The overlay's labels are made when it is shown: they stay where
  they were when the window is resized (`overlay.rs:59` says that it is called when
  the display is). A label is not centred on its place, as `overlay.rs:113` has it:
  the 16 pixels are half of no label, so `LabelCoversTouch` says that the place is
  under it. Its CSS class compares with "Joystick", and `type_name` says
  "joystick". A radius of 2^31 or more is accepted as positive (`format.rs:250`) and
  becomes negative (`keymap/mod.rs:310`), and an authored resolution of 0 is not
  refused and divides by zero: the properties except both, as nothing holds of them.
- **instance.** A copy over the image of the mode in the config that is cut short
  leaves a torn one, which `resolve` accepts unless it is empty. `load` takes a
  file that it cannot parse for one that sets nothing, where its comment
  (`config/mod.rs:28`) promises an error, as the config-migration specification does
  for a file of a newer schema, and the next save replaces it: `SavedIsLoaded` is of
  saves that were whole and of a global file that can be loaded.
- **host.** A `Child` of passt that is dropped after its startup timeout lives on
  and holds the forwarded port and the socket's path, and the file that the next
  spawn waits for may be that one's.

### Fairness

- `VmManager`: weak fairness of `ManagerStep` alone. Timers fire and the runtime
  polls a future it was given. Nothing is assumed of crosvm, which may keep
  silent, of what it started, which may keep its stderr for ever (`HeldUp`: then
  the wait does not end, and the properties say so), or of the user; in the liveness runs no future is dropped, as nobody
  owes a dropped future its end.
- `VmHost`, `InputManager`, `KeymapTable`, `RootPatch`: none; their properties are
  about what must not happen. Of the user, the guest, passt and the host nothing
  is assumed.
- `VmLauncher`: weak fairness of a blocking stop and of the threads. The wait for
  QEMU has a deadline; that the adb and socat commands a stop, a monitor or a
  thread runs come back is assumed, as they are run without one. The main loop dispatches timers that are due whenever a handler
  returns, but the user may keep making it run handlers, so the timers are
  enabled again and again rather than always: strong fairness. None of QEMU. Of
  these, `Window` keeps what its liveness needs: the stop, and the boot monitor's
  finding that QEMU is gone.
- `AdbStreams`: weak fairness of the operation in progress while it can read and
  of adbd answering what it reads. No timeout, cancellation or new connection is
  owed, nor is the end of a command.
- `AdbConnection`: weak fairness of the client's pending future and of each
  task, timers and timeouts included. None of the guest: `Reconnects` assumes in
  its statement that it comes to stay.
- `KeymapTouch`: weak fairness of the threads, which only sleep.
- `ProviderSwitch`: none; it has no liveness property. A package whose download
  never ends keeps a switch open, since no timeout is set.

## 4. The proofs

`..._proofs` modules state the theorems for every value of the constants. Each
has an inductive invariant `IInv`, a lemma for each of its parts that a step
preserves it, one proof step for each action that can disturb it, and the
temporal theorems by PTL. Every invariant that a passing run checks is proved, the
inductive ones having been checked with TLC first.

**VmManager_proofs.** The stated invariants do not follow from themselves:
between two awaits the state says more than they do. `Phases` ties `pc` to the
state and the handles (a pending pause is of a VM reported Paused, a connect
loop holds a process and no stream); `Files` says that the PID file names
what is held whenever the operation is past recording it; `Born` that a process
that was not spawned yet is nowhere; `Agreement` that while every command got its
own answer at most one message is in the socket, and that the guest is as
reported or the one command in flight makes it so. From these: `TypeCorrect`,
`HandlesCorrect`, `NoVmIsLost`, `OneVmAtATime`, `CommandsReachOwnVm`,
`AnswersAgree`, the action property `LiveVmIsKept`, and `Implementation`: under
the mapping `owned <- process # NoVm` each step is a step of `VmLifecycle` or a
stutter. `OwnsWhileUp` is what it inherits from the lifecycle's own invariant: up
means owned, idle and stopped mean not, and Crashed is never reported.
`StartSettles` and `StopSettles` rest on two more: `OperationsGetOn`, every step of
an operation lowers the number of steps left of it (`StepsLeft`, at most
`MaxTries + 4`) and nothing that crosvm or what it started does raises it; and `NothingIsLeftHalfway`,
a VM is reported stopping only while stop is in progress unless its future was
dropped, and starting only while start is unless that, or the wait for a process
that had ended failed.

The host that it starts on is in the same module. `HInv` has three parts.
`PasstInv` ties passt to the step that the setup is at: a `child` waits only for
the socket, a `handle` is kept only after it, a child that nobody holds is a
stray, and while no other passt was there (`alone`), the file at the path is the
bound process's own; from it `SocketOwn` and `NoPasstStrays`. `SelectInv` and
`CheckInv` say what each check that was passed says of a host that did not
change since: which backend was looked for and found or missing, and which of
the conditions of `validate` and `check_kvm_readiness` hold at each step;
`Ready` is their end, hence `HostUsable`. `PreferredIs` is the choice among the
backends, whose CHOOSE has one answer.

**VmLauncher_proofs.** `SpawnedLate`: a start's QEMU does not exist before its
thread launches it, nor after the launch failed. `Reported` is
`NotRunningMeansStopped` for every state of the UI thread: it must hold while a
stop blocks it to hold when that stop returns. `WindowImplements` is the
refinement `WSpec => Spec`, step by step: each of the window's handlers is one of
the launcher's or leaves its variables alone, so what is proved of the launcher
holds in the window that the run checks. `ClosedStopped` follows from `Reported`
and `QemuAccounted`: what closing stops is the one held, and what it does not stop
is not there. `OneFlag` is what `ExitAsks` rests on: until two installs overlap
there is one at most, and adb runs only with the flag set; `ActionsFollowVm` is
inductive with the types.

**AdbStreams_proofs.** The client takes the next message for its own, so what it
returns is right only if the right message is next. `IInv` says which: as long as
the connection is `clean` (only commands that ended with their output came before,
and each sync message came in a WRTE of its own), `Alone` (no stream but the operation's is open at adbd,
nothing is under way between operations) and `Flow`, the contents of both
directions for each stage: an OPEN on its way or refused (`NotOpen`); of a command
its OKAY, the texts not read yet, counted by `Unread`, and its end (`ShellStream`);
of a transfer the request, its acknowledgment and the guest's replies
(`Exchange`, with `PushStream` or `PullStream`). `Frozen` says that what a success
leaves under way cannot change what it succeeded in. The sequence lemmas at the
head reduce `Append`, `Tail` and `\o` to places and lengths; what follows has a
lemma for each action, and `NextSound` puts them together. From these
`SuccessIsCorrect` and `NothingIsLeftOver`, for any number of operations and pieces.
For `TransferEnds` the proofs give what it asks of safety. `WaitInv`: in a push or
pull on a clean connection adbd may write or an acknowledgment that lets it is
coming (`MayWrite`), and what the client awaits is there or owed (`Awaited`); so
`TransferNeverStuck`, it can always go on. `Left` counts what remains: the messages
under way, the replies to come, and the requests, each at more (`Weight`) than one
can bring about. `TransferGetsOn`: every step of client and guest that goes on
with it lowers it. That such steps are taken is fairness, and that step is TLC's.

**AdbConnection_proofs.** `Held`: as long as nothing slipped, a task that goes on
is the one whose handle the client has, so without a handle nobody else has the
channel's other end. `TableIsTransports` is inductive by itself.

**KeymapTouch_proofs.** `Sent`: nothing is down without a socket. `Quiet`: off by
its key, the engine holds nothing. `WheelFollows`: the wheel's touch needs a key in
`steer_keys`, and unless a switch_map click made the engine miss a release, those
keys and the ADS key are held on the keyboard.

**ProviderSwitch_proofs.** `Phase`: what overlay and backup hold at each step of
a switch, relative to the overlay it began with. `Known`: while all goes
smoothly only a guest started during a switch runs then, and the config follows
the overlay it began with until the new one is saved; `OverlayFixed`: any other
guest that runs has the overlay it started from, so what is detected is of it. `Fetched`: what is about to be
published is whole.

**InputManager_proofs.** `Unreached`: a device that cannot be reached has nothing
down. `PinchIsHeld`: only a pressed button pinches, or a release with Ctrl let go
would leave fingers. `LastFollows`: the grab's last position is the pointer's, or
older because a pinch took the motions since; from it a motion is the travel.

The numbers of the table are products and quotients of variables, which the
solver does not decide. `ProductGrows` and `ProductSteps` are what it needs to
know of a product; on them rest `Rounds` (what is rounded half away from zero is
within half of the quotient), `NearestMultiple` and `NearestClamped` (no whole
number is nearer, and none of the range once it was brought into the range).
`MappedIsNearest` is then `PixelIsNearest` for every surface and every guest.
`TightFits` shows that of the ways to fit a picture into a surface (by width or
by height) the one that `Drawn` chooses does not matter where both fit. For the
keymaps, `RecalculatedIsNearest` and `ScaledIsNearest` do the same for one
rounding of what was authored, and for the cast that follows it. `TableInv` says that what is loaded, and what the
labels were made from, passed `Validate`; `KeyIndexed`, that a table so
validated has each key once, so the binding inserted last for a key is the key's
own; `SameProportion` and `LabelIsOver`, that a label is placed by the proportion
the picture is drawn by, so that it covers the place it was made for. From these `TouchesCorrect` and `LabelsCorrect`,
after any number of rescalings. `TableImplements` is `TSpec => Spec`: loading,
rescaling and labels leave the devices alone, so what is proved of the input
manager holds in the run's composition.

**RootPatch_proofs**, with ConfigStore. `ImagesOwn`: a mode's image is of that mode
or torn, which needs `StoresOwn`: in what is left of a call a store comes next only
after its pull, for the same mode, so what lies in the temporary file is its own.
`NamedHaveImages` says of the config what `RootedHasImage` does, and of the
instance's file too, since a load brings that back, and of the global file that
it names no mode. `SavedIsFile` makes `SavedIsLoaded` follow from the types;
`BootedIsBooting` does it for `RootedAsNamed`. The lemmas about `Over`, `Resolved`
and `CutShort` hold for any fields and any values of them.

Assumptions, each named in the module that declares the constant and evaluated
by TLC in its runs:

| assumption | why the code justifies it |
|---|---|
| `VmsAssumption`, `StartsAssumption` | "no process" is no process |
| `BoundAssumption` of VmManager | the connect loop has at least one round |
| `FaultAssumption` | the faults are the four modelled |
| `TaskAssumption`, `DelayAssumption` | "no handle" is no task; the first delay is positive and not above the limit |
| `KeyAssumption`, `NodeAssumption` | the switch, ADS and wheel keys are bound keys; a node is of one kind, and its pointer is no other's |
| `BoundAssumption` of KeymapTouch | a node may have a thread |
| `ProviderAssumption` | the base image's provider is one; only overlays are downloaded |
| `BoundsAssumption` of AdbStreams | there is an operation, and a piece |
| `InstallsAssumption` | an install may be begun |
| `SizeAssumption`, `KeyAssumption`, `IdAssumption` of InputManager | sizes are unsigned, a guest's positive; KEY_BACK is a key; ids go to a positive number |
| `FileAssumption` of KeymapTable | what serde accepts as a keymap, with i32 points and a u32 radius; its bindings are a list |
| `WidthAssumption`, `LabelAssumption` of KeymapTable | i32::MAX is positive; 16 is less than the least width and height of a label, 40 and 32 |
| `FieldAssumption` | an Option is a field; the default is a config; no value is the absence of one |
| `ModeAssumption` | root.mode is a field that is always set, None by default; a user who edits the global file by hand names no rooting mode there, which would have no image |
| `ConfigAssumption`, `BackendAssumption`, `ProcAssumption`, `KvmAssumption` of VmHost | the types of VmConfig, the backends, and what a check may find |

Only model-checked: liveness (`StartSettles`, `StopSettles`, `EndNoticed`,
`TransferEnds`, `DisconnectStops`, `Reconnects`, `TapsEnd`), since TLAPS has no
rules for fairness that its backends could use here and no ENABLED. For the first
two and `TransferEnds` the safety half is proved, as above. Induction over
data, and so what a recursive definition computes, is out of the provers' reach as
well; no module proved about uses RECURSIVE.

## 5. Not modelled

`PROJECT.json` gives the reason for each component. Whole components:

- **Display pipeline.** Its capture backends detect a render node and wait, as the
  frames that crosvm is to send are not there yet; what is left is a watch channel,
  two counters and a clock's window. (`shutdown` says that receivers see `None` at
  the end, `display/mod.rs:154`; a dropped sender leaves the last frame.)
- **Audio.** A volume with a mute flag and arithmetic over periods; nothing
  concurrent uses it.
- **Settings, toolbar, scripts, packaging.** Widgets that show the launcher's
  state, shell scripts, data.

Within modelled ones:

- VmManager: the arguments of crosvm, reuse of a PID by a foreign program.
- VmHost: the warning about EPT/NPT; `validate_bridge`, which nothing calls; how
  names, ports and MAC addresses are put together.
- VmLauncher, Window: the one-line adb commands, fullscreen, window geometry.
- AdbStreams: the bytes of a message, the fallback between TCP and virtio-serial.
- AdbConnection: dropping the client, which aborts the task as disconnect does;
  what the operations made of several make of a command's text.
- KeymapTouch: positions and speeds; KMT_CLICK_MULTI, whose thread ends each tap
  it begins; loading a keymap.
- InputManager: absolute positions in the state of the device, which
  `MapHostToGuest` gives; the rounding of doubles.
- KeymapTable: TOML, the text and style of the labels beyond their least size, `SlotAllocator`, which nothing calls.
- ProviderSwitch: versions, `verify_hash` (no hash is known, so it returns at
  once), dropped futures, two instances that share the cache.
- ConfigStore: `validation.rs`, which nothing calls before a save, and the names of
  paths. RootPatch: which stock image a patched one was made from, and the files in
  the guest.

## 6. Plan

What would come next:

1. **Instance** with ProviderSwitch: both save the whole of one config file, each
   from the copy it loaded; today nothing runs the two together.
2. **VmHost** in front of VmManager's `StartBegin`, once something in the program
   calls the two together: the refinement to both is a matter of their variables,
   which no longer share a name.
3. The display pipeline, when a capture backend sends frames.

Runs keep to two actors and the least data that tells right from wrong, and stay
within a few minutes each.
