------------------------------- MODULE VmHost -------------------------------
(***************************************************************************)
(* What a virtual machine of nux-core needs of the host, and how a start   *)
(* looks for it: network/ selects a backend and runs passt for one;        *)
(* VmManager::start validates its VmConfig, checks KVM and builds crosvm's *)
(* command.  The host may change, and passt may come up late or end, at    *)
(* any moment.  VmManager models what start does from there on.            *)
(*                                                                         *)
(* Nothing in src/ calls the two together yet: the model's caller selects, *)
(* spawns passt if that was selected, and starts.  Names, ports and the    *)
(* arguments' wording are left out.                                        *)
(***************************************************************************)
EXTENDS FiniteSets, Naturals, Sequences

CONSTANTS
    Paths,     \* of kernels, boot images and disks
    NoPath,    \* an empty path
    VmConfigs, \* the VmConfigs to start
    Backends,  \* NetworkVmConfig: the backends to ask for, and "disabled"
    Procs,     \* bound: passt processes at a time
    Kvms,      \* bound: what /dev/kvm may be like
    NoOne

ASSUME ConfigAssumption ==
    /\ NoPath \notin Paths
    /\ \A c \in VmConfigs :
        /\ c.cpus \in Nat /\ c.ram_mb \in Nat
        /\ c.kernel \in Paths \cup {NoPath} /\ c.boot_image \in Paths \cup {NoPath}
        /\ c.disks \subseteq Paths
        /\ {c.gpu, c.audio, c.tap} \subseteq BOOLEAN
ASSUME BackendAssumption == Backends \subseteq {"auto", "tap", "passt", "disabled"}
ASSUME ProcAssumption == NoOne \notin Procs

(* /dev/kvm is missing, no character device, or may not be opened; KVM     *)
(* does not tell its version, has another, or lacks an extension.          *)
ASSUME KvmAssumption ==
    Kvms \subseteq {"missing", "file", "denied", "mute", "old", "poor", "good"}
Hosts == [files : SUBSET Paths,
          kvm : Kvms,
          virtual : BOOLEAN,                      \* VT-x or AMD-V
          bridge : {"none", "plain", "bridge"},   \* the interface of that name
          passt : BOOLEAN]                        \* passt is on $PATH

VARIABLES
    host,    \* a member of Hosts
    step,    \* where the start is
    config,  \* its VmConfig
    wanted,  \* and backend
    setup,   \* NetworkSetup.backend
    failed,  \* KvmReadinessReport: the checks that did not pass
    args,    \* the command crosvm was spawned with
    procs,   \* what each passt process does
    passtSock, \* who made the file at default_socket_path
    child,   \* the PasstProcess that spawn is about to return
    handle,  \* the PasstProcess that the caller has
    steady,  \* history: the host is as it was when the start began
    alone,   \* history: no other passt was there when child was spawned
    strays   \* history: processes whose PasstProcess was dropped

startVars == <<step, config, wanted, setup, failed, args>>
passtVars == <<procs, passtSock, child, handle, alone, strays>>
hvars == <<host, startVars, passtVars, steady>>

Steps == {"idle", "bridge", "path", "spawn", "wait", "validate", "device", "api", "cpu",
          "build", "up", "failed"}
Resolved == {"none", "tap", "passt", "disabled"}

HTypeOK ==
    /\ host \in Hosts
    /\ step \in Steps /\ config \in VmConfigs /\ wanted \in Backends
    /\ setup \in Resolved
    /\ failed \subseteq {"kvm_device", "kvm_api_version", "cpu_virtualization"}
    /\ procs \in [Procs -> {"none", "starting", "bound"}]
    /\ {passtSock, child, handle} \subseteq Procs \cup {NoOne}
    /\ steady \in BOOLEAN /\ alone \in BOOLEAN /\ strays \subseteq Procs

HInit ==
    /\ host \in Hosts
    /\ step = "idle" /\ config \in VmConfigs /\ wanted \in Backends
    /\ setup = "none" /\ failed = {} /\ args = <<>>
    /\ procs = [p \in Procs |-> "none"]
    /\ passtSock = NoOne /\ child = NoOne /\ handle = NoOne
    /\ steady = TRUE /\ alone = TRUE /\ strays = {}

Goes(s) == step' = s /\ UNCHANGED <<config, wanted, args>>
Keeps == UNCHANGED <<host, steady>>

------------------------------------------------------------------------------
(* select_backend: the bridge is looked for first, then the binary.        *)

Begin(c, b) ==
    /\ step \in {"idle", "failed"} /\ handle = NoOne
    /\ config' = c /\ wanted' = b
    /\ step' = IF b \in {"auto", "tap"} THEN "bridge" ELSE IF b = "passt" THEN "path" ELSE "validate"
    /\ setup' = IF b = "disabled" THEN b ELSE "none"
    /\ failed' = {} /\ args' = <<>> /\ steady' = TRUE
    /\ UNCHANGED <<host, passtVars>>

BridgeExists == host.bridge = "bridge"
PasstAvailable == host.passt

(* select_auto and select_tap: auto takes an interface that is no bridge   *)
(* for none.                                                               *)
LookForBridge ==
    /\ step = "bridge"
    /\ IF BridgeExists THEN Goes("validate") /\ setup' = "tap"
       ELSE /\ Goes(IF wanted = "auto" THEN "path" ELSE "failed")
            /\ UNCHANGED setup
    /\ Keeps /\ UNCHANGED <<failed, passtVars>>

(* select_passt, and what is left of select_auto. *)
LookForPasst ==
    /\ step = "path"
    /\ IF PasstAvailable THEN Goes("spawn") /\ setup' = "passt"
       ELSE Goes("failed") /\ UNCHANGED setup
    /\ Keeps /\ UNCHANGED <<failed, passtVars>>

------------------------------------------------------------------------------
(* PasstProcess: one socket path and one forwarded port for all of them.   *)

Alive == {p \in Procs : procs[p] # "none"}

(* spawn removes the file that is there, whosever it is. *)
SpawnPasstMutant(p) ==
    /\ step = "spawn" /\ p \notin Alive \cup strays /\ host.passt
    /\ procs' = [procs EXCEPT ![p] = "starting"]
    /\ child' = p /\ alone' = (Alive = {})
    /\ Goes("wait")
    /\ Keeps /\ UNCHANGED <<setup, failed, passtSock, handle, strays>>
SpawnPasst(p) ==
    /\ step = "spawn" /\ p \notin Alive \cup strays /\ host.passt
    /\ passtSock' = NoOne
    /\ procs' = [procs EXCEPT ![p] = "starting"]
    /\ child' = p /\ alone' = (Alive = {})
    /\ Goes("wait")
    /\ Keeps /\ UNCHANGED <<setup, failed, handle, strays>>
CannotSpawn ==
    /\ step = "spawn" /\ ~host.passt
    /\ passtSock' = NoOne
    /\ Goes("failed")
    /\ Keeps /\ UNCHANGED <<setup, failed, procs, child, handle, alone, strays>>

(* wait_for_socket: any file at the path will do. *)
SocketFound ==
    /\ step = "wait" /\ passtSock # NoOne
    /\ handle' = child /\ child' = NoOne
    /\ Goes("validate")
    /\ Keeps /\ UNCHANGED <<setup, failed, procs, passtSock, alone, strays>>

(* No socket within PASST_STARTUP_TIMEOUT: the Child is dropped, which     *)
(* does not end the process.                                               *)
SocketTimeout ==
    /\ step = "wait" /\ passtSock = NoOne
    /\ child' = NoOne /\ strays' = strays \cup ({child} \cap Alive)
    /\ Goes("failed")
    /\ Keeps /\ UNCHANGED <<setup, failed, procs, passtSock, handle, alone>>

(* stop: kill, wait, and remove the file at the path. *)
StopPasstMutant ==
    /\ handle # NoOne /\ step \in {"failed", "up"}
    /\ passtSock' = NoOne /\ handle' = NoOne
    /\ step' = "idle" /\ UNCHANGED <<config, wanted, args>>
    /\ Keeps /\ UNCHANGED <<setup, failed, procs, child, alone, strays>>
StopPasst ==
    /\ handle # NoOne /\ step \in {"failed", "up"}
    /\ procs' = [procs EXCEPT ![handle] = "none"]
    /\ passtSock' = NoOne /\ handle' = NoOne
    /\ step' = "idle" /\ UNCHANGED <<config, wanted, args>>
    /\ Keeps /\ UNCHANGED <<setup, failed, child, alone, strays>>

(* The program ends without stop, and is run again. *)
Quit ==
    /\ step' = "idle"
    /\ strays' = strays \cup ({child, handle} \cap Alive)
    /\ child' = NoOne /\ handle' = NoOne
    /\ Keeps /\ UNCHANGED <<config, wanted, setup, failed, args, procs, passtSock, alone>>

(* passt itself: it takes the port and makes the socket, if the port is    *)
(* free and no socket there, or ends.                                      *)
PasstBinds(p) ==
    /\ procs[p] = "starting" /\ passtSock = NoOne
    /\ \A q \in Procs : procs[q] # "bound"
    /\ procs' = [procs EXCEPT ![p] = "bound"] /\ passtSock' = p
    /\ Keeps /\ UNCHANGED <<startVars, child, handle, alone, strays>>
PasstEnds(p) ==
    /\ p \in Alive
    /\ procs' = [procs EXCEPT ![p] = "none"] /\ strays' = strays \ {p}
    /\ Keeps /\ UNCHANGED <<startVars, passtSock, child, handle, alone>>

------------------------------------------------------------------------------
(* VmManager::start.                                                       *)

(* VmConfig::validate *)
Valid(c) ==
    /\ c.cpus >= 1 /\ c.ram_mb >= 512
    /\ {c.kernel, c.boot_image} \cup c.disks \subseteq host.files
Validate ==
    /\ step = "validate"
    /\ Goes(IF Valid(config) THEN "device" ELSE "failed")
    /\ Keeps /\ UNCHANGED <<setup, failed, passtVars>>

(* check_kvm_readiness: a check that does not pass keeps the machine from  *)
(* starting, once all of them were made; the version is asked only of a    *)
(* device that could be opened, by opening it again.                       *)
Checks(name, passed) == failed' = IF passed THEN failed ELSE failed \cup {name}

KvmDevice == host.kvm \notin {"missing", "file", "denied"}
KvmExtensions == host.kvm # "poor"
KvmApiVersion == KvmDevice /\ host.kvm \notin {"mute", "old"} /\ KvmExtensions
CpuVirtualization == host.virtual

CheckDevice ==
    /\ step = "device"
    /\ Checks("kvm_device", KvmDevice)
    /\ Goes(IF failed' = {} THEN "api" ELSE "cpu")
    /\ Keeps /\ UNCHANGED <<setup, passtVars>>
CheckApiMutant ==
    /\ step = "api"
    /\ Checks("kvm_api_version", KvmDevice /\ host.kvm \notin {"mute", "old"})
    /\ Goes("cpu")
    /\ Keeps /\ UNCHANGED <<setup, passtVars>>
CheckApi ==
    /\ step = "api"
    /\ Checks("kvm_api_version", KvmApiVersion)
    /\ Goes("cpu")
    /\ Keeps /\ UNCHANGED <<setup, passtVars>>
CheckCpu ==
    /\ step = "cpu"
    /\ Checks("cpu_virtualization", CpuVirtualization)
    /\ Goes(IF failed' = {} THEN "build" ELSE "failed")
    /\ Keeps /\ UNCHANGED <<setup, passtVars>>

(* build_command *)
Flag(on, arg) == IF on THEN <<arg>> ELSE <<>>
BuildCommand(c) ==
    <<"run", "--cpus", c.cpus, "--mem", c.ram_mb>> \o Flag(c.gpu, "--gpu")
    \o Flag(c.disks # {}, c.disks) \o Flag(c.audio, "--sound") \o Flag(c.tap, "--net")
    \o <<"--socket", "--boot", c.boot_image, c.kernel>>
Build ==
    /\ step = "build"
    /\ step' = "up" /\ args' = BuildCommand(config)
    /\ Keeps /\ UNCHANGED <<config, wanted, setup, failed, passtVars>>

------------------------------------------------------------------------------

(* The host changes while it is looked at; between two starts it would be  *)
(* no other thing than another host.                                       *)
Change(h) ==
    /\ step \notin {"idle", "failed", "up"}
    /\ host' = h /\ steady' = FALSE
    /\ UNCHANGED <<startVars, passtVars>>
(* One thing changes at a time. *)
Near(h) == Cardinality({k \in DOMAIN host : h[k] # host[k]}) = 1

VmEnds ==
    /\ step = "up" /\ handle = NoOne
    /\ Goes("idle")
    /\ Keeps /\ UNCHANGED <<setup, failed, passtVars>>

Select == LookForBridge \/ LookForPasst
Passt ==
    \/ \E p \in Procs : SpawnPasst(p)
    \/ CannotSpawn \/ SocketFound \/ SocketTimeout \/ StopPasst
    \/ \E p \in Procs : PasstBinds(p) \/ PasstEnds(p)
Start == Validate \/ CheckDevice \/ CheckApi \/ CheckCpu \/ Build \/ VmEnds
HNext ==
    \/ \E c \in VmConfigs, b \in Backends : Begin(c, b)
    \/ Select \/ Passt \/ Start \/ Quit
    \/ \E h \in Hosts : Near(h) /\ Change(h)

HSpec == HInit /\ [][HNext]_hvars

------------------------------------------------------------------------------
(* What holds.                                                             *)

(* What the host must have, as the errors of the checks have it.           *)
Usable(c) ==
    /\ c.cpus > 0 /\ c.ram_mb > 511
    /\ \A p \in {c.kernel, c.boot_image} \cup c.disks : p \in host.files
    /\ host.kvm = "good" /\ host.virtual
(* And the backends it has, best first. *)
Offered == <<"tap", "passt">>
Has(b) == IF b = "tap" THEN host.bridge = "bridge" ELSE host.passt
Preferred(b) ==
    LET fit == {i \in DOMAIN Offered : b \in {Offered[i], "auto"} /\ Has(Offered[i])}
    IN  IF b = "disabled" THEN b
        ELSE IF fit = {} THEN "none"
        ELSE Offered[CHOOSE i \in fit : \A j \in fit : i <= j]

(* crosvm is run on a host that has all that is needed, and not refused    *)
(* one; and with the best backend there is, if the host does not change    *)
(* while it is looked at.                                                  *)
ReadyIsUsable ==
    steady => /\ step = "up" => Usable(config)
              /\ failed # {} => ~Usable(config)
              /\ step \in {"spawn", "validate", "device", "up"} => setup = Preferred(wanted)

(* The socket that spawn has waited for is of the process it started, as   *)
(* long as no other passt was left behind.                                 *)
SocketIsOwn == handle # NoOne /\ alone => passtSock = handle

(* A passt process that nobody has a handle of is one whose start timed    *)
(* out, or whose program ended.                                            *)
NoStrayPasst == Alive \subseteq {child, handle} \cup strays

==============================================================================
