---------------------------- MODULE ProviderSwitch ----------------------------
(***************************************************************************)
(* nux-core's Google Services manager (gservices/): switch_provider makes  *)
(* over an instance's overlay directory, with a copy of it to go back to,  *)
(* a package to download for some providers, and a config that its caller  *)
(* saves.  Any of the file operations may fail or be the last one the      *)
(* process makes, and a virtual machine may be started meanwhile: whether  *)
(* one runs is a parameter, which switch_provider looks at once.           *)
(*                                                                         *)
(* A directory is absent, whole with the marker of a provider, or torn.    *)
(* What a package holds is not put into it.  The versions that are         *)
(* detected, and verify_hash, which has no hash to compare with, are left  *)
(* out.  A dropped future is not modelled: the operation that it awaits    *)
(* goes on without it.                                                     *)
(***************************************************************************)

CONSTANTS
    Providers,   \* GoogleServicesProvider
    Base,        \* the one of the base image, and of a default config
    Downloaded   \* those that come as a package

Absent == "absent"
Torn == "torn"
Whole == "whole"
Overlaid == Providers \ {Base}
Dirs == {Absent, Torn} \cup Overlaid

ASSUME ProviderAssumption ==
    /\ Base \in Providers
    /\ Downloaded \subseteq Overlaid
    /\ Providers \cap {Absent, Torn} = {}

VARIABLES
    overlay,  \* the overlay directory
    backup,   \* its backup
    part,     \* the package's .part file
    package,  \* the cached package
    config,   \* the provider of the saved config
    step,     \* the operation that switch_provider awaits
    target,   \* its target
    before,   \* history: the overlay when it began
    result,   \* how it ended; "stuck" when it could not go back either
    running,  \* the virtual machine runs
    booted,   \* the provider it shows, of the overlay it started with
    early,    \* history: it was started during a switch
    detected, \* history: the config is of a detection, not of a switch
    smooth    \* history: no crash, no restore or save that failed, and no
              \* detection in a virtual machine started during a switch

dirVars == <<overlay, backup>>
fileVars == <<part, package>>
vmVars == <<running, booted, early, detected>>
vars == <<dirVars, fileVars, config, step, target, before, result, vmVars, smooth>>

Steps == {"idle", "clean", "copy", "download", "publish", "reset", "create", "mark",
          "remove", "rename", "save"}

TypeOK ==
    /\ overlay \in Dirs /\ backup \in Dirs /\ before \in Dirs
    /\ part \in {Absent, Torn, Whole} /\ package \in {Absent, Torn, Whole}
    /\ config \in Providers /\ target \in Providers /\ booted \in Providers
    /\ step \in Steps
    /\ result \in {"none", "ok", "failed", "stuck", "crashed"}
    /\ running \in BOOLEAN /\ early \in BOOLEAN /\ detected \in BOOLEAN /\ smooth \in BOOLEAN

Init ==
    /\ overlay = Absent /\ backup = Absent /\ before = Absent
    /\ part = Absent /\ package = Absent
    /\ config = Base /\ target = Base /\ booted = Base
    /\ step = "idle" /\ result = "none"
    /\ running = FALSE /\ early = FALSE /\ detected = FALSE /\ smooth = TRUE

------------------------------------------------------------------------------
(* switch_provider, an operation at a time.                                *)

Goes(s) == step' = s /\ UNCHANGED <<result, target, before, vmVars, smooth>>

Begin(t) ==
    /\ step = "idle"
    /\ ~running
    /\ t # config
    /\ step' = "clean" /\ target' = t /\ before' = overlay /\ result' = "none"
    /\ UNCHANGED <<dirVars, fileVars, config, vmVars, smooth>>

(* backup_overlay: the old backup goes first. *)
Clean ==
    /\ step = "clean" /\ Goes("copy")
    /\ backup' = Absent
    /\ UNCHANGED <<overlay, fileVars, config>>

CopyMutant ==
    /\ step = "copy" /\ Goes("reset")
    /\ UNCHANGED <<dirVars, fileVars, config>>
Copy ==
    /\ step = "copy" /\ Goes(IF target \in Downloaded THEN "download" ELSE "reset")
    /\ backup' = overlay
    /\ UNCHANGED <<overlay, fileVars, config>>

(* download_gapps: what is cached is taken as it is.  Otherwise a .part    *)
(* file is filled, which has its own name while it is not whole.           *)
UseCached ==
    /\ step = "download" /\ package # Absent /\ Goes("reset")
    /\ UNCHANGED <<dirVars, fileVars, config>>

Download ==
    /\ step = "download" /\ package = Absent /\ Goes("publish")
    /\ part' = Whole
    /\ UNCHANGED <<dirVars, package, config>>

Publish ==
    /\ step = "publish" /\ Goes("reset")
    /\ package' = part /\ part' = Absent
    /\ UNCHANGED <<dirVars, config>>

(* perform_transition has succeeded.                                       *)
Succeeds ==
    /\ step' = "save" /\ result' = "ok"
    /\ UNCHANGED <<target, before, vmVars, smooth>>

Reset ==
    /\ step = "reset"
    /\ overlay' = Absent
    /\ IF target = Base THEN Succeeds ELSE Goes("create")
    /\ UNCHANGED <<backup, fileVars, config>>

Create ==
    /\ step = "create" /\ Goes("mark")
    /\ overlay' = Torn
    /\ UNCHANGED <<backup, fileVars, config>>

(* Of a provider that comes as a package, too, only the marker is written. *)
Mark ==
    /\ step = "mark" /\ Succeeds
    /\ overlay' = target
    /\ UNCHANGED <<backup, fileVars, config>>

(* The caller persists updated_config. *)
SaveMutant ==
    /\ step = "save" /\ Goes("idle")
    /\ UNCHANGED <<dirVars, fileVars, config>>
Save ==
    /\ step = "save" /\ step' = "idle"
    /\ config' = target /\ detected' = FALSE
    /\ UNCHANGED <<dirVars, fileVars, result, target, before, running, booted, early, smooth>>

------------------------------------------------------------------------------
(* Failures.                                                               *)

(* What is left of a directory that could not be removed. *)
Remains(dir) == IF dir = Absent THEN {} ELSE {dir, Torn}

(* What an operation leaves that does not come to its end.  A config that  *)
(* cannot be read is taken for a default one.                              *)
DirsCut ==
    \/ /\ step = "clean" /\ backup' \in Remains(backup)
       /\ UNCHANGED overlay
    \/ /\ step = "copy" /\ overlay # Absent /\ backup' \in {Absent, Torn}
       /\ UNCHANGED overlay
    \/ /\ step \in {"reset", "remove"} /\ overlay' \in Remains(overlay)
       /\ UNCHANGED backup
    \/ /\ step = "create" /\ overlay' \in {Absent, Torn}
       /\ UNCHANGED backup
    \/ /\ step = "mark" /\ overlay' = Torn
       /\ UNCHANGED backup
    \/ /\ step \in {"download", "publish", "rename", "save"}
       /\ UNCHANGED dirVars
FilesCut ==
    /\ part' \in IF step = "download" /\ package = Absent THEN {part, Torn} ELSE {part}
    /\ config' \in IF step = "save" THEN {config, Base} ELSE {config}
    /\ UNCHANGED package

Fails == step' = "idle" /\ result' = "failed" /\ UNCHANGED smooth

(* backup_overlay fails: nothing else has been touched. *)
BackupFails ==
    /\ step \in {"clean", "copy"}
    /\ DirsCut /\ FilesCut
    /\ Fails
    /\ UNCHANGED <<target, before, vmVars>>

(* perform_transition fails: restore_overlay goes back to the backup, if   *)
(* there is one.                                                           *)
GoBackMutant == Fails
GoBack ==
    IF backup = Absent THEN Fails ELSE step' = "remove" /\ UNCHANGED <<result, smooth>>
TransitionFails ==
    /\ step \in {"download", "publish", "reset", "create", "mark"}
    /\ step = "download" => package = Absent
    /\ DirsCut /\ FilesCut
    /\ GoBack
    /\ UNCHANGED <<target, before, vmVars>>

Remove ==
    /\ step = "remove" /\ Goes("rename")
    /\ overlay' = Absent
    /\ UNCHANGED <<backup, fileVars, config>>

Rename ==
    /\ step = "rename"
    /\ overlay' = backup /\ backup' = Absent
    /\ Fails
    /\ UNCHANGED <<fileVars, config, target, before, vmVars>>

RestoreFails ==
    /\ step \in {"remove", "rename"}
    /\ DirsCut /\ FilesCut
    /\ step' = "idle" /\ result' = "stuck" /\ smooth' = FALSE
    /\ UNCHANGED <<target, before, vmVars>>

SaveFails ==
    /\ step = "save"
    /\ DirsCut /\ FilesCut
    /\ step' = "idle" /\ smooth' = FALSE
    /\ UNCHANGED <<target, before, result, vmVars>>

(* The process ends, and nothing looks for a backup when it is run again. *)
Crash ==
    /\ step # "idle"
    /\ DirsCut \/ UNCHANGED dirVars
    /\ FilesCut
    /\ step' = "idle" /\ smooth' = FALSE
    /\ result' = IF result = "ok" THEN "ok" ELSE "crashed"
    /\ UNCHANGED <<target, before, vmVars>>

------------------------------------------------------------------------------
(* The virtual machine.                                                    *)

(* What a guest shows with an overlay: its packages are those of the base  *)
(* image, none of which it loads if the marker says so.                    *)
Removals == Overlaid \ Downloaded
Shown(dir) ==
    CASE dir \in Removals -> {dir} [] dir = Torn -> {Base} \cup Removals [] OTHER -> {Base}

VmStart ==
    /\ ~running
    /\ running' = TRUE /\ booted' \in Shown(overlay)
    /\ early' = (step # "idle")
    /\ UNCHANGED <<dirVars, fileVars, config, step, target, before, result, detected, smooth>>

VmStop ==
    /\ running
    /\ running' = FALSE
    /\ UNCHANGED <<dirVars, fileVars, config, step, target, before, result, booted, early,
                   detected, smooth>>

(* query_status finds the provider over ADB and update_config_from_status  *)
(* takes it over.                                                          *)
Detect ==
    /\ running
    /\ config' = booted /\ detected' = TRUE
    /\ smooth' = (smooth /\ ~early)
    /\ UNCHANGED <<dirVars, fileVars, step, target, before, result, running, booted, early>>

------------------------------------------------------------------------------

Switch == Clean \/ Copy \/ UseCached \/ Download \/ Publish \/ Reset \/ Create \/ Mark \/ Save
Failure == BackupFails \/ TransitionFails \/ Remove \/ Rename \/ RestoreFails \/ SaveFails

Next ==
    \/ \E t \in Providers : Begin(t)
    \/ Switch \/ Failure \/ Crash
    \/ VmStart \/ VmStop \/ Detect

Spec == Init /\ [][Next]_vars

------------------------------------------------------------------------------
(* What holds.                                                             *)

(* A switch that fails leaves the overlay that was there as it was,        *)
(* wherever it fails, unless going back fails as well.                     *)
OverlayKept == result = "failed" /\ before \in Overlaid => overlay = before

(* An overlay that was whole is never lost before the new one is made:     *)
(* through every failure, and a crash at any moment, it is still there or  *)
(* in the backup, until the next switch begins.                            *)
NothingLost == result # "ok" /\ before \in Overlaid => before \in {overlay, backup}

(* Whatever was switched, has failed and was gone back from, the saved     *)
(* config names the provider whose marker the overlay has, the base one    *)
(* if it has none; once the provider was detected, what the guest shows    *)
(* with that overlay, which for a package is the base one again.           *)
Marked(dir) == IF dir \in Overlaid THEN dir ELSE Base
Follows(dir) == IF detected THEN config \in Shown(dir) ELSE config = Marked(dir)
ConfigFollows == smooth /\ step = "idle" => Follows(overlay)

(* A package found in the cache is whole, whatever interrupted a download. *)
PackageWhole == package # Torn

==============================================================================
