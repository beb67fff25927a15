------------------------------ MODULE RootPatch ------------------------------
(***************************************************************************)
(* nux-core's root manager (root/): a workflow installs the manager's APK  *)
(* in the guest, pushes the stock boot image there, pulls the image that   *)
(* the user has had patched, stores it and sets root.mode.  The caller     *)
(* runs it as one, or a step at a time; one call is under way at a time.   *)
(*                                                                         *)
(* An image is Absent, Empty, Cut, or whole: then it is the mode whose app *)
(* made it, None for a stock image.  Which stock image it was made from is *)
(* left out, and so are the files in the guest: that one is there to be    *)
(* pulled, and how far a push gets, is the guest's and the user's doing.   *)
(***************************************************************************)
EXTENDS ConfigStore, Sequences

CONSTANTS
    Rooted,    \* RootMode, but for None
    None,      \* RootMode::None
    Edits,     \* what the user may write in the global file
    Empty, Cut

Modes == Rooted \cup {None}
Images == Modes \cup {Absent, Empty, Cut}

ASSUME ModeAssumption ==
    /\ "mode" \in Fields \ Options /\ Values["mode"] = Modes /\ Default["mode"] = None
    /\ None \notin Rooted
    /\ Edits \subseteq Files \ {Absent}
    /\ \A file \in Edits : file = Garbled \/ file["mode"] \in {Unset, None}
    /\ {Absent, Empty, Cut} \cap Modes = {} /\ Absent \notin {Empty, Cut}

VARIABLES
    images,   \* BootImageStore: the image of each mode, the stock one for None
    tmp,      \* .patched_tmp.img
    call,     \* the steps that the call under way has yet to take
    target,   \* and its mode
    running,  \* the guest runs,
    booted,   \*   from this image,
    booting   \*   and in this mode

imageVars == <<images, tmp>>
callVars == <<call, target>>
vmVars == <<running, booted, booting>>
rootVars == <<imageVars, callVars, vmVars>>

Calls == {<<"install", "push", "pull", "store", "set">>, <<"push">>, <<"pull", "store">>, <<"set">>}
Rests == {<<>>} \cup {SubSeq(c, n, Len(c)) : c \in Calls, n \in 1 .. 5}

RootTypeOK ==
    /\ images \in [Modes -> Images] /\ tmp \in Rooted \cup {Absent, Cut}
    /\ call \in Rests /\ target \in Modes
    /\ running \in BOOLEAN /\ booted \in Modes /\ booting \in Modes

RootInit ==
    /\ images = [m \in Modes |-> Absent] /\ tmp = Absent
    /\ call = <<>> /\ target = None
    /\ running = FALSE /\ booted = None /\ booting = None

------------------------------------------------------------------------------
(* BootImageStore.                                                         *)

(* resolve: there is an image, and it is not empty. *)
Resolves(m) == images[m] \notin {Absent, Empty}

(* A copy is made in place, over the image that was there. *)
Copied(m, source) == images' = [images EXCEPT ![m] = source]
CopyCut(m) == \E left \in {Empty, Cut} : images' = [images EXCEPT ![m] = left]

(* store_stock_image, of an image that the user comes with. *)
StoreStock ==
    /\ call = <<>>
    /\ Copied(None, None) \/ CopyCut(None)
    /\ UNCHANGED <<configVars, tmp, callVars, vmVars>>

------------------------------------------------------------------------------
(* RootManager and switching.                                              *)

Begin(c, m) ==
    /\ call = <<>>
    /\ call' = c /\ target' = m
    /\ UNCHANGED <<configVars, imageVars, vmVars>>

At(step) == call # <<>> /\ Head(call) = step
Ends(rest) == call' = rest /\ target' = IF rest = <<>> THEN None ELSE target
Done == Ends(Tail(call))
Fail == Ends(<<>>)

(* install_manager_apk: there is no APK for None. *)
Install ==
    /\ At("install") /\ running /\ target # None
    /\ Done
    /\ UNCHANGED <<configVars, imageVars, vmVars>>

(* push_stock_image *)
Push ==
    /\ At("push") /\ running /\ Resolves(None)
    /\ Done
    /\ UNCHANGED <<configVars, imageVars, vmVars>>

(* pull_patched_image, and store_patched_image in it. *)
Pull ==
    /\ At("pull") /\ running /\ target # None
    /\ tmp' = target
    /\ Done
    /\ UNCHANGED <<configVars, images, vmVars>>
Store ==
    /\ At("store")
    /\ Copied(target, tmp) /\ tmp' \in {Absent, tmp}
    /\ Done
    /\ UNCHANGED <<configVars, vmVars>>

(* set_root_mode *)
SetModeMutant ==
    /\ At("set")
    /\ Set("mode", target) /\ Done
    /\ UNCHANGED <<imageVars, vmVars>>
SetMode ==
    /\ At("set") /\ (target = None \/ Resolves(target))
    /\ Set("mode", target) /\ Done
    /\ UNCHANGED <<imageVars, vmVars>>

Unroot ==
    /\ call = <<>>
    /\ Set("mode", None)
    /\ UNCHANGED rootVars

(* A step fails, and with it the call: a pull or a copy may have been cut  *)
(* short.                                                                  *)
StepFails ==
    /\ call # <<>>
    /\ \/ UNCHANGED imageVars
       \/ /\ At("pull") /\ running /\ target # None
          /\ tmp' = Cut /\ UNCHANGED images
       \/ /\ At("store")
          /\ CopyCut(target) /\ UNCHANGED tmp
    /\ Fail
    /\ UNCHANGED <<configVars, vmVars>>

------------------------------------------------------------------------------
(* The guest.                                                              *)

(* active_boot_image_path names the image; one that is torn does not boot. *)
BootMutant ==
    /\ ~running
    /\ Resolves(None) /\ images[None] \in Modes
    /\ running' = TRUE /\ booted' = images[None] /\ booting' = config["mode"]
    /\ UNCHANGED <<configVars, imageVars, callVars>>
Boot ==
    /\ ~running
    /\ Resolves(config["mode"]) /\ images[config["mode"]] \in Modes
    /\ running' = TRUE /\ booted' = images[config["mode"]] /\ booting' = config["mode"]
    /\ UNCHANGED <<configVars, imageVars, callVars>>

Halt ==
    /\ running
    /\ running' = FALSE /\ booted' = None /\ booting' = None
    /\ UNCHANGED <<configVars, imageVars, callVars>>

------------------------------------------------------------------------------

Config ==
    /\ \/ Load \/ Save \/ SaveFails
       \/ \E file \in Edits : EditGlobal(file)
       \/ \E f \in Fields \ {"mode"} : \E v \in Values[f] \cup {Unset} :
              (v = Unset => f \in Options) /\ Set(f, v)
    /\ call = <<>>
    /\ UNCHANGED rootVars

Workflow == Install \/ Push \/ Pull \/ Store \/ SetMode \/ StepFails
Next ==
    \/ Config
    \/ StoreStock
    \/ \E c \in Calls, m \in Modes : Begin(c, m)
    \/ Workflow \/ Unroot
    \/ Boot \/ Halt

vars == <<configVars, rootVars>>
Init == ConfigInit /\ RootInit
Spec == Init /\ [][Next]_vars

TypeOK == ConfigTypeOK /\ RootTypeOK

------------------------------------------------------------------------------
(* What holds.                                                             *)

(* The image that the config names is there, whole, and the work of the    *)
(* manager that it names, wherever a workflow failed or stopped, unless a  *)
(* copy over that very image was cut short.                                *)
RootedHasImage ==
    /\ \A m \in Modes : images[m] \in {m, Absent, Empty, Cut}
    /\ config["mode"] \in Rooted => images[config["mode"]] # Absent

(* restart_required *)
RestartRequired == config["mode"] # booting

(* A guest runs the kernel of the manager that the config names, unless    *)
(* restart_required tells that it does not.                                *)
RootedAsNamed == running => RestartRequired \/ booted = config["mode"]

==============================================================================
