--------------------------- MODULE RootPatch_proofs ---------------------------
(***************************************************************************)
(* Proofs about RootPatch and the ConfigStore in it, for any fields and    *)
(* values of a config, any modes of rooting and any edits of the global    *)
(* file.                                                                   *)
(***************************************************************************)
EXTENDS RootPatch, TLAPS

(* What the properties need to be inductive.  A config that was saved      *)
(* whole is the instance's file.                                           *)
SavedIsFile == saved # Unset => saved \in Configs /\ instanceFile = saved

(* An image that a mode has is of that mode, and a mode that is named, in  *)
(* the config or the instance's file, has one; the global file names none. *)
HasImage(m) == m \in Rooted => images[m] # Absent
ImagesOwn ==
    /\ images \in [Modes -> Images]
    /\ \A m \in Modes : images[m] \in {m, Absent, Empty, Cut}
NamedHaveImages ==
    /\ HasImage(config["mode"])
    /\ instanceFile \in Tables => HasImage(instanceFile["mode"])
    /\ globalFile \in Tables => globalFile["mode"] \in {Unset, None}

Steps == {"install", "push", "pull", "store", "set"}

(* A store follows its pull, so what it stores is its own mode's.          *)
Paired(c) == \A i \in 1 .. Len(c) - 1 : c[i + 1] = "store" => c[i] = "pull"
StoresOwn ==
    /\ call \in Seq(Steps) /\ Paired(call)
    /\ target \in Modes
    /\ At("store") => target \in Rooted /\ tmp = target

(* The image that was booted is of the mode that was.                      *)
BootedIsBooting == running => booted = booting

IInv ==
    /\ ConfigTypeOK
    /\ SavedIsFile
    /\ ImagesOwn
    /\ NamedHaveImages
    /\ StoresOwn
    /\ BootedIsBooting

------------------------------------------------------------------------------
(* Configs.                                                                *)

(* A config is a table in which every field that is no Option is set.      *)
LEMMA ConfigsAreTables == Configs \subseteq Tables
BY DEF Configs, Tables

(* Tables and configs by their fields alone.                               *)
Settings == (UNION {Values[f] : f \in Fields}) \cup {Unset}

LEMMA UnsetIsSetting == Unset \in Settings
BY DEF Settings

LEMMA ValueIsSetting == \A f \in Fields : Values[f] \subseteq Settings
BY DEF Settings

LEMMA TableByFields ==
  ASSUME NEW t, t = [f \in Fields |-> t[f]], \A f \in Fields : t[f] \in Values[f] \cup {Unset}
  PROVE  t \in Tables
<1>1. \A f \in Fields : t[f] \in Settings
  BY UnsetIsSetting, ValueIsSetting
<1>2. t \in [Fields -> Settings]
  BY <1>1
<1>3. QED
  BY <1>2 DEF Tables, Settings

(* The mode of a config, and of a file.                                    *)
LEMMA ModeOfConfig == \A c \in Configs : c["mode"] \in Modes
BY FieldAssumption, ModeAssumption DEF Configs

LEMMA ModeOfTable == \A t \in Tables : t["mode"] \in Modes \cup {Unset}
BY FieldAssumption, ModeAssumption DEF Tables

(* What a table sets over a config is a config.                            *)
LEMMA OverIsConfig ==
  ASSUME NEW t \in Tables, NEW c \in Configs
  PROVE  Over(t, c) \in Configs
<1> DEFINE U == (UNION {Values[f] : f \in Fields}) \cup {Unset}
<1>1. \A f \in Fields : t[f] \in U /\ c[f] \in U
  BY DEF Tables, Configs
<1>2. Over(t, c) \in [Fields -> U]
  BY <1>1 DEF Over
<1>3. \A f \in Fields : Over(t, c)[f] \in Values[f] \cup IF f \in Options THEN {Unset} ELSE {}
  BY DEF Over, Tables, Configs
<1>4. QED
  BY <1>2, <1>3 DEF Configs

(* What load resolves is a config, and its mode is of the instance's file  *)
(* or of the global one.                                                   *)
LEMMA ResolvedIsConfig == ConfigTypeOK => Resolved \in Configs
<1> SUFFICES ASSUME ConfigTypeOK PROVE Resolved \in Configs
  OBVIOUS
<1>1. LoadGlobal \in Configs
  BY OverIsConfig, FieldAssumption DEF LoadGlobal
<1>2. LoadOverlay \in Tables
  <2>1. [f \in Fields |-> Unset] \in Tables
    <3> DEFINE none == [f \in Fields |-> Unset]
    <3>1. none = [f \in Fields |-> none[f]] /\ \A f \in Fields : none[f] \in Values[f] \cup {Unset}
      OBVIOUS
    <3> HIDE DEF none
    <3>2. none \in Tables
      BY <3>1, TableByFields
    <3>3. QED
      BY <3>2 DEF none
  <2>2. QED
    BY <2>1 DEF LoadOverlay
<1>3. QED
  BY <1>1, <1>2, OverIsConfig DEF Resolved, Merge

LEMMA ResolvedMode ==
  ASSUME NamedHaveImages
  PROVE  HasImage(Resolved["mode"])
<1>1. "mode" \in Fields /\ Unset \notin Modes /\ Default["mode"] = None /\ None \notin Rooted
      /\ None \in Modes /\ Rooted \subseteq Modes
  BY FieldAssumption, ModeAssumption DEF Modes
<1>2. LoadGlobal["mode"] \notin Rooted
  BY <1>1 DEF LoadGlobal, Over, NamedHaveImages
<1>3. CASE instanceFile \in Tables /\ instanceFile["mode"] # Unset
  BY <1>1, <1>3 DEF Resolved, Merge, LoadOverlay, Over, NamedHaveImages
<1>4. CASE ~(instanceFile \in Tables /\ instanceFile["mode"] # Unset)
  <2>1. Resolved["mode"] = LoadGlobal["mode"]
    BY <1>1, <1>4 DEF Resolved, Merge, LoadOverlay, Over
  <2>2. QED
    BY <1>2, <2>1 DEF HasImage
<1>5. QED
  BY <1>3, <1>4

(* What is left of a file that was cut short is no table, or one that sets *)
(* what the config has or nothing.                                         *)
LEMMA CutShortIsFile ==
  ASSUME NEW c \in Configs, NEW left \in CutShort(c)
  PROVE  left \in Files /\ (left \in Tables => left["mode"] \in {c["mode"], Unset})
<1>1. CASE left = Garbled
  BY <1>1, FieldAssumption DEF Files
<1>2. ASSUME NEW g \in Fields,
             left = [f \in Fields |-> IF Order[f] < Order[g] THEN c[f] ELSE Unset]
      PROVE  left \in Tables /\ left["mode"] \in {c["mode"], Unset}
  <2>1. \A f \in Fields : c[f] \in Values[f] \cup {Unset}
    BY DEF Configs
  <2>2. left = [f \in Fields |-> left[f]] /\ \A f \in Fields : left[f] \in {c[f], Unset}
    BY <1>2
  <2>3. "mode" \in Fields
    BY ModeAssumption
  <2>4. left \in Tables
    <3>1. \A f \in Fields : left[f] \in Values[f] \cup {Unset}
      BY <2>1, <2>2
    <3>2. QED
      BY <2>2, <3>1, TableByFields
  <2>5. QED
    BY <2>2, <2>3, <2>4
<1>3. QED
  BY <1>1, <1>2 DEF CutShort, Files

LEMMA SetIsConfig ==
  ASSUME NEW c \in Configs, NEW f \in Fields,
         NEW v \in Values[f] \cup IF f \in Options THEN {Unset} ELSE {}
  PROVE  [c EXCEPT ![f] = v] \in Configs
<1> DEFINE U == (UNION {Values[g] : g \in Fields}) \cup {Unset}
<1>1. c \in [Fields -> U] /\ v \in U
  BY DEF Configs
<1>2. [c EXCEPT ![f] = v] \in [Fields -> U]
  BY <1>1
<1>3. \A g \in Fields : [c EXCEPT ![f] = v][g] \in Values[g] \cup IF g \in Options THEN {Unset} ELSE {}
  BY <1>1 DEF Configs
<1>4. QED
  BY <1>2, <1>3 DEF Configs

------------------------------------------------------------------------------
(* Images, and the steps of a call.                                        *)

(* A copy over a mode's image, whole or cut short, takes none away.        *)
LEMMA CopyIsOwn ==
  ASSUME NEW m \in Modes, NEW left \in {m, Empty, Cut}, ImagesOwn,
         images' = [images EXCEPT ![m] = left]
  PROVE  ImagesOwn' /\ \A n : HasImage(n) => HasImage(n)'
<1>1. left # Absent /\ left \in Images
  BY ModeAssumption DEF Images
<1>2. ImagesOwn'
  BY <1>1 DEF ImagesOwn
<1>3. \A n : HasImage(n) => HasImage(n)'
  BY <1>1 DEF ImagesOwn, HasImage, Modes
<1>4. QED
  BY <1>2, <1>3

LEMMA NamedAfterCopy ==
  ASSUME NamedHaveImages, UNCHANGED configVars, \A n : HasImage(n) => HasImage(n)'
  PROVE  NamedHaveImages'
BY DEF NamedHaveImages, configVars

(* The rest of a call is one, and a store is next after a pull only.       *)
LEMMA RestIsPaired ==
  ASSUME NEW c \in Seq(Steps), c # <<>>, Paired(c)
  PROVE  /\ Tail(c) \in Seq(Steps) /\ Paired(Tail(c))
         /\ Tail(c) # <<>> /\ Head(Tail(c)) = "store" => Head(c) = "pull"
<1>1. Tail(c) \in Seq(Steps) /\ Len(Tail(c)) = Len(c) - 1 /\ Len(c) \in Nat
  OBVIOUS
<1>2. \A i \in 1 .. Len(c) - 1 : Tail(c)[i] = c[i + 1]
  OBVIOUS
<1>3. Paired(Tail(c))
  <2> SUFFICES ASSUME NEW i \in 1 .. Len(Tail(c)) - 1, Tail(c)[i + 1] = "store"
               PROVE  Tail(c)[i] = "pull"
    BY DEF Paired
  <2>1. i \in 1 .. Len(c) - 1 /\ i + 1 \in 1 .. Len(c) - 1
    BY <1>1
  <2>2. Tail(c)[i] = c[i + 1] /\ Tail(c)[i + 1] = c[i + 1 + 1]
    BY <1>2, <2>1
  <2>3. QED
    BY <2>1, <2>2 DEF Paired
<1>4. ASSUME Tail(c) # <<>>, Head(Tail(c)) = "store" PROVE Head(c) = "pull"
  <2>1. 1 \in 1 .. Len(c) - 1
    BY <1>1, <1>4
  <2>2. Head(Tail(c)) = c[1 + 1] /\ Head(c) = c[1]
    BY <1>1, <1>2, <1>4, <2>1
  <2>3. QED
    BY <1>4, <2>1, <2>2 DEF Paired
<1>5. QED
  BY <1>1, <1>3, <1>4

LEMMA CallsArePaired ==
  ASSUME NEW c \in Calls
  PROVE  c \in Seq(Steps) /\ Paired(c) /\ Head(c) # "store"
<1>1. c \in Seq(Steps) /\ c[1] # "store"
  <2>1. CASE c = <<"install", "push", "pull", "store", "set">>
    BY <2>1 DEF Steps
  <2>2. CASE c = <<"push">>
    BY <2>2 DEF Steps
  <2>3. CASE c = <<"pull", "store">>
    BY <2>3 DEF Steps
  <2>4. CASE c = <<"set">>
    BY <2>4 DEF Steps
  <2>5. QED
    BY <2>1, <2>2, <2>3, <2>4 DEF Calls
<1>2. Paired(c)
  <2>1. CASE c = <<"install", "push", "pull", "store", "set">>
    <3>1. Len(c) = 5 /\ c[2] = "push" /\ c[3] = "pull" /\ c[4] = "store" /\ c[5] = "set"
      BY <2>1
    <3>2. QED
      BY <3>1 DEF Paired
  <2>2. CASE c = <<"push">>
    BY <2>2 DEF Paired
  <2>3. CASE c = <<"pull", "store">>
    BY <2>3 DEF Paired
  <2>4. CASE c = <<"set">>
    BY <2>4 DEF Paired
  <2>5. QED
    BY <2>1, <2>2, <2>3, <2>4 DEF Calls
<1>3. QED
  BY <1>1, <1>2

LEMMA EndsIsPaired ==
  ASSUME StoresOwn, call # <<>>, Done,
         Head(call) = "pull" => target # None /\ tmp' = target
  PROVE  StoresOwn'
<1>1. call' = Tail(call) /\ target' \in {None, target} /\ (call' # <<>> => target' = target)
  BY DEF Done, Ends
<1>2. /\ call' \in Seq(Steps) /\ Paired(call')
      /\ call' # <<>> /\ Head(call') = "store" => Head(call) = "pull"
  BY <1>1, RestIsPaired DEF StoresOwn
<1>3. target' \in Modes
  BY <1>1 DEF StoresOwn, Modes
<1>4. At("store")' => target' \in Rooted /\ tmp' = target'
  BY <1>1, <1>2 DEF StoresOwn, At, Modes
<1>5. QED
  BY <1>2, <1>3, <1>4 DEF StoresOwn, Paired

LEMMA FailIsPaired == StoresOwn /\ Fail => StoresOwn'
<1> SUFFICES ASSUME StoresOwn, Fail PROVE StoresOwn'
  OBVIOUS
<1>1. call' = <<>> /\ target' = None
  BY DEF Fail, Ends
<1>2. call' \in Seq(Steps) /\ Paired(call') /\ ~At("store")'
  BY <1>1 DEF Paired, At
<1>3. QED
  BY <1>1, <1>2 DEF StoresOwn, Modes, Paired

------------------------------------------------------------------------------
(* The start, and the steps.                                               *)

LEMMA InitInv == Init => IInv
<1> SUFFICES ASSUME ConfigInit, RootInit PROVE IInv
  BY DEF Init
<1>1. ConfigTypeOK
  BY FieldAssumption DEF ConfigInit, ConfigTypeOK, Files
<1>2. SavedIsFile
  BY DEF ConfigInit, SavedIsFile
<1>3. ImagesOwn
  BY DEF RootInit, ImagesOwn, Images
<1>4. NamedHaveImages
  BY FieldAssumption, ModeAssumption DEF ConfigInit, NamedHaveImages, HasImage, Files
<1>5. StoresOwn
  <2>1. call \in Seq(Steps) /\ Paired(call) /\ ~At("store")
    BY DEF RootInit, Paired, At
  <2>2. target \in Modes
    BY DEF RootInit, Modes
  <2>3. QED
    BY <2>1, <2>2 DEF StoresOwn
<1>6. BootedIsBooting
  BY DEF RootInit, BootedIsBooting
<1>7. QED
  BY <1>1, <1>2, <1>3, <1>4, <1>5, <1>6 DEF IInv

(* What a step does not touch stays true.                                  *)
LEMMA ConfigKept ==
  ASSUME ConfigTypeOK, SavedIsFile, UNCHANGED configVars
  PROVE  ConfigTypeOK' /\ SavedIsFile'
BY DEF ConfigTypeOK, SavedIsFile, configVars

LEMMA RootKept ==
  ASSUME ImagesOwn, StoresOwn, BootedIsBooting, UNCHANGED rootVars
  PROVE  ImagesOwn' /\ StoresOwn' /\ BootedIsBooting'
<1>1. /\ images' = images /\ tmp' = tmp /\ call' = call /\ target' = target
      /\ running' = running /\ booted' = booted /\ booting' = booting
  BY DEF rootVars, imageVars, callVars, vmVars
<1>2. ImagesOwn' /\ BootedIsBooting'
  BY <1>1 DEF ImagesOwn, BootedIsBooting
<1>3. StoresOwn'
  BY <1>1 DEF StoresOwn, Paired, At
<1>4. QED
  BY <1>2, <1>3

(* A change of a setting leaves the files alone.                           *)
LEMMA SetKeeps ==
  ASSUME ConfigTypeOK, SavedIsFile,
         NEW f \in Fields, NEW v \in Values[f] \cup IF f \in Options THEN {Unset} ELSE {},
         Set(f, v)
  PROVE  ConfigTypeOK' /\ SavedIsFile'
<1>1. config' \in Configs
  BY SetIsConfig DEF Set, ConfigTypeOK
<1>2. QED
  BY <1>1 DEF Set, ConfigTypeOK, SavedIsFile

(* The mode is set to None, or to one that has an image.                   *)
LEMMA SetModeKeeps ==
  ASSUME ConfigTypeOK, SavedIsFile, NamedHaveImages,
         NEW m \in Modes, HasImage(m), Set("mode", m), UNCHANGED images
  PROVE  ConfigTypeOK' /\ SavedIsFile' /\ NamedHaveImages'
<1>1. "mode" \in Fields /\ m \in Values["mode"]
  BY ModeAssumption
<1>2. ConfigTypeOK' /\ SavedIsFile'
  BY <1>1, SetKeeps
<1>3. config'["mode"] = m
  BY <1>1 DEF Set, ConfigTypeOK, Configs
<1>4. NamedHaveImages'
  BY <1>3 DEF Set, NamedHaveImages, HasImage
<1>5. QED
  BY <1>2, <1>4

LEMMA ConfigStep == IInv /\ Config => IInv'
<1> SUFFICES ASSUME IInv, Config PROVE IInv'
  OBVIOUS
<1>1. UNCHANGED rootVars
  BY DEF Config
<1>2. ImagesOwn' /\ StoresOwn' /\ BootedIsBooting'
  BY <1>1, RootKept DEF IInv
<1>3. images' = images
  BY <1>1 DEF rootVars, imageVars
<1>4. CASE Load
  <2>1. ConfigTypeOK' /\ SavedIsFile'
    BY <1>4, ResolvedIsConfig DEF IInv, Load, ConfigTypeOK, SavedIsFile
  <2>2. NamedHaveImages'
    BY <1>3, <1>4, ResolvedMode DEF IInv, Load, NamedHaveImages, HasImage
  <2>3. QED
    BY <1>2, <2>1, <2>2 DEF IInv
<1>5. CASE Save
  <2>1. ConfigTypeOK' /\ SavedIsFile'
    BY <1>5, ConfigsAreTables DEF IInv, Save, ConfigTypeOK, SavedIsFile, Files
  <2>2. NamedHaveImages'
    BY <1>3, <1>5 DEF IInv, Save, NamedHaveImages, HasImage
  <2>3. QED
    BY <1>2, <2>1, <2>2 DEF IInv
<1>6. CASE SaveFails
  <2>1. CASE UNCHANGED <<instanceFile, saved>>
    <3>1. UNCHANGED configVars
      BY <1>6, <2>1 DEF SaveFails, configVars
    <3>2. NamedHaveImages'
      BY <1>3, <3>1 DEF IInv, NamedHaveImages, HasImage, configVars
    <3>3. QED
      BY <1>2, <3>1, <3>2, ConfigKept DEF IInv
  <2>2. CASE instanceFile' \in CutShort(config) /\ saved' = Unset
    <3>1. /\ instanceFile' \in Files
          /\ instanceFile' \in Tables => instanceFile'["mode"] \in {config["mode"], Unset}
      BY <2>2, CutShortIsFile DEF IInv, ConfigTypeOK
    <3>2. globalFile' = globalFile /\ config' = config
      BY <1>6 DEF SaveFails
    <3>3. ConfigTypeOK' /\ SavedIsFile'
      BY <2>2, <3>1, <3>2 DEF IInv, ConfigTypeOK, SavedIsFile
    <3>4. Unset \notin Rooted
      BY FieldAssumption, ModeAssumption DEF Modes
    <3>5. NamedHaveImages'
      BY <1>3, <3>1, <3>2, <3>4 DEF IInv, NamedHaveImages, HasImage
    <3>6. QED
      BY <1>2, <3>3, <3>5 DEF IInv
  <2>3. QED
    BY <1>6, <2>1, <2>2 DEF SaveFails
<1>7. ASSUME NEW file \in Edits, EditGlobal(file) PROVE IInv'
  <2>1. file \in Files /\ (file \in Tables => file["mode"] \in {Unset, None})
    BY FieldAssumption, ModeAssumption
  <2>2. ConfigTypeOK' /\ SavedIsFile'
    BY <1>7, <2>1 DEF IInv, EditGlobal, ConfigTypeOK, SavedIsFile
  <2>3. NamedHaveImages'
    BY <1>3, <1>7, <2>1 DEF IInv, EditGlobal, NamedHaveImages, HasImage
  <2>4. QED
    BY <1>2, <2>2, <2>3 DEF IInv
<1>8. ASSUME NEW f \in Fields \ {"mode"}, NEW v \in Values[f] \cup {Unset},
             v = Unset => f \in Options, Set(f, v)
      PROVE  IInv'
  <2>1. v \in Values[f] \cup IF f \in Options THEN {Unset} ELSE {}
    BY <1>8
  <2>2. ConfigTypeOK' /\ SavedIsFile'
    BY <1>8, <2>1, SetKeeps DEF IInv
  <2>3. config'["mode"] = config["mode"]
    BY <1>8, ModeAssumption DEF IInv, Set, ConfigTypeOK, Configs
  <2>4. NamedHaveImages'
    BY <1>3, <1>8, <2>3 DEF IInv, Set, NamedHaveImages, HasImage
  <2>5. QED
    BY <1>2, <2>2, <2>4 DEF IInv
<1>9. QED
  BY <1>4, <1>5, <1>6, <1>7, <1>8 DEF Config

LEMMA StoreStockStep == IInv /\ StoreStock => IInv'
<1> SUFFICES ASSUME IInv, StoreStock PROVE IInv'
  OBVIOUS
<1>1. /\ UNCHANGED configVars
      /\ tmp' = tmp /\ call' = call /\ target' = target
      /\ running' = running /\ booted' = booted /\ booting' = booting
  BY DEF StoreStock, callVars, vmVars
<1>2. PICK left \in {None, Empty, Cut} : images' = [images EXCEPT ![None] = left]
  BY DEF StoreStock, Copied, CopyCut
<1>3. None \in Modes
  BY DEF Modes
<1>4. ImagesOwn' /\ \A n : HasImage(n) => HasImage(n)'
  BY <1>2, <1>3, CopyIsOwn DEF IInv
<1>5. ConfigTypeOK' /\ SavedIsFile' /\ NamedHaveImages'
  BY <1>1, <1>4, ConfigKept, NamedAfterCopy DEF IInv
<1>6. StoresOwn' /\ BootedIsBooting'
  BY <1>1 DEF IInv, StoresOwn, Paired, At, BootedIsBooting
<1>7. QED
  BY <1>4, <1>5, <1>6 DEF IInv

LEMMA BeginStep ==
  ASSUME IInv, NEW c \in Calls, NEW m \in Modes, Begin(c, m)
  PROVE  IInv'
<1>1. /\ UNCHANGED configVars /\ images' = images
      /\ running' = running /\ booted' = booted /\ booting' = booting
      /\ call' = c /\ target' = m
  BY DEF Begin, imageVars, vmVars
<1>2. ConfigTypeOK' /\ SavedIsFile'
  BY <1>1, ConfigKept DEF IInv
<1>3. ImagesOwn' /\ NamedHaveImages' /\ BootedIsBooting'
  BY <1>1 DEF IInv, ImagesOwn, NamedHaveImages, HasImage, BootedIsBooting, configVars
<1>4. StoresOwn'
  <2>1. call' \in Seq(Steps) /\ Paired(call') /\ ~At("store")'
    BY <1>1, CallsArePaired DEF At
  <2>2. QED
    BY <1>1, <2>1 DEF StoresOwn, Paired
<1>5. QED
  BY <1>2, <1>3, <1>4 DEF IInv

(* A step of a call is its first; it ends it, or goes on to the next.      *)
LEMMA WorkflowStep == IInv /\ Workflow => IInv'
<1> SUFFICES ASSUME IInv, Workflow PROVE IInv'
  OBVIOUS
<1>1. /\ running' = running /\ booted' = booted /\ booting' = booting
  BY DEF Workflow, Install, Push, Pull, Store, SetMode, StepFails, vmVars
<1>2. BootedIsBooting'
  BY <1>1 DEF IInv, BootedIsBooting
<1>3. ASSUME UNCHANGED <<configVars, images>>, StoresOwn' PROVE IInv'
  <2>1. ConfigTypeOK' /\ SavedIsFile'
    BY <1>3, ConfigKept DEF IInv
  <2>2. ImagesOwn' /\ NamedHaveImages'
    BY <1>3 DEF IInv, ImagesOwn, NamedHaveImages, HasImage, configVars
  <2>3. QED
    BY <1>2, <1>3, <2>1, <2>2 DEF IInv
<1>4. CASE Install \/ Push
  <2>1. call # <<>> /\ Head(call) # "pull" /\ Done /\ UNCHANGED <<configVars, images>>
    BY <1>4 DEF Install, Push, At, imageVars
  <2>2. QED
    BY <1>3, <2>1, EndsIsPaired DEF IInv
<1>5. CASE Pull
  <2>1. call # <<>> /\ target # None /\ tmp' = target /\ Done /\ UNCHANGED <<configVars, images>>
    BY <1>5 DEF Pull, At
  <2>2. QED
    BY <1>3, <2>1, EndsIsPaired DEF IInv
<1>6. CASE Store
  <2>1. call # <<>> /\ Head(call) # "pull" /\ Done /\ UNCHANGED configVars
    BY <1>6 DEF Store, At
  <2>2. target \in Modes /\ images' = [images EXCEPT ![target] = target]
    BY <1>6 DEF IInv, StoresOwn, Store, Copied
  <2>3. ImagesOwn' /\ \A n : HasImage(n) => HasImage(n)'
    BY <2>2, CopyIsOwn DEF IInv
  <2>4. ConfigTypeOK' /\ SavedIsFile' /\ NamedHaveImages' /\ StoresOwn'
    BY <2>1, <2>3, ConfigKept, NamedAfterCopy, EndsIsPaired DEF IInv
  <2>5. QED
    BY <1>2, <2>3, <2>4 DEF IInv
<1>7. CASE SetMode
  <2>1. /\ call # <<>> /\ Head(call) # "pull" /\ Done
        /\ target \in Modes /\ HasImage(target) /\ Set("mode", target) /\ images' = images
    BY <1>7, ModeAssumption DEF IInv, StoresOwn, SetMode, Resolves, HasImage, At, imageVars
  <2>2. ConfigTypeOK' /\ SavedIsFile' /\ NamedHaveImages'
    BY <2>1, SetModeKeeps DEF IInv
  <2>3. ImagesOwn' /\ StoresOwn'
    BY <2>1, EndsIsPaired DEF IInv, ImagesOwn
  <2>4. QED
    BY <1>2, <2>2, <2>3 DEF IInv
<1>8. CASE StepFails
  <2>1. StoresOwn' /\ UNCHANGED configVars
    BY <1>8, FailIsPaired DEF IInv, StepFails
  <2>2. CASE images' = images
    BY <1>3, <2>1, <2>2
  <2>3. CASE CopyCut(target)
    <3>1. PICK left \in {Empty, Cut} : images' = [images EXCEPT ![target] = left]
      BY <2>3 DEF CopyCut
    <3>2. target \in Modes
      BY DEF IInv, StoresOwn
    <3>3. ImagesOwn' /\ \A n : HasImage(n) => HasImage(n)'
      BY <3>1, <3>2, CopyIsOwn DEF IInv
    <3>4. ConfigTypeOK' /\ SavedIsFile' /\ NamedHaveImages'
      BY <2>1, <3>3, ConfigKept, NamedAfterCopy DEF IInv
    <3>5. QED
      BY <1>2, <2>1, <3>3, <3>4 DEF IInv
  <2>4. QED
    BY <1>8, <2>2, <2>3 DEF StepFails, imageVars
<1>9. QED
  BY <1>4, <1>5, <1>6, <1>7, <1>8 DEF Workflow

LEMMA UnrootStep == IInv /\ Unroot => IInv'
<1> SUFFICES ASSUME IInv, Unroot PROVE IInv'
  OBVIOUS
<1>1. ImagesOwn' /\ StoresOwn' /\ BootedIsBooting'
  BY RootKept DEF IInv, Unroot
<1>2. None \in Modes /\ HasImage(None) /\ Set("mode", None) /\ images' = images
  BY ModeAssumption DEF Unroot, HasImage, Modes, rootVars, imageVars
<1>3. ConfigTypeOK' /\ SavedIsFile' /\ NamedHaveImages'
  BY <1>2, SetModeKeeps DEF IInv
<1>4. QED
  BY <1>1, <1>3 DEF IInv

LEMMA VmStep == IInv /\ (Boot \/ Halt) => IInv'
<1> SUFFICES ASSUME IInv, Boot \/ Halt PROVE IInv'
  OBVIOUS
<1>1. /\ UNCHANGED configVars /\ images' = images /\ tmp' = tmp
      /\ call' = call /\ target' = target
  BY DEF Boot, Halt, imageVars, callVars
<1>2. ConfigTypeOK' /\ SavedIsFile'
  BY <1>1, ConfigKept DEF IInv
<1>3. ImagesOwn' /\ NamedHaveImages' /\ StoresOwn'
  BY <1>1 DEF IInv, ImagesOwn, NamedHaveImages, HasImage, StoresOwn, Paired, At, configVars
<1>4. BootedIsBooting'
  <2>1. CASE Boot
    <3>1. config["mode"] \in Modes
      BY ModeOfConfig DEF IInv, ConfigTypeOK
    <3>2. images[config["mode"]] = config["mode"]
      BY <2>1, <3>1, ModeAssumption DEF IInv, ImagesOwn, Boot
    <3>3. QED
      BY <2>1, <3>2 DEF Boot, BootedIsBooting
  <2>2. CASE Halt
    BY <2>2 DEF Halt, BootedIsBooting
  <2>3. QED
    BY <2>1, <2>2
<1>5. QED
  BY <1>2, <1>3, <1>4 DEF IInv

LEMMA StepInv == IInv /\ [Next]_vars => IInv'
<1> SUFFICES ASSUME IInv, [Next]_vars PROVE IInv'
  OBVIOUS
<1>1. CASE UNCHANGED vars
  <2>1. UNCHANGED configVars /\ UNCHANGED rootVars /\ images' = images
    BY <1>1 DEF vars, rootVars, imageVars
  <2>2. NamedHaveImages'
    BY <2>1 DEF IInv, NamedHaveImages, HasImage, configVars
  <2>3. QED
    BY <2>1, <2>2, ConfigKept, RootKept DEF IInv
<1>2. CASE Next
  BY <1>2, ConfigStep, StoreStockStep, BeginStep, WorkflowStep, UnrootStep, VmStep DEF Next
<1>3. QED
  BY <1>1, <1>2

------------------------------------------------------------------------------
(* The results.                                                            *)

(* The invariant holds in every state, of root/ and config/.               *)
THEOREM Inductive == Spec => []IInv
<1>1. Init => IInv
  BY InitInv
<1>2. IInv /\ [Next]_vars => IInv'
  BY StepInv
<1>3. QED
  BY <1>1, <1>2, PTL DEF Spec

(* What save wrote is what load resolves (config/mod.rs), though the       *)
(* global file is edited and saves fail in between.                        *)
THEOREM SavedCorrect == Spec => []SavedIsLoaded
<1>1. IInv => SavedIsLoaded
  <2> SUFFICES ASSUME IInv, saved # Unset, globalFile # Garbled, NEW f \in Fields, saved[f] # Unset
               PROVE  Resolved[f] = saved[f]
    BY DEF SavedIsLoaded
  <2>1. instanceFile \in Tables /\ instanceFile = saved
    BY ConfigsAreTables DEF IInv, SavedIsFile
  <2>2. QED
    BY <2>1 DEF Resolved, Merge, LoadOverlay, Over
<1>2. QED
  BY <1>1, Inductive, PTL

(* The rooted mode that the config names has an image, its own, wherever a *)
(* workflow of root/manager.rs failed.                                     *)
THEOREM HasImageCorrect == Spec => []RootedHasImage
<1>1. IInv => RootedHasImage
  BY DEF IInv, ImagesOwn, NamedHaveImages, HasImage, RootedHasImage
<1>2. QED
  BY <1>1, Inductive, PTL

(* A guest runs the image of the mode that the config names, or            *)
(* restart_required (root/switching.rs) says that it does not.             *)
THEOREM NamedCorrect == Spec => []RootedAsNamed
<1>1. IInv => RootedAsNamed
  BY DEF IInv, BootedIsBooting, RootedAsNamed, RestartRequired
<1>2. QED
  BY <1>1, Inductive, PTL

==============================================================================
