----------------------------- MODULE ConfigStore -----------------------------
(***************************************************************************)
(* nux-core's configuration (config/): a global file and one of the        *)
(* instance, whose settings come first; load resolves them, and save       *)
(* writes what was resolved over a file.                                   *)
(*                                                                         *)
(* A config is a function from fields to values; an Option field may be    *)
(* Unset.  A file is Absent, Garbled (it cannot be read or parsed), or a   *)
(* table of the fields it sets.  schema_version is not a field: it makes   *)
(* a global file that is newer than the program, which is not migrated,    *)
(* one that is as good as Garbled; an older one there is not yet, and the  *)
(* registry of migrations is empty.                                        *)
(***************************************************************************)
EXTENDS Naturals

CONSTANTS
    Fields,   \* the fields of NuxConfig,
    Options,  \* those that are an Option,
    Values,   \* what each may be set to,
    Default,  \* NuxConfig::default
    Order,    \* the place of each field in a file
    Unset, Absent, Garbled

Configs == {c \in [Fields -> (UNION {Values[f] : f \in Fields}) \cup {Unset}] :
                \A f \in Fields : c[f] \in Values[f] \cup IF f \in Options THEN {Unset} ELSE {}}
Tables == {t \in [Fields -> (UNION {Values[f] : f \in Fields}) \cup {Unset}] :
                \A f \in Fields : t[f] \in Values[f] \cup {Unset}}
Files == Tables \cup {Absent, Garbled}

ASSUME FieldAssumption ==
    /\ Options \subseteq Fields
    /\ Default \in Configs
    /\ Order \in [Fields -> Nat]
    /\ \A f \in Fields : Unset \notin Values[f]
    /\ {Absent, Garbled} \cap Tables = {}

VARIABLES
    globalFile,    \* the file at global_config_path
    instanceFile,  \* and at instance_config_path
    config,        \* the NuxConfig that the program holds
    saved          \* history: the config that the instance's file was written
                   \* with, or Unset when it was not or that was cut short

configVars == <<globalFile, instanceFile, config, saved>>

ConfigTypeOK ==
    /\ globalFile \in Files /\ instanceFile \in Files
    /\ config \in Configs
    /\ saved \in Configs \cup {Unset}

------------------------------------------------------------------------------
(* load *)

(* A table's fields, and those of another where it has none: serde's       *)
(* defaults, and merge.                                                    *)
Over(table, rest) == [f \in Fields |-> IF table[f] # Unset THEN table[f] ELSE rest[f]]

(* load takes a file that it cannot use for one that sets nothing.         *)
LoadGlobal == IF globalFile \in Tables THEN Over(globalFile, Default) ELSE Default
LoadOverlay == IF instanceFile \in Tables THEN instanceFile ELSE [f \in Fields |-> Unset]

MergeMutant(global, overlay) == Over(global, overlay)
Merge(global, overlay) == Over(overlay, global)
Resolved == Merge(LoadGlobal, LoadOverlay)

ConfigInit ==
    /\ globalFile = Absent /\ instanceFile = Absent
    /\ config = Default /\ saved = Unset

Load ==
    /\ config' = Resolved
    /\ UNCHANGED <<globalFile, instanceFile, saved>>

------------------------------------------------------------------------------
(* save, to the instance's file: a field that is None is not written.      *)

Save ==
    /\ instanceFile' = config /\ saved' = config
    /\ UNCHANGED <<globalFile, config>>

(* The file is truncated and written in place: an error, or the end of the *)
(* program, may leave it as it was, or with what comes first.              *)
CutShort(table) ==
    {Garbled} \cup
    {[f \in Fields |-> IF Order[f] < Order[g] THEN table[f] ELSE Unset] : g \in Fields}
SaveFails ==
    /\ \/ UNCHANGED <<instanceFile, saved>>
       \/ instanceFile' \in CutShort(config) /\ saved' = Unset
    /\ UNCHANGED <<globalFile, config>>

(* The user writes the global file. *)
EditGlobal(file) ==
    /\ globalFile' = file
    /\ UNCHANGED <<instanceFile, config, saved>>

(* A setting is changed; nothing in src/ does but the modules that hold    *)
(* their own field.                                                        *)
Set(f, v) == config' = [config EXCEPT ![f] = v] /\ UNCHANGED <<globalFile, instanceFile, saved>>

------------------------------------------------------------------------------
(* What was saved whole for an instance is what is loaded for it, over     *)
(* whatever settings the global file has come to have, but for an Option   *)
(* that was None: that the global file may set.  It is silent where load,  *)
(* by its comment, should return an error and does not: when the global    *)
(* file is Garbled, and when the instance's is after a save cut short.     *)
SavedIsLoaded ==
    saved # Unset /\ globalFile # Garbled =>
        \A f \in Fields : saved[f] = Unset \/ Resolved[f] = saved[f]

==============================================================================
