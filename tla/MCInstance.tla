----------------------------- MODULE MCInstance -----------------------------
(* An instance for TLC: the root mode, and an Option after it in the file.    *)
EXTENDS RootPatch
CONSTANTS magisk, kernelsu, v
MCFields == {"mode", "version"}
MCOptions == {"version"}
MCValues == [mode |-> {None, magisk, kernelsu}, version |-> {v}]
MCDefault == [mode |-> None, version |-> Unset]
MCEdits == {Garbled, [mode |-> None, version |-> v]}
MCOrder == [mode |-> 1, version |-> 2]
==============================================================================
