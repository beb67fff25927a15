------------------------------- MODULE MCWindow -------------------------------
(* TLC's instance of Window, and of VmLauncher in it. *)
EXTENDS Window

CONSTANTS s1, s2

TwoStarts == {s1, s2}

===============================================================================
