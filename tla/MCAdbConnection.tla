--------------------------- MODULE MCAdbConnection ---------------------------
(* TLC's instance of AdbConnection. *)
EXTENDS AdbConnection

CONSTANTS t1, t2

TwoTasks == {t1, t2}

==============================================================================
