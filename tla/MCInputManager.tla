--------------------------- MODULE MCInputManager ---------------------------
(* An instance of InputManager, and of KeymapTable with it, for TLC:       *)
(* surfaces that are wider and taller than the guest's screen, larger and  *)
(* smaller; a keymap that is authored for another screen, of no height,    *)
(* with numbers that are beyond an i32 when they are cast or scaled; and   *)
(* one that has a key twice.                                               *)
EXTENDS KeymapTable

MCHostSizes == {<<8, 4>>, <<3, 5>>}
MCGuestSizes == {<<4, 3>>, <<2, 4>>}
MCPoints == {<<2, 1>>, <<7, -1>>}

Bind(t, keys, at, n) == [type |-> t, keys |-> keys, at |-> at, n |-> n]
Other == [resolution |-> <<3, 0>>, bindings |-> <<
    Bind("joystick", <<"w", "a", "s", "d">>, <<<<1, 2>>>>, 1),
    Bind("joystick", <<"i", "j", "k", "l">>, <<<<2, 0>>>>, 12),
    Bind("aim", <<"mouse2">>, <<<<1, 0>>, <<3, 2>>>>, 1),
    Bind("swipe", <<"q">>, <<<<0, 0>>, <<8, -1>>>>, 1),
    Bind("long_press", <<"e">>, <<<<2, 2>>>>, 1)>>]
Twice == [resolution |-> <<4, 3>>, bindings |-> <<
    Bind("tap", <<"f">>, <<<<3, 1>>>>, 0),
    Bind("tap", <<"f">>, <<<<0, 2>>>>, 0)>>]
MCFiles == {Other, Twice}
MCVideo == <<4, 3>>
MCLabelSize == <<3, 2>>
==============================================================================
