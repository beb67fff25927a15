---------------------------- MODULE MCKeymapTouch ----------------------------
(* TLC's instance of KeymapTouch: a wheel of two keys, a click, a click    *)
(* with switch_map, and a key bound to a toggle and a drag.                *)
EXTENDS KeymapTouch

CONSTANTS w, a, z, c, m, t, grave, tap, map, toggle, drag

BoundKeys == [k \in Keys |-> CASE k = c -> {tap}
                               [] k = m -> {map}
                               [] k = t -> {toggle, drag}
                               [] OTHER -> {}]
Threads == [n \in Clicks \cup Drags |-> IF n = map THEN 1 ELSE 2]

==============================================================================
