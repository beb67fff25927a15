----------------------------- MODULE KeymapTable -----------------------------
(***************************************************************************)
(* nux-core's keymaps (keymap/): an engine behind a lock that has a table  *)
(* of bindings, scaled from the resolution they were authored in to the    *)
(* guest's; and the overlay of the window, which draws a label where each  *)
(* binding touches.  Both are of the screen that InputManager maps the     *)
(* pointer to: nothing in src/ tells the engine of a resolution yet, so    *)
(* the model's caller tells it the guest's, at some time.                  *)
(*                                                                         *)
(* A binding has its type, its keys, its points (a center, a path, two     *)
(* corners) and a number: a duration, a radius or a sensitivity.  Points   *)
(* are i32 and a radius is u32; a file may give any of them, and any       *)
(* resolution, 0 too.                                                      *)
(***************************************************************************)
EXTENDS InputManager, Sequences

CONSTANTS
    Names,      \* names of keys that a file may use,
    KnownKeys,  \* KNOWN_KEYS
    Files,      \* the keymaps that a file may have, and
    NoKeymap,   \*   a file that is missing or cannot be parsed
    Video,      \* the resolution that the window has for the guest's
    MaxInt,     \* bound: i32::MAX
    LabelInset, \* from a label's corner to where it is for: 16 in the code
    LabelSize   \* of the smallest label: 24 by 24 and its padding, 40 by 32

I32 == -(MaxInt + 1) .. MaxInt

Types == {"tap", "long_press", "swipe", "joystick", "aim"}
IsBinding(b) ==
    /\ b.type \in Types /\ b.keys \in Seq(Names) /\ b.at \in Seq(I32 \X I32)
    /\ b.n \in IF b.type = "joystick" THEN 0 .. 2*MaxInt + 1 ELSE Nat
    /\ Len(b.keys) = IF b.type = "joystick" THEN 4 ELSE 1
    /\ Len(b.at) = IF b.type \in {"swipe", "aim"} THEN 2 ELSE 1

ASSUME FileAssumption ==
    /\ NoKeymap \notin Files
    /\ \A k \in Files :
        /\ k.resolution \in Nat \X Nat
        /\ DOMAIN k.bindings \subseteq Nat
        /\ \A i \in DOMAIN k.bindings : IsBinding(k.bindings[i])
    /\ Video \in GuestSizes
ASSUME WidthAssumption == MaxInt \in Nat \ {0}
ASSUME LabelAssumption ==
    /\ LabelInset \in Nat /\ LabelSize \in Nat \X Nat
    /\ LabelInset < LabelSize[1] /\ LabelInset < LabelSize[2]

VARIABLES
    active,    \* ActiveKeymap: its keymap and the resolution it is scaled to
    visible,   \* the overlay is visible;
    overlay    \* the keymap and the surface that its labels are made of

tableVars == <<active, visible, overlay>>

TableTypeOK ==
    /\ active \in [keymap : Files, display : GuestSizes] \cup {NoKeymap}
    /\ visible \in BOOLEAN
    /\ overlay \in [keymap : Files, surface : HostSizes] \cup {NoKeymap}

TableInit == active = NoKeymap /\ visible = FALSE /\ overlay = NoKeymap

------------------------------------------------------------------------------
(* format.rs and scaling.rs.                                               *)

(* The keys of a keymap, each at its binding and its place there. *)
Places(k) == {p \in (DOMAIN k.bindings) \X (1 .. 4) : p[2] \in DOMAIN k.bindings[p[1]].keys}
KeyAt(k, p) == k.bindings[p[1]].keys[p[2]]

Known(key) == key \in KnownKeys

(* validate_keymap *)
Fits(b) ==
    /\ b.type # "tap" => b.n > 0
    /\ b.type = "aim" => b.at[1][1] < b.at[2][1] /\ b.at[1][2] < b.at[2][2]
ValidateMutant(k) ==
    /\ \A p \in Places(k) : Known(KeyAt(k, p))
    /\ \A i \in DOMAIN k.bindings : Fits(k.bindings[i])
Validate(k) ==
    /\ \A p \in Places(k) : Known(KeyAt(k, p))
    /\ \A p, q \in Places(k) : KeyAt(k, p) = KeyAt(k, q) => p = q
    /\ \A i \in DOMAIN k.bindings : Fits(k.bindings[i])

(* A number as an i32: an integer cast and a sum wrap, a cast of an f64    *)
(* takes the nearest there is.                                             *)
WrapInt(n) ==
    IF n > MaxInt THEN n - 2*(MaxInt + 1) ELSE IF n < -(MaxInt + 1) THEN n + 2*(MaxInt + 1) ELSE n
Saturate(n) == IF n > MaxInt THEN MaxInt ELSE IF n < -(MaxInt + 1) THEN -(MaxInt + 1) ELSE n

(* ScaleFactors::scale, of one axis.  By an authored 0 the ratio is        *)
(* infinite, and 0 times that is no number, which a cast makes 0.          *)
ScaleAxisMutant(n, display, authored) ==
    IF authored > 0 THEN Saturate((n * display) \div authored) ELSE 0
ScaleAxis(n, display, authored) ==
    IF authored > 0 THEN Saturate(Round(n * display, authored))
    ELSE IF n > 0 THEN MaxInt ELSE IF n < 0 THEN -(MaxInt + 1) ELSE 0
Scale(a, p) == [i \in {1, 2} |-> ScaleAxis(p[i], a.display[i], a.keymap.resolution[i])]

(* A radius is cast to an i32 first. *)
ScaleBinding(a, b) ==
    [type |-> b.type, at |-> [i \in DOMAIN b.at |-> Scale(a, b.at[i])],
     n |-> IF b.type = "joystick" THEN Scale(a, <<WrapInt(b.n), 0>>)[1] ELSE b.n]

(* An aim region's is its middle, cut to a whole pixel towards 0. *)
Middle(a, b) ==
    LET sum == WrapInt(a + b) IN IF sum >= 0 THEN sum \div 2 ELSE -((-sum) \div 2)
PrimaryPosition(s) ==
    IF s.type = "aim" THEN [i \in {1, 2} |-> Middle(s.at[1][i], s.at[2][i])] ELSE s.at[1]

------------------------------------------------------------------------------
(* KeymapEngine.  The lock makes each operation one step.                  *)

(* load_str: a keymap that is refused leaves the one that is loaded.       *)
Loads(file) == file # NoKeymap /\ Validate(file)
LoadStr(file) ==
    /\ active' = IF Loads(file) THEN [keymap |-> file, display |-> metrics.guest] ELSE active
    /\ UNCHANGED <<visible, overlay>>

Unload ==
    /\ active' = NoKeymap
    /\ UNCHANGED <<visible, overlay>>

Rescale(a, size) == [a EXCEPT !.display = size]
UpdateResolution ==
    /\ active # NoKeymap
    /\ active' = Rescale(active, metrics.guest)
    /\ UNCHANGED <<visible, overlay>>

(* key_index has the last binding that was inserted for a key. *)
KeyIndex(k) ==
    [key \in {KeyAt(k, p) : p \in Places(k)} |->
        CHOOSE i \in DOMAIN k.bindings :
            /\ \E j \in DOMAIN k.bindings[i].keys : k.bindings[i].keys[j] = key
            /\ \A p \in Places(k) : KeyAt(k, p) = key => p[1] <= i]
Lookup(a, key) == ScaleBinding(a, a.keymap.bindings[KeyIndex(a.keymap)[key]])

OverlayHints(a) ==
    {[key |-> KeyAt(a.keymap, p),
      position |-> PrimaryPosition(ScaleBinding(a, a.keymap.bindings[p[1]]))] : p \in Places(a.keymap)}

------------------------------------------------------------------------------
(* The overlay of the window.                                              *)

(* update_overlay: labels of hints on a video of a size, drawn as large as *)
(* it fits on a surface.  Where a label is, is where its upper left corner *)
(* is, in units of 1/unit.                                                 *)
UpdateOverlayMutant(hints, surface, video) ==
    LET tight == IF video[1] * surface[2] > surface[1] * video[2] THEN 1 ELSE 2
    IN  {[key |-> h.key, unit |-> video[tight],
          at |-> [i \in {1, 2} |-> h.position[i]*surface[tight] - video[tight]*LabelInset]] :
            h \in IF 0 \in {surface[1], surface[2]} THEN {} ELSE hints}
UpdateOverlay(hints, surface, video) ==
    LET tight == IF video[1] * surface[2] > surface[1] * video[2] THEN 1 ELSE 2
        offset == [i \in {1, 2} |-> surface[i]*video[tight] - video[i]*surface[tight]]
    IN  {[key |-> h.key, unit |-> 2*video[tight],
          at |-> [i \in {1, 2} |->
                    offset[i] + 2*h.position[i]*surface[tight] - 2*video[tight]*LabelInset]] :
            h \in IF 0 \in {surface[1], surface[2]} THEN {} ELSE hints}

(* What it shows: the labels are made once, with an engine of its own. *)
Labels(o) == UpdateOverlay(OverlayHints([keymap |-> o.keymap, display |-> Video]), o.surface, Video)

(* The toggle-keymap-overlay action: without a keymap the labels that were *)
(* there are shown again.                                                  *)
ToggleOverlay(file) ==
    /\ visible' = ~visible
    /\ overlay' = IF ~visible /\ Loads(file) THEN [keymap |-> file, surface |-> metrics.host]
                  ELSE overlay
    /\ UNCHANGED active

------------------------------------------------------------------------------

Table ==
    \/ \E file \in Files \cup {NoKeymap} : LoadStr(file) \/ ToggleOverlay(file)
    \/ Unload \/ UpdateResolution
TNext ==
    \/ Next /\ UNCHANGED tableVars
    \/ Table /\ UNCHANGED vars
TInit == Init /\ TableInit
TSpec == TInit /\ [][TNext]_<<vars, tableVars>>

------------------------------------------------------------------------------
(* What holds.                                                             *)

(* A binding touches the pixels that are nearest to where it was authored, *)
(* of those that an i32 can hold, on the screen the engine was last told   *)
(* of, however often that changed.  Along an axis that is no shorter than  *)
(* authored, a joystick whose radius is an i32 has one that is positive,   *)
(* and an aim region whose near edge is not at the end of the i32s has an  *)
(* extent.  Of an axis that is authored as 0 long nothing holds.           *)
TouchesAreNearest ==
    active # NoKeymap =>
        LET k == active.keymap
            far(n, m, i) == Abs(n * k.resolution[i] - m * active.display[i])
            sized == {i \in {1, 2} : k.resolution[i] > 0}
            grown == {i \in sized : k.resolution[i] <= active.display[i]}
        IN  \A p \in Places(k) :
                LET b == k.bindings[p[1]]
                    s == Lookup(active, KeyAt(k, p))
                IN  /\ s.type = b.type
                    /\ \A j \in DOMAIN b.at, i \in sized :
                        \A n \in {s.at[j][i] - 1, s.at[j][i] + 1} \cap I32 :
                            far(s.at[j][i], b.at[j][i], i) <= far(n, b.at[j][i], i)
                    /\ s.type = "joystick" /\ 1 \in grown /\ b.n <= MaxInt => s.n > 0
                    /\ s.type = "aim" => \A i \in grown :
                        \/ s.at[1][i] < s.at[2][i]
                        \/ s.at[1][i] \in {-(MaxInt + 1), MaxInt}

(* What a key touches is drawn under the key's label, letterbox or not, as *)
(* long as the window has the size it had when the overlay was shown and   *)
(* its guest the size that the window is made for.  It says nothing of a   *)
(* window that was resized: update_overlay is to be called then, but the   *)
(* code does not.                                                          *)
LabelCoversTouch ==
    /\ overlay # NoKeymap /\ active # NoKeymap
    /\ overlay.keymap = active.keymap /\ overlay.surface = metrics.host
    /\ Video = metrics.guest /\ Video = active.display
    => \A l \in Labels(overlay), i \in {1, 2} :
        LET d == Drawn(metrics.host, Video, i, PrimaryPosition(Lookup(active, l.key))[i])
        IN  /\ l.at[i] * d.unit <= d.at * l.unit
            /\ d.at * l.unit < (l.at[i] + LabelSize[i]*l.unit) * d.unit

==============================================================================
