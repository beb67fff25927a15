---------------------------- MODULE InputManager ----------------------------
(***************************************************************************)
(* nux-core's input manager (input/): how the host's keys, buttons and     *)
(* pointer become the events of the guest's virtio-input device.  Each     *)
(* handler translates one host event into one batch and writes it to the   *)
(* device's socket; metrics, grab and pinch decide what the batch is.      *)
(*                                                                         *)
(* Of a batch, what it leaves on the device is kept: keys, touch, the      *)
(* tracking ids of the two slots and the relative motion.  Absolute        *)
(* positions are left out of the state: MapHostToGuest gives them and      *)
(* PixelIsNearest is about it.  Host coordinates are whole pixels, and a   *)
(* quotient is the exact one, not its nearest double.  A guest resolution  *)
(* is positive.                                                            *)
(***************************************************************************)
EXTENDS Integers

CONSTANTS
    HostSizes,   \* host_width and host_height, as <<w, h>>
    GuestSizes,  \* guest_width and guest_height
    Points,      \* positions of the pointer on the host
    Keys,        \* keycodes
    Back,        \* KEY_BACK
    NoPoint,     \* has_last_position is false
    MaxId        \* bound: the greatest tracking id; i32::MAX in the code

ASSUME SizeAssumption ==
    /\ HostSizes \subseteq Nat \X Nat
    /\ GuestSizes \subseteq (Nat \ {0}) \X (Nat \ {0})
    /\ Points \subseteq Int \X Int /\ NoPoint \notin Points
ASSUME KeyAssumption == Back \in Keys
ASSUME IdAssumption == MaxId \in Nat \ {0}

------------------------------------------------------------------------------
(* DisplayMetrics: coordinate.rs.                                          *)

(* a/b, b > 0, rounded half away from zero: f64::round. *)
Round(a, b) == IF a >= 0 THEN (2*a + b) \div (2*b) ELSE -((b - 2*a) \div (2*b))

Clamp(n, hi) == IF n < 0 THEN 0 ELSE IF n > hi THEN hi ELSE n

(* recalculate: the scale is num/den, and a letterbox box/(2 den). *)
Recalculate(host, guest) ==
    LET tight == IF host[1] * guest[2] <= host[2] * guest[1] THEN 1 ELSE 2
        num == host[tight]
        den == guest[tight]
    IN  [host |-> host, guest |-> guest, num |-> num, den |-> den,
         box |-> <<host[1]*den - guest[1]*num, host[2]*den - guest[2]*num>>]

(* map_host_to_guest.  A surface of no size divides by zero: the quotient  *)
(* is infinite or, for 0/0, no number, which a cast makes 0.               *)
MapAxis(m, p, i) ==
    LET a == 2*m.den*p[i] - m.box[i]
    IN  IF m.num = 0 THEN IF a > 0 THEN m.guest[i] - 1 ELSE 0
        ELSE Clamp(Round(a, 2*m.num), m.guest[i] - 1)
MapHostToGuest(m, p) == <<MapAxis(m, p, 1), MapAxis(m, p, 2)>>

------------------------------------------------------------------------------

VARIABLES
    socket,    \* the connection: "none", "open", or "broken" when the peer is gone
    metrics,   \* DisplayMetrics
    grabbed,   \* GrabMode
    last,      \* last_x and last_y, or NoPoint
    pinch,     \* PinchState is Active; so are slot0_active and slot1_active
    nextId,    \* next_tracking_id
    device,    \* the guest's: the keys that are down, BTN_TOUCH, the tracking ids
               \* of its slots, and the relative motion it was last sent, if now
    held,      \* the host: the keys that are down,
    button,    \*   the left button,
    pointer,   \*   and the pointer at its latest motion
    here,      \* history: the pinch began on this connection
    skipped,   \* history: a pinch has moved the pointer since last was set
    wrapped    \* history: a tracking id has been negative

gestureVars == <<pinch, nextId, here, wrapped>>
grabVars == <<grabbed, last, skipped>>
hostVars == <<held, button, pointer>>
vars == <<socket, metrics, grabVars, gestureVars, device, hostVars>>

Ids == -(MaxId + 1) .. MaxId
Up == -1
Slots == {0, 1}
Still == <<0, 0>>
Minus(p, q) == <<p[1] - q[1], p[2] - q[2]>>
Moves == {Minus(p, q) : p, q \in Points}
NothingDown == [keys |-> {}, touch |-> FALSE, slots |-> [s \in Slots |-> Up], rel |-> Still]

TypeOK ==
    /\ socket \in {"none", "open", "broken"}
    /\ metrics \in {Recalculate(h, g) : h \in HostSizes, g \in GuestSizes}
    /\ grabbed \in BOOLEAN /\ last \in Points \cup {NoPoint} /\ skipped \in BOOLEAN
    /\ pinch \in BOOLEAN /\ nextId \in Ids /\ here \in BOOLEAN /\ wrapped \in BOOLEAN
    /\ device \in [keys : SUBSET Keys, touch : BOOLEAN, slots : [Slots -> Ids],
                   rel : Moves \cup {Still}]
    /\ held \subseteq Keys /\ button \in BOOLEAN /\ pointer \in Points

Init ==
    /\ socket = "none"
    /\ metrics \in {Recalculate(h, g) : h \in HostSizes, g \in GuestSizes}
    /\ grabbed = FALSE /\ last = NoPoint /\ skipped = FALSE
    /\ pinch = FALSE /\ nextId = 0 /\ here = FALSE /\ wrapped = FALSE
    /\ device = NothingDown
    /\ held = {} /\ button = FALSE /\ pointer \in Points

------------------------------------------------------------------------------
(* The batches of translate.rs: what the device is when one has reached it. *)

Quiet == [device EXCEPT !.rel = Still]
TranslateKey(k, pressed) == [Quiet EXCEPT !.keys = IF pressed THEN @ \cup {k} ELSE @ \ {k}]
TranslateRelativeMotion(d) == [Quiet EXCEPT !.rel = d]
TranslateLeftPress == [Quiet EXCEPT !.touch = TRUE]
TranslateLeftRelease == [Quiet EXCEPT !.touch = FALSE]
TranslateRightClick == [Quiet EXCEPT !.keys = @ \ {Back}]
TranslatePinch(ids, down) == [Quiet EXCEPT !.slots = ids, !.touch = down]

(* inject: a batch reaches the device whole, or, without a socket or with  *)
(* one that fails, not at all; the state that made it stays changed.       *)
Inject(batch) == device' = IF socket = "open" THEN batch ELSE Quiet

(* connect: the device of a new connection has nothing down.               *)
Connect ==
    /\ socket' = "open"
    /\ device' = NothingDown /\ here' = FALSE
    /\ UNCHANGED <<metrics, grabVars, pinch, nextId, wrapped, hostVars>>

(* The virtual machine ends, and its device with it. *)
Disconnected ==
    /\ socket = "open"
    /\ socket' = "broken"
    /\ device' = NothingDown
    /\ UNCHANGED <<metrics, grabVars, gestureVars, hostVars>>

(* update_host and update_guest: the derived values follow.                *)
UpdateHostMutant(size) ==
    /\ metrics' = [metrics EXCEPT !.host = size]
    /\ device' = Quiet /\ UNCHANGED <<socket, grabVars, gestureVars, hostVars>>
UpdateHost(size) ==
    /\ metrics' = Recalculate(size, metrics.guest)
    /\ device' = Quiet /\ UNCHANGED <<socket, grabVars, gestureVars, hostVars>>
UpdateGuest(size) ==
    /\ metrics' = Recalculate(metrics.host, size)
    /\ device' = Quiet /\ UNCHANGED <<socket, grabVars, gestureVars, hostVars>>

------------------------------------------------------------------------------
(* Keys and motion.                                                        *)

(* A key that is held repeats its press. *)
HandleKey(k, pressed) ==
    /\ pressed \/ k \in held
    /\ held' = IF pressed THEN held \cup {k} ELSE held \ {k}
    /\ Inject(TranslateKey(k, pressed))
    /\ UNCHANGED <<socket, metrics, grabVars, gestureVars, button, pointer>>

(* compute_delta *)
Delta(p) == IF last = NoPoint THEN Still ELSE Minus(p, last)

(* handle_motion: a pinch takes the motion, and last is not told.          *)
HandleMotion(p) ==
    /\ pointer' = p
    /\ IF pinch
       THEN Inject(Quiet) /\ skipped' = TRUE /\ UNCHANGED <<grabbed, last>>
       ELSE IF grabbed
       THEN /\ Inject(TranslateRelativeMotion(Delta(p)))
            /\ last' = p /\ skipped' = FALSE /\ UNCHANGED grabbed
       ELSE Inject(Quiet) /\ UNCHANGED grabVars
    /\ UNCHANGED <<socket, metrics, gestureVars, held, button>>

(* handle_scroll: the wheel has no position, and leaves none behind.       *)
HandleScroll ==
    /\ Inject(Quiet)
    /\ UNCHANGED <<socket, metrics, grabVars, gestureVars, hostVars>>

(* toggle_grab: the first motion in the new mode is relative to nothing.   *)
ToggleGrabMutant ==
    /\ grabbed' = ~grabbed /\ UNCHANGED <<last, skipped>>
    /\ device' = Quiet /\ UNCHANGED <<socket, metrics, gestureVars, hostVars>>
ToggleGrab ==
    /\ grabbed' = ~grabbed /\ last' = NoPoint /\ skipped' = FALSE
    /\ device' = Quiet /\ UNCHANGED <<socket, metrics, gestureVars, hostVars>>

ResetGrabPosition ==
    /\ last' = NoPoint /\ skipped' = FALSE
    /\ device' = Quiet /\ UNCHANGED <<socket, metrics, grabbed, gestureVars, hostVars>>

------------------------------------------------------------------------------
(* The buttons.                                                            *)

Wrap(n) == IF n > MaxId THEN n - 2*(MaxId + 1) ELSE n

(* translate_pinch_begin, which takes two tracking ids. *)
PinchBeginMutant ==
    /\ pinch' = TRUE /\ here' = (socket = "open")
    /\ nextId' = Wrap(nextId + 1)
    /\ wrapped' = (wrapped \/ nextId < 0)
    /\ Inject(TranslatePinch([s \in Slots |-> nextId], TRUE))
PinchBegin ==
    LET ids == [s \in Slots |-> Wrap(nextId + s)]
    IN  /\ pinch' = TRUE /\ here' = (socket = "open")
        /\ nextId' = Wrap(nextId + 2)
        /\ wrapped' = (wrapped \/ \E s \in Slots : ids[s] < 0)
        /\ Inject(TranslatePinch(ids, TRUE))

(* translate_pinch_end *)
PinchEnd ==
    /\ pinch' = FALSE /\ UNCHANGED <<nextId, here, wrapped>>
    /\ Inject(TranslatePinch([s \in Slots |-> Up], FALSE))

LeftPress(ctrl) ==
    /\ ~button /\ button' = TRUE
    /\ IF ctrl THEN PinchBegin
       ELSE Inject(TranslateLeftPress) /\ UNCHANGED gestureVars
    /\ UNCHANGED <<socket, metrics, grabVars, held, pointer>>

LeftReleaseMutant ==
    /\ button /\ button' = FALSE
    /\ Inject(TranslateLeftRelease) /\ UNCHANGED gestureVars
    /\ UNCHANGED <<socket, metrics, grabVars, held, pointer>>
LeftRelease ==
    /\ button /\ button' = FALSE
    /\ IF pinch THEN PinchEnd
       ELSE Inject(TranslateLeftRelease) /\ UNCHANGED gestureVars
    /\ UNCHANGED <<socket, metrics, grabVars, held, pointer>>

(* A right click is pressed and released as one; its release is ignored.   *)
RightPress ==
    /\ Inject(TranslateRightClick)
    /\ UNCHANGED <<socket, metrics, grabVars, gestureVars, hostVars>>

(* end_pinch_if_active, when Ctrl is released. *)
EndPinchIfActive ==
    /\ pinch
    /\ PinchEnd
    /\ UNCHANGED <<socket, metrics, grabVars, hostVars>>

------------------------------------------------------------------------------

Configure ==
    \/ Connect \/ Disconnected
    \/ \E size \in HostSizes : UpdateHost(size)
    \/ \E size \in GuestSizes : UpdateGuest(size)
Handle ==
    \/ \E k \in Keys, pressed \in BOOLEAN : HandleKey(k, pressed)
    \/ \E p \in Points : HandleMotion(p)
    \/ HandleScroll
    \/ \E ctrl \in BOOLEAN : LeftPress(ctrl)
    \/ LeftRelease \/ RightPress
    \/ ToggleGrab \/ ResetGrabPosition \/ EndPinchIfActive
Next == Configure \/ Handle

Spec == Init /\ [][Next]_vars

------------------------------------------------------------------------------
(* What holds.                                                             *)

(* The guest is never left with a finger, a touch or a key that the host   *)
(* no longer holds: whichever way a gesture ends, over connections made    *)
(* and lost in between.                                                    *)
NoGhostTouch ==
    /\ device.keys \subseteq held
    /\ device.touch => button
    /\ (\E s \in Slots : device.slots[s] # Up) => button /\ pinch

(* While a pinch that began on this connection lasts, the guest sees two   *)
(* fingers, and two different ones, as long as no tracking id has wrapped. *)
TwoFingers ==
    pinch /\ here /\ socket = "open" /\ ~wrapped =>
        device.slots[0] # device.slots[1] /\ Up \notin {device.slots[0], device.slots[1]}

(* What the guest's pointer is moved by is what the host's has moved, from *)
(* its motion before, in whatever mode that was, unless a pinch took it.   *)
MotionIsTravel ==
    [][device'.rel # Still => device'.rel = Minus(pointer', pointer) \/ skipped]_vars

(* Where pixel c of axis i is drawn on a surface, its left or upper edge,  *)
(* in units of 1/unit: the picture is as large as it fits, and centred.    *)
Drawn(host, guest, i, c) ==
    LET fits == {s \in {<<host[1], guest[1]>>, <<host[2], guest[2]>>} :
                    \A j \in {1, 2} : guest[j] * s[1] <= host[j] * s[2]}
        s == CHOOSE s \in fits : TRUE
    IN  [at |-> host[i]*s[2] - guest[i]*s[1] + 2*s[1]*c, unit |-> 2*s[2]]
Abs(n) == IF n < 0 THEN -n ELSE n

(* The pixel a pointer is mapped to is the one drawn nearest to it, after  *)
(* whatever changes of surface and resolution, in the letterbox too.  On a *)
(* surface of no size nothing is drawn.                                    *)
PixelIsNearest ==
    0 \notin {metrics.host[1], metrics.host[2]} =>
    \A p \in Points, i \in {1, 2} :
        LET far(c) == LET d == Drawn(metrics.host, metrics.guest, i, c)
                      IN  Abs(d.unit * p[i] - d.at)
        IN  \A c \in 0 .. metrics.guest[i] - 1 :
                far(MapHostToGuest(metrics, p)[i]) <= far(c)

==============================================================================
