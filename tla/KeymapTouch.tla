----------------------------- MODULE KeymapTouch -----------------------------
(***************************************************************************)
(* nux-ui's KeymapEngine (keymap/engine.rs): how key and mouse events      *)
(* become touches in the guest.  The handlers run on the UI thread, one at *)
(* a time; a tap and a drag are finished by threads of their own.          *)
(*                                                                         *)
(* Where a touch is, is left out; a node's pointer id, which no other node *)
(* is ever given, is the node itself.  KMT_CLICK_MULTI is left out: its    *)
(* thread only calls tap, which ends what it begins.                       *)
(***************************************************************************)
EXTENDS Naturals

CONSTANTS
    Keys,       \* the keysyms that are bound
    SwitchKey,  \* switch_keysym
    AdsKey,     \* ads_keysym
    WheelKeys,  \* the keys of the KMT_STEER_WHEEL node
    Named,      \* those that keysym_to_key_name calls as the node does
    Clicks,     \* the KMT_CLICK nodes
    SwitchMap,  \* those of them with switch_map
    Toggles,    \* the KMT_CLICK_TWICE nodes
    Drags,      \* the KMT_DRAG nodes
    Bound,      \* key_lookup: the nodes of each key, but for the wheel
    MaxThreads  \* bound: threads of each node at a time

Steer == "steer"
Aim == "aim"
Fire == "fire"
Nodes == Clicks \cup Toggles \cup Drags
Pointers == {Steer, Aim, Fire} \cup Nodes

ASSUME KeyAssumption ==
    /\ SwitchKey \in Keys /\ AdsKey \in Keys
    /\ WheelKeys \subseteq Keys
    /\ Bound \in [Keys -> SUBSET Nodes]
ASSUME NodeAssumption ==
    /\ SwitchMap \subseteq Clicks
    /\ Clicks \cap Toggles = {} /\ Clicks \cap Drags = {} /\ Toggles \cap Drags = {}
    /\ Nodes \cap {Steer, Aim, Fire} = {}
ASSUME BoundAssumption == MaxThreads \in [Clicks \cup Drags -> Nat \ {0}]

VARIABLES
    active,     \* KeymapEngine.active
    wheel,      \* steer_keys
    holding,    \* steer_active, mouse_active and toggle_state: the touches
                \* the engine takes to be down
    ads,        \* ads_active
    taps,       \* threads that wait to lift each click's touch
    pulls,      \* threads of each drag that have not put its touch down
    drags,      \* and those that have
    connected,  \* there is a control socket
    down,       \* the guest: the pointers that are down
    pressed,    \* the keyboard: which keys of the wheel and of ADS are down
    kept        \* history: a switch_map click has switched the keymap off,
                \* and the switch key has not since

threadVars == <<taps, pulls, drags>>
engineVars == <<active, wheel, holding, ads>>
vars == <<engineVars, threadVars, connected, down, pressed, kept>>

Flagged == {Steer, Aim} \cup Toggles
Tracked == WheelKeys \cup {AdsKey}

TypeOK ==
    /\ active \in BOOLEAN
    /\ wheel \subseteq WheelKeys
    /\ holding \subseteq Flagged
    /\ ads \in BOOLEAN
    /\ taps \in [Clicks -> Nat]
    /\ pulls \in [Drags -> Nat] /\ drags \in [Drags -> Nat]
    /\ connected \in BOOLEAN
    /\ down \subseteq Pointers
    /\ pressed \subseteq Tracked
    /\ kept \in BOOLEAN

Init ==
    /\ active = FALSE
    /\ wheel = {} /\ holding = {} /\ ads = FALSE
    /\ taps = [n \in Clicks |-> 0]
    /\ pulls = [n \in Drags |-> 0] /\ drags = [n \in Drags |-> 0]
    /\ connected = FALSE
    /\ down = {}
    /\ pressed = {}
    /\ kept = FALSE

------------------------------------------------------------------------------
(* Helpers.                                                                *)

(* touch_up_id and touch_down_id of each pointer in a set: without a       *)
(* control socket nothing is sent.                                         *)
Touch(lift, put) == down' = IF connected THEN (down \ lift) \cup put ELSE down

(* What is set under the lock together with what is sent.                  *)
HoldMutant(lift, put) == holding' = (holding \ lift) \cup put
Hold(lift, put) == holding' = IF connected THEN (holding \ lift) \cup put ELSE holding

KeyPressed(k) == pressed' = pressed \cup ({k} \cap Tracked)
KeyReleased(k) == pressed' = pressed \ {k}

------------------------------------------------------------------------------
(* on_key_down and on_key_up.                                              *)

SwitchOn ==
    /\ ~active
    /\ active' = TRUE
    /\ UNCHANGED <<wheel, holding, ads, threadVars, connected, down, pressed, kept>>

(* release_all. *)
WheelOnlyMutant ==
    /\ Touch({Steer}, {})
    /\ holding' = holding \ {Steer} /\ wheel' = {} /\ ads' = FALSE
KeysStayMutant ==
    /\ Touch(holding, {})
    /\ holding' = {} /\ ads' = FALSE
    /\ UNCHANGED wheel
ReleaseAll ==
    /\ Touch(holding, {})
    /\ holding' = {} /\ wheel' = {} /\ ads' = FALSE

SwitchOff ==
    /\ active
    /\ active' = FALSE
    /\ ReleaseAll
    /\ kept' = FALSE
    /\ UNCHANGED <<threadVars, connected, pressed>>

(* The ADS key, which comes before any node of the same key.               *)
Ads(on) ==
    /\ active
    /\ AdsKey # SwitchKey
    /\ ads' = on
    /\ UNCHANGED <<active, wheel, holding, threadVars, connected, down, kept>>

AdsDown == Ads(TRUE) /\ KeyPressed(AdsKey)
AdsUp == AdsKey \in pressed /\ Ads(FALSE) /\ KeyReleased(AdsKey)

NodeKey(k) == k \notin {SwitchKey, AdsKey}

(* A key goes down: of its clicks each is put down and left to a thread,   *)
(* of its toggles each is put down or lifted, each of its drags is all a   *)
(* thread's, and the wheel follows.  With an autorepeat the key may well   *)
(* be down already.                                                        *)
TapThreads(k) == Bound[k] \cap Clicks
WheelKey(k) == {k} \cap WheelKeys \cap Named
NodesDown(k) ==
    LET lift == Bound[k] \cap holding
        put == ((Bound[k] \cap Toggles) \ holding) \cup {Steer : w \in WheelKey(k)}
    IN
    /\ active /\ NodeKey(k)
    /\ \A n \in Bound[k] : n \in Clicks => taps[n] < MaxThreads[n]
    /\ \A n \in Bound[k] : n \in Drags => pulls[n] + drags[n] < MaxThreads[n]
    /\ wheel' = wheel \cup WheelKey(k)
    /\ Touch(lift, put \cup (Bound[k] \cap Clicks))
    /\ Hold(lift, put)
    /\ active' = (Bound[k] \cap SwitchMap = {})
    /\ kept' = (kept \/ ~active')
    /\ taps' = [n \in Clicks |->
                    IF connected /\ n \in TapThreads(k) THEN taps[n] + 1 ELSE taps[n]]
    /\ pulls' = [n \in Drags |-> IF n \in Bound[k] THEN pulls[n] + 1 ELSE pulls[n]]
    /\ KeyPressed(k)
    /\ UNCHANGED <<ads, drags, connected>>

(* update_steer_wheel: with a key left it puts the wheel's touch down, if  *)
(* it is not, and moves it; with none left it lifts it, and clears         *)
(* steer_active even when there is no socket to say so to.                 *)
UpdateSteerWheel(keys) ==
    IF keys = {}
    THEN Touch({Steer} \cap holding, {}) /\ holding' = holding \ {Steer}
    ELSE Touch({}, {Steer}) /\ Hold({}, {Steer})

(* A key comes up, which concerns the wheel only. *)
WheelUp(k) ==
    /\ active /\ NodeKey(k)
    /\ k \in WheelKeys \cap pressed
    /\ wheel' = wheel \ {k}
    /\ UpdateSteerWheel(wheel')
    /\ KeyReleased(k)
    /\ UNCHANGED <<active, ads, threadVars, connected, kept>>

(* Keys while the keymap is off go elsewhere. *)
KeyElsewhere(k) ==
    /\ ~active
    /\ k # SwitchKey
    /\ KeyPressed(k) \/ KeyReleased(k)
    /\ UNCHANGED <<engineVars, threadVars, connected, down, kept>>

------------------------------------------------------------------------------
(* The mouse.                                                              *)

(* on_mouse_down and on_mouse_up, with a KMT_CLICK for Mouse_Left.         *)
MouseButton ==
    /\ active
    /\ Touch({}, {Fire}) \/ Touch({Fire}, {})
    /\ UNCHANGED <<engineVars, threadVars, connected, pressed, kept>>

(* on_mouse_move: the first motion puts the touch down; one that takes it  *)
(* too far from its centre lifts it, to begin anew.                        *)
MouseMove ==
    /\ active
    /\ \/ Touch({}, {Aim}) /\ Hold({}, {Aim})
       \/ Touch({Aim}, {}) /\ Hold({Aim}, {})
    /\ UNCHANGED <<active, wheel, ads, threadVars, connected, pressed, kept>>

------------------------------------------------------------------------------
(* The threads.                                                            *)

(* A click's, 50 ms later, whatever has become of the keymap. *)
TapEndsMutant(n) ==
    /\ taps[n] > 0
    /\ taps' = [taps EXCEPT ![n] = @ - 1]
    /\ IF active THEN Touch({n}, {}) ELSE UNCHANGED down
    /\ UNCHANGED <<engineVars, pulls, drags, connected, pressed, kept>>
TapEnds(n) ==
    /\ taps[n] > 0
    /\ taps' = [taps EXCEPT ![n] = @ - 1]
    /\ Touch({n}, {})
    /\ UNCHANGED <<engineVars, pulls, drags, connected, pressed, kept>>

(* A drag's: down, its moves, and up. *)
DragBegins(n) ==
    /\ pulls[n] > 0
    /\ pulls' = [pulls EXCEPT ![n] = @ - 1]
    /\ drags' = [drags EXCEPT ![n] = @ + 1]
    /\ Touch({}, {n})
    /\ UNCHANGED <<engineVars, taps, connected, pressed, kept>>

DragEnds(n) ==
    /\ drags[n] > 0
    /\ drags' = [drags EXCEPT ![n] = @ - 1]
    /\ Touch({n}, {})
    /\ UNCHANGED <<engineVars, taps, pulls, connected, pressed, kept>>

------------------------------------------------------------------------------

(* The shared socket is filled in once the guest's side is there. *)
Connect ==
    /\ ~connected
    /\ connected' = TRUE
    /\ UNCHANGED <<engineVars, threadVars, down, pressed, kept>>

Keyboard ==
    \/ SwitchOn \/ SwitchOff \/ AdsDown \/ AdsUp
    \/ \E k \in Keys : NodesDown(k) \/ WheelUp(k) \/ KeyElsewhere(k)
Mouse == MouseButton \/ MouseMove

Next ==
    \/ Keyboard \/ Mouse \/ Connect
    \/ \E n \in Clicks : TapEnds(n)
    \/ \E n \in Drags : DragBegins(n) \/ DragEnds(n)

Spec == Init /\ [][Next]_vars

(* The threads sleep and go on. *)
FairSpec ==
    /\ Spec
    /\ \A n \in Clicks : WF_vars(TapEnds(n))
    /\ \A n \in Drags : WF_vars(DragBegins(n)) /\ WF_vars(DragEnds(n))

------------------------------------------------------------------------------
(* What holds.                                                             *)

(* What the engine takes to be down is down in the guest, and no other of  *)
(* the touches it keeps a flag for is: through toggles, motions that       *)
(* begin anew, a socket that comes late and being switched off, no such    *)
(* touch is put down twice, moved or lifted while it is up, or forgotten.  *)
FlagsMatchTouches == down \cap Flagged = holding

(* A tap's or a drag's touch that is down has a thread left to lift it,    *)
(* however quickly its key is pressed again and whatever the keymap does.  *)
TouchesHaveThreads ==
    /\ \A n \in Clicks : n \in down => taps[n] > 0
    /\ \A n \in Drags : n \in down => drags[n] > 0

(* The wheel's touch and the ADS sensitivity last no longer than their     *)
(* keys are held, unless a switch_map click made the engine miss the       *)
(* release.                                                                *)
HeldIsHeld ==
    ~kept => /\ Steer \in down => pressed \cap WheelKeys # {}
             /\ ads => AdsKey \in pressed

(* Switched off by its key, the keymap leaves nothing down but what its    *)
(* threads are about to lift, and the fire touch.                          *)
OffMeansReleased == ~active /\ ~kept => down \subseteq Clicks \cup Drags \cup {Fire}

(* Every tap and every drag ends. *)
TapsEnd == \A n \in Clicks \cup Drags : n \in down ~> n \notin down

==============================================================================
