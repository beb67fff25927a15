-------------------------- MODULE KeymapTouch_proofs --------------------------
(***************************************************************************)
(* Proofs about KeymapTouch, for every keymap: any sets of keys and nodes, *)
(* any binding of the ones to the others, and any bound on the threads.    *)
(***************************************************************************)
EXTENDS KeymapTouch, TLAPS

(* What the properties need to be inductive: the guest has touches only    *)
(* once there is a socket, the wheel's touch is down only while a key is   *)
(* in steer_keys, steer_keys holds pressed keys only and never the switch  *)
(* or the ADS key, and a keymap that was switched off by its key has no    *)
(* flag set.                                                               *)
Sent == down # {} => connected
Quiet == ~active /\ ~kept => wheel = {} /\ holding = {} /\ ~ads
WheelFollows ==
    /\ Steer \in holding => wheel # {}
    /\ AdsKey \notin wheel
    /\ ~kept => wheel \subseteq pressed /\ (ads => AdsKey \in pressed)

IInv ==
    /\ TypeOK
    /\ FlagsMatchTouches
    /\ TouchesHaveThreads
    /\ Sent
    /\ Quiet
    /\ WheelFollows

(* What Touch does to the guest's touches.                                 *)
LEMMA TouchEffect ==
  ASSUME NEW lift, NEW put, Touch(lift, put)
  PROVE  /\ connected => down' = (down \ lift) \cup put
         /\ ~connected => down' = down
BY DEF Touch

(* The initial state.                                                      *)
LEMMA InitInv == Init => IInv
<1> SUFFICES ASSUME Init PROVE IInv
  OBVIOUS
<1>1. TypeOK
  BY DEF Init, TypeOK
<1>2. FlagsMatchTouches /\ TouchesHaveThreads
  BY DEF Init, FlagsMatchTouches, TouchesHaveThreads
<1>3. Sent /\ Quiet /\ WheelFollows
  BY DEF Init, Sent, Quiet, WheelFollows
<1>4. QED
  BY <1>1, <1>2, <1>3 DEF IInv

(* The types are kept by every step.                                       *)
LEMMA TypeStep == IInv /\ [Next]_vars => TypeOK'
<1> SUFFICES ASSUME TypeOK, [Next]_vars PROVE TypeOK'
  BY DEF IInv
<1> USE KeyAssumption, NodeAssumption
<1> USE DEF TypeOK, Flagged, Tracked, Nodes, Pointers, engineVars, threadVars
<1>1. CASE SwitchOn
  BY <1>1 DEF SwitchOn
<1>2. CASE SwitchOff
  BY <1>2 DEF SwitchOff, ReleaseAll, Touch
<1>3. CASE AdsDown
  BY <1>3 DEF AdsDown, Ads, KeyPressed
<1>4. CASE AdsUp
  BY <1>4 DEF AdsUp, Ads, KeyReleased
<1>5. ASSUME NEW k \in Keys, NodesDown(k) PROVE TypeOK'
  <2> USE <1>5
  <2>1. Bound[k] \subseteq Nodes
    OBVIOUS
  <2>2. wheel' \subseteq WheelKeys /\ pressed' \subseteq Tracked
    BY DEF NodesDown, WheelKey, KeyPressed
  <2>3. holding' \subseteq Flagged
    BY DEF NodesDown, Hold
  <2>4. down' \subseteq Pointers
    BY <2>1 DEF NodesDown, Touch
  <2>5. taps' \in [Clicks -> Nat] /\ pulls' \in [Drags -> Nat]
    BY DEF NodesDown
  <2>6. active' \in BOOLEAN /\ kept' \in BOOLEAN
    BY DEF NodesDown
  <2>7. QED
    BY <2>2, <2>3, <2>4, <2>5, <2>6 DEF NodesDown
<1>6. ASSUME NEW k \in Keys, WheelUp(k) PROVE TypeOK'
  BY <1>6 DEF WheelUp, UpdateSteerWheel, Touch, Hold, KeyReleased
<1>7. ASSUME NEW k \in Keys, KeyElsewhere(k) PROVE TypeOK'
  BY <1>7 DEF KeyElsewhere, KeyPressed, KeyReleased
<1>8. CASE MouseButton
  BY <1>8 DEF MouseButton, Touch
<1>9. CASE MouseMove
  BY <1>9 DEF MouseMove, Touch, Hold
<1>10. CASE Connect
  BY <1>10 DEF Connect
<1>11. ASSUME NEW n \in Clicks, TapEnds(n) PROVE TypeOK'
  BY <1>11 DEF TapEnds, Touch
<1>12. ASSUME NEW n \in Drags, DragBegins(n) PROVE TypeOK'
  BY <1>12 DEF DragBegins, Touch
<1>13. ASSUME NEW n \in Drags, DragEnds(n) PROVE TypeOK'
  BY <1>13 DEF DragEnds, Touch
<1>14. CASE UNCHANGED vars
  BY <1>14 DEF vars
<1>15. QED
  BY <1>1, <1>2, <1>3, <1>4, <1>5, <1>6, <1>7, <1>8, <1>9, <1>10, <1>11, <1>12, <1>13, <1>14
  DEF Next, Keyboard, Mouse

(* Each of them is kept by every step.                                     *)
LEMMA FlagsStep == IInv /\ [Next]_vars => FlagsMatchTouches'
<1> SUFFICES ASSUME IInv, [Next]_vars PROVE FlagsMatchTouches'
  OBVIOUS
<1> USE KeyAssumption, NodeAssumption
<1> USE DEF IInv, TypeOK, Sent, FlagsMatchTouches, Flagged, Nodes, Steer, Aim, Fire, engineVars, threadVars
<1>1. CASE SwitchOn
  BY <1>1 DEF SwitchOn
<1>2. CASE SwitchOff
  BY <1>2 DEF SwitchOff, ReleaseAll, Touch
<1>3. CASE AdsDown
  BY <1>3 DEF AdsDown, Ads, KeyPressed
<1>4. CASE AdsUp
  BY <1>4 DEF AdsUp, Ads, KeyReleased
<1>5. ASSUME NEW k \in Keys, NodesDown(k) PROVE FlagsMatchTouches'
  BY <1>5 DEF NodesDown, Touch, Hold
<1>6. ASSUME NEW k \in Keys, WheelUp(k) PROVE FlagsMatchTouches'
  BY <1>6 DEF WheelUp, UpdateSteerWheel, KeyReleased, Touch, Hold
<1>7. ASSUME NEW k \in Keys, KeyElsewhere(k) PROVE FlagsMatchTouches'
  BY <1>7 DEF KeyElsewhere, KeyPressed, KeyReleased
<1>8. CASE MouseButton
  BY <1>8 DEF MouseButton, Touch
<1>9. CASE MouseMove
  BY <1>9 DEF MouseMove, Touch, Hold
<1>10. CASE Connect
  BY <1>10 DEF Connect
<1>11. ASSUME NEW n \in Clicks, TapEnds(n) PROVE FlagsMatchTouches'
  BY <1>11 DEF TapEnds, Touch
<1>12. ASSUME NEW n \in Drags, DragBegins(n) PROVE FlagsMatchTouches'
  BY <1>12 DEF DragBegins, Touch
<1>13. ASSUME NEW n \in Drags, DragEnds(n) PROVE FlagsMatchTouches'
  BY <1>13 DEF DragEnds, Touch
<1>14. CASE UNCHANGED vars
  BY <1>14 DEF vars
<1>15. QED
  BY <1>1, <1>2, <1>3, <1>4, <1>5, <1>6, <1>7,
     <1>8, <1>9, <1>10, <1>11, <1>12, <1>13, <1>14
  DEF Next, Keyboard, Mouse

LEMMA ThreadsStep == IInv /\ [Next]_vars => TouchesHaveThreads'
<1> SUFFICES ASSUME IInv, [Next]_vars PROVE TouchesHaveThreads'
  OBVIOUS
<1> USE KeyAssumption, NodeAssumption
<1> USE DEF IInv, TypeOK, Sent, TouchesHaveThreads, Flagged, Nodes, Steer, Aim, Fire, engineVars, threadVars
<1>1. CASE SwitchOn
  BY <1>1 DEF SwitchOn
<1>2. CASE SwitchOff
  BY <1>2 DEF SwitchOff, ReleaseAll, Touch
<1>3. CASE AdsDown
  BY <1>3 DEF AdsDown, Ads, KeyPressed
<1>4. CASE AdsUp
  BY <1>4 DEF AdsUp, Ads, KeyReleased
<1>5. ASSUME NEW k \in Keys, NodesDown(k) PROVE TouchesHaveThreads'
  <2> USE <1>5
  <2> DEFINE put == ((Bound[k] \cap Toggles) \ holding) \cup {Steer : w \in WheelKey(k)}
  <2>1. Bound[k] \subseteq Nodes
    OBVIOUS
  <2>2. put \cap (Clicks \cup Drags) = {}
    OBVIOUS
  <2>3. down' \subseteq down \cup put \cup (Bound[k] \cap Clicks)
    BY DEF NodesDown, Touch
  <2>4. ASSUME NEW n \in Clicks, n \in down' PROVE taps'[n] > 0
    <3>1. connected
      BY <2>4 DEF NodesDown, Touch
    <3>2. n \in down => taps[n] > 0
      OBVIOUS
    <3>3. n \in down \/ n \in Bound[k]
      BY <2>2, <2>3, <2>4
    <3>4. QED
      BY <3>1, <3>2, <3>3 DEF NodesDown, TapThreads
  <2>5. ASSUME NEW n \in Drags, n \in down' PROVE drags'[n] > 0
    BY <2>2, <2>3, <2>5 DEF NodesDown
  <2>6. QED
    BY <2>4, <2>5
<1>6. ASSUME NEW k \in Keys, WheelUp(k) PROVE TouchesHaveThreads'
  BY <1>6 DEF WheelUp, UpdateSteerWheel, KeyReleased, Touch, Hold
<1>7. ASSUME NEW k \in Keys, KeyElsewhere(k) PROVE TouchesHaveThreads'
  BY <1>7 DEF KeyElsewhere, KeyPressed, KeyReleased
<1>8. CASE MouseButton
  BY <1>8 DEF MouseButton, Touch
<1>9. CASE MouseMove
  BY <1>9 DEF MouseMove, Touch, Hold
<1>10. CASE Connect
  BY <1>10 DEF Connect
<1>11. ASSUME NEW n \in Clicks, TapEnds(n) PROVE TouchesHaveThreads'
  BY <1>11 DEF TapEnds, Touch
<1>12. ASSUME NEW n \in Drags, DragBegins(n) PROVE TouchesHaveThreads'
  BY <1>12 DEF DragBegins, Touch
<1>13. ASSUME NEW n \in Drags, DragEnds(n) PROVE TouchesHaveThreads'
  BY <1>13 DEF DragEnds, Touch
<1>14. CASE UNCHANGED vars
  BY <1>14 DEF vars
<1>15. QED
  BY <1>1, <1>2, <1>3, <1>4, <1>5, <1>6, <1>7,
     <1>8, <1>9, <1>10, <1>11, <1>12, <1>13, <1>14
  DEF Next, Keyboard, Mouse
LEMMA SentStep == IInv /\ [Next]_vars => Sent'
<1> SUFFICES ASSUME IInv, [Next]_vars PROVE Sent'
  OBVIOUS
<1> USE KeyAssumption, NodeAssumption
<1> USE DEF IInv, Sent, engineVars, threadVars
<1>1. CASE SwitchOn
  BY <1>1 DEF SwitchOn
<1>2. CASE SwitchOff
  BY <1>2 DEF SwitchOff, ReleaseAll, Touch
<1>3. CASE AdsDown
  BY <1>3 DEF AdsDown, Ads, KeyPressed
<1>4. CASE AdsUp
  BY <1>4 DEF AdsUp, Ads, KeyReleased
<1>5. ASSUME NEW k \in Keys, NodesDown(k) PROVE Sent'
  BY <1>5 DEF NodesDown, Touch
<1>6. ASSUME NEW k \in Keys, WheelUp(k) PROVE Sent'
  BY <1>6 DEF WheelUp, UpdateSteerWheel, KeyReleased, Touch
<1>7. ASSUME NEW k \in Keys, KeyElsewhere(k) PROVE Sent'
  BY <1>7 DEF KeyElsewhere, KeyPressed, KeyReleased
<1>8. CASE MouseButton
  BY <1>8 DEF MouseButton, Touch
<1>9. CASE MouseMove
  BY <1>9 DEF MouseMove, Touch
<1>10. CASE Connect
  BY <1>10 DEF Connect
<1>11. ASSUME NEW n \in Clicks, TapEnds(n) PROVE Sent'
  BY <1>11 DEF TapEnds, Touch
<1>12. ASSUME NEW n \in Drags, DragBegins(n) PROVE Sent'
  BY <1>12 DEF DragBegins, Touch
<1>13. ASSUME NEW n \in Drags, DragEnds(n) PROVE Sent'
  BY <1>13 DEF DragEnds, Touch
<1>14. CASE UNCHANGED vars
  BY <1>14 DEF vars
<1>15. QED
  BY <1>1, <1>2, <1>3, <1>4, <1>5, <1>6, <1>7,
     <1>8, <1>9, <1>10, <1>11, <1>12, <1>13, <1>14
  DEF Next, Keyboard, Mouse

LEMMA QuietStep == IInv /\ [Next]_vars => Quiet'
<1> SUFFICES ASSUME IInv, [Next]_vars PROVE Quiet'
  OBVIOUS
<1> USE KeyAssumption, NodeAssumption
<1> USE DEF IInv, TypeOK, Quiet, engineVars, threadVars
<1>1. CASE SwitchOn
  BY <1>1 DEF SwitchOn
<1>2. CASE SwitchOff
  BY <1>2 DEF SwitchOff, ReleaseAll
<1>3. CASE AdsDown
  BY <1>3 DEF AdsDown, Ads, KeyPressed
<1>4. CASE AdsUp
  BY <1>4 DEF AdsUp, Ads, KeyReleased
<1>5. ASSUME NEW k \in Keys, NodesDown(k) PROVE Quiet'
  BY <1>5 DEF NodesDown, Touch, Hold
<1>6. ASSUME NEW k \in Keys, WheelUp(k) PROVE Quiet'
  BY <1>6 DEF WheelUp, UpdateSteerWheel, KeyReleased, Hold
<1>7. ASSUME NEW k \in Keys, KeyElsewhere(k) PROVE Quiet'
  BY <1>7 DEF KeyElsewhere, KeyPressed, KeyReleased
<1>8. CASE MouseButton
  BY <1>8 DEF MouseButton
<1>9. CASE MouseMove
  BY <1>9 DEF MouseMove
<1>10. CASE Connect
  BY <1>10 DEF Connect
<1>11. ASSUME NEW n \in Clicks, TapEnds(n) PROVE Quiet'
  BY <1>11 DEF TapEnds
<1>12. ASSUME NEW n \in Drags, DragBegins(n) PROVE Quiet'
  BY <1>12 DEF DragBegins
<1>13. ASSUME NEW n \in Drags, DragEnds(n) PROVE Quiet'
  BY <1>13 DEF DragEnds
<1>14. CASE UNCHANGED vars
  BY <1>14 DEF vars
<1>15. QED
  BY <1>1, <1>2, <1>3, <1>4, <1>5, <1>6, <1>7,
     <1>8, <1>9, <1>10, <1>11, <1>12, <1>13, <1>14
  DEF Next, Keyboard, Mouse

LEMMA WheelStep == IInv /\ [Next]_vars => WheelFollows'
<1> SUFFICES ASSUME IInv, [Next]_vars PROVE WheelFollows'
  OBVIOUS
<1> USE KeyAssumption, NodeAssumption
<1> USE DEF IInv, TypeOK, Quiet, WheelFollows, Flagged, Tracked, engineVars, threadVars
<1>1. CASE SwitchOn
  BY <1>1 DEF SwitchOn
<1>2. CASE SwitchOff
  BY <1>2 DEF SwitchOff, ReleaseAll
<1>3. CASE AdsDown
  BY <1>3 DEF AdsDown, Ads, KeyPressed
<1>4. CASE AdsUp
  BY <1>4 DEF AdsUp, Ads, KeyReleased
<1>5. ASSUME NEW k \in Keys, NodesDown(k) PROVE WheelFollows'
  BY <1>5 DEF NodesDown, NodeKey, Hold, WheelKey, KeyPressed
<1>6. ASSUME NEW k \in Keys, WheelUp(k) PROVE WheelFollows'
  BY <1>6 DEF WheelUp, UpdateSteerWheel, KeyReleased, NodeKey, Hold
<1>7. ASSUME NEW k \in Keys, KeyElsewhere(k) PROVE WheelFollows'
  BY <1>7 DEF KeyElsewhere, KeyPressed, KeyReleased
<1>8. CASE MouseButton
  BY <1>8 DEF MouseButton
<1>9. CASE MouseMove
  BY <1>9 DEF MouseMove, Hold, Steer, Aim
<1>10. CASE Connect
  BY <1>10 DEF Connect
<1>11. ASSUME NEW n \in Clicks, TapEnds(n) PROVE WheelFollows'
  BY <1>11 DEF TapEnds
<1>12. ASSUME NEW n \in Drags, DragBegins(n) PROVE WheelFollows'
  BY <1>12 DEF DragBegins
<1>13. ASSUME NEW n \in Drags, DragEnds(n) PROVE WheelFollows'
  BY <1>13 DEF DragEnds
<1>14. CASE UNCHANGED vars
  BY <1>14 DEF vars
<1>15. QED
  BY <1>1, <1>2, <1>3, <1>4, <1>5, <1>6, <1>7,
     <1>8, <1>9, <1>10, <1>11, <1>12, <1>13, <1>14
  DEF Next, Keyboard, Mouse

(* The invariant holds of the engine. *)
THEOREM Inductive == Spec => []IInv
<1>1. Init => IInv
  BY InitInv
<1>2. IInv /\ [Next]_vars => IInv'
  BY TypeStep, FlagsStep, ThreadsStep, SentStep, QuietStep, WheelStep DEF IInv
<1>3. QED
  BY <1>1, <1>2, PTL DEF Spec

(* The types: no count of threads goes below zero. *)
THEOREM TypeCorrect == Spec => []TypeOK
<1>1. IInv => TypeOK
  BY DEF IInv
<1>2. QED
  BY <1>1, Inductive, PTL

(* The engine's flags are the guest's touches. *)
THEOREM FlagsCorrect == Spec => []FlagsMatchTouches
<1>1. IInv => FlagsMatchTouches
  BY DEF IInv
<1>2. QED
  BY <1>1, Inductive, PTL

(* No touch of a tap or a drag is without a thread to lift it. *)
THEOREM ThreadsLeft == Spec => []TouchesHaveThreads
<1>1. IInv => TouchesHaveThreads
  BY DEF IInv
<1>2. QED
  BY <1>1, Inductive, PTL

(* The wheel's touch and the ADS sensitivity need their keys held. *)
THEOREM HeldCorrect == Spec => []HeldIsHeld
<1>1. IInv => HeldIsHeld
  BY DEF IInv, TypeOK, FlagsMatchTouches, Flagged, WheelFollows, HeldIsHeld
<1>2. QED
  BY <1>1, Inductive, PTL

(* Switched off by its key, the keymap leaves to be lifted only what its   *)
(* threads lift, and the fire touch.                                       *)
THEOREM OffReleased == Spec => []OffMeansReleased
<1>1. IInv => OffMeansReleased
  BY DEF IInv, TypeOK, FlagsMatchTouches, Flagged, Nodes, Pointers, Quiet, OffMeansReleased
<1>2. QED
  BY <1>1, Inductive, PTL

==============================================================================
