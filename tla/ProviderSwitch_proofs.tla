------------------------- MODULE ProviderSwitch_proofs -------------------------
(***************************************************************************)
(* Proofs about ProviderSwitch, for any providers.                         *)
(***************************************************************************)
EXTENDS ProviderSwitch, TLAPS

(* Where a switch has got to says which of the overlay and its backup is   *)
(* the one it began with.                                                  *)
Phase ==
    /\ step \in {"clean", "copy", "download", "publish", "reset"} => overlay = before
    /\ step \in {"download", "publish", "reset", "create", "mark", "remove", "rename"} => backup = before
    /\ step = "create" => overlay = Absent /\ target # Base
    /\ step = "mark" => overlay = Torn /\ target # Base
    /\ step = "save" => overlay = IF target = Base THEN Absent ELSE target
    /\ step \in {"remove", "rename"} => before # Absent
    /\ step \notin {"idle", "save"} => result = "none"
    /\ step = "save" => result = "ok"

(* While all goes smoothly, only a guest that was started during a switch  *)
(* runs then, and the config still follows the overlay it began with.      *)
Known == smooth => (running /\ ~early => step = "idle") /\ (step # "idle" => Follows(before))

(* Any other guest that runs has the overlay it started from.              *)
OverlayFixed == smooth /\ running /\ ~early => booted \in Shown(overlay)

(* What is about to be renamed is whole.                                   *)
Fetched == PackageWhole /\ (step = "publish" => part = Whole)

IInv ==
    /\ TypeOK /\ Phase /\ Known /\ Fetched
    /\ OverlayKept /\ NothingLost /\ ConfigFollows /\ OverlayFixed

(* What a guest shows of each directory.                                   *)
LEMMA ShownTypes ==
  /\ Shown(Absent) = {Base} /\ Base \in Shown(Torn)
  /\ Marked(Absent) = Base /\ Marked(Torn) = Base
  /\ \A p \in Overlaid : Marked(p) = p
  /\ \A d \in Dirs : Shown(d) \subseteq Providers
BY ProviderAssumption DEF Shown, Marked, Removals, Overlaid, Dirs, Absent, Torn

(* The initial state.                                                      *)
LEMMA InitInv == Init => IInv
<1> SUFFICES ASSUME Init PROVE IInv
  OBVIOUS
<1> USE ProviderAssumption DEF Init
<1>1. TypeOK
  BY DEF TypeOK, Dirs, Steps
<1>2. Phase /\ Known /\ Fetched
  BY DEF Phase, Known, Fetched, PackageWhole, Absent, Torn
<1>3. OverlayKept /\ NothingLost /\ ConfigFollows /\ OverlayFixed
  BY ShownTypes DEF OverlayKept, NothingLost, ConfigFollows, Follows, OverlayFixed, Overlaid
<1>4. QED
  BY <1>1, <1>2, <1>3 DEF IInv

(* The types are kept by every step.                                       *)
LEMMA TypeStep == IInv /\ [Next]_vars => TypeOK'
<1> SUFFICES ASSUME IInv, [Next]_vars PROVE TypeOK'
  OBVIOUS
<1> USE ProviderAssumption
<1> USE DEF IInv, TypeOK, Phase, Dirs, Overlaid, Steps, Absent, Torn, Whole, dirVars, fileVars, vmVars
<1>1. ASSUME NEW t \in Providers, Begin(t) PROVE TypeOK'
  BY <1>1 DEF Begin
<1>2. CASE Clean
  BY <1>2 DEF Clean, Goes
<1>3. CASE Copy
  BY <1>3 DEF Copy, Goes
<1>4. CASE UseCached
  BY <1>4 DEF UseCached, Goes
<1>5. CASE Download
  BY <1>5 DEF Download, Goes
<1>6. CASE Publish
  BY <1>6 DEF Publish, Goes
<1>7. CASE Reset
  BY <1>7 DEF Reset, Goes, Succeeds
<1>8. CASE Create
  BY <1>8 DEF Create, Goes
<1>9. CASE Mark
  BY <1>9 DEF Mark, Succeeds
<1>10. CASE Save
  BY <1>10 DEF Save
<1>11. CASE BackupFails
  BY <1>11 DEF BackupFails, DirsCut, FilesCut, Remains, Fails
<1>12. CASE TransitionFails
  BY <1>12 DEF TransitionFails, DirsCut, FilesCut, Remains, GoBack, Fails
<1>13. CASE Remove
  BY <1>13 DEF Remove, Goes
<1>14. CASE Rename
  BY <1>14 DEF Rename, Fails
<1>15. CASE RestoreFails
  BY <1>15 DEF RestoreFails, DirsCut, FilesCut, Remains
<1>16. CASE SaveFails
  BY <1>16 DEF SaveFails, DirsCut, FilesCut
<1>17. CASE Crash
  BY <1>17 DEF Crash, DirsCut, FilesCut, Remains
<1>18. CASE VmStart
  BY <1>18, ShownTypes DEF VmStart
<1>19. CASE VmStop
  <2>1. running' \in BOOLEAN /\ smooth' \in BOOLEAN
    BY <1>19 DEF VmStop
  <2>2. UNCHANGED <<dirVars, fileVars, config, step, target, before, result, booted, early, detected>>
    BY <1>19 DEF VmStop
  <2>3. QED
    BY <2>1, <2>2
<1>20. CASE Detect
  BY <1>20 DEF Detect
<1>21. CASE UNCHANGED vars
  BY <1>21 DEF vars
<1>22. QED
  BY <1>1, <1>2, <1>3, <1>4, <1>5, <1>6, <1>7, <1>8, <1>9, <1>10, <1>11,
     <1>12, <1>13, <1>14, <1>15, <1>16, <1>17, <1>18, <1>19, <1>20, <1>21 DEF Next, Switch, Failure

(* So is each of the other parts.                                          *)
LEMMA PhaseStep == IInv /\ [Next]_vars => Phase'
<1> SUFFICES ASSUME IInv, [Next]_vars PROVE Phase'
  OBVIOUS
<1> USE ProviderAssumption
<1> USE DEF IInv, Phase, dirVars, fileVars, vmVars
<1>1. ASSUME NEW t \in Providers, Begin(t) PROVE Phase'
  BY <1>1 DEF Begin
<1>2. CASE Clean
  BY <1>2 DEF Clean, Goes
<1>3. CASE Copy
  BY <1>3 DEF Copy, Goes
<1>4. CASE UseCached
  BY <1>4 DEF UseCached, Goes
<1>5. CASE Download
  BY <1>5 DEF Download, Goes
<1>6. CASE Publish
  BY <1>6 DEF Publish, Goes
<1>7. CASE Reset
  BY <1>7 DEF Reset, Goes, Succeeds
<1>8. CASE Create
  BY <1>8 DEF Create, Goes
<1>9. CASE Mark
  BY <1>9 DEF Mark, Succeeds
<1>10. CASE Save
  BY <1>10 DEF Save
<1>11. CASE BackupFails
  BY <1>11 DEF BackupFails, DirsCut, FilesCut, Remains, Fails
<1>12. CASE TransitionFails
  BY <1>12 DEF TransitionFails, DirsCut, FilesCut, Remains, GoBack, Fails
<1>13. CASE Remove
  BY <1>13 DEF Remove, Goes
<1>14. CASE Rename
  BY <1>14 DEF Rename, Fails
<1>15. CASE RestoreFails
  BY <1>15 DEF RestoreFails, DirsCut, FilesCut, Remains
<1>16. CASE SaveFails
  BY <1>16 DEF SaveFails, DirsCut, FilesCut
<1>17. CASE Crash
  BY <1>17 DEF Crash, DirsCut, FilesCut, Remains
<1>18. CASE VmStart
  BY <1>18 DEF VmStart
<1>19. CASE VmStop
  BY <1>19 DEF VmStop
<1>20. CASE Detect
  BY <1>20 DEF Detect
<1>21. CASE UNCHANGED vars
  BY <1>21 DEF vars
<1>22. QED
  BY <1>1, <1>2, <1>3, <1>4, <1>5, <1>6, <1>7, <1>8, <1>9, <1>10, <1>11,
     <1>12, <1>13, <1>14, <1>15, <1>16, <1>17, <1>18, <1>19, <1>20, <1>21 DEF Next, Switch, Failure

LEMMA FetchedStep == IInv /\ [Next]_vars => Fetched'
<1> SUFFICES ASSUME IInv, [Next]_vars PROVE Fetched'
  OBVIOUS
<1> USE ProviderAssumption
<1> USE DEF IInv, Fetched, PackageWhole, Absent, Torn, Whole, dirVars, fileVars, vmVars
<1>1. ASSUME NEW t \in Providers, Begin(t) PROVE Fetched'
  BY <1>1 DEF Begin
<1>2. CASE Clean
  BY <1>2 DEF Clean, Goes
<1>3. CASE Copy
  BY <1>3 DEF Copy, Goes
<1>4. CASE UseCached
  BY <1>4 DEF UseCached, Goes
<1>5. CASE Download
  BY <1>5 DEF Download, Goes
<1>6. CASE Publish
  BY <1>6 DEF Publish, Goes
<1>7. CASE Reset
  BY <1>7 DEF Reset, Goes, Succeeds
<1>8. CASE Create
  BY <1>8 DEF Create, Goes
<1>9. CASE Mark
  BY <1>9 DEF Mark, Succeeds
<1>10. CASE Save
  BY <1>10 DEF Save
<1>11. CASE BackupFails
  BY <1>11 DEF BackupFails, DirsCut, FilesCut, Remains, Fails
<1>12. CASE TransitionFails
  BY <1>12 DEF TransitionFails, DirsCut, FilesCut, Remains, GoBack, Fails
<1>13. CASE Remove
  BY <1>13 DEF Remove, Goes
<1>14. CASE Rename
  BY <1>14 DEF Rename, Fails
<1>15. CASE RestoreFails
  BY <1>15 DEF RestoreFails, DirsCut, FilesCut, Remains
<1>16. CASE SaveFails
  BY <1>16 DEF SaveFails, DirsCut, FilesCut
<1>17. CASE Crash
  BY <1>17 DEF Crash, DirsCut, FilesCut, Remains
<1>18. CASE VmStart
  BY <1>18 DEF VmStart
<1>19. CASE VmStop
  BY <1>19 DEF VmStop
<1>20. CASE Detect
  BY <1>20 DEF Detect
<1>21. CASE UNCHANGED vars
  BY <1>21 DEF vars
<1>22. QED
  BY <1>1, <1>2, <1>3, <1>4, <1>5, <1>6, <1>7, <1>8, <1>9, <1>10, <1>11,
     <1>12, <1>13, <1>14, <1>15, <1>16, <1>17, <1>18, <1>19, <1>20, <1>21 DEF Next, Switch, Failure

LEMMA KnownStep == IInv /\ [Next]_vars => Known'
<1> SUFFICES ASSUME IInv, [Next]_vars PROVE Known'
  OBVIOUS
<1> USE ProviderAssumption
<1> USE DEF IInv, TypeOK, Known, Follows, ConfigFollows, dirVars, fileVars, vmVars
<1>1. ASSUME NEW t \in Providers, Begin(t) PROVE Known'
  BY <1>1 DEF Begin
<1>2. CASE Clean
  BY <1>2 DEF Clean, Goes
<1>3. CASE Copy
  BY <1>3 DEF Copy, Goes
<1>4. CASE UseCached
  BY <1>4 DEF UseCached, Goes
<1>5. CASE Download
  BY <1>5 DEF Download, Goes
<1>6. CASE Publish
  BY <1>6 DEF Publish, Goes
<1>7. CASE Reset
  BY <1>7 DEF Reset, Goes, Succeeds
<1>8. CASE Create
  BY <1>8 DEF Create, Goes
<1>9. CASE Mark
  BY <1>9 DEF Mark, Succeeds
<1>10. CASE Save
  BY <1>10 DEF Save
<1>11. CASE BackupFails
  BY <1>11 DEF BackupFails, DirsCut, FilesCut, Remains, Fails
<1>12. CASE TransitionFails
  BY <1>12 DEF TransitionFails, DirsCut, FilesCut, Remains, GoBack, Fails
<1>13. CASE Remove
  BY <1>13 DEF Remove, Goes
<1>14. CASE Rename
  BY <1>14 DEF Rename, Fails
<1>15. CASE RestoreFails
  BY <1>15 DEF RestoreFails, DirsCut, FilesCut, Remains
<1>16. CASE SaveFails
  BY <1>16 DEF SaveFails, DirsCut, FilesCut
<1>17. CASE Crash
  BY <1>17 DEF Crash, DirsCut, FilesCut, Remains
<1>18. CASE VmStart
  BY <1>18 DEF VmStart
<1>19. CASE VmStop
  BY <1>19 DEF VmStop
<1>20. CASE Detect
  BY <1>20 DEF Detect
<1>21. CASE UNCHANGED vars
  BY <1>21 DEF vars
<1>22. QED
  BY <1>1, <1>2, <1>3, <1>4, <1>5, <1>6, <1>7, <1>8, <1>9, <1>10, <1>11,
     <1>12, <1>13, <1>14, <1>15, <1>16, <1>17, <1>18, <1>19, <1>20, <1>21 DEF Next, Switch, Failure

LEMMA KeptStep == IInv /\ [Next]_vars => OverlayKept' /\ NothingLost'
<1> SUFFICES ASSUME IInv, [Next]_vars PROVE (OverlayKept /\ NothingLost)'
  OBVIOUS
<1> USE ProviderAssumption
<1> USE DEF IInv, TypeOK, Phase, OverlayKept, NothingLost, Dirs, Overlaid, Absent, Torn, dirVars, fileVars, vmVars
<1>1. ASSUME NEW t \in Providers, Begin(t) PROVE (OverlayKept /\ NothingLost)'
  BY <1>1 DEF Begin
<1>2. CASE Clean
  BY <1>2 DEF Clean, Goes
<1>3. CASE Copy
  BY <1>3 DEF Copy, Goes
<1>4. CASE UseCached
  BY <1>4 DEF UseCached, Goes
<1>5. CASE Download
  BY <1>5 DEF Download, Goes
<1>6. CASE Publish
  BY <1>6 DEF Publish, Goes
<1>7. CASE Reset
  BY <1>7 DEF Reset, Goes, Succeeds
<1>8. CASE Create
  BY <1>8 DEF Create, Goes
<1>9. CASE Mark
  BY <1>9 DEF Mark, Succeeds
<1>10. CASE Save
  BY <1>10 DEF Save
<1>11. CASE BackupFails
  BY <1>11 DEF BackupFails, DirsCut, FilesCut, Remains, Fails
<1>12. CASE TransitionFails
  BY <1>12 DEF TransitionFails, DirsCut, FilesCut, Remains, GoBack, Fails
<1>13. CASE Remove
  BY <1>13 DEF Remove, Goes
<1>14. CASE Rename
  BY <1>14 DEF Rename, Fails
<1>15. CASE RestoreFails
  BY <1>15 DEF RestoreFails, DirsCut, FilesCut, Remains
<1>16. CASE SaveFails
  BY <1>16 DEF SaveFails, DirsCut, FilesCut
<1>17. CASE Crash
  BY <1>17 DEF Crash, DirsCut, FilesCut, Remains
<1>18. CASE VmStart
  BY <1>18 DEF VmStart
<1>19. CASE VmStop
  BY <1>19 DEF VmStop
<1>20. CASE Detect
  BY <1>20 DEF Detect
<1>21. CASE UNCHANGED vars
  BY <1>21 DEF vars
<1>22. QED
  BY <1>1, <1>2, <1>3, <1>4, <1>5, <1>6, <1>7, <1>8, <1>9, <1>10, <1>11,
     <1>12, <1>13, <1>14, <1>15, <1>16, <1>17, <1>18, <1>19, <1>20, <1>21 DEF Next, Switch, Failure

LEMMA ConfigStep == IInv /\ [Next]_vars => ConfigFollows'
<1> SUFFICES ASSUME IInv, [Next]_vars PROVE ConfigFollows'
  OBVIOUS
<1> USE ProviderAssumption
<1> USE DEF IInv, TypeOK, Phase, Known, Follows, ConfigFollows, OverlayFixed, dirVars, fileVars, vmVars
<1>1. ASSUME NEW t \in Providers, Begin(t) PROVE ConfigFollows'
  BY <1>1 DEF Begin
<1>2. CASE Clean
  BY <1>2 DEF Clean, Goes
<1>3. CASE Copy
  BY <1>3 DEF Copy, Goes
<1>4. CASE UseCached
  BY <1>4 DEF UseCached, Goes
<1>5. CASE Download
  BY <1>5 DEF Download, Goes
<1>6. CASE Publish
  BY <1>6 DEF Publish, Goes
<1>7. CASE Reset
  BY <1>7 DEF Reset, Goes, Succeeds
<1>8. CASE Create
  BY <1>8 DEF Create, Goes
<1>9. CASE Mark
  BY <1>9 DEF Mark, Succeeds
<1>10. CASE Save
  BY <1>10, ShownTypes DEF Save, Overlaid
<1>11. CASE BackupFails
  BY <1>11 DEF BackupFails, DirsCut, FilesCut, Remains, Fails
<1>12. CASE TransitionFails
  <2>1. CASE backup # Absent
    BY <1>12, <2>1 DEF TransitionFails, GoBack
  <2>2. CASE backup = Absent
    <3>1. before = Absent /\ step # "idle"
      BY <1>12, <2>2 DEF TransitionFails
    <3>2. overlay' \in {Absent, Torn}
      BY <1>12, <3>1 DEF TransitionFails, DirsCut, Remains
    <3>3. UNCHANGED <<config, detected, smooth>>
      BY <1>12, <2>2 DEF TransitionFails, FilesCut, GoBack, Fails
    <3>4. smooth => config = Base
      BY <3>1, ShownTypes
    <3> QED
      BY <3>2, <3>3, <3>4, ShownTypes
  <2> QED
    BY <2>1, <2>2
<1>13. CASE Remove
  BY <1>13 DEF Remove, Goes
<1>14. CASE Rename
  BY <1>14 DEF Rename, Fails
<1>15. CASE RestoreFails
  BY <1>15 DEF RestoreFails, DirsCut, FilesCut, Remains
<1>16. CASE SaveFails
  BY <1>16 DEF SaveFails, DirsCut, FilesCut
<1>17. CASE Crash
  BY <1>17 DEF Crash, DirsCut, FilesCut, Remains
<1>18. CASE VmStart
  BY <1>18 DEF VmStart
<1>19. CASE VmStop
  BY <1>19 DEF VmStop
<1>20. CASE Detect
  BY <1>20 DEF Detect
<1>21. CASE UNCHANGED vars
  BY <1>21 DEF vars
<1>22. QED
  BY <1>1, <1>2, <1>3, <1>4, <1>5, <1>6, <1>7, <1>8, <1>9, <1>10, <1>11,
     <1>12, <1>13, <1>14, <1>15, <1>16, <1>17, <1>18, <1>19, <1>20, <1>21 DEF Next, Switch, Failure

LEMMA FixedStep == IInv /\ [Next]_vars => OverlayFixed'
<1> SUFFICES ASSUME IInv, [Next]_vars PROVE OverlayFixed'
  OBVIOUS
<1> USE ProviderAssumption
<1> USE DEF IInv, TypeOK, Known, OverlayFixed, dirVars, fileVars, vmVars
<1>1. ASSUME NEW t \in Providers, Begin(t) PROVE OverlayFixed'
  BY <1>1 DEF Begin
<1>2. CASE Clean
  BY <1>2 DEF Clean, Goes
<1>3. CASE Copy
  BY <1>3 DEF Copy, Goes
<1>4. CASE UseCached
  BY <1>4 DEF UseCached, Goes
<1>5. CASE Download
  BY <1>5 DEF Download, Goes
<1>6. CASE Publish
  BY <1>6 DEF Publish, Goes
<1>7. CASE Reset
  BY <1>7 DEF Reset, Goes, Succeeds
<1>8. CASE Create
  BY <1>8 DEF Create, Goes
<1>9. CASE Mark
  BY <1>9 DEF Mark, Succeeds
<1>10. CASE Save
  BY <1>10 DEF Save
<1>11. CASE BackupFails
  BY <1>11 DEF BackupFails, DirsCut, FilesCut, Remains, Fails
<1>12. CASE TransitionFails
  BY <1>12 DEF TransitionFails, DirsCut, FilesCut, Remains, GoBack, Fails
<1>13. CASE Remove
  BY <1>13 DEF Remove, Goes
<1>14. CASE Rename
  BY <1>14 DEF Rename, Fails
<1>15. CASE RestoreFails
  BY <1>15 DEF RestoreFails, DirsCut, FilesCut, Remains
<1>16. CASE SaveFails
  BY <1>16 DEF SaveFails, DirsCut, FilesCut
<1>17. CASE Crash
  BY <1>17 DEF Crash, DirsCut, FilesCut, Remains
<1>18. CASE VmStart
  BY <1>18 DEF VmStart
<1>19. CASE VmStop
  BY <1>19 DEF VmStop
<1>20. CASE Detect
  BY <1>20 DEF Detect
<1>21. CASE UNCHANGED vars
  BY <1>21 DEF vars
<1>22. QED
  BY <1>1, <1>2, <1>3, <1>4, <1>5, <1>6, <1>7, <1>8, <1>9, <1>10, <1>11,
     <1>12, <1>13, <1>14, <1>15, <1>16, <1>17, <1>18, <1>19, <1>20, <1>21 DEF Next, Switch, Failure

(* The invariant holds of every switch. *)
THEOREM Inductive == Spec => []IInv
<1>1. Init => IInv
  BY InitInv
<1>2. IInv /\ [Next]_vars => IInv'
  BY TypeStep, PhaseStep, FetchedStep, KnownStep, KeptStep, ConfigStep, FixedStep DEF IInv
<1>3. QED
  BY <1>1, <1>2, PTL DEF Spec

(* The types. *)
THEOREM TypeCorrect == Spec => []TypeOK
<1>1. IInv => TypeOK
  BY DEF IInv
<1>2. QED
  BY <1>1, Inductive, PTL

(* A failed switch leaves a whole overlay as it was. *)
THEOREM RollbackKeeps == Spec => []OverlayKept
<1>1. IInv => OverlayKept
  BY DEF IInv
<1>2. QED
  BY <1>1, Inductive, PTL

(* A whole overlay outlives every failure and crash of a switch. *)
THEOREM OverlayNotLost == Spec => []NothingLost
<1>1. IInv => NothingLost
  BY DEF IInv
<1>2. QED
  BY <1>1, Inductive, PTL

(* The saved config names the provider whose marker the overlay has, or,   *)
(* once it was detected, what a guest shows with that overlay.             *)
THEOREM ConfigCorrect == Spec => []ConfigFollows
<1>1. IInv => ConfigFollows
  BY DEF IInv
<1>2. QED
  BY <1>1, Inductive, PTL

(* A cached package is whole. *)
THEOREM CacheWhole == Spec => []PackageWhole
<1>1. IInv => PackageWhole
  BY DEF IInv, Fetched
<1>2. QED
  BY <1>1, Inductive, PTL

==============================================================================
