-------------------------- MODULE VmLauncher_proofs ---------------------------
(***************************************************************************)
(* Proofs about VmLauncher, for every set of starts, and about Window,     *)
(* which is shown to implement it, for any number of installs.             *)
(***************************************************************************)
EXTENDS Window, TLAPS

(* A start has no QEMU before it spawns one, nor after it failed. *)
Unspawned ==
    {Find[i] : i \in Images} \cup {Create[i] : i \in Images}
    \cup {Format[i] : i \in Images} \cup {"none", "check", "launch", "failed"}
SpawnedLate == \A s \in Starts : thread[s] \in Unspawned => qemu[s] = "none"

(* NotRunningMeansStopped in every state of the UI thread. *)
Reported ==
    ui # "exited" /\ ~running =>
        \A s \in Starts : Alive(s) => thread[s] \in {"store", "ok"} \/ s \in stray

IInv == TypeOK /\ SpawnedLate /\ QemuAccounted /\ Reported /\ RunningIsWatched

------------------------------------------------------------------------------

(* The stages of a bootstrap by name. *)
LEMMA StageNames ==
    ASSUME NEW i \in Images
    PROVE  /\ Find[i] \in {"find userdata", "find cache"}
           /\ Create[i] \in {"create userdata", "create cache"}
           /\ Format[i] \in {"format userdata", "format cache"}
           /\ AfterImage[i] \in {"find cache", "launch"}
<1>1. CASE i = "userdata"  BY <1>1 DEF Find, Create, Format, AfterImage
<1>2. CASE i = "cache"  BY <1>2 DEF Find, Create, Format, AfterImage
<1> QED  BY <1>1, <1>2 DEF Images

LEMMA StageSets ==
    /\ Unspawned = {"find userdata", "find cache", "create userdata", "create cache",
                    "format userdata", "format cache", "none", "check", "launch", "failed"}
    /\ Stages = Unspawned \cup {"store", "ok", "over"}
<1>1. \A x : (\E i \in Images : x = Find[i]) <=> x \in {"find userdata", "find cache"}
  BY DEF Find, Images
<1>2. \A x : (\E i \in Images : x = Create[i]) <=> x \in {"create userdata", "create cache"}
  BY DEF Create, Images
<1>3. \A x : (\E i \in Images : x = Format[i]) <=> x \in {"format userdata", "format cache"}
  BY DEF Format, Images
<1>4. {Find[i] : i \in Images} = {"find userdata", "find cache"}  BY <1>1
<1>5. {Create[i] : i \in Images} = {"create userdata", "create cache"}  BY <1>2
<1>6. {Format[i] : i \in Images} = {"format userdata", "format cache"}  BY <1>3
<1> QED  BY ONLY <1>4, <1>5, <1>6 DEF Unspawned, Stages

------------------------------------------------------------------------------

(* Each step preserves each part of the invariant. *)

LEMMA TypeStep ==
    ASSUME IInv, [Next]_vars
    PROVE  TypeOK'
<1> USE DEF IInv, TypeOK, QemuStatus, vars, uiVars, qemuVars
<1>1. ASSUME NEW s \in Starts, StartVm(s)  PROVE TypeOK'
  BY <1>1, StageSets DEF StartVm, Goto
<1>2. ASSUME NEW s \in Starts, Check(s)  PROVE TypeOK'
  BY <1>2, StageSets DEF Check, Goto, Forget, IsRunning
<1>3. ASSUME NEW s \in Starts, Launch(s)  PROVE TypeOK'
  BY <1>3, StageSets DEF Launch, Goto
<1>4. ASSUME NEW s \in Starts, Store(s)  PROVE TypeOK'
  BY <1>4, StageSets DEF Store, Goto, IsRunning
<1>5. ASSUME NEW s \in Starts, PollStart(s)  PROVE TypeOK'
  BY <1>5, StageSets DEF PollStart, Goto, Watch
<1>6. ASSUME NEW s \in Starts, MonitorEnds(s)  PROVE TypeOK'
  BY <1>6, StageSets DEF MonitorEnds
<1>7. ASSUME NEW s \in Starts, MonitorSeesBoot(s)  PROVE TypeOK'
  BY <1>7, StageSets DEF MonitorSeesBoot
<1>8. ASSUME NEW s \in Starts, MonitorSeesNothing(s)  PROVE TypeOK'
  BY <1>8, StageSets DEF MonitorSeesNothing, Forget, IsRunning
<1>9. ASSUME NEW s \in Starts, Bind(s)  PROVE TypeOK'
  BY <1>9, StageSets DEF Bind
<1>10. ASSUME NEW s \in Starts, ComeUp(s)  PROVE TypeOK'
  BY <1>10, StageSets DEF ComeUp
<1>11. ASSUME NEW s \in Starts, Die(s)  PROVE TypeOK'
  BY <1>11, StageSets DEF Die
<1>12. ASSUME NEW s \in Starts, NEW i \in Images, FindImage(s, i)  PROVE TypeOK'
  BY <1>12, StageNames, StageSets DEF FindImage, Goto
<1>13. ASSUME NEW s \in Starts, NEW i \in Images, CreateImage(s, i)  PROVE TypeOK'
  <2>1. image' \in [Images -> {"absent", "raw", "made"}]
    BY <1>13 DEF CreateImage
  <2>2. thread' \in [Starts -> Stages]
    <3>1. Format[i] \in Stages /\ "failed" \in Stages
      BY StageNames, StageSets
    <3>2. thread' = [thread EXCEPT ![s] = Format[i]] \/ thread' = [thread EXCEPT ![s] = "failed"]
      BY <1>13 DEF CreateImage, Goto
    <3> HIDE DEF TypeOK
    <3>3. thread \in [Starts -> Stages]
      BY DEF TypeOK
    <3> QED
      BY <3>1, <3>2, <3>3
  <2> QED
    BY <1>13, <2>1, <2>2 DEF CreateImage
<1>14. ASSUME NEW s \in Starts, NEW i \in Images, FormatImage(s, i)  PROVE TypeOK'
  <2>1. image' \in [Images -> {"absent", "raw", "made"}]
    BY <1>14 DEF FormatImage
  <2>2. thread' \in [Starts -> Stages]
    <3>1. AfterImage[i] \in Stages /\ "failed" \in Stages
      BY StageNames, StageSets
    <3>2. thread' = [thread EXCEPT ![s] = AfterImage[i]] \/ thread' = [thread EXCEPT ![s] = "failed"]
      BY <1>14 DEF FormatImage, Goto
    <3> HIDE DEF TypeOK
    <3>3. thread \in [Starts -> Stages]
      BY DEF TypeOK
    <3> QED
      BY <3>1, <3>2, <3>3
  <2> QED
    BY <1>14, <2>1, <2>2 DEF FormatImage
<1>15. CASE StopBegin
  BY <1>15, StageSets DEF StopBegin
<1>16. CASE StopAsks
  BY <1>16, StageSets DEF StopAsks
<1>17. CASE StopEnds
  BY <1>17, StageSets DEF StopEnds, Kill, IsRunning
<1>18. CASE Exit
  BY <1>18, StageSets DEF Exit
<1>19. CASE Reopen
  BY <1>19, StageSets DEF Reopen
<1>20. CASE UNCHANGED vars
  BY <1>20 DEF vars
<1> QED
  BY <1>1, <1>2, <1>3, <1>4, <1>5, <1>6, <1>7, <1>8, <1>9, <1>10, <1>11, <1>12, <1>13, <1>14, <1>15, <1>16, <1>17, <1>18, <1>19, <1>20 DEF Next, Stop, Thread, Monitor, Qemu

LEMMA SpawnedLateStep ==
    ASSUME IInv, [Next]_vars
    PROVE  SpawnedLate'
<1> USE DEF IInv, SpawnedLate, TypeOK, Alive, vars, uiVars, qemuVars
<1>1. ASSUME NEW s \in Starts, StartVm(s)  PROVE SpawnedLate'
  BY <1>1, StageSets DEF StartVm, Goto
<1>2. ASSUME NEW s \in Starts, Check(s)  PROVE SpawnedLate'
  BY <1>2, StageSets DEF Check, Goto, Forget, IsRunning
<1>3. ASSUME NEW s \in Starts, Launch(s)  PROVE SpawnedLate'
  BY <1>3, StageSets DEF Launch, Goto
<1>4. ASSUME NEW s \in Starts, Store(s)  PROVE SpawnedLate'
  BY <1>4, StageSets DEF Store, Goto, IsRunning
<1>5. ASSUME NEW s \in Starts, PollStart(s)  PROVE SpawnedLate'
  BY <1>5, StageSets DEF PollStart, Goto, Watch
<1>6. ASSUME NEW s \in Starts, MonitorEnds(s)  PROVE SpawnedLate'
  BY <1>6, StageSets DEF MonitorEnds
<1>7. ASSUME NEW s \in Starts, MonitorSeesBoot(s)  PROVE SpawnedLate'
  BY <1>7, StageSets DEF MonitorSeesBoot
<1>8. ASSUME NEW s \in Starts, MonitorSeesNothing(s)  PROVE SpawnedLate'
  BY <1>8, StageSets DEF MonitorSeesNothing, Forget, IsRunning
<1>9. ASSUME NEW s \in Starts, Bind(s)  PROVE SpawnedLate'
  BY <1>9, StageSets DEF Bind
<1>10. ASSUME NEW s \in Starts, ComeUp(s)  PROVE SpawnedLate'
  BY <1>10, StageSets DEF ComeUp
<1>11. ASSUME NEW s \in Starts, Die(s)  PROVE SpawnedLate'
  BY <1>11, StageSets DEF Die
<1>12. ASSUME NEW s \in Starts, NEW i \in Images, FindImage(s, i)  PROVE SpawnedLate'
  BY <1>12, StageNames, StageSets DEF FindImage, Goto
<1>13. ASSUME NEW s \in Starts, NEW i \in Images, CreateImage(s, i)  PROVE SpawnedLate'
  BY <1>13, StageNames, StageSets DEF CreateImage, Goto
<1>14. ASSUME NEW s \in Starts, NEW i \in Images, FormatImage(s, i)  PROVE SpawnedLate'
  BY <1>14, StageNames, StageSets DEF FormatImage, Goto
<1>15. CASE StopBegin
  BY <1>15, StageSets DEF StopBegin
<1>16. CASE StopAsks
  BY <1>16, StageSets DEF StopAsks
<1>17. CASE StopEnds
  BY <1>17, StageSets DEF StopEnds, Kill, IsRunning
<1>18. CASE Exit
  BY <1>18, StageSets DEF Exit
<1>19. CASE Reopen
  BY <1>19, StageSets DEF Reopen
<1>20. CASE UNCHANGED vars
  BY <1>20 DEF vars
<1> QED
  BY <1>1, <1>2, <1>3, <1>4, <1>5, <1>6, <1>7, <1>8, <1>9, <1>10, <1>11, <1>12, <1>13, <1>14, <1>15, <1>16, <1>17, <1>18, <1>19, <1>20 DEF Next, Stop, Thread, Monitor, Qemu

LEMMA AccountedStep ==
    ASSUME IInv, [Next]_vars
    PROVE  QemuAccounted'
<1> USE DEF IInv, QemuAccounted, SpawnedLate, TypeOK, Alive, vars, uiVars, qemuVars
<1>1. ASSUME NEW s \in Starts, StartVm(s)  PROVE QemuAccounted'
  BY <1>1, StageSets DEF StartVm, Goto
<1>2. ASSUME NEW s \in Starts, Check(s)  PROVE QemuAccounted'
  BY <1>2, StageSets DEF Check, Goto, Forget, IsRunning
<1>3. ASSUME NEW s \in Starts, Launch(s)  PROVE QemuAccounted'
  BY <1>3, StageSets DEF Launch, Goto
<1>4. ASSUME NEW s \in Starts, Store(s)  PROVE QemuAccounted'
  <2> SUFFICES ASSUME NEW t \in Starts, ui # "exited", Alive(t)
               PROVE  t = s \/ thread'[t] = "store" \/ t \in stray'
    BY <1>4 DEF Store
  <2>1. CASE t = process
    BY <1>4, <2>1, StartsAssumption DEF Store, IsRunning
  <2>2. CASE t # s /\ thread[t] = "store"
    BY <1>4, <2>2 DEF Store, Goto
  <2>3. CASE t \in stray
    BY <1>4, <2>3 DEF Store
  <2> QED
    BY <2>1, <2>2, <2>3
<1>5. ASSUME NEW s \in Starts, PollStart(s)  PROVE QemuAccounted'
  BY <1>5, StageSets DEF PollStart, Goto, Watch
<1>6. ASSUME NEW s \in Starts, MonitorEnds(s)  PROVE QemuAccounted'
  BY <1>6, StageSets DEF MonitorEnds
<1>7. ASSUME NEW s \in Starts, MonitorSeesBoot(s)  PROVE QemuAccounted'
  BY <1>7, StageSets DEF MonitorSeesBoot
<1>8. ASSUME NEW s \in Starts, MonitorSeesNothing(s)  PROVE QemuAccounted'
  BY <1>8, StageSets DEF MonitorSeesNothing, Forget, IsRunning
<1>9. ASSUME NEW s \in Starts, Bind(s)  PROVE QemuAccounted'
  BY <1>9, StageSets DEF Bind
<1>10. ASSUME NEW s \in Starts, ComeUp(s)  PROVE QemuAccounted'
  BY <1>10, StageSets DEF ComeUp
<1>11. ASSUME NEW s \in Starts, Die(s)  PROVE QemuAccounted'
  BY <1>11, StageSets DEF Die
<1>12. ASSUME NEW s \in Starts, NEW i \in Images, FindImage(s, i)  PROVE QemuAccounted'
  BY <1>12, StageNames, StageSets DEF FindImage, Goto
<1>13. ASSUME NEW s \in Starts, NEW i \in Images, CreateImage(s, i)  PROVE QemuAccounted'
  BY <1>13, StageNames, StageSets DEF CreateImage, Goto
<1>14. ASSUME NEW s \in Starts, NEW i \in Images, FormatImage(s, i)  PROVE QemuAccounted'
  BY <1>14, StageNames, StageSets DEF FormatImage, Goto
<1>15. CASE StopBegin
  BY <1>15, StageSets DEF StopBegin
<1>16. CASE StopAsks
  BY <1>16, StageSets DEF StopAsks
<1>17. CASE StopEnds
  BY <1>17, StageSets DEF StopEnds, Kill, IsRunning
<1>18. CASE Exit
  BY <1>18, StageSets DEF Exit
<1>19. CASE Reopen
  BY <1>19, StageSets DEF Reopen
<1>20. CASE UNCHANGED vars
  BY <1>20 DEF vars
<1> QED
  BY <1>1, <1>2, <1>3, <1>4, <1>5, <1>6, <1>7, <1>8, <1>9, <1>10, <1>11, <1>12, <1>13, <1>14, <1>15, <1>16, <1>17, <1>18, <1>19, <1>20 DEF Next, Stop, Thread, Monitor, Qemu

LEMMA ReportedStep ==
    ASSUME IInv, [Next]_vars
    PROVE  Reported'
<1> USE DEF IInv, Reported, QemuAccounted, SpawnedLate, TypeOK, Alive, vars, uiVars, qemuVars
<1>1. ASSUME NEW s \in Starts, StartVm(s)  PROVE Reported'
  BY <1>1, StageSets DEF StartVm, Goto
<1>2. ASSUME NEW s \in Starts, Check(s)  PROVE Reported'
  BY <1>2, StageSets DEF Check, Goto, Forget, IsRunning
<1>3. ASSUME NEW s \in Starts, Launch(s)  PROVE Reported'
  BY <1>3, StageSets DEF Launch, Goto
<1>4. ASSUME NEW s \in Starts, Store(s)  PROVE Reported'
  BY <1>4, StageSets DEF Store, Goto, IsRunning
<1>5. ASSUME NEW s \in Starts, PollStart(s)  PROVE Reported'
  BY <1>5, StageSets DEF PollStart, Goto, Watch
<1>6. ASSUME NEW s \in Starts, MonitorEnds(s)  PROVE Reported'
  BY <1>6, StageSets DEF MonitorEnds
<1>7. ASSUME NEW s \in Starts, MonitorSeesBoot(s)  PROVE Reported'
  BY <1>7, StageSets DEF MonitorSeesBoot
<1>8. ASSUME NEW s \in Starts, MonitorSeesNothing(s)  PROVE Reported'
  <2>1. \A t \in Starts : Alive(t) => t # process
    BY <1>8, StartsAssumption DEF MonitorSeesNothing, IsRunning
  <2> QED
    BY <1>8, <2>1 DEF MonitorSeesNothing
<1>9. ASSUME NEW s \in Starts, Bind(s)  PROVE Reported'
  BY <1>9, StageSets DEF Bind
<1>10. ASSUME NEW s \in Starts, ComeUp(s)  PROVE Reported'
  BY <1>10, StageSets DEF ComeUp
<1>11. ASSUME NEW s \in Starts, Die(s)  PROVE Reported'
  BY <1>11, StageSets DEF Die
<1>12. ASSUME NEW s \in Starts, NEW i \in Images, FindImage(s, i)  PROVE Reported'
  BY <1>12, StageNames, StageSets DEF FindImage, Goto
<1>13. ASSUME NEW s \in Starts, NEW i \in Images, CreateImage(s, i)  PROVE Reported'
  BY <1>13, StageNames, StageSets DEF CreateImage, Goto
<1>14. ASSUME NEW s \in Starts, NEW i \in Images, FormatImage(s, i)  PROVE Reported'
  BY <1>14, StageNames, StageSets DEF FormatImage, Goto
<1>15. CASE StopBegin
  BY <1>15, StageSets DEF StopBegin
<1>16. CASE StopAsks
  BY <1>16, StageSets DEF StopAsks
<1>17. CASE StopEnds
  <2>1. \A t \in Starts : (Alive(t))' => Alive(t) /\ t # process
    BY <1>17, StartsAssumption DEF StopEnds, Kill, IsRunning
  <2> QED
    BY <1>17, <2>1 DEF StopEnds
<1>18. CASE Exit
  BY <1>18, StageSets DEF Exit
<1>19. CASE Reopen
  BY <1>19, StageSets DEF Reopen
<1>20. CASE UNCHANGED vars
  BY <1>20 DEF vars
<1> QED
  BY <1>1, <1>2, <1>3, <1>4, <1>5, <1>6, <1>7, <1>8, <1>9, <1>10, <1>11, <1>12, <1>13, <1>14, <1>15, <1>16, <1>17, <1>18, <1>19, <1>20 DEF Next, Stop, Thread, Monitor, Qemu

LEMMA WatchedStep ==
    ASSUME IInv, [Next]_vars
    PROVE  RunningIsWatched'
<1> USE DEF IInv, RunningIsWatched, TypeOK, vars, uiVars, qemuVars
<1>1. ASSUME NEW s \in Starts, StartVm(s)  PROVE RunningIsWatched'
  BY <1>1 DEF StartVm, Goto
<1>2. ASSUME NEW s \in Starts, Check(s)  PROVE RunningIsWatched'
  BY <1>2 DEF Check, Goto, Forget, IsRunning
<1>3. ASSUME NEW s \in Starts, Launch(s)  PROVE RunningIsWatched'
  BY <1>3 DEF Launch, Goto
<1>4. ASSUME NEW s \in Starts, Store(s)  PROVE RunningIsWatched'
  BY <1>4 DEF Store, Goto, IsRunning
<1>5. ASSUME NEW s \in Starts, PollStart(s)  PROVE RunningIsWatched'
  BY <1>5 DEF PollStart, Goto, Watch
<1>6. ASSUME NEW s \in Starts, MonitorEnds(s)  PROVE RunningIsWatched'
  BY <1>6 DEF MonitorEnds
<1>7. ASSUME NEW s \in Starts, MonitorSeesBoot(s)  PROVE RunningIsWatched'
  BY <1>7 DEF MonitorSeesBoot
<1>8. ASSUME NEW s \in Starts, MonitorSeesNothing(s)  PROVE RunningIsWatched'
  BY <1>8 DEF MonitorSeesNothing, Forget, IsRunning
<1>9. ASSUME NEW s \in Starts, Bind(s)  PROVE RunningIsWatched'
  BY <1>9 DEF Bind
<1>10. ASSUME NEW s \in Starts, ComeUp(s)  PROVE RunningIsWatched'
  BY <1>10 DEF ComeUp
<1>11. ASSUME NEW s \in Starts, Die(s)  PROVE RunningIsWatched'
  BY <1>11 DEF Die
<1>12. ASSUME NEW s \in Starts, NEW i \in Images, FindImage(s, i)  PROVE RunningIsWatched'
  BY <1>12, StageNames DEF FindImage, Goto
<1>13. ASSUME NEW s \in Starts, NEW i \in Images, CreateImage(s, i)  PROVE RunningIsWatched'
  BY <1>13, StageNames DEF CreateImage, Goto
<1>14. ASSUME NEW s \in Starts, NEW i \in Images, FormatImage(s, i)  PROVE RunningIsWatched'
  BY <1>14, StageNames DEF FormatImage, Goto
<1>15. CASE StopBegin
  BY <1>15 DEF StopBegin
<1>16. CASE StopAsks
  BY <1>16 DEF StopAsks
<1>17. CASE StopEnds
  BY <1>17 DEF StopEnds, Kill, IsRunning
<1>18. CASE Exit
  BY <1>18 DEF Exit
<1>19. CASE Reopen
  BY <1>19 DEF Reopen
<1>20. CASE UNCHANGED vars
  BY <1>20 DEF vars
<1> QED
  BY <1>1, <1>2, <1>3, <1>4, <1>5, <1>6, <1>7, <1>8, <1>9, <1>10, <1>11, <1>12, <1>13, <1>14, <1>15, <1>16, <1>17, <1>18, <1>19, <1>20 DEF Next, Stop, Thread, Monitor, Qemu

------------------------------------------------------------------------------

LEMMA InitStep == Init => IInv
<1> SUFFICES ASSUME Init  PROVE IInv
  OBVIOUS
<1>1. TypeOK
  BY StageSets DEF Init, TypeOK, QemuStatus, Images
<1>2. \A s \in Starts : qemu[s] = "none"
  BY DEF Init
<1>3. SpawnedLate /\ QemuAccounted /\ Reported
  BY <1>2 DEF SpawnedLate, QemuAccounted, Reported, Alive
<1>4. RunningIsWatched
  BY DEF Init, RunningIsWatched
<1> QED
  BY <1>1, <1>3, <1>4 DEF IInv

(* The invariant the others follow from: besides the properties, that a    *)
(* start has a QEMU only once it spawned one, and NotRunningMeansStopped   *)
(* also while stop blocks the UI thread.                                   *)
THEOREM Inductive == Spec => []IInv
<1>1. Init => IInv
  BY InitStep
<1>2. IInv /\ [Next]_vars => IInv'
  BY TypeStep, SpawnedLateStep, AccountedStep, ReportedStep, WatchedStep DEF IInv
<1> QED
  BY <1>1, <1>2, PTL DEF Spec

(* The variables keep their types. *)
THEOREM TypeCorrect == Spec => []TypeOK
<1>1. IInv => TypeOK
  BY DEF IInv
<1> QED
  BY <1>1, Inductive, PTL

(* is_running, stop and the boot monitor lose no living QEMU, however many *)
(* starts overlap, but one a second start stored its own over.             *)
THEOREM QemusAccounted == Spec => []QemuAccounted
<1>1. IInv => QemuAccounted
  BY DEF IInv
<1> QED
  BY <1>1, Inductive, PTL

(* When the UI says that no VM runs, none of this application does, but    *)
(* those whose start is not reported yet and those it let go of.           *)
THEOREM StoppedWhenReported == Spec => []NotRunningMeansStopped
<1>1. IInv => NotRunningMeansStopped
  BY DEF IInv, Reported, NotRunningMeansStopped
<1> QED
  BY <1>1, Inductive, PTL

(* A VM reported running has a boot monitor. *)
THEOREM RunningWatched == Spec => []RunningIsWatched
<1>1. IInv => RunningIsWatched
  BY DEF IInv
<1> QED
  BY <1>1, Inductive, PTL

------------------------------------------------------------------------------
(* The window.                                                             *)

(* The window's handlers are the launcher's, or leave it as it is.         *)
LEMMA WindowStep == [WNext]_wvars => [Next]_vars
<1> SUFFICES ASSUME [WNext]_wvars  PROVE [Next]_vars
  OBVIOUS
<1>1. ASSUME NEW s \in Starts, Report(s) \/ FindGone(s)  PROVE Next
  BY <1>1 DEF Report, FindGone, Next, Monitor
<1>2. CASE Stopped \/ Launching \/ StopVm
  BY <1>2 DEF Stopped, Launching, StopVm, Next, Stop, Monitor
<1>3. CASE Installing
  BY <1>3 DEF Installing, OpenChooser, DismissChooser, Choose, Installed, PollInstall
<1>4. CASE Closing
  <2>1. CASE Close \/ CloseStopped \/ Leave
    BY <2>1 DEF Close, CloseStopped, Leave, Next, Stop
  <2>2. CASE CloseIdle
    BY <2>2 DEF CloseIdle, CloseEnds, Next, Exit, vars, uiVars
  <2> QED
    BY <1>4, <2>1, <2>2 DEF Closing
<1>5. CASE ReopenWindow
  BY <1>5 DEF ReopenWindow, Next
<1>6. CASE UNCHANGED wvars
  BY <1>6 DEF wvars
<1> QED
  BY <1>1, <1>2, <1>3, <1>4, <1>5, <1>6 DEF WNext

(* What holds of the launcher alone holds of it in its window.             *)
THEOREM WindowImplements == WSpec => Spec
<1>1. [WNext]_wvars => [Next]_vars
  BY WindowStep
<1> QED
  BY <1>1, PTL DEF WSpec, WInit, Spec

(* One flag for all installs is enough while they are one at a time: then  *)
(* none is underway without it.                                            *)
OneFlag ==
    /\ adb \in Nat /\ done \in Nat
    /\ Underway > 1 => overlapped
    /\ adb > 0 => installing \/ overlapped

LEMMA OneFlagStep ==
    ASSUME OneFlag, [WNext]_wvars
    PROVE  OneFlag'
<1> USE DEF OneFlag, Underway
<1>1. ASSUME UNCHANGED <<adb, done, installing, overlapped>>  PROVE OneFlag'
  BY <1>1
<1>2. ASSUME NEW s \in Starts, Report(s) \/ FindGone(s)  PROVE OneFlag'
  BY <1>1, <1>2 DEF Report, FindGone, installVars
<1>3. CASE Stopped \/ Launching \/ StopVm \/ ReopenWindow \/ Close
  BY <1>1, <1>3 DEF Stopped, Launching, StopVm, ReopenWindow, Close, installVars, windowVars
<1>4. CASE OpenChooser \/ DismissChooser
  BY <1>1, <1>4 DEF OpenChooser, DismissChooser
<1>5. CASE Choose
  <2>1. (Underway > 0 => overlapped') /\ installing'
    BY <1>5, Zenon DEF Choose
  <2>2. adb' = adb + 1 /\ done' = done
    BY <1>5 DEF Choose
  <2> QED
    BY <2>1, <2>2
<1>6. CASE Installed
  BY <1>6 DEF Installed
<1>7. CASE PollInstall
  <2>1. overlapped /\ Underway > 1 => overlapped'
    BY <1>7, Zenon DEF PollInstall
  <2>2. done > 0 /\ done' = done - 1 /\ adb' = adb
    BY <1>7 DEF PollInstall
  <2> QED
    BY <2>1, <2>2
<1>8. CASE Leave
  BY <1>8 DEF Leave, Gone
<1>9. CASE CloseStopped \/ CloseIdle
  <2>1. CloseEnds
    BY <1>9 DEF CloseStopped, CloseIdle
  <2>2. CASE UNCHANGED installVars
    BY <1>1, <2>2 DEF installVars
  <2>3. CASE Gone
    BY <2>3 DEF Gone
  <2> QED
    BY <2>1, <2>2, <2>3 DEF CloseEnds
<1>10. CASE UNCHANGED wvars
  BY <1>1, <1>10 DEF wvars, windowVars, installVars
<1> QED
  BY <1>2, <1>3, <1>4, <1>5, <1>6, <1>7, <1>8, <1>9, <1>10 DEF WNext, Installing, Closing

LEMMA OneFlagAlways == WSpec => []OneFlag
<1>1. WInit => OneFlag
  BY DEF WInit, WindowInit, OneFlag, Underway
<1>2. OneFlag /\ [WNext]_wvars => OneFlag'
  BY OneFlagStep
<1> QED
  BY <1>1, <1>2, PTL DEF WSpec

(* The close handler does not let the application exit over an install     *)
(* that adb is still at before it has asked, however many there were,      *)
(* unless one overlapped another (apk_installing).                         *)
THEOREM ExitCorrect == WSpec => ExitAsks
<1>1. OneFlag => (ClosesItself /\ adb > 0 => overlapped)
  <2> SUFFICES ASSUME OneFlag, ClosesItself, adb > 0  PROVE overlapped
    OBVIOUS
  <2>1. ~installing
    BY DEF ClosesItself, CloseStopped, CloseIdle, CloseEnds, Asks
  <2> QED
    BY <2>1 DEF OneFlag
<1>2. OneFlag /\ [WNext]_wvars => [ClosesItself /\ adb > 0 => overlapped]_wvars
  BY <1>1
<1> QED
  BY <1>2, OneFlagAlways, PTL DEF WSpec, ExitAsks

(* The graceful shutdown of setup_close_handler: it stops what the window  *)
(* reports running, and what it does not report running does not run.      *)
THEOREM ClosedStopped == WSpec => ClosedMeansStopped
<1> DEFINE Left == \A s \in Starts : Alive(s)' => thread[s] \in {"store", "ok"} \/ s \in stray
<1>1. ASSUME IInv, ClosesItself  PROVE Left
  <2>0. TypeOK /\ QemuAccounted /\ Reported
    BY <1>1 DEF IInv
  <2>1. CASE CloseStopped
    <3>1. ui # "exited" /\ Kill
      BY <2>1 DEF CloseStopped, StopEnds
    <3>2. ASSUME NEW s \in Starts, Alive(s)'
          PROVE  Alive(s) /\ s # process
      <4>1. CASE IsRunning
        <5>1. qemu' = [qemu EXCEPT ![process] = "dead"] /\ process \in Starts
          BY <2>0, <3>1, <4>1 DEF Kill, IsRunning, TypeOK
        <5> QED
          BY <2>0, <3>2, <5>1 DEF Alive, TypeOK
      <4>2. CASE ~IsRunning
        <5>1. qemu' = qemu
          BY <3>1, <4>2 DEF Kill
        <5>2. Alive(s) /\ s # NoStart
          BY <3>2, <5>1, StartsAssumption DEF Alive
        <5> QED
          BY <4>2, <5>2 DEF IsRunning
      <4> QED
        BY <4>1, <4>2
    <3> QED
      BY <2>0, <3>1, <3>2 DEF QemuAccounted
  <2>2. CASE CloseIdle
    <3>1. ui # "exited" /\ ~running /\ qemu' = qemu
      BY <2>2 DEF CloseIdle, qemuVars
    <3>2. \A s \in Starts : Alive(s) => thread[s] \in {"store", "ok"} \/ s \in stray
      BY <2>0, <3>1 DEF Reported
    <3>3. \A s \in Starts : Alive(s)' <=> Alive(s)
      BY <3>1 DEF Alive
    <3> QED
      BY <3>2, <3>3
  <2> QED
    BY <1>1, <2>1, <2>2 DEF ClosesItself
<1>2. IInv => [ClosesItself => Left]_wvars
  BY <1>1
<1> QED
  BY <1>2, WindowImplements, Inductive, PTL DEF ClosedMeansStopped

(* The actions that need a VM are sensitive when the window takes one to   *)
(* run, whichever handler changed that.                                    *)
LEMMA ActionsStep ==
    ASSUME TypeOK, enabled \in BOOLEAN, ActionsFollowVm, [WNext]_wvars
    PROVE  enabled' \in BOOLEAN /\ ActionsFollowVm'
<1> USE DEF ActionsFollowVm, SetVmActionSensitivity, uiVars
<1>1. running \in BOOLEAN
  BY DEF TypeOK
<1>2. ASSUME NEW s \in Starts, Report(s)  PROVE enabled' \in BOOLEAN /\ ActionsFollowVm'
  <2>1. CASE thread[s] = "ok"
    BY <1>2, <2>1 DEF Report, PollStart
  <2>2. CASE thread[s] = "failed"
    BY <1>1, <1>2, <2>2 DEF Report, PollStart
  <2> QED
    BY <1>2, <2>1, <2>2 DEF Report, PollStart
<1>3. ASSUME NEW s \in Starts, FindGone(s)  PROVE enabled' \in BOOLEAN /\ ActionsFollowVm'
  BY <1>3 DEF FindGone, MonitorSeesNothing
<1>4. CASE Stopped
  BY <1>4 DEF Stopped, StopEnds
<1>5. CASE Launching
  <2>1. enabled' = enabled
    BY <1>5 DEF Launching, windowVars
  <2>2. CASE StopAsks
    BY <1>1, <2>1, <2>2 DEF StopAsks
  <2>3. ASSUME NEW s \in Starts, StartVm(s) \/ MonitorEnds(s) \/ MonitorSeesBoot(s) \/ Qemu(s)
        PROVE  ui' = ui /\ running' = running
    BY <2>3 DEF StartVm, MonitorEnds, MonitorSeesBoot, Qemu, Bind, ComeUp, Die
  <2>4. ASSUME NEW s \in Starts, Thread(s)  PROVE ui' = ui /\ running' = running
    BY <2>4 DEF Thread, Check, Launch, Store, FindImage, CreateImage, FormatImage
  <2> QED
    BY <1>5, <2>1, <2>2, <2>3, <2>4 DEF Launching
<1>6. CASE StopVm \/ Close
  BY <1>6 DEF StopVm, Close, StopBegin, windowVars
<1>7. CASE Installing
  BY <1>7 DEF Installing, OpenChooser, DismissChooser, Choose, Installed, PollInstall, vars
<1>8. CASE CloseStopped
  BY <1>8 DEF CloseStopped, StopEnds
<1>9. CASE CloseIdle
  BY <1>9 DEF CloseIdle
<1>10. CASE Leave
  BY <1>10 DEF Leave, Exit
<1>11. CASE ReopenWindow
  BY <1>11 DEF ReopenWindow, Reopen
<1>12. CASE UNCHANGED wvars
  BY <1>12 DEF wvars, vars, windowVars
<1> QED
  BY <1>2, <1>3, <1>4, <1>5, <1>6, <1>7, <1>8, <1>9, <1>10, <1>11, <1>12 DEF WNext, Closing

(* So it is from the window's opening to its end (window.rs).              *)
THEOREM ActionsCorrect == WSpec => []ActionsFollowVm
<1>1. WInit => enabled \in BOOLEAN /\ ActionsFollowVm
  BY DEF WInit, Init, WindowInit, ActionsFollowVm
<1>2. TypeOK /\ enabled \in BOOLEAN /\ ActionsFollowVm /\ [WNext]_wvars
      => (enabled \in BOOLEAN /\ ActionsFollowVm)'
  BY ActionsStep
<1> QED
  BY <1>1, <1>2, WindowImplements, TypeCorrect, PTL DEF WSpec

==============================================================================
