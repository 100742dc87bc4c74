---------------------------- MODULE UpdateProofs ----------------------------
(* That replacing the executable never leaves part of a build in its place *)
(* and never loses the last build that runs, for any builds, launches,     *)
(* failures and crashes.                                                   *)
EXTENDS Update, TLAPS

---------------------------------------------------------------------------
(* Types                                                                   *)

UpdaterAt == {"idle", "first", "second", "verify", "mismatch", "removeOld", "aside",
              "place", "back", "clean", "restart"}
InstallerAt == {"idle", "compare", "first", "second", "stat", "removeOld", "aside",
                "place", "back", "clean", "stop", "wait", "start"}
RestarterAt == {"idle", "stop", "wait", "start"}
Places == UpdaterAt \cup InstallerAt \cup RestarterAt

(* No process runs from .new, and the file of one that runs is a build.    *)
FileTypes ==
    /\ disk \in [Paths -> (Half \X Half) \cup {None}]
    /\ image \in [Processes -> Paths \cup {None}]
    /\ \A p \in Processes : image[p] # None => Whole(disk[image[p]])
    /\ \A p \in Processes : image[p] # "new"

TaskTypes ==
    /\ pc \in [Tasks -> Places]
    /\ pc["updater"] \in UpdaterAt /\ pc["installer"] \in InstallerAt
    /\ pc["restarter"] \in RestarterAt
    /\ own \in Builds \cup {None} /\ aside \in Olds \cup {None}
    /\ pc["installer"] # "idle" => own \in Builds
    /\ pc["installer"] \in {"aside", "back"} => aside # None

ProcTypes ==
    /\ svc \in {"stopped", "starting", "running", "stopping"}
    /\ svc = "stopped" <=> image["service"] = None
    /\ svc = "stopped" => pc["updater"] = "idle"
    /\ pc["restarter"] = "idle" <=> image["restarter"] = None

(* What a task writes to is there.                                         *)
WriteTypes == Opened("new") => disk["new"] # None

PastTypes ==
    /\ installed \in Builds
    /\ shared \in BOOLEAN /\ overlap \in BOOLEAN /\ torn \in BOOLEAN

TypeInv == FileTypes /\ TaskTypes /\ ProcTypes /\ WriteTypes /\ PastTypes

LEMMA Names ==
    /\ "exe" \in Paths /\ "new" \in Paths /\ "old" \in Olds /\ Olds \subseteq Paths
    /\ "exe" \notin Olds /\ "new" \notin Olds /\ None \notin Paths
    /\ None \notin Half \X Half /\ None \notin Builds
BY BuildAssumption DEF Paths, Olds, Half

LEMMA TypeInit == Init => TypeInv
<1> SUFFICES ASSUME Init PROVE TypeInv
    OBVIOUS
<1>1. \A b \in Builds : <<b, b>> \in Half \X Half
  BY DEF Half
<1>2. FileTypes
  BY <1>1, Names DEF Init, FileTypes, Processes
<1>3. TaskTypes
  BY DEF Init, TaskTypes, Tasks, Places, UpdaterAt, InstallerAt, RestarterAt
<1>4. ProcTypes /\ PastTypes
  BY DEF Init, ProcTypes, PastTypes, Tasks, Processes
<1>5. WriteTypes
  BY DEF Init, WriteTypes, Opened, Writing, Tasks
<1> QED BY <1>2, <1>3, <1>4, <1>5 DEF TypeInv

(* A task goes on; the others stay where they are.                         *)
LEMMA GotoFacts ==
    ASSUME TaskTypes, NEW t \in Tasks, NEW place, Goto(t, place)
    PROVE  /\ pc'[t] = place
           /\ \A u \in Tasks \ {t} : pc'[u] = pc[u]
BY DEF Goto, TaskTypes

(* Renaming and removing keep what runs.                                   *)
LEMMA MovedFacts ==
    ASSUME FileTypes, NEW from \in Paths, NEW to \in Paths, from # to,
           CanMove(from, to), Moved(from, to)
    PROVE  /\ disk' \in [Paths -> (Half \X Half) \cup {None}]
           /\ image' \in [Processes -> Paths \cup {None}]
           /\ disk'[to] = disk[from] /\ disk'[from] = None
           /\ \A p \in Paths \ {from, to} : disk'[p] = disk[p]
           /\ \A p \in Processes : image'[p] = None <=> image[p] = None
BY Names DEF FileTypes, Moved, CanMove

LEMMA MovedTypes ==
    ASSUME FileTypes, NEW from \in Paths, NEW to \in Paths, from # to, to # "new",
           CanMove(from, to), Moved(from, to)
    PROVE  FileTypes'
<1>1. ASSUME NEW p \in Processes, image'[p] # None
      PROVE  Whole(disk'[image'[p]]) /\ image'[p] # "new"
  <2>1. image[p] # to /\ image[p] # None /\ Whole(disk[image[p]]) /\ image[p] \in Paths
    BY <1>1, Names DEF FileTypes, Moved, CanMove, Locked
  <2>2. CASE image[p] = from
    <3>1. image'[p] = to
      BY <2>2 DEF Moved
    <3> QED BY <2>1, <2>2, <3>1, MovedFacts DEF Whole
  <2>3. CASE image[p] # from
    <3>1. image'[p] = image[p]
      BY <2>3 DEF Moved
    <3> QED BY <2>1, <2>3, <3>1, MovedFacts DEF Whole, FileTypes
  <2> QED BY <2>2, <2>3
<1>2. \A p \in Processes : image'[p] # "new"
  BY <1>1, Names
<1> QED BY <1>1, <1>2, MovedFacts DEF FileTypes, Whole

LEMMA RemovedFacts ==
    ASSUME FileTypes, NEW paths, Remove(paths)
    PROVE  /\ disk' \in [Paths -> (Half \X Half) \cup {None}]
           /\ \A p \in Paths : disk'[p] = IF p \in paths /\ ~Locked(p) THEN None ELSE disk[p]
BY DEF FileTypes, Remove

LEMMA RemovedTypes ==
    ASSUME FileTypes, NEW paths, Remove(paths), UNCHANGED image
    PROVE  FileTypes' /\ (Opened("new") => disk'["new"] = disk["new"])
<1>1. ASSUME NEW p \in Processes, image[p] # None
      PROVE  Whole(disk'[image[p]])
  <2>1. image[p] \in Paths /\ Locked(image[p])
    BY <1>1 DEF FileTypes, Locked
  <2> QED BY <1>1, <2>1, RemovedFacts DEF FileTypes, Whole
<1>2. Opened("new") => disk'["new"] = disk["new"]
  BY Names, RemovedFacts DEF Locked
<1> QED BY <1>1, <1>2, RemovedFacts DEF FileTypes, Whole

LEMMA WrittenTypes ==
    ASSUME FileTypes, NEW x \in Half \X Half, disk' = [disk EXCEPT !["new"] = x], UNCHANGED image
    PROVE  FileTypes' /\ disk'["new"] # None
BY Names DEF FileTypes, Whole

(* A half is written by a task that has the file open.                     *)
LEMMA HalfTypes ==
    ASSUME TypeInv, UNCHANGED image, NEW half \in Half, NEW t \in Tasks, NEW then \in Places,
           WriteFirst(t, half) \/ WriteSecond(t, half, then)
    PROVE  FileTypes' /\ disk'["new"] # None
<1>1. FileTypes /\ disk["new"] # None
  BY DEF TypeInv, WriteTypes, Opened, WriteFirst, WriteSecond, Writing
<1>2. disk["new"] \in Half \X Half
  BY <1>1, Names DEF FileTypes
<1> DEFINE x == [disk["new"] EXCEPT ![1] = half]
           y == [disk["new"] EXCEPT ![2] = half]
<1>3. x \in Half \X Half /\ y \in Half \X Half
  BY <1>2
<1>4. disk' = [disk EXCEPT !["new"] = x] \/ disk' = [disk EXCEPT !["new"] = y]
  BY <1>1 DEF FileTypes, WriteFirst, WriteSecond
<1> HIDE DEF x, y
<1> QED BY <1>1, <1>3, <1>4, WrittenTypes

LEMMA OpenedTypes ==
    ASSUME FileTypes, NEW t, OpenNew(t), UNCHANGED image
    PROVE  FileTypes' /\ disk'["new"] # None
<1>1. <<Blank, Blank>> \in Half \X Half
  BY DEF Half
<1> QED BY <1>1, WrittenTypes DEF OpenNew

(* The steps that only move a task on.                                     *)
LEMMA PlainTyped ==
    ASSUME TypeInv,
           \/ VerifySum \/ Stat \/ \E t \in {"updater", "installer"} : WriteFails(t)
           \/ \E b \in Builds : HandOff(b)
           \/ StopService \/ \E t \in {"installer", "restarter"} : AskStop(t) \/ WaitStopped(t)
    PROVE  TypeInv'
<1>1. UNCHANGED <<fileVars, aside, shared, torn, installed>> /\ overlap' \in BOOLEAN
  <2>1. CASE \E b \in Builds : HandOff(b)
    <3>1. overlap' \in BOOLEAN
      BY <2>1, Zenon DEF HandOff
    <3> QED BY <2>1, <3>1 DEF HandOff, fileVars
  <2>2. CASE ~\E b \in Builds : HandOff(b)
    BY <2>2 DEF VerifySum, Stat, WriteFails, StopService, AskStop, WaitStopped, fileVars,
                insVars, pastVars, TypeInv, PastTypes
  <2> QED BY <2>1, <2>2
<1>2. FileTypes' /\ PastTypes'
  BY <1>1 DEF TypeInv, FileTypes, PastTypes, fileVars, Whole
<1>3. TaskTypes'
  BY <1>1 DEF TypeInv, TaskTypes, VerifySum, Stat, WriteFails, HandOff, StopService, AskStop, WaitStopped,
              Goto, insVars, Tasks, Places, UpdaterAt, InstallerAt, RestarterAt, Writing
<1>4. ProcTypes'
  BY <1>1 DEF TypeInv, TaskTypes, ProcTypes, VerifySum, Stat, WriteFails, HandOff, StopService, AskStop,
              WaitStopped, Goto, fileVars, Tasks, Writing
<1>5. WriteTypes'
  BY <1>1 DEF TypeInv, TaskTypes, WriteTypes, Opened, VerifySum, Stat, WriteFails, HandOff, StopService,
              AskStop, WaitStopped, Goto, fileVars, Tasks, Writing
<1> QED BY <1>2, <1>3, <1>4, <1>5 DEF TypeInv

(* The steps that write .new.                                              *)
LEMMA StagingTyped ==
    ASSUME TypeInv, CheckUpdate \/ Download \/ PlaceBinary \/ CopyFile
    PROVE  TypeInv'
<1>1. UNCHANGED <<image, svc, insVars, torn, installed>>
  BY DEF CheckUpdate, Download, PlaceBinary, CopyFile, pastVars
<1>2. CASE CheckUpdate
  <2>1. FileTypes' /\ disk'["new"] # None
    BY <1>1, <1>2, OpenedTypes DEF CheckUpdate, TypeInv
  <2>2. shared' \in BOOLEAN /\ overlap' \in BOOLEAN
    BY <1>2, Zenon DEF CheckUpdate, OpenNew
  <2>3. svc = "running" /\ Goto("updater", "first")
    BY <1>2 DEF CheckUpdate, MayCheck, OpenNew
  <2>4. TaskTypes' /\ ProcTypes'
    BY <1>1, <2>3 DEF TypeInv, TaskTypes, ProcTypes, Goto, insVars, Tasks, Places, UpdaterAt
  <2> QED BY <1>1, <2>1, <2>2, <2>4 DEF TypeInv, PastTypes, WriteTypes
<1>3. CASE PlaceBinary
  <2>1. PastTypes'
    <3>1. shared' \in BOOLEAN
      <4>1. CASE UNCHANGED shared
        BY <4>1 DEF TypeInv, PastTypes
      <4>2. CASE OpenNew("installer")
        BY <4>2, Zenon DEF OpenNew
      <4> QED BY <1>3, <4>1, <4>2 DEF PlaceBinary
    <3> QED BY <1>1, <1>3, <3>1 DEF PlaceBinary, TypeInv, PastTypes
  <2>2. CASE Goto("installer", "start") /\ UNCHANGED disk
    <3>1. FileTypes'
      BY <1>1, <2>2 DEF TypeInv, FileTypes, Whole
    <3>2. TaskTypes' /\ ProcTypes' /\ WriteTypes'
      BY <1>1, <1>3, <2>2 DEF PlaceBinary, TypeInv, TaskTypes, ProcTypes, WriteTypes, Opened, Goto, insVars,
                              Tasks, Places, InstallerAt, Writing
    <3> QED BY <2>1, <3>1, <3>2 DEF TypeInv
  <2>3. CASE OpenNew("installer")
    <3>1. FileTypes' /\ disk'["new"] # None
      BY <1>1, <2>3, OpenedTypes DEF TypeInv
    <3>2. TaskTypes' /\ ProcTypes'
      BY <1>1, <1>3, <2>3 DEF PlaceBinary, OpenNew, TypeInv, TaskTypes, ProcTypes, Goto, insVars,
                              Tasks, Places, InstallerAt
    <3> QED BY <2>1, <3>1, <3>2 DEF TypeInv, WriteTypes
  <2> QED BY <1>3, <2>2, <2>3 DEF PlaceBinary
<1>4. CASE Download \/ CopyFile
  <2>1. FileTypes' /\ disk'["new"] # None
    <3>1. Latest \in Half /\ Junk \in Half
      BY BuildAssumption DEF Half
    <3>2. CASE Download
      BY <1>1, <3>1, <3>2, HalfTypes DEF Download, Tasks, Places, UpdaterAt
    <3>3. CASE CopyFile
      <4>1. own \in Half
        BY <3>3 DEF CopyFile, WriteFirst, WriteSecond, TypeInv, TaskTypes, Half
      <4> QED BY <1>1, <3>3, <4>1, HalfTypes DEF CopyFile, Tasks, Places, InstallerAt
    <3> QED BY <1>4, <3>2, <3>3
  <2>2. TaskTypes'
    BY <1>1, <1>4 DEF Download, CopyFile, WriteFirst, WriteSecond, TypeInv, TaskTypes, Goto, insVars,
                      Tasks, Places, UpdaterAt, InstallerAt
  <2>3. ProcTypes'
    BY <1>1, <1>4 DEF Download, CopyFile, WriteFirst, WriteSecond, TypeInv, TaskTypes, ProcTypes, Goto, Tasks
  <2>4. PastTypes'
    BY <1>4 DEF Download, CopyFile, pastVars, TypeInv, PastTypes
  <2> QED BY <2>1, <2>2, <2>3, <2>4 DEF TypeInv, WriteTypes
<1> QED BY <1>2, <1>3, <1>4

(* The steps that remove files.                                            *)
LEMMA RemovingTyped ==
    ASSUME TypeInv,
           RemoveOld \/ ChooseAside \/ CleanOld \/ \E t \in {"updater", "installer"} : Clean(t)
    PROVE  TypeInv'
<1>1. UNCHANGED <<image, pastVars>> /\ \E paths : Remove(paths)
  BY DEF RemoveOld, ChooseAside, CleanOld, Clean
<1>2. FileTypes' /\ (Opened("new") => disk'["new"] = disk["new"])
  BY <1>1, RemovedTypes DEF TypeInv
<1>3. TaskTypes'
  <2>1. CASE ChooseAside
    <3>1. aside' \in Olds
      BY <2>1, Names DEF ChooseAside, Olds
    <3>2. aside' # None
      BY <3>1, Names
    <3> QED BY <2>1, <3>1, <3>2 DEF ChooseAside, TypeInv, TaskTypes, Goto, Tasks, Places, InstallerAt
  <2>2. CASE CleanOld
    BY <2>2 DEF CleanOld, TypeInv, TaskTypes, insVars
  <2>3. CASE RemoveOld
    BY <2>3 DEF RemoveOld, TypeInv, TaskTypes, Goto, insVars, Tasks, Places, UpdaterAt
  <2>4. CASE \E t \in {"updater", "installer"} : Clean(t)
    BY <2>4 DEF Clean, Ends, TypeInv, TaskTypes, Goto, insVars, Tasks, Places, UpdaterAt, InstallerAt
  <2> QED BY <2>1, <2>2, <2>3, <2>4
<1>4. ProcTypes'
  BY <1>1 DEF RemoveOld, ChooseAside, CleanOld, Clean, Ends, TypeInv, TaskTypes, ProcTypes, Goto, Tasks
<1>5. Opened("new")' => Opened("new")
  BY DEF RemoveOld, ChooseAside, CleanOld, Clean, Ends, TypeInv, TaskTypes, Opened, Goto, Tasks, Writing
<1>6. WriteTypes' /\ PastTypes'
  BY <1>1, <1>2, <1>5 DEF TypeInv, WriteTypes, PastTypes, pastVars
<1> QED BY <1>2, <1>3, <1>4, <1>6 DEF TypeInv

(* The renames of the two swaps.                                           *)
Swaps == \/ MoveAside \/ InstallNew \/ PutBack("updater", "old")
         \/ PlaceAside \/ PlaceNew \/ PutBack("installer", aside)

(* From which place to which, or that nothing moved.                       *)
LEMMA SwapFacts ==
    ASSUME TypeInv, Swaps
    PROVE  \/ UNCHANGED fileVars
           \/ \E from, to \in Paths :
                /\ from # to /\ to # "new" /\ CanMove(from, to) /\ Moved(from, to)
                /\ from = "new" \/ disk'["new"] = disk["new"]
<1>1. ASSUME NEW from \in Paths, NEW to \in Paths, from # to, to # "new",
             (CanMove(from, to) /\ Moved(from, to)) \/ Refused(from, to)
      PROVE  \/ UNCHANGED fileVars
             \/ \E f, t \in Paths :
                  /\ f # t /\ t # "new" /\ CanMove(f, t) /\ Moved(f, t)
                  /\ f = "new" \/ disk'["new"] = disk["new"]
  <2>1. CASE Refused(from, to)
    BY <2>1 DEF Refused
  <2>2. CASE CanMove(from, to) /\ Moved(from, to)
    <3>1. from = "new" \/ disk'["new"] = disk["new"]
      BY <1>1, <2>2, Names, MovedFacts DEF TypeInv
    <3> QED BY <1>1, <2>2, <3>1
  <2> QED BY <1>1, <2>1, <2>2
<1>2. pc["installer"] \in {"aside", "back"} => aside \in Olds
  BY DEF TypeInv, TaskTypes
<1>3. CASE MoveAside
  BY <1>1, <1>3, Names DEF MoveAside
<1>4. CASE InstallNew \/ PlaceNew
  BY <1>1, <1>4, Names DEF InstallNew, PlaceNew, Placed
<1>5. CASE PutBack("updater", "old")
  BY <1>1, <1>5, Names DEF PutBack
<1>6. CASE PlaceAside
  BY <1>1, <1>2, <1>6, Names DEF PlaceAside
<1>7. CASE PutBack("installer", aside)
  BY <1>1, <1>2, <1>7, Names DEF PutBack
<1> QED BY <1>3, <1>4, <1>5, <1>6, <1>7 DEF Swaps

LEMMA SwapTyped ==
    ASSUME TypeInv, Swaps
    PROVE  TypeInv'
<1>1. FileTypes'
  BY SwapFacts, MovedTypes DEF TypeInv, FileTypes, fileVars, Whole
<1>2. UNCHANGED <<svc, insVars, shared, overlap>>
  BY DEF Swaps, MoveAside, InstallNew, PutBack, PlaceAside, PlaceNew, Placed, pastVars
<1>3. TaskTypes'
  BY <1>2 DEF Swaps, MoveAside, InstallNew, PutBack, PlaceAside, PlaceNew, TypeInv, TaskTypes, Goto, insVars,
              Tasks, Places, UpdaterAt, InstallerAt
<1>4. \A p \in Processes : image'[p] = None <=> image[p] = None
  BY SwapFacts, MovedFacts DEF TypeInv, fileVars
<1>5. ProcTypes'
  <2>1. /\ (pc["updater"] = "idle" => pc'["updater"] = "idle") /\ pc'["restarter"] = pc["restarter"]
    BY DEF Swaps, MoveAside, InstallNew, PutBack, PlaceAside, PlaceNew, TypeInv, TaskTypes, Goto, Tasks
  <2> QED BY <1>2, <1>4, <2>1 DEF TypeInv, ProcTypes, Processes
<1>6. Opened("new")' => Opened("new")
  BY DEF Swaps, MoveAside, InstallNew, PutBack, PlaceAside, PlaceNew, TypeInv, TaskTypes, Opened, Goto,
         Tasks, Writing
<1>7. WriteTypes'
  <2>1. CASE Opened("new")
    BY <2>1, SwapFacts DEF TypeInv, WriteTypes, CanMove, fileVars
  <2> QED BY <1>6, <2>1 DEF WriteTypes
<1>8. PastTypes'
  <2>1. torn' \in BOOLEAN
    <3>1. CASE \E t, from : PutBack(t, from)
      <4>1. torn' \in BOOLEAN
        BY <3>1 DEF PutBack, TypeInv, PastTypes
      <4> QED BY <4>1
    <3>2. CASE MoveAside \/ InstallNew \/ PlaceAside \/ PlaceNew
      BY <3>2 DEF MoveAside, InstallNew, PlaceAside, PlaceNew, Placed, pastVars, TypeInv, PastTypes
    <3> QED BY <3>1, <3>2 DEF Swaps
  <2>2. installed' \in Builds
    BY DEF Swaps, MoveAside, InstallNew, PutBack, PlaceAside, PlaceNew, Placed, pastVars, TypeInv, PastTypes, Whole
  <2> QED BY <1>2, <2>1, <2>2 DEF TypeInv, PastTypes
<1> QED BY <1>1, <1>3, <1>5, <1>7, <1>8 DEF TypeInv

(* Processes begin and end.                                                *)
LEMMA ImageTypes ==
    ASSUME FileTypes, UNCHANGED disk, image' \in [Processes -> Paths \cup {None}],
           \A p \in Processes :
              image'[p] \in {image[p], None} \/ (image'[p] = "exe" /\ Whole(disk["exe"]))
    PROVE  FileTypes'
<1>1. ASSUME NEW p \in Processes PROVE /\ image'[p] # None => Whole(disk[image'[p]])
                                       /\ image'[p] # "new"
  BY Names DEF FileTypes
<1> QED BY <1>1 DEF FileTypes, Whole

LEMMA ProcessTyped ==
    ASSUME TypeInv,
           \/ Restart \/ StartService \/ \E t \in {"installer", "restarter"} : StartAgain(t)
           \/ LaunchTray \/ QuitTray \/ RestartTray
    PROVE  TypeInv'
<1>0. image \in [Processes -> Paths \cup {None}]
  BY DEF TypeInv, FileTypes
<1>1. UNCHANGED <<disk, pastVars>> /\ image' \in [Processes -> Paths \cup {None}]
  BY <1>0, Names DEF Restart, StartService, StartAgain, Started, Without, LaunchTray, QuitTray, RestartTray
<1>2. \A p \in Processes :
         image'[p] \in {image[p], None} \/ (image'[p] = "exe" /\ Whole(disk["exe"]))
  BY <1>0 DEF Restart, StartService, StartAgain, Started, CanStart, Without, LaunchTray, QuitTray,
              RestartTray, Processes
<1>3. FileTypes'
  BY <1>1, <1>2, ImageTypes DEF TypeInv
<1>4. TaskTypes'
  BY DEF Restart, StartService, StartAgain, Ends, LaunchTray, QuitTray, RestartTray, TypeInv, TaskTypes, Goto,
         insVars, Tasks, Places, UpdaterAt, InstallerAt, RestarterAt
<1>5. ProcTypes'
  <2>1. CASE Restart
    BY <1>0, <2>1, Names DEF Restart, TypeInv, TaskTypes, ProcTypes, Goto, Tasks, Processes
  <2>2. CASE StartService
    BY <1>0, <2>2, Names DEF StartService, Started, CanStart, TypeInv, ProcTypes, Processes
  <2>3. CASE StartAgain("installer")
    BY <1>0, <2>3, Names DEF StartAgain, CanStart, Without, Ends, TypeInv, TaskTypes, ProcTypes, Goto, Tasks,
                             Processes
  <2>4. CASE StartAgain("restarter")
    BY <1>0, <2>4, Names DEF StartAgain, CanStart, Without, Ends, TypeInv, TaskTypes, ProcTypes, Goto, Tasks,
                             Processes
  <2>5. CASE LaunchTray \/ QuitTray \/ RestartTray
    BY <1>0, <2>5 DEF LaunchTray, QuitTray, RestartTray, TypeInv, ProcTypes, Processes
  <2> QED BY <2>1, <2>2, <2>3, <2>4, <2>5
<1>6. Opened("new")' => Opened("new")
  BY DEF Restart, StartService, StartAgain, Ends, LaunchTray, QuitTray, RestartTray, TypeInv, TaskTypes, Opened,
         Goto, Tasks, Writing
<1>7. WriteTypes' /\ PastTypes'
  BY <1>1, <1>6 DEF TypeInv, WriteTypes, PastTypes, pastVars
<1> QED BY <1>3, <1>4, <1>5, <1>7 DEF TypeInv

LEMMA EndTyped ==
    ASSUME TypeInv, ServiceExits \/ ServiceDies \/ PowerCut
    PROVE  TypeInv'
<1>0. image \in [Processes -> Paths \cup {None}]
  BY DEF TypeInv, FileTypes
<1>1. CASE Ended
  <2>1. FileTypes'
    BY <1>0, <1>1, ImageTypes DEF Ended, TypeInv, Processes
  <2>2. torn' \in BOOLEAN
    BY <1>1, Zenon DEF Ended
  <2>3. TaskTypes' /\ ProcTypes' /\ WriteTypes'
    BY <1>0, <1>1 DEF Ended, TypeInv, TaskTypes, ProcTypes, WriteTypes, Opened, Goto, insVars, Tasks, Places,
                      UpdaterAt, Processes, Writing
  <2> QED BY <1>1, <2>1, <2>2, <2>3 DEF Ended, TypeInv, PastTypes
<1>2. CASE PowerCut
  <2>1. FileTypes'
    BY <1>0, <1>2, ImageTypes DEF PowerCut, TypeInv, Processes
  <2>2. torn' \in BOOLEAN
    BY <1>2, Zenon DEF PowerCut
  <2>3. TaskTypes' /\ ProcTypes' /\ WriteTypes'
    BY <1>2 DEF PowerCut, TypeInv, TaskTypes, ProcTypes, WriteTypes, Opened, Tasks, Places,
                UpdaterAt, InstallerAt, RestarterAt, Processes, Writing
  <2> QED BY <1>2, <2>1, <2>2, <2>3 DEF PowerCut, TypeInv, PastTypes
<1> QED BY <1>1, <1>2 DEF ServiceExits, ServiceDies

LEMMA TypeStep == TypeInv /\ [Next]_vars => TypeInv'
<1> SUFFICES ASSUME TypeInv, [Next]_vars PROVE TypeInv'
    OBVIOUS
<1>1. CASE UNCHANGED vars
  BY <1>1 DEF TypeInv, FileTypes, TaskTypes, ProcTypes, WriteTypes, PastTypes, Opened, Whole,
              vars, fileVars, insVars, pastVars
<1> QED BY <1>1, PlainTyped, StagingTyped, RemovingTyped, SwapTyped, ProcessTyped, EndTyped, Zenon
           DEF Next, Swaps

LEMMA TypeInvHolds == Spec => []TypeInv
BY TypeInit, TypeStep, PTL DEF Spec

(* The files, the two processes that replace them and the service manager  *)
(* keep their types; above all, no running image is removed or replaced.   *)
THEOREM UpdateTypeCorrect == Spec => []TypeOK
<1>1. TypeInv => TypeOK
  BY DEF TypeInv, FileTypes, TaskTypes, ProcTypes, PastTypes, TypeOK, Places, UpdaterAt, InstallerAt, RestarterAt
<1> QED BY <1>1, TypeInvHolds, PTL

---------------------------------------------------------------------------
(* The file at the service's path                                          *)

(* What a task that staged alone has written so far, or about to rename.   *)
Content ==
    /\ pc["updater"] = "second" => disk["new"][1] = Latest
    /\ pc["updater"] \in {"verify", "removeOld", "aside", "place"} /\ disk["new"] # None
         => disk["new"] = <<Latest, Latest>>
    /\ pc["installer"] = "second" => disk["new"][1] = own
    /\ pc["installer"] \in {"stat", "removeOld", "aside", "place"} /\ disk["new"] # None
         => disk["new"] = <<own, own>>

Alone == pc["updater"] \in Staging => pc["installer"] \notin Staging
Named == \A p \in Paths \ {"new"} : disk[p] # None => Whole(disk[p])
WholeInv == TypeInv /\ (~shared => Alone /\ Named /\ Content)

LEMMA WholeBuild ==
    ASSUME NEW b \in Builds
    PROVE  Whole(<<b, b>>) /\ <<b, b>> # None
BY Names DEF Whole, Half

LEMMA WholeInit == Init => WholeInv
BY TypeInit, Names DEF Init, WholeInv, Alone, Named, Content, Whole, Tasks, Staging, Writing

LEMMA WholeSwap ==
    ASSUME WholeInv, TypeInv', Swaps
    PROVE  WholeInv'
<1> SUFFICES ASSUME ~shared' PROVE Alone' /\ Named' /\ Content'
    BY DEF WholeInv
<1>1. ~shared /\ TypeInv
  BY DEF WholeInv, Swaps, MoveAside, InstallNew, PutBack, PlaceAside, PlaceNew, Placed, pastVars
<1>2. Alone /\ Named /\ Content
  BY <1>1 DEF WholeInv
<1>3. /\ pc'["updater"] \in {pc["updater"], "place", "restart", "back", "clean"}
      /\ pc'["installer"] \in {pc["installer"], "place", "stop", "back", "clean"}
      /\ pc'["updater"] \in Staging => pc["updater"] \in Staging
      /\ pc'["installer"] \in Staging => pc["installer"] \in Staging
      /\ pc'["updater"] = "place" => pc["updater"] \in {"aside", "place"}
      /\ pc'["installer"] = "place" => pc["installer"] \in {"aside", "place"}
      /\ UNCHANGED own
  BY <1>1 DEF Swaps, MoveAside, InstallNew, PutBack, PlaceAside, PlaceNew, TypeInv, TaskTypes, Goto, insVars,
              Tasks, Staging, Writing
<1>4. Alone'
  BY <1>2, <1>3 DEF Alone
<1>5. CASE UNCHANGED fileVars
  BY <1>2, <1>3, <1>4, <1>5 DEF Named, Content, Whole, fileVars
<1>6. ASSUME NEW from \in Paths, NEW to \in Paths, from # to, to # "new", CanMove(from, to), Moved(from, to),
             from = "new" \/ disk'["new"] = disk["new"]
      PROVE  Named' /\ Content'
  <2>1. /\ disk'[to] = disk[from] /\ disk'[from] = None /\ disk[from] # None
        /\ \A p \in Paths \ {from, to} : disk'[p] = disk[p]
    BY <1>1, <1>6, MovedFacts DEF TypeInv, CanMove
  <2>2. Whole(disk[from])
    <3>0. Latest \in Builds /\ (pc["installer"] = "place" => own \in Builds)
      BY <1>1, BuildAssumption DEF TypeInv, TaskTypes
    <3>1. CASE from # "new"
      BY <1>2, <2>1, <3>1 DEF Named
    <3>2. CASE from = "new"
      <4>1. \/ pc["updater"] = "place" \/ pc["installer"] = "place"
        BY <1>1, <1>6, <2>1, <3>2, Names
           DEF Swaps, MoveAside, InstallNew, PutBack, PlaceAside, PlaceNew, Moved, TypeInv, TaskTypes, FileTypes,
               Refused, fileVars
      <4> QED BY <1>2, <2>1, <3>0, <3>2, <4>1, WholeBuild DEF Content
    <3> QED BY <3>1, <3>2
  <2>3. Named'
    BY <1>2, <2>1, <2>2 DEF Named, Whole
  <2>4. Content'
    <3>1. CASE from = "new"
      <4>1. ~Opened("new")
        BY <1>6, <3>1 DEF CanMove
      <4>2. pc["updater"] # "second" /\ pc["installer"] # "second"
        BY <4>1 DEF Opened, Tasks, Writing
      <4> QED BY <1>3, <2>1, <3>1, <4>2 DEF Content
    <3>2. CASE disk'["new"] = disk["new"]
      BY <1>2, <1>3, <3>2 DEF Content, Whole
    <3> QED BY <1>6, <3>1, <3>2
  <2> QED BY <2>3, <2>4
<1> QED BY <1>1, <1>4, <1>5, <1>6, SwapFacts

(* The two tasks staging in .new.                                          *)
LEMMA WholeStaging ==
    ASSUME WholeInv, TypeInv', CheckUpdate \/ Download \/ PlaceBinary \/ CopyFile
    PROVE  WholeInv'
<1> SUFFICES ASSUME ~shared' PROVE Alone' /\ Named' /\ Content'
    BY DEF WholeInv
<1>0. disk \in [Paths -> (Half \X Half) \cup {None}]
  BY DEF WholeInv, TypeInv, FileTypes
<1>1. ~shared /\ TypeInv
  <2>1. CASE UNCHANGED shared
    BY <2>1 DEF WholeInv
  <2>2. CASE \E t : OpenNew(t)
    <3>1. ~shared
      BY <2>2, Zenon DEF OpenNew
    <3> QED BY <3>1 DEF WholeInv
  <2> QED BY <2>1, <2>2 DEF CheckUpdate, Download, PlaceBinary, CopyFile, pastVars
<1>2. Alone /\ Named /\ Content
  BY <1>1 DEF WholeInv
<1>3. Named'
  <2>1. \A p \in Paths \ {"new"} : disk'[p] = disk[p]
    BY <1>0 DEF CheckUpdate, Download, PlaceBinary, CopyFile, OpenNew, WriteFirst, WriteSecond
  <2> QED BY <1>2, <2>1 DEF Named, Whole
<1>4. CASE CheckUpdate \/ PlaceBinary
  <2>1. CASE PlaceBinary /\ Goto("installer", "start") /\ UNCHANGED disk
    BY <1>1, <1>2, <1>3, <2>1 DEF PlaceBinary, TypeInv, TaskTypes, Goto, Alone, Content, Whole, Tasks, Staging,
                                  Writing, insVars
  <2>2. CASE CheckUpdate
    <3>1. OpenNew("updater") /\ UNCHANGED own
      BY <2>2 DEF CheckUpdate, insVars
    <3>2. pc["installer"] \notin Staging
      BY <3>1 DEF OpenNew, Other
    <3> QED BY <1>1, <1>2, <1>3, <3>1, <3>2
            DEF OpenNew, TypeInv, TaskTypes, Goto, Alone, Content, Tasks, Staging, Writing
  <2>3. CASE PlaceBinary /\ OpenNew("installer")
    <3>1. pc["updater"] \notin Staging
      BY <2>3 DEF OpenNew, Other
    <3> QED BY <1>1, <1>2, <1>3, <2>3, <3>1
            DEF PlaceBinary, OpenNew, TypeInv, TaskTypes, Goto, Alone, Content, Tasks, Staging, Writing, insVars
  <2> QED BY <1>4, <2>1, <2>2, <2>3 DEF PlaceBinary
<1>5. CASE Download \/ CopyFile
  <2>1. disk["new"] \in Half \X Half
    BY <1>0, <1>1, <1>5, Names DEF Download, CopyFile, WriteFirst, WriteSecond, TypeInv, WriteTypes, Opened,
                                   Writing, Tasks
  <2>2. CASE Download
    <3>1. pc["installer"] \notin Staging /\ UNCHANGED own /\ pc'["installer"] = pc["installer"]
      BY <1>1, <1>2, <2>2 DEF Alone, Download, WriteFirst, WriteSecond, Staging, Writing, insVars, Goto,
                              TypeInv, TaskTypes, Tasks
    <3>2. CASE WriteFirst("updater", Latest)
      <4>1. disk'["new"][1] = Latest /\ pc'["updater"] = "second"
        BY <1>0, <1>1, <2>1, <3>2, Names DEF WriteFirst, Goto, TypeInv, TaskTypes, Tasks
      <4> QED BY <1>3, <3>1, <4>1 DEF Alone, Content, Staging, Writing
    <3>3. CASE WriteSecond("updater", Latest, "verify")
      <4>1. disk'["new"] = <<Latest, Latest>> /\ pc'["updater"] = "verify"
        BY <1>0, <1>1, <1>2, <2>1, <3>3, Names DEF Content, WriteSecond, Goto, TypeInv, TaskTypes, Tasks
      <4> QED BY <1>3, <3>1, <4>1 DEF Alone, Content, Staging, Writing
    <3>4. CASE WriteSecond("updater", Junk, "mismatch")
      <4>1. pc'["updater"] = "mismatch"
        BY <1>1, <3>4 DEF WriteSecond, Goto, TypeInv, TaskTypes, Tasks
      <4> QED BY <1>3, <3>1, <4>1 DEF Alone, Content, Staging, Writing
    <3> QED BY <2>2, <3>2, <3>3, <3>4 DEF Download
  <2>3. CASE CopyFile
    <3>1. pc["updater"] \notin Staging /\ UNCHANGED own /\ pc'["updater"] = pc["updater"] /\ own \in Builds
      BY <1>1, <1>2, <2>3 DEF Alone, CopyFile, WriteFirst, WriteSecond, Staging, Writing, insVars, Goto,
                              TypeInv, TaskTypes, Tasks
    <3>2. CASE WriteFirst("installer", own)
      <4>1. disk'["new"][1] = own /\ pc'["installer"] = "second"
        BY <1>0, <1>1, <2>1, <3>2, Names DEF WriteFirst, Goto, TypeInv, TaskTypes, Tasks
      <4> QED BY <1>3, <3>1, <4>1 DEF Alone, Content, Staging, Writing
    <3>3. CASE WriteSecond("installer", own, "stat")
      <4>1. disk'["new"] = <<own, own>> /\ pc'["installer"] = "stat"
        BY <1>0, <1>1, <1>2, <2>1, <3>3, Names DEF Content, WriteSecond, Goto, TypeInv, TaskTypes, Tasks
      <4> QED BY <1>3, <3>1, <4>1 DEF Alone, Content, Staging, Writing
    <3> QED BY <2>3, <3>2, <3>3 DEF CopyFile
  <2> QED BY <1>5, <2>2, <2>3
<1> QED BY <1>4, <1>5

(* All other steps write nothing.                                          *)
LEMMA WholeOther ==
    ASSUME WholeInv, TypeInv', shared' = shared,
           \A p \in Paths : disk'[p] \in {disk[p], None},
           Opened("new") => disk'["new"] = disk["new"],
           pc'["installer"] \in {"idle", "compare"} \/ UNCHANGED own,
           pc'["updater"] \in {pc["updater"], "idle", "clean", "removeOld", "aside"},
           pc'["installer"] \in {pc["installer"], "idle", "clean", "removeOld", "aside", "place",
                                 "compare", "wait", "start"},
           pc'["updater"] \in {"removeOld", "aside"} => pc["updater"] \in {"verify", "removeOld", "aside"},
           pc'["installer"] \in {"removeOld", "aside", "place"}
             => pc["installer"] \in {"stat", "removeOld", "aside", "place"}
    PROVE  WholeInv'
<1> SUFFICES ASSUME ~shared' PROVE Alone' /\ Named' /\ Content'
    BY DEF WholeInv
<1>1. Alone /\ Named /\ Content
  BY DEF WholeInv
<1>2. /\ pc'["updater"] \in Staging => pc["updater"] \in Staging
      /\ pc'["installer"] \in Staging => pc["installer"] \in Staging
  BY DEF Staging, Writing
<1>3. Alone'
  BY <1>1, <1>2 DEF Alone
<1>4. Named'
  BY <1>1, Names DEF Named, Whole
<1>5. Content'
  <2>1. pc["updater"] = "second" \/ pc["installer"] = "second" => Opened("new")
    BY DEF Opened, Writing, Tasks
  <2> QED BY <1>1, <2>1, Names DEF Content, Whole
<1> QED BY <1>3, <1>4, <1>5

LEMMA WholeStep == WholeInv /\ [Next]_vars => WholeInv'
<1> SUFFICES ASSUME WholeInv, [Next]_vars PROVE WholeInv'
    OBVIOUS
<1>1. TypeInv /\ TypeInv'
  BY TypeStep DEF WholeInv
<1>2. CASE UNCHANGED vars
  BY <1>1, <1>2 DEF WholeInv, Alone, Named, Content, Whole, vars, fileVars, insVars, pastVars
<1>3. CASE RemoveOld \/ ChooseAside \/ CleanOld \/ \E t \in {"updater", "installer"} : Clean(t)
  <2>1. \E paths : Remove(paths)
    BY <1>3 DEF RemoveOld, ChooseAside, CleanOld, Clean
  <2>2. \A p \in Paths : disk'[p] \in {disk[p], None}
    BY <1>1, <2>1, RemovedFacts DEF TypeInv
  <2>3. Opened("new") => disk'["new"] = disk["new"]
    BY <1>1, <2>1, Names, RemovedFacts DEF TypeInv, Locked
  <2>4. /\ shared' = shared
        /\ pc'["installer"] \in {"idle", "compare"} \/ UNCHANGED own
        /\ pc'["updater"] \in {pc["updater"], "idle", "aside"}
        /\ pc'["installer"] \in {pc["installer"], "idle", "aside"}
        /\ pc'["updater"] = "aside" => pc["updater"] \in {"removeOld", "aside"}
        /\ pc'["updater"] = "removeOld" => pc["updater"] = "removeOld"
        /\ pc'["installer"] = "aside" => pc["installer"] \in {"removeOld", "aside"}
    BY <1>1, <1>3 DEF RemoveOld, ChooseAside, CleanOld, Clean, Ends, Goto, TypeInv, TaskTypes, Tasks, insVars, pastVars
  <2> QED BY <1>1, <2>2, <2>3, <2>4, WholeOther
<1> DEFINE Plain == \/ VerifySum \/ Stat \/ \E t \in {"updater", "installer"} : WriteFails(t)
                    \/ \E b \in Builds : HandOff(b)
                    \/ StopService \/ \E t \in {"installer", "restarter"} : AskStop(t) \/ WaitStopped(t)
           Process == \/ Restart \/ StartService \/ \E t \in {"installer", "restarter"} : StartAgain(t)
                      \/ LaunchTray \/ QuitTray \/ RestartTray
           End == ServiceExits \/ ServiceDies \/ PowerCut
<1>4. CASE Plain
  <2>1. UNCHANGED <<disk, shared>>
    BY <1>4 DEF VerifySum, Stat, WriteFails, HandOff, StopService, AskStop, WaitStopped, fileVars, pastVars
  <2>2. /\ pc'["installer"] \in {"idle", "compare"} \/ UNCHANGED own
        /\ pc'["updater"] \in {pc["updater"], "clean", "removeOld"}
        /\ pc'["installer"] \in {pc["installer"], "compare", "clean", "removeOld", "place", "wait", "start"}
        /\ pc'["updater"] = "removeOld" => pc["updater"] \in {"verify", "removeOld"}
        /\ pc'["installer"] \in {"removeOld", "place"} => pc["installer"] \in {"stat", "removeOld", "place"}
        /\ pc'["updater"] = "aside" => pc["updater"] = "aside"
        /\ pc'["installer"] = "aside" => pc["installer"] = "aside"
    BY <1>1, <1>4 DEF VerifySum, Stat, WriteFails, HandOff, StopService, AskStop, WaitStopped, Goto, TypeInv,
                      TaskTypes, Tasks, insVars
  <2> HIDE DEF Plain
  <2> QED BY <1>1, <2>1, <2>2, WholeOther
<1>5. CASE Process
  <2>1. UNCHANGED <<disk, shared>>
    BY <1>5 DEF Restart, StartService, StartAgain, LaunchTray, QuitTray, RestartTray, pastVars
  <2>2. /\ pc'["installer"] \in {"idle", "compare"} \/ UNCHANGED own
        /\ pc'["updater"] \in {pc["updater"], "idle"}
        /\ pc'["installer"] \in {pc["installer"], "idle"}
    BY <1>1, <1>5 DEF Restart, StartService, StartAgain, Ends, LaunchTray, QuitTray, RestartTray, Goto, TypeInv,
                      TaskTypes, Tasks, insVars
  <2> HIDE DEF Process
  <2> QED BY <1>1, <2>1, <2>2, WholeOther
<1>6. CASE End
  <2>1. UNCHANGED <<disk, shared>>
    BY <1>6 DEF ServiceExits, ServiceDies, PowerCut, Ended
  <2>2. /\ pc'["installer"] \in {"idle", "compare"} \/ UNCHANGED own
        /\ pc'["updater"] \in {pc["updater"], "idle"}
        /\ pc'["installer"] \in {pc["installer"], "idle"}
    BY <1>1, <1>6 DEF ServiceExits, ServiceDies, PowerCut, Ended, Goto, TypeInv, TaskTypes, Tasks, insVars
  <2> HIDE DEF End
  <2> QED BY <1>1, <2>1, <2>2, WholeOther
<1> QED BY <1>1, <1>2, <1>3, <1>4, <1>5, <1>6, WholeSwap, WholeStaging, Zenon DEF Next, Swaps

LEMMA WholeInvHolds == Spec => []WholeInv
BY WholeInit, WholeStep, PTL DEF Spec

(* Whatever fails, is killed or loses power, the service's file is never   *)
(* part of a build, unless both tasks staged in the one .new.              *)
THEOREM ExeIsWholeHolds == Spec => []ExeIsWhole
<1>1. WholeInv => ExeIsWhole
  BY Names DEF WholeInv, Named, ExeIsWhole
<1> QED BY <1>1, WholeInvHolds, PTL

---------------------------------------------------------------------------
(* The last copy                                                           *)

(* Every step but the swaps, by what it does to the files.                 *)
OnlyNew == \A p \in Paths \ {"new"} : disk'[p] = disk[p]
LEMMA NextKinds ==
    ASSUME TypeInv, Next
    PROVE  \/ Swaps
           \/ RemoveOld \/ ChooseAside \/ CleanOld
           \/ OnlyNew /\ (pc'["installer"] = "removeOld" => Stat \/ pc["installer"] = "removeOld")
<1>0. disk \in [Paths -> (Half \X Half) \cup {None}]
  BY DEF TypeInv, FileTypes
<1>1. CASE CheckUpdate \/ Download \/ PlaceBinary \/ CopyFile
  <2>1. OnlyNew
    BY <1>0, <1>1 DEF CheckUpdate, Download, PlaceBinary, CopyFile, OpenNew, WriteFirst, WriteSecond, OnlyNew
  <2>2. pc'["installer"] \in {pc["installer"], "start", "first", "second", "stat"}
    BY <1>1 DEF CheckUpdate, Download, PlaceBinary, CopyFile, OpenNew, WriteFirst, WriteSecond, Goto,
                TypeInv, TaskTypes, Tasks
  <2> QED BY <2>1, <2>2
<1>2. CASE \E t \in {"updater", "installer"} : Clean(t)
  <2>1. OnlyNew
    BY <1>0, <1>2 DEF Clean, Remove, OnlyNew
  <2>2. pc'["installer"] \in {pc["installer"], "idle"}
    BY <1>2 DEF Clean, Ends, Goto, TypeInv, TaskTypes, Tasks
  <2> QED BY <2>1, <2>2
<1> DEFINE Plain == \/ VerifySum \/ Stat \/ \E t \in {"updater", "installer"} : WriteFails(t)
                    \/ \E b \in Builds : HandOff(b)
                    \/ StopService \/ \E t \in {"installer", "restarter"} : AskStop(t) \/ WaitStopped(t)
           Process == \/ Restart \/ StartService \/ \E t \in {"installer", "restarter"} : StartAgain(t)
                      \/ LaunchTray \/ QuitTray \/ RestartTray
           End == ServiceExits \/ ServiceDies \/ PowerCut
<1>3. CASE Plain
  <2>1. OnlyNew
    BY <1>3 DEF VerifySum, Stat, WriteFails, HandOff, StopService, AskStop, WaitStopped, fileVars, OnlyNew
  <2>2. ~Stat => pc'["installer"] \in {pc["installer"], "compare", "clean", "wait", "start"}
    BY <1>3 DEF VerifySum, WriteFails, HandOff, StopService, AskStop, WaitStopped, Goto, TypeInv, TaskTypes, Tasks
  <2> QED BY <2>1, <2>2
<1>4. CASE Process
  <2>1. OnlyNew
    BY <1>4 DEF Restart, StartService, StartAgain, LaunchTray, QuitTray, RestartTray, OnlyNew
  <2>2. pc'["installer"] \in {pc["installer"], "idle"}
    BY <1>4 DEF Restart, StartService, StartAgain, Ends, LaunchTray, QuitTray, RestartTray, Goto, TypeInv,
                TaskTypes, Tasks
  <2> QED BY <2>1, <2>2
<1>5. CASE End
  <2>1. OnlyNew
    BY <1>5 DEF ServiceExits, ServiceDies, PowerCut, Ended, OnlyNew
  <2>2. pc'["installer"] \in {pc["installer"], "idle"}
    BY <1>5 DEF ServiceExits, ServiceDies, PowerCut, Ended, Goto, TypeInv, TaskTypes, Tasks
  <2> QED BY <2>1, <2>2
<1> QED BY <1>1, <1>2, <1>3, <1>4, <1>5, Zenon DEF Next, Swaps

(* Who removes .old has another copy: the installer looked for it, and the *)
(* service runs from one.                                                  *)
Seen == pc["installer"] = "removeOld" => disk["exe"] # None
CopyInv == WholeInv /\ (~shared => Seen /\ \E p \in Paths \ {"new"} : Whole(disk[p]))

LEMMA CopyInit == Init => CopyInv
<1> SUFFICES ASSUME Init PROVE CopyInv
    OBVIOUS
<1>1. Whole(disk["exe"]) /\ pc["installer"] = "idle"
  BY Names, WholeBuild DEF Init, Tasks
<1> QED BY <1>1, Names, WholeInit DEF CopyInv, Seen

LEMMA CopyStep == CopyInv /\ [Next]_vars => CopyInv'
<1> SUFFICES ASSUME CopyInv, [Next]_vars PROVE CopyInv'
    OBVIOUS
<1>1. WholeInv /\ WholeInv' /\ TypeInv /\ TypeInv'
  BY WholeStep, TypeStep DEF CopyInv, WholeInv
<1>2. CASE UNCHANGED vars
  BY <1>1, <1>2 DEF CopyInv, Seen, Whole, vars, fileVars, pastVars
<1> SUFFICES ASSUME Next, ~shared' PROVE Seen' /\ (\E p \in Paths \ {"new"} : Whole(disk[p]))'
    BY <1>1, <1>2 DEF CopyInv
<1>3. ~shared
  <2>1. CASE UNCHANGED shared
    BY <2>1
  <2>2. CASE \E t : OpenNew(t)
    BY <2>2, Zenon DEF OpenNew
  <2>3. UNCHANGED shared \/ \E t : OpenNew(t)
    BY DEF Next, CheckUpdate, Download, VerifySum, RemoveOld, MoveAside, InstallNew, Restart, PutBack, HandOff,
           PlaceBinary, CopyFile, Stat, ChooseAside, PlaceAside, PlaceNew, Placed, WriteFails, Clean, AskStop,
           WaitStopped, StartAgain, StartService, CleanOld, StopService, ServiceExits, ServiceDies, Ended, PowerCut,
           LaunchTray, QuitTray, RestartTray, pastVars
  <2> QED BY <2>1, <2>2, <2>3
<1>4. Seen /\ Alone /\ Named /\ \E p \in Paths \ {"new"} : Whole(disk[p])
  BY <1>1, <1>3 DEF CopyInv, WholeInv
<1>5. CASE Swaps
  <2>1. \/ UNCHANGED fileVars
        \/ \E to \in Paths \ {"new"} : disk'[to] # None
    BY <1>1, <1>5, SwapFacts, MovedFacts DEF TypeInv, CanMove
  <2>2. \E p \in Paths \ {"new"} : Whole(disk'[p])
    BY <1>1, <1>4, <2>1 DEF WholeInv, Named, Whole, fileVars
  <2>3. Seen'
    <3>1. CASE PutBack("updater", "old")
      <4>1. disk'["exe"] # None \/ UNCHANGED disk
        BY <1>1, <3>1, Names, MovedFacts DEF PutBack, Refused, fileVars, TypeInv, CanMove
      <4>2. pc'["installer"] = pc["installer"]
        BY <1>1, <3>1 DEF PutBack, Goto, TypeInv, TaskTypes, Tasks
      <4> QED BY <1>4, <4>1, <4>2 DEF Seen
    <3>2. CASE MoveAside \/ InstallNew
      <4>1. pc'["installer"] = pc["installer"] /\ pc["updater"] \in Staging
        BY <1>1, <3>2 DEF MoveAside, InstallNew, Goto, TypeInv, TaskTypes, Tasks, Staging
      <4> QED BY <1>4, <4>1 DEF Alone, Seen, Staging
    <3>3. CASE PlaceAside \/ PlaceNew \/ PutBack("installer", aside)
      <4>1. pc'["installer"] # "removeOld"
        BY <1>1, <3>3 DEF PlaceAside, PlaceNew, PutBack, Goto, TypeInv, TaskTypes, Tasks
      <4> QED BY <4>1 DEF Seen
    <3> QED BY <1>5, <3>1, <3>2, <3>3 DEF Swaps
  <2> QED BY <2>2, <2>3
<1>6. CASE ChooseAside
  <2>1. disk'["exe"] = disk["exe"] /\ disk["exe"] # None
    BY <1>1, <1>4, <1>6, Names, RemovedFacts DEF ChooseAside, Seen, TypeInv
  <2> QED BY <1>4, <2>1, Names DEF Named, Seen, Whole
<1>7. CASE RemoveOld \/ CleanOld
  <2>1. image["service"] \in Paths \ {"new"} /\ Whole(disk[image["service"]]) /\ Locked(image["service"])
    BY <1>1, <1>7 DEF RemoveOld, CleanOld, TypeInv, FileTypes, ProcTypes, Processes, Locked
  <2>2. disk'[image["service"]] = disk[image["service"]]
    BY <1>1, <1>7, <2>1, RemovedFacts DEF RemoveOld, CleanOld, TypeInv
  <2>3. disk'["exe"] = disk["exe"] /\ pc'["installer"] = pc["installer"]
    BY <1>1, <1>7, Names, RemovedFacts DEF RemoveOld, CleanOld, TypeInv, TaskTypes, Goto, Tasks
  <2> QED BY <1>4, <2>1, <2>2, <2>3 DEF Seen, Whole
<1>8. CASE OnlyNew /\ (pc'["installer"] = "removeOld" => Stat \/ pc["installer"] = "removeOld")
  <2>1. disk'["exe"] = disk["exe"]
    BY <1>8, Names DEF OnlyNew
  <2>2. Stat /\ pc'["installer"] = "removeOld" => disk["exe"] # None
    BY <1>1 DEF Stat, Goto, TypeInv, TaskTypes, Tasks
  <2> QED BY <1>4, <1>8, <2>1, <2>2 DEF OnlyNew, Seen, Whole
<1> QED BY <1>1, <1>5, <1>6, <1>7, <1>8, NextKinds

(* A swap that is cut short anywhere, the power cut between its two        *)
(* renames included, leaves a build that runs under a name it is found by. *)
THEOREM CopySurvivesHolds == Spec => []CopySurvives
<1>1. CopyInv => CopySurvives
  BY DEF CopyInv, CopySurvives
<1> QED BY <1>1, CopyInit, CopyStep, PTL DEF Spec

---------------------------------------------------------------------------
(* A swap that ends in an error                                            *)

(* While the service's file is missing a task is due to put one there.     *)
Due == \/ pc["updater"] \in {"place", "back"}
       \/ pc["installer"] \in {"place", "back"} /\ aside # None
BinaryInv == TypeInv /\ (~torn /\ disk["exe"] = None => Due)

LEMMA BinaryInit == Init => BinaryInv
<1> SUFFICES ASSUME Init PROVE BinaryInv
    OBVIOUS
<1>1. disk["exe"] # None
  BY Names, WholeBuild DEF Init
<1> QED BY <1>1, TypeInit DEF BinaryInv

LEMMA BinaryStep == BinaryInv /\ [Next]_vars => BinaryInv'
<1> SUFFICES ASSUME BinaryInv, [Next]_vars PROVE BinaryInv'
    OBVIOUS
<1>1. TypeInv /\ TypeInv'
  BY TypeStep DEF BinaryInv
<1>2. CASE UNCHANGED vars
  BY <1>1, <1>2 DEF BinaryInv, Due, vars, fileVars, insVars, pastVars
<1> SUFFICES ASSUME Next, ~torn', disk'["exe"] = None PROVE Due'
    BY <1>1, <1>2 DEF BinaryInv
<1>3. CASE Swaps
  <2>1. CASE InstallNew \/ PlaceNew
    <3>1. ~(CanMove("new", "exe") /\ Placed)
      BY <1>1, Names, MovedFacts DEF Placed, TypeInv, CanMove
    <3>2. UNCHANGED <<disk, torn, aside>>
      BY <2>1, <3>1 DEF InstallNew, PlaceNew, Refused, fileVars, insVars, pastVars
    <3>3. Due
      BY <3>2 DEF BinaryInv
    <3> QED BY <1>1, <2>1, <3>1, <3>2, <3>3 DEF InstallNew, PlaceNew, Due, Goto, TypeInv, TaskTypes, Tasks
  <2>2. CASE MoveAside
    <3>1. CASE Goto("updater", "place")
      BY <1>1, <3>1 DEF Due, Goto, TypeInv, TaskTypes, Tasks
    <3>2. CASE Refused("exe", "old") /\ Goto("updater", "clean")
      BY <1>1, <2>2, <3>2 DEF MoveAside, Refused, BinaryInv, Due, Goto, TypeInv, TaskTypes, Tasks, fileVars,
                              insVars, pastVars
    <3> QED BY <2>2, <3>1, <3>2 DEF MoveAside
  <2>3. CASE PlaceAside
    BY <1>1, <2>3 DEF PlaceAside, Refused, BinaryInv, Due, Goto, TypeInv, TaskTypes, Tasks, fileVars,
                              insVars, pastVars
  <2>4. ASSUME NEW t \in {"updater", "installer"}, NEW from \in Olds, PutBack(t, from) PROVE FALSE
    <3>1. CASE CanMove(from, "exe") /\ Moved(from, "exe")
      BY <1>1, <3>1, Names, MovedFacts DEF TypeInv, CanMove
    <3>2. CASE Refused(from, "exe") /\ torn' = (disk["exe"] = None)
      BY <3>2 DEF Refused, fileVars
    <3> QED BY <2>4, <3>1, <3>2 DEF PutBack
  <2>5. CASE PutBack("updater", "old") \/ PutBack("installer", aside)
    <3>1. pc["installer"] = "back" => aside \in Olds
      BY <1>1 DEF TypeInv, TaskTypes
    <3> QED BY <2>4, <2>5, <3>1, Names DEF PutBack
  <2> QED BY <1>3, <2>1, <2>2, <2>3, <2>5 DEF Swaps
<1>4. CASE RemoveOld \/ ChooseAside \/ CleanOld
  <2>1. disk'["exe"] = disk["exe"] /\ UNCHANGED torn
    BY <1>1, <1>4, Names, RemovedFacts DEF RemoveOld, ChooseAside, CleanOld, TypeInv, pastVars
  <2> QED BY <1>1, <1>4, <2>1 DEF RemoveOld, ChooseAside, CleanOld, BinaryInv, Due, Goto, TypeInv, TaskTypes,
                                  Tasks, insVars
<1>5. CASE OnlyNew /\ ~Swaps /\ ~RemoveOld /\ ~ChooseAside /\ ~CleanOld
  <2>1. disk'["exe"] = disk["exe"]
    BY <1>5, Names DEF OnlyNew
  <2>2. CASE PowerCut
    BY <2>1, <2>2 DEF PowerCut
  <2>3. CASE ServiceExits \/ ServiceDies
    <3>1. Ended /\ ~torn /\ pc["updater"] \notin {"place", "back"}
      <4>1. Ended
        BY <2>3 DEF ServiceExits, ServiceDies
      <4>2. ~(torn \/ (Swapping("updater") /\ disk["exe"] = None))
        BY <4>1, Zenon DEF Ended
      <4> QED BY <4>1, <4>2, <2>1 DEF Swapping
    <3> QED BY <1>1, <2>1, <3>1 DEF BinaryInv, Due, Ended, Goto, TypeInv, TaskTypes, Tasks, insVars
  <2>4. CASE Download \/ CopyFile \/ \E t \in {"updater", "installer"} : Clean(t)
    BY <1>1, <2>1, <2>4 DEF Download, CopyFile, Clean, Ends, WriteFirst, WriteSecond, BinaryInv, Due, Goto,
                            TypeInv, TaskTypes, Tasks, insVars, pastVars
  <2>7. CASE CheckUpdate \/ PlaceBinary
    <3>1. UNCHANGED <<torn, aside>> /\ Due
      BY <2>1, <2>7 DEF CheckUpdate, PlaceBinary, insVars, BinaryInv
    <3>2. CASE CheckUpdate
      <4>1. pc["updater"] = "idle" /\ Goto("updater", "first")
        BY <3>2 DEF CheckUpdate, MayCheck, OpenNew
      <4> QED BY <1>1, <3>1, <4>1 DEF Due, Goto, TypeInv, TaskTypes, Tasks
    <3>3. CASE PlaceBinary
      <4>1. pc["installer"] = "compare" /\ (Goto("installer", "start") \/ Goto("installer", "first"))
        BY <3>3 DEF PlaceBinary, OpenNew
      <4> QED BY <1>1, <3>1, <4>1 DEF Due, Goto, TypeInv, TaskTypes, Tasks
    <3> QED BY <2>7, <3>2, <3>3
  <2>5. CASE \/ VerifySum \/ Stat \/ \E t \in {"updater", "installer"} : WriteFails(t)
             \/ \E b \in Builds : HandOff(b)
             \/ StopService \/ \E t \in {"installer", "restarter"} : AskStop(t) \/ WaitStopped(t)
    BY <1>1, <2>1, <2>5 DEF VerifySum, Stat, WriteFails, HandOff, StopService, AskStop, WaitStopped, Writing,
                            BinaryInv, Due, Goto, TypeInv, TaskTypes, Tasks, insVars, pastVars
  <2>6. CASE \/ Restart \/ StartService \/ \E t \in {"installer", "restarter"} : StartAgain(t)
             \/ LaunchTray \/ QuitTray \/ RestartTray
    BY <1>1, <2>1, <2>6 DEF Restart, StartService, StartAgain, Ends, LaunchTray, QuitTray, RestartTray,
                            BinaryInv, Due, Goto, TypeInv, TaskTypes, Tasks, insVars, pastVars
  <2> QED BY <1>5, <2>2, <2>3, <2>4, <2>5, <2>6, <2>7, Zenon DEF Next, Swaps
<1> QED BY <1>1, <1>3, <1>4, <1>5, NextKinds

(* selfupdate.go:101: a swap that fails puts a working binary back, and    *)
(* only one that is cut short, or whose last rename is refused, does not.  *)
THEOREM BinaryKeptHolds == Spec => []BinaryKept
<1>1. BinaryInv => BinaryKept
  BY DEF BinaryInv, Due, BinaryKept, Swapping, Tasks
<1> QED BY <1>1, BinaryInit, BinaryStep, PTL DEF Spec

LEMMA BinaryInvHolds == Spec => []BinaryInv
BY BinaryInit, BinaryStep, PTL DEF Spec

---------------------------------------------------------------------------
(* No step back                                                            *)

(* As long as an update and an installation never went on at once, and no  *)
(* service updated that was not the one installed, what is in place, what  *)
(* an update or an installer brings and what is kept for putting back are  *)
(* no older than what was installed; a swap that was cut short has left no *)
(* file and no task that is due.                                           *)
AtLeast(p) == disk[p] # None => disk[p][1] >= installed
Current ==
    /\ AtLeast("exe")
    /\ pc["installer"] # "idle" => own >= installed
    /\ pc["updater"] # "idle" => Latest >= installed
    /\ pc["updater"] \in {"place", "back"} => AtLeast("old")
    /\ pc["installer"] \in {"place", "back"} /\ aside # None => AtLeast(aside)
Apart == pc["updater"] = "idle" \/ pc["installer"] = "idle"
NotAside == pc["installer"] \in {"idle", "compare", "first", "second", "stat"} => aside = None
OneAtATime ==
    /\ ~shared /\ Apart
    /\ torn => disk["exe"] = None /\ ~Due
    /\ ~torn => Current
NewestInv == WholeInv /\ BinaryInv /\ NotAside /\ (~overlap => OneAtATime)

LEMMA NewestInit == Init => NewestInv
<1> SUFFICES ASSUME Init PROVE NewestInv
    OBVIOUS
<1>1. PICK b \in Builds : disk["exe"] = <<b, b>> /\ installed = b
  BY Names DEF Init
<1>2. AtLeast("exe")
  BY <1>1, BuildAssumption DEF AtLeast
<1>3. pc["updater"] = "idle" /\ pc["installer"] = "idle" /\ ~torn /\ ~shared /\ aside = None
  BY DEF Init, Tasks
<1> QED BY <1>2, <1>3, WholeInit, BinaryInit DEF NewestInv, NotAside, OneAtATime, Apart, Current

(* A task that has the updater or the installer for itself.                *)
LEMMA NewestBegins ==
    ASSUME WholeInv, BinaryInv, NotAside, ~overlap => OneAtATime, ~overlap',
           CheckUpdate \/ PlaceBinary \/ \E b \in Builds : HandOff(b)
    PROVE  NotAside' /\ OneAtATime'
<1>0. TypeInv
  BY DEF WholeInv
<1>1. CASE CheckUpdate
  <2>1. ~overlap /\ pc["installer"] = "idle"
    BY <1>1, Zenon DEF CheckUpdate
  <2>2. ~shared'
    <3>1. pc["installer"] \notin Staging
      BY <2>1 DEF Staging, Writing
    <3> QED BY <1>1, <2>1, <3>1, Zenon DEF CheckUpdate, OpenNew, Other, OneAtATime
  <2>3. /\ pc'["updater"] = "first" /\ pc'["installer"] = "idle"
        /\ disk'["exe"] = disk["exe"] /\ UNCHANGED <<own, aside, torn, installed>>
    BY <1>0, <1>1, <2>1, Names DEF CheckUpdate, OpenNew, Goto, TypeInv, TaskTypes, FileTypes, Tasks, insVars
  <2>4. image["service"] = "exe" /\ Newer(Latest, Build("service"))
    BY <1>1, Zenon DEF CheckUpdate, Offered
  <2>5. Whole(disk["exe"])
    BY <1>0, <2>4, Names DEF TypeInv, FileTypes, Processes
  <2>6. ~torn => Latest >= installed
    <3> SUFFICES ASSUME ~torn PROVE Latest >= installed
        OBVIOUS
    <3>1. disk["exe"][1] >= installed
      BY <2>1, <2>5 DEF OneAtATime, Current, AtLeast, Whole
    <3>2. Latest > disk["exe"][1]
      BY <2>4 DEF Newer, Build
    <3>3. disk["exe"][1] \in Nat /\ Latest \in Nat /\ installed \in Nat
      BY <1>0, <2>5, BuildAssumption DEF Whole, TypeInv, PastTypes
    <3> QED BY <3>1, <3>2, <3>3
  <2> QED BY <2>1, <2>2, <2>3, <2>6 DEF NotAside, OneAtATime, Apart, Due, Current, AtLeast
<1>2. CASE PlaceBinary
  <2>1. ~overlap /\ pc["installer"] = "compare" /\ pc["updater"] = "idle"
    BY <1>2 DEF PlaceBinary, OneAtATime, Apart
  <2>2. ~shared'
    <3>1. pc["updater"] \notin Staging
      BY <2>1 DEF Staging, Writing
    <3>2. CASE UNCHANGED shared
      BY <2>1, <3>2 DEF OneAtATime
    <3>3. CASE OpenNew("installer")
      BY <2>1, <3>1, <3>3, Zenon DEF OpenNew, Other, OneAtATime
    <3> QED BY <1>2, <3>2, <3>3 DEF PlaceBinary
  <2>3. /\ pc'["updater"] = "idle" /\ pc'["installer"] \in {"start", "first"}
        /\ disk'["exe"] = disk["exe"] /\ UNCHANGED <<own, aside, torn, installed>>
    BY <1>0, <1>2, <2>1, Names DEF PlaceBinary, OpenNew, Goto, TypeInv, TaskTypes, FileTypes, Tasks, insVars
  <2> QED BY <2>1, <2>2, <2>3 DEF NotAside, OneAtATime, Apart, Due, Current, AtLeast
<1>3. ASSUME NEW b \in Builds, HandOff(b) PROVE NotAside' /\ OneAtATime'
  <2>1. ~overlap /\ pc["updater"] = "idle" /\ pc["installer"] = "idle"
    BY <1>3, Zenon DEF HandOff
  <2>2. /\ pc'["updater"] = "idle" /\ pc'["installer"] = "compare" /\ own' = b
        /\ UNCHANGED <<disk, aside, shared, torn, installed>>
    BY <1>0, <1>3, <2>1 DEF HandOff, Goto, TypeInv, TaskTypes, Tasks, fileVars
  <2>3. ~torn => b >= installed
    <3> SUFFICES ASSUME ~torn PROVE b >= installed
        OBVIOUS
    <3>1. disk["exe"] # None
      BY <2>1 DEF BinaryInv, Due
    <3>2. Whole(disk["exe"]) /\ disk["exe"][1] >= installed
      BY <2>1, <3>1, Names DEF WholeInv, Named, OneAtATime, Current, AtLeast
    <3>3. ~(disk["exe"][1] > b)
      BY <1>3, <3>1, <3>2, Names DEF HandOff, NeedsInstall, Inspect, Newer, Whole
    <3>4. disk["exe"][1] \in Nat /\ b \in Nat /\ installed \in Nat
      BY <1>0, <3>2, BuildAssumption DEF Whole, TypeInv, PastTypes
    <3> QED BY <3>2, <3>3, <3>4
  <2> QED BY <2>1, <2>2, <2>3 DEF NotAside, OneAtATime, Apart, Due, Current, AtLeast
<1> QED BY <1>1, <1>2, <1>3

(* A task goes on, or ends, without a rename.                              *)
LEMMA NewestGoesOn ==
    ASSUME WholeInv, BinaryInv, NotAside, ~overlap => OneAtATime, ~overlap',
           UNCHANGED <<overlap, shared, torn, installed>>,
           \A p \in Paths \ {"new"} : disk'[p] \in {disk[p], None}, disk'["exe"] = disk["exe"],
           pc["updater"] = "idle" => pc'["updater"] = "idle",
           pc["installer"] = "idle" => pc'["installer"] = "idle",
           pc'["installer"] # "idle" => UNCHANGED own,
           UNCHANGED aside \/ pc'["installer"] \in {"idle", "aside"},
           pc'["updater"] \in {"place", "back"} => pc["updater"] = pc'["updater"],
           pc'["installer"] \in {"place", "back"} =>
               pc["installer"] = pc'["installer"] \/ (aside = None /\ UNCHANGED aside),
           NotAside'
    PROVE  NotAside' /\ OneAtATime'
<1>1. OneAtATime /\ Apart
  BY DEF OneAtATime
<1>2. Due' => Due
  BY DEF Due
<1>3. ~torn => Current'
  <2> SUFFICES ASSUME ~torn PROVE Current'
      OBVIOUS
  <2>1. AtLeast("exe")'
    BY <1>1 DEF OneAtATime, Current, AtLeast
  <2>2. /\ pc'["installer"] # "idle" => own' >= installed'
        /\ pc'["updater"] # "idle" => Latest >= installed'
    BY <1>1 DEF OneAtATime, Current
  <2>3. pc'["updater"] \in {"place", "back"} => AtLeast("old")'
    BY <1>1, Names DEF OneAtATime, Current, AtLeast
  <2>4. pc'["installer"] \in {"place", "back"} /\ aside' # None => AtLeast(aside)'
    <3> SUFFICES ASSUME pc'["installer"] \in {"place", "back"}, aside' # None
                 PROVE  disk'[aside'] # None => disk'[aside'][1] >= installed
        BY DEF AtLeast
    <3>1. UNCHANGED aside /\ pc["installer"] = pc'["installer"]
      OBVIOUS
    <3>2. aside \in Olds
      BY <3>1 DEF WholeInv, TypeInv, TaskTypes
    <3> QED BY <1>1, <3>1, <3>2, Names DEF OneAtATime, Current, AtLeast
  <2> QED BY <2>1, <2>2, <2>3, <2>4 DEF Current
<1> QED BY <1>1, <1>2, <1>3 DEF OneAtATime, Apart

(* The end of the service, or of everything.                               *)
LEMMA NewestEnds ==
    ASSUME WholeInv, BinaryInv, NotAside, ~overlap => OneAtATime, ~overlap', Ended \/ PowerCut
    PROVE  NotAside' /\ OneAtATime'
<1>0. TypeInv /\ ~overlap /\ OneAtATime
  BY DEF WholeInv, Ended, PowerCut
<1>1. CASE Ended
  <2>1. /\ pc'["updater"] = "idle" /\ pc'["installer"] = pc["installer"]
        /\ UNCHANGED <<disk, own, aside, shared, installed>>
    BY <1>0, <1>1 DEF Ended, Goto, TypeInv, TaskTypes, Tasks, insVars
  <2>2. torn' => torn \/ (pc["updater"] \in {"place", "back"} /\ disk["exe"] = None)
    <3>1. torn' => torn \/ (Swapping("updater") /\ disk["exe"] = None)
      BY <1>1, Zenon DEF Ended
    <3> QED BY <3>1 DEF Swapping
  <2>3. ~torn' => ~torn
    BY <1>1, Zenon DEF Ended
  <2> QED BY <1>0, <2>1, <2>2, <2>3 DEF NotAside, OneAtATime, Apart, Due, Current, AtLeast
<1>2. CASE PowerCut
  <2>1. /\ pc'["updater"] = "idle" /\ pc'["installer"] = "idle" /\ aside' = None
        /\ UNCHANGED <<disk, shared, installed>>
    BY <1>2 DEF PowerCut, Tasks
  <2>2. (torn' => torn \/ disk["exe"] = None) /\ (~torn' => ~torn)
    BY <1>2, Zenon DEF PowerCut
  <2> QED BY <1>0, <2>1, <2>2 DEF NotAside, OneAtATime, Apart, Due, Current, AtLeast
<1> QED BY <1>1, <1>2

(* The former file goes aside.                                             *)
LEMMA NewestAside ==
    ASSUME WholeInv, BinaryInv, NotAside, ~overlap => OneAtATime, ~overlap', MoveAside \/ PlaceAside
    PROVE  NotAside' /\ OneAtATime'
<1>0. TypeInv /\ ~overlap /\ OneAtATime /\ UNCHANGED <<own, aside, shared, torn, installed>>
  BY DEF WholeInv, MoveAside, PlaceAside, insVars, pastVars
<1>1. CASE MoveAside
  <2>1. pc'["installer"] = "idle" /\ pc["installer"] = "idle" /\ pc["updater"] = "aside"
        /\ pc'["updater"] \in {"place", "clean"}
    BY <1>0, <1>1 DEF MoveAside, Goto, TypeInv, TaskTypes, Tasks, OneAtATime, Apart
  <2>2. CASE CanMove("exe", "old") /\ Moved("exe", "old")
    <3>1. disk'["old"] = disk["exe"] /\ disk'["exe"] = None /\ disk["exe"] # None
      BY <1>0, <2>2, Names, MovedFacts DEF TypeInv, CanMove
    <3> QED BY <1>0, <2>1, <3>1 DEF NotAside, OneAtATime, Apart, Due, Current, AtLeast
  <2>3. CASE UNCHANGED disk /\ pc'["updater"] = "clean"
    BY <1>0, <2>1, <2>3 DEF NotAside, OneAtATime, Apart, Due, Current, AtLeast
  <2> QED BY <1>0, <1>1, <2>2, <2>3 DEF MoveAside, Refused, fileVars, Goto, TypeInv, TaskTypes, Tasks
<1>2. CASE PlaceAside
  <2>1. pc'["updater"] = "idle" /\ pc["updater"] = "idle" /\ pc["installer"] = "aside"
        /\ pc'["installer"] \in {"place", "clean"} /\ aside \in Olds
    BY <1>0, <1>2 DEF PlaceAside, Goto, TypeInv, TaskTypes, Tasks, OneAtATime, Apart
  <2>2. CASE CanMove("exe", aside) /\ Moved("exe", aside)
    <3>1. disk'[aside] = disk["exe"] /\ disk'["exe"] = None /\ disk["exe"] # None
      BY <1>0, <2>1, <2>2, Names, MovedFacts DEF TypeInv, CanMove
    <3> QED BY <1>0, <2>1, <3>1 DEF NotAside, OneAtATime, Apart, Due, Current, AtLeast
  <2>3. CASE UNCHANGED disk /\ pc'["installer"] = "clean"
    BY <1>0, <2>1, <2>3 DEF NotAside, OneAtATime, Apart, Due, Current, AtLeast
  <2> QED BY <1>0, <1>2, <2>2, <2>3 DEF PlaceAside, Refused, fileVars, Goto, TypeInv, TaskTypes, Tasks
<1> QED BY <1>1, <1>2

(* The new file takes its place.                                           *)
LEMMA NewestPlaced ==
    ASSUME TypeInv, NEW b \in Builds, Placed, CanMove("new", "exe"), disk["new"] = <<b, b>>,
           torn \/ b >= installed
    PROVE  AtLeast("exe")' /\ ~torn' /\ b >= installed'
<1>1. disk'["exe"] = <<b, b>>
  BY Names, MovedFacts DEF Placed, TypeInv
<1>2. installed' = IF torn \/ b > installed THEN b ELSE installed
  BY WholeBuild DEF Placed
<1>3. b \in Nat /\ installed \in Nat
  BY BuildAssumption DEF TypeInv, PastTypes
<1>4. ~torn'
  BY DEF Placed
<1>5. b >= installed'
  BY <1>2, <1>3
<1> QED BY <1>1, <1>4, <1>5 DEF AtLeast

LEMMA NewestInPlace ==
    ASSUME WholeInv, BinaryInv, NotAside, ~overlap => OneAtATime, ~overlap', InstallNew \/ PlaceNew
    PROVE  NotAside' /\ OneAtATime'
<1>0. TypeInv /\ ~overlap /\ OneAtATime /\ UNCHANGED <<own, aside, shared>>
  BY DEF WholeInv, InstallNew, PlaceNew, Placed, insVars, pastVars
<1>1. CASE InstallNew
  <2>1. /\ pc["installer"] = "idle" /\ pc'["installer"] = "idle" /\ pc["updater"] = "place"
        /\ pc'["updater"] \in {"restart", "back"} /\ Due
    BY <1>0, <1>1 DEF InstallNew, Goto, TypeInv, TaskTypes, Tasks, OneAtATime, Apart, Due
  <2>2. CASE CanMove("new", "exe") /\ Placed /\ pc'["updater"] = "restart"
    <3>1. disk["new"] = <<Latest, Latest>>
      BY <1>0, <2>1, <2>2 DEF WholeInv, Content, OneAtATime, CanMove
    <3>2. Latest \in Builds /\ (torn \/ Latest >= installed)
      BY <1>0, <2>1, BuildAssumption DEF OneAtATime, Current
    <3>3. AtLeast("exe")' /\ ~torn' /\ Latest >= installed'
      BY <1>0, <2>2, <3>1, <3>2, NewestPlaced
    <3> QED BY <1>0, <2>1, <2>2, <3>3 DEF NotAside, OneAtATime, Apart, Due, Current
  <2>3. CASE UNCHANGED <<disk, torn, installed>> /\ pc'["updater"] = "back"
    BY <1>0, <2>1, <2>3 DEF NotAside, OneAtATime, Apart, Due, Current, AtLeast
  <2> QED BY <1>0, <1>1, <2>2, <2>3 DEF InstallNew, Refused, fileVars, pastVars, Goto, TypeInv, TaskTypes, Tasks
<1>2. CASE PlaceNew
  <2>1. /\ pc["updater"] = "idle" /\ pc'["updater"] = "idle" /\ pc["installer"] = "place"
        /\ pc'["installer"] \in {"stop", "back", "clean"} /\ own \in Builds
        /\ pc'["installer"] = "back" => aside # None
    BY <1>0, <1>2 DEF PlaceNew, Goto, TypeInv, TaskTypes, Tasks, OneAtATime, Apart
  <2>2. CASE CanMove("new", "exe") /\ Placed /\ pc'["installer"] = "stop"
    <3>1. disk["new"] = <<own, own>>
      BY <1>0, <2>1, <2>2 DEF WholeInv, Content, OneAtATime, CanMove
    <3>2. torn \/ own >= installed
      BY <1>0, <2>1 DEF OneAtATime, Current
    <3>3. AtLeast("exe")' /\ ~torn' /\ own >= installed'
      BY <1>0, <2>1, <2>2, <3>1, <3>2, NewestPlaced
    <3> QED BY <1>0, <2>1, <2>2, <3>3 DEF NotAside, OneAtATime, Apart, Due, Current
  <2>3. CASE UNCHANGED <<disk, torn, installed>> /\ pc'["installer"] \in {"back", "clean"}
    BY <1>0, <2>1, <2>3 DEF NotAside, OneAtATime, Apart, Due, Current, AtLeast
  <2> QED BY <1>0, <1>2, <2>2, <2>3 DEF PlaceNew, Refused, fileVars, pastVars, Goto, TypeInv, TaskTypes, Tasks
<1> QED BY <1>1, <1>2

(* ... or the former one does again.                                       *)
LEMMA NewestBack ==
    ASSUME WholeInv, BinaryInv, NotAside, ~overlap => OneAtATime, ~overlap',
           PutBack("updater", "old") \/ PutBack("installer", aside)
    PROVE  NotAside' /\ OneAtATime'
<1>0. TypeInv /\ ~overlap /\ OneAtATime /\ UNCHANGED <<own, aside, shared, installed>>
  BY DEF WholeInv, PutBack, insVars
<1>1. ASSUME NEW from \in Olds, ~torn, AtLeast(from),
             \/ CanMove(from, "exe") /\ Moved(from, "exe") /\ UNCHANGED torn
             \/ Refused(from, "exe") /\ torn' = (disk["exe"] = None)
      PROVE  IF torn' THEN disk'["exe"] = None ELSE AtLeast("exe")'
  <2>1. CASE CanMove(from, "exe") /\ Moved(from, "exe") /\ UNCHANGED torn
    <3>1. disk'["exe"] = disk[from]
      BY <1>0, <2>1, Names, MovedFacts DEF TypeInv
    <3> QED BY <1>0, <1>1, <2>1, <3>1 DEF AtLeast
  <2>2. CASE Refused(from, "exe") /\ torn' = (disk["exe"] = None)
    <3>1. UNCHANGED disk /\ AtLeast("exe")
      BY <1>0, <1>1, <2>2 DEF Refused, fileVars, OneAtATime, Current
    <3> QED BY <1>0, <2>2, <3>1 DEF AtLeast
  <2> QED BY <1>1, <2>1, <2>2
<1>2. CASE PutBack("updater", "old")
  <2>1. /\ pc["installer"] = "idle" /\ pc'["installer"] = "idle" /\ pc["updater"] = "back"
        /\ pc'["updater"] = "clean" /\ Due
    BY <1>0, <1>2 DEF PutBack, Goto, TypeInv, TaskTypes, Tasks, OneAtATime, Apart, Due
  <2>2. ~torn /\ AtLeast("old")
    BY <1>0, <2>1 DEF OneAtATime, Current
  <2>3. IF torn' THEN disk'["exe"] = None ELSE AtLeast("exe")'
    BY <1>1, <1>2, <2>2, Names DEF PutBack
  <2> QED BY <1>0, <2>1, <2>3 DEF NotAside, OneAtATime, Apart, Due, Current
<1>3. CASE PutBack("installer", aside)
  <2>1. /\ pc["updater"] = "idle" /\ pc'["updater"] = "idle" /\ pc["installer"] = "back"
        /\ pc'["installer"] = "clean" /\ aside \in Olds /\ aside # None /\ Due
    BY <1>0, <1>3 DEF PutBack, Goto, TypeInv, TaskTypes, Tasks, OneAtATime, Apart, Due
  <2>2. ~torn /\ AtLeast(aside) /\ own >= installed
    BY <1>0, <2>1 DEF OneAtATime, Current
  <2>3. IF torn' THEN disk'["exe"] = None ELSE AtLeast("exe")'
    BY <1>1, <1>3, <2>1, <2>2 DEF PutBack
  <2> QED BY <1>0, <2>1, <2>2, <2>3 DEF NotAside, OneAtATime, Apart, Due, Current
<1> QED BY <1>2, <1>3

LEMMA NewestStep == NewestInv /\ [Next]_vars => NewestInv'
<1> SUFFICES ASSUME NewestInv, [Next]_vars PROVE NewestInv'
    OBVIOUS
<1>1. WholeInv /\ WholeInv' /\ BinaryInv /\ BinaryInv' /\ TypeInv /\ TypeInv' /\ NotAside /\ (~overlap => OneAtATime)
  BY WholeStep, BinaryStep DEF NewestInv, WholeInv
<1>2. CASE UNCHANGED vars
  BY <1>1, <1>2 DEF NewestInv, NotAside, OneAtATime, Apart, Due, Current, AtLeast, vars, fileVars, insVars, pastVars
<1>3. NotAside'
  BY <1>1, <1>2 DEF NotAside, TypeInv, TaskTypes, Next, vars, CheckUpdate, Download, VerifySum, RemoveOld, MoveAside,
     InstallNew, Restart, PutBack, HandOff, PlaceBinary, CopyFile, OpenNew, WriteFirst, WriteSecond, Stat, ChooseAside,
     PlaceAside, PlaceNew, WriteFails, Clean, Ends, AskStop, WaitStopped, StartAgain, StartService, CleanOld,
     StopService, ServiceExits, ServiceDies, Ended, PowerCut, LaunchTray, QuitTray, RestartTray, Goto, insVars,
     Tasks, Writing
<1> SUFFICES ASSUME Next, ~overlap' PROVE OneAtATime'
    BY <1>1, <1>2, <1>3 DEF NewestInv
<1>4. CASE Swaps
  BY <1>1, <1>4, NewestAside, NewestInPlace, NewestBack DEF Swaps
<1>5. CASE CheckUpdate \/ PlaceBinary \/ \E b \in Builds : HandOff(b)
  BY <1>1, <1>5, NewestBegins
<1>6. CASE ServiceExits \/ ServiceDies \/ PowerCut
  BY <1>1, <1>6, NewestEnds DEF ServiceExits, ServiceDies
<1>7. CASE RemoveOld \/ ChooseAside \/ CleanOld
  <2>1. /\ UNCHANGED <<overlap, shared, torn, installed, own>>
        /\ disk'["exe"] = disk["exe"] /\ \A p \in Paths \ {"new"} : disk'[p] \in {disk[p], None}
    BY <1>1, <1>7, Names, RemovedFacts DEF RemoveOld, ChooseAside, CleanOld, TypeInv, pastVars, insVars
  <2>2. /\ pc'["updater"] = pc["updater"] \/ (pc["updater"] = "removeOld" /\ pc'["updater"] = "aside")
        /\ pc'["installer"] = pc["installer"] \/ (pc["installer"] = "removeOld" /\ pc'["installer"] = "aside")
        /\ UNCHANGED aside \/ pc'["installer"] = "aside"
    BY <1>1, <1>7 DEF RemoveOld, ChooseAside, CleanOld, Goto, TypeInv, TaskTypes, Tasks, insVars
  <2> QED BY <1>1, <1>3, <2>1, <2>2, NewestGoesOn
<1>8. CASE Download \/ CopyFile \/ \E t \in {"updater", "installer"} : Clean(t)
  <2>1. UNCHANGED <<overlap, shared, torn, installed>> /\ OnlyNew
    BY <1>1, <1>8 DEF Download, CopyFile, Clean, WriteFirst, WriteSecond, Remove, TypeInv, FileTypes, pastVars, OnlyNew
  <2>2. /\ pc["updater"] = "idle" => pc'["updater"] = "idle"
        /\ pc["installer"] = "idle" => pc'["installer"] = "idle"
        /\ pc'["installer"] # "idle" => UNCHANGED own
        /\ UNCHANGED aside \/ pc'["installer"] = "idle"
        /\ pc'["updater"] \in {"place", "back"} => pc["updater"] = pc'["updater"]
        /\ pc'["installer"] \in {"place", "back"} => pc["installer"] = pc'["installer"]
    BY <1>1, <1>8 DEF Download, CopyFile, Clean, Ends, WriteFirst, WriteSecond, Goto, TypeInv, TaskTypes, Tasks, insVars
  <2>3. /\ \A p \in Paths \ {"new"} : disk'[p] \in {disk[p], None}
        /\ disk'["exe"] = disk["exe"]
    BY <2>1, Names DEF OnlyNew
  <2> QED BY <1>1, <1>3, <2>1, <2>2, <2>3, NewestGoesOn
<1>9. CASE \/ VerifySum \/ Stat \/ \E t \in {"updater", "installer"} : WriteFails(t)
           \/ StopService \/ \E t \in {"installer", "restarter"} : AskStop(t) \/ WaitStopped(t)
  <2>1. UNCHANGED <<disk, own, aside, overlap, shared, torn, installed>>
    BY <1>9 DEF VerifySum, Stat, WriteFails, StopService, AskStop, WaitStopped, fileVars, insVars, pastVars
  <2>2. /\ pc["updater"] = "idle" => pc'["updater"] = "idle"
        /\ pc["installer"] = "idle" => pc'["installer"] = "idle"
        /\ pc'["updater"] \in {"place", "back"} => pc["updater"] = pc'["updater"]
        /\ pc'["installer"] \in {"place", "back"} => pc["installer"] = pc'["installer"] \/ aside = None
    BY <1>1, <1>9 DEF VerifySum, Stat, WriteFails, StopService, AskStop, WaitStopped, Goto, TypeInv, TaskTypes,
                      Tasks, Writing, NotAside
  <2> QED BY <1>1, <1>3, <2>1, <2>2, NewestGoesOn
<1>10. CASE \/ Restart \/ StartService \/ \E t \in {"installer", "restarter"} : StartAgain(t)
            \/ LaunchTray \/ QuitTray \/ RestartTray
  <2>1. UNCHANGED <<disk, overlap, shared, torn, installed>>
    BY <1>10 DEF Restart, StartService, StartAgain, LaunchTray, QuitTray, RestartTray, pastVars
  <2>2. /\ pc["updater"] = "idle" => pc'["updater"] = "idle"
        /\ pc["installer"] = "idle" => pc'["installer"] = "idle"
        /\ pc'["installer"] # "idle" => UNCHANGED own
        /\ UNCHANGED aside \/ pc'["installer"] = "idle"
        /\ pc'["updater"] \in {"place", "back"} => pc["updater"] = pc'["updater"]
        /\ pc'["installer"] \in {"place", "back"} => pc["installer"] = pc'["installer"]
    BY <1>1, <1>10 DEF Restart, StartService, StartAgain, Ends, LaunchTray, QuitTray, RestartTray, Goto,
                       TypeInv, TaskTypes, Tasks, insVars
  <2> QED BY <1>1, <1>3, <2>1, <2>2, NewestGoesOn
<1> QED BY <1>4, <1>5, <1>6, <1>7, <1>8, <1>9, <1>10, Zenon DEF Next, Swaps

(* As long as an update and an installation do not go on at once, and the  *)
(* service that updates is the one installed, neither replaces a build by  *)
(* an older one, whatever release is on offer and whichever of them fail.  *)
THEOREM InstalledStaysHolds == Spec => []InstalledStays
<1>1. NewestInv => InstalledStays
  BY DEF NewestInv, OneAtATime, Current, AtLeast, InstalledStays, Whole
<1> QED BY <1>1, NewestInit, NewestStep, PTL DEF Spec
=============================================================================
