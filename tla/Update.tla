------------------------------- MODULE Update -------------------------------
(***************************************************************************)
(* Replacing the installed executable.  Two processes do it, with the same *)
(* three file names: the service, which downloads a release and swaps it   *)
(* in (internal/selfupdate/selfupdate.go), and an elevated copy of another *)
(* build, which the tray of that build starts to install itself            *)
(* (cmd/fortochka/install.go, install_windows.go, service_windows.go).     *)
(*                                                                         *)
(* A step is one operation on a file, or one call to the service manager.  *)
(* A file is two halves, written one after the other, and a half is known  *)
(* by the build it comes from.  Windows' rules are those the code relies   *)
(* on: the file of a running process may be renamed, but neither removed   *)
(* nor replaced; a file that is open may be written by others and neither  *)
(* removed nor renamed; a rename over a file replaces it.                  *)
(***************************************************************************)
EXTENDS Naturals

CONSTANTS Builds,       \* versions, ordered as newer orders them
          Latest,       \* the release on offer
          Spares,       \* unique names .old-<time>, one for every launch
          MaxChecks,    \* bound: update checks that find a release
          MaxLaunches,  \* bound: copies of the program that want installing
          MaxCrashes,   \* bound: kills of the service and power cuts
          MaxRefusals,  \* bound: renames refused for a reason from outside
          None, Blank, Junk

ASSUME BuildAssumption ==
    /\ Builds \subseteq Nat /\ Latest \in Builds
    /\ None \notin {"exe", "new", "old"} \cup Spares /\ None \notin Builds
    /\ None \notin (Builds \cup {Blank, Junk}) \X (Builds \cup {Blank, Junk})
    /\ Spares \cap {"exe", "new", "old"} = {}
ASSUME BoundAssumption == {MaxChecks, MaxLaunches, MaxCrashes, MaxRefusals} \subseteq Nat

Olds == {"old"} \cup Spares
Paths == {"exe", "new"} \cup Olds
Half == Builds \cup {Blank, Junk}
Tasks == {"updater", "installer", "restarter"}
Processes == {"service", "tray", "restarter"}

VARIABLES
    disk,      \* what is at each path
    image,     \* per process, where the file it runs from is by now
    svc,       \* the service, as the service manager reports it
    pc,        \* per task, its place
    own,       \* the build the installer installs
    aside,     \* where the installer moves the former executable
    spent,     \* of the bounds
    shared,    \* .new was opened by one task while the other was using it
    overlap,   \* an update was made beside an installation, or by a service
               \* that an installation had replaced already
    torn,      \* a swap was cut short, or the former file was not put back
    installed  \* the newest build a swap has put in place

fileVars == <<disk, image>>
insVars == <<own, aside>>
pastVars == <<shared, overlap, torn, installed>>
vars == <<fileVars, svc, pc, insVars, spent, pastVars>>

Whole(file) == file # None /\ file[1] = file[2] /\ file[1] \in Builds
IsBuild(file, b) == file # None /\ file = <<b, b>>

(* Types; a process runs from a file that exists; a download ends with the *)
(* service that makes it.                                                  *)
TypeOK ==
    /\ disk \in [Paths -> (Half \X Half) \cup {None}]
    /\ image \in [Processes -> Paths \cup {None}]
    /\ \A p \in Processes : image[p] # None => Whole(disk[image[p]])
    /\ svc \in {"stopped", "starting", "running", "stopping"}
    /\ svc = "stopped" <=> image["service"] = None
    /\ pc \in [Tasks -> {"idle", "compare", "first", "second", "verify", "mismatch", "stat", "removeOld", "aside",
                         "place", "back", "clean", "restart", "stop", "wait", "start"}]
    /\ svc = "stopped" => pc["updater"] = "idle"
    /\ pc["restarter"] = "idle" <=> image["restarter"] = None
    /\ own \in Builds \cup {None} /\ installed \in Builds
    /\ aside \in Olds \cup {None}
    /\ shared \in BOOLEAN /\ overlap \in BOOLEAN /\ torn \in BOOLEAN

Init ==
    /\ \E b \in Builds :
          /\ disk = [p \in Paths |-> IF p = "exe" THEN <<b, b>> ELSE None]
          /\ installed = b
    /\ image = [p \in Processes |-> None] /\ svc = "stopped"
    /\ pc = [t \in Tasks |-> "idle"]
    /\ own = None /\ aside = None
    /\ spent = [checks |-> 0, launches |-> 0, crashes |-> 0, refusals |-> 0]
    /\ shared = FALSE /\ overlap = FALSE /\ torn = FALSE

-----------------------------------------------------------------------------
(* Files.                                                                  *)
Goto(t, place) == pc' = [pc EXCEPT ![t] = place]
Spend(what, bound) == spent[what] < bound /\ spent' = [spent EXCEPT ![what] = @ + 1]
Writing == {"first", "second"}
Opened(path) == path = "new" /\ \E t \in Tasks : pc[t] \in Writing
Locked(path) == Opened(path) \/ \E p \in Processes : image[p] = path

CanMove(from, to) == disk[from] # None /\ ~Opened(from) /\ ~Locked(to)

Moved(from, to) ==
    /\ disk' = [disk EXCEPT ![to] = disk[from], ![from] = None]
    /\ image' = [p \in Processes |-> IF image[p] = from THEN to ELSE image[p]]

Refused(from, to) ==
    /\ IF CanMove(from, to) THEN Spend("refusals", MaxRefusals) ELSE UNCHANGED spent
    /\ UNCHANGED fileVars

Remove(paths) ==
    disk' = [p \in Paths |-> IF p \in paths /\ ~Locked(p) THEN None ELSE disk[p]]

-----------------------------------------------------------------------------
(* Staging the new file, by either task.                                   *)
Other(t) == IF t = "updater" THEN "installer" ELSE "updater"
Staging == Writing \cup {"verify", "mismatch", "stat", "removeOld", "aside", "place"}

OpenNew(t) ==
    /\ disk' = [disk EXCEPT !["new"] = <<Blank, Blank>>]
    /\ Goto(t, "first")
    /\ shared' = (shared \/ pc[Other(t)] \in Staging)

WriteFirst(t, half) ==
    /\ pc[t] = "first" /\ Goto(t, "second")
    /\ disk' = [disk EXCEPT !["new"][1] = half]

WriteSecond(t, half, then) ==
    /\ pc[t] = "second" /\ Goto(t, then)
    /\ disk' = [disk EXCEPT !["new"][2] = half]

(* A read or a write fails: the file is closed, to be removed.             *)
WriteFails(t) ==
    /\ pc[t] \in Writing /\ Goto(t, "clean")
    /\ UNCHANGED <<fileVars, svc, insVars, spent, pastVars>>

(* The second rename of a swap, with what is known of it afterwards.       *)
Placed ==
    /\ Moved("new", "exe") /\ torn' = FALSE /\ UNCHANGED <<shared, overlap>>
    /\ installed' = IF Whole(disk["new"]) /\ (torn \/ disk["new"][1] > installed)
                    THEN disk["new"][1] ELSE installed

(* MUTANT: the former file is removed, not put back.                       *)
PutBackNot(t, from) ==
    /\ pc[t] = "back" /\ Goto(t, "clean") /\ Remove({from})
    /\ UNCHANGED <<image, svc, insVars, spent, pastVars>>

PutBack(t, from) ==
    /\ pc[t] = "back" /\ Goto(t, "clean")
    /\ \/ CanMove(from, "exe") /\ Moved(from, "exe") /\ UNCHANGED <<spent, torn>>
       \/ Refused(from, "exe") /\ torn' = (disk["exe"] = None)
    /\ UNCHANGED <<svc, insVars, shared, overlap, installed>>

(* The task is over, and what it had in memory with it.                    *)
Ends(t) ==
    /\ Goto(t, "idle")
    /\ IF t = "installer" THEN own' = None /\ aside' = None ELSE UNCHANGED insVars

Clean(t) ==
    /\ pc[t] = "clean" /\ Ends(t) /\ Remove({"new"})
    /\ UNCHANGED <<image, svc, spent, pastVars>>

-----------------------------------------------------------------------------
(* The update check of the service.                                        *)
Newer(a, b) == a > b
Build(p) == disk[image[p]][1]  \* the version the process p was built as

(* With the tunnel up, updates on, and none under way.                     *)
MayCheck == svc = "running" /\ pc["updater"] = "idle"
Offered == Newer(Latest, Build("service"))

CheckUpdate ==
    /\ MayCheck /\ Offered
    /\ Spend("checks", MaxChecks)
    /\ OpenNew("updater")
    /\ overlap' = (overlap \/ pc["installer"] # "idle" \/ image["service"] # "exe")
    /\ UNCHANGED <<image, svc, insVars, torn, installed>>

(* What was received goes to the file and into the sum.                    *)
Download ==
    /\ \/ WriteFirst("updater", Latest)
       \/ WriteSecond("updater", Latest, "verify")
       \/ WriteSecond("updater", Junk, "mismatch")
    /\ UNCHANGED <<image, svc, insVars, spent, pastVars>>

(* MUTANT: the sum is computed and not compared.                           *)
VerifySumNot ==
    /\ pc["updater"] \in {"verify", "mismatch"} /\ Goto("updater", "removeOld")
    /\ UNCHANGED <<fileVars, svc, insVars, spent, pastVars>>

VerifySum ==
    /\ \/ pc["updater"] = "verify" /\ Goto("updater", "removeOld")
       \/ pc["updater"] = "mismatch" /\ Goto("updater", "clean")
    /\ UNCHANGED <<fileVars, svc, insVars, spent, pastVars>>

RemoveOld ==
    /\ pc["updater"] = "removeOld" /\ Remove({"old"}) /\ Goto("updater", "aside")
    /\ UNCHANGED <<image, svc, insVars, spent, pastVars>>

MoveAside ==
    /\ pc["updater"] = "aside"
    /\ \/ CanMove("exe", "old") /\ Moved("exe", "old") /\ Goto("updater", "place") /\ UNCHANGED spent
       \/ Refused("exe", "old") /\ Goto("updater", "clean")
    /\ UNCHANGED <<svc, insVars, pastVars>>

(* MUTANT: a refused second rename is an error like the others.            *)
InstallNewOrGiveUp ==
    /\ pc["updater"] = "place"
    /\ \/ CanMove("new", "exe") /\ Placed /\ Goto("updater", "restart") /\ UNCHANGED spent
       \/ Refused("new", "exe") /\ Goto("updater", "clean") /\ UNCHANGED pastVars
    /\ UNCHANGED <<svc, insVars>>

InstallNew ==
    /\ pc["updater"] = "place"
    /\ \/ CanMove("new", "exe") /\ Placed /\ Goto("updater", "restart") /\ UNCHANGED spent
       \/ Refused("new", "exe") /\ Goto("updater", "back") /\ UNCHANGED pastVars
    /\ UNCHANGED <<svc, insVars>>

(* A detached copy of the new file is started, when it can run.            *)
Restart ==
    /\ pc["updater"] = "restart"
    /\ IF Whole(disk["exe"])
       THEN /\ pc["restarter"] = "idle"
            /\ pc' = [pc EXCEPT !["updater"] = "idle", !["restarter"] = "stop"]
            /\ image' = [image EXCEPT !["restarter"] = "exe"]
       ELSE Goto("updater", "idle") /\ UNCHANGED image
    /\ UNCHANGED <<disk, svc, insVars, spent, pastVars>>

-----------------------------------------------------------------------------
(* Installing another build: the copy looks at the installed file, and an  *)
(* elevated process of it then acts on what was seen.                      *)
Inspect(b) == [exists |-> disk["exe"] # None, same |-> IsBuild(disk["exe"], b),
               version |-> IF Whole(disk["exe"]) THEN disk["exe"][1] ELSE None]

(* MUTANT: the versions are not compared.                                  *)
NeedsInstallOther(b, c) == ~c.exists \/ ~c.same

NeedsInstall(b, c) ==
    ~c.exists \/ (~c.same /\ ~(c.version # None /\ Newer(c.version, b)))

HandOff(b) ==
    /\ pc["installer"] = "idle" /\ NeedsInstall(b, Inspect(b))
    /\ Spend("launches", MaxLaunches)
    /\ own' = b /\ UNCHANGED aside /\ Goto("installer", "compare")
    /\ overlap' = (overlap \/ pc["updater"] # "idle")
    /\ UNCHANGED <<fileVars, svc, shared, torn, installed>>

PlaceBinary ==
    /\ pc["installer"] = "compare"
    /\ IF IsBuild(disk["exe"], own)
       THEN Goto("installer", "start") /\ UNCHANGED <<disk, shared>>
       ELSE OpenNew("installer")
    /\ UNCHANGED <<image, svc, insVars, spent, overlap, torn, installed>>

CopyFile ==
    /\ WriteFirst("installer", own) \/ WriteSecond("installer", own, "stat")
    /\ UNCHANGED <<image, svc, insVars, spent, pastVars>>

Stat ==
    /\ pc["installer"] = "stat"
    /\ Goto("installer", IF disk["exe"] # None THEN "removeOld" ELSE "place")
    /\ UNCHANGED <<fileVars, svc, insVars, spent, pastVars>>

(* A .old in use is left where it is, and a name nobody has is taken.      *)
ChooseAside ==
    /\ pc["installer"] = "removeOld" /\ Goto("installer", "aside")
    /\ Remove({"old"})
    /\ IF disk["old"] = None \/ ~Locked("old") THEN aside' = "old"
       ELSE /\ \E s \in Spares : disk[s] = None
            /\ aside' = CHOOSE s \in Spares : disk[s] = None
    /\ UNCHANGED <<image, svc, own, spent, pastVars>>

PlaceAside ==
    /\ pc["installer"] = "aside"
    /\ \/ /\ CanMove("exe", aside) /\ Moved("exe", aside) /\ Goto("installer", "place")
          /\ UNCHANGED spent
       \/ Refused("exe", aside) /\ Goto("installer", "clean")
    /\ UNCHANGED <<svc, insVars, pastVars>>

PlaceNew ==
    /\ pc["installer"] = "place"
    /\ \/ /\ CanMove("new", "exe") /\ Placed
          /\ Goto("installer", "stop") /\ UNCHANGED spent
       \/ /\ Refused("new", "exe") /\ UNCHANGED pastVars
          /\ Goto("installer", IF aside = None THEN "clean" ELSE "back")
    /\ UNCHANGED <<svc, insVars>>

-----------------------------------------------------------------------------
(* The service manager.                                                    *)
CanStart == svc = "stopped" /\ Whole(disk["exe"])
Started == svc' = "starting" /\ image' = [image EXCEPT !["service"] = "exe"]

(* By the boot, the tray, or the recovery actions.                         *)
StartService ==
    /\ CanStart /\ Started
    /\ UNCHANGED <<disk, pc, insVars, spent, pastVars>>

(* Leftovers of earlier swaps go as the service starts.                    *)
CleanOld ==
    /\ svc = "starting" /\ svc' = "running" /\ Remove(Olds)
    /\ UNCHANGED <<image, pc, insVars, spent, pastVars>>

StopService ==
    /\ svc = "running" /\ svc' = "stopping"
    /\ UNCHANGED <<fileVars, pc, insVars, spent, pastVars>>

(* stopAndWait, of restartService and of an installation.                  *)
AskStop(t) ==
    /\ pc[t] = "stop"
    /\ IF svc = "running" THEN svc' = "stopping" /\ Goto(t, "wait")
                          ELSE Goto(t, "start") /\ UNCHANGED svc
    /\ UNCHANGED <<fileVars, insVars, spent, pastVars>>

(* Stopped, or five seconds have passed.                                   *)
WaitStopped(t) ==
    /\ pc[t] = "wait" /\ Goto(t, "start")
    /\ UNCHANGED <<fileVars, svc, insVars, spent, pastVars>>

(* MUTANT: the process that restarted the service does not exit.           *)
WithoutExit(t, img) == img

(* The detached copy is gone when it has done its work.                    *)
Without(t, img) == IF t = "restarter" THEN [img EXCEPT ![t] = None] ELSE img

StartAgain(t) ==
    /\ pc[t] = "start" /\ Ends(t)
    /\ IF CanStart
       THEN svc' = "starting" /\ image' = Without(t, [image EXCEPT !["service"] = "exe"])
       ELSE image' = Without(t, image) /\ UNCHANGED svc
    /\ UNCHANGED <<disk, spent, pastVars>>

(* A process ends, and with the service the update it was making.          *)
Swapping(t) == pc[t] \in {"place", "back"}
Ended ==
    /\ svc' = "stopped" /\ Goto("updater", "idle")
    /\ image' = [image EXCEPT !["service"] = None]
    /\ torn' = (torn \/ (Swapping("updater") /\ disk["exe"] = None))
    /\ UNCHANGED <<disk, insVars, shared, overlap, installed>>

ServiceExits == svc = "stopping" /\ Ended /\ UNCHANGED spent
ServiceDies == svc # "stopped" /\ Spend("crashes", MaxCrashes) /\ Ended

PowerCut ==
    /\ Spend("crashes", MaxCrashes)
    /\ svc' = "stopped" /\ pc' = [t \in Tasks |-> "idle"] /\ own' = None /\ aside' = None
    /\ image' = [p \in Processes |-> None]
    /\ torn' = (torn \/ disk["exe"] = None)
    /\ UNCHANGED <<disk, shared, overlap, installed>>

(* The tray runs the installed file, by hand or handed over to, and moves  *)
(* on when it sees an engine newer than itself.                            *)
LaunchTray ==
    /\ image["tray"] = None /\ Whole(disk["exe"])
    /\ image' = [image EXCEPT !["tray"] = "exe"]
    /\ UNCHANGED <<disk, svc, pc, insVars, spent, pastVars>>

QuitTray ==
    /\ image["tray"] # None /\ image' = [image EXCEPT !["tray"] = None]
    /\ UNCHANGED <<disk, svc, pc, insVars, spent, pastVars>>

RestartTray ==
    /\ svc = "running" /\ image["tray"] # None /\ Whole(disk["exe"])
    /\ Newer(Build("service"), Build("tray"))
    /\ image' = [image EXCEPT !["tray"] = "exe"]
    /\ UNCHANGED <<disk, svc, pc, insVars, spent, pastVars>>

-----------------------------------------------------------------------------
Next ==
    \/ CheckUpdate \/ Download \/ VerifySum
    \/ RemoveOld \/ MoveAside \/ InstallNew \/ Restart \/ PutBack("updater", "old")
    \/ \E b \in Builds : HandOff(b)
    \/ PlaceBinary \/ CopyFile \/ Stat \/ ChooseAside
    \/ PlaceAside \/ PlaceNew \/ PutBack("installer", aside)
    \/ \E t \in {"updater", "installer"} : WriteFails(t) \/ Clean(t)
    \/ \E t \in {"installer", "restarter"} : AskStop(t) \/ WaitStopped(t) \/ StartAgain(t)
    \/ StartService \/ CleanOld \/ StopService \/ ServiceExits \/ ServiceDies \/ PowerCut
    \/ LaunchTray \/ QuitTray \/ RestartTray

Spec == Init /\ [][Next]_vars

-----------------------------------------------------------------------------
(* The file the service starts from is one build and all of it, whatever   *)
(* fails, is killed or loses power: staging beside it and renaming leaves  *)
(* no window.  Only two tasks staging in the one .new can break it.        *)
ExeIsWhole == ~shared /\ disk["exe"] # None => Whole(disk["exe"])

(* Even between the two renames, and after a power cut there, a build that *)
(* runs is left under one of the names a swap moves it to.                 *)
CopySurvives == ~shared => \E p \in Paths \ {"new"} : Whole(disk[p])

(* selfupdate.go:101 "put the working binary back rather than leave no     *)
(* binary at all": a swap that ends in an error leaves one in place.       *)
BinaryKept ==
    ~torn /\ (\A t \in Tasks : ~Swapping(t)) => disk["exe"] # None

(* The build in place is never replaced by an older one.  An update looks  *)
(* at the version of the service that makes it (selfupdate.go:50), a launch*)
(* at the installed file before its elevated copy acts, so this holds as   *)
(* long as the two do not go on at once and the service that updates is    *)
(* the one installed: one that an installation could not stop in time may  *)
(* put an older release over what was installed.                           *)
InstalledStays ==
    ~torn /\ ~overlap /\ Whole(disk["exe"]) => disk["exe"][1] >= installed
=============================================================================
