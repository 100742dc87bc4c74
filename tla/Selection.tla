----------------------------- MODULE Selection -----------------------------
(***************************************************************************)
(* Which applications apptunnel.Engine routes, and which of their          *)
(* connections it still owes a reset (internal/apptunnel/                  *)
(* apptunnel_windows.go: SetApps, Suspend, Stop).                          *)
(*                                                                         *)
(* opMu serialises the three operations, so each is one step here; the     *)
(* handles and goroutines they start and stop are the subject of Engine.   *)
(* A connection that an application opens while it is not intercepted goes *)
(* outside the tunnel and stays there until it is reset or closed.         *)
(***************************************************************************)
EXTENDS FiniteSets

CONSTANT Apps  \* lower-case names of the executables the user can select

VARIABLES
    apps,          \* Engine.apps
    lastSel,       \* Engine.lastSel
    pendingReset,  \* Engine.pendingReset
    running,       \* Engine.running
    resetting,     \* applications a resetAppConnections goroutine will reset
    outside,       \* applications with a connection outside the tunnel
    retired        \* Stop was called: nothing is promised any more

selVars == <<apps, lastSel, pendingReset, running, resetting, outside, retired>>

SelTypeOK ==
    /\ apps \subseteq Apps /\ lastSel \subseteq Apps /\ pendingReset \subseteq Apps
    /\ resetting \subseteq Apps /\ outside \subseteq Apps
    /\ running \in BOOLEAN /\ retired \in BOOLEAN

SelInit ==
    /\ apps = {} /\ lastSel = {} /\ pendingReset = {} /\ resetting = {}
    /\ running = FALSE /\ retired = FALSE
    /\ outside \in SUBSET Apps

-----------------------------------------------------------------------------
(* MUTANT: a pause leaves no trace, as before pendingReset was introduced. *)
AddedUnpaused(names) == names \ lastSel

(* The applications to pull into the tunnel once interception runs: those  *)
(* selected for the first time, and those that went direct during a pause. *)
Added(names) == (names \ lastSel) \cup (pendingReset \cap names)

(* ok is the outcome of start(), which runs only if interception is off.   *)
SetApps(names, ok) ==
    LET active == names # {} /\ (running \/ ok) IN
    /\ apps' = names /\ lastSel' = names
    /\ running' = active
    /\ pendingReset' = IF active \/ names = {} THEN {} ELSE names
    /\ resetting' = IF active THEN resetting \cup Added(names) ELSE resetting
    /\ UNCHANGED <<outside, retired>>

Suspend ==
    /\ pendingReset' = IF apps # {} THEN apps ELSE pendingReset
    /\ apps' = {} /\ running' = FALSE
    /\ UNCHANGED <<lastSel, resetting, outside, retired>>

Stop ==
    /\ running' = FALSE /\ retired' = TRUE
    /\ UNCHANGED <<apps, lastSel, pendingReset, resetting, outside>>

(* The process dies and New builds an empty engine; connections it did not *)
(* carry survive it.                                                       *)
Restart ==
    /\ apps' = {} /\ lastSel' = {} /\ pendingReset' = {} /\ resetting' = {}
    /\ running' = FALSE /\ retired' = FALSE
    /\ UNCHANGED outside

(* resetAppConnections runs in a goroutine of its own, some time later.    *)
ResetConnections(a) ==
    /\ a \in resetting
    /\ resetting' = resetting \ {a} /\ outside' = outside \ {a}
    /\ UNCHANGED <<apps, lastSel, pendingReset, running, retired>>

Intercepted(a) == running /\ a \in apps

OpenOutside(a) ==
    /\ ~Intercepted(a)
    /\ outside' = outside \cup {a}
    /\ UNCHANGED <<apps, lastSel, pendingReset, running, resetting, retired>>

CloseOutside(a) ==
    /\ outside' = outside \ {a}
    /\ UNCHANGED <<apps, lastSel, pendingReset, running, resetting, retired>>

SelNext ==
    \/ \E names \in SUBSET Apps, ok \in BOOLEAN : SetApps(names, ok)
    \/ Suspend \/ Stop \/ Restart
    \/ \E a \in Apps : ResetConnections(a) \/ OpenOutside(a) \/ CloseOutside(a)

SelSpec == SelInit /\ [][SelNext]_selVars

-----------------------------------------------------------------------------
(* No silent bypass: whatever sequence of selections, pauses and failed    *)
(* starts came before, once interception runs every connection that a      *)
(* routed application holds outside the tunnel is due to be reset.         *)
NoBypass == running /\ ~retired => apps \cap outside \subseteq resetting

(* A tunnel flap or a repeated selection resets nothing: only applications *)
(* that were not being intercepted are ever scheduled for a reset.         *)
NoNeedlessReset ==
    [][\A a \in Apps : a \in resetting' /\ a \notin resetting /\ ~retired
                          => ~Intercepted(a)]_selVars
=============================================================================
