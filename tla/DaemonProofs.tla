--------------------------- MODULE DaemonProofs ---------------------------
(***************************************************************************)
(* Proofs about Selection, for every set of applications, and about        *)
(* Daemon, for any number of clients and any bounds: its types and the     *)
(* discipline of applyMu; that it drives the engine only through the       *)
(* operations of Selection, so what is proved there holds of the daemon;   *)
(* that state.json never falls behind; that a tunnel given up stays down;  *)
(* and that what interception is told is what the daemon holds.            *)
(***************************************************************************)
EXTENDS Daemon, TLAPS

---------------------------------------------------------------------------
(* Selection.  NoBypass is not inductive: whether a selected application   *)
(* needs a reset is decided from lastSel and pendingReset, so the          *)
(* invariant says what those two record while interception runs and while  *)
(* it is paused.                                                           *)

(* What the books of the engine say.  Applied is the selection in force;   *)
(* while running nothing is pending; while paused every application that   *)
(* was routed is.                                                          *)
Books ==
    /\ apps # {} => apps = lastSel
    /\ running => apps # {} /\ pendingReset = {}
    /\ ~running /\ ~retired => lastSel \subseteq pendingReset

SelInv == SelTypeOK /\ Books /\ NoBypass

LEMMA SelInitInv == SelInit => SelInv
  BY DEF SelInit, SelInv, SelTypeOK, Books, NoBypass

(* One call of SetApps, with any selection and any outcome of start().     *)
LEMMA SetAppsInv ==
  ASSUME SelInv, NEW names \in SUBSET Apps, NEW ok \in BOOLEAN, SetApps(names, ok), ~retired
  PROVE  SelInv'
  <1> USE DEF SelInv, SelTypeOK, Books
  <1>1. SelTypeOK'
    BY DEF SetApps, Added
  <1>2. Books'
    BY DEF SetApps
  <1>3. NoBypass'
    <2> SUFFICES ASSUME running', NEW a \in apps', a \in outside'
                 PROVE  a \in resetting'
      BY DEF NoBypass
    <2>1. a \in names /\ a \in outside /\ resetting' = resetting \cup Added(names)
      BY DEF SetApps
    <2>2. CASE a \in Added(names)
      BY <2>1, <2>2
    <2>3. CASE a \notin Added(names)
      <3>1. a \in lastSel /\ a \notin pendingReset
        BY <2>1, <2>3 DEF Added
      <3>2. running /\ a \in apps
        BY <3>1
      <3> QED
        BY <2>1, <3>2 DEF NoBypass
    <2> QED
      BY <2>2, <2>3
  <1> QED
    BY <1>1, <1>2, <1>3

LEMMA SelInvStep == SelInv /\ [SelNext]_selVars => SelInv'
  <1> SUFFICES ASSUME SelInv, [SelNext]_selVars
               PROVE  SelInv'
    OBVIOUS
  <1> USE DEF SelInv, SelTypeOK
  <1>1. ASSUME NEW names \in SUBSET Apps, NEW ok \in BOOLEAN, SetApps(names, ok)
        PROVE  SelInv'
    <2>1. CASE ~retired
      BY <1>1, <2>1, SetAppsInv
    <2>2. CASE retired
      BY <1>1, <2>2 DEF SetApps, Added, Books, NoBypass
    <2> QED
      BY <2>1, <2>2
  <1>2. CASE Suspend
    BY <1>2 DEF Suspend, Books, NoBypass
  <1>3. CASE Stop
    BY <1>3 DEF Stop, Books, NoBypass
  <1>4. CASE Restart
    BY <1>4 DEF Restart, Books, NoBypass
  <1>5. ASSUME NEW a \in Apps, ResetConnections(a)
        PROVE  SelInv'
    BY <1>5 DEF ResetConnections, Books, NoBypass
  <1>6. ASSUME NEW a \in Apps, OpenOutside(a)
        PROVE  SelInv'
    BY <1>6 DEF OpenOutside, Intercepted, Books, NoBypass
  <1>7. ASSUME NEW a \in Apps, CloseOutside(a)
        PROVE  SelInv'
    BY <1>7 DEF CloseOutside, Books, NoBypass
  <1>8. CASE UNCHANGED selVars
    BY <1>8 DEF selVars, Books, NoBypass
  <1> QED
    BY <1>1, <1>2, <1>3, <1>4, <1>5, <1>6, <1>7, <1>8 DEF SelNext

LEMMA SelInvHolds == SelSpec => []SelInv
  <1> QED
    BY SelInitInv, SelInvStep, PTL DEF SelSpec

(* No order of selections, pauses, failed starts, resets and restarts lets *)
(* a routed application keep an unscheduled connection outside the tunnel  *)
(* once interception runs (SetApps, Suspend and their pendingReset).       *)
THEOREM BypassSafety == SelSpec => []NoBypass
  <1>1. SelInv => NoBypass
    BY DEF SelInv
  <1> QED
    BY <1>1, SelInvHolds, PTL

(* The engine never schedules a reset for an application it is already     *)
(* intercepting: a flap that comes and goes between two calls costs the    *)
(* user no connection.                                                     *)
THEOREM NoNeedlessResetHolds == SelSpec => NoNeedlessReset
  <1> DEFINE Act == \A a \in Apps : a \in resetting' /\ a \notin resetting /\ ~retired
                          => ~Intercepted(a)
  <1>1. SelInv /\ [SelNext]_selVars => [Act]_selVars
    <2> SUFFICES ASSUME SelInv, SelNext, NEW a \in Apps,
                        a \in resetting', a \notin resetting, ~retired
                 PROVE  ~Intercepted(a)
      BY DEF Act
    <2>1. PICK names \in SUBSET Apps, ok \in BOOLEAN : SetApps(names, ok)
      BY DEF SelNext, Suspend, Stop, Restart, ResetConnections, OpenOutside, CloseOutside
    <2>2. a \in Added(names)
      BY <2>1 DEF SetApps
    <2> QED
      BY <2>2 DEF Added, Intercepted, SelInv, Books
  <1> QED
    BY <1>1, SelInvHolds, PTL DEF SelSpec, NoNeedlessReset

---------------------------------------------------------------------------
(* Daemon                                                                  *)

(* Where each role can be, and the limit that superviseTunnel checked      *)
(* before it decides and again before it rebuilds.                         *)
Places ==
    /\ \A t \in Closers : pc[t] \in {"idle", "stop", "closeTunnel", "closed"}
    /\ \A c \in Clients : pc[c] # "decide" /\ ret[c] # "decide"
    /\ pc[Watch] \in {"decide", "rebuild"} => fails < MaxRebuilds
    /\ \A t \in Threads : ret[t] \in {"idle", "reconcile", "supervise"}

DaemonInv == TypeOK /\ Places

USE DEF Threads, States, Empty, Locked, PCs, NoTick

LEMMA DaemonInitInv == Init => DaemonInv
  <1> SUFFICES ASSUME Init
               PROVE  DaemonInv
    OBVIOUS
  <1> USE DaemonAssumption DEF Init
  <1>1. SelTypeOK
    BY DEF SelInit, SelTypeOK
  <1>2. {t \in Threads : pc[t] \in Locked} = {applyMu} \ {Nobody}
    OBVIOUS
  <1>3. /\ pc \in [Threads -> PCs] /\ ret \in [Threads -> PCs]
        /\ snap \in [Threads -> [state : States, sel : SUBSET Apps,
                                wanted : BOOLEAN, active : BOOLEAN]]
        /\ seen \in [state : States, wanted : BOOLEAN]
    OBVIOUS
  <1>4. /\ dev \in States /\ wanted \in BOOLEAN /\ sel \subseteq Apps
        /\ fails \in 0..MaxRebuilds /\ tries \in 0..MaxStarts
    BY DEF Resume
  <1>5. Places
    BY DEF Places
  <1> QED
    BY <1>1, <1>2, <1>3, <1>4, <1>5 DEF DaemonInv, TypeOK

(* The operations of Selection keep their part of the types.               *)
LEMMA SelStepTypes ==
  ASSUME SelTypeOK, [SelNext]_selVars
  PROVE  SelTypeOK'
  BY DEF SelTypeOK, SelNext, selVars, SetApps, Added, Suspend, Stop, Restart,
         ResetConnections, OpenOutside, CloseOutside

-----------------------------------------------------------------------------
(* Every step of the daemon is one operation of the engine, or none.       *)
LEMMA DrivesStep ==
  ASSUME DaemonInv, [Next]_vars
  PROVE  [SelNext]_selVars
  <1> USE DEF DaemonInv, TypeOK
  <1>1. ASSUME NEW t \in Threads, ReconcileApply(t)
        PROVE  [SelNext]_selVars
    <2> USE <1>1
    <2>1. snap[t].sel \in SUBSET Apps
      OBVIOUS
    <2>2. CASE ApplyNames({}) \/ ApplyNames(snap[t].sel)
      <3>1. PICK names \in SUBSET Apps, ok \in BOOLEAN : SetApps(names, ok)
        BY <2>1, <2>2 DEF ApplyNames
      <3> QED
        BY <3>1 DEF SelNext
    <2>3. CASE Suspend
      BY <2>3 DEF SelNext
    <2>4. CASE UNCHANGED selVars
      BY <2>4
    <2> QED
      BY <2>2, <2>3, <2>4 DEF ReconcileApply
  <1>2. ASSUME NEW t \in Threads, ThreadStep(t)
        PROVE  [SelNext]_selVars
    BY <1>1, <1>2 DEF ThreadStep, Persist, Save, Reconcile, ReconcileLock, ReconcileRead
  <1>3. ASSUME NEW c \in Clients, ClientCommand(c) \/ ClientStep(c)
        PROVE  [SelNext]_selVars
    BY <1>2, <1>3 DEF ClientCommand, ClientStep, Connect, ConnectWanted, Disconnect,
                      DisconnectClose, Select, SaveAgain
  <1>4. CASE WatchStep
    BY <1>2, <1>4 DEF WatchStep, Tick, WatchExit, See, RetryStart, RetryNotDue, StateChanged,
                      SuperviseFine, SuperviseWait, SuperviseDue, Decide, GiveUp, Rebuild
  <1>5. ASSUME NEW t \in Closers, CloserStep(t)
        PROVE  [SelNext]_selVars
    BY <1>5 DEF CloserStep, CloseBegin, CloseStop, CloseTunnel, SelNext
  <1>6. CASE CrashAndRestart \/ Handshake \/ HandshakeStale \/ Applications
    BY <1>6 DEF CrashAndRestart, Handshake, HandshakeStale, Applications, SelNext
  <1>7. CASE UNCHANGED vars
    BY <1>7 DEF vars
  <1> QED
    BY <1>3, <1>4, <1>5, <1>6, <1>7 DEF Next

-----------------------------------------------------------------------------
LEMMA ClientTypes ==
  ASSUME DaemonInv, SelTypeOK', NEW c \in Clients,
         \/ ClientCommand(c) \/ ConnectWanted(c) \/ DisconnectClose(c)
  PROVE  DaemonInv'
  <1> USE DaemonAssumption DEF DaemonInv, TypeOK, Places, Goto, Call, Command,
          memory, control, budget
  <1>1. CASE Connect(c)
    BY <1>1 DEF Connect
  <1>2. CASE ConnectWanted(c)
    BY <1>2 DEF ConnectWanted
  <1>3. CASE Disconnect(c)
    <2>1. /\ pc' = [pc EXCEPT ![c] = "close"] /\ pc[c] = "idle" /\ wanted' = FALSE
          /\ UNCHANGED <<selVars, dev, sel, fails, tries, lastState, closing,
                         saved, applyMu, ret, snap, seen, down>>
      BY <1>3, Zenon DEF Disconnect
    <2>2. {u \in Threads : pc'[u] \in Locked} = {u \in Threads : pc[u] \in Locked}
      BY <2>1
    <2>3. TypeOK'
      BY <2>1, <2>2
    <2>4. Places'
      BY <2>1
    <2> QED
      BY <2>3, <2>4
  <1>4. CASE DisconnectClose(c)
    BY <1>4 DEF DisconnectClose
  <1>5. ASSUME NEW names \in SUBSET Apps, Select(c, names)
        PROVE  DaemonInv'
    BY <1>5 DEF Select
  <1>6. CASE SaveAgain(c)
    BY <1>6 DEF SaveAgain
  <1> QED
    BY <1>1, <1>2, <1>3, <1>4, <1>5, <1>6 DEF ClientCommand

LEMMA ThreadTypes ==
  ASSUME DaemonInv, SelTypeOK', NEW t \in Clients \cup {Watch}, ThreadStep(t)
  PROVE  DaemonInv'
  <1> USE DaemonAssumption DEF DaemonInv, TypeOK, Places, Goto, Call, memory, budget
  <1>1. CASE Persist(t)
    <2>1. {u \in Threads : pc'[u] \in Locked} = {t}
      BY <1>1 DEF Persist
    <2>2. snap' \in [Threads -> [state : States, sel : SUBSET Apps,
                                wanted : BOOLEAN, active : BOOLEAN]]
      BY <1>1 DEF Persist
    <2>3. pc' \in [Threads -> PCs] /\ Places'
      BY <1>1 DEF Persist
    <2> QED
      BY <1>1, <2>1, <2>2, <2>3 DEF Persist
  <1>2. CASE Save(t)
    BY <1>2 DEF Save
  <1>3. CASE Reconcile(t)
    BY <1>3 DEF Reconcile
  <1>4. CASE ReconcileLock(t)
    BY <1>4 DEF ReconcileLock
  <1>5. CASE ReconcileRead(t)
    BY <1>5 DEF ReconcileRead, SelTypeOK
  <1>6. CASE ReconcileApply(t)
    BY <1>6 DEF ReconcileApply, Unlock
  <1> QED
    BY <1>1, <1>2, <1>3, <1>4, <1>5, <1>6 DEF ThreadStep

LEMMA WatchTypes ==
  ASSUME DaemonInv, SelTypeOK', WatchStep
  PROVE  DaemonInv'
  <1> USE DaemonAssumption DEF DaemonInv, TypeOK, Places, Goto, Call, memory, control, budget
  <1>1. CASE Tick
    BY <1>1 DEF Tick
  <1>2. CASE WatchExit
    BY <1>2 DEF WatchExit
  <1>3. CASE See
    BY <1>3 DEF See
  <1>4. CASE RetryStart
    BY <1>4 DEF RetryStart, RetryDue
  <1>5. CASE RetryNotDue
    BY <1>5 DEF RetryNotDue
  <1>6. CASE StateChanged
    BY <1>6 DEF StateChanged
  <1>7. CASE SuperviseFine
    <2>1. fails' \in 0..MaxRebuilds /\ seen' \in [state : States, wanted : BOOLEAN]
      BY <1>7 DEF SuperviseFine
    <2>2. pc' \in [Threads -> PCs] /\ Places'
      BY <1>7 DEF SuperviseFine
    <2>3. {t \in Threads : pc'[t] \in Locked} = {t \in Threads : pc[t] \in Locked}
      BY <1>7 DEF SuperviseFine
    <2> QED
      BY <1>7, <2>1, <2>2, <2>3 DEF SuperviseFine
  <1>8. CASE SuperviseWait
    BY <1>8 DEF SuperviseWait, GaveUp
  <1>9. CASE SuperviseDue
    BY <1>9 DEF SuperviseDue, GaveUp
  <1>10. CASE Decide
    BY <1>10 DEF Decide
  <1>11. CASE GiveUp
    BY <1>11 DEF GiveUp
  <1>12. CASE Rebuild
    BY <1>12 DEF Rebuild
  <1> QED
    BY <1>1, <1>2, <1>3, <1>4, <1>5, <1>6, <1>7, <1>8, <1>9, <1>10, <1>11, <1>12,
       ThreadTypes DEF WatchStep

LEMMA OtherTypes ==
  ASSUME DaemonInv, SelTypeOK',
         \/ \E t \in Closers : CloserStep(t)
         \/ CrashAndRestart \/ Handshake \/ HandshakeStale \/ Applications
  PROVE  DaemonInv'
  <1> USE DaemonAssumption DEF DaemonInv, TypeOK, Places, Goto, memory, control, budget
  <1>1. ASSUME NEW t \in Closers, CloseBegin(t) \/ CloseStop(t) \/ CloseTunnel(t)
        PROVE  DaemonInv'
    <2> USE <1>1 DEF CloseBegin, CloseStop, CloseTunnel
    <2>1. pc' \in [Threads -> PCs] /\ Places'
      OBVIOUS
    <2>2. {u \in Threads : pc'[u] \in Locked} = {u \in Threads : pc[u] \in Locked}
      BY <2>1
    <2>3. dev' \in States /\ closing' \in BOOLEAN
      OBVIOUS
    <2> QED
      BY <2>1, <2>2, <2>3
  <1>2. CASE CrashAndRestart
    <2> USE <1>2 DEF CrashAndRestart
    <2>1. {u \in Threads : pc'[u] \in Locked} = {applyMu'} \ {Nobody}
      OBVIOUS
    <2>2. /\ pc' \in [Threads -> PCs] /\ ret' \in [Threads -> PCs]
          /\ snap' \in [Threads -> [state : States, sel : SUBSET Apps,
                                   wanted : BOOLEAN, active : BOOLEAN]]
          /\ seen' \in [state : States, wanted : BOOLEAN]
      OBVIOUS
    <2>3. /\ dev' \in States /\ wanted' \in BOOLEAN /\ sel' \subseteq Apps
          /\ fails' \in 0..MaxRebuilds /\ tries' \in 0..MaxStarts
      BY DEF Resume
    <2>4. Places'
      OBVIOUS
    <2> QED
      BY <2>1, <2>2, <2>3, <2>4
  <1>3. CASE Handshake \/ HandshakeStale \/ Applications
    BY <1>3 DEF Handshake, HandshakeStale, Applications
  <1> QED
    BY <1>1, <1>2, <1>3 DEF CloserStep

LEMMA DaemonInvStep == DaemonInv /\ [Next]_vars => DaemonInv'
  <1> SUFFICES ASSUME DaemonInv, [Next]_vars
               PROVE  DaemonInv'
    OBVIOUS
  <1>1. SelTypeOK'
    BY DrivesStep, SelStepTypes DEF DaemonInv, TypeOK
  <1>2. ASSUME NEW c \in Clients, ClientCommand(c) \/ ClientStep(c)
        PROVE  DaemonInv'
    BY <1>1, <1>2, ClientTypes, ThreadTypes DEF ClientStep
  <1>3. CASE WatchStep
    BY <1>1, <1>3, WatchTypes
  <1>4. CASE \/ \E t \in Closers : CloserStep(t)
             \/ CrashAndRestart \/ Handshake \/ HandshakeStale \/ Applications
    BY <1>1, <1>4, OtherTypes
  <1>5. CASE UNCHANGED vars
    BY <1>1, <1>5 DEF vars, memory, control, budget, DaemonInv, TypeOK, Places
  <1> QED
    BY <1>2, <1>3, <1>4, <1>5 DEF Next

LEMMA DaemonInvHolds == Spec => []DaemonInv
  <1> QED
    BY DaemonInitInv, DaemonInvStep, PTL DEF Spec

(* The types hold, and applyMu is held by exactly the goroutine that is    *)
(* writing state.json or applying a selection (persist, reconcile).        *)
THEOREM DaemonTypeCorrect == Spec => []TypeOK
  <1>1. DaemonInv => TypeOK
    BY DEF DaemonInv
  <1> QED
    BY <1>1, DaemonInvHolds, PTL

(* The daemon's steps on the selection are Selection's own operations, so  *)
(* what is proved of a run of those holds of a run of the daemon.          *)
LEMMA DrivesSelection == Spec => SelSpec
  <1>1. Init => SelInit
    BY DEF Init
  <1>2. DaemonInv /\ [Next]_vars => [SelNext]_selVars
    BY DrivesStep
  <1> QED
    BY <1>1, <1>2, DaemonInvHolds, PTL DEF Spec, SelSpec

(* No selected application keeps a connection outside the tunnel without a *)
(* reset being due, whatever the handlers, the watch and a crash do.       *)
THEOREM DaemonBypassSafety == Spec => []NoBypass
  BY DrivesSelection, BypassSafety, PTL

-----------------------------------------------------------------------------
(* SavedIsCurrent is not inductive: while commands are in flight the file  *)
(* may be behind, and the snapshot about to be written may be too.  In     *)
(* both cases a command that has changed memory has its write before it.   *)
Current == [wanted |-> wanted, sel |-> sel]

WriteAhead == \E c \in Clients : pc[c] \in {"close", "persist"}

SavedInv ==
    /\ \A t \in Threads :
          pc[t] = "save" => (snap[t].wanted = wanted /\ snap[t].sel = sel) \/ WriteAhead
    /\ saveFailed \/ saved = Current \/ WriteAhead
       \/ \E t \in Clients \cup {Watch} : pc[t] = "save"

LEMMA SavedInit == Init => SavedInv
  BY DEF Init, SavedInv, Current

(* A command that changes wanted or sel puts its own write ahead.          *)
LEMMA SavedCommand ==
  ASSUME DaemonInv, SavedInv, NEW c \in Clients,
         ClientCommand(c) \/ ConnectWanted(c) \/ DisconnectClose(c)
  PROVE  SavedInv'
  <1> USE DEF DaemonInv, TypeOK, Goto, Call, memory
  <1>1. CASE pc'[c] \in {"close", "persist"}
    BY <1>1 DEF SavedInv, WriteAhead
  <1>2. CASE pc'[c] \notin {"close", "persist"}
    <2>1. Connect(c)
      BY <1>2 DEF ClientCommand, ConnectWanted, DisconnectClose, Disconnect, Select, SaveAgain
    <2>2. /\ \A t \in Threads \ {c} : pc'[t] = pc[t]
          /\ pc[c] = "idle" /\ pc'[c] = "wanted"
          /\ UNCHANGED <<wanted, sel, saved, saveFailed, snap>>
      BY <2>1 DEF Connect, Command
    <2>3. WriteAhead' = WriteAhead /\ Current' = Current
      BY <2>2 DEF WriteAhead, Current
    <2> QED
      BY <2>2, <2>3 DEF SavedInv
  <1> QED
    BY <1>1, <1>2

LEMMA SavedPersist ==
  ASSUME DaemonInv, SavedInv, NEW t \in Clients \cup {Watch}, Persist(t)
  PROVE  SavedInv'
  <1> USE DEF DaemonInv, TypeOK, Goto, memory, budget
  <1>1. \A u \in Threads : pc[u] # "save"
    BY DEF Persist
  <1>2. /\ pc'[t] = "save" /\ \A u \in Threads \ {t} : pc'[u] = pc[u]
        /\ snap'[t].wanted = wanted' /\ snap'[t].sel = sel'
    BY DEF Persist
  <1> QED
    BY <1>1, <1>2 DEF SavedInv

LEMMA SavedSave ==
  ASSUME DaemonInv, SavedInv, NEW t \in Clients \cup {Watch}, Save(t)
  PROVE  SavedInv'
  <1> USE DEF DaemonInv, TypeOK, Goto, memory
  <1>1. /\ pc[t] = "save" /\ \A u \in Threads \ {t} : pc'[u] = pc[u]
        /\ pc'[t] = ret[t] /\ pc'[t] # "save"
    BY DEF Save, Places
  <1>2. \A u \in Threads : pc'[u] # "save"
    BY <1>1
  <1>3. WriteAhead => WriteAhead'
    BY <1>1 DEF WriteAhead
  <1>4. CASE saveFailed'
    BY <1>2, <1>4 DEF SavedInv
  <1>5. CASE ~saveFailed'
    <2>1. saved' = [wanted |-> snap[t].wanted, sel |-> snap[t].sel]
      BY <1>5 DEF Save
    <2>2. Current' = [wanted |-> wanted, sel |-> sel]
      BY DEF Save, Current
    <2>3. (snap[t].wanted = wanted /\ snap[t].sel = sel) \/ WriteAhead
      BY <1>1 DEF SavedInv
    <2> QED
      BY <1>2, <1>3, <2>1, <2>2, <2>3 DEF SavedInv
  <1> QED
    BY <1>4, <1>5

(* Steps that touch neither memory nor the file, nor start or end a write. *)
LEMMA SavedQuiet ==
  ASSUME DaemonInv, SavedInv, UNCHANGED <<wanted, sel, saved, saveFailed>>,
         NEW t \in Threads, pc[t] \notin {"close", "persist", "save"},
         \A u \in Threads \ {t} : pc'[u] = pc[u] /\ snap'[u] = snap[u],
         pc'[t] # "save"
  PROVE  SavedInv'
  <1>1. WriteAhead => WriteAhead'
    BY DEF WriteAhead
  <1>2. Current' = Current
    BY DEF Current
  <1> QED
    BY <1>1, <1>2 DEF SavedInv

LEMMA SavedStep == DaemonInv /\ SavedInv /\ [Next]_vars => SavedInv'
  <1> SUFFICES ASSUME DaemonInv, SavedInv, [Next]_vars
               PROVE  SavedInv'
    OBVIOUS
  <1> USE DEF DaemonInv, TypeOK, Goto, Call, memory, control, budget
  <1>1. ASSUME NEW t \in Clients \cup {Watch}, ThreadStep(t)
        PROVE  SavedInv'
    <2>1. CASE Persist(t)
      BY <2>1, SavedPersist
    <2>2. CASE Save(t)
      BY <2>2, SavedSave
    <2>3. CASE Reconcile(t) \/ ReconcileLock(t) \/ ReconcileRead(t) \/ ReconcileApply(t)
      <3>1. /\ pc[t] \notin {"close", "persist", "save"} /\ pc'[t] # "save"
            /\ \A u \in Threads \ {t} : pc'[u] = pc[u] /\ snap'[u] = snap[u]
            /\ UNCHANGED <<wanted, sel, saved, saveFailed>>
        BY <2>3 DEF Reconcile, ReconcileLock, ReconcileRead, ReconcileApply, Unlock, Places
      <3> QED
        BY <3>1, SavedQuiet
    <2> QED
      BY <1>1, <2>1, <2>2, <2>3 DEF ThreadStep
  <1>2. ASSUME NEW c \in Clients, ClientCommand(c) \/ ClientStep(c)
        PROVE  SavedInv'
    BY <1>1, <1>2, SavedCommand DEF ClientStep
  <1>3. CASE WatchStep
    <2>1. CASE ThreadStep(Watch)
      BY <1>1, <2>1
    <2>2. CASE ~ThreadStep(Watch)
      <3>1. /\ pc[Watch] \notin {"close", "persist", "save"} /\ pc'[Watch] # "save"
            /\ \A u \in Threads \ {Watch} : pc'[u] = pc[u] /\ snap'[u] = snap[u]
            /\ UNCHANGED <<wanted, sel, saved, saveFailed>>
        <4> USE DEF Goto, Call, DaemonInv, TypeOK
        <4>1. CASE Tick \/ WatchExit \/ See
          BY <4>1 DEF Tick, WatchExit, See
        <4>2. CASE RetryStart \/ RetryNotDue \/ StateChanged
          BY <4>2 DEF RetryStart, RetryNotDue, StateChanged
        <4>3. CASE SuperviseFine \/ SuperviseWait \/ SuperviseDue
          BY <4>3 DEF SuperviseFine, SuperviseWait, SuperviseDue
        <4>4. CASE Decide \/ GiveUp \/ Rebuild
          BY <4>4 DEF Decide, GiveUp, Rebuild
        <4> QED
          BY <1>3, <2>2, <4>1, <4>2, <4>3, <4>4 DEF WatchStep
      <3> QED
        BY <3>1, SavedQuiet
    <2> QED
      BY <2>1, <2>2
  <1>4. ASSUME NEW t \in Closers, CloserStep(t)
        PROVE  SavedInv'
    <2>1. /\ pc[t] \notin {"close", "persist", "save"} /\ pc'[t] # "save"
          /\ \A u \in Threads \ {t} : pc'[u] = pc[u] /\ snap'[u] = snap[u]
          /\ UNCHANGED <<wanted, sel, saved, saveFailed>>
      BY <1>4 DEF CloserStep, CloseBegin, CloseStop, CloseTunnel
    <2> QED
      BY <2>1, SavedQuiet
  <1>5. CASE CrashAndRestart
    BY <1>5 DEF CrashAndRestart, SavedInv, Current
  <1>6. CASE Handshake \/ HandshakeStale \/ Applications \/ UNCHANGED vars
    BY <1>6 DEF Handshake, HandshakeStale, Applications, vars, SavedInv, WriteAhead, Current
  <1> QED
    BY <1>2, <1>3, <1>4, <1>5, <1>6 DEF Next

(* state.json never falls behind: whichever commands run at once, and in   *)
(* whichever order persist writes, the file holds what memory holds when   *)
(* they have returned, unless the last write failed.                       *)
THEOREM SavedSafety == Spec => []SavedIsCurrent
  <1>1. SavedInv => SavedIsCurrent
    BY DEF SavedInv, SavedIsCurrent, Settled, WriteAhead, Current
  <1> QED
    BY <1>1, SavedInit, SavedStep, DaemonInvHolds, PTL DEF Spec

-----------------------------------------------------------------------------
(* Only two steps bring up a tunnel that is down: Connect, and the rebuild *)
(* of a tunnel that has not been given up, which Places bounds.            *)
LEMMA OnlyTwoBringUp ==
  ASSUME DaemonInv, Next, dev = "none", dev' # "none"
  PROVE  CrashAndRestart \/ (\E c \in Clients : Connect(c)) \/ (Rebuild /\ pc[Watch] = "rebuild")
  <1> USE DEF memory
  <1>1. ASSUME NEW t \in Threads, ThreadStep(t)
        PROVE  FALSE
    BY <1>1 DEF ThreadStep, Persist, Save, Reconcile, ReconcileLock, ReconcileRead, ReconcileApply
  <1>2. ASSUME NEW c \in Clients, ClientCommand(c) \/ ClientStep(c)
        PROVE  Connect(c)
    BY <1>1, <1>2 DEF ClientCommand, ClientStep, ConnectWanted, Disconnect, DisconnectClose,
                      Select, SaveAgain
  <1>3. ASSUME WatchStep
        PROVE  Rebuild /\ pc[Watch] = "rebuild"
    <2>1. CASE Tick \/ WatchExit \/ See \/ RetryStart \/ RetryNotDue \/ StateChanged
      BY <2>1 DEF Tick, WatchExit, See, RetryStart, RetryNotDue, StateChanged
    <2>2. CASE SuperviseFine \/ SuperviseWait \/ SuperviseDue \/ Decide \/ GiveUp
      BY <2>2 DEF SuperviseFine, SuperviseWait, SuperviseDue, Decide, GiveUp
    <2> QED
      BY <1>1, <1>3, <2>1, <2>2 DEF WatchStep, Rebuild
  <1>4. ASSUME NEW t \in Closers, CloserStep(t)
        PROVE  FALSE
    BY <1>4 DEF CloserStep, CloseBegin, CloseStop, CloseTunnel
  <1>5. CASE Handshake \/ HandshakeStale \/ Applications
    BY <1>5 DEF Handshake, HandshakeStale, Applications
  <1> QED
    BY <1>2, <1>3, <1>4, <1>5 DEF Next

(* A tunnel that was given up stays down, in whatever order the watch, the *)
(* commands and the saves run, until the user connects or the service      *)
(* starts again.                                                           *)
THEOREM GaveUpSafety == Spec => GaveUpStaysDown
  <1>1. DaemonInv /\ [Next]_vars =>
          [fails >= MaxRebuilds /\ dev = "none" /\ dev' # "none"
             => CrashAndRestart \/ \E c \in Clients : Connect(c)]_vars
    <2> SUFFICES ASSUME DaemonInv, Next, fails >= MaxRebuilds, dev = "none", dev' # "none"
                 PROVE  CrashAndRestart \/ \E c \in Clients : Connect(c)
      OBVIOUS
    <2>1. pc[Watch] # "rebuild"
      BY DaemonAssumption DEF DaemonInv, TypeOK, Places
    <2> QED
      BY <2>1, OnlyTwoBringUp
  <1> QED
    BY <1>1, DaemonInvHolds, PTL DEF Spec, GaveUpStaysDown

-----------------------------------------------------------------------------
(* SettledSelection is not inductive: between two ticks a reconcile can be *)
(* under way.  While the engine routes anything but the selection, some    *)
(* goroutine has yet to read the selection or holds the current one; while *)
(* it routes without a tunnel, some goroutine has yet to look at the       *)
(* tunnel or saw that there is none.                                       *)
Workers == Clients \cup {Watch}

Calling(t) ==
    \/ pc[t] \in {"reconcile", "lock"}
    \/ pc[t] \in {"persist", "save"} /\ ret[t] = "reconcile"

WillApply(t) == Calling(t) \/ pc[t] = "read" \/ (pc[t] = "apply" /\ snap[t].sel = sel)
WillPause(t) == Calling(t) \/ (pc[t] \in {"read", "apply"} /\ snap[t].state = "none")

(* What the holder of applyMu has read of Active() is still so.            *)
ActiveCurrent == \A t \in Workers : pc[t] = "apply" => snap[t].active = running

SelectionDue ==
    \/ \E t \in Workers : WillApply(t)
    \/ (running => apps = sel) /\ \A t \in Workers : pc[t] # "apply"

PauseDue ==
    dev = "none" =>
        \/ \E t \in Workers : WillPause(t)
        \/ ~running /\ \A t \in Workers : pc[t] \notin {"read", "apply"}

SettleInv ==
    /\ \A t \in Closers : pc[t] # "idle" => closing
    /\ ~closing => ActiveCurrent /\ SelectionDue /\ PauseDue

LEMMA SettleInit == Init => SettleInv
  BY DEF Init, SelInit, SettleInv, ActiveCurrent, SelectionDue, PauseDue, Workers

(* A step of t after which t has a reconcile before it.                    *)
LEMMA SettleCaller ==
  ASSUME DaemonInv, SettleInv, NEW t \in Workers, Calling(t)',
         UNCHANGED <<running, closing>>,
         \A u \in Threads \ {t} : pc'[u] = pc[u] /\ snap'[u] = snap[u]
  PROVE  SettleInv'
  <1>1. pc'[t] \notin {"read", "apply"}
    BY DEF Calling
  <1>2. WillApply(t)' /\ WillPause(t)'
    BY DEF WillApply, WillPause
  <1>3. \A u \in Closers : pc'[u] = pc[u]
    BY DaemonAssumption DEF Workers
  <1>4. ASSUME ~closing PROVE ActiveCurrent' /\ SelectionDue' /\ PauseDue'
    BY <1>1, <1>2, <1>4 DEF SettleInv, ActiveCurrent, SelectionDue, PauseDue, Workers
  <1> QED
    BY <1>3, <1>4 DEF SettleInv

(* A step of t outside the section of applyMu that leaves the engine and   *)
(* the selection alone, does not close the tunnel and gives up no          *)
(* reconcile.                                                              *)
LEMMA SettleQuiet ==
  ASSUME DaemonInv, SettleInv, NEW t \in Workers,
         pc[t] \notin {"read", "apply"}, pc'[t] \notin {"read", "apply"},
         Calling(t) => Calling(t)' \/ closing,
         UNCHANGED <<running, apps, sel, closing>>, dev' = "none" => dev = "none",
         \A u \in Threads \ {t} : pc'[u] = pc[u] /\ snap'[u] = snap[u] /\ ret'[u] = ret[u]
  PROVE  SettleInv'
  <1>1. \A u \in Closers : pc'[u] = pc[u]
    BY DaemonAssumption DEF Workers
  <1>2. ASSUME ~closing PROVE ActiveCurrent' /\ SelectionDue' /\ PauseDue'
    <2>1. ActiveCurrent /\ SelectionDue /\ PauseDue
      BY <1>2 DEF SettleInv
    <2>2. \A u \in Workers \ {t} : pc'[u] = pc[u] /\ snap'[u] = snap[u] /\ ret'[u] = ret[u]
      BY DEF Workers
    <2>3. \A u \in Workers : WillApply(u) => WillApply(u)'
      BY <1>2, <2>2 DEF WillApply, Calling
    <2>4. \A u \in Workers : WillPause(u) => WillPause(u)'
      BY <1>2, <2>2 DEF WillPause, Calling
    <2>5. ActiveCurrent'
      BY <2>1, <2>2 DEF ActiveCurrent
    <2>6. SelectionDue'
      BY <2>1, <2>2, <2>3 DEF SelectionDue
    <2>7. PauseDue'
      BY <2>1, <2>2, <2>4 DEF PauseDue
    <2> QED
      BY <2>5, <2>6, <2>7
  <1> QED
    BY <1>1, <1>2 DEF SettleInv

LEMMA SettleLockRead ==
  ASSUME DaemonInv, SettleInv, NEW t \in Workers, ReconcileLock(t) \/ ReconcileRead(t)
  PROVE  SettleInv'
  <1> USE DEF DaemonInv, TypeOK, Goto
  <1>1. /\ UNCHANGED <<running, apps, sel, closing, dev>>
        /\ \A u \in Threads \ {t} : pc'[u] = pc[u] /\ snap'[u] = snap[u] /\ ret'[u] = ret[u]
    BY DEF ReconcileLock, ReconcileRead, selVars, memory
  <1>2. \A u \in Closers : pc'[u] = pc[u]
    BY <1>1, DaemonAssumption DEF Workers
  <1>3. CASE ReconcileLock(t)
    <2>1. pc'[t] = "read" /\ snap'[t].state = dev
      BY <1>3 DEF ReconcileLock, Workers
    <2>2. ASSUME ~closing PROVE ActiveCurrent' /\ SelectionDue' /\ PauseDue'
      BY <1>1, <2>1, <2>2
         DEF SettleInv, ActiveCurrent, SelectionDue, PauseDue, WillApply, WillPause, Workers
    <2> QED
      BY <1>1, <1>2, <2>2 DEF SettleInv
  <1>4. CASE ReconcileRead(t)
    <2>1. /\ pc[t] = "read" /\ pc'[t] = "apply" /\ snap'[t].sel = sel /\ snap'[t].active = running
          /\ snap'[t].state = snap[t].state
      BY <1>4 DEF ReconcileRead, Workers
    <2>2. WillApply(t)' /\ (WillPause(t) => WillPause(t)')
      BY <1>1, <2>1 DEF WillApply, WillPause, Calling
    <2>3. \A u \in Workers \ {t} : WillPause(u) => WillPause(u)'
      BY <1>1 DEF WillPause, Calling, Workers
    <2>4. ASSUME ~closing PROVE ActiveCurrent' /\ SelectionDue' /\ PauseDue'
      <3>1. ActiveCurrent'
        BY <1>1, <2>1, <2>4 DEF SettleInv, ActiveCurrent, Workers
      <3>2. SelectionDue'
        BY <2>2 DEF SelectionDue
      <3>3. PauseDue'
        BY <1>1, <2>1, <2>2, <2>3, <2>4 DEF SettleInv, PauseDue
      <3> QED
        BY <3>1, <3>2, <3>3
    <2> QED
      BY <1>1, <1>2, <2>4 DEF SettleInv
  <1> QED
    BY <1>3, <1>4

(* What the engine routes after a reconcile is what the reconcile read.    *)
LEMMA ApplyApplies ==
  ASSUME DaemonInv, NEW t \in Threads, ReconcileApply(t), snap[t].active = running
  PROVE  /\ running' => apps' = snap[t].sel
         /\ snap[t].state = "none" => ~running'
  <1> USE DEF ReconcileApply, ApplyNames
  <1>1. CASE snap[t].sel = {} /\ ApplyNames({})
    BY <1>1 DEF SetApps
  <1>2. CASE snap[t].sel # {} /\ snap[t].state = "none" /\ Suspend
    BY <1>2 DEF Suspend
  <1>3. CASE snap[t].sel # {} /\ snap[t].state # "none" /\ ApplyNames(snap[t].sel)
    BY <1>3 DEF SetApps
  <1>4. CASE snap[t].state = "connecting" /\ ~snap[t].active /\ UNCHANGED selVars
    BY <1>4 DEF selVars
  <1> QED
    BY <1>1, <1>2, <1>3, <1>4

LEMMA SettleApply ==
  ASSUME DaemonInv, SettleInv, NEW t \in Workers, ReconcileApply(t)
  PROVE  SettleInv'
  <1> USE DEF DaemonInv, TypeOK, Goto
  <1>1. /\ UNCHANGED <<sel, closing, dev>> /\ pc[t] = "apply"
        /\ \A u \in Threads \ {t} : pc'[u] = pc[u] /\ snap'[u] = snap[u] /\ ret'[u] = ret[u]
    BY DEF ReconcileApply, Unlock, memory
  <1>2. pc'[t] \in {"idle", "reconcile", "supervise"}
    BY DEF ReconcileApply, Unlock, Places, Workers
  <1>3. \A u \in Workers \ {t} : pc[u] \notin {"read", "apply"}
    <2>1. t \in Threads /\ t = applyMu
      BY <1>1 DEF Workers
    <2> QED
      BY <2>1 DEF Workers
  <1>4. \A u \in Closers : pc'[u] = pc[u]
    BY <1>1, DaemonAssumption DEF Workers
  <1>5. ASSUME ~closing PROVE ActiveCurrent' /\ SelectionDue' /\ PauseDue'
    <2>1. ActiveCurrent /\ SelectionDue /\ PauseDue
      BY <1>5 DEF SettleInv
    <2>2. \A u \in Workers : pc'[u] \notin {"read", "apply"}
      BY <1>1, <1>2, <1>3 DEF Workers
    <2>3. (running' => apps' = snap[t].sel) /\ (snap[t].state = "none" => ~running')
      BY <1>1, <2>1, ApplyApplies DEF ActiveCurrent, Workers
    <2>4. ActiveCurrent'
      BY <2>2 DEF ActiveCurrent
    <2>5. \A u \in Workers \ {t} : Calling(u) => Calling(u)'
      BY <1>1 DEF Calling, Workers
    <2>6. SelectionDue'
      <3>1. CASE snap[t].sel = sel
        BY <1>1, <2>2, <2>3, <3>1 DEF SelectionDue
      <3>2. CASE snap[t].sel # sel
        <4>1. PICK u \in Workers : WillApply(u)
          BY <1>1, <2>1 DEF SelectionDue
        <4>2. u # t /\ Calling(u)
          BY <1>1, <1>3, <3>2, <4>1 DEF WillApply, Calling
        <4> QED
          BY <2>5, <4>2 DEF SelectionDue, WillApply
      <3> QED
        BY <3>1, <3>2
    <2>7. PauseDue'
      <3>1. CASE snap[t].state = "none"
        BY <2>2, <2>3, <3>1 DEF PauseDue
      <3>2. CASE dev = "none" /\ snap[t].state # "none"
        <4>1. PICK u \in Workers : WillPause(u)
          BY <1>1, <2>1, <3>2 DEF PauseDue
        <4>2. u # t /\ Calling(u)
          BY <1>1, <1>3, <3>2, <4>1 DEF WillPause, Calling
        <4> QED
          BY <2>5, <4>2 DEF PauseDue, WillPause
      <3> QED
        BY <1>1, <3>1, <3>2 DEF PauseDue
    <2> QED
      BY <2>4, <2>6, <2>7
  <1> QED
    BY <1>1, <1>4, <1>5 DEF SettleInv

LEMMA SettleThread ==
  ASSUME DaemonInv, SettleInv, NEW t \in Workers, ThreadStep(t)
  PROVE  SettleInv'
  <1> USE DEF DaemonInv, TypeOK, Goto, memory, budget, selVars
  <1>1. CASE Persist(t) \/ Save(t) \/ Reconcile(t)
    <2>1. /\ UNCHANGED <<running, apps, sel, closing, dev>>
          /\ \A u \in Threads \ {t} : pc'[u] = pc[u] /\ snap'[u] = snap[u] /\ ret'[u] = ret[u]
      BY <1>1 DEF Persist, Save, Reconcile
    <2>2. CASE Persist(t)
      <3>1. pc[t] = "persist" /\ pc'[t] = "save" /\ ret'[t] = ret[t]
        BY <2>2 DEF Persist, Workers
      <3> QED
        BY <2>1, <3>1, SettleQuiet DEF Calling
    <2>3. CASE Save(t)
      <3>1. pc[t] = "save" /\ pc'[t] = ret[t] /\ ret[t] \notin {"read", "apply"}
        BY <2>3 DEF Save, Workers, Places
      <3> QED
        BY <2>1, <3>1, SettleQuiet DEF Calling
    <2>4. CASE Reconcile(t)
      <3>1. /\ pc[t] = "reconcile" /\ pc'[t] \in {ret[t], "lock"}
            /\ ret[t] \notin {"read", "apply"}
            /\ ~closing => pc'[t] = "lock"
        BY <2>4 DEF Reconcile, Workers, Places
      <3> QED
        BY <2>1, <3>1, SettleQuiet DEF Calling
    <2> QED
      BY <1>1, <2>2, <2>3, <2>4
  <1> QED
    BY <1>1, SettleLockRead, SettleApply DEF ThreadStep

LEMMA SettleClient ==
  ASSUME DaemonInv, SettleInv, NEW c \in Clients,
         ClientCommand(c) \/ ConnectWanted(c) \/ DisconnectClose(c)
  PROVE  SettleInv'
  <1> USE DEF DaemonInv, TypeOK, Goto, Call, Command, memory, selVars
  <1>1. c \in Workers
    BY DEF Workers
  <1>2. /\ UNCHANGED <<running, apps, closing>> /\ pc[c] \in {"idle", "wanted", "close"}
        /\ \A u \in Threads \ {c} : pc'[u] = pc[u] /\ snap'[u] = snap[u] /\ ret'[u] = ret[u]
    <2>1. CASE Connect(c) \/ Disconnect(c) \/ SaveAgain(c)
      BY <2>1 DEF Connect, Disconnect, SaveAgain
    <2>2. ASSUME NEW names \in SUBSET Apps, Select(c, names)
          PROVE  /\ UNCHANGED <<running, apps, closing>> /\ pc[c] = "idle"
                 /\ \A u \in Threads \ {c} : pc'[u] = pc[u] /\ snap'[u] = snap[u] /\ ret'[u] = ret[u]
      BY <2>2 DEF Select
    <2>3. CASE ConnectWanted(c) \/ DisconnectClose(c)
      BY <2>3 DEF ConnectWanted, DisconnectClose
    <2> QED
      BY <2>1, <2>2, <2>3 DEF ClientCommand
  <1>3. ASSUME pc'[c] \in {"wanted", "close", "persist"}, sel' = sel, dev' = "none" => dev = "none"
        PROVE  SettleInv'
    BY <1>1, <1>2, <1>3, SettleQuiet DEF Calling
  <1>4. CASE Connect(c) \/ Disconnect(c)
    <2>1. pc'[c] \in {"wanted", "close"} /\ sel' = sel /\ (dev' = "none" => dev = "none")
      BY <1>4 DEF Connect, Disconnect
    <2> QED
      BY <1>3, <2>1
  <1>5. CASE SaveAgain(c) \/ ConnectWanted(c)
    <2>1. pc'[c] = "persist" /\ sel' = sel /\ dev' = dev
      BY <1>5 DEF SaveAgain, ConnectWanted
    <2> QED
      BY <1>3, <2>1
  <1>6. ASSUME NEW names \in SUBSET Apps, Select(c, names)
        PROVE  SettleInv'
    <2>1. pc'[c] = "persist" /\ ret'[c] = "reconcile"
      BY <1>6 DEF Select
    <2> QED
      BY <1>1, <1>2, <2>1, SettleCaller DEF Calling
  <1>7. CASE DisconnectClose(c)
    <2>1. pc'[c] = "persist" /\ ret'[c] = "reconcile"
      BY <1>7 DEF DisconnectClose
    <2> QED
      BY <1>1, <1>2, <2>1, SettleCaller DEF Calling
  <1> QED
    BY <1>4, <1>5, <1>6, <1>7 DEF ClientCommand

LEMMA SettleWatch ==
  ASSUME DaemonInv, SettleInv, WatchStep
  PROVE  SettleInv'
  <1> USE DEF DaemonInv, TypeOK, Goto, Call, memory, selVars
  <1>1. Watch \in Workers
    BY DEF Workers
  <1>2. ASSUME ~ThreadStep(Watch)
        PROVE  /\ UNCHANGED <<running, apps, sel, closing>>
               /\ \A u \in Threads \ {Watch} :
                     pc'[u] = pc[u] /\ snap'[u] = snap[u] /\ ret'[u] = ret[u]
               /\ pc[Watch] \in {"idle", "see", "retry", "changed", "supervise", "decide",
                                 "giveUp", "rebuild"}
               /\ \/ pc'[Watch] = "reconcile"
                  \/ /\ pc'[Watch] \in {"idle", "see", "retry", "changed", "supervise", "decide",
                                        "giveUp", "rebuild", "exited"}
                     /\ dev' = "none" => dev = "none"
    <2>1. CASE Tick \/ WatchExit \/ See
      BY <2>1 DEF Tick, WatchExit, See
    <2>2. CASE RetryStart \/ RetryNotDue \/ StateChanged
      BY <2>2 DEF RetryStart, RetryNotDue, StateChanged
    <2>3. CASE SuperviseFine \/ SuperviseWait \/ SuperviseDue
      BY <2>3 DEF SuperviseFine, SuperviseWait, SuperviseDue
    <2>4. CASE Decide \/ GiveUp \/ Rebuild
      BY <2>4 DEF Decide, GiveUp, Rebuild
    <2> QED
      BY <1>2, <2>1, <2>2, <2>3, <2>4 DEF WatchStep
  <1>3. CASE ThreadStep(Watch)
    BY <1>1, <1>3, SettleThread
  <1>4. CASE ~ThreadStep(Watch) /\ pc'[Watch] = "reconcile"
    <2>1. Calling(Watch)'
      BY <1>4 DEF Calling
    <2> QED
      BY <1>1, <1>2, <1>4, <2>1, SettleCaller
  <1>5. CASE ~ThreadStep(Watch) /\ pc'[Watch] # "reconcile"
    <2>1. ~Calling(Watch)
      BY <1>2, <1>5 DEF Calling
    <2> QED
      BY <1>1, <1>2, <1>5, <2>1, SettleQuiet
  <1> QED
    BY <1>3, <1>4, <1>5

LEMMA SettleStep == DaemonInv /\ SettleInv /\ [Next]_vars => SettleInv'
  <1> SUFFICES ASSUME DaemonInv, SettleInv, [Next]_vars
               PROVE  SettleInv'
    OBVIOUS
  <1> USE DEF DaemonInv, TypeOK, Goto, memory, control, budget, selVars
  <1>1. ASSUME NEW c \in Clients, ClientCommand(c) \/ ClientStep(c)
        PROVE  SettleInv'
    BY <1>1, SettleClient, SettleThread DEF ClientStep, Workers
  <1>2. CASE WatchStep
    BY <1>2, SettleWatch
  <1>3. ASSUME NEW t \in Closers, CloserStep(t)
        PROVE  SettleInv'
    <2>1. closing'
      BY <1>3 DEF CloserStep, CloseBegin, CloseStop, CloseTunnel, SettleInv
    <2> QED
      BY <2>1 DEF SettleInv
  <1>4. CASE CrashAndRestart
    BY <1>4 DEF CrashAndRestart, Restart, SettleInv, ActiveCurrent, SelectionDue, PauseDue, Workers
  <1>5. ASSUME UNCHANGED <<running, apps, sel, closing, pc, ret, snap>>, dev' = "none" => dev = "none"
        PROVE  SettleInv'
    <2>1. \A t \in Workers : WillApply(t)' = WillApply(t) /\ WillPause(t)' = WillPause(t)
      BY <1>5 DEF WillApply, WillPause, Calling
    <2> QED
      BY <1>5, <2>1 DEF SettleInv, ActiveCurrent, SelectionDue, PauseDue
  <1>6. CASE Handshake \/ HandshakeStale
    BY <1>5, <1>6 DEF Handshake, HandshakeStale
  <1>7. CASE Applications
    BY <1>5, <1>7 DEF Applications, ResetConnections, OpenOutside, CloseOutside
  <1>8. CASE UNCHANGED vars
    BY <1>5, <1>8 DEF vars
  <1> QED
    BY <1>1, <1>2, <1>3, <1>4, <1>6, <1>7, <1>8 DEF Next

(* Once every command has returned and the watch is between two ticks, the *)
(* engine routes nothing but the selection, and nothing without a tunnel:  *)
(* whichever reconciles overlapped, and whatever they had read.            *)
THEOREM SettledSafety == Spec => []SettledSelection
  <1>1. SettleInv => SettledSelection
    BY DEF SettleInv, SettledSelection, Settled, SelectionDue, PauseDue, WillApply, WillPause,
           Calling, Workers
  <1> QED
    BY <1>1, SettleInit, SettleStep, DaemonInvHolds, PTL DEF Spec

=============================================================================
