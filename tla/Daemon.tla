------------------------------ MODULE Daemon ------------------------------
(***************************************************************************)
(* The service engine (internal/daemon/daemon.go) over the tunnel manager  *)
(* (internal/wg/manager.go) and the application selection (Selection).     *)
(*                                                                         *)
(* Threads: one goroutine per IPC connection (Clients), the watch          *)
(* goroutine, and the service's Close.  Fields guarded by Daemon.mu are    *)
(* read and written in one step per critical section; applyMu, which is    *)
(* held across the file write and the engine call, is a variable.          *)
(***************************************************************************)
EXTENDS Selection, Naturals

CONSTANTS Clients,      \* goroutines that serve an IPC connection
          Watch,        \* the goroutine of Daemon.watch
          Closers,      \* the service's stop: a goroutine that calls Close, or none
          Nobody,       \* the holder of a free mutex
          MaxRebuilds,  \* maxRebuildAttempts (6)
          MaxStarts,    \* maxStartAttempts (6)
          MaxOps,       \* bound: commands the clients send
          MaxMishaps    \* bound: stale handshakes, failed starts and saves, kills

ASSUME DaemonAssumption ==
    /\ Clients \cap Closers = {} /\ Watch \notin Clients \cup Closers
    /\ Nobody \notin Clients \cup Closers \cup {Watch}
    /\ MaxRebuilds \in Nat \ {0} /\ MaxStarts \in Nat \ {0}

Threads == Clients \cup Closers \cup {Watch}

VARIABLES
    dev,                  \* what Manager.State reports of Manager.dev
    wanted, sel,          \* tunnelWanted, selApps
    fails, tries,         \* rebuildFails, startTries
    lastState, closing,   \* as in the source; "unknown" is State(-1)
    saved,                \* state.json
    applyMu,              \* its holder, or Nobody
    pc, ret,              \* where each thread is, where its call returns to
    snap,                 \* what the holder of applyMu has read
    seen,                 \* watch: s and wanted of this tick
    down,                 \* watch: downSince is set
    ops, mishaps,         \* spent of MaxOps and MaxMishaps
    saveFailed            \* the last write of state.json failed

memory == <<dev, wanted, sel, fails, tries, lastState, closing>>
control == <<saved, applyMu, pc, ret, snap, seen, down>>
budget == <<ops, mishaps, saveFailed>>
vars == <<selVars, memory, control, budget>>

States == {"none", "connecting", "connected"}  \* Disconnected, Connecting, Connected
Empty == [state |-> "none", sel |-> {}, wanted |-> FALSE, active |-> FALSE]
NoTick == [state |-> "none", wanted |-> FALSE]
Locked == {"save", "read", "apply"}
PCs == Locked \cup
       {"idle", "wanted", "close", "persist", "reconcile", "lock",        \* handlers
        "see", "retry", "changed", "supervise", "decide", "giveUp", "rebuild", "exited",
        "stop", "closeTunnel", "closed"}

(* Types; applyMu is held exactly between its Lock and its Unlock.         *)
TypeOK ==
    /\ SelTypeOK
    /\ dev \in States /\ wanted \in BOOLEAN /\ sel \subseteq Apps
    /\ fails \in 0..MaxRebuilds /\ tries \in 0..MaxStarts
    /\ lastState \in States \cup {"unknown"} /\ closing \in BOOLEAN
    /\ saved \in [wanted : BOOLEAN, sel : SUBSET Apps]
    /\ pc \in [Threads -> PCs] /\ ret \in [Threads -> PCs]
    /\ snap \in [Threads -> [state : States, sel : SUBSET Apps,
                             wanted : BOOLEAN, active : BOOLEAN]]
    /\ seen \in [state : States, wanted : BOOLEAN] /\ down \in BOOLEAN
    /\ {t \in Threads : pc[t] \in Locked} = {applyMu} \ {Nobody}

(* New: the tunnel is resumed if the last session wanted it.               *)
Resume(w) == IF w THEN {"none", "connecting"} ELSE {"none"}

Init ==
    /\ SelInit
    /\ saved \in [wanted : BOOLEAN, sel : SUBSET Apps]
    /\ wanted = saved.wanted /\ sel = saved.sel
    /\ dev \in Resume(saved.wanted)
    /\ fails = 0 /\ tries = 0 /\ lastState = "unknown" /\ closing = FALSE
    /\ applyMu = Nobody
    /\ pc = [t \in Threads |-> "idle"] /\ ret = [t \in Threads |-> "idle"]
    /\ snap = [t \in Threads |-> Empty]
    /\ seen = NoTick /\ down = FALSE
    /\ ops = 0 /\ mishaps = 0 /\ saveFailed = FALSE

Goto(t, l) == pc' = [pc EXCEPT ![t] = l]
Call(t, l, back) == Goto(t, l) /\ ret' = [ret EXCEPT ![t] = back]
Mishap == mishaps < MaxMishaps /\ mishaps' = mishaps + 1

-----------------------------------------------------------------------------
(* The commands.  A Connect or Import whose wg.New fails changes nothing.  *)
Command(c) ==
    /\ pc[c] = "idle" /\ ops < MaxOps /\ ops' = ops + 1
    /\ UNCHANGED <<mishaps, saveFailed>>

Connect(c) ==
    /\ Command(c)
    /\ dev' = "connecting"
    /\ Goto(c, "wanted")
    /\ UNCHANGED <<selVars, wanted, sel, fails, tries, lastState, closing,
                   saved, applyMu, ret, snap, seen, down>>

ConnectWanted(c) ==
    /\ pc[c] = "wanted"
    /\ wanted' = TRUE /\ fails' = 0
    /\ Call(c, "persist", "idle")
    /\ UNCHANGED <<selVars, dev, sel, tries, lastState, closing,
                   saved, applyMu, snap, seen, down, budget>>

Disconnect(c) ==
    /\ Command(c)
    /\ wanted' = FALSE
    /\ Goto(c, "close")
    /\ UNCHANGED <<selVars, dev, sel, fails, tries, lastState, closing,
                   saved, applyMu, ret, snap, seen, down>>

(* MUTANT: Disconnect leaves the reconcile to the watch goroutine.         *)
DisconnectCloseOnly(c) ==
    /\ pc[c] = "close"
    /\ dev' = "none"
    /\ Call(c, "persist", "idle")
    /\ UNCHANGED <<selVars, wanted, sel, fails, tries, lastState, closing,
                   saved, applyMu, snap, seen, down, budget>>

DisconnectClose(c) ==
    /\ pc[c] = "close"
    /\ dev' = "none"
    /\ Call(c, "persist", "reconcile")
    /\ UNCHANGED <<selVars, wanted, sel, fails, tries, lastState, closing,
                   saved, applyMu, snap, seen, down, budget>>

Select(c, names) ==
    /\ Command(c)
    /\ sel' = names
    /\ Call(c, "persist", "reconcile")
    /\ UNCHANGED <<selVars, dev, wanted, fails, tries, lastState, closing,
                   saved, applyMu, snap, seen, down>>

(* Status that learnt a display name, SetAutoUpdate: state is saved again. *)
SaveAgain(c) ==
    /\ Command(c)
    /\ Call(c, "persist", "idle")
    /\ UNCHANGED <<selVars, memory, saved, applyMu, snap, seen, down>>

-----------------------------------------------------------------------------
(* MUTANT: persist reads its snapshot without taking applyMu.              *)
PersistUnserialised(t) ==
    /\ pc[t] = "persist"
    /\ snap' = [snap EXCEPT ![t] = [Empty EXCEPT !.sel = sel, !.wanted = wanted]]
    /\ Goto(t, "save")
    /\ UNCHANGED <<selVars, memory, saved, applyMu, ret, seen, down, budget>>

(* persist: snapshot and write under applyMu.  appstate.Save writes a      *)
(* temporary file and renames it, so a crash leaves the old or the new one.*)
Persist(t) ==
    /\ pc[t] = "persist" /\ applyMu = Nobody
    /\ applyMu' = t
    /\ snap' = [snap EXCEPT ![t] = [Empty EXCEPT !.sel = sel, !.wanted = wanted]]
    /\ Goto(t, "save")
    /\ UNCHANGED <<selVars, memory, saved, ret, seen, down, budget>>

Save(t) ==
    /\ pc[t] = "save"
    /\ \/ /\ saved' = [wanted |-> snap[t].wanted, sel |-> snap[t].sel]
          /\ saveFailed' = FALSE /\ UNCHANGED mishaps
       \/ /\ Mishap
          /\ saveFailed' = TRUE /\ UNCHANGED saved
    /\ applyMu' = Nobody /\ snap' = [snap EXCEPT ![t] = Empty]
    /\ Goto(t, ret[t]) /\ ret' = [ret EXCEPT ![t] = "idle"]
    /\ UNCHANGED <<selVars, memory, seen, down, ops>>

(* reconcile: the closing check, then under applyMu the tunnel's state,    *)
(* the selection and Active(), then the engine call.                       *)
Reconcile(t) ==
    /\ pc[t] = "reconcile"
    /\ IF closing
         THEN Goto(t, ret[t]) /\ ret' = [ret EXCEPT ![t] = "idle"]
         ELSE Goto(t, "lock") /\ UNCHANGED ret
    /\ UNCHANGED <<selVars, memory, saved, applyMu, snap, seen, down, budget>>

ReconcileLock(t) ==
    /\ pc[t] = "lock" /\ applyMu = Nobody
    /\ applyMu' = t
    /\ snap' = [snap EXCEPT ![t].state = dev]
    /\ Goto(t, "read")
    /\ UNCHANGED <<selVars, memory, saved, ret, seen, down, budget>>

ReconcileRead(t) ==
    /\ pc[t] = "read"
    /\ snap' = [snap EXCEPT ![t].sel = sel, ![t].active = running]
    /\ Goto(t, "apply")
    /\ UNCHANGED <<selVars, memory, saved, applyMu, ret, seen, down, budget>>

ApplyNames(names) ==
    \/ SetApps(names, TRUE) /\ UNCHANGED mishaps
    \/ names # {} /\ ~running /\ SetApps(names, FALSE) /\ Mishap

(* MUTANT: the paused branch returns without the Unlock.                   *)
UnlockUnlessPaused(t) ==
    /\ applyMu' = IF snap[t].state = "connecting" /\ ~snap[t].active THEN applyMu ELSE Nobody
    /\ snap' = [snap EXCEPT ![t] = Empty]
    /\ Goto(t, ret[t]) /\ ret' = [ret EXCEPT ![t] = "idle"]

Unlock(t) ==
    /\ applyMu' = Nobody /\ snap' = [snap EXCEPT ![t] = Empty]
    /\ Goto(t, ret[t]) /\ ret' = [ret EXCEPT ![t] = "idle"]

ReconcileApply(t) ==
    /\ pc[t] = "apply"
    /\ LET s == snap[t] IN
       \/ s.sel = {} /\ ApplyNames({})
       \/ s.sel # {} /\ s.state = "none" /\ Suspend /\ UNCHANGED mishaps
       \/ /\ s.sel # {} /\ s.state # "none" /\ (s.state = "connected" \/ s.active)
          /\ ApplyNames(s.sel)
       \/ /\ s.sel # {} /\ s.state = "connecting" /\ ~s.active
          /\ UNCHANGED <<selVars, mishaps>>
    /\ Unlock(t)
    /\ UNCHANGED <<memory, saved, seen, down, ops, saveFailed>>

-----------------------------------------------------------------------------
(* The watch goroutine: one tick reads the state, then d.mu; starts that   *)
(* failed are retried, changes reconciled, and a dead tunnel supervised.   *)
(* A timed-out select may still take a tick after the context is done.     *)
Tick ==
    /\ pc[Watch] = "idle"
    /\ seen' = [seen EXCEPT !.state = dev]
    /\ Goto(Watch, "see")
    /\ UNCHANGED <<selVars, memory, saved, applyMu, ret, snap, down, budget>>

WatchExit ==
    /\ pc[Watch] = "idle" /\ closing
    /\ Goto(Watch, "exited")
    /\ UNCHANGED <<selVars, memory, saved, applyMu, ret, snap, seen, down, budget>>

See ==
    /\ pc[Watch] = "see"
    /\ lastState' = seen.state
    /\ seen' = [seen EXCEPT !.wanted = wanted]
    /\ Goto(Watch, IF seen.state # lastState THEN "changed"
                   ELSE IF seen.state = "connected" /\ ~running THEN "retry"
                   ELSE "supervise")
    /\ UNCHANGED <<selVars, dev, wanted, sel, fails, tries, closing,
                   saved, applyMu, ret, snap, down, budget>>

(* MUTANT: off by one, the last attempt is never made.                     *)
RetryDueButLast == sel # {} /\ tries + 1 < MaxStarts

RetryDue == sel # {} /\ tries < MaxStarts

(* startRetryEvery has passed since the last attempt.                      *)
RetryStart ==
    /\ pc[Watch] = "retry" /\ RetryDue
    /\ tries' = tries + 1
    /\ Call(Watch, "reconcile", "supervise")
    /\ UNCHANGED <<selVars, dev, wanted, sel, fails, lastState, closing,
                   saved, applyMu, snap, seen, down, budget>>

RetryNotDue ==
    /\ pc[Watch] = "retry"
    /\ Goto(Watch, "supervise")
    /\ UNCHANGED <<selVars, memory, saved, applyMu, ret, snap, seen, down, budget>>

StateChanged ==
    /\ pc[Watch] = "changed"
    /\ tries' = 0
    /\ Call(Watch, "reconcile", "supervise")
    /\ UNCHANGED <<selVars, dev, wanted, sel, fails, lastState, closing,
                   saved, applyMu, snap, seen, down, budget>>

NeedsSupervision == seen.wanted /\ seen.state # "connected"

SuperviseFine ==
    /\ pc[Watch] = "supervise" /\ ~NeedsSupervision
    /\ down' = FALSE /\ fails' = 0
    /\ Goto(Watch, "idle") /\ seen' = NoTick
    /\ UNCHANGED <<selVars, dev, wanted, sel, tries, lastState, closing,
                   saved, applyMu, ret, snap, budget>>

GaveUp == fails >= MaxRebuilds

(* Already given up, just noticed, or reconnectAfter has not passed yet.   *)
SuperviseWait ==
    /\ pc[Watch] = "supervise" /\ NeedsSupervision
    /\ down' = (IF GaveUp THEN down ELSE TRUE)
    /\ Goto(Watch, "idle") /\ seen' = NoTick
    /\ UNCHANGED <<selVars, memory, saved, applyMu, ret, snap, budget>>

(* reconnectAfter has passed and the configuration could be read.          *)
SuperviseDue ==
    /\ pc[Watch] = "supervise" /\ NeedsSupervision /\ ~GaveUp /\ down
    /\ Goto(Watch, "decide") /\ seen' = NoTick
    /\ UNCHANGED <<selVars, memory, saved, applyMu, ret, snap, down, budget>>

(* MUTANT: off by one, the last attempt rebuilds as well.                  *)
DecideOnceMore ==
    /\ pc[Watch] = "decide"
    /\ IF ~wanted THEN Goto(Watch, "idle") /\ UNCHANGED fails
       ELSE /\ fails' = fails + 1
            /\ Goto(Watch, IF fails + 1 > MaxRebuilds THEN "giveUp" ELSE "rebuild")
    /\ UNCHANGED <<selVars, dev, wanted, sel, tries, lastState, closing,
                   saved, applyMu, ret, snap, seen, down, budget>>

(* MUTANT: a rebuild is not counted.                                       *)
DecideUncounted ==
    /\ pc[Watch] = "decide"
    /\ IF ~wanted THEN Goto(Watch, "idle")
       ELSE Goto(Watch, IF fails + 1 >= MaxRebuilds THEN "giveUp" ELSE "rebuild")
    /\ UNCHANGED <<selVars, memory, saved, applyMu, ret, snap, seen, down, budget>>

Decide ==
    /\ pc[Watch] = "decide"
    /\ IF ~wanted THEN Goto(Watch, "idle") /\ UNCHANGED fails
       ELSE /\ fails' = fails + 1
            /\ Goto(Watch, IF fails + 1 >= MaxRebuilds THEN "giveUp" ELSE "rebuild")
    /\ UNCHANGED <<selVars, dev, wanted, sel, tries, lastState, closing,
                   saved, applyMu, ret, snap, seen, down, budget>>

GiveUp ==
    /\ pc[Watch] = "giveUp"
    /\ dev' = "none"
    /\ Call(Watch, "reconcile", "idle")
    /\ UNCHANGED <<selVars, wanted, sel, fails, tries, lastState, closing,
                   saved, applyMu, snap, seen, down, budget>>

Rebuild ==
    /\ pc[Watch] = "rebuild"
    /\ dev' \in {"connecting", dev}
    /\ Goto(Watch, "idle")
    /\ UNCHANGED <<selVars, wanted, sel, fails, tries, lastState, closing,
                   saved, applyMu, ret, snap, seen, down, budget>>

-----------------------------------------------------------------------------
(* Close: the closing flag and the context, then Engine.Stop, then the     *)
(* tunnel.                                                                 *)
CloseBegin(t) ==
    /\ pc[t] = "idle"
    /\ closing' = TRUE
    /\ Goto(t, "stop")
    /\ UNCHANGED <<selVars, dev, wanted, sel, fails, tries, lastState,
                   saved, applyMu, ret, snap, seen, down, budget>>

CloseStop(t) ==
    /\ pc[t] = "stop"
    /\ Stop
    /\ Goto(t, "closeTunnel")
    /\ UNCHANGED <<memory, saved, applyMu, ret, snap, seen, down, budget>>

CloseTunnel(t) ==
    /\ pc[t] = "closeTunnel"
    /\ dev' = "none"
    /\ Goto(t, "closed")
    /\ UNCHANGED <<selVars, wanted, sel, fails, tries, lastState, closing,
                   saved, applyMu, ret, snap, seen, down, budget>>

(* The process is killed, or exits after Close, and starts again.          *)
CrashAndRestart ==
    /\ Mishap
    /\ Restart
    /\ wanted' = saved.wanted /\ sel' = saved.sel
    /\ dev' \in Resume(saved.wanted)
    /\ fails' = 0 /\ tries' = 0 /\ lastState' = "unknown" /\ closing' = FALSE
    /\ applyMu' = Nobody
    /\ pc' = [t \in Threads |-> "idle"] /\ ret' = [t \in Threads |-> "idle"]
    /\ snap' = [t \in Threads |-> Empty]
    /\ seen' = NoTick /\ down' = FALSE
    /\ saveFailed' = FALSE
    /\ UNCHANGED <<saved, ops>>

-----------------------------------------------------------------------------
(* The peer answers; the handshake goes stale.                             *)
Handshake ==
    /\ dev = "connecting" /\ dev' = "connected"
    /\ UNCHANGED <<selVars, wanted, sel, fails, tries, lastState, closing, control, budget>>

HandshakeStale ==
    /\ dev = "connected" /\ dev' = "connecting"
    /\ Mishap
    /\ UNCHANGED <<selVars, wanted, sel, fails, tries, lastState, closing, control,
                   ops, saveFailed>>

Applications ==
    /\ \E a \in Apps : ResetConnections(a) \/ OpenOutside(a) \/ CloseOutside(a)
    /\ UNCHANGED <<memory, control, budget>>

-----------------------------------------------------------------------------
ClientCommand(c) ==
    \/ Connect(c) \/ Disconnect(c) \/ SaveAgain(c)
    \/ \E names \in SUBSET Apps : Select(c, names)

ThreadStep(t) ==
    \/ Persist(t) \/ Save(t)
    \/ Reconcile(t) \/ ReconcileLock(t) \/ ReconcileRead(t) \/ ReconcileApply(t)

ClientStep(c) == ConnectWanted(c) \/ DisconnectClose(c) \/ ThreadStep(c)

WatchStep ==
    \/ Tick \/ WatchExit \/ See \/ RetryStart \/ RetryNotDue \/ StateChanged
    \/ SuperviseFine \/ SuperviseWait \/ SuperviseDue
    \/ Decide \/ GiveUp \/ Rebuild \/ ThreadStep(Watch)

CloserStep(t) == CloseBegin(t) \/ CloseStop(t) \/ CloseTunnel(t)

Next ==
    \/ \E c \in Clients : ClientCommand(c) \/ ClientStep(c)
    \/ WatchStep
    \/ \E t \in Closers : CloserStep(t)
    \/ CrashAndRestart
    \/ Handshake \/ HandshakeStale \/ Applications

Spec == Init /\ [][Next]_vars

(* Goroutines run, and time passes: the retry and the rebuild intervals    *)
(* run out in the end.  The peer need not answer.                          *)
Fairness ==
    /\ \A c \in Clients : WF_vars(ClientStep(c))
    /\ WF_vars(WatchStep)
    /\ SF_vars(RetryStart) /\ SF_vars(SuperviseDue)

FairSpec == Spec /\ Fairness

-----------------------------------------------------------------------------
Settled == applyMu = Nobody /\ \A t \in Clients \cup {Watch} : pc[t] = "idle"

(* Once every command has returned and the watch is between two ticks, the *)
(* engine routes nothing but the current selection, and nothing at all     *)
(* without a tunnel: no order of the reconciles leaves a stale one applied.*)
SettledSelection ==
    Settled /\ ~closing =>
        /\ running => apps = sel
        /\ dev = "none" => ~running

(* state.json is what the next start resumes from: when no command is in   *)
(* flight it holds what memory holds, unless the last write failed.        *)
SavedIsCurrent ==
    Settled /\ ~saveFailed => saved = [wanted |-> wanted, sel |-> sel]

(* A tunnel that was given up stays down until the user connects or the    *)
(* service starts again: the shared key is no longer hammered.             *)
GaveUpStaysDown ==
    [][fails >= MaxRebuilds /\ dev = "none" /\ dev' # "none"
         => CrashAndRestart \/ \E c \in Clients : Connect(c)]_vars

(* A wanted tunnel whose peer never answers is closed in the end.          *)
DeadTunnelIsClosed ==
    <>[](wanted /\ dev # "connected" /\ ~closing) => <>[](dev = "none" /\ ~running)

(* A start that failed has used up its attempts, maxStartAttempts (6).     *)
StartExhausted == ~running /\ tries = MaxStarts

(* While the tunnel is up, selected applications are intercepted in the    *)
(* end, although starting may fail and a change may be missed; only a      *)
(* start that failed as often as the watch tries leaves them outside.      *)
InterceptionStarts ==
    <>[](dev = "connected" /\ sel # {} /\ ~closing)
        => <>[](running /\ apps = sel) \/ <>[]StartExhausted

-----------------------------------------------------------------------------
(* daemon.go:485 "user disconnected while we were deciding": a rebuild is  *)
(* not to undo the Disconnect, so an unwanted tunnel is down.              *)
DisconnectHolds == Settled /\ ~wanted => dev = "none"
=============================================================================
