------------------------------- MODULE Engine -------------------------------
(***************************************************************************)
(* Starting, stopping and restarting interception                          *)
(* (internal/apptunnel/apptunnel_windows.go): start and stopLocked, which  *)
(* opMu serialises, against the goroutines of every run the engine has     *)
(* had: the packet loops, the UDP supervisor, which rebuilds the UDP       *)
(* capture, and the sweeper, which reopens captures whose loop ended.      *)
(*                                                                         *)
(* A step is a critical section of Engine.mu, or one operation on an       *)
(* atomic pointer or a handle.  A handle is referred to by one variable at *)
(* a time and is the value of that variable: is it open, or has its loop   *)
(* closed it, and which panic, if any, ended the loop.  panicH names the   *)
(* handle by that panic.  live counts, at the driver, the handles that     *)
(* take packets and were not closed, whoever refers to them.               *)
(***************************************************************************)
EXTENDS Naturals, FiniteSets

CONSTANTS Filters,    \* UDP capture filters the routed ports may call for
          MaxGen,     \* bound: runs of the engine
          MaxFaults,  \* bound: opens and receives that fail, loops that panic
          None

ASSUME BoundAssumption == {MaxGen, MaxFaults} \subseteq Nat /\ None \notin Filters

Kinds == {"tcp", "udp", "sock"}
Revived == {"tcp", "sock"}
Gens == 1..MaxGen

VARIABLES
    running, gen, listener,  \* fields under Engine.mu; is the redirect port bound
    inst,        \* per kind, the installed handle: tcpH, udpH, sockH
    instGen,     \* the run whose goroutine installed it
    panicH,      \* per kind, the last panic of a loop, 0 when nil
    udpStopped,  \* under udpMu: no UDP flow may be built
    live,        \* per kind, handles the driver diverts packets to
    retired,     \* per kind, was a handle closed whose loop may still drain it
    op,          \* the operation holding opMu and the handles it holds
    sup, swp,    \* per run, udpSupervisor and udpSweeper
    faults       \* how many so far

runVars == <<running, gen, listener>>
instVars == <<inst, instGen>>
driverVars == <<live, retired>>
vars == <<runVars, instVars, panicH, udpStopped, driverVars, op, sup, swp, faults>>

Handle == [st : {"none", "open", "dead"}, panic : 0..MaxFaults]
Nil == [st |-> "none", panic |-> 0]
Fresh == [st |-> "open", panic |-> 0]
NoHandles == [k \in Kinds |-> Nil]
Idle == [pc |-> "idle", held |-> NoHandles]
SupOff == [pc |-> "off", nh |-> Nil, want |-> None, cur |-> None]
SwpOff == [pc |-> "off", nh |-> Nil, todo |-> {}]

(* Where the operation and the goroutines may be, and what they carry.     *)
Ops == [pc : {"idle", "listen", "openSock", "openTcp", "install",
              "stop", "stopTcp", "stopUdp", "stopRest"},
        held : [Kinds -> Handle]]
Sups == [pc : {"off", "top", "suspect", "teardown", "mark", "decide",
               "drop", "open", "install"},
         nh : Handle, want : Filters \cup {None}, cur : Filters \cup {None}]
Swps == [pc : {"off", "check", "open", "install"}, nh : Handle, todo : SUBSET Revived]

TypeOK ==
    /\ running \in BOOLEAN /\ listener \in BOOLEAN /\ udpStopped \in BOOLEAN
    /\ gen \in 0..MaxGen
    /\ inst \in [Kinds -> Handle] /\ instGen \in [Kinds -> 0..MaxGen]
    /\ panicH \in [Kinds -> 0..MaxFaults]
    /\ live \in [Kinds -> Nat] /\ retired \in [Kinds -> BOOLEAN]
    /\ op \in Ops
    /\ sup \in [Gens -> Sups] /\ swp \in [Gens -> Swps]
    /\ faults \in 0..MaxFaults

Init ==
    /\ running = FALSE /\ gen = 0 /\ listener = FALSE
    /\ inst = NoHandles /\ instGen = [k \in Kinds |-> 0]
    /\ panicH = [k \in Kinds |-> 0] /\ udpStopped = FALSE
    /\ live = [k \in Kinds |-> 0] /\ retired = [k \in Kinds |-> FALSE]
    /\ op = Idle
    /\ sup = [g \in Gens |-> SupOff] /\ swp = [g \in Gens |-> SwpOff]
    /\ faults = 0

-----------------------------------------------------------------------------
Current(g) == running /\ gen = g

(* h == panicH[k]                                                          *)
Named(k, h) == h.panic # 0 /\ h.panic = panicH[k]

Fault == faults < MaxFaults /\ faults' = faults + 1

(* windivert.Open, with the packet loop started on the new handle.         *)
Open(k) ==
    /\ live' = [live EXCEPT ![k] = @ + 1]
    /\ UNCHANGED <<retired, faults>>

OpenFails == Fault /\ UNCHANGED driverVars

(* MUTANT: close does not see that the loop closed the handle already.     *)
CloseTwice(k, h) ==
    IF h # Nil
      THEN /\ live' = [live EXCEPT ![k] = @ - 1]
           /\ retired' = [retired EXCEPT ![k] = TRUE]
      ELSE UNCHANGED driverVars

(* divHandle.close of handle h: nothing on one that was closed before.     *)
Close(k, h) ==
    IF h.st = "open"
      THEN /\ live' = [live EXCEPT ![k] = @ - 1]
           /\ retired' = [retired EXCEPT ![k] = TRUE]
      ELSE UNCHANGED driverVars

Install(k, h, g) ==
    /\ inst' = [inst EXCEPT ![k] = h]
    /\ instGen' = [instGen EXCEPT ![k] = IF h = Nil THEN 0 ELSE g]

-----------------------------------------------------------------------------
(* The operations that hold opMu: SetApps calls start with apps to route   *)
(* and stopLocked without, Suspend and Stop call stopLocked.               *)
OpStarts ==
    /\ op.pc = "idle" /\ ~running /\ gen < MaxGen
    /\ op' = [op EXCEPT !.pc = "listen"]
    /\ UNCHANGED <<runVars, instVars, panicH, udpStopped, driverVars, sup, swp, faults>>

OpStops ==
    /\ op.pc = "idle" /\ running
    /\ op' = [op EXCEPT !.pc = "stop"]
    /\ UNCHANGED <<runVars, instVars, panicH, udpStopped, driverVars, sup, swp, faults>>

-----------------------------------------------------------------------------
(* start: listen and clear what the last run left, then open the socket    *)
(* events, then the TCP capture; a failure undoes what was opened.         *)
StartGivesUp == op' = Idle /\ listener' = FALSE

StartListen ==
    /\ op.pc = "listen"
    /\ \/ OpenFails /\ StartGivesUp /\ UNCHANGED <<panicH, udpStopped>>
       \/ /\ listener' = TRUE
          /\ udpStopped' = FALSE /\ panicH' = [k \in Kinds |-> 0]
          /\ op' = [op EXCEPT !.pc = "openSock"]
          /\ UNCHANGED <<driverVars, faults>>
    /\ UNCHANGED <<running, gen, instVars, sup, swp>>

StartOpenSock ==
    /\ op.pc = "openSock"
    /\ \/ OpenFails /\ StartGivesUp
       \/ /\ Open("sock")
          /\ op' = [op EXCEPT !.pc = "openTcp", !.held["sock"] = Fresh]
          /\ UNCHANGED listener
    /\ UNCHANGED <<running, gen, instVars, panicH, udpStopped, sup, swp>>

StartOpenTcp ==
    /\ op.pc = "openTcp"
    /\ \/ Fault /\ Close("sock", op.held["sock"]) /\ StartGivesUp
       \/ /\ Open("tcp")
          /\ op' = [op EXCEPT !.pc = "install", !.held["tcp"] = Fresh]
          /\ UNCHANGED listener
    /\ UNCHANGED <<running, gen, instVars, panicH, udpStopped, sup, swp>>

StartInstall ==
    /\ op.pc = "install"
    /\ gen' = gen + 1 /\ running' = TRUE
    /\ inst' = [op.held EXCEPT !["udp"] = inst["udp"]]
    /\ instGen' = [instGen EXCEPT !["tcp"] = gen + 1, !["sock"] = gen + 1]
    /\ sup' = [sup EXCEPT ![gen + 1].pc = "top"]
    /\ swp' = [swp EXCEPT ![gen + 1].pc = "check"]
    /\ op' = Idle
    /\ UNCHANGED <<listener, panicH, udpStopped, driverVars, faults>>

-----------------------------------------------------------------------------
(* stopLocked.                                                             *)
StopBegin ==
    /\ op.pc = "stop"
    /\ running' = FALSE
    /\ op' = [pc |-> "stopTcp", held |-> [inst EXCEPT !["udp"] = Nil]]
    /\ inst' = [NoHandles EXCEPT !["udp"] = inst["udp"]]
    /\ instGen' = [instGen EXCEPT !["tcp"] = 0, !["sock"] = 0]
    /\ UNCHANGED <<gen, listener, panicH, udpStopped, driverVars, sup, swp, faults>>

StopTcp ==
    /\ op.pc = "stopTcp"
    /\ Close("tcp", op.held["tcp"])
    /\ op' = [op EXCEPT !.pc = "stopUdp", !.held["tcp"] = Nil]
    /\ UNCHANGED <<runVars, instVars, panicH, udpStopped, sup, swp, faults>>

StopUdp ==
    /\ op.pc = "stopUdp"
    /\ Install("udp", Nil, gen) /\ Close("udp", inst["udp"])
    /\ op' = [op EXCEPT !.pc = "stopRest"]
    /\ UNCHANGED <<runVars, panicH, udpStopped, sup, swp, faults>>

StopRest ==
    /\ op.pc = "stopRest"
    /\ Close("sock", op.held["sock"])
    /\ listener' = FALSE /\ udpStopped' = TRUE
    /\ op' = Idle
    /\ UNCHANGED <<running, gen, instVars, panicH, sup, swp, faults>>

-----------------------------------------------------------------------------
(* What a packet loop does to its own handle, whichever variable refers to *)
(* it.  reviveHandles reopens TCP before the socket events.                *)
Reviving(g) == IF "tcp" \in swp[g].todo THEN "tcp" ELSE "sock"

LoopEvent(k, from, to) ==
    \/ inst[k] = from /\ inst' = [inst EXCEPT ![k] = to] /\ UNCHANGED <<op, sup, swp>>
    \/ op.held[k] = from /\ op' = [op EXCEPT !.held[k] = to] /\ UNCHANGED <<inst, sup, swp>>
    \/ \E g \in Gens :
         /\ k = "udp" /\ sup[g].nh = from
         /\ sup' = [sup EXCEPT ![g].nh = to] /\ UNCHANGED <<inst, op, swp>>
    \/ \E g \in Gens :
         /\ k = Reviving(g) /\ swp[g].nh = from
         /\ swp' = [swp EXCEPT ![g].nh = to] /\ UNCHANGED <<inst, op, sup>>

(* The receive fails: the loop finishes the handle and returns.            *)
LoopFails(k) ==
    /\ Fault
    /\ LoopEvent(k, Fresh, [Fresh EXCEPT !.st = "dead"])
    /\ live' = [live EXCEPT ![k] = @ - 1]
    /\ UNCHANGED <<runVars, instGen, panicH, udpStopped, retired>>

(* The handler panics: the handle is stored in panicH, then finished.      *)
LoopPanics(k) ==
    /\ faults < MaxFaults /\ faults' = faults + 1
    /\ LoopEvent(k, Fresh, [Fresh EXCEPT !.panic = faults + 1])
    /\ panicH' = [panicH EXCEPT ![k] = faults + 1]
    /\ UNCHANGED <<runVars, instGen, udpStopped, driverVars>>

PanicFinishes(k) ==
    /\ \E n \in 1..MaxFaults :
         LoopEvent(k, [st |-> "open", panic |-> n], [st |-> "dead", panic |-> n])
    /\ live' = [live EXCEPT ![k] = @ - 1]
    /\ UNCHANGED <<runVars, instGen, panicH, udpStopped, retired, faults>>

(* The loop of a handle closed earlier panics over a packet it hands back. *)
(* When that loop has drained its queue (DivHandle) is left open.          *)
RetiredPanics(k) ==
    /\ retired[k] /\ Fault
    /\ panicH' = [panicH EXCEPT ![k] = faults + 1]
    /\ UNCHANGED <<runVars, instVars, udpStopped, driverVars, op, sup, swp>>

-----------------------------------------------------------------------------
(* udpSupervisor(g): a turn of its loop starts with genOK and the test for *)
(* a panicked capture loop.                                                *)
SupGoto(g, l) == sup' = [sup EXCEPT ![g].pc = l]
SupExit(g) == sup' = [sup EXCEPT ![g] = SupOff]

SupTop(g) ==
    /\ sup[g].pc = "top"
    /\ \/ ~Current(g) /\ SupExit(g)
       \/ Current(g) /\ SupGoto(g, IF Named("udp", inst["udp"]) THEN "suspect" ELSE "decide")
    /\ UNCHANGED <<runVars, instVars, panicH, udpStopped, driverVars, op, swp, faults>>

(* The second look, under mu: has a restart replaced this run's handle?    *)
SupSuspect(g) ==
    /\ sup[g].pc = "suspect"
    /\ \/ ~Current(g) /\ SupExit(g)
       \/ Current(g) /\ SupGoto(g, "teardown")
    /\ UNCHANGED <<runVars, instVars, panicH, udpStopped, driverVars, op, swp, faults>>

SupTeardown(g) ==
    /\ sup[g].pc = "teardown"
    /\ Install("udp", Nil, gen) /\ Close("udp", inst["udp"])
    /\ SupGoto(g, "mark")
    /\ UNCHANGED <<runVars, panicH, udpStopped, op, swp, faults>>

SupMark(g) ==
    /\ sup[g].pc = "mark"
    /\ udpStopped' = TRUE
    /\ SupExit(g)
    /\ UNCHANGED <<runVars, instVars, panicH, driverVars, op, swp, faults>>

(* After the settle pause: which filter do the routed ports call for now,  *)
(* and does the capture need to be rebuilt?                                *)
SupDecide(g) ==
    /\ sup[g].pc = "decide"
    /\ \/ ~Current(g) /\ SupExit(g)
       \/ /\ Current(g)
          /\ \E want \in Filters \cup {None} :
               IF \/ want # sup[g].cur
                  \/ want # None /\ inst["udp"].st # "open"
                 THEN sup' = [sup EXCEPT ![g].pc = IF want = None THEN "drop" ELSE "open",
                                         ![g].want = want]
                 ELSE SupGoto(g, "top")
    /\ UNCHANGED <<runVars, instVars, panicH, udpStopped, driverVars, op, swp, faults>>

(* reopenUDP with no filter.                                               *)
SupDrop(g) ==
    /\ sup[g].pc = "drop"
    /\ IF Current(g)
         THEN /\ Install("udp", Nil, g) /\ Close("udp", inst["udp"])
              /\ sup' = [sup EXCEPT ![g] = [SupOff EXCEPT !.pc = "top"]]
         ELSE SupGoto(g, "top") /\ UNCHANGED <<instVars, driverVars>>
    /\ UNCHANGED <<runVars, panicH, udpStopped, op, swp, faults>>

(* reopenUDP with a filter: open and start the loop, then swap under mu.   *)
SupOpen(g) ==
    /\ sup[g].pc = "open"
    /\ \/ OpenFails /\ sup' = [sup EXCEPT ![g].pc = "top", ![g].want = None]
       \/ Open("udp") /\ sup' = [sup EXCEPT ![g].pc = "install", ![g].nh = Fresh]
    /\ UNCHANGED <<runVars, instVars, panicH, udpStopped, op, swp>>

(* MUTANT: a supervisor that finds itself out of date forgets its handle.  *)
SupInstallLeaks(g) ==
    /\ sup[g].pc = "install"
    /\ IF Current(g)
         THEN /\ Install("udp", sup[g].nh, g) /\ Close("udp", inst["udp"])
              /\ sup' = [sup EXCEPT ![g] = [SupOff EXCEPT !.pc = "top", !.cur = sup[g].want]]
         ELSE /\ UNCHANGED <<instVars, driverVars>>
              /\ sup' = [sup EXCEPT ![g] = [SupOff EXCEPT !.pc = "top", !.cur = sup[g].cur]]
    /\ UNCHANGED <<runVars, panicH, udpStopped, op, swp, faults>>

SupInstall(g) ==
    /\ sup[g].pc = "install"
    /\ IF Current(g)
         THEN /\ Install("udp", sup[g].nh, g) /\ Close("udp", inst["udp"])
              /\ sup' = [sup EXCEPT ![g] = [SupOff EXCEPT !.pc = "top", !.cur = sup[g].want]]
         ELSE /\ Close("udp", sup[g].nh) /\ UNCHANGED instVars
              /\ sup' = [sup EXCEPT ![g] = [SupOff EXCEPT !.pc = "top", !.cur = sup[g].cur]]
    /\ UNCHANGED <<runVars, panicH, udpStopped, op, swp, faults>>

-----------------------------------------------------------------------------
(* udpSweeper(g) calls reviveHandles: which captures have lost their loop  *)
(* to anything but a panic?                                                *)
(* MUTANT: only the TCP capture is looked at.                              *)
DeadTcpOnly == {k \in Revived \ {"sock"} : ~Named(k, inst[k]) /\ inst[k].st # "open"}

DeadCaptures == {k \in Revived : ~Named(k, inst[k]) /\ inst[k].st # "open"}

SwpCheck(g) ==
    /\ swp[g].pc = "check"
    /\ \/ ~Current(g) /\ swp' = [swp EXCEPT ![g] = SwpOff]
       \/ /\ Current(g) /\ DeadCaptures # {}
          /\ swp' = [swp EXCEPT ![g].pc = "open", ![g].todo = DeadCaptures]
    /\ UNCHANGED <<runVars, instVars, panicH, udpStopped, driverVars, op, sup, faults>>

SwpNext(g) ==
    LET rest == swp[g].todo \ {Reviving(g)} IN
    swp' = [swp EXCEPT ![g] =
              [pc |-> IF rest = {} THEN "check" ELSE "open", nh |-> Nil, todo |-> rest]]

(* reopenTCP and reopenSock: open and start the loop, then swap under mu.  *)
SwpOpen(g) ==
    /\ swp[g].pc = "open"
    /\ \/ OpenFails /\ SwpNext(g)
       \/ Open(Reviving(g)) /\ swp' = [swp EXCEPT ![g].pc = "install", ![g].nh = Fresh]
    /\ UNCHANGED <<runVars, instVars, panicH, udpStopped, op, sup>>

(* MUTANT: the swap asks whether the engine runs, not whether this run does. *)
SwpInstallRunning(g) ==
    /\ swp[g].pc = "install"
    /\ SwpNext(g)
    /\ IF running
         THEN Install(Reviving(g), swp[g].nh, g) /\ Close(Reviving(g), inst[Reviving(g)])
         ELSE Close(Reviving(g), swp[g].nh) /\ UNCHANGED instVars
    /\ UNCHANGED <<runVars, panicH, udpStopped, op, sup, faults>>

SwpInstall(g) ==
    /\ swp[g].pc = "install"
    /\ SwpNext(g)
    /\ IF Current(g)
         THEN Install(Reviving(g), swp[g].nh, g) /\ Close(Reviving(g), inst[Reviving(g)])
         ELSE Close(Reviving(g), swp[g].nh) /\ UNCHANGED instVars
    /\ UNCHANGED <<runVars, panicH, udpStopped, op, sup, faults>>

-----------------------------------------------------------------------------
OpStep ==
    \/ StartListen \/ StartOpenSock \/ StartOpenTcp \/ StartInstall
    \/ StopBegin \/ StopTcp \/ StopUdp \/ StopRest

SupStep(g) ==
    \/ SupTop(g) \/ SupSuspect(g) \/ SupTeardown(g) \/ SupMark(g) \/ SupDecide(g)
    \/ SupDrop(g) \/ SupOpen(g) \/ SupInstall(g)

SwpStep(g) == SwpCheck(g) \/ SwpOpen(g) \/ SwpInstall(g)

LoopStep(k) ==
    LoopFails(k) \/ LoopPanics(k) \/ PanicFinishes(k) \/ RetiredPanics(k)

Next ==
    \/ OpStarts \/ OpStops \/ OpStep
    \/ \E k \in Kinds : LoopStep(k)
    \/ \E g \in Gens : SupStep(g) \/ SwpStep(g)

Spec == Init /\ [][Next]_vars

(* Every sweeper keeps running; its ticker is all that a revival needs.    *)
Fairness == \A g \in Gens : WF_vars(SwpStep(g))

FairSpec == Spec /\ Fairness

-----------------------------------------------------------------------------
(* Every handle that takes packets out of the stack is one somebody will   *)
(* close: it is installed, or a start, a stop, a supervisor or a sweeper   *)
(* has it in hand.  No overlap of a restart with the goroutines of the run *)
(* before leaves a capture behind that nobody owns, and a stop leaves      *)
(* neither a capture nor the redirect port taken.                          *)
NoOrphan ==
    /\ \A k \in Kinds :
         live[k] = Cardinality({r \in {"inst", "held"} :
                       (IF r = "inst" THEN inst[k] ELSE op.held[k]).st = "open"})
                 + Cardinality({g \in Gens : k = "udp" /\ sup[g].nh.st = "open"})
                 + Cardinality({g \in Gens : k = Reviving(g) /\ swp[g].nh.st = "open"})
    /\ op.pc = "idle" /\ ~running => inst = NoHandles /\ ~listener

(* What is installed was installed by the current run: a goroutine that a  *)
(* restart left behind installs nothing in the new run.                    *)
OldRunInstallsNothing == \A k \in Kinds : inst[k] # Nil => instGen[k] = gen

(* A capture whose loop panicked is not reopened in that run, even when    *)
(* the panic comes after reviveHandles has looked at the others: the       *)
(* comment at :288 says so.  panicH has room for one panic of a kind, and  *)
(* the loop of a handle retired before may panic over its last packets;    *)
(* nothing else than such a later panic lets the panicked capture back.    *)
PanickedStaysOut ==
    [][\A k \in Revived :
          inst[k].panic # 0 /\ inst'[k].panic # inst[k].panic
            => inst'[k] = Nil \/ panicH[k] > inst[k].panic]_vars

(* A capture that lost its loop to anything but a panic is reopened while  *)
(* the run lasts, whatever panicH says; one whose loop panicked is not.    *)
DeadCaptureRevived ==
    /\ \A k \in Revived :
           (running /\ inst[k].panic = 0 /\ inst[k].st # "open")
           ~> (~running \/ inst[k].panic # 0 \/ inst[k].st = "open")
    /\ PanickedStaysOut
=============================================================================
