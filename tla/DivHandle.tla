----------------------------- MODULE DivHandle -----------------------------
(***************************************************************************)
(* The life of one divHandle (internal/apptunnel/apptunnel_windows.go):    *)
(* the packet loop that owns the receive side, the goroutines that inject  *)
(* through it, the goroutines that retire it, and the grace timer.         *)
(*                                                                         *)
(* The RWMutex is modelled by its readers and by the goroutines waiting    *)
(* for the write side: as in Go's sync.RWMutex, a waiting writer keeps new *)
(* readers out.  A critical section that makes no blocking call is one     *)
(* step; the one that spans the driver's Send is two.                      *)
(***************************************************************************)
EXTENDS Naturals, FiniteSets

CONSTANTS Senders,  \* goroutines that inject: udpReader, injectUDPReply
          Closers,  \* goroutines that retire the handle: stopLocked, reopen*, udpSupervisor
          Packets,  \* packets of the machine that match the filter
          Loop,     \* the goroutine running divertPackets
          Timer     \* the goroutine time.AfterFunc starts

ASSUME ThreadAssumption ==
    /\ Loop \notin Senders \cup Closers
    /\ Timer \notin Senders \cup Closers
    /\ Loop # Timer
    /\ Senders \cap Closers = {}

Threads == Senders \cup Closers \cup {Loop, Timer}

VARIABLES
    closed, draining,  \* the fields of the struct
    os,                \* the driver's handle: "open", "shut" (ShutdownRecv) or "closed"
    closes,            \* how often h.Close() was called on it
    readers, waiting,  \* the RWMutex: read holders, goroutines asking for the write side
    pc,                \* where each goroutine is
    pkt,               \* what became of each packet
    running,           \* Engine.running, read by the loop
    faults             \* faults outside this code seen so far

vars == <<closed, draining, os, closes, readers, waiting, pc, pkt, running, faults>>

LoopPCs == {"idle", "blocked", "got", "handle", "pass", "sending", "wantFinish", "done"}
SenderPCs == {"idle", "sending"}
CloserPCs == {"idle", "wantClose", "shutdown", "wantFinish", "done"}
TimerPCs == {"idle", "armed", "wantFinish", "done"}
PCs == LoopPCs \cup CloserPCs \cup TimerPCs
PacketStates == {"wire", "queued", "held", "returned", "taken", "direct", "lost"}
Faults == {"panic", "recv", "send", "shutdown"}

(* Types, and the lock's book-keeping: a goroutine holds or waits for the  *)
(* lock exactly in the code between its acquire and its release.           *)
TypeOK ==
    /\ closed \in BOOLEAN /\ draining \in BOOLEAN /\ running \in BOOLEAN
    /\ os \in {"open", "shut", "closed"}
    /\ closes \in Nat
    /\ pc \in [Threads -> PCs]
    /\ \A s \in Senders : pc[s] \in SenderPCs
    /\ \A c \in Closers : pc[c] \in CloserPCs
    /\ pc[Loop] \in LoopPCs /\ pc[Timer] \in TimerPCs
    /\ pkt \in [Packets -> PacketStates]
    /\ faults \subseteq Faults
    /\ readers = {t \in Threads : pc[t] = "sending"}
    /\ waiting = {t \in Threads : pc[t] \in {"wantClose", "wantFinish"}}

Init ==
    /\ closed = FALSE /\ draining = FALSE /\ running = TRUE
    /\ os = "open" /\ closes = 0
    /\ readers = {} /\ waiting = {}
    /\ pc = [t \in Threads |-> "idle"]
    /\ pkt = [p \in Packets |-> "wire"]
    /\ faults = {}

Goto(t, l) == pc' = [pc EXCEPT ![t] = l]
Move(from, to) == \E p \in Packets : pkt[p] = from /\ pkt' = [pkt EXCEPT ![p] = to]
CanRLock == waiting = {}
CanLock == readers = {}
Retiring == closed \/ draining

-----------------------------------------------------------------------------
(* The driver: an open handle takes matching packets out of the stack; one *)
(* that is shut or closed lets them through.                               *)
Divert ==
    /\ IF os = "open" THEN Move("wire", "queued") ELSE Move("wire", "direct")
    /\ UNCHANGED <<closed, draining, os, closes, readers, waiting, pc, running, faults>>

(* stopLocked clears Engine.running before it retires the handle.          *)
EngineStops ==
    /\ running /\ running' = FALSE
    /\ UNCHANGED <<closed, draining, os, closes, readers, waiting, pc, pkt, faults>>

-----------------------------------------------------------------------------
(* MUTANT: send tests closed without taking the read lock.                 *)
RLockForSendUnlocked(t) ==
    /\ ~closed
    /\ Goto(t, "sending") /\ UNCHANGED readers

(* send: the read lock is held across the driver call.                     *)
RLockForSend(t) ==
    /\ CanRLock /\ ~closed
    /\ readers' = readers \cup {t}
    /\ Goto(t, "sending")

SendBegin(s) ==
    /\ pc[s] = "idle"
    /\ RLockForSend(s)
    /\ UNCHANGED <<closed, draining, os, closes, waiting, pkt, running, faults>>

SendEnd(s) ==
    /\ pc[s] = "sending"
    /\ readers' = readers \ {s}
    /\ Goto(s, "idle")
    /\ UNCHANGED <<closed, draining, os, closes, waiting, pkt, running, faults>>

-----------------------------------------------------------------------------
(* recv: the handle is copied under the read lock, the receive runs        *)
(* outside it.                                                             *)
RecvCall ==
    /\ pc[Loop] = "idle" /\ CanRLock
    /\ IF closed
         THEN Goto(Loop, "wantFinish") /\ waiting' = waiting \cup {Loop}
         ELSE Goto(Loop, "blocked") /\ UNCHANGED waiting
    /\ UNCHANGED <<closed, draining, os, closes, readers, pkt, running, faults>>

RecvPacket ==
    /\ pc[Loop] = "blocked" /\ os # "closed"
    /\ Move("queued", "held")
    /\ Goto(Loop, "got")
    /\ UNCHANGED <<closed, draining, os, closes, readers, waiting, running, faults>>

(* Recv fails: the queue of a shut handle is empty, the handle was closed  *)
(* under the receive, or the driver failed for a reason of its own.        *)
RecvError(fault) ==
    /\ pc[Loop] = "blocked"
    /\ \/ os = "shut" /\ (\A p \in Packets : pkt[p] # "queued") /\ fault = {}
       \/ os = "closed" /\ fault = {}
       \/ os # "closed" /\ fault = {"recv"}
    /\ faults' = faults \cup fault
    /\ Goto(Loop, "wantFinish")
    /\ waiting' = waiting \cup {Loop}
    /\ UNCHANGED <<closed, draining, os, closes, readers, pkt, running>>

(* The tail of a retiring queue, once the engine has stopped, is handed    *)
(* back untouched; everything else goes through handlePacket.              *)
Dispatch ==
    /\ pc[Loop] = "got" /\ CanRLock
    /\ Goto(Loop, IF Retiring /\ ~running THEN "pass" ELSE "handle")
    /\ UNCHANGED <<closed, draining, os, closes, readers, waiting, pkt, running, faults>>

HandlePacket ==
    /\ pc[Loop] = "handle"
    /\ \/ Goto(Loop, "pass") /\ UNCHANGED pkt
       \/ Goto(Loop, "idle") /\ Move("held", "taken")
    /\ UNCHANGED <<closed, draining, os, closes, readers, waiting, running, faults>>

(* MUTANT: the recover logs and returns, leaving the handle open.          *)
HandlePanicNoFinish ==
    /\ pc[Loop] = "handle"
    /\ Move("held", "lost")
    /\ faults' = faults \cup {"panic"}
    /\ Goto(Loop, "done")
    /\ UNCHANGED <<closed, draining, os, closes, readers, waiting, running>>

(* The deferred recover of divertPackets: the handle is closed with its    *)
(* reader, and the packet in hand goes with it.                            *)
HandlePanic ==
    /\ pc[Loop] = "handle"
    /\ Move("held", "lost")
    /\ faults' = faults \cup {"panic"}
    /\ Goto(Loop, "wantFinish")
    /\ waiting' = waiting \cup {Loop}
    /\ UNCHANGED <<closed, draining, os, closes, readers, running>>

LoopSend ==
    /\ pc[Loop] = "pass"
    /\ \/ RLockForSend(Loop) /\ UNCHANGED pkt
       \/ /\ CanRLock /\ closed
          /\ Move("held", "lost")
          /\ Goto(Loop, "idle") /\ UNCHANGED readers
    /\ UNCHANGED <<closed, draining, os, closes, waiting, running, faults>>

LoopSendEnd ==
    /\ pc[Loop] = "sending"
    /\ \/ Move("held", "returned") /\ UNCHANGED faults
       \/ Move("held", "lost") /\ faults' = faults \cup {"send"}
    /\ readers' = readers \ {Loop}
    /\ Goto(Loop, "idle")
    /\ UNCHANGED <<closed, draining, os, closes, waiting, running>>

-----------------------------------------------------------------------------
(* close: mark the handle as draining under the lock, tell the driver to   *)
(* stop diverting outside it, and leave the close to the loop or the timer.*)
CloseCall(c) ==
    /\ pc[c] = "idle"
    /\ Goto(c, "wantClose")
    /\ waiting' = waiting \cup {c}
    /\ UNCHANGED <<closed, draining, os, closes, readers, pkt, running, faults>>

(* MUTANT: the early return forgets the Unlock.                            *)
CloseLockedNoUnlock(c) ==
    /\ pc[c] = "wantClose" /\ CanLock
    /\ IF Retiring
         THEN Goto(c, "done") /\ UNCHANGED <<draining, waiting>>
         ELSE Goto(c, "shutdown") /\ draining' = TRUE /\ waiting' = waiting \ {c}
    /\ UNCHANGED <<closed, os, closes, readers, pkt, running, faults>>

(* MUTANT: close closes outright, without draining.                        *)
CloseLockedOutright(c) ==
    /\ pc[c] = "wantClose" /\ CanLock
    /\ IF Retiring
         THEN Goto(c, "done") /\ UNCHANGED draining /\ waiting' = waiting \ {c}
         ELSE Goto(c, "wantFinish") /\ draining' = TRUE /\ UNCHANGED waiting
    /\ UNCHANGED <<closed, os, closes, readers, pkt, running, faults>>

CloseLocked(c) ==
    /\ pc[c] = "wantClose" /\ CanLock
    /\ waiting' = waiting \ {c}
    /\ IF Retiring
         THEN Goto(c, "done") /\ UNCHANGED draining
         ELSE Goto(c, "shutdown") /\ draining' = TRUE
    /\ UNCHANGED <<closed, os, closes, readers, pkt, running, faults>>

(* MUTANT: no grace timer is armed.                                        *)
ShutdownOkNoTimer(c) ==
    /\ pc[c] = "shutdown" /\ os = "open"
    /\ os' = "shut"
    /\ Goto(c, "done")
    /\ UNCHANGED <<closed, draining, closes, readers, waiting, pkt, running, faults>>

ShutdownOk(c) ==
    /\ pc[c] = "shutdown" /\ os = "open"
    /\ os' = "shut"
    /\ pc' = [pc EXCEPT ![c] = "done", ![Timer] = "armed"]
    /\ UNCHANGED <<closed, draining, closes, readers, waiting, pkt, running, faults>>

(* Shutdown fails, also because the loop closed the handle meanwhile.      *)
ShutdownErr(c) ==
    /\ pc[c] = "shutdown"
    /\ faults' = IF os = "closed" THEN faults ELSE faults \cup {"shutdown"}
    /\ Goto(c, "wantFinish")
    /\ waiting' = waiting \cup {c}
    /\ UNCHANGED <<closed, draining, os, closes, readers, pkt, running>>

TimerFires ==
    /\ pc[Timer] = "armed"
    /\ Goto(Timer, "wantFinish")
    /\ waiting' = waiting \cup {Timer}
    /\ UNCHANGED <<closed, draining, os, closes, readers, pkt, running, faults>>

(* finish: whatever is still queued when the driver's handle closes is     *)
(* discarded by the driver.                                                *)
Finish(t) ==
    /\ pc[t] = "wantFinish" /\ CanLock
    /\ waiting' = waiting \ {t}
    /\ Goto(t, "done")
    /\ IF closed
         THEN UNCHANGED <<closed, os, closes, pkt>>
         ELSE /\ closed' = TRUE
              /\ os' = "closed"
              /\ closes' = closes + 1
              /\ pkt' = [p \in Packets |-> IF pkt[p] = "queued" THEN "lost" ELSE pkt[p]]
    /\ UNCHANGED <<draining, readers, running, faults>>

-----------------------------------------------------------------------------
LoopStep ==
    \/ RecvCall \/ RecvPacket \/ \E f \in {{}, {"recv"}} : RecvError(f)
    \/ Dispatch \/ HandlePacket \/ HandlePanic \/ LoopSend \/ LoopSendEnd

CloserStep(c) == CloseCall(c) \/ CloseLocked(c) \/ ShutdownOk(c) \/ ShutdownErr(c)

Next ==
    \/ Divert \/ EngineStops
    \/ \E s \in Senders : SendBegin(s) \/ SendEnd(s)
    \/ LoopStep
    \/ \E c \in Closers : CloserStep(c)
    \/ TimerFires
    \/ \E t \in Threads \ Senders : Finish(t)

Spec == Init /\ [][Next]_vars

(* The scheduler runs a goroutine that can run: driver calls return, the   *)
(* lock is granted, the timer fires.  A goroutine that called close goes   *)
(* on; nobody has to call it.                                              *)
CloseFairness ==
    /\ \A s \in Senders : WF_vars(SendEnd(s))
    /\ WF_vars(LoopSendEnd)
    /\ \A c \in Closers : WF_vars(CloseLocked(c) \/ ShutdownOk(c) \/ ShutdownErr(c))
    /\ WF_vars(TimerFires)
    /\ \A t \in Threads \ Senders : WF_vars(Finish(t))

(* The handler may be wedged: nothing is asked of the loop.                *)
FairSpec == Spec /\ CloseFairness

-----------------------------------------------------------------------------
(* No injection runs on a driver handle that was already closed: Windows   *)
(* reuses handle values, so the write could land on an unrelated object.   *)
NoSendAfterClose == \A t \in Threads : pc[t] = "sending" => os # "closed"

(* The loop, the grace timer, a failed Shutdown and a panic all race to    *)
(* finish the handle: the driver's Close runs at most once.                *)
ClosedOnce == closes <= 1

(* The handle never outlives its reader: once the loop has returned, for   *)
(* whatever reason, the driver no longer takes packets out of the stack.   *)
HandleDiesWithReader == pc[Loop] = "done" => os = "closed"

(* An orderly retirement loses nothing: a packet the driver took out is    *)
(* lost only after the grace period ran out on a loop that is behind, or a *)
(* fault (a panic, a failed receive, send or Shutdown).                   *)
DrainLosesNothing ==
    (\E p \in Packets : pkt[p] = "lost") =>
        faults # {} \/ pc[Timer] \in {"wantFinish", "done"}

(* A retired handle is closed in the end even if its loop is wedged in the *)
(* handler: a reader that is gone cannot leak it.                          *)
RetiredIsClosed == draining ~> os = "closed"

=============================================================================
