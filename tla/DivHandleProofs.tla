-------------------------- MODULE DivHandleProofs --------------------------
(* Safety of one divHandle for any number of injecting goroutines, of      *)
(* goroutines that retire it, and of packets.                              *)
EXTENDS DivHandle, TLAPS

(* The struct's flag and the driver's handle agree outside the lock, and   *)
(* the write lock excludes an injection under way.                         *)
Handle ==
    /\ closed <=> os = "closed"
    /\ closes = IF closed THEN 1 ELSE 0
    /\ \A t \in Threads : pc[t] = "sending" => ~closed
    /\ pc[Loop] = "done" => closed

(* Only the goroutine that set draining goes on to Shutdown, and the timer *)
(* is armed by it alone.                                                   *)
Once ==
    /\ ~draining => pc[Timer] = "idle" /\ \A c \in Closers : pc[c] # "shutdown"
    /\ \A c \in Closers : pc[c] = "shutdown" => pc[Timer] = "idle"
    /\ \A c, d \in Closers : pc[c] = "shutdown" /\ pc[d] = "shutdown" => c = d

SafeInv == TypeOK /\ Once /\ Handle

LEMMA SafeInit == Init => SafeInv
<1> SUFFICES ASSUME Init PROVE SafeInv
    OBVIOUS
<1>1. TypeOK
  BY ThreadAssumption DEF Init, TypeOK, Threads, PCs, LoopPCs, SenderPCs, CloserPCs, TimerPCs,
        PacketStates
<1>2. Handle
  BY DEF Init, Handle, Threads
<1>3. Once
  BY DEF Init, Once, Threads
<1> QED BY <1>1, <1>2, <1>3 DEF SafeInv

(* One goroutine moving between program points moves itself, and nobody    *)
(* else, in and out of the set of those that wait for the lock, and of the *)
(* set of those that hold its read side.                                   *)
LEMMA LockBooks ==
    ASSUME NEW f \in [Threads -> PCs], NEW t \in Threads, NEW l \in PCs, NEW S
    PROVE  {u \in Threads : [f EXCEPT ![t] = l][u] \in S} =
             IF l \in S THEN {u \in Threads : f[u] \in S} \cup {t}
                        ELSE {u \in Threads : f[u] \in S} \ {t}
<1> DEFINE g == [f EXCEPT ![t] = l]
<1>1. \A u \in Threads : g[u] = IF u = t THEN l ELSE f[u]
  OBVIOUS
<1> HIDE DEF g
<1>2. {u \in Threads : g[u] \in S} =
        IF l \in S THEN {u \in Threads : f[u] \in S} \cup {t}
                   ELSE {u \in Threads : f[u] \in S} \ {t}
  BY <1>1
<1> QED BY <1>2 DEF g

(* Every step keeps the types and the lock's book-keeping.                 *)
LEMMA TypeStep == TypeOK /\ Once /\ [Next]_vars => TypeOK'
<1> SUFFICES ASSUME TypeOK, Once, [Next]_vars PROVE TypeOK'
    OBVIOUS
<1> USE ThreadAssumption DEF TypeOK, Threads, PCs, LoopPCs, SenderPCs, CloserPCs, TimerPCs,
        PacketStates, Faults, Goto, Move
<1>1. CASE Divert
  BY <1>1 DEF Divert
<1>2. CASE EngineStops
  BY <1>2 DEF EngineStops
<1>3. ASSUME NEW s \in Senders, SendBegin(s) PROVE TypeOK'
  BY <1>3 DEF SendBegin, RLockForSend
<1>4. ASSUME NEW s \in Senders, SendEnd(s) PROVE TypeOK'
  BY <1>4 DEF SendEnd
<1>5. CASE LoopStep
  <2>1. CASE RecvCall
    BY <2>1 DEF RecvCall
  <2>2. CASE RecvPacket
    BY <2>2 DEF RecvPacket
  <2>3. ASSUME NEW f \in {{}, {"recv"}}, RecvError(f) PROVE TypeOK'
    BY <2>3 DEF RecvError
  <2>4. CASE Dispatch
    BY <2>4 DEF Dispatch
  <2>5. CASE HandlePacket
    BY <2>5 DEF HandlePacket
  <2>6. CASE HandlePanic
    BY <2>6 DEF HandlePanic
  <2>7. CASE LoopSend
    BY <2>7 DEF LoopSend, RLockForSend, CanRLock
  <2>8. CASE LoopSendEnd
    BY <2>8 DEF LoopSendEnd
  <2> QED BY <1>5, <2>1, <2>2, <2>3, <2>4, <2>5, <2>6, <2>7, <2>8 DEF LoopStep
<1>6. ASSUME NEW c \in Closers, CloserStep(c) PROVE TypeOK'
  <2>1. CASE CloseCall(c)
    <3>1. waiting' = {t \in Threads : pc'[t] \in {"wantClose", "wantFinish"}}
      BY <2>1, LockBooks DEF CloseCall
    <3>2. readers' = {t \in Threads : pc'[t] = "sending"}
      BY <2>1 DEF CloseCall
    <3> QED BY <2>1, <3>1, <3>2 DEF CloseCall
  <2>2. CASE CloseLocked(c)
    <3>1. PICK l \in {"done", "shutdown"} : pc' = [pc EXCEPT ![c] = l]
      BY <2>2 DEF CloseLocked
    <3>2. waiting' = {t \in Threads : pc'[t] \in {"wantClose", "wantFinish"}}
      BY <2>2, <3>1, LockBooks DEF CloseLocked
    <3>3. readers' = {t \in Threads : pc'[t] = "sending"}
      BY <2>2, <3>1 DEF CloseLocked
    <3>4. pc' \in [Threads -> PCs] /\ draining' \in BOOLEAN
      BY <2>2, <3>1 DEF CloseLocked
    <3>5. /\ \A s \in Senders : pc'[s] \in SenderPCs
          /\ \A d \in Closers : pc'[d] \in CloserPCs
          /\ pc'[Loop] \in LoopPCs /\ pc'[Timer] \in TimerPCs
      BY <3>1
    <3>6. UNCHANGED <<closed, os, closes, pkt, running, faults>>
      BY <2>2 DEF CloseLocked
    <3> HIDE DEF Goto, Move, Threads, PCs, LoopPCs, SenderPCs, CloserPCs, TimerPCs, PacketStates
    <3> QED BY <3>2, <3>3, <3>4, <3>5, <3>6
  <2>3. CASE ShutdownOk(c)
    <3>1. \A t \in Threads : pc'[t] = IF t = Timer THEN "armed" ELSE IF t = c THEN "done" ELSE pc[t]
      BY <2>3 DEF ShutdownOk
    <3>2. pc' \in [Threads -> PCs] /\ pc[c] = "shutdown"
      BY <2>3 DEF ShutdownOk
    <3>3. waiting' = {t \in Threads : pc'[t] \in {"wantClose", "wantFinish"}}
      <4>1. pc[Timer] = "idle"
        BY <3>2 DEF Once
      <4> QED BY <2>3, <3>1, <3>2, <4>1 DEF ShutdownOk
    <3>4. readers' = {t \in Threads : pc'[t] = "sending"}
      BY <2>3, <3>1, <3>2 DEF ShutdownOk
    <3>5. /\ \A s \in Senders : pc'[s] \in SenderPCs
          /\ \A d \in Closers : pc'[d] \in CloserPCs
          /\ pc'[Loop] \in LoopPCs /\ pc'[Timer] \in TimerPCs
      BY <3>1
    <3> QED BY <2>3, <3>2, <3>3, <3>4, <3>5 DEF ShutdownOk
  <2>4. CASE ShutdownErr(c)
    BY <2>4 DEF ShutdownErr
  <2> QED BY <1>6, <2>1, <2>2, <2>3, <2>4 DEF CloserStep
<1>7. CASE TimerFires
  BY <1>7 DEF TimerFires
<1>8. ASSUME NEW t \in Threads \ Senders, Finish(t) PROVE TypeOK'
  <2>1. pc' = [pc EXCEPT ![t] = "done"]
    BY <1>8 DEF Finish
  <2>2. waiting' = {u \in Threads : pc'[u] \in {"wantClose", "wantFinish"}}
    BY <1>8, <2>1, LockBooks DEF Finish
  <2>3. readers' = {u \in Threads : pc'[u] = "sending"}
    BY <1>8, <2>1, LockBooks DEF Finish
  <2>4. pc' \in [Threads -> PCs]
    BY <2>1
  <2>5. /\ \A s \in Senders : pc'[s] \in SenderPCs
        /\ \A c \in Closers : pc'[c] \in CloserPCs
        /\ pc'[Loop] \in LoopPCs /\ pc'[Timer] \in TimerPCs
    BY <2>1
  <2>6. /\ closed' \in BOOLEAN /\ draining' \in BOOLEAN /\ running' \in BOOLEAN
        /\ os' \in {"open", "shut", "closed"}
        /\ closes' \in Nat
        /\ faults' \subseteq Faults
    <3>1. CASE closed
      BY <1>8, <3>1 DEF Finish
    <3>2. CASE ~closed
      BY <1>8, <3>2 DEF Finish
    <3> QED BY <3>1, <3>2
  <2>7. pkt' \in [Packets -> PacketStates]
    <3>1. CASE closed
      BY <1>8, <3>1 DEF Finish
    <3>2. CASE ~closed
      <4>1. pkt' = [p \in Packets |-> IF pkt[p] = "queued" THEN "lost" ELSE pkt[p]]
        BY <1>8, <3>2 DEF Finish
      <4> QED BY <4>1
    <3> QED BY <3>1, <3>2
  <2> QED BY <2>2, <2>3, <2>4, <2>5, <2>6, <2>7
<1>9. CASE UNCHANGED vars
  BY <1>9 DEF vars
<1> QED BY <1>1, <1>2, <1>3, <1>4, <1>5, <1>6, <1>7, <1>8, <1>9 DEF Next

(* Every step keeps the single shutdown.                                   *)
LEMMA OnceStep == TypeOK /\ Once /\ [Next]_vars => Once'
<1> SUFFICES ASSUME TypeOK, Once, [Next]_vars PROVE Once'
    OBVIOUS
<1> USE ThreadAssumption DEF TypeOK, Once, Threads, SenderPCs, CloserPCs, TimerPCs, Goto
<1>1. ASSUME NEW t \in Threads, NEW l, l # "shutdown", t # Timer,
             pc' = [pc EXCEPT ![t] = l], UNCHANGED draining
      PROVE  Once'
  BY <1>1
<1>2. CASE Divert \/ EngineStops \/ UNCHANGED vars
  BY <1>2 DEF Divert, EngineStops, vars
<1>3. ASSUME NEW s \in Senders, SendBegin(s) \/ SendEnd(s) PROVE Once'
  BY <1>3, <1>1 DEF SendBegin, SendEnd, RLockForSend
<1>4. CASE LoopStep
  <2>1. UNCHANGED draining /\ \E l \in LoopPCs : pc' = [pc EXCEPT ![Loop] = l]
    BY <1>4 DEF LoopStep, RecvCall, RecvPacket, RecvError, Dispatch, HandlePacket, HandlePanic,
        LoopSend, RLockForSend, LoopSendEnd, LoopPCs
  <2> QED BY <2>1, <1>1 DEF LoopPCs
<1>5. ASSUME NEW c \in Closers, CloserStep(c) PROVE Once'
  <2>1. CASE CloseCall(c)
    BY <2>1, <1>1 DEF CloseCall
  <2>2. CASE CloseLocked(c)
    BY <2>2 DEF CloseLocked, Retiring
  <2>3. CASE ShutdownOk(c)
    BY <2>3 DEF ShutdownOk
  <2>4. CASE ShutdownErr(c)
    BY <2>4, <1>1 DEF ShutdownErr
  <2> QED BY <1>5, <2>1, <2>2, <2>3, <2>4 DEF CloserStep
<1>6. CASE TimerFires
  BY <1>6 DEF TimerFires
<1>7. ASSUME NEW t \in Threads \ Senders, Finish(t) PROVE Once'
  BY <1>7 DEF Finish
<1> QED BY <1>2, <1>3, <1>4, <1>5, <1>6, <1>7 DEF Next

(* Every step keeps the struct, the driver's handle and the lock together. *)
LEMMA HandleStep == SafeInv /\ [Next]_vars => Handle'
<1> SUFFICES ASSUME SafeInv, [Next]_vars PROVE Handle'
    OBVIOUS
<1> USE ThreadAssumption DEF SafeInv, TypeOK, Handle, Threads, Goto
<1>1. CASE Divert \/ EngineStops \/ UNCHANGED vars
  BY <1>1 DEF Divert, EngineStops, vars
<1>2. ASSUME NEW s \in Senders, SendBegin(s) \/ SendEnd(s) PROVE Handle'
  BY <1>2 DEF SendBegin, SendEnd, RLockForSend
<1>3. CASE LoopStep
  <2>1. UNCHANGED <<closed, os, closes>>
    BY <1>3 DEF LoopStep, RecvCall, RecvPacket, RecvError, Dispatch, HandlePacket, HandlePanic,
        LoopSend, RLockForSend, LoopSendEnd
  <2>2. PICK l \in LoopPCs \ {"done"} :
            pc' = [pc EXCEPT ![Loop] = l] /\ (l = "sending" => ~closed)
    BY <1>3 DEF LoopStep, RecvCall, RecvPacket, RecvError, Dispatch, HandlePacket, HandlePanic,
        LoopSend, RLockForSend, LoopSendEnd, LoopPCs
  <2> QED BY <2>1, <2>2
<1>4. ASSUME NEW c \in Closers, CloserStep(c) PROVE Handle'
  BY <1>4 DEF CloserStep, CloseCall, CloseLocked, ShutdownOk, ShutdownErr, CloserPCs
<1>5. CASE TimerFires
  BY <1>5 DEF TimerFires
<1>6. ASSUME NEW t \in Threads \ Senders, Finish(t) PROVE Handle'
  <2>1. \A u \in Threads : pc[u] # "sending"
    BY <1>6 DEF Finish, CanLock
  <2>2. \A u \in Threads : pc'[u] # "sending"
    BY <1>6, <2>1 DEF Finish
  <2>3. closed' /\ os' = "closed" /\ closes' = 1
    BY <1>6 DEF Finish
  <2> QED BY <2>2, <2>3
<1> QED BY <1>1, <1>2, <1>3, <1>4, <1>5, <1>6 DEF Next

LEMMA SafeInvStep == SafeInv /\ [Next]_vars => SafeInv'
BY TypeStep, OnceStep, HandleStep DEF SafeInv

LEMMA SafeInvHolds == Spec => []SafeInv
BY SafeInit, SafeInvStep, PTL DEF Spec

(* Types and lock book-keeping hold throughout.                            *)
THEOREM TypeCorrect == Spec => []TypeOK
<1>1. SafeInv => TypeOK
  BY DEF SafeInv
<1> QED BY <1>1, SafeInvHolds, PTL

(* No injection ever runs on a closed driver handle.                       *)
THEOREM SendSafety == Spec => []NoSendAfterClose
<1>1. SafeInv => NoSendAfterClose
  BY DEF SafeInv, Handle, NoSendAfterClose
<1> QED BY <1>1, SafeInvHolds, PTL

(* However many goroutines race to finish it, the handle is closed once.   *)
THEOREM CloseSafety == Spec => []ClosedOnce
<1>1. SafeInv => ClosedOnce
  BY DEF SafeInv, Handle, ClosedOnce
<1> QED BY <1>1, SafeInvHolds, PTL

(* The driver's handle never outlives the loop that reads it.              *)
THEOREM ReaderSafety == Spec => []HandleDiesWithReader
<1>1. SafeInv => HandleDiesWithReader
  BY DEF SafeInv, Handle, HandleDiesWithReader
<1> QED BY <1>1, SafeInvHolds, PTL

(* While no fault was seen and the grace timer has not fired: the loop     *)
(* finishes the handle only on an empty queue, nobody finishes it first,   *)
(* and nothing was lost.                                                   *)
Quiet == faults = {} /\ pc[Timer] \notin {"wantFinish", "done"}

Drain == Quiet =>
    /\ \A p \in Packets : pkt[p] # "lost"
    /\ closed => pc[Loop] = "done"
    /\ pc[Loop] = "wantFinish" => os = "shut" /\ \A p \in Packets : pkt[p] # "queued"
    /\ \A c \in Closers : pc[c] = "wantFinish" => closed

(* Every step keeps the orderly drain.                                     *)
LEMMA DrainStep == SafeInv /\ Drain /\ [Next]_vars => Drain'
<1> SUFFICES ASSUME SafeInv, Drain, [Next]_vars, Quiet' PROVE Drain'
    BY DEF Drain
<1> USE ThreadAssumption DEF SafeInv, TypeOK, Handle, Threads, Goto, Quiet
<1>1. Quiet
  <2>1. faults \subseteq faults'
    BY DEF Next, vars, Divert, EngineStops, SendBegin, SendEnd, LoopStep, RecvCall, RecvPacket,
        RecvError, Dispatch, HandlePacket, HandlePanic, LoopSend, LoopSendEnd, CloserStep,
        CloseCall, CloseLocked, ShutdownOk, ShutdownErr, TimerFires, Finish
  <2>2. pc[Timer] \in {"wantFinish", "done"} => pc'[Timer] = pc[Timer] \/ pc'[Timer] = "done"
    BY DEF Next, vars, Divert, EngineStops, SendBegin, SendEnd, LoopStep, RecvCall, RecvPacket,
        RecvError, Dispatch, HandlePacket, HandlePanic, LoopSend, LoopSendEnd, CloserStep,
        CloseCall, CloseLocked, ShutdownOk, ShutdownErr, TimerFires, Finish, RLockForSend, Once
  <2> QED BY <2>1, <2>2
<1> USE <1>1 DEF Drain
<1>2. CASE Divert \/ EngineStops \/ UNCHANGED vars
  BY <1>2 DEF Divert, EngineStops, vars, Move
<1>3. ASSUME NEW s \in Senders, SendBegin(s) \/ SendEnd(s) PROVE Drain'
  BY <1>3 DEF SendBegin, SendEnd, RLockForSend, SenderPCs
<1>4. CASE LoopStep
  <2>1. CASE RecvCall
    BY <2>1 DEF RecvCall
  <2>2. CASE RecvPacket
    BY <2>2 DEF RecvPacket, Move
  <2>3. ASSUME NEW f \in {{}, {"recv"}}, RecvError(f) PROVE Drain'
    BY <2>3 DEF RecvError
  <2>4. CASE Dispatch
    BY <2>4 DEF Dispatch
  <2>5. CASE HandlePacket
    BY <2>5 DEF HandlePacket, Move
  <2>6. CASE HandlePanic
    BY <2>6 DEF HandlePanic
  <2>7. CASE LoopSend
    BY <2>7 DEF LoopSend, RLockForSend
  <2>8. CASE LoopSendEnd
    BY <2>8 DEF LoopSendEnd, Move
  <2> QED BY <1>4, <2>1, <2>2, <2>3, <2>4, <2>5, <2>6, <2>7, <2>8 DEF LoopStep
<1>5. ASSUME NEW c \in Closers, CloserStep(c) PROVE Drain'
  <2>1. CASE CloseCall(c)
    BY <2>1 DEF CloseCall
  <2>2. CASE CloseLocked(c)
    BY <2>2 DEF CloseLocked
  <2>3. CASE ShutdownOk(c)
    BY <2>3 DEF ShutdownOk
  <2>4. CASE ShutdownErr(c)
    BY <2>4 DEF ShutdownErr
  <2> QED BY <1>5, <2>1, <2>2, <2>3, <2>4 DEF CloserStep
<1>6. CASE TimerFires
  BY <1>6 DEF TimerFires
<1>7. ASSUME NEW t \in Threads \ Senders, Finish(t) PROVE Drain'
  <2>1. CASE t = Loop
    <3>1. ~closed /\ os = "shut" /\ \A p \in Packets : pkt[p] # "queued"
      BY <1>7, <2>1 DEF Finish
    <3>2. \A p \in Packets : pkt'[p] = pkt[p]
      BY <1>7, <3>1 DEF Finish
    <3>3. pc' = [pc EXCEPT ![Loop] = "done"]
      BY <1>7, <2>1 DEF Finish
    <3>4. closed'
      BY <1>7 DEF Finish
    <3> QED BY <3>2, <3>3, <3>4
  <2>2. CASE t \in Closers
    <3>1. closed /\ pc[Loop] = "done"
      BY <1>7, <2>2 DEF Finish
    <3>2. UNCHANGED <<closed, os, pkt>> /\ pc' = [pc EXCEPT ![t] = "done"]
      BY <1>7, <3>1 DEF Finish
    <3> QED BY <3>1, <3>2
  <2>3. CASE t = Timer
    BY <1>7, <2>3 DEF Finish
  <2> QED BY <2>1, <2>2, <2>3
<1> QED BY <1>2, <1>3, <1>4, <1>5, <1>6, <1>7 DEF Next

(* An orderly retirement loses no packet.                                  *)
THEOREM DrainSafety == Spec => []DrainLosesNothing
<1>1. Init => Drain
  BY DEF Init, Drain, Threads
<1>2. TypeOK /\ Drain => DrainLosesNothing
  BY ThreadAssumption DEF TypeOK, Drain, Quiet, DrainLosesNothing
<1>3. SafeInv => TypeOK
  BY DEF SafeInv
<1> QED BY <1>1, <1>2, <1>3, DrainStep, SafeInvHolds, PTL DEF Spec
=============================================================================
