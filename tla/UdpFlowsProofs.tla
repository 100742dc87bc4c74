--------------------------- MODULE UdpFlowsProofs ---------------------------
(***************************************************************************)
(* Proofs about UdpFlows, for any processes, applications, loops, numbers  *)
(* of flows and bounds: its types, that no tunnel socket leaks, that the   *)
(* sweep retires no flow that is still its socket's, and that a socket     *)
(* which was tunnelled is not sent in the clear.                           *)
(***************************************************************************)
EXTENDS UdpFlows, TLAPS

---------------------------------------------------------------------------
(* Types                                                                   *)

(* A datagram's owner is known before it is passed for good, its flow      *)
(* before it is written.                                                   *)
TaskOK(l) ==
    /\ loop[l].pc = "direct" => loop[l].pid # None
    /\ loop[l].pc \in {"write", "evict"} => loop[l].id # None
TypeInv == TypeOK /\ \A l \in Loops : TaskOK(l)

LoopsTyped == loop \in [Loops -> Tasks] /\ \A l \in Loops : TaskOK(l)
GhostsTyped == carried \in BOOLEAN /\ strayed \in BOOLEAN
MapTyped ==
    /\ flow \in Opt(Ids) /\ fl \in [Ids -> Flows]
    /\ flow # None => fl[flow].conn \in {"open", "broken"} /\ fl[flow].reading
DirectTyped == direct \in Opt(Decisions)
OpTyped ==
    /\ apps \subseteq Apps /\ running \in BOOLEAN /\ stopped \in BOOLEAN
    /\ op \in [pc : {"idle", "start", "open", "stop", "pause", "drain", "pauseDrain",
                     "clear", "drop"}, drop : Opt(Pids)]
ViewTyped ==
    /\ owner \in Opt(Pids) /\ table \in Opt(Pids) /\ sock \in Opt(Pids)
    /\ live \in BOOLEAN /\ fresh \in BOOLEAN

LEMMA TypeParts ==
    TypeInv <=> /\ OpTyped /\ MapTyped /\ DirectTyped
                /\ ViewTyped /\ LoopsTyped /\ GhostsTyped
BY DEF TypeInv, TypeOK, OpTyped, MapTyped, DirectTyped, ViewTyped, LoopsTyped, GhostsTyped

LEMMA TypePartsNext ==
    TypeInv' <=> /\ OpTyped' /\ MapTyped' /\ DirectTyped'
                 /\ ViewTyped' /\ LoopsTyped' /\ GhostsTyped'
BY DEF TypeInv, TypeOK, OpTyped, MapTyped, DirectTyped, ViewTyped, LoopsTyped, GhostsTyped

LEMMA NoFlowTyped ==
    /\ NoFlow \in Flows /\ NoFlow.conn = "none"
    /\ Wasted \in Flows /\ Wasted.conn = "closed"
<1>1. NoFlow \in Flows /\ NoFlow.conn = "none"
  BY DEF NoFlow, Flows, Opt, Sources
<1>2. Wasted \in Flows /\ Wasted.conn = "closed"
  BY <1>1 DEF Wasted, Flows
<1> QED BY <1>1, <1>2

LEMMA TypeInit == Init => TypeInv
<1> SUFFICES ASSUME Init PROVE TypeInv
    OBVIOUS
<1>1. NoFlow \in Flows /\ Resting \in Tasks
  BY DEF NoFlow, Resting, Flows, Tasks, Opt, Sources
<1>2. OpTyped /\ ViewTyped /\ GhostsTyped /\ DirectTyped
  BY DEF Init, OpTyped, ViewTyped, GhostsTyped, DirectTyped, OpIdle, Opt
<1>3. MapTyped
  BY <1>1 DEF Init, MapTyped, Opt
<1>4. LoopsTyped
  BY <1>1 DEF Init, LoopsTyped, TaskOK, Resting
<1> QED BY <1>2, <1>3, <1>4, TypeParts

(* One loop takes up, goes on with or ends its datagram.                   *)
LEMMA LoopTyped ==
    ASSUME LoopsTyped, NEW l \in Loops, NEW t \in Tasks,
           t.pc = "direct" => t.pid # None,
           t.pc \in {"write", "evict"} => t.id # None,
           loop' = [loop EXCEPT ![l] = t]
    PROVE  LoopsTyped'
BY DEF LoopsTyped, TaskOK

LEMMA RestTyped ==
    ASSUME LoopsTyped, NEW l \in Loops, Rest(l)
    PROVE  LoopsTyped'
<1>1. Resting \in Tasks /\ Resting.pc = "idle"
  BY DEF Resting, Tasks, Opt, Sources
<1>2. loop' = [loop EXCEPT ![l] = Resting]
  BY DEF Rest
<1> QED BY <1>1, <1>2, LoopTyped

LEMMA PassTyped ==
    ASSUME LoopsTyped, GhostsTyped, NEW l \in Loops, Pass(l)
    PROVE  LoopsTyped' /\ GhostsTyped'
<1>1. strayed' \in BOOLEAN
  BY Zenon DEF Pass
<1>2. carried' \in BOOLEAN
  BY DEF Pass, GhostsTyped
<1>3. Rest(l)
  BY DEF Pass
<1> QED BY <1>1, <1>2, <1>3, RestTyped DEF GhostsTyped

LEMMA CarryTyped ==
    ASSUME LoopsTyped, GhostsTyped, NEW l \in Loops, NEW f, Carry(l, f)
    PROVE  LoopsTyped' /\ GhostsTyped'
<1>1. carried' \in BOOLEAN
  BY Zenon DEF Carry
<1>2. strayed' \in BOOLEAN
  BY DEF Carry, GhostsTyped
<1>3. Rest(l)
  BY DEF Carry
<1> QED BY <1>1, <1>2, <1>3, RestTyped DEF GhostsTyped

LEMMA DropTyped ==
    ASSUME LoopsTyped, GhostsTyped, NEW l \in Loops, Drop(l)
    PROVE  LoopsTyped' /\ GhostsTyped'
<1>1. Rest(l) /\ UNCHANGED ghosts
  BY DEF Drop
<1> QED BY <1>1, RestTyped DEF GhostsTyped, ghosts

(* A flow leaves the map, with its socket.                                 *)
LEMMA ClosedTyped ==
    ASSUME MapTyped, NEW i \in Ids, fl' = Closed(i),
           flow' = None \/ (flow' = flow /\ flow # i)
    PROVE  MapTyped'
<1> DEFINE r == [NoFlow EXCEPT !.conn = "closed", !.reading = fl[i].reading]
<1>0. fl[i].reading \in BOOLEAN
  BY DEF MapTyped, Flows
<1>1. r \in Flows /\ r.conn = "closed"
  BY <1>0, NoFlowTyped DEF Flows
<1>2. fl' = [fl EXCEPT ![i] = r]
  BY DEF Closed
<1> HIDE DEF r
<1> QED BY <1>1, <1>2 DEF MapTyped, Opt

LEMMA AllClosedTyped ==
    ASSUME MapTyped, fl' = AllClosed, flow' = None
    PROVE  MapTyped'
<1>1. CASE flow = None
  BY <1>1 DEF AllClosed, MapTyped, Opt
<1>2. CASE flow # None
  <2>1. flow \in Ids /\ fl' = Closed(flow)
    BY <1>2 DEF AllClosed, MapTyped, Opt
  <2> QED BY <2>1, ClosedTyped
<1> QED BY <1>1, <1>2

(* The steps of a loop.                                                    *)
LEMMA NamedTyped ==
    ASSUME LoopsTyped, GhostsTyped, NEW l \in Loops, NEW pid \in Pids, Named(l, pid)
    PROVE  LoopsTyped' /\ GhostsTyped'
<1>1. pid # None /\ loop[l] \in Tasks /\ GhostsTyped /\ pid \in Opt(Pids)
  BY UdpAssumption DEF LoopsTyped, Opt
<1>2. ASSUME NEW pc \in {"direct", "dial"}, UNCHANGED ghosts,
             loop' = [loop EXCEPT ![l].pc = pc, ![l].pid = pid]
      PROVE  LoopsTyped' /\ GhostsTyped'
  <2> DEFINE t == [loop[l] EXCEPT !.pc = pc, !.pid = pid]
  <2>1. t \in Tasks /\ t.pc = pc /\ t.pid # None
    BY <1>1, <1>2 DEF Tasks
  <2>2. loop' = [loop EXCEPT ![l] = t]
    BY <1>2 DEF LoopsTyped
  <2> HIDE DEF t
  <2> QED BY <1>2, <2>1, <2>2, LoopTyped DEF GhostsTyped, ghosts
<1> QED BY <1>2, DropTyped DEF Named

LEMMA UnresolvedTyped ==
    ASSUME LoopsTyped, GhostsTyped, NEW l \in Loops, Unresolved(l)
    PROVE  LoopsTyped' /\ GhostsTyped'
BY PassTyped, DropTyped DEF Unresolved

(* Which maps a loop looks at leaves everything else alone.                *)
LEMMA TakenTyped ==
    \A pc \in {"retire", "lookup"} : [Taken EXCEPT !.pc = pc] \in Tasks
BY DEF Taken, Resting, Tasks, Opt, Sources

LEMMA AtTyped ==
    ASSUME LoopsTyped, NEW l \in Loops, NEW pc \in {"lookup", "decide"}, At(l, pc)
    PROVE  LoopsTyped'
<1> DEFINE t == [loop[l] EXCEPT !.pc = pc]
<1>1. t \in Tasks /\ t.pc = pc
  BY DEF LoopsTyped, Tasks
<1>2. loop' = [loop EXCEPT ![l] = t]
  BY DEF At, LoopsTyped
<1> HIDE DEF t
<1> QED BY <1>1, <1>2, LoopTyped

LEMMA ArriveTyped ==
    ASSUME TypeInv, NEW l \in Loops, Arrive(l)
    PROVE  TypeInv'
<1>1. /\ OpTyped /\ MapTyped /\ DirectTyped
      /\ ViewTyped /\ LoopsTyped /\ GhostsTyped
  BY TypeParts
<1>2. UNCHANGED <<opVars, flowVars, sockVars, viewVars, ghosts, mishaps>>
  BY DEF Arrive
<1>3. OpTyped' /\ MapTyped' /\ DirectTyped' /\ ViewTyped' /\ GhostsTyped'
  BY <1>1, <1>2 DEF OpTyped, MapTyped, DirectTyped, ViewTyped, GhostsTyped,
                    opVars, flowVars, sockVars, viewVars, ghosts
<1>4. PICK pc \in {"retire", "lookup"} : loop' = [loop EXCEPT ![l] = [Taken EXCEPT !.pc = pc]]
  BY DEF Arrive
<1> DEFINE t == [Taken EXCEPT !.pc = pc]
<1>5. t \in Tasks /\ t.pc = pc
  BY TakenTyped DEF Taken, Resting
<1>6. loop' = [loop EXCEPT ![l] = t]
  BY <1>4
<1> HIDE DEF t
<1>7. LoopsTyped'
  BY <1>1, <1>5, <1>6, LoopTyped
<1> QED BY <1>3, <1>7, TypePartsNext

LEMMA LookTyped ==
    ASSUME TypeInv, NEW l \in Loops, RetireStale(l) \/ LookUp(l)
    PROVE  TypeInv'
<1>1. /\ OpTyped /\ MapTyped /\ DirectTyped
      /\ ViewTyped /\ LoopsTyped /\ GhostsTyped
  BY TypeParts
<1>2. UNCHANGED <<opVars, stopped, flow, fl, sockVars, viewVars, mishaps>> /\ direct' \in {direct, None}
  BY DEF RetireStale, LookUp, flowVars
<1>3. OpTyped' /\ MapTyped' /\ DirectTyped' /\ ViewTyped'
  BY <1>1, <1>2 DEF OpTyped, MapTyped, DirectTyped, ViewTyped, Opt, opVars, sockVars, viewVars
<1>4. CASE flow # None /\ UNCHANGED ghosts /\ loop' = [loop EXCEPT ![l].pc = "write", ![l].id = flow]
  <2> DEFINE t == [loop[l] EXCEPT !.pc = "write", !.id = flow]
  <2>1. t \in Tasks /\ t.pc = "write" /\ t.id # None
    BY <1>1, <1>4 DEF LoopsTyped, MapTyped, Tasks, Opt
  <2>2. loop' = [loop EXCEPT ![l] = t]
    BY <1>1, <1>4 DEF LoopsTyped
  <2> HIDE DEF t
  <2>3. LoopsTyped'
    BY <1>1, <2>1, <2>2, LoopTyped
  <2> QED BY <1>1, <1>3, <1>4, <2>3, TypePartsNext DEF GhostsTyped, ghosts
<1>5. CASE UNCHANGED ghosts /\ (Rest(l) \/ \E pc \in {"lookup", "decide"} : At(l, pc))
  <2>1. LoopsTyped'
    BY <1>1, <1>5, AtTyped, RestTyped
  <2> QED BY <1>1, <1>3, <1>5, <2>1, TypePartsNext DEF GhostsTyped, ghosts
<1>6. CASE Pass(l)
  BY <1>1, <1>3, <1>6, PassTyped, TypePartsNext
<1> QED BY <1>4, <1>5, <1>6 DEF RetireStale, LookUp

LEMMA DecideTyped ==
    ASSUME TypeInv, NEW l \in Loops, Decide(l)
    PROVE  TypeInv'
<1>1. /\ OpTyped /\ MapTyped /\ DirectTyped
      /\ ViewTyped /\ LoopsTyped /\ GhostsTyped
  BY TypeParts
<1>2. UNCHANGED <<opVars, flowVars, sockVars, sock, live, fresh, mishaps>> /\ table' \in {table, owner}
  BY DEF Decide
<1>3. OpTyped' /\ MapTyped' /\ DirectTyped' /\ ViewTyped'
  BY <1>1, <1>2 DEF OpTyped, MapTyped, DirectTyped, ViewTyped, opVars, flowVars, sockVars
<1>4. \/ Unresolved(l)
      \/ \E pid \in Pids : Named(l, pid)
  BY DEF Decide
<1> QED BY <1>1, <1>3, <1>4, NamedTyped, UnresolvedTyped, TypePartsNext

(* A datagram overtaken by a decision, or no longer of a carried socket.   *)
LEMMA OvertakenTyped ==
    ASSUME NEW t \in Tasks
    PROVE  /\ Overtaken(t) \in Tasks
           /\ Overtaken(t).pc \in {t.pc, "lookup"}
           /\ Overtaken(t).pc # "lookup" => Overtaken(t) = t
BY DEF Overtaken, Tasks, Sources

LEMMA UncarriedTyped ==
    ASSUME LoopsTyped, Uncarried
    PROVE  LoopsTyped'
<1>1. \A l \in Loops : [loop[l] EXCEPT !.of = "current"] \in Tasks
  BY DEF LoopsTyped, Tasks, Sources
<1> QED BY <1>1 DEF Uncarried, LoopsTyped, TaskOK, Tasks

LEMMA StoreDirectTyped ==
    ASSUME TypeInv, NEW l \in Loops, StoreDirect(l)
    PROVE  TypeInv'
<1>1. /\ OpTyped /\ MapTyped /\ DirectTyped
      /\ ViewTyped /\ LoopsTyped /\ GhostsTyped
  BY TypeParts
<1>2. UNCHANGED <<opVars, stopped, flow, fl, sockVars, viewVars, carried, mishaps>>
  BY DEF StoreDirect
<1>3. OpTyped' /\ MapTyped' /\ ViewTyped'
  BY <1>1, <1>2 DEF OpTyped, MapTyped, ViewTyped, opVars, sockVars, viewVars
<1>4. loop[l].pid \in Pids
  BY <1>1 DEF StoreDirect, LoopsTyped, TaskOK, Tasks, Opt
<1>6. direct' \in Decisions
  <2> DEFINE late == loop[l].pid \in apps
  <2>1. late = TRUE \/ late = FALSE
    OBVIOUS
  <2>2. direct' = [pid |-> loop[l].pid, old |-> FALSE, late |-> late]
    BY DEF StoreDirect
  <2> HIDE DEF late
  <2> QED BY <1>4, <2>1, <2>2 DEF Decisions
<1>7. strayed' \in BOOLEAN
  BY Zenon DEF StoreDirect
<1>8. Resting \in Tasks /\ Resting.pc = "idle"
  BY DEF Resting, Tasks, Opt, Sources
<1>9. LoopsTyped'
  <2>1. \A k \in Loops :
          /\ loop'[k] \in Tasks
          /\ loop'[k] = loop[k] \/ loop'[k].pc \in {"idle", "lookup"}
    BY <1>1, <1>8, OvertakenTyped DEF StoreDirect, LoopsTyped
  <2>2. loop' = [k \in Loops |-> loop'[k]]
    BY DEF StoreDirect
  <2> QED BY <1>1, <2>1, <2>2 DEF LoopsTyped, TaskOK
<1> QED BY <1>1, <1>2, <1>3, <1>6, <1>7, <1>9, TypePartsNext DEF DirectTyped, GhostsTyped, Opt

LEMMA InstallTyped ==
    ASSUME TypeInv, NEW l \in Loops, Install(l)
    PROVE  TypeInv'
<1>1. /\ OpTyped /\ MapTyped /\ DirectTyped
      /\ ViewTyped /\ LoopsTyped /\ GhostsTyped
  BY TypeParts
<1>2. UNCHANGED <<opVars, stopped, direct, sockVars, viewVars, mishaps>>
  BY DEF Install
<1>3. OpTyped' /\ DirectTyped' /\ ViewTyped'
  BY <1>1, <1>2 DEF OpTyped, DirectTyped, ViewTyped, opVars, sockVars, viewVars
<1>4. \/ Pass(l) \/ Drop(l) \/ \E f : Carry(l, f)
  BY DEF Install
<1>5. LoopsTyped' /\ GhostsTyped'
  BY <1>1, <1>4, PassTyped, DropTyped, CarryTyped
<1> DEFINE W == [Wasted EXCEPT !.reading = TRUE]
           D == Dialled(l)
<1>6. W \in Flows
  BY NoFlowTyped DEF Flows
<1>7. D \in Flows /\ D.conn = "open" /\ D.reading
  BY <1>1, NoFlowTyped DEF Dialled, Flows, LoopsTyped, Tasks, Sources
<1>8. PICK i \in Ids :
        /\ Next1(i)
        /\ \/ fl' = [fl EXCEPT ![i] = Wasted] /\ UNCHANGED flow
           \/ fl' = [fl EXCEPT ![i] = D] /\ flow' = i
           \/ fl' = [fl EXCEPT ![i] = W] /\ UNCHANGED flow
  BY DEF Install
<1> HIDE DEF W, D
<1>9. fl[i].conn = "none" /\ i # None
  BY <1>8, UdpAssumption DEF Next1, Ids
<1>10. MapTyped'
  BY <1>1, <1>6, <1>7, <1>8, <1>9, NoFlowTyped DEF MapTyped, Opt
<1> QED BY <1>3, <1>5, <1>10, TypePartsNext

LEMMA WriteTyped ==
    ASSUME TypeInv, NEW l \in Loops, Write(l)
    PROVE  TypeInv'
<1>1. /\ OpTyped /\ MapTyped /\ DirectTyped
      /\ ViewTyped /\ LoopsTyped /\ GhostsTyped
  BY TypeParts
<1>2. UNCHANGED <<opVars, flowVars, sockVars, viewVars>>
  BY DEF Write
<1>3. OpTyped' /\ MapTyped' /\ DirectTyped' /\ ViewTyped'
  BY <1>1, <1>2 DEF OpTyped, MapTyped, DirectTyped, ViewTyped, opVars, flowVars, sockVars, viewVars
<1>4. CASE \E f : Carry(l, f)
  BY <1>1, <1>3, <1>4, CarryTyped, TypePartsNext
<1>5. CASE At(l, "evict") /\ UNCHANGED ghosts
  <2> DEFINE t == [loop[l] EXCEPT !.pc = "evict"]
  <2>1. t \in Tasks /\ t.pc = "evict" /\ t.id # None
    BY <1>1 DEF Write, LoopsTyped, TaskOK, Tasks
  <2>2. loop' = [loop EXCEPT ![l] = t]
    BY <1>1, <1>5 DEF At, LoopsTyped
  <2> HIDE DEF t
  <2>3. LoopsTyped'
    BY <1>1, <2>1, <2>2, LoopTyped
  <2> QED BY <1>1, <1>3, <1>5, <2>3, TypePartsNext DEF GhostsTyped, ghosts
<1> QED BY <1>4, <1>5 DEF Write

LEMMA EvictTyped ==
    ASSUME TypeInv, NEW l \in Loops, Evict(l)
    PROVE  TypeInv'
<1>1. /\ OpTyped /\ MapTyped /\ DirectTyped
      /\ ViewTyped /\ LoopsTyped /\ GhostsTyped
  BY TypeParts
<1>2. UNCHANGED <<opVars, stopped, direct, sockVars, viewVars, mishaps>>
  BY DEF Evict
<1>3. OpTyped' /\ DirectTyped' /\ ViewTyped'
  BY <1>1, <1>2 DEF OpTyped, DirectTyped, ViewTyped, opVars, sockVars, viewVars
<1>4. loop[l].id \in Ids
  BY <1>1 DEF Evict, LoopsTyped, TaskOK, Tasks, Opt
<1>5. MapTyped'
  BY <1>1, <1>4, ClosedTyped DEF Evict
<1> QED BY <1>1, <1>3, <1>5, DropTyped, TypePartsNext DEF Evict


(* The sweep, the supervisor and the readers.                              *)
LEMMA SweepTyped ==
    ASSUME TypeInv, NEW idle \in BOOLEAN, Sweep(idle)
    PROVE  TypeInv'
<1>1. /\ OpTyped /\ MapTyped /\ DirectTyped
      /\ ViewTyped /\ LoopsTyped /\ GhostsTyped
  BY TypeParts
<1>2. UNCHANGED <<opVars, stopped, loop, sockVars, table, sock, live, ghosts, mishaps>> /\ fresh' = FALSE
  BY DEF Sweep
<1>3. OpTyped' /\ ViewTyped' /\ LoopsTyped' /\ GhostsTyped'
  BY <1>1, <1>2 DEF OpTyped, ViewTyped, LoopsTyped, TaskOK, GhostsTyped, opVars, sockVars, ghosts
<1>4. DirectTyped'
  <2>1. CASE direct' = None
    BY <2>1 DEF DirectTyped, Opt
  <2>2. CASE direct # None /\ direct' = [direct EXCEPT !.old = TRUE]
    BY <2>2, <1>1 DEF DirectTyped, Decisions, Opt
  <2> QED BY <2>1, <2>2 DEF Sweep
<1>5. CASE UNCHANGED <<flow, fl>>
  <2>1. MapTyped'
    BY <1>1, <1>5 DEF MapTyped
  <2> QED BY <2>1, <1>3, <1>4, TypePartsNext
<1>6. CASE flow # None /\ flow' = None /\ fl' = Closed(flow)
  <2>1. flow \in Ids
    BY <1>6, <1>1 DEF MapTyped, Opt
  <2>2. MapTyped'
    BY <2>1, <1>1, <1>6, ClosedTyped
  <2> QED BY <2>2, <1>3, <1>4, TypePartsNext
<1> DEFINE s == StrikesOf(fl[flow])
<1>7. CASE /\ flow # None /\ ~Gone(s) /\ flow' = flow
           /\ fl' = [fl EXCEPT ![flow].miss = s.miss, ![flow].ownerMiss = s.ownerMiss]
  <2>1. flow \in Ids /\ fl[flow] \in Flows
    BY <1>7, <1>1 DEF MapTyped, Opt
  <2>2. s.miss \in 0..1 /\ s.ownerMiss \in 0..1
    BY <1>7, <2>1 DEF StrikesOf, Gone, Flows
  <2> DEFINE r == [fl[flow] EXCEPT !.miss = s.miss, !.ownerMiss = s.ownerMiss]
  <2>3. r \in Flows /\ r.conn = fl[flow].conn /\ r.reading = fl[flow].reading
    BY <2>1, <2>2 DEF Flows
  <2>4. fl' = [fl EXCEPT ![flow] = r]
    BY <1>7, <2>1, <1>1 DEF MapTyped
  <2> HIDE DEF r, s
  <2>5. MapTyped'
    BY <1>1, <1>7, <2>1, <2>3, <2>4 DEF MapTyped
  <2> QED BY <2>5, <1>3, <1>4, TypePartsNext
<1>8. flow # None => /\ flow' = None /\ fl' = Closed(flow)
                     \/ /\ ~Gone(s) /\ flow' = flow
                        /\ fl' = [fl EXCEPT ![flow].miss = s.miss, ![flow].ownerMiss = s.ownerMiss]
  BY DEF Sweep
<1>9. flow = None => UNCHANGED <<flow, fl>>
  BY DEF Sweep
<1> QED BY <1>5, <1>6, <1>7, <1>8, <1>9

LEMMA ReaderTyped ==
    ASSUME TypeInv, NEW i \in Ids, ReaderEnds(i)
    PROVE  TypeInv'
<1>1. /\ OpTyped /\ MapTyped /\ DirectTyped
      /\ ViewTyped /\ LoopsTyped /\ GhostsTyped
  BY TypeParts
<1>2. UNCHANGED <<opVars, stopped, direct, loop, sockVars, viewVars, ghosts, mishaps>>
  BY DEF ReaderEnds
<1>3. /\ OpTyped' /\ DirectTyped' /\ ViewTyped' /\ LoopsTyped' /\ GhostsTyped'
  BY <1>1, <1>2 DEF OpTyped, DirectTyped, ViewTyped, LoopsTyped, TaskOK, GhostsTyped,
                    opVars, sockVars, viewVars, ghosts
<1>4. MapTyped'
  BY <1>1, NoFlowTyped DEF ReaderEnds, MapTyped, Opt
<1> QED BY <1>3, <1>4, TypePartsNext

LEMMA SupervisorTyped ==
    ASSUME TypeInv, CapEvicts \/ TunnelCloses \/ GiveUpCapture
    PROVE  TypeInv'
<1>1. /\ OpTyped /\ MapTyped /\ DirectTyped
      /\ ViewTyped /\ LoopsTyped /\ GhostsTyped
  BY TypeParts
<1>2. /\ UNCHANGED <<opVars, direct, sockVars, viewVars, strayed>> /\ (UNCHANGED loop \/ Uncarried)
      /\ carried' \in {carried, FALSE} /\ stopped' \in {stopped, TRUE}
  BY DEF CapEvicts, TunnelCloses, GiveUpCapture, ghosts
<1>3. /\ OpTyped' /\ DirectTyped' /\ ViewTyped' /\ LoopsTyped' /\ GhostsTyped'
  <2>1. LoopsTyped'
    BY <1>1, <1>2, UncarriedTyped DEF LoopsTyped, TaskOK
  <2> QED BY <1>1, <1>2, <2>1 DEF OpTyped, DirectTyped, ViewTyped, GhostsTyped,
                                  opVars, sockVars, viewVars
<1>4. CASE CapEvicts
  <2>1. flow \in Ids /\ flow' = None /\ fl' = Closed(flow)
    BY <1>1, <1>4 DEF CapEvicts, MapTyped, Opt
  <2> QED BY <2>1, <1>1, <1>3, ClosedTyped, TypePartsNext
<1>5. CASE TunnelCloses
  <2>1. \A i \in Ids : [fl[i] EXCEPT !.conn = "broken"] \in Flows
    BY <1>1 DEF MapTyped, Flows
  <2>2. MapTyped'
    BY <1>1, <1>5, <2>1 DEF TunnelCloses, MapTyped, Flows, Opt
  <2> QED BY <2>2, <1>3, TypePartsNext
<1>6. CASE GiveUpCapture
  BY <1>1, <1>3, <1>6, AllClosedTyped, TypePartsNext DEF GiveUpCapture
<1> QED BY <1>4, <1>5, <1>6

(* The machine and what the engine sees of it.                             *)
LEMMA MachineTyped ==
    ASSUME TypeInv, Unbind \/ Refresh \/ Prune \/ PublishLive \/ \E pid \in Pids : Bind(pid)
    PROVE  TypeInv'
<1>1. /\ OpTyped /\ MapTyped /\ DirectTyped
      /\ ViewTyped /\ LoopsTyped /\ GhostsTyped
  BY TypeParts
<1>2. OpTyped' /\ DirectTyped'
  BY <1>1 DEF Unbind, Refresh, Prune, PublishLive, Bind, OpTyped, DirectTyped, opVars, flowVars
<1>3. MapTyped' /\ LoopsTyped'
  <2>1. CASE Unbind
    <3>1. \A i \in Ids : [fl[i] EXCEPT !.of = "former"] \in Flows
      BY <1>1 DEF MapTyped, Flows, Sources
    <3>2. \A l \in Loops : [loop[l] EXCEPT !.of = "former"] \in Tasks
      BY <1>1 DEF LoopsTyped, Tasks, Sources
    <3>3. MapTyped'
      BY <1>1, <2>1, <3>1 DEF Unbind, MapTyped, Flows, Opt
    <3>4. LoopsTyped'
      BY <1>1, <2>1, <3>2 DEF Unbind, LoopsTyped, TaskOK, Tasks
    <3> QED BY <3>3, <3>4
  <2>2. CASE ~Unbind
    BY <1>1, <2>2 DEF Refresh, Prune, PublishLive, Bind, MapTyped, LoopsTyped, TaskOK, flowVars
  <2> QED BY <2>1, <2>2
<1>4. GhostsTyped'
  BY <1>1 DEF Unbind, Refresh, Prune, PublishLive, Bind, GhostsTyped, ghosts
<1>5. ViewTyped'
  <2>1. CASE PublishLive
    <3>1. live' \in BOOLEAN
      BY <2>1, Zenon DEF PublishLive
    <3> QED BY <3>1, <2>1, <1>1 DEF PublishLive, ViewTyped, sockVars
  <2>2. CASE ~PublishLive
    BY <1>1, <2>2 DEF Unbind, Refresh, Prune, Bind, ViewTyped, Opt, sockVars
  <2> QED BY <2>1, <2>2
<1> QED BY <1>2, <1>3, <1>4, <1>5, TypePartsNext

(* The operations that hold opMu.                                          *)
LEMMA OpTypes ==
    ASSUME OpTyped, NEW pc \in {"idle", "start", "open", "stop", "pause", "drain", "pauseDrain",
                                "clear", "drop"}, OpTo(pc)
    PROVE  /\ op' \in [pc : {"idle", "start", "open", "stop", "pause", "drain", "pauseDrain",
                             "clear", "drop"}, drop : Opt(Pids)]
           /\ op'.pc = pc
BY DEF OpTyped, OpTo

LEMMA RequestTyped ==
    ASSUME TypeInv, Suspend \/ \E names \in SUBSET Apps : SetApps(names)
    PROVE  TypeInv'
<1>1. /\ OpTyped /\ MapTyped /\ DirectTyped
      /\ ViewTyped /\ LoopsTyped /\ GhostsTyped
  BY TypeParts
<1>2. /\ UNCHANGED <<running, flowVars, sockVars, viewVars, strayed>> /\ (UNCHANGED loop \/ Uncarried)
      /\ apps' \subseteq Apps
      /\ \E pc \in {"start", "stop", "clear", "pause"} : OpTo(pc)
  BY DEF SetApps, Suspend
<1>5. carried' \in BOOLEAN
  <2>1. CASE Suspend
    BY <2>1 DEF Suspend
  <2>2. CASE ~Suspend
    BY <2>2, Zenon DEF SetApps
  <2> QED BY <2>1, <2>2
<1>3. OpTyped'
  BY <1>1, <1>2, OpTypes DEF OpTyped, flowVars
<1>4. MapTyped' /\ DirectTyped' /\ ViewTyped' /\ LoopsTyped' /\ GhostsTyped'
  <2>1. LoopsTyped'
    BY <1>1, <1>2, UncarriedTyped DEF LoopsTyped, TaskOK
  <2> QED BY <1>1, <1>2, <1>5, <2>1 DEF MapTyped, DirectTyped, ViewTyped, GhostsTyped,
                                        flowVars, sockVars, viewVars
<1> QED BY <1>3, <1>4, TypePartsNext

LEMMA OpStepTyped ==
    ASSUME TypeInv, OpStep
    PROVE  TypeInv'
<1>1. /\ OpTyped /\ MapTyped /\ DirectTyped
      /\ ViewTyped /\ LoopsTyped /\ GhostsTyped
  BY TypeParts
<1>2. /\ UNCHANGED <<apps, loop, sockVars, strayed>>
      /\ UNCHANGED carried /\ stopped' \in BOOLEAN /\ running' \in BOOLEAN
      /\ direct' \in {direct, None}
      /\ table' \in {table, owner} /\ sock' \in {sock, None} /\ UNCHANGED fresh
  BY <1>1 DEF OpStep, StopRunning, StopDrain, StartClear, StartOpen, ClearDirect, DropDeselected,
              flowVars, viewVars, ghosts, OpTyped
<1>3. DirectTyped' /\ LoopsTyped' /\ GhostsTyped'
  BY <1>1, <1>2 DEF DirectTyped, LoopsTyped, TaskOK, GhostsTyped, Opt
<1>4. live' \in BOOLEAN
  <2>1. CASE StartOpen
    BY <2>1, Zenon DEF StartOpen
  <2>2. CASE ~StartOpen
    BY <1>1, <2>2 DEF OpStep, StopRunning, StopDrain, StartClear, ClearDirect, DropDeselected,
                      ViewTyped, viewVars
  <2> QED BY <2>1, <2>2
<1>5. ViewTyped'
  BY <1>1, <1>2, <1>4 DEF ViewTyped, Opt, sockVars
<1>6. OpTyped'
  <2>1. CASE ClearDirect
    <3>1. flow # None => fl[flow].pid \in Opt(Pids)
      BY <1>1 DEF MapTyped, Flows, Opt
    <3>2. op' \in [pc : {"drop"}, drop : Opt(Pids)]
      BY <2>1, <3>1 DEF ClearDirect, Opt
    <3> QED BY <1>1, <1>2, <3>2 DEF OpTyped
  <2>2. CASE DropDeselected
    BY <1>1, <1>2, <2>2 DEF DropDeselected, OpIdle, OpTyped, Opt
  <2>3. CASE StopRunning \/ StopDrain \/ StartClear \/ StartOpen
    <3>1. \E pc \in {"drain", "pauseDrain", "clear", "idle", "open"} : OpTo(pc)
      BY <2>3 DEF StopRunning, StopDrain, StartClear, StartOpen
    <3> QED BY <1>1, <1>2, <3>1, OpTypes DEF OpTyped
  <2> QED BY <2>1, <2>2, <2>3 DEF OpStep
<1>7. MapTyped'
  <2>1. CASE StopDrain
    BY <1>1, <2>1, AllClosedTyped DEF StopDrain
  <2>2. CASE StartClear
    BY <1>1, <2>2 DEF StartClear, MapTyped, Opt
  <2>3. CASE DropDeselected /\ flow # None /\ flow' = None /\ fl' = Closed(flow)
    <3>1. flow \in Ids
      BY <1>1, <2>3 DEF MapTyped, Opt
    <3> QED BY <1>1, <2>3, <3>1, ClosedTyped
  <2>4. CASE UNCHANGED <<flow, fl>>
    BY <1>1, <2>4 DEF MapTyped
  <2>5. CASE StopRunning \/ StartOpen \/ ClearDirect \/ DropDeselected
    BY <2>3, <2>4, <2>5 DEF StopRunning, StartOpen, ClearDirect, DropDeselected, flowVars
  <2> QED BY <2>1, <2>2, <2>5 DEF OpStep
<1> QED BY <1>3, <1>5, <1>6, <1>7, TypePartsNext

LEMMA TypeStep == TypeInv /\ [Next]_vars => TypeInv'
<1> SUFFICES ASSUME TypeInv, [Next]_vars PROVE TypeInv'
    OBVIOUS
<1>1. CASE UNCHANGED vars
  BY <1>1 DEF TypeInv, TypeOK, TaskOK, vars, opVars, flowVars, sockVars, viewVars, ghosts
<1>2. ASSUME NEW l \in Loops, Arrive(l) \/ LoopStep(l) PROVE TypeInv'
  <2>1. CASE DialFails(l)
    <3>1. /\ OpTyped /\ MapTyped /\ DirectTyped
          /\ ViewTyped /\ LoopsTyped /\ GhostsTyped
      BY TypeParts
    <3>2. OpTyped' /\ MapTyped' /\ DirectTyped' /\ ViewTyped'
      BY <2>1, <3>1 DEF DialFails, OpTyped, MapTyped, DirectTyped, ViewTyped,
                        opVars, flowVars, sockVars, viewVars
    <3> QED BY <2>1, <3>1, <3>2, DropTyped, TypePartsNext DEF DialFails
  <2> QED BY <1>2, <2>1, ArriveTyped, LookTyped, DecideTyped, StoreDirectTyped, InstallTyped, WriteTyped,
             EvictTyped DEF LoopStep
<1> QED BY <1>1, <1>2, MachineTyped, SweepTyped, ReaderTyped, SupervisorTyped, RequestTyped,
           OpStepTyped, Zenon DEF Next

(* The maps, the loops and the operation of UdpFlows keep their types.     *)
THEOREM UdpTypeCorrect == Spec => []TypeOK
<1>1. TypeInv => TypeOK
  BY DEF TypeInv
<1> QED BY <1>1, TypeInit, TypeStep, PTL DEF Spec

---------------------------------------------------------------------------
(* Tunnel sockets                                                          *)

(* Outside of a run nothing is in the map, and what a loop may still have  *)
(* in hand finds the map barred; before the first run no loop has begun.   *)
Barred == flow = None /\ (stopped \/ \A l \in Loops : loop[l].pc = "idle")
LeakInv ==
    /\ TypeInv
    /\ \A i \in Ids : fl[i].conn = "open" => flow = i
    /\ ~running /\ op.pc \in {"idle", "clear", "drop", "start"} => Barred
    /\ op.pc = "start" => ~running

LEMMA LeakInit == Init => LeakInv
BY TypeInit DEF Init, LeakInv, Barred, NoFlow, Resting, OpIdle

(* What the map loses is closed, what it gets is open.                     *)
Kept == \A i \in Ids : (fl[i].conn = "open")' => (flow = i)'

LEMMA ClosedKept ==
    ASSUME LeakInv, NEW i \in Ids, fl' = Closed(i), (flow' = None /\ flow \in {i, None}) \/ flow' = flow
    PROVE  Kept
<1>1. fl'[i].conn = "closed" /\ \A j \in Ids \ {i} : fl'[j] = fl[j]
  BY DEF Closed, LeakInv, TypeInv, TypeOK, NoFlow
<1> QED BY <1>1 DEF LeakInv, Kept

LEMMA AllClosedKept ==
    ASSUME LeakInv, fl' = AllClosed, flow' = None
    PROVE  Kept
<1>1. CASE flow = None
  BY <1>1, UdpAssumption DEF AllClosed, LeakInv, Kept, Ids
<1>2. CASE flow # None
  <2>1. flow \in Ids /\ fl' = Closed(flow)
    BY <1>2 DEF AllClosed, LeakInv, TypeInv, TypeOK, Opt
  <2> QED BY <2>1, ClosedKept
<1> QED BY <1>1, <1>2

LEMMA UncarriedPlaces ==
    ASSUME TypeInv, Uncarried, NEW l \in Loops
    PROVE  loop'[l].pc = loop[l].pc
BY DEF Uncarried, TypeInv, TypeOK, Tasks

(* Every step but those of opMu's operations.                              *)
LEMMA BarredKept ==
    ASSUME LeakInv, UNCHANGED <<running, op>>, flow' \in {flow, None}, stopped' \in {stopped, TRUE},
           \/ loop' = loop
           \/ running
           \/ \E l \in Loops : loop[l].pc # "idle"
           \/ \A l \in Loops : loop'[l].pc = loop[l].pc,
           Kept, TypeInv'
    PROVE  LeakInv'
BY DEF LeakInv, Barred, Kept, TypeInv, TypeOK

LEMMA InstallKept ==
    ASSUME LeakInv, NEW l \in Loops, Install(l), TypeInv'
    PROVE  LeakInv'
<1>1. /\ UNCHANGED <<running, op, stopped>> /\ loop[l].pc = "dial"
  BY DEF Install, opVars
<1> DEFINE W == [Wasted EXCEPT !.reading = TRUE]
           D == Dialled(l)
<1>2. W.conn = "closed" /\ W \in Flows
  BY NoFlowTyped DEF Flows
<1>3. PICK i \in Ids :
        /\ Next1(i)
        /\ \/ fl' = [fl EXCEPT ![i] = Wasted] /\ UNCHANGED flow
           \/ ~stopped /\ flow = None /\ fl' = [fl EXCEPT ![i] = D] /\ flow' = i
           \/ fl' = [fl EXCEPT ![i] = W] /\ UNCHANGED flow
  BY DEF Install
<1> HIDE DEF W, D
<1>4. i # None /\ fl[i].conn = "none"
  BY <1>3, UdpAssumption DEF Next1, Ids
<1>0. flow \in Opt(Ids) /\ fl \in [Ids -> Flows] /\ \A j \in Ids : fl[j].conn = "open" => flow = j
  BY DEF LeakInv, TypeInv, TypeOK
<1>5. Kept
  <2>1. CASE UNCHANGED flow /\ fl'[i].conn # "open" /\ \A j \in Ids \ {i} : fl'[j] = fl[j]
    BY <1>0, <2>1 DEF Kept
  <2>2. CASE flow = None /\ flow' = i /\ fl' = [fl EXCEPT ![i] = D]
    <3>1. \A j \in Ids \ {i} : fl'[j] = fl[j] /\ None # j
      BY <1>0, <2>2, UdpAssumption DEF Ids
    <3> QED BY <1>0, <2>2, <3>1 DEF Kept
  <2> QED BY <1>0, <1>2, <1>3, NoFlowTyped, <2>1, <2>2
<1>6. CASE UNCHANGED flow
  BY <1>1, <1>5, <1>6, BarredKept
<1>7. CASE ~stopped
  BY <1>1, <1>5, <1>7 DEF LeakInv, Barred, Kept
<1> QED BY <1>3, <1>6, <1>7

LEMMA LoopKept ==
    ASSUME LeakInv, NEW l \in Loops, Arrive(l) \/ LoopStep(l), TypeInv'
    PROVE  LeakInv'
<1>1. CASE Arrive(l)
  BY <1>1, BarredKept DEF Arrive, LeakInv, Kept, opVars, flowVars
<1>2. CASE Evict(l)
  <2>1. loop[l].id \in Ids
    BY <1>2 DEF Evict, LeakInv, TypeInv, TypeOK, TaskOK, Tasks, Opt
  <2>2. Kept
    BY <1>2, <2>1, ClosedKept DEF Evict
  <2> QED BY <1>2, <2>2, BarredKept DEF Evict, opVars
<1>3. CASE RetireStale(l) \/ LookUp(l) \/ Decide(l) \/ StoreDirect(l) \/ DialFails(l) \/ Write(l)
  <2>1. UNCHANGED <<running, op, stopped, flow, fl>> /\ loop[l].pc # "idle"
    BY <1>3 DEF RetireStale, LookUp, Decide, StoreDirect, DialFails, Write, opVars, flowVars
  <2> QED BY <2>1, BarredKept DEF LeakInv, Kept
<1> QED BY <1>1, <1>2, <1>3, InstallKept DEF LoopStep

LEMMA OtherKept ==
    ASSUME LeakInv, TypeInv',
           \/ Unbind \/ Refresh \/ Prune \/ PublishLive \/ CapEvicts \/ TunnelCloses \/ GiveUpCapture
           \/ \E pid \in Pids : Bind(pid)
           \/ \E i \in Ids : ReaderEnds(i)
           \/ \E idle \in BOOLEAN : Sweep(idle)
    PROVE  LeakInv'
<1>0. flow \in Opt(Ids) /\ fl \in [Ids -> Flows] /\ loop \in [Loops -> Tasks]
  BY DEF LeakInv, TypeInv, TypeOK
<1>1. CASE Refresh \/ Prune \/ PublishLive \/ \E pid \in Pids : Bind(pid)
  <2>1. UNCHANGED <<running, op, stopped, flow, fl, loop>>
    BY <1>1 DEF Refresh, Prune, PublishLive, Bind, opVars, flowVars
  <2> QED BY <2>1, BarredKept DEF LeakInv, Kept
<1>2. CASE Unbind
  <2>1. /\ UNCHANGED <<running, op, stopped, flow>>
        /\ \A i \in Ids : fl'[i].conn = fl[i].conn
        /\ \A l \in Loops : loop'[l].pc = loop[l].pc
    BY <1>0, <1>2 DEF Unbind, opVars, Flows, Tasks
  <2> QED BY <2>1, BarredKept DEF LeakInv, Kept
<1>3. CASE TunnelCloses
  <2>1. /\ UNCHANGED <<running, op, stopped, flow, loop>>
        /\ \A i \in Ids : fl'[i].conn # "open"
    BY <1>0, <1>3 DEF TunnelCloses, opVars, Flows
  <2> QED BY <2>1, BarredKept DEF Kept
<1>4. CASE GiveUpCapture
  <2>1. \A l \in Loops : loop'[l].pc = loop[l].pc
    BY <1>4, UncarriedPlaces DEF GiveUpCapture, LeakInv
  <2> QED BY <1>4, <2>1, AllClosedKept, BarredKept DEF GiveUpCapture, opVars
<1>5. CASE CapEvicts
  BY <1>0, <1>5, ClosedKept, BarredKept DEF CapEvicts, opVars, Opt
<1>6. ASSUME NEW i \in Ids, ReaderEnds(i) PROVE LeakInv'
  <2>1. UNCHANGED <<running, op, stopped, loop>> /\ flow' \in {flow, None}
    BY <1>6 DEF ReaderEnds, opVars
  <2>2. Kept
    BY <1>0, <1>6, NoFlowTyped DEF ReaderEnds, Kept, LeakInv
  <2> QED BY <2>1, <2>2, BarredKept
<1>7. ASSUME NEW idle \in BOOLEAN, Sweep(idle) PROVE LeakInv'
  <2>1. UNCHANGED <<running, op, stopped, loop>> /\ flow' \in {flow, None}
    BY <1>7 DEF Sweep, opVars
  <2>2. CASE UNCHANGED <<flow, fl>>
    BY <2>1, <2>2, BarredKept DEF LeakInv, Kept
  <2>3. CASE flow # None /\ flow' = None /\ fl' = Closed(flow)
    BY <1>0, <2>1, <2>3, ClosedKept, BarredKept DEF Opt
  <2>4. CASE /\ flow # None /\ flow' = flow
             /\ \E m, o : fl' = [fl EXCEPT ![flow].miss = m, ![flow].ownerMiss = o]
    <3>1. \A i \in Ids : fl'[i].conn = fl[i].conn
      BY <1>0, <2>4 DEF Flows
    <3> QED BY <2>1, <2>4, <3>1, BarredKept DEF LeakInv, Kept
  <2> QED BY <1>7, <2>2, <2>3, <2>4 DEF Sweep
<1> QED BY <1>1, <1>2, <1>3, <1>4, <1>5, <1>6, <1>7

(* The operations: a run ends with the map emptied and barred, and a start *)
(* that cleared the bar succeeds.                                          *)
LEMMA OpKept ==
    ASSUME LeakInv, TypeInv', StartsSucceed,
           OpStep \/ Suspend \/ \E names \in SUBSET Apps : SetApps(names)
    PROVE  LeakInv'
<1>0. /\ flow \in Opt(Ids) /\ running \in BOOLEAN
      /\ op \in [pc : {"idle", "start", "open", "stop", "pause", "drain", "pauseDrain",
                       "clear", "drop"}, drop : Opt(Pids)]
  BY DEF LeakInv, TypeInv, TypeOK
<1>1. CASE Suspend \/ \E names \in SUBSET Apps : SetApps(names)
  <2>1. UNCHANGED <<running, flow, stopped, fl>> /\ \A l \in Loops : loop'[l].pc = loop[l].pc
    BY <1>1, UncarriedPlaces DEF Suspend, SetApps, flowVars, LeakInv
  <2>2. /\ op.pc = "idle" /\ op'.pc \in {"start", "stop", "clear", "pause"}
        /\ op'.pc = "start" => ~running
    BY <1>0, <1>1 DEF Suspend, SetApps, OpTo
  <2> QED BY <2>1, <2>2 DEF LeakInv, Barred
<1>2. CASE StopRunning
  <2>1. UNCHANGED <<flow, stopped, fl, loop>> /\ op'.pc \in {"drain", "pauseDrain"}
    BY <1>0, <1>2 DEF StopRunning, OpTo, flowVars
  <2> QED BY <2>1 DEF LeakInv
<1>3. CASE StopDrain
  <2>1. Kept
    BY <1>3, AllClosedKept DEF StopDrain
  <2>2. stopped' /\ flow' = None /\ op'.pc # "start"
    BY <1>0, <1>3 DEF StopDrain, OpTo
  <2> QED BY <2>1, <2>2 DEF LeakInv, Kept, Barred
<1>4. CASE StartClear
  <2>1. op'.pc = "open" /\ UNCHANGED <<running, fl>> /\ flow' = None
    BY <1>0, <1>4 DEF StartClear, OpTo
  <2>2. flow = None
    BY <1>4 DEF StartClear, LeakInv, Barred
  <2> QED BY <2>1, <2>2 DEF LeakInv
<1>5. CASE StartOpen
  <2>1. running' = TRUE /\ UNCHANGED <<flow, fl>> /\ op'.pc # "start"
    BY <1>0, <1>5 DEF StartOpen, OpTo, flowVars
  <2> QED BY <2>1 DEF LeakInv
<1>6. CASE ClearDirect
  <2>1. op.pc = "clear" /\ UNCHANGED <<running, flow, stopped, fl, loop>> /\ op'.pc # "start"
    BY <1>6 DEF ClearDirect
  <2> QED BY <2>1 DEF LeakInv, Barred
<1>7. CASE DropDeselected
  <2>1. /\ op.pc = "drop" /\ UNCHANGED <<running, stopped, loop>> /\ flow' \in {flow, None}
        /\ op'.pc # "start"
    BY <1>7 DEF DropDeselected, OpIdle
  <2>2. Kept
    BY <1>0, <1>7, ClosedKept DEF DropDeselected, LeakInv, Kept, Opt
  <2> QED BY <2>1, <2>2 DEF LeakInv, Kept, Barred
<1> QED BY <1>1, <1>2, <1>3, <1>4, <1>5, <1>6, <1>7 DEF OpStep

LEMMA LeakStep == StartsSucceed /\ LeakInv /\ [Next]_vars => LeakInv'
<1> SUFFICES ASSUME StartsSucceed, LeakInv, [Next]_vars PROVE LeakInv'
    OBVIOUS
<1>1. TypeInv'
  BY TypeStep DEF LeakInv
<1>2. CASE UNCHANGED vars
  BY <1>1, <1>2 DEF LeakInv, Barred, vars, opVars, flowVars
<1> QED BY <1>1, <1>2, LoopKept, OtherKept, OpKept, Zenon DEF Next

(* Every tunnel socket that is open is in the map, and none is when no run *)
(* is on, if a start never fails half-way (see the run udp_leak).          *)
THEOREM NoLeakedSocketHolds == StartsSucceed => (Spec => []NoLeakedSocket)
<1> SUFFICES ASSUME StartsSucceed PROVE Spec => []NoLeakedSocket
    OBVIOUS
<1>1. LeakInv => NoLeakedSocket
  BY DEF LeakInv, Barred, NoLeakedSocket
<1>2. LeakInv /\ [Next]_vars => LeakInv'
  BY LeakStep
<1> QED BY <1>1, <1>2, LeakInit, PTL DEF Spec


---------------------------------------------------------------------------
(* What a step does to the flows, to the datagrams in hand, and to what    *)
(* the engine sees                                                         *)

AllFormer ==
    /\ \A l \in Loops : loop[l].of = "former"
    /\ \A i \in Ids : fl[i].of = "former"

FlowKept(i) ==
    fl'[i].of # "former" =>
        /\ fl'[i].of = fl[i].of /\ fl'[i].pid = fl[i].pid
        /\ fl'[i].miss = fl[i].miss /\ fl'[i].ownerMiss = fl[i].ownerMiss
FlowsKept == flow' \in {flow, None} /\ \A i \in Ids : FlowKept(i)

LoopsKept ==
    \A l \in Loops :
        /\ loop'[l].of \in {"former", "current", loop[l].of}
        /\ loop[l].of = "former" => loop'[l].of = "former"
        /\ loop'[l].pc \in {"dial", "direct"} => loop'[l].pc = loop[l].pc /\ loop'[l].pid = loop[l].pid

Operate == OpStep \/ Suspend \/ \E names \in SUBSET Apps : SetApps(names)
Machine == Unbind \/ Refresh \/ Prune \/ PublishLive \/ \E pid \in Pids : Bind(pid)
Retire == CapEvicts \/ TunnelCloses \/ GiveUpCapture \/ \E i \in Ids : ReaderEnds(i)

LEMMA NoFlowFormer == NoFlow.of = "former" /\ Wasted.of = "former"
<1>1. NoFlow.of = "former"
  BY DEF NoFlow
<1> QED BY <1>1 DEF Wasted, NoFlow

LEMMA UnchangedFlows ==
    ASSUME flow' \in {flow, None}, UNCHANGED fl
    PROVE  FlowsKept
BY DEF FlowsKept, FlowKept

LEMMA ClosedFlows ==
    ASSUME TypeInv, NEW i \in Ids, flow' \in {flow, None}, fl' = Closed(i)
    PROVE  FlowsKept
<1>1. fl'[i].of = "former" /\ \A j \in Ids \ {i} : fl'[j] = fl[j]
  BY DEF Closed, TypeInv, TypeOK, NoFlow
<1> QED BY <1>1 DEF FlowsKept, FlowKept

LEMMA AllClosedFlows ==
    ASSUME TypeInv, flow' = None, fl' = AllClosed
    PROVE  FlowsKept
<1>1. CASE flow = None
  BY <1>1, UnchangedFlows DEF AllClosed
<1>2. CASE flow # None
  <2>1. flow \in Ids /\ fl' = Closed(flow)
    BY <1>2 DEF AllClosed, TypeInv, TypeOK, Opt
  <2> QED BY <2>1, ClosedFlows
<1> QED BY <1>1, <1>2

LEMMA OperateFlows ==
    ASSUME TypeInv, Operate
    PROVE  FlowsKept
<1>1. CASE StopDrain
  BY <1>1, AllClosedFlows DEF StopDrain
<1>2. CASE DropDeselected
  <2>1. CASE flow # None /\ flow' = None /\ fl' = Closed(flow)
    <3>1. flow \in Ids
      BY <2>1 DEF TypeInv, TypeOK, Opt
    <3> QED BY <2>1, <3>1, ClosedFlows
  <2>2. CASE UNCHANGED <<flow, fl>>
    BY <2>2, UnchangedFlows
  <2> QED BY <1>2, <2>1, <2>2 DEF DropDeselected
<1>3. CASE StartClear
  BY <1>3, UnchangedFlows DEF StartClear
<1>4. CASE StopRunning \/ StartOpen \/ ClearDirect \/ Suspend \/ \E names \in SUBSET Apps : SetApps(names)
  <2>1. UNCHANGED <<flow, fl>>
    BY <1>4 DEF StopRunning, StartOpen, ClearDirect, Suspend, SetApps, flowVars
  <2> QED BY <2>1, UnchangedFlows
<1> QED BY <1>1, <1>2, <1>3, <1>4 DEF Operate, OpStep

LEMMA MachineFlows ==
    ASSUME TypeInv, Machine
    PROVE  FlowsKept
<1>1. CASE Unbind
  <2>1. UNCHANGED flow /\ \A i \in Ids : fl'[i].of = "former"
    BY <1>1 DEF Unbind, TypeInv, TypeOK, Flows
  <2> QED BY <2>1 DEF FlowsKept, FlowKept
<1>2. CASE ~Unbind
  <2>1. UNCHANGED <<flow, fl>>
    BY <1>2 DEF Machine, Refresh, Prune, PublishLive, Bind, flowVars
  <2> QED BY <2>1, UnchangedFlows
<1> QED BY <1>1, <1>2

LEMMA RetireFlows ==
    ASSUME TypeInv, Retire
    PROVE  FlowsKept
<1>0. flow \in Opt(Ids) /\ fl \in [Ids -> Flows]
  BY DEF TypeInv, TypeOK
<1>1. CASE CapEvicts
  <2>1. flow \in Ids /\ flow' = None /\ fl' = Closed(flow)
    BY <1>0, <1>1 DEF CapEvicts, Opt
  <2> QED BY <2>1, ClosedFlows
<1>2. CASE GiveUpCapture
  BY <1>2, AllClosedFlows DEF GiveUpCapture
<1>3. CASE TunnelCloses
  <2>1. UNCHANGED flow /\ \A i \in Ids : FlowKept(i)
    BY <1>0, <1>3 DEF TunnelCloses, FlowKept, Flows
  <2> QED BY <2>1 DEF FlowsKept
<1>4. ASSUME NEW i \in Ids, ReaderEnds(i) PROVE FlowsKept
  <2>1. flow' \in {flow, None} /\ fl' = [fl EXCEPT ![i] = Wasted]
    BY <1>4 DEF ReaderEnds
  <2> QED BY <1>0, <2>1, NoFlowFormer DEF FlowsKept, FlowKept
<1> QED BY <1>1, <1>2, <1>3, <1>4 DEF Retire

(* The steps of a loop but Install.                                        *)
LEMMA LoopFlows ==
    ASSUME TypeInv, NEW l \in Loops,
           \/ Arrive(l) \/ RetireStale(l) \/ LookUp(l) \/ Decide(l) \/ StoreDirect(l)
           \/ DialFails(l) \/ Write(l) \/ Evict(l)
    PROVE  FlowsKept
<1>1. CASE Evict(l)
  <2>1. loop[l].id \in Ids
    BY <1>1 DEF Evict, TypeInv, TypeOK, TaskOK, Tasks, Opt
  <2> QED BY <1>1, <2>1, ClosedFlows DEF Evict
<1>2. CASE ~Evict(l)
  <2>1. UNCHANGED <<flow, fl>>
    BY <1>2 DEF Arrive, RetireStale, LookUp, Decide, StoreDirect, DialFails, Write, flowVars
  <2> QED BY <2>1, UnchangedFlows
<1> QED BY <1>1, <1>2

(* The flow dialled is the loop's own or comes to nothing; one that was in *)
(* the map stays as it was.                                                *)
LEMMA InstallFlows ==
    ASSUME TypeInv, NEW l \in Loops, Install(l)
    PROVE  \E i \in Ids :
              /\ \A j \in Ids \ {i} : fl'[j] = fl[j]
              /\ \/ UNCHANGED flow /\ flow # i /\ fl'[i].of = "former"
                 \/ /\ flow' = i /\ (fl'[i].of = "former" <=> loop[l].of = "former")
                    /\ fl'[i].pid = loop[l].pid
                    /\ fl'[i].miss = 0 /\ fl'[i].ownerMiss = 0
<1> DEFINE W == [Wasted EXCEPT !.reading = TRUE]
           D == Dialled(l)
<1>1. W.of = "former"
  BY NoFlowFormer, NoFlowTyped DEF Flows
<1>2. /\ D.of = "former" <=> loop[l].of = "former"
      /\ D.pid = loop[l].pid /\ D.miss = 0 /\ D.ownerMiss = 0
  BY DEF Dialled, NoFlow
<1>3. PICK i \in Ids :
        /\ Next1(i)
        /\ \/ fl' = [fl EXCEPT ![i] = Wasted] /\ UNCHANGED flow
           \/ fl' = [fl EXCEPT ![i] = D] /\ flow' = i
           \/ fl' = [fl EXCEPT ![i] = W] /\ UNCHANGED flow
  BY DEF Install
<1> HIDE DEF W, D
<1>4. fl[i].conn = "none"
  BY <1>3 DEF Next1, Ids
<1>5. flow # i
  BY <1>4, UdpAssumption DEF TypeInv, TypeOK, Ids
<1>6. fl \in [Ids -> Flows]
  BY DEF TypeInv, TypeOK
<1>7. \A j \in Ids \ {i} : fl'[j] = fl[j]
  BY <1>3, <1>6
<1> QED BY <1>1, <1>2, <1>3, <1>5, <1>6, <1>7, NoFlowFormer

LEMMA UncarriedLoops ==
    ASSUME TypeInv, Uncarried
    PROVE  LoopsKept /\ \A l \in Loops : loop'[l].of # "tunnelled"
BY DEF Uncarried, LoopsKept, TypeInv, TypeOK, Tasks

LEMMA RestLoops ==
    ASSUME TypeInv, NEW l \in Loops, Rest(l)
    PROVE  LoopsKept
<1>1. Resting.of = "former" /\ Resting.pc = "idle"
  BY DEF Resting
<1>2. loop \in [Loops -> Tasks] /\ loop' = [loop EXCEPT ![l] = Resting]
  BY DEF Rest, TypeInv, TypeOK
<1>3. loop'[l] = Resting /\ \A k \in Loops \ {l} : loop'[k] = loop[k]
  BY <1>2
<1> QED BY <1>1, <1>3 DEF LoopsKept

(* Every step but those of a loop that takes up or decides its datagram.   *)
LEMMA OtherLoops ==
    ASSUME TypeInv, Operate \/ Machine \/ Retire \/ \E idle \in BOOLEAN : Sweep(idle)
    PROVE  LoopsKept
<1>1. CASE Unbind
  BY <1>1 DEF Unbind, LoopsKept, TypeInv, TypeOK, Tasks
<1>2. CASE ~Unbind
  <2>1. CASE Operate
    <3>1. UNCHANGED loop \/ Uncarried
      BY <2>1 DEF Operate, OpStep, StopRunning, StopDrain, StartClear, StartOpen, ClearDirect,
                  DropDeselected, Suspend, SetApps
    <3> QED BY <3>1, UncarriedLoops DEF LoopsKept
  <2>2. CASE Machine
    <3>1. UNCHANGED loop
      BY <1>2, <2>2 DEF Machine, Refresh, Prune, PublishLive, Bind
    <3> QED BY <3>1 DEF LoopsKept
  <2>3. CASE Retire \/ \E idle \in BOOLEAN : Sweep(idle)
    <3>1. UNCHANGED loop \/ Uncarried
      BY <2>3 DEF Retire, CapEvicts, TunnelCloses, GiveUpCapture, ReaderEnds, Sweep
    <3> QED BY <3>1, UncarriedLoops DEF LoopsKept
  <2> QED BY <2>1, <2>2, <2>3
<1> QED BY <1>1, <1>2

LEMMA WorkLoops ==
    ASSUME TypeInv, NEW l \in Loops,
           \/ RetireStale(l) \/ LookUp(l) \/ StoreDirect(l)
           \/ DialFails(l) \/ Install(l) \/ Write(l) \/ Evict(l)
    PROVE  LoopsKept
<1>1. CASE Rest(l)
  BY <1>1, RestLoops
<1>2. CASE \E pc \in {"lookup", "decide", "evict"} : At(l, pc)
  BY <1>2 DEF At, LoopsKept, TypeInv, TypeOK, Tasks
<1>3. CASE LookUp(l)
  <2>1. CASE loop' = [loop EXCEPT ![l].pc = "write", ![l].id = flow]
    BY <2>1 DEF LoopsKept, TypeInv, TypeOK, Tasks
  <2> QED BY <1>1, <1>2, <1>3, <2>1 DEF LookUp, Pass
<1>4. CASE StoreDirect(l)
  <2>1. Resting.of = "former" /\ Resting.pc = "idle"
    BY DEF Resting
  <2>2. \A k \in Loops : loop'[k] = Resting \/ loop'[k] = loop[k]
           \/ /\ loop'[k].pc = "lookup" /\ loop'[k].of \in {"current", loop[k].of}
              /\ loop[k].of = "former" => loop'[k].of = "former"
    BY <1>4 DEF StoreDirect, Overtaken, TypeInv, TypeOK, Tasks
  <2> QED BY <2>1, <2>2 DEF LoopsKept
<1> QED BY <1>1, <1>2, <1>3, <1>4
        DEF RetireStale, DialFails, Install, Write, Evict, Pass, Drop, Carry

(* The loop that decides keeps its datagram's source.                      *)
LEMMA DecideLoops ==
    ASSUME TypeInv, NEW l \in Loops, Decide(l)
    PROVE  \/ LoopsKept
           \/ \E pid \in Pids, pc \in {"direct", "dial"} :
                /\ \A k \in Loops \ {l} : loop'[k] = loop[k]
                /\ loop'[l] = [loop[l] EXCEPT !.pc = pc, !.pid = pid]
                /\ pc = "direct" => pid \notin apps
                /\ UNCHANGED ghosts
                /\ (pid = UdpPID /\ UNCHANGED table) \/ (pid = owner /\ table' = owner)
<1>0. loop \in [Loops -> Tasks]
  BY DEF TypeInv, TypeOK
<1>1. CASE Rest(l)
  BY <1>1, RestLoops
<1>2. ASSUME NEW pid \in Pids, Named(l, pid), ~Rest(l),
             (pid = UdpPID /\ UNCHANGED table) \/ (pid = owner /\ table' = owner)
      PROVE  \E pc \in {"direct", "dial"} :
                /\ \A k \in Loops \ {l} : loop'[k] = loop[k]
                /\ loop'[l] = [loop[l] EXCEPT !.pc = pc, !.pid = pid]
                /\ pc = "direct" => pid \notin apps
                /\ UNCHANGED ghosts
  <2>1. CASE pid \notin apps
    BY <1>0, <1>2, <2>1 DEF Named, Drop
  <2>2. CASE pid \in apps
    BY <1>0, <1>2, <2>2 DEF Named, Drop
  <2> QED BY <2>1, <2>2
<1>3. CASE \E pid \in Pids : /\ Named(l, pid)
                             /\ (pid = UdpPID /\ UNCHANGED table) \/ (pid = owner /\ table' = owner)
  BY <1>1, <1>2, <1>3
<1>4. CASE Unresolved(l)
  BY <1>1, <1>4 DEF Unresolved, Pass, Drop
<1> QED BY <1>3, <1>4 DEF Decide

(* The steps of a loop never change who owns the port, nor does any step   *)
(* of the engine.                                                          *)
LEMMA LoopViews ==
    ASSUME NEW l \in Loops, Arrive(l) \/ LoopStep(l)
    PROVE  UNCHANGED <<owner, sock, fresh, apps, running, stopped, op>> /\ table' \in {table, owner}
BY DEF LoopStep, Arrive, RetireStale, LookUp, Decide, StoreDirect, DialFails, Install, Write, Evict,
       opVars, flowVars, sockVars, viewVars

LEMMA OperateViews ==
    ASSUME Operate
    PROVE  /\ UNCHANGED <<owner, fresh>> /\ table' \in {table, owner}
           /\ table' = table \/ flow' = None
BY DEF Operate, OpStep, StopRunning, StopDrain, StartClear, StartOpen, ClearDirect, DropDeselected,
       Suspend, SetApps, sockVars, viewVars

LEMMA RetireViews ==
    ASSUME Retire
    PROVE  UNCHANGED <<owner, table, sock, fresh>>
BY DEF Retire, CapEvicts, TunnelCloses, GiveUpCapture, ReaderEnds, sockVars, viewVars

(* What is of a former socket stays so until a loop takes up a datagram.   *)
LEMMA FormerKept ==
    ASSUME TypeInv, [Next]_vars, AllFormer
    PROVE  AllFormer' \/ \E l \in Loops : Arrive(l)
<1>1. ASSUME FlowsKept, LoopsKept PROVE AllFormer'
  BY <1>1 DEF FlowsKept, FlowKept, LoopsKept, AllFormer
<1>2. CASE UNCHANGED vars
  BY <1>2 DEF AllFormer, vars, flowVars
<1>3. CASE Operate \/ Machine \/ Retire
  BY <1>1, <1>3, OtherLoops, OperateFlows, MachineFlows, RetireFlows
<1>4. ASSUME NEW idle \in BOOLEAN, Sweep(idle) PROVE AllFormer'
  <2>1. UNCHANGED loop
    BY <1>4 DEF Sweep
  <2>2. \A i \in Ids : fl'[i].of = "former"
    <3>1. CASE UNCHANGED <<flow, fl>>
      BY <3>1 DEF AllFormer
    <3>2. CASE flow # None /\ flow' = None /\ fl' = Closed(flow)
      <4>1. FlowsKept
        BY <3>2, ClosedFlows DEF TypeInv, TypeOK, Opt
      <4> QED BY <4>1 DEF FlowsKept, FlowKept, AllFormer
    <3>3. CASE \E m, o : fl' = [fl EXCEPT ![flow].miss = m, ![flow].ownerMiss = o]
      BY <3>3 DEF AllFormer, TypeInv, TypeOK, Flows
    <3> QED BY <1>4, <3>1, <3>2, <3>3 DEF Sweep
  <2> QED BY <2>1, <2>2 DEF AllFormer
<1>5. ASSUME NEW l \in Loops, LoopStep(l) PROVE AllFormer'
  <2>1. CASE Install(l)
    <3>1. LoopsKept
      BY <2>1, WorkLoops
    <3>2. \A k \in Loops : loop'[k].of = "former"
      BY <3>1 DEF LoopsKept, AllFormer
    <3>3. \A i \in Ids : fl'[i].of = "former"
      BY <2>1, InstallFlows DEF AllFormer
    <3> QED BY <3>2, <3>3 DEF AllFormer
  <2>2. CASE Decide(l)
    <3>1. FlowsKept
      BY <2>2, LoopFlows
    <3>2. \A k \in Loops : loop'[k].of = "former"
      <4>1. CASE LoopsKept
        BY <4>1 DEF LoopsKept, AllFormer
      <4>2. CASE ~LoopsKept
        <5>1. PICK pid \in Pids, pc \in {"direct", "dial"} :
                /\ \A k \in Loops \ {l} : loop'[k] = loop[k]
                /\ loop'[l] = [loop[l] EXCEPT !.pc = pc, !.pid = pid]
          BY <2>2, <4>2, DecideLoops
        <5>2. loop'[l].of = loop[l].of
          BY <5>1 DEF TypeInv, TypeOK, Tasks
        <5> QED BY <5>1, <5>2 DEF AllFormer
      <4> QED BY <4>1, <4>2
    <3> QED BY <3>1, <3>2 DEF AllFormer, FlowsKept, FlowKept
  <2>3. CASE ~Install(l) /\ ~Decide(l)
    BY <1>1, <1>5, <2>3, LoopFlows, WorkLoops DEF LoopStep
  <2> QED BY <2>1, <2>2, <2>3
<1> QED BY <1>2, <1>3, <1>4, <1>5 DEF Next, Operate, Machine, Retire

---------------------------------------------------------------------------
(* A live flow survives the sweep                                          *)

(* Nothing is of a socket that is not there; and once a walk of the tables *)
(* is newer than the strikes of a live flow, it names the port's owner.    *)
StruckBefore(i) == fl[i].of # "former" /\ (fl[i].miss # 0 \/ fl[i].ownerMiss # 0)
OwnedInv ==
    /\ TypeInv
    /\ owner = None => AllFormer
    /\ flow # None /\ fresh /\ StruckBefore(flow) => table = owner

LEMMA OwnedInit == Init => OwnedInv
BY TypeInit DEF Init, OwnedInv, AllFormer, Resting, NoFlow

LEMMA StruckKept ==
    ASSUME OwnedInv, FlowsKept, flow' # None, StruckBefore(flow)', fresh
    PROVE  table = owner
<1>1. flow' = flow /\ flow \in Ids
  BY DEF FlowsKept, OwnedInv, TypeInv, TypeOK, Opt
<1>2. StruckBefore(flow)
  BY <1>1 DEF FlowsKept, FlowKept, StruckBefore
<1> QED BY <1>1, <1>2 DEF OwnedInv

LEMMA MachineOwned ==
    ASSUME OwnedInv, Machine, flow' # None, fresh', StruckBefore(flow)'
    PROVE  (table = owner)'
<1>0. TypeInv /\ FlowsKept
  BY MachineFlows DEF OwnedInv
<1>1. CASE Refresh
  BY <1>1 DEF Refresh, sockVars
<1>2. CASE Prune \/ PublishLive
  <2>1. UNCHANGED <<owner, table, fresh>>
    BY <1>2 DEF Prune, PublishLive, sockVars
  <2> QED BY <1>0, <2>1, StruckKept
<1>3. CASE Unbind \/ \E pid \in Pids : Bind(pid)
  <2>1. \A i \in Ids : fl'[i].of = "former"
    <3>1. CASE Unbind
      BY <1>0, <3>1 DEF Unbind, TypeInv, TypeOK, Flows
    <3>2. CASE \E pid \in Pids : Bind(pid)
      BY <3>2 DEF Bind, OwnedInv, AllFormer, flowVars
    <3> QED BY <1>3, <3>1, <3>2
  <2>2. flow \in Ids /\ flow' = flow
    BY <1>0 DEF FlowsKept, TypeInv, TypeOK, Opt
  <2> QED BY <2>1, <2>2 DEF StruckBefore
<1> QED BY <1>1, <1>2, <1>3 DEF Machine

LEMMA LoopOwned ==
    ASSUME OwnedInv, NEW l \in Loops, Arrive(l) \/ LoopStep(l),
           flow' # None, fresh', StruckBefore(flow)'
    PROVE  (table = owner)'
<1>0. TypeInv
  BY DEF OwnedInv
<1>1. UNCHANGED <<owner, fresh>> /\ table' \in {table, owner}
  BY LoopViews
<1>2. CASE Install(l)
  <2>1. PICK i \in Ids :
           /\ \A j \in Ids \ {i} : fl'[j] = fl[j]
           /\ \/ UNCHANGED flow /\ flow # i
              \/ flow' = i /\ fl'[i].miss = 0 /\ fl'[i].ownerMiss = 0
    BY <1>0, <1>2, InstallFlows
  <2>2. flow \in Ids /\ flow' = flow /\ fl'[flow] = fl[flow]
    BY <1>0, <2>1 DEF StruckBefore, TypeInv, TypeOK, Opt
  <2> QED BY <1>1, <2>2 DEF OwnedInv, StruckBefore
<1>3. CASE ~Install(l)
  BY <1>0, <1>1, <1>3, LoopFlows, StruckKept DEF LoopStep
<1> QED BY <1>2, <1>3

LEMMA OwnerStep ==
    ASSUME TypeInv, [Next]_vars, owner' = None, owner = None => AllFormer
    PROVE  AllFormer'
<1>1. CASE \E l \in Loops : Arrive(l)
  BY <1>1 DEF Arrive, sockVars
<1>2. CASE Unbind
  BY <1>2 DEF Unbind, AllFormer, TypeInv, TypeOK, Flows, Tasks
<1>3. CASE ~Unbind /\ ~ \E l \in Loops : Arrive(l)
  <2>1. owner = None
    <3>1. CASE Operate
      BY <3>1, OperateViews
    <3>2. CASE Machine
      BY <1>3, <3>2, UdpAssumption DEF Machine, Refresh, Prune, PublishLive, Bind, sockVars
    <3>3. CASE Retire
      BY <3>3, RetireViews
    <3>4. CASE \E l \in Loops : LoopStep(l)
      BY <3>4, LoopViews
    <3>5. CASE (\E idle \in BOOLEAN : Sweep(idle)) \/ UNCHANGED vars
      BY <3>5 DEF Sweep, vars, sockVars
    <3> QED BY <1>3, <3>1, <3>2, <3>3, <3>4, <3>5 DEF Next, Operate, Machine, Retire
  <2> QED BY <1>3, <2>1, FormerKept
<1> QED BY <1>1, <1>2, <1>3

LEMMA OwnedStep == OwnedInv /\ [Next]_vars => OwnedInv'
<1> SUFFICES ASSUME OwnedInv, [Next]_vars PROVE OwnedInv'
    OBVIOUS
<1>1. TypeInv /\ TypeInv'
  BY TypeStep DEF OwnedInv
<1>2. owner' = None => AllFormer'
  BY <1>1, OwnerStep DEF OwnedInv
<1>3. ASSUME flow' # None, fresh', StruckBefore(flow)' PROVE (table = owner)'
  <2>1. CASE Operate
    <3>1. UNCHANGED <<owner, fresh, table>>
      BY <1>3, <2>1, OperateViews
    <3> QED BY <1>1, <1>3, <2>1, <3>1, OperateFlows, StruckKept
  <2>2. CASE Machine
    BY <1>3, <2>2, MachineOwned
  <2>3. CASE Retire
    BY <1>1, <1>3, <2>3, RetireViews, RetireFlows, StruckKept
  <2>4. CASE \E idle \in BOOLEAN : Sweep(idle)
    BY <1>3, <2>4 DEF Sweep
  <2>5. CASE UNCHANGED vars
    BY <1>3, <2>5 DEF OwnedInv, StruckBefore, vars, flowVars, sockVars, viewVars
  <2> QED BY <1>3, <2>1, <2>2, <2>3, <2>4, <2>5, LoopOwned DEF Next, Operate, Machine, Retire
<1> QED BY <1>1, <1>2, <1>3 DEF OwnedInv

(* A sweep retires no flow whose socket is still the one it was built for, *)
(* however the tables lag behind the events the flow was built on.         *)
THEOREM KeepsLiveFlowHolds == Spec => KeepsLiveFlow
<1>1. ASSUME OwnedInv, Sweep(FALSE), flow # None, fl[flow].of # "former", fl[flow].pid = owner,
             owner # None
      PROVE  flow' = flow
  <2> DEFINE s == StrikesOf(fl[flow])
  <2>1. flow \in Ids /\ fl[flow].miss \in 0..1 /\ fl[flow].ownerMiss \in 0..1 /\ fresh
    BY <1>1 DEF OwnedInv, TypeInv, TypeOK, Opt, Flows, Sweep
  <2>2. CASE table = owner
    <3>1. s.miss = 0 /\ s.ownerMiss = 0
      BY <1>1, <2>2 DEF StrikesOf
    <3> QED BY <1>1, <3>1 DEF Sweep, Gone
  <2>3. CASE table # owner
    <3>1. fl[flow].miss = 0 /\ fl[flow].ownerMiss = 0
      BY <1>1, <2>1, <2>3 DEF OwnedInv, StruckBefore
    <3>2. s.miss \in 0..1 /\ s.ownerMiss \in 0..1
      BY <3>1 DEF StrikesOf
    <3>3. ~Gone(s)
      BY <3>2 DEF Gone
    <3> QED BY <1>1, <3>3 DEF Sweep
  <2> QED BY <2>2, <2>3
<1>2. OwnedInv /\ [Next]_vars
        => [Sweep(FALSE) /\ flow # None /\ owner # None /\ fl[flow].of # "former"
              /\ fl[flow].pid = owner => flow' = flow]_vars
  BY <1>1
<1> QED BY <1>2, OwnedInit, OwnedStep, PTL DEF Spec, KeepsLiveFlow

---------------------------------------------------------------------------
(* Once tunnelled, never in the clear                                      *)

Known == table = owner \/ (table = None /\ sock = owner)
Ours(f) == f.of # "former" /\ f.pid = owner

(* A datagram that was taken up after one was carried, a dial and a flow   *)
(* for the port's owner: each shows that the engine knows the owner.       *)
Witness ==
    \/ carried
    \/ \E l \in Loops : loop[l].of = "tunnelled" \/ (loop[l].pc = "dial" /\ Ours(loop[l]))
    \/ \E i \in Ids : Ours(fl[i])

(* A stop has ended the run before it drains it and a start clears the     *)
(* maps before it opens; until it does, the walk of the tables it made     *)
(* lags only behind a new socket.                                          *)
OpPlaces ==
    /\ op.pc \in {"start", "open", "drain", "pauseDrain"} => ~running
    /\ op.pc = "open" /\ table # owner => AllFormer
CarriedOK ==
    carried => /\ running /\ ~stopped /\ owner \in apps
               /\ op.pc \in {"idle", "clear", "drop"}

(* A decision that would be obeyed: not one its process outran.            *)
Obeyed == direct # None /\ ~direct.late
DirectOK ==
    /\ Obeyed /\ direct.pid \in apps => op.pc \in {"start", "clear"}
    /\ Obeyed /\ carried => direct.pid # owner

(* A datagram of a carried socket is on its way into the tunnel.           *)
Bound(l) ==
    loop[l].of = "tunnelled" =>
        /\ carried /\ loop[l].pc # "direct"
        /\ loop[l].pc = "lookup" => ~Obeyed
OnceInv ==
    /\ OwnedInv /\ OpPlaces /\ CarriedOK /\ DirectOK
    /\ \A l \in Loops : Bound(l)
    /\ Witness => Known
    /\ ~strayed

LEMMA OnceInit == Init => OnceInv
<1> SUFFICES ASSUME Init PROVE OnceInv
    OBVIOUS
<1>1. ~Witness
  BY DEF Init, Witness, Ours, NoFlow, Resting
<1>2. OwnedInv
  BY OwnedInit
<1>3. OpPlaces /\ CarriedOK /\ DirectOK /\ (\A l \in Loops : Bound(l)) /\ ~strayed
  BY DEF Init, OpPlaces, CarriedOK, DirectOK, Obeyed, Bound, OpIdle, Resting
<1> QED BY <1>1, <1>2, <1>3 DEF OnceInv

LEMMA OnceTyped ==
    ASSUME OnceInv
    PROVE  /\ flow \in Opt(Ids) /\ fl \in [Ids -> Flows] /\ loop \in [Loops -> Tasks]
           /\ running \in BOOLEAN /\ stopped \in BOOLEAN /\ apps \subseteq Apps
           /\ op \in [pc : {"idle", "start", "open", "stop", "pause", "drain", "pauseDrain",
                            "clear", "drop"}, drop : Opt(Pids)]
           /\ direct \in Opt(Decisions) /\ owner \in Opt(Pids)
           /\ TypeInv
BY DEF OnceInv, OwnedInv, TypeInv, TypeOK

(* Where the engine knows the owner it takes it for the owner.             *)
LEMMA KnownNamed ==
    ASSUME Known, owner # None
    PROVE  UdpPID = owner
BY DEF Known, UdpPID

LEMMA NamedKnown ==
    ASSUME UdpPID = owner, owner # None
    PROVE  Known
BY DEF Known, UdpPID

LEMMA FormerNoWitness ==
    ASSUME AllFormer, ~carried
    PROVE  ~Witness
BY DEF AllFormer, Witness, Ours

LEMMA SelectedIsThere ==
    ASSUME OnceInv, owner \in apps
    PROVE  owner \in Pids \ Protected /\ owner # None
<1>1. apps \subseteq Apps
  BY OnceTyped
<1> QED BY <1>1, UdpAssumption

LEMMA TakenHasOwner ==
    ASSUME OnceInv, Witness
    PROVE  owner # None
<1>1. CASE carried
  BY <1>1, SelectedIsThere DEF OnceInv, CarriedOK
<1>2. CASE ~carried
  BY <1>2, FormerNoWitness DEF OnceInv, OwnedInv
<1> QED BY <1>1, <1>2

(* No step makes a witness out of nothing.                                 *)
LEMMA WitnessOld ==
    ASSUME OnceInv, UNCHANGED owner, carried' => carried, FlowsKept, LoopsKept, Witness'
    PROVE  Witness
BY DEF Witness, Ours, FlowsKept, FlowKept, LoopsKept

LEMMA OperateWitness ==
    ASSUME OnceInv, Operate, Witness'
    PROVE  Known'
<1>0. TypeInv
  BY OnceTyped
<1>1. UNCHANGED owner /\ (carried' => carried)
  <2>1. UNCHANGED owner
    BY OperateViews
  <2>2. CASE OpStep \/ Suspend
    <3>1. UNCHANGED carried \/ carried' = FALSE
      BY <2>2 DEF OpStep, StopRunning, StopDrain, StartClear, StartOpen, ClearDirect,
                  DropDeselected, Suspend, ghosts
    <3> QED BY <2>1, <3>1
  <2>3. CASE \E names \in SUBSET Apps : SetApps(names)
    <3>1. carried' => carried
      BY <2>3, Zenon DEF SetApps
    <3> QED BY <2>1, <3>1
  <2> QED BY <2>2, <2>3 DEF Operate
<1>2. Witness
  BY <1>0, <1>1, WitnessOld, OperateFlows, OtherLoops
<1>3. CASE StartClear
  BY <1>1, <1>3 DEF StartClear, Known
<1>4. CASE StartOpen
  <2>1. op.pc = "open" /\ UNCHANGED table
    BY <1>4 DEF StartOpen
  <2>2. ~carried
    BY <2>1 DEF OnceInv, CarriedOK
  <2>3. table = owner
    BY <1>2, <2>1, <2>2, FormerNoWitness DEF OnceInv, OpPlaces
  <2> QED BY <1>1, <2>1, <2>3 DEF Known
<1>5. CASE StopRunning \/ StopDrain \/ ClearDirect \/ DropDeselected \/ Suspend
           \/ \E names \in SUBSET Apps : SetApps(names)
  <2>1. UNCHANGED <<table, sock>>
    BY <1>5 DEF StopRunning, StopDrain, ClearDirect, DropDeselected, Suspend, SetApps, viewVars
  <2> QED BY <1>1, <1>2, <2>1 DEF Known, OnceInv
<1> QED BY <1>3, <1>4, <1>5 DEF Operate, OpStep

LEMMA MachineWitness ==
    ASSUME OnceInv, Machine, Witness'
    PROVE  Known'
<1>0. TypeInv /\ FlowsKept /\ LoopsKept
  BY OnceTyped, MachineFlows, OtherLoops
<1>1. CASE Unbind
  <2>1. AllFormer' /\ ~carried'
    BY <1>1, OnceTyped DEF Unbind, AllFormer, Flows, Tasks
  <2>2. ~Witness'
    BY <2>1 DEF AllFormer, Witness, Ours
  <2> QED BY <2>2
<1>2. CASE \E pid \in Pids : Bind(pid)
  <2>1. owner = None /\ UNCHANGED <<fl, loop, carried>>
    BY <1>2 DEF Bind, flowVars, ghosts
  <2>2. AllFormer /\ ~carried
    BY <2>1, SelectedIsThere DEF OnceInv, OwnedInv, CarriedOK
  <2>3. ~Witness'
    BY <2>1, <2>2 DEF AllFormer, Witness, Ours
  <2> QED BY <2>3
<1>3. CASE Refresh \/ Prune \/ PublishLive
  <2>1. UNCHANGED <<owner, carried>>
    BY <1>3 DEF Refresh, Prune, PublishLive, sockVars, ghosts
  <2>2. Known
    BY <1>0, <2>1, WitnessOld DEF OnceInv
  <2>3. CASE Refresh
    BY <2>1, <2>3 DEF Refresh, Known
  <2>4. CASE Prune
    BY <2>1, <2>2, <2>4 DEF Prune, Known
  <2>5. CASE PublishLive
    <3>1. UNCHANGED <<table, sock>>
      BY <2>5 DEF PublishLive
    <3> QED BY <2>1, <2>2, <3>1 DEF Known
  <2> QED BY <1>3, <2>3, <2>4, <2>5
<1> QED BY <1>1, <1>2, <1>3 DEF Machine

LEMMA RetireWitness ==
    ASSUME OnceInv, Retire, Witness'
    PROVE  Known'
<1>1. UNCHANGED <<owner, table, sock>> /\ (carried' => carried)
  <2>1. UNCHANGED <<owner, table, sock>>
    BY RetireViews
  <2>2. UNCHANGED carried \/ carried' = FALSE
    BY DEF Retire, CapEvicts, TunnelCloses, GiveUpCapture, ReaderEnds, ghosts
  <2> QED BY <2>1, <2>2
<1>2. Witness
  BY <1>1, WitnessOld, OnceTyped, RetireFlows, OtherLoops
<1> QED BY <1>1, <1>2 DEF OnceInv, Known

LEMMA SweepWitness ==
    ASSUME OnceInv, NEW idle \in BOOLEAN, Sweep(idle), Witness'
    PROVE  Known'
<1>1. UNCHANGED <<owner, table, sock, carried, loop>>
  BY DEF Sweep, sockVars, ghosts
<1>2. \A i \in Ids : fl'[i].of # "former" => fl'[i].of = fl[i].of /\ fl'[i].pid = fl[i].pid
  <2>1. CASE UNCHANGED <<flow, fl>>
    BY <2>1
  <2>2. CASE flow # None /\ flow' = None /\ fl' = Closed(flow)
    <3>1. FlowsKept
      BY <2>2, OnceTyped, ClosedFlows DEF Opt
    <3> QED BY <3>1 DEF FlowsKept, FlowKept
  <2>3. CASE \E m, o : fl' = [fl EXCEPT ![flow].miss = m, ![flow].ownerMiss = o]
    BY <2>3, OnceTyped DEF Flows
  <2> QED BY <2>1, <2>2, <2>3 DEF Sweep
<1>3. Witness
  BY <1>1, <1>2 DEF Witness, Ours
<1> QED BY <1>1, <1>3 DEF OnceInv, Known

(* A datagram taken up, and what a loop finds in the maps.                 *)
LEMMA ArriveTask ==
    ASSUME TypeInv, NEW k \in Loops, Arrive(k), NEW l \in Loops
    PROVE  \/ loop'[l] = loop[l]
           \/ /\ loop'[l].of = Taken.of /\ l = k
              /\ \/ loop'[l].pc = "retire"
                 \/ loop'[l].pc = "lookup" /\ ~(direct # None /\ UdpPID \in apps /\ direct.pid # UdpPID)
<1> DEFINE finds == direct # None /\ UdpPID \in apps /\ direct.pid # UdpPID
           tr == [Taken EXCEPT !.pc = "retire"]
           tl == [Taken EXCEPT !.pc = "lookup"]
<1>1. /\ tr.of = Taken.of /\ tr.pc = "retire"
      /\ tl.of = Taken.of /\ tl.pc = "lookup"
  BY DEF Taken, Resting
<1>2. \/ loop' = [loop EXCEPT ![k] = tr]
      \/ loop' = [loop EXCEPT ![k] = tl] /\ ~finds
  BY DEF Arrive
<1>3. loop \in [Loops -> Tasks]
  BY DEF TypeInv, TypeOK
<1> HIDE DEF tr, tl, finds
<1>4. \/ loop'[l] = loop[l]
      \/ l = k /\ (loop'[l] = tr \/ (loop'[l] = tl /\ ~finds))
  BY <1>2, <1>3
<1> QED BY <1>1, <1>4 DEF finds

LEMMA ArriveWitness ==
    ASSUME OnceInv, NEW l \in Loops, Arrive(l), Witness'
    PROVE  Known'
<1>1. UNCHANGED <<owner, table, sock, carried, fl>>
  BY DEF Arrive, sockVars, viewVars, flowVars, ghosts
<1>2. Taken.of = "tunnelled" => carried
  BY DEF Taken, Resting
<1>3. \A k \in Loops : \/ loop'[k] = loop[k]
                       \/ loop'[k].of = Taken.of /\ loop'[k].pc # "dial"
  BY OnceTyped, ArriveTask
<1>4. Witness
  BY <1>1, <1>2, <1>3 DEF Witness, Ours
<1> QED BY <1>1, <1>4 DEF OnceInv, Known

(* The owner looked up is the one the engine knows.                        *)
LEMMA DecideWitness ==
    ASSUME OnceInv, NEW l \in Loops, Decide(l), Witness'
    PROVE  Known'
<1>1. UNCHANGED <<owner, sock, carried>> /\ table' \in {table, owner} /\ TypeInv
  <2>1. UNCHANGED carried
    BY DEF Decide, Unresolved, Named, Drop, Pass, ghosts
  <2> QED BY <2>1, LoopViews, OnceTyped DEF LoopStep
<1>2. CASE Witness
  BY <1>1, <1>2 DEF OnceInv, Known
<1>3. CASE ~Witness
  <2>1. FlowsKept
    BY <1>1, LoopFlows
  <2>2. ~LoopsKept
    BY <1>1, <1>3, <2>1, WitnessOld
  <2>3. PICK pid \in Pids, pc \in {"direct", "dial"} :
           /\ \A k \in Loops \ {l} : loop'[k] = loop[k]
           /\ loop'[l] = [loop[l] EXCEPT !.pc = pc, !.pid = pid]
           /\ (pid = UdpPID /\ UNCHANGED table) \/ (pid = owner /\ table' = owner)
    BY <1>1, <2>2, DecideLoops
  <2>4. loop'[l].of = loop[l].of /\ loop'[l].pid = pid
    BY <2>3, OnceTyped DEF Tasks
  <2>5. pid = owner
    <3>1. \A i \in Ids : ~Ours(fl[i])'
      BY <1>1, <1>3, <2>1 DEF Witness, Ours, FlowsKept, FlowKept
    <3>2. \A k \in Loops \ {l} : ~(loop'[k].of = "tunnelled" \/ (loop'[k].pc = "dial" /\ Ours(loop[k])'))
      BY <1>1, <1>3, <2>3 DEF Witness, Ours
    <3>3. loop'[l].of # "tunnelled" /\ ~carried'
      BY <1>1, <1>3, <2>4 DEF Witness
    <3>4. Ours(loop[l])'
      BY <3>1, <3>2, <3>3 DEF Witness
    <3> QED BY <1>1, <2>4, <3>4 DEF Ours
  <2>6. owner # None
    BY <2>5, UdpAssumption
  <2>7. CASE table' = owner
    BY <1>1, <2>7 DEF Known
  <2>8. CASE pid = UdpPID /\ UNCHANGED table
    BY <1>1, <2>5, <2>6, <2>8, NamedKnown DEF Known
  <2> QED BY <2>3, <2>7, <2>8
<1> QED BY <1>2, <1>3

(* What is carried goes on a flow for the owner, or one dialled for it.    *)
LEMMA CarryWitness ==
    ASSUME OnceInv, NEW l \in Loops, NEW f, Carry(l, f),
           (\E i \in Ids : f = fl[i]) \/ (f = loop[l] /\ loop[l].pc = "dial")
    PROVE  carried' => Witness
<1>1. CASE carried
  BY <1>1 DEF Witness
<1>2. ASSUME carried', ~carried PROVE Ours(f)
  BY <1>2 DEF Carry, Ours
<1> QED BY <1>1, <1>2 DEF Witness

LEMMA InstallWitness ==
    ASSUME OnceInv, NEW l \in Loops, Install(l), Witness'
    PROVE  Known'
<1>1. UNCHANGED <<owner, table, sock>> /\ LoopsKept /\ loop[l].pc = "dial"
  BY OnceTyped, WorkLoops DEF Install, sockVars, viewVars
<1>2. carried' => Witness
  <2>1. CASE Pass(l) \/ Drop(l)
    BY <2>1 DEF Pass, Drop, ghosts, Witness
  <2>2. CASE flow # None /\ Carry(l, fl[flow])
    <3>1. flow \in Ids
      BY <2>2, OnceTyped DEF Opt
    <3> QED BY <2>2, <3>1, CarryWitness
  <2>3. CASE Carry(l, loop[l])
    BY <1>1, <2>3, CarryWitness
  <2> QED BY <2>1, <2>2, <2>3 DEF Install
<1>3. PICK i \in Ids :
         /\ \A j \in Ids \ {i} : fl'[j] = fl[j]
         /\ fl'[i].of = "former" \/ (loop[l].of # "former" /\ fl'[i].pid = loop[l].pid)
  BY OnceTyped, InstallFlows
<1>4. Witness
  BY <1>1, <1>2, <1>3 DEF Witness, Ours, LoopsKept
<1> QED BY <1>1, <1>4 DEF OnceInv, Known

LEMMA WorkWitness ==
    ASSUME OnceInv, NEW l \in Loops,
           \/ RetireStale(l) \/ LookUp(l) \/ StoreDirect(l)
           \/ DialFails(l) \/ Write(l) \/ Evict(l),
           Witness'
    PROVE  Known'
<1>1. UNCHANGED <<owner, table, sock>> /\ LoopsKept /\ FlowsKept
  <2>1. UNCHANGED <<owner, table, sock>>
    BY DEF RetireStale, LookUp, StoreDirect, DialFails, Write, Evict, sockVars, viewVars
  <2> QED BY <2>1, OnceTyped, WorkLoops, LoopFlows
<1>2. carried' => Witness
  <2>1. CASE Write(l)
    <3>1. CASE Carry(l, fl[loop[l].id])
      <4>1. loop[l].id \in Ids
        BY <2>1, OnceTyped DEF Write, TypeInv, TaskOK, Tasks, Opt
      <4> QED BY <3>1, <4>1, CarryWitness
    <3> QED BY <2>1, <3>1 DEF Write, ghosts, Witness
  <2>2. CASE ~Write(l)
    BY <2>2 DEF RetireStale, LookUp, StoreDirect, DialFails, Evict, Pass, Drop, ghosts, Witness
  <2> QED BY <2>1, <2>2
<1>3. Witness
  BY <1>1, <1>2 DEF Witness, Ours, LoopsKept, FlowsKept, FlowKept
<1> QED BY <1>1, <1>3 DEF OnceInv, Known

LEMMA WitnessStep ==
    ASSUME OnceInv, [Next]_vars, Witness'
    PROVE  Known'
<1>1. CASE UNCHANGED vars
  BY <1>1 DEF vars, flowVars, sockVars, viewVars, ghosts, OnceInv, Witness, Ours, Known
<1>2. ASSUME NEW l \in Loops, Arrive(l) \/ LoopStep(l) PROVE Known'
  BY <1>2, ArriveWitness, DecideWitness, InstallWitness, WorkWitness DEF LoopStep
<1> QED BY <1>1, <1>2, OperateWitness, MachineWitness, RetireWitness, SweepWitness
        DEF Next, Operate, Machine, Retire

(* What an operation does to its place, the run and the selection.         *)
LEMMA OperatePlaces ==
    ASSUME OnceInv, Operate
    PROVE  /\ op'.pc \in {"start", "open", "drain", "pauseDrain"} => ~running'
           /\ op'.pc = "open" => table' = owner'
           /\ carried' => /\ op'.pc \in {"idle", "clear", "drop"} /\ carried
                          /\ UNCHANGED <<running, stopped>> /\ owner \in apps'
           /\ direct' # None => /\ direct' = direct
                                /\ \/ UNCHANGED apps /\ op.pc # "clear" /\ op.pc # "start"
                                   \/ apps' = {}
                                   \/ op'.pc \in {"start", "clear"}
<1>0. op \in [pc : {"idle", "start", "open", "stop", "pause", "drain", "pauseDrain",
                    "clear", "drop"}, drop : Opt(Pids)]
  BY OnceTyped
<1>1. CASE \E names \in SUBSET Apps : SetApps(names)
  <2>1. PICK names \in SUBSET Apps : SetApps(names)
    BY <1>1
  <2>2. /\ UNCHANGED <<running, stopped, direct>> /\ apps' = names
        /\ carried' = (carried /\ owner \in names)
        /\ op.pc = "idle"
        /\ op'.pc = IF names # {} /\ ~running THEN "start"
                    ELSE IF names = {} /\ running THEN "stop" ELSE "clear"
    BY <1>0, <2>1 DEF SetApps, OpTo, flowVars
  <2> QED BY <2>2 DEF OnceInv, CarriedOK
<1>2. CASE Suspend
  BY <1>0, <1>2 DEF Suspend, OpTo, flowVars
<1>3. CASE StopRunning
  <2>1. /\ op'.pc \in {"drain", "pauseDrain"} /\ op.pc \in {"stop", "pause"} /\ ~running'
        /\ UNCHANGED <<carried, direct, apps>>
    BY <1>0, <1>3 DEF StopRunning, OpTo, ghosts, flowVars
  <2> QED BY <2>1 DEF OnceInv, CarriedOK
<1>4. CASE StopDrain
  <2>1. op'.pc \in {"clear", "idle"} /\ op.pc \in {"drain", "pauseDrain"} /\ UNCHANGED <<carried, direct, apps>>
    BY <1>0, <1>4 DEF StopDrain, OpTo, ghosts
  <2> QED BY <2>1 DEF OnceInv, CarriedOK
<1>5. CASE StartClear
  <2>1. /\ op'.pc = "open" /\ op.pc = "start" /\ UNCHANGED <<carried, running, owner>>
        /\ direct' = None /\ table' = owner
    BY <1>0, <1>5 DEF StartClear, OpTo, ghosts, sockVars
  <2> QED BY <2>1 DEF OnceInv, CarriedOK, OpPlaces
<1>6. CASE StartOpen
  <2>1. op'.pc = "clear" /\ op.pc = "open" /\ UNCHANGED <<carried, direct>>
    BY <1>0, <1>6 DEF StartOpen, OpTo, ghosts, flowVars
  <2> QED BY <2>1 DEF OnceInv, CarriedOK
<1>7. CASE ClearDirect
  <2>1. /\ op'.pc = "drop" /\ op.pc = "clear" /\ UNCHANGED <<carried, running, stopped, apps>>
        /\ direct' = None
    BY <1>0, <1>7 DEF ClearDirect, ghosts
  <2> QED BY <2>1 DEF OnceInv, CarriedOK
<1>8. CASE DropDeselected
  <2>1. op'.pc = "idle" /\ op.pc = "drop" /\ UNCHANGED <<carried, running, stopped, apps, direct>>
    BY <1>0, <1>8 DEF DropDeselected, OpIdle, ghosts
  <2> QED BY <2>1 DEF OnceInv, CarriedOK
<1> QED BY <1>1, <1>2, <1>3, <1>4, <1>5, <1>6, <1>7, <1>8 DEF Operate, OpStep

(* No other step touches them, but that a panic bars the maps.             *)
LEMMA OthersPlaces ==
    ASSUME [Next]_vars, ~Operate
    PROVE  UNCHANGED <<op, running, apps>> /\ (UNCHANGED stopped \/ ~carried')
<1>1. CASE UNCHANGED vars
  BY <1>1 DEF vars, opVars, flowVars
<1>2. CASE \E l \in Loops : Arrive(l) \/ LoopStep(l)
  BY <1>2, LoopViews
<1>3. CASE Machine
  BY <1>3 DEF Machine, Unbind, Refresh, Prune, PublishLive, Bind, opVars, flowVars
<1>4. CASE Retire
  BY <1>4 DEF Retire, CapEvicts, TunnelCloses, GiveUpCapture, ReaderEnds, opVars
<1>5. CASE \E idle \in BOOLEAN : Sweep(idle)
  BY <1>5 DEF Sweep, opVars
<1> QED BY <1>1, <1>2, <1>3, <1>4, <1>5 DEF Next, Operate, Machine, Retire

LEMMA PlacesStep ==
    ASSUME OnceInv, [Next]_vars
    PROVE  OpPlaces'
<1>0. TypeInv
  BY OnceTyped
<1>1. CASE Operate
  BY <1>1, OperatePlaces DEF OpPlaces
<1>2. CASE ~Operate
  <2>1. UNCHANGED <<op, running, apps>>
    BY <1>2, OthersPlaces
  <2>2. ASSUME op.pc = "open", table' # owner' PROVE AllFormer'
    <3>1. ~running
      BY <2>2 DEF OnceInv, OpPlaces
    <3>2. ~ \E l \in Loops : Arrive(l)
      BY <3>1 DEF Arrive
    <3>3. CASE AllFormer
      BY <1>0, <3>2, <3>3, FormerKept
    <3>4. CASE ~AllFormer
      <4>1. table = owner /\ owner # None
        BY <2>2, <3>4 DEF OnceInv, OpPlaces, OwnedInv
      <4>2. Unbind
        <5>1. CASE Machine
          BY <2>2, <4>1, <5>1 DEF Machine, Bind, Refresh, Prune, PublishLive, sockVars
        <5>2. CASE Retire
          BY <2>2, <4>1, <5>2, RetireViews
        <5>3. CASE \E l \in Loops : LoopStep(l)
          BY <2>2, <4>1, <5>3, LoopViews
        <5>4. CASE (\E idle \in BOOLEAN : Sweep(idle)) \/ UNCHANGED vars
          BY <2>2, <4>1, <5>4 DEF Sweep, vars, sockVars, viewVars
        <5> QED BY <1>2, <3>2, <5>1, <5>2, <5>3, <5>4 DEF Next, Operate, Machine, Retire
      <4> QED BY <4>2, OnceTyped DEF Unbind, AllFormer, Flows, Tasks
    <3> QED BY <3>3, <3>4
  <2> QED BY <2>1, <2>2 DEF OnceInv, OpPlaces
<1> QED BY <1>1, <1>2

(* What has been carried ends with the selection, the run, the capture or  *)
(* the socket.                                                             *)
LEMMA CarriedStep ==
    ASSUME OnceInv, [Next]_vars
    PROVE  CarriedOK'
<1>1. CASE Operate
  <2>1. UNCHANGED owner
    BY <1>1, OperateViews
  <2> QED BY <1>1, <2>1, OperatePlaces DEF OnceInv, CarriedOK
<1>2. CASE ~Operate
  <2>1. UNCHANGED <<op, running, apps>> /\ (UNCHANGED stopped \/ ~carried')
    BY <1>2, OthersPlaces
  <2>2. CASE ~carried
    <3>1. CASE UNCHANGED owner /\ \E l \in Loops : \E f : Carry(l, f)
      BY <2>1, <2>2, <3>1 DEF Carry, CarriedOK
    <3>2. CASE UNCHANGED carried \/ carried' = FALSE
      BY <2>2, <3>2 DEF CarriedOK
    <3>3. CASE \E l \in Loops : Install(l) \/ Write(l)
      <4>1. PICK l \in Loops : Install(l) \/ Write(l)
        BY <3>3
      <4>2. UNCHANGED owner
        BY <4>1, LoopViews DEF LoopStep
      <4>3. UNCHANGED carried \/ \E f : Carry(l, f)
        BY <4>1 DEF Install, Write, Pass, Drop, ghosts
      <4> QED BY <3>1, <3>2, <4>2, <4>3
    <3>4. CASE \E l \in Loops : \/ Arrive(l) \/ RetireStale(l) \/ LookUp(l) \/ Decide(l)
                                \/ StoreDirect(l) \/ DialFails(l) \/ Evict(l)
      <4>1. UNCHANGED carried
        BY <3>4 DEF Arrive, RetireStale, LookUp, Decide, StoreDirect, DialFails, Evict,
                    Unresolved, Named, Pass, Drop, ghosts
      <4> QED BY <3>2, <4>1
    <3>5. CASE Machine \/ Retire \/ (\E idle \in BOOLEAN : Sweep(idle)) \/ UNCHANGED vars
      <4>1. UNCHANGED carried \/ carried' = FALSE
        BY <3>5 DEF Machine, Retire, Unbind, Refresh, Prune, PublishLive, Bind, CapEvicts,
                    TunnelCloses, GiveUpCapture, ReaderEnds, Sweep, vars, ghosts
      <4> QED BY <3>2, <4>1
    <3> QED BY <1>2, <3>3, <3>4, <3>5 DEF Next, LoopStep, Operate, Machine, Retire
  <2>3. CASE carried
    <3>1. /\ running /\ ~stopped /\ owner \in apps /\ owner # None
          /\ op.pc \in {"idle", "clear", "drop"}
      BY <2>3, SelectedIsThere DEF OnceInv, CarriedOK
    <3>2. UNCHANGED owner \/ carried' = FALSE
      <4>1. CASE Machine
        BY <3>1, <4>1 DEF Machine, Unbind, Refresh, Prune, PublishLive, Bind, sockVars
      <4>2. CASE Retire
        BY <4>2, RetireViews
      <4>3. CASE \E l \in Loops : Arrive(l) \/ LoopStep(l)
        BY <4>3, LoopViews
      <4>4. CASE (\E idle \in BOOLEAN : Sweep(idle)) \/ UNCHANGED vars
        BY <4>4 DEF Sweep, vars, sockVars
      <4> QED BY <1>2, <4>1, <4>2, <4>3, <4>4 DEF Next, Operate, Machine, Retire
    <3> QED BY <2>1, <3>1, <3>2 DEF CarriedOK
  <2> QED BY <2>2, <2>3
<1> QED BY <1>1, <1>2

(* What a step leaves of the decision: itself, perhaps older, or nothing;  *)
(* a new one is late if its process is selected.                           *)
LEMMA DirectStep ==
    ASSUME OnceInv, [Next]_vars
    PROVE  \/ direct' = None
           \/ direct # None /\ direct'.pid = direct.pid /\ direct'.late = direct.late
           \/ /\ \E l \in Loops : StoreDirect(l)
              /\ direct'.late \/ direct'.pid \notin apps
<1>1. CASE direct' = direct
  BY <1>1
<1>2. CASE Operate
  BY <1>1, <1>2 DEF Operate, OpStep, StopRunning, StopDrain, StartClear, StartOpen, ClearDirect,
                    DropDeselected, Suspend, SetApps, flowVars
<1>3. CASE \E l \in Loops : Arrive(l) \/ (LoopStep(l) /\ ~StoreDirect(l))
  BY <1>1, <1>3 DEF Arrive, LoopStep, RetireStale, LookUp, Decide, DialFails, Install, Write, Evict,
                    flowVars
<1>4. ASSUME NEW l \in Loops, StoreDirect(l) PROVE direct'.late \/ direct'.pid \notin apps
  <2>1. direct' = [pid |-> loop[l].pid, old |-> FALSE, late |-> loop[l].pid \in apps]
    BY <1>4 DEF StoreDirect
  <2> QED BY <2>1
<1>5. CASE \E idle \in BOOLEAN : Sweep(idle)
  <2>1. direct # None /\ direct' = [direct EXCEPT !.old = TRUE]
          => direct'.pid = direct.pid /\ direct'.late = direct.late
    BY OnceTyped DEF Opt, Decisions
  <2> QED BY <1>1, <1>5, <2>1 DEF Sweep
<1>6. CASE Machine \/ Retire \/ UNCHANGED vars
  <2>1. UNCHANGED direct
    BY <1>6 DEF Machine, Retire, Unbind, Refresh, Prune, PublishLive, Bind, CapEvicts,
                TunnelCloses, GiveUpCapture, ReaderEnds, vars, flowVars
  <2> QED BY <2>1, <1>1
<1> QED BY <1>2, <1>3, <1>4, <1>5, <1>6 DEF Next, Operate, Machine, Retire

(* The socket of a datagram that has been carried is the one it was.       *)
LEMMA CarriedOwner ==
    ASSUME OnceInv, [Next]_vars, carried, carried'
    PROVE  UNCHANGED owner
<1>1. CASE Operate
  BY <1>1, OperateViews
<1>2. CASE Machine
  <2>1. owner # None
    BY SelectedIsThere DEF OnceInv, CarriedOK
  <2> QED BY <1>2, <2>1 DEF Machine, Unbind, Refresh, Prune, PublishLive, Bind, sockVars
<1>3. CASE Retire
  BY <1>3, RetireViews
<1>4. CASE \E l \in Loops : Arrive(l) \/ LoopStep(l)
  BY <1>4, LoopViews
<1>5. CASE (\E idle \in BOOLEAN : Sweep(idle)) \/ UNCHANGED vars
  BY <1>5 DEF Sweep, vars, sockVars
<1> QED BY <1>1, <1>2, <1>3, <1>4, <1>5 DEF Next, Operate, Machine, Retire

(* A decision that would be obeyed is another process's, unless the        *)
(* selection is just being changed, and never the carried socket's.        *)
LEMMA DirectOKStep ==
    ASSUME OnceInv, [Next]_vars
    PROVE  DirectOK'
<1>0. DirectOK /\ CarriedOK
  BY DEF OnceInv
<1>1. CASE \E l \in Loops : StoreDirect(l)
  <2>1. UNCHANGED <<op, apps, owner, carried>>
    BY <1>1 DEF StoreDirect, opVars, sockVars
  <2>2. Obeyed' => (Obeyed /\ direct'.pid = direct.pid) \/ direct'.pid \notin apps
    BY DirectStep DEF Obeyed
  <2> QED BY <1>0, <2>1, <2>2 DEF DirectOK, CarriedOK
<1>2. CASE ~ \E l \in Loops : StoreDirect(l)
  <2>1. Obeyed' => Obeyed /\ direct'.pid = direct.pid
    BY <1>2, DirectStep DEF Obeyed
  <2>2. CASE Operate
    <3>1. UNCHANGED owner
      BY <2>2, OperateViews
    <3>2. Obeyed' /\ carried' => direct'.pid # owner'
      BY <1>0, <2>1, <2>2, <3>1, OperatePlaces DEF DirectOK
    <3>3. Obeyed' /\ direct'.pid \in apps' => op'.pc \in {"start", "clear"}
      BY <1>0, <2>1, <2>2, OperatePlaces DEF DirectOK, Obeyed
    <3> QED BY <3>2, <3>3 DEF DirectOK
  <2>3. CASE ~Operate
    <3>1. UNCHANGED <<op, apps>>
      BY <2>3, OthersPlaces
    <3>2. Obeyed' /\ carried' /\ carried => direct'.pid # owner'
      BY <1>0, <2>1, CarriedOwner DEF DirectOK
    <3>3. Obeyed' /\ carried' /\ ~carried => direct'.pid # owner'
      <4>1. SUFFICES ASSUME Obeyed', carried', ~carried, direct'.pid = owner' PROVE FALSE
        OBVIOUS
      <4>2. owner' \in apps /\ op.pc \in {"idle", "drop"}
        <5>1. PICK l \in Loops : Install(l) \/ Write(l)
          <6>1. CASE \E l \in Loops : \/ Arrive(l) \/ RetireStale(l) \/ LookUp(l) \/ Decide(l)
                                      \/ StoreDirect(l) \/ DialFails(l) \/ Evict(l)
            <7>1. UNCHANGED carried
              BY <6>1 DEF Arrive, RetireStale, LookUp, Decide, StoreDirect, DialFails, Evict,
                          Unresolved, Named, Pass, Drop, ghosts
            <7> QED BY <4>1, <7>1
          <6>2. CASE Machine \/ Retire \/ (\E idle \in BOOLEAN : Sweep(idle)) \/ UNCHANGED vars
            <7>1. UNCHANGED carried \/ carried' = FALSE
              BY <6>2 DEF Machine, Retire, Unbind, Refresh, Prune, PublishLive, Bind, CapEvicts,
                          TunnelCloses, GiveUpCapture, ReaderEnds, Sweep, vars, ghosts
            <7> QED BY <4>1, <7>1
          <6> QED BY <2>3, <6>1, <6>2 DEF Next, LoopStep, Operate, Machine, Retire
        <5>2. UNCHANGED owner
          BY <5>1, LoopViews DEF LoopStep
        <5>3. \E f : Carry(l, f)
          BY <4>1, <5>1 DEF Install, Write, Pass, Drop, ghosts
        <5> QED BY <4>1, <5>2, <5>3 DEF Carry
      <4> QED BY <1>0, <2>1, <4>1, <4>2 DEF DirectOK
    <3>4. Obeyed' /\ direct'.pid \in apps' => op'.pc \in {"start", "clear"}
      BY <1>0, <2>1, <3>1 DEF DirectOK
    <3> QED BY <3>2, <3>3, <3>4 DEF DirectOK
  <2> QED BY <2>2, <2>3
<1> QED BY <1>1, <1>2

(* A carried socket's datagrams are let go of with what was carried.       *)
LEMMA LetGo ==
    ASSUME OnceInv, [Next]_vars, carried, ~carried', NEW l \in Loops
    PROVE  loop'[l].of # "tunnelled"
<1>1. CASE Unbind
  BY <1>1, OnceTyped DEF Unbind, Tasks
<1>2. CASE GiveUpCapture \/ Suspend
  BY <1>2, OnceTyped, UncarriedLoops DEF GiveUpCapture, Suspend
<1>3. ASSUME NEW names \in SUBSET Apps, SetApps(names) PROVE loop'[l].of # "tunnelled"
  <2>1. owner \notin names
    BY <1>3 DEF SetApps
  <2> QED BY <1>3, <2>1, OnceTyped, UncarriedLoops DEF SetApps
<1>4. CASE OpStep \/ Refresh \/ Prune \/ PublishLive \/ (\E pid \in Pids : Bind(pid)) \/ CapEvicts
           \/ TunnelCloses \/ (\E i \in Ids : ReaderEnds(i)) \/ (\E idle \in BOOLEAN : Sweep(idle))
           \/ UNCHANGED vars
  <2>1. UNCHANGED carried
    BY <1>4 DEF OpStep, StopRunning, StopDrain, StartClear, StartOpen, ClearDirect, DropDeselected,
                Refresh, Prune, PublishLive, Bind, CapEvicts, TunnelCloses, ReaderEnds, Sweep,
                vars, ghosts
  <2> QED BY <2>1
<1>5. CASE \E k \in Loops : Arrive(k) \/ LoopStep(k)
  <2>1. carried => carried'
    BY <1>5 DEF Arrive, LoopStep, RetireStale, LookUp, Decide, StoreDirect, DialFails, Install,
                Write, Evict, Unresolved, Named, Pass, Drop, Carry, ghosts
  <2> QED BY <2>1
<1> QED BY <1>1, <1>2, <1>3, <1>4, <1>5 DEF Next

(* The carried socket's owner is the one the engine takes it for, and it   *)
(* is selected.                                                            *)
LEMMA CarriedNamed ==
    ASSUME OnceInv, carried
    PROVE  UdpPID = owner /\ owner \in apps /\ owner \in Pids \ Protected /\ owner # None
<1>1. owner \in apps /\ Known
  BY DEF OnceInv, CarriedOK, Witness
<1> QED BY <1>1, SelectedIsThere, KnownNamed

LEMMA BoundArrive ==
    ASSUME OnceInv, NEW k \in Loops, Arrive(k), NEW l \in Loops
    PROVE  Bound(l)'
<1>1. UNCHANGED <<carried, direct>>
  BY DEF Arrive, ghosts, flowVars
<1>2. CASE loop'[l] = loop[l]
  BY <1>1, <1>2 DEF OnceInv, Bound, Obeyed
<1>3. CASE loop'[l].of = Taken.of /\ loop'[l].pc = "retire"
  BY <1>1, <1>3 DEF Taken, Resting, Bound
<1>4. CASE /\ loop'[l].of = Taken.of /\ loop'[l].pc = "lookup"
           /\ ~(direct # None /\ UdpPID \in apps /\ direct.pid # UdpPID)
  <2>1. Taken.of = "tunnelled" => carried
    BY DEF Taken, Resting
  <2>2. carried /\ Obeyed => FALSE
    BY <1>4, CarriedNamed DEF OnceInv, DirectOK, Obeyed
  <2> QED BY <1>1, <1>4, <2>1, <2>2 DEF Bound, Obeyed
<1> QED BY <1>2, <1>3, <1>4, ArriveTask, OnceTyped

LEMMA BoundStore ==
    ASSUME OnceInv, NEW k \in Loops, StoreDirect(k), NEW l \in Loops
    PROVE  Bound(l)'
<1>1. UNCHANGED carried /\ loop[l] \in Tasks
  BY OnceTyped DEF StoreDirect
<1>2. loop'[l] = Resting \/ loop'[l] = Overtaken(loop[l])
  BY DEF StoreDirect
<1>3. CASE loop'[l] = Resting
  BY <1>3 DEF Resting, Bound
<1>4. CASE loop'[l] = Overtaken(loop[l]) /\ loop[l].pc \in {"retire", "lookup"}
  <2>1. loop'[l].of # "tunnelled"
    BY <1>1, <1>4 DEF Overtaken, Tasks
  <2> QED BY <2>1 DEF Bound
<1>5. CASE loop'[l] = loop[l] /\ loop[l].pc \notin {"retire", "lookup"}
  BY <1>1, <1>5 DEF OnceInv, Bound
<1> QED BY <1>2, <1>3, <1>4, <1>5 DEF Overtaken

(* The owner of a carried socket is selected: a datagram of it is not      *)
(* decided to be passed.                                                   *)
LEMMA BoundDecide ==
    ASSUME OnceInv, NEW k \in Loops, Decide(k), NEW l \in Loops
    PROVE  Bound(l)'
<1>1. UNCHANGED <<carried, direct>> /\ TypeInv /\ loop \in [Loops -> Tasks]
  <2>1. UNCHANGED carried
    BY DEF Decide, Unresolved, Named, Drop, Pass, ghosts
  <2> QED BY <2>1, OnceTyped DEF Decide, flowVars
<1>2. CASE Rest(k)
  BY <1>1, <1>2 DEF Rest, Resting, OnceInv, Bound, Obeyed
<1>3. ASSUME NEW pid \in Pids, Named(k, pid), ~Rest(k),
             (pid = UdpPID /\ UNCHANGED table) \/ (pid = owner /\ table' = owner)
      PROVE  Bound(l)'
  <2>1. CASE l # k
    <3>1. loop'[l] = loop[l]
      BY <1>1, <1>3, <2>1 DEF Named, Drop
    <3> QED BY <1>1, <3>1 DEF OnceInv, Bound, Obeyed
  <2>2. CASE l = k /\ loop[k].of = "tunnelled"
    <3>1. carried
      BY <2>2 DEF OnceInv, Bound
    <3>2. pid \in apps
      BY <1>3, <3>1, CarriedNamed
    <3>3. loop' = [loop EXCEPT ![k].pc = "dial", ![k].pid = pid]
      BY <1>3, <3>2 DEF Named, Drop
    <3>4. loop'[l].pc = "dial"
      BY <1>1, <2>2, <3>3 DEF Tasks
    <3> QED BY <1>1, <3>1, <3>4 DEF Bound
  <2>3. CASE l = k /\ loop[k].of # "tunnelled"
    <3>1. loop'[l].of # "tunnelled"
      BY <1>1, <1>3, <2>3 DEF Named, Drop, Tasks
    <3> QED BY <3>1 DEF Bound
  <2> QED BY <2>1, <2>2, <2>3
<1>4. CASE \E pid \in Pids : /\ Named(k, pid)
                             /\ (pid = UdpPID /\ UNCHANGED table) \/ (pid = owner /\ table' = owner)
  BY <1>2, <1>3, <1>4
<1>5. CASE Unresolved(k)
  BY <1>2, <1>5 DEF Unresolved, Pass, Drop
<1> QED BY <1>4, <1>5 DEF Decide

LEMMA BoundLook ==
    ASSUME OnceInv, NEW k \in Loops, RetireStale(k) \/ LookUp(k), NEW l \in Loops
    PROVE  Bound(l)'
<1>1. /\ UNCHANGED carried /\ loop[k] \in Tasks /\ loop[l] \in Tasks /\ loop \in [Loops -> Tasks]
      /\ direct' = None \/ (LookUp(k) /\ direct' = direct)
  BY OnceTyped DEF RetireStale, LookUp, Pass, ghosts, flowVars
<1>2. Obeyed' => Obeyed
  BY <1>1 DEF Obeyed
<1>3. CASE l # k
  <2>1. loop'[l] = loop[l]
    BY <1>1, <1>3 DEF RetireStale, LookUp, Pass, Rest, At
  <2> QED BY <1>1, <1>2, <2>1 DEF OnceInv, Bound
<1>4. CASE l = k /\ RetireStale(k)
  <2>1. loop'[l].of = loop[l].of /\ loop'[l].pc = "lookup" /\ ~Obeyed'
    BY <1>1, <1>4 DEF RetireStale, At, Tasks, Obeyed
  <2> QED BY <1>1, <2>1 DEF OnceInv, Bound
<1>5. CASE l = k /\ LookUp(k)
  <2>1. loop'[l] = Resting \/ (loop'[l].of = loop[l].of /\ loop'[l].pc \in {"write", "decide"})
    BY <1>1, <1>5 DEF LookUp, Pass, Rest, At, Tasks
  <2> QED BY <1>1, <2>1 DEF OnceInv, Bound, Resting
<1> QED BY <1>1, <1>3, <1>4, <1>5

LEMMA BoundStep ==
    ASSUME OnceInv, [Next]_vars, NEW l \in Loops
    PROVE  Bound(l)'
<1>1. CASE carried /\ ~carried'
  <2>1. loop'[l].of # "tunnelled"
    BY <1>1, LetGo
  <2> QED BY <2>1 DEF Bound
<1>2. ASSUME carried => carried',
             loop'[l].of = "tunnelled" => loop[l].of = "tunnelled" /\ loop'[l].pc \in {loop[l].pc, "idle", "evict"},
             ~ \E k \in Loops : StoreDirect(k)
      PROVE  Bound(l)'
  <2>1. Obeyed' => Obeyed
    BY <1>2, DirectStep DEF Obeyed
  <2> QED BY <1>2, <2>1 DEF OnceInv, Bound
<1>3. CASE Operate \/ Machine \/ Retire \/ (\E idle \in BOOLEAN : Sweep(idle)) \/ UNCHANGED vars
  <2>1. UNCHANGED loop \/ loop'[l].of # "tunnelled"
    <3>1. CASE Unbind
      BY <3>1, OnceTyped DEF Unbind, Tasks
    <3>2. CASE ~Unbind
      <4>1. UNCHANGED loop \/ Uncarried
        BY <1>3, <3>2 DEF Operate, OpStep, StopRunning, StopDrain, StartClear, StartOpen, ClearDirect,
                          DropDeselected, Suspend, SetApps, Machine, Refresh, Prune, PublishLive, Bind,
                          Retire, CapEvicts, TunnelCloses, GiveUpCapture, ReaderEnds, Sweep, vars
      <4> QED BY <4>1, UncarriedLoops, OnceTyped
    <3> QED BY <3>1, <3>2
  <2>2. CASE loop'[l].of # "tunnelled"
    BY <2>2 DEF Bound
  <2>3. CASE UNCHANGED loop
    <3>1. Obeyed' => Obeyed \/ \E k \in Loops : StoreDirect(k)
      BY DirectStep DEF Obeyed
    <3>2. ~ \E k \in Loops : StoreDirect(k)
      BY <2>3, OnceTyped DEF StoreDirect, Resting, Tasks
    <3> QED BY <1>1, <2>3, <3>1, <3>2 DEF OnceInv, Bound
  <2> QED BY <2>1, <2>2, <2>3
<1>4. ASSUME NEW k \in Loops, DialFails(k) \/ Install(k) \/ Write(k) \/ Evict(k) PROVE Bound(l)'
  <2>1. Rest(k) \/ At(k, "evict")
    BY <1>4 DEF DialFails, Install, Write, Evict, Pass, Drop, Carry
  <2>2. \/ loop'[l] = loop[l] \/ loop'[l] = Resting
        \/ loop'[l].of = loop[l].of /\ loop'[l].pc = "evict"
    BY <2>1, OnceTyped DEF Rest, At, Tasks
  <2>3. UNCHANGED direct
    BY <1>4 DEF DialFails, Install, Write, Evict, flowVars
  <2> QED BY <1>1, <2>2, <2>3 DEF OnceInv, Bound, Obeyed, Resting
<1> QED BY <1>3, <1>4, BoundArrive, BoundStore, BoundDecide, BoundLook
        DEF Next, LoopStep, Operate, Machine, Retire

(* A carried socket's application is selected, interception runs, and no   *)
(* decision that would be obeyed can be found, made or stored for it.      *)
LEMMA NeverStrays ==
    ASSUME OnceInv, [Next]_vars, strayed'
    PROVE  FALSE
<1>0. ~strayed
  BY DEF OnceInv
<1>1. PICK l \in Loops : /\ LookUp(l) \/ Decide(l) \/ StoreDirect(l) \/ Install(l)
                         /\ strayed' # strayed
  <2>1. CASE \E l \in Loops : Arrive(l) \/ LoopStep(l)
    BY <1>0, <2>1 DEF Arrive, LoopStep, RetireStale, DialFails, Write, Evict, Drop, Carry, ghosts
  <2>2. CASE Operate
    BY <1>0, <2>2 DEF Operate, OpStep, StopRunning, StopDrain, StartClear, StartOpen, ClearDirect,
                      DropDeselected, Suspend, SetApps, ghosts
  <2>3. CASE Machine \/ Retire \/ (\E idle \in BOOLEAN : Sweep(idle)) \/ UNCHANGED vars
    BY <1>0, <2>3 DEF Machine, Retire, Unbind, Refresh, Prune, PublishLive, Bind, CapEvicts,
                      TunnelCloses, GiveUpCapture, ReaderEnds, Sweep, vars, ghosts
  <2> QED BY <1>0, <2>1, <2>2, <2>3 DEF Next, Operate, Machine, Retire
<1>2. loop[l].of = "tunnelled"
  <2>1. CASE StoreDirect(l)
    BY <1>0, <1>1, <2>1 DEF StoreDirect
  <2>2. CASE ~StoreDirect(l)
    <3>1. Pass(l)
      BY <1>0, <1>1, <2>2 DEF LookUp, Decide, Install, Unresolved, Named, Drop, Carry, ghosts
    <3> QED BY <1>0, <1>1, <3>1 DEF Pass
  <2> QED BY <2>1, <2>2
<1>3. /\ carried /\ loop[l].pc # "direct" /\ (loop[l].pc = "lookup" => ~Obeyed)
      /\ ~stopped
  BY <1>2 DEF OnceInv, Bound, CarriedOK
<1>4. CASE LookUp(l)
  BY <1>0, <1>1, <1>3, <1>4 DEF LookUp, Obeyed, ghosts
<1>5. CASE Decide(l)
  <2>1. UdpPID = owner /\ owner \in Pids \ Protected /\ UdpPID # None
    BY <1>3, CarriedNamed
  <2>2. Named(l, UdpPID)
    BY <1>5, <2>1 DEF Decide
  <2> QED BY <1>0, <1>1, <2>2 DEF Named, Drop, ghosts
<1>6. CASE StoreDirect(l)
  BY <1>3, <1>6 DEF StoreDirect
<1>7. CASE Install(l)
  BY <1>0, <1>1, <1>3, <1>7 DEF Install, Drop, Carry, ghosts
<1> QED BY <1>1, <1>4, <1>5, <1>6, <1>7

LEMMA OnceStep == OnceInv /\ [Next]_vars => OnceInv'
<1> SUFFICES ASSUME OnceInv, [Next]_vars PROVE OnceInv'
    OBVIOUS
<1>1. OwnedInv'
  BY OwnedStep DEF OnceInv
<1>2. ~strayed'
  BY NeverStrays
<1> QED BY <1>1, <1>2, PlacesStep, CarriedStep, DirectOKStep, BoundStep, WitnessStep DEF OnceInv

(* Once a routed application's datagram went through the tunnel under its  *)
(* own name, none that its socket sends afterwards is sent in the clear,   *)
(* while the application stays selected and the capture lasts, whatever    *)
(* becomes of the flow, however many applications there are, however the   *)
(* selection changes around it and however the view of the port's owner    *)
(* lags; what the code gives up are a decision that overtakes the datagram *)
(* and one made before the application was selected and stored after.      *)
THEOREM OnceTunnelledHolds == Spec => []OnceTunnelled
<1>1. OnceInv => OnceTunnelled
  BY DEF OnceInv, OnceTunnelled
<1> QED BY <1>1, OnceInit, OnceStep, PTL DEF Spec

=============================================================================
