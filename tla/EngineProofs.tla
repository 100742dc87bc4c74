---------------------------- MODULE EngineProofs ----------------------------
(***************************************************************************)
(* Proofs about Engine, for any number of runs and of faults.              *)
(*                                                                         *)
(* That nobody's capture is lost is a count: the driver diverts to as many *)
(* handles of a kind as there are owners of an open one.  A step moves a   *)
(* handle from one owner to another, opens one or closes one.  The places  *)
(* of the operation and of the goroutines say who may own what, and the    *)
(* types, live being a natural number among them, rest on the count.       *)
(***************************************************************************)
EXTENDS Engine, Integers, FiniteSetTheorems, TLAPS

(* TypeOK, without knowing that live does not fall below zero.             *)
Typed ==
    /\ running \in BOOLEAN /\ listener \in BOOLEAN /\ udpStopped \in BOOLEAN
    /\ gen \in 0..MaxGen
    /\ inst \in [Kinds -> Handle] /\ instGen \in [Kinds -> 0..MaxGen]
    /\ panicH \in [Kinds -> 0..MaxFaults]
    /\ live \in [Kinds -> Int] /\ retired \in [Kinds -> BOOLEAN]
    /\ op \in Ops
    /\ sup \in [Gens -> Sups] /\ swp \in [Gens -> Swps]
    /\ faults \in 0..MaxFaults

(* What start and stopLocked hold at each of their steps.                  *)
OpPlaces ==
    /\ op.pc \in {"listen", "openSock", "openTcp", "install"} => ~running /\ gen < MaxGen
    /\ op.pc = "stop" => running
    /\ op.pc \in {"stopTcp", "stopUdp", "stopRest"} => ~running
    /\ op.pc \in {"idle", "listen"} /\ ~running => ~listener
    /\ op.pc \notin {"stopTcp", "install"} => op.held["tcp"] = Nil
    /\ op.pc \in {"idle", "listen", "openSock", "stop"} => op.held["sock"] = Nil
    /\ op.held["udp"] = Nil

(* While nothing runs nothing is installed, but for the UDP capture that   *)
(* stopLocked is about to take away.                                       *)
Cleared ==
    ~running => /\ inst["tcp"] = Nil /\ inst["sock"] = Nil
                /\ op.pc \notin {"stopTcp", "stopUdp"} => inst["udp"] = Nil

(* A goroutine holds a handle between opening and installing it; those of  *)
(* runs to come do not exist.                                              *)
GoroutinePlaces ==
    \A g \in Gens :
        /\ sup[g].pc # "install" => sup[g].nh = Nil
        /\ swp[g].pc # "install" => swp[g].nh = Nil
        /\ (swp[g].pc \in {"off", "check"}) = (swp[g].todo = {})
        /\ g > gen => sup[g] = SupOff /\ swp[g] = SwpOff

Places == Typed /\ OpPlaces /\ Cleared /\ GoroutinePlaces

LEMMA Bounds == MaxGen \in Nat /\ MaxFaults \in Nat /\ None \notin Filters
  BY BoundAssumption

-----------------------------------------------------------------------------
(* What the small pieces of a state are.                                   *)
LEMMA HandleTypes ==
    /\ Nil \in Handle /\ Fresh \in Handle /\ Nil # Fresh
    /\ [Fresh EXCEPT !.st = "dead"] \in Handle
    /\ \A n \in 1..MaxFaults : /\ [Fresh EXCEPT !.panic = n] \in Handle
                               /\ [st |-> "open", panic |-> n] \in Handle
                               /\ [st |-> "dead", panic |-> n] \in Handle
    /\ NoHandles \in [Kinds -> Handle]
  BY Bounds DEF Nil, Fresh, Handle, NoHandles

LEMMA HandleParts ==
    ASSUME NEW h \in Handle
    PROVE  h.st \in {"none", "open", "dead"} /\ h.panic \in 0..MaxFaults
  BY DEF Handle

LEMMA CloseTypes ==
    ASSUME live \in [Kinds -> Int], retired \in [Kinds -> BOOLEAN],
           NEW k \in Kinds, NEW h, Close(k, h)
    PROVE  live' \in [Kinds -> Int] /\ retired' \in [Kinds -> BOOLEAN]
<1>1. CASE h.st = "open"
  <2>1. live' = [live EXCEPT ![k] = @ - 1] /\ retired' = [retired EXCEPT ![k] = TRUE]
    BY <1>1 DEF Close
  <2> QED BY <2>1
<1>2. CASE h.st # "open"
  BY <1>2 DEF Close, driverVars
<1> QED BY <1>1, <1>2

LEMMA OpenTypes ==
    ASSUME Typed, NEW k \in Kinds, Open(k) \/ OpenFails
    PROVE  /\ live' \in [Kinds -> Int] /\ retired' \in [Kinds -> BOOLEAN]
           /\ faults' \in 0..MaxFaults
<1>1. CASE Open(k)
  <2>1. live' = [live EXCEPT ![k] = @ + 1] /\ retired' = retired /\ faults' = faults
    BY <1>1 DEF Open
  <2> QED BY <2>1 DEF Typed
<1>2. CASE OpenFails
  BY <1>2, Bounds DEF OpenFails, Fault, driverVars, Typed
<1> QED BY <1>1, <1>2

LEMMA InstallTypes ==
    ASSUME inst \in [Kinds -> Handle], instGen \in [Kinds -> 0..MaxGen],
           NEW k \in Kinds, NEW h \in Handle, NEW g \in 0..MaxGen, Install(k, h, g)
    PROVE  inst' \in [Kinds -> Handle] /\ instGen' \in [Kinds -> 0..MaxGen]
<1> DEFINE x == IF h = Nil THEN 0 ELSE g
<1>1. x \in 0..MaxGen
  BY Bounds
<1>2. inst' = [inst EXCEPT ![k] = h] /\ instGen' = [instGen EXCEPT ![k] = x]
  BY DEF Install
<1> HIDE DEF x
<1> QED BY <1>1, <1>2

LEMMA FaultTypes ==
    ASSUME faults \in 0..MaxFaults, Fault
    PROVE  faults' \in 1..MaxFaults /\ faults' \in 0..MaxFaults /\ faults' = faults + 1
  BY Bounds DEF Fault

LEMMA OpParts ==
    ASSUME NEW o \in Ops, NEW k \in Kinds, NEW h \in Handle,
           NEW l \in {"idle", "listen", "openSock", "openTcp", "install",
                      "stop", "stopTcp", "stopUdp", "stopRest"}
    PROVE  /\ [o EXCEPT !.pc = l] \in Ops
           /\ [o EXCEPT !.held[k] = h] \in Ops
           /\ [o EXCEPT !.pc = l, !.held[k] = h] \in Ops
           /\ Idle \in Ops
  BY HandleTypes DEF Ops, Idle

LEMMA SupParts ==
    ASSUME NEW s \in Sups, NEW h \in Handle, NEW w \in Filters \cup {None},
           NEW l \in {"off", "top", "suspect", "teardown", "mark", "decide",
                      "drop", "open", "install"}
    PROVE  /\ [s EXCEPT !.pc = l] \in Sups
           /\ [s EXCEPT !.nh = h] \in Sups
           /\ [s EXCEPT !.pc = l, !.want = w] \in Sups
           /\ [s EXCEPT !.pc = l, !.nh = h] \in Sups
           /\ [SupOff EXCEPT !.pc = l, !.cur = w] \in Sups
           /\ [SupOff EXCEPT !.pc = l] \in Sups
           /\ SupOff \in Sups
           /\ s.want \in Filters \cup {None} /\ s.cur \in Filters \cup {None}
           /\ s.nh \in Handle
  BY HandleTypes DEF Sups, SupOff

LEMMA SwpParts ==
    ASSUME NEW s \in Swps, NEW h \in Handle, NEW T \in SUBSET Revived,
           NEW l \in {"off", "check", "open", "install"}
    PROVE  /\ [s EXCEPT !.pc = l] \in Swps
           /\ [s EXCEPT !.nh = h] \in Swps
           /\ [s EXCEPT !.pc = l, !.nh = h] \in Swps
           /\ [s EXCEPT !.pc = l, !.todo = T] \in Swps
           /\ [pc |-> l, nh |-> h, todo |-> T] \in Swps
           /\ SwpOff \in Swps
           /\ s.nh \in Handle /\ s.todo \in SUBSET Revived
  BY HandleTypes DEF Swps, SwpOff

LEMMA RevivingKind == \A g \in Gens : Reviving(g) \in Kinds
  BY DEF Reviving, Kinds

LEMMA KindsAre == "tcp" \in Kinds /\ "udp" \in Kinds /\ "sock" \in Kinds
  BY DEF Kinds

-----------------------------------------------------------------------------
LEMMA InitPlaces == Init => Places
<1> SUFFICES ASSUME Init PROVE Places
    OBVIOUS
<1> USE DEF Init
<1>1. Typed
  <2>1. SupOff \in Sups /\ SwpOff \in Swps /\ Idle \in Ops
    BY HandleTypes DEF Sups, Swps, Ops, SupOff, SwpOff, Idle
  <2>2. op \in Ops /\ sup \in [Gens -> Sups] /\ swp \in [Gens -> Swps]
    BY <2>1
  <2>3. /\ inst \in [Kinds -> Handle] /\ instGen \in [Kinds -> 0..MaxGen]
        /\ panicH \in [Kinds -> 0..MaxFaults]
        /\ live \in [Kinds -> Int] /\ retired \in [Kinds -> BOOLEAN]
    BY HandleTypes, Bounds
  <2>4. gen \in 0..MaxGen /\ faults \in 0..MaxFaults
    BY Bounds
  <2> QED BY <2>2, <2>3, <2>4 DEF Typed
<1>2. OpPlaces /\ Cleared
  BY KindsAre DEF OpPlaces, Cleared, Idle, NoHandles
<1>3. GoroutinePlaces
  BY DEF GoroutinePlaces, SupOff, SwpOff
<1> QED BY <1>1, <1>2, <1>3 DEF Places

(* A step of the operation that holds opMu.                                *)
LEMMA OpTypes ==
    ASSUME Places, OpStarts \/ OpStops \/ OpStep
    PROVE  Typed'
<1> USE Bounds, HandleTypes, KindsAre DEF Typed, runVars, instVars
<1>0. Typed /\ OpPlaces
  BY DEF Places
<1>1. CASE OpStarts \/ OpStops
  BY <1>0, <1>1, OpParts DEF OpStarts, OpStops, driverVars
<1>2. CASE StartListen
  <2>1. op' = Idle \/ op' = [op EXCEPT !.pc = "openSock"]
    BY <1>2 DEF StartListen, StartGivesUp
  <2>2. op' \in Ops
    BY <1>0, <2>1, OpParts
  <2>3. \/ OpenFails /\ listener' = FALSE /\ UNCHANGED <<panicH, udpStopped>>
        \/ /\ listener' = TRUE /\ udpStopped' = FALSE /\ panicH' = [k \in Kinds |-> 0]
           /\ UNCHANGED <<live, retired, faults>>
    BY <1>2 DEF StartListen, StartGivesUp, driverVars
  <2>4. UNCHANGED <<running, gen, inst, instGen, sup, swp>>
    BY <1>2 DEF StartListen
  <2>5. /\ live' \in [Kinds -> Int] /\ retired' \in [Kinds -> BOOLEAN] /\ faults' \in 0..MaxFaults
        /\ panicH' \in [Kinds -> 0..MaxFaults]
        /\ listener' \in BOOLEAN /\ udpStopped' \in BOOLEAN
    <3>1. CASE OpenFails /\ listener' = FALSE /\ UNCHANGED <<panicH, udpStopped>>
      BY <1>0, <3>1, OpenTypes
    <3>2. [k \in Kinds |-> 0] \in [Kinds -> 0..MaxFaults]
      OBVIOUS
    <3> QED BY <1>0, <2>3, <3>1, <3>2
  <2> QED BY <1>0, <2>2, <2>4, <2>5
<1>3. CASE StartOpenSock
  <2>1. op' = Idle \/ op' = [op EXCEPT !.pc = "openTcp", !.held["sock"] = Fresh]
    BY <1>3 DEF StartOpenSock, StartGivesUp
  <2>2. op' \in Ops
    <3>1. Idle \in Ops
      BY DEF Ops, Idle
    <3>2. [op EXCEPT !.pc = "openTcp", !.held["sock"] = Fresh] \in Ops
      BY <1>0 DEF Ops
    <3> QED BY ONLY <2>1, <3>1, <3>2
  <2>3. (Open("sock") \/ OpenFails) /\ (listener' = FALSE \/ listener' = listener)
    BY <1>3 DEF StartOpenSock, StartGivesUp
  <2>4. UNCHANGED <<running, gen, inst, instGen, panicH, udpStopped, sup, swp>>
    BY <1>3 DEF StartOpenSock
  <2> QED BY <1>0, <2>2, <2>3, <2>4, OpenTypes
<1>4. CASE StartOpenTcp
  <2>1. op' = Idle \/ op' = [op EXCEPT !.pc = "install", !.held["tcp"] = Fresh]
    BY <1>4 DEF StartOpenTcp, StartGivesUp
  <2>2. op' \in Ops
    <3>1. Idle \in Ops
      BY DEF Ops, Idle
    <3>2. [op EXCEPT !.pc = "install", !.held["tcp"] = Fresh] \in Ops
      BY <1>0 DEF Ops
    <3> QED BY ONLY <2>1, <3>1, <3>2
  <2>3. /\ Open("tcp") \/ (Fault /\ Close("sock", op.held["sock"]))
        /\ listener' = FALSE \/ listener' = listener
    BY <1>4 DEF StartOpenTcp, StartGivesUp
  <2>4. UNCHANGED <<running, gen, inst, instGen, panicH, udpStopped, sup, swp>>
    BY <1>4 DEF StartOpenTcp
  <2>5. live' \in [Kinds -> Int] /\ retired' \in [Kinds -> BOOLEAN] /\ faults' \in 0..MaxFaults
    BY <1>0, <2>3, OpenTypes, CloseTypes, FaultTypes
  <2> QED BY <1>0, <2>2, <2>3, <2>4, <2>5
<1>5. CASE StartInstall
  <2>1. gen + 1 \in Gens /\ gen' \in 0..MaxGen /\ gen + 1 \in 0..MaxGen
    BY <1>0, <1>5 DEF StartInstall, OpPlaces, Gens
  <2>2. sup' \in [Gens -> Sups] /\ swp' \in [Gens -> Swps]
    <3>1. sup' = [sup EXCEPT ![gen + 1] = [@ EXCEPT !.pc = "top"]]
      BY <1>5 DEF StartInstall
    <3>2. swp' = [swp EXCEPT ![gen + 1] = [@ EXCEPT !.pc = "check"]]
      BY <1>5 DEF StartInstall
    <3>3. /\ [sup[gen + 1] EXCEPT !.pc = "top"] \in Sups
          /\ [swp[gen + 1] EXCEPT !.pc = "check"] \in Swps
      BY <1>0, <2>1, SupParts, SwpParts
    <3> QED BY <1>0, <3>1, <3>2, <3>3
  <2>3. inst' \in [Kinds -> Handle] /\ instGen' \in [Kinds -> 0..MaxGen]
    <3>1. op.held \in [Kinds -> Handle]
      BY <1>0 DEF Ops
    <3>2. /\ inst' = [op.held EXCEPT !["udp"] = inst["udp"]]
          /\ instGen' = [instGen EXCEPT !["tcp"] = gen + 1, !["sock"] = gen + 1]
      BY <1>5 DEF StartInstall
    <3>3. inst' \in [Kinds -> Handle]
      BY <1>0, <3>1, <3>2
    <3>4. instGen' \in [Kinds -> 0..MaxGen]
      BY <1>0, <2>1, <3>2
    <3> QED BY <3>3, <3>4
  <2>4. op' \in Ops
    BY <1>5 DEF StartInstall, Ops, Idle
  <2> QED BY <1>0, <1>5, <2>1, <2>2, <2>3, <2>4 DEF StartInstall, driverVars
<1>6. CASE StopBegin
  <2>1. [inst EXCEPT !["udp"] = Nil] \in [Kinds -> Handle]
    BY <1>0
  <2>2. op' \in Ops
    <3>1. op' = [pc |-> "stopTcp", held |-> [inst EXCEPT !["udp"] = Nil]]
      BY <1>6 DEF StopBegin
    <3> QED BY <2>1, <3>1 DEF Ops
  <2>3. inst' \in [Kinds -> Handle] /\ instGen' \in [Kinds -> 0..MaxGen]
    BY <1>0, <1>6 DEF StopBegin
  <2> QED BY <1>0, <1>6, <2>2, <2>3 DEF StopBegin, driverVars
<1>7. CASE StopTcp
  <2>1. op' \in Ops
    BY <1>0, <1>7, OpParts DEF StopTcp
  <2> QED BY <1>0, <1>7, <2>1, CloseTypes DEF StopTcp
<1>8. CASE StopUdp
  <2>1. op' \in Ops
    BY <1>0, <1>8, OpParts DEF StopUdp
  <2> QED BY <1>0, <1>8, <2>1, CloseTypes, InstallTypes DEF StopUdp
<1>9. CASE StopRest
  <2>1. op' \in Ops
    BY <1>0, <1>9, OpParts DEF StopRest
  <2> QED BY <1>0, <1>9, <2>1, CloseTypes DEF StopRest
<1> QED BY <1>1, <1>2, <1>3, <1>4, <1>5, <1>6, <1>7, <1>8, <1>9 DEF OpStep

(* A packet loop does something to a handle, whoever holds it.             *)
LEMMA LoopEventTypes ==
    ASSUME Typed, NEW k \in Kinds, NEW from, NEW to \in Handle, LoopEvent(k, from, to)
    PROVE  /\ inst' \in [Kinds -> Handle] /\ op' \in Ops
           /\ sup' \in [Gens -> Sups] /\ swp' \in [Gens -> Swps]
<1> USE DEF Typed
<1>1. CASE inst' = [inst EXCEPT ![k] = to] /\ UNCHANGED <<op, sup, swp>>
  BY <1>1
<1>2. CASE op' = [op EXCEPT !.held[k] = to] /\ UNCHANGED <<inst, sup, swp>>
  <2>1. [op EXCEPT !.held[k] = to] \in Ops
    BY DEF Ops
  <2> QED BY <1>2, <2>1
<1>3. ASSUME NEW g \in Gens, sup' = [sup EXCEPT ![g].nh = to] /\ UNCHANGED <<inst, op, swp>>
      PROVE  sup' \in [Gens -> Sups]
  BY <1>3 DEF Sups
<1>4. ASSUME NEW g \in Gens, swp' = [swp EXCEPT ![g].nh = to] /\ UNCHANGED <<inst, op, sup>>
      PROVE  swp' \in [Gens -> Swps]
  BY <1>4 DEF Swps
<1> QED BY <1>1, <1>2, <1>3, <1>4 DEF LoopEvent

LEMMA LoopTypes ==
    ASSUME Places, NEW k \in Kinds, LoopStep(k)
    PROVE  Typed'
<1>0. Typed
  BY DEF Places
<1> USE Bounds, HandleTypes DEF runVars, instVars, driverVars
<1>1. CASE LoopFails(k)
  <2>1. LoopEvent(k, Fresh, [Fresh EXCEPT !.st = "dead"]) /\ Fault
    BY <1>1 DEF LoopFails
  <2>2. /\ live' = [live EXCEPT ![k] = @ - 1]
        /\ UNCHANGED <<running, gen, listener, instGen, panicH, udpStopped, retired>>
    BY <1>1 DEF LoopFails
  <2>3. live' \in [Kinds -> Int] /\ faults' \in 0..MaxFaults
    BY <1>0, <2>1, <2>2, FaultTypes DEF Typed
  <2> QED BY <1>0, <2>1, <2>2, <2>3, LoopEventTypes DEF Typed
<1>2. CASE LoopPanics(k)
  <2>1. /\ LoopEvent(k, Fresh, [Fresh EXCEPT !.panic = faults + 1])
        /\ faults < MaxFaults /\ faults' = faults + 1
        /\ panicH' = [panicH EXCEPT ![k] = faults + 1]
        /\ UNCHANGED <<running, gen, listener, instGen, udpStopped, live, retired>>
    BY <1>2 DEF LoopPanics
  <2>2. faults + 1 \in 1..MaxFaults /\ faults + 1 \in 0..MaxFaults
    BY <1>0, <2>1 DEF Typed
  <2>3. [Fresh EXCEPT !.panic = faults + 1] \in Handle
    BY <2>2
  <2>4. panicH' \in [Kinds -> 0..MaxFaults]
    BY <1>0, <2>1, <2>2 DEF Typed
  <2> QED BY <1>0, <2>1, <2>2, <2>3, <2>4, LoopEventTypes DEF Typed
<1>3. CASE PanicFinishes(k)
  <2>1. PICK n \in 1..MaxFaults :
             LoopEvent(k, [st |-> "open", panic |-> n], [st |-> "dead", panic |-> n])
    BY <1>3 DEF PanicFinishes
  <2>2. /\ live' = [live EXCEPT ![k] = @ - 1]
        /\ UNCHANGED <<running, gen, listener, instGen, panicH, udpStopped, retired, faults>>
    BY <1>3 DEF PanicFinishes
  <2>3. live' \in [Kinds -> Int]
    BY <1>0, <2>2 DEF Typed
  <2> QED BY <1>0, <2>1, <2>2, <2>3, LoopEventTypes DEF Typed
<1>4. CASE RetiredPanics(k)
  <2>1. /\ Fault /\ panicH' = [panicH EXCEPT ![k] = faults + 1]
        /\ UNCHANGED <<running, gen, listener, inst, instGen, udpStopped, live, retired, op, sup, swp>>
    BY <1>4 DEF RetiredPanics
  <2>2. faults' \in 0..MaxFaults /\ faults + 1 \in 0..MaxFaults
    BY <1>0, <2>1, FaultTypes DEF Typed
  <2> QED BY <1>0, <2>1, <2>2 DEF Typed
<1> QED BY <1>1, <1>2, <1>3, <1>4 DEF LoopStep

(* What the supervisor decides, without the filters it looked at.          *)
LEMMA SupDecideGoes ==
    ASSUME NEW g \in Gens, SupDecide(g)
    PROVE  \/ sup' = [sup EXCEPT ![g] = SupOff]
           \/ sup' = [sup EXCEPT ![g] = [sup[g] EXCEPT !.pc = "top"]]
           \/ \E want \in Filters \cup {None}, l \in {"drop", "open"} :
                sup' = [sup EXCEPT ![g] = [sup[g] EXCEPT !.pc = l, !.want = want]]
<1>1. CASE ~Current(g)
  BY <1>1 DEF SupDecide, SupExit
<1>2. CASE Current(g)
  <2>1. PICK want \in Filters \cup {None} :
             IF \/ want # sup[g].cur
                \/ want # None /\ inst["udp"].st # "open"
               THEN sup' = [sup EXCEPT ![g].pc = IF want = None THEN "drop" ELSE "open",
                                       ![g].want = want]
               ELSE SupGoto(g, "top")
    BY <1>2 DEF SupDecide
  <2>2. CASE SupGoto(g, "top")
    BY <2>2 DEF SupGoto
  <2>3. CASE sup' = [sup EXCEPT ![g].pc = IF want = None THEN "drop" ELSE "open",
                                ![g].want = want]
    <3>1. CASE want = None
      BY <2>3, <3>1
    <3>2. CASE want # None
      BY <2>3, <3>2
    <3> QED BY <3>1, <3>2
  <2> QED BY <2>1, <2>2, <2>3
<1> QED BY <1>1, <1>2

(* A step of the supervisor of run g.                                      *)
LEMMA SupTypes ==
    ASSUME Places, NEW g \in Gens, SupStep(g)
    PROVE  Typed'
<1>0. Typed /\ gen \in 0..MaxGen /\ g \in 0..MaxGen
  BY Bounds DEF Places, Typed, Gens
<1> USE HandleTypes, KindsAre DEF runVars, instVars
<1>1. sup[g] \in Sups /\ SupOff \in Sups /\ sup[g].nh \in Handle
  <2>1. sup[g] \in Sups
    BY <1>0 DEF Typed
  <2>2. SupOff \in Sups
    BY DEF Sups, SupOff
  <2> QED BY <2>1, <2>2 DEF Sups
<1>2. ASSUME NEW s \in Sups, sup' = [sup EXCEPT ![g] = s]
      PROVE  sup' \in [Gens -> Sups]
  BY <1>0, <1>2 DEF Typed
<1>3. ASSUME NEW l \in {"off", "top", "suspect", "teardown", "mark", "decide",
                        "drop", "open", "install"}
      PROVE  [sup[g] EXCEPT !.pc = l] \in Sups
  BY <1>1 DEF Sups
<1>4. CASE SupTop(g) \/ SupSuspect(g) \/ SupMark(g)
  <2>1. \/ sup' = [sup EXCEPT ![g] = SupOff]
        \/ \E l \in {"suspect", "decide", "teardown"} :
             sup' = [sup EXCEPT ![g] = [sup[g] EXCEPT !.pc = l]]
    BY <1>4 DEF SupTop, SupSuspect, SupMark, SupExit, SupGoto
  <2>2. sup' \in [Gens -> Sups]
    BY <1>1, <1>2, <1>3, <2>1
  <2> QED BY <1>0, <1>4, <2>2 DEF SupTop, SupSuspect, SupMark, driverVars, Typed
<1>5. CASE SupTeardown(g)
  <2>1. sup' = [sup EXCEPT ![g] = [sup[g] EXCEPT !.pc = "mark"]]
    BY <1>5 DEF SupTeardown, SupGoto
  <2>2. sup' \in [Gens -> Sups]
    BY <1>2, <1>3, <2>1
  <2> QED BY <1>0, <1>5, <2>2, CloseTypes, InstallTypes DEF SupTeardown, Typed
<1>6. CASE SupDecide(g)
  <2>1. \/ sup' = [sup EXCEPT ![g] = SupOff]
        \/ sup' = [sup EXCEPT ![g] = [sup[g] EXCEPT !.pc = "top"]]
        \/ \E want \in Filters \cup {None}, l \in {"drop", "open"} :
             sup' = [sup EXCEPT ![g] = [sup[g] EXCEPT !.pc = l, !.want = want]]
    BY <1>6, SupDecideGoes
  <2>2. \A want \in Filters \cup {None}, l \in {"drop", "open"} :
             [sup[g] EXCEPT !.pc = l, !.want = want] \in Sups
    BY <1>1 DEF Sups
  <2>3. sup' \in [Gens -> Sups]
    BY <1>1, <1>2, <1>3, <2>1, <2>2
  <2> QED BY <1>0, <1>6, <2>3 DEF SupDecide, driverVars, Typed
<1>7. CASE SupDrop(g)
  <2>1. \/ sup' = [sup EXCEPT ![g] = [SupOff EXCEPT !.pc = "top"]]
        \/ sup' = [sup EXCEPT ![g] = [sup[g] EXCEPT !.pc = "top"]]
    BY <1>7 DEF SupDrop, SupGoto
  <2>2. sup' \in [Gens -> Sups]
    <3>1. [SupOff EXCEPT !.pc = "top"] \in Sups
      BY <1>1 DEF Sups
    <3> QED BY <1>2, <1>3, <2>1, <3>1
  <2>3. UNCHANGED <<running, gen, listener, panicH, udpStopped, op, swp, faults>>
    BY <1>7 DEF SupDrop
  <2>4. \/ Install("udp", Nil, g) /\ Close("udp", inst["udp"])
        \/ UNCHANGED <<inst, instGen, live, retired>>
    BY <1>7 DEF SupDrop, driverVars
  <2> QED BY <1>0, <2>2, <2>3, <2>4, CloseTypes, InstallTypes DEF Typed
<1>8. CASE SupOpen(g)
  <2>1. \/ sup' = [sup EXCEPT ![g] = [sup[g] EXCEPT !.pc = "top", !.want = None]]
        \/ sup' = [sup EXCEPT ![g] = [sup[g] EXCEPT !.pc = "install", !.nh = Fresh]]
    BY <1>8 DEF SupOpen
  <2>2. /\ [sup[g] EXCEPT !.pc = "top", !.want = None] \in Sups
        /\ [sup[g] EXCEPT !.pc = "install", !.nh = Fresh] \in Sups
    BY <1>1 DEF Sups
  <2>3. sup' \in [Gens -> Sups]
    BY <1>2, <2>1, <2>2
  <2>4. /\ OpenFails \/ Open("udp")
        /\ UNCHANGED <<running, gen, listener, inst, instGen, panicH, udpStopped, op, swp>>
    BY <1>8 DEF SupOpen
  <2> QED BY <1>0, <2>3, <2>4, OpenTypes DEF Typed
<1>9. CASE SupInstall(g)
  <2>1. \E w \in {sup[g].want, sup[g].cur} :
             sup' = [sup EXCEPT ![g] = [SupOff EXCEPT !.pc = "top", !.cur = w]]
    BY <1>9 DEF SupInstall
  <2>2. \A w \in {sup[g].want, sup[g].cur} : [SupOff EXCEPT !.pc = "top", !.cur = w] \in Sups
    BY <1>1 DEF Sups
  <2>3. sup' \in [Gens -> Sups]
    BY <1>2, <2>1, <2>2
  <2>4. UNCHANGED <<running, gen, listener, panicH, udpStopped, op, swp, faults>>
    BY <1>9 DEF SupInstall
  <2>5. \/ Install("udp", sup[g].nh, g) /\ Close("udp", inst["udp"])
        \/ Close("udp", sup[g].nh) /\ UNCHANGED <<inst, instGen>>
    BY <1>9 DEF SupInstall
  <2> QED BY <1>0, <1>1, <2>3, <2>4, <2>5, CloseTypes, InstallTypes DEF Typed
<1> QED BY <1>4, <1>5, <1>6, <1>7, <1>8, <1>9 DEF SupStep

(* A step of the sweeper of run g.                                         *)
LEMMA SwpTypes ==
    ASSUME Places, NEW g \in Gens, SwpStep(g)
    PROVE  Typed'
<1>0. Typed /\ gen \in 0..MaxGen /\ g \in 0..MaxGen /\ Reviving(g) \in Kinds
  BY Bounds, RevivingKind DEF Places, Typed, Gens
<1> USE HandleTypes DEF runVars, instVars
<1>1. swp[g] \in Swps /\ SwpOff \in Swps /\ swp[g].nh \in Handle /\ swp[g].todo \in SUBSET Revived
  <2>1. swp[g] \in Swps
    BY <1>0 DEF Typed
  <2>2. SwpOff \in Swps
    BY DEF Swps, SwpOff
  <2> QED BY <2>1, <2>2 DEF Swps
<1>2. ASSUME NEW s \in Swps, swp' = [swp EXCEPT ![g] = s]
      PROVE  swp' \in [Gens -> Swps]
  BY <1>0, <1>2 DEF Typed
<1>3. ASSUME SwpNext(g) PROVE swp' \in [Gens -> Swps]
  <2> DEFINE rest == swp[g].todo \ {Reviving(g)}
             s == [pc |-> IF rest = {} THEN "check" ELSE "open", nh |-> Nil, todo |-> rest]
  <2>1. swp' = [swp EXCEPT ![g] = s]
    BY <1>3 DEF SwpNext
  <2>2. s \in Swps
    BY <1>1 DEF Swps
  <2> QED BY <1>2, <2>1, <2>2
<1>4. CASE SwpCheck(g)
  <2>1. \/ swp' = [swp EXCEPT ![g] = SwpOff]
        \/ swp' = [swp EXCEPT ![g] = [swp[g] EXCEPT !.pc = "open", !.todo = DeadCaptures]]
    BY <1>4 DEF SwpCheck
  <2>2. [swp[g] EXCEPT !.pc = "open", !.todo = DeadCaptures] \in Swps
    BY <1>1 DEF Swps, DeadCaptures
  <2>3. swp' \in [Gens -> Swps]
    BY <1>1, <1>2, <2>1, <2>2
  <2> QED BY <1>0, <1>4, <2>3 DEF SwpCheck, driverVars, Typed
<1>5. CASE SwpOpen(g)
  <2>1. \/ SwpNext(g)
        \/ swp' = [swp EXCEPT ![g] = [swp[g] EXCEPT !.pc = "install", !.nh = Fresh]]
    BY <1>5 DEF SwpOpen
  <2>2. [swp[g] EXCEPT !.pc = "install", !.nh = Fresh] \in Swps
    BY <1>1 DEF Swps
  <2>3. swp' \in [Gens -> Swps]
    BY <1>2, <1>3, <2>1, <2>2
  <2>4. /\ OpenFails \/ Open(Reviving(g))
        /\ UNCHANGED <<running, gen, listener, inst, instGen, panicH, udpStopped, op, sup>>
    BY <1>5 DEF SwpOpen
  <2> QED BY <1>0, <2>3, <2>4, OpenTypes DEF Typed
<1>6. CASE SwpInstall(g)
  <2>1. SwpNext(g) /\ UNCHANGED <<running, gen, listener, panicH, udpStopped, op, sup, faults>>
    BY <1>6 DEF SwpInstall
  <2>2. \/ Install(Reviving(g), swp[g].nh, g) /\ Close(Reviving(g), inst[Reviving(g)])
        \/ Close(Reviving(g), swp[g].nh) /\ UNCHANGED <<inst, instGen>>
    BY <1>6 DEF SwpInstall
  <2> QED BY <1>0, <1>1, <1>3, <2>1, <2>2, CloseTypes, InstallTypes DEF Typed
<1> QED BY <1>4, <1>5, <1>6 DEF SwpStep

-----------------------------------------------------------------------------
(* A loop turns a handle into another one; nobody's Nil becomes a handle.  *)
LEMMA LoopEventKeeps ==
    ASSUME Typed, NEW k \in Kinds, NEW from \in Handle, NEW to \in Handle,
           from # Nil, to # Nil, LoopEvent(k, from, to)
    PROVE  /\ \A j \in Kinds : (inst'[j] = Nil) = (inst[j] = Nil)
           /\ op'.pc = op.pc /\ \A j \in Kinds : (op'.held[j] = Nil) = (op.held[j] = Nil)
           /\ \A g \in Gens : /\ sup'[g].pc = sup[g].pc
                              /\ (sup'[g].nh = Nil) = (sup[g].nh = Nil)
                              /\ sup[g].nh = Nil => sup'[g] = sup[g]
                              /\ swp'[g].pc = swp[g].pc /\ swp'[g].todo = swp[g].todo
                              /\ (swp'[g].nh = Nil) = (swp[g].nh = Nil)
                              /\ swp[g].nh = Nil => swp'[g] = swp[g]
<1>0. /\ inst \in [Kinds -> Handle] /\ op \in Ops
      /\ sup \in [Gens -> Sups] /\ swp \in [Gens -> Swps]
  BY DEF Typed
<1>1. CASE inst[k] = from /\ inst' = [inst EXCEPT ![k] = to] /\ UNCHANGED <<op, sup, swp>>
  BY <1>0, <1>1
<1>2. CASE op.held[k] = from /\ op' = [op EXCEPT !.held[k] = to] /\ UNCHANGED <<inst, sup, swp>>
  <2>1. /\ op'.pc = op.pc
        /\ \A j \in Kinds : op'.held[j] = IF j = k THEN to ELSE op.held[j]
    BY <1>0, <1>2 DEF Ops
  <2> QED BY <1>2, <2>1
<1>3. ASSUME NEW h \in Gens, sup[h].nh = from,
             sup' = [sup EXCEPT ![h].nh = to] /\ UNCHANGED <<inst, op, swp>>
      PROVE  \A g \in Gens : /\ sup'[g].pc = sup[g].pc
                             /\ (sup'[g].nh = Nil) = (sup[g].nh = Nil)
                             /\ sup[g].nh = Nil => sup'[g] = sup[g]
  <2>1. \A g \in Gens : sup'[g] = IF g = h THEN [sup[h] EXCEPT !.nh = to] ELSE sup[g]
    BY <1>0, <1>3
  <2>2. sup[h] \in Sups
    BY <1>0
  <2>3. [sup[h] EXCEPT !.nh = to].pc = sup[h].pc /\ [sup[h] EXCEPT !.nh = to].nh = to
    BY <2>2 DEF Sups
  <2> QED BY <1>3, <2>1, <2>3
<1>4. ASSUME NEW h \in Gens, swp[h].nh = from,
             swp' = [swp EXCEPT ![h].nh = to] /\ UNCHANGED <<inst, op, sup>>
      PROVE  \A g \in Gens : /\ swp'[g].pc = swp[g].pc /\ swp'[g].todo = swp[g].todo
                             /\ (swp'[g].nh = Nil) = (swp[g].nh = Nil)
                             /\ swp[g].nh = Nil => swp'[g] = swp[g]
  <2>1. \A g \in Gens : swp'[g] = IF g = h THEN [swp[h] EXCEPT !.nh = to] ELSE swp[g]
    BY <1>0, <1>4
  <2>2. swp[h] \in Swps
    BY <1>0
  <2>3. /\ [swp[h] EXCEPT !.nh = to].pc = swp[h].pc /\ [swp[h] EXCEPT !.nh = to].nh = to
        /\ [swp[h] EXCEPT !.nh = to].todo = swp[h].todo
    BY <2>2 DEF Swps
  <2> QED BY <1>4, <2>1, <2>3
<1> QED BY <1>1, <1>2, <1>3, <1>4 DEF LoopEvent

(* What a step of a packet loop leaves alone.                              *)
LEMMA LoopKeeps ==
    ASSUME Typed, NEW k \in Kinds, LoopStep(k)
    PROVE  /\ UNCHANGED <<running, gen, listener, instGen, udpStopped>>
           /\ \A j \in Kinds : (inst'[j] = Nil) = (inst[j] = Nil)
           /\ op'.pc = op.pc /\ \A j \in Kinds : (op'.held[j] = Nil) = (op.held[j] = Nil)
           /\ \A g \in Gens : /\ sup'[g].pc = sup[g].pc
                              /\ (sup'[g].nh = Nil) = (sup[g].nh = Nil)
                              /\ sup[g].nh = Nil => sup'[g] = sup[g]
                              /\ swp'[g].pc = swp[g].pc /\ swp'[g].todo = swp[g].todo
                              /\ (swp'[g].nh = Nil) = (swp[g].nh = Nil)
                              /\ swp[g].nh = Nil => swp'[g] = swp[g]
<1> USE HandleTypes DEF runVars, instVars
<1>0. faults \in 0..MaxFaults /\ MaxFaults \in Nat
  BY Bounds DEF Typed
<1>1. CASE LoopFails(k)
  <2>1. [Fresh EXCEPT !.st = "dead"] # Nil
    BY DEF Fresh, Nil
  <2> QED BY <1>1, <2>1, LoopEventKeeps DEF LoopFails
<1>2. CASE LoopPanics(k)
  <2>1. faults + 1 \in 1..MaxFaults /\ LoopEvent(k, Fresh, [Fresh EXCEPT !.panic = faults + 1])
    BY <1>0, <1>2 DEF LoopPanics
  <2>2. [Fresh EXCEPT !.panic = faults + 1] # Nil
    BY DEF Fresh, Nil
  <2>3. UNCHANGED <<running, gen, listener, instGen, udpStopped>>
    BY <1>2 DEF LoopPanics
  <2> QED BY <2>1, <2>2, <2>3, LoopEventKeeps
<1>3. CASE PanicFinishes(k)
  <2>1. PICK n \in 1..MaxFaults :
             LoopEvent(k, [st |-> "open", panic |-> n], [st |-> "dead", panic |-> n])
    BY <1>3 DEF PanicFinishes
  <2>2. [st |-> "open", panic |-> n] # Nil /\ [st |-> "dead", panic |-> n] # Nil
    BY DEF Nil
  <2>3. UNCHANGED <<running, gen, listener, instGen, udpStopped>>
    BY <1>3 DEF PanicFinishes
  <2> QED BY <2>1, <2>2, <2>3, LoopEventKeeps
<1>4. CASE RetiredPanics(k)
  BY <1>4 DEF RetiredPanics
<1> QED BY <1>1, <1>2, <1>3, <1>4 DEF LoopStep

(* The goroutines of the runs install handles of kinds tcp, udp and sock   *)
(* only while they are current, and change nothing of the operation.       *)
LEMMA SupKeeps ==
    ASSUME Typed, NEW g \in Gens, SupStep(g)
    PROVE  /\ UNCHANGED <<running, gen, listener, op, swp>>
           /\ \A j \in Kinds : inst'[j] = inst[j] \/ inst'[j] = Nil \/ Current(g)
           /\ \A h \in Gens \ {g} : sup'[h] = sup[h]
<1> USE DEF runVars, instVars, SupExit, SupGoto, Typed, Install
<1>1. CASE SupTop(g) \/ SupSuspect(g) \/ SupMark(g) \/ SupDecide(g) \/ SupOpen(g)
  <2>1. UNCHANGED <<running, gen, listener, op, swp, inst>>
    BY <1>1 DEF SupTop, SupSuspect, SupMark, SupDecide, SupOpen
  <2>2. CASE SupTop(g) \/ SupSuspect(g) \/ SupMark(g) \/ SupOpen(g)
    BY <2>1, <2>2 DEF SupTop, SupSuspect, SupMark, SupOpen
  <2>3. CASE SupDecide(g)
    BY <2>1, <2>3 DEF SupDecide
  <2> QED BY <1>1, <2>2, <2>3
<1>2. CASE SupTeardown(g)
  BY <1>2 DEF SupTeardown
<1>3. CASE SupDrop(g)
  BY <1>3 DEF SupDrop
<1>4. CASE SupInstall(g)
  BY <1>4 DEF SupInstall
<1> QED BY <1>1, <1>2, <1>3, <1>4 DEF SupStep

LEMMA SwpKeeps ==
    ASSUME Typed, NEW g \in Gens, SwpStep(g)
    PROVE  /\ UNCHANGED <<running, gen, listener, op, sup>>
           /\ \A j \in Kinds : inst'[j] = inst[j] \/ Current(g)
           /\ \A h \in Gens \ {g} : swp'[h] = swp[h]
<1> USE DEF runVars, instVars, SwpNext, Typed
<1>1. CASE SwpCheck(g) \/ SwpOpen(g)
  BY <1>1 DEF SwpCheck, SwpOpen
<1>2. CASE SwpInstall(g)
  BY <1>2 DEF SwpInstall
<1> QED BY <1>1, <1>2 DEF SwpStep

(* Each step of the operation leaves it with what its next step expects.   *)
LEMMA OpKeepsPlaces ==
    ASSUME Places, OpStarts \/ OpStops \/ OpStep
    PROVE  OpPlaces' /\ Cleared' /\ GoroutinePlaces'
<1>0. /\ inst \in [Kinds -> Handle] /\ op \in Ops /\ op.held \in [Kinds -> Handle]
      /\ sup \in [Gens -> Sups] /\ swp \in [Gens -> Swps] /\ gen \in 0..MaxGen
      /\ OpPlaces /\ Cleared /\ GoroutinePlaces
  BY DEF Places, Typed, Ops
<1> USE DEF runVars, instVars, StartGivesUp, Idle, NoHandles, Install
<1>1. CASE OpStarts \/ OpStops
  <2>1. /\ op'.pc = (IF running THEN "stop" ELSE "listen") /\ op'.held = op.held /\ op.pc = "idle"
        /\ ~running => gen < MaxGen
        /\ UNCHANGED <<running, gen, listener, inst, sup, swp>>
    BY <1>0, <1>1 DEF OpStarts, OpStops, Ops
  <2> QED BY <1>0, <2>1 DEF OpPlaces, Cleared, GoroutinePlaces
<1>2. CASE StartListen
  <2>1. /\ op.pc = "listen" /\ op'.held["tcp"] = Nil /\ op'.held["sock"] = Nil /\ op'.held["udp"] = Nil
        /\ (op'.pc = "idle" /\ ~listener') \/ op'.pc = "openSock"
        /\ UNCHANGED <<running, gen, inst, sup, swp>>
    BY <1>0, <1>2, KindsAre DEF StartListen, Ops, OpPlaces
  <2> QED BY <1>0, <2>1 DEF OpPlaces, Cleared, GoroutinePlaces
<1>3. CASE StartOpenSock
  <2>1. /\ op.pc = "openSock" /\ op'.held["tcp"] = Nil /\ op'.held["udp"] = Nil
        /\ \/ op'.pc = "idle" /\ ~listener' /\ op'.held["sock"] = Nil
           \/ op'.pc = "openTcp"
        /\ UNCHANGED <<running, gen, inst, sup, swp>>
    <3>1. CASE op' = Idle
      BY <1>3, <3>1, KindsAre DEF StartOpenSock
    <3>2. CASE op' = [op EXCEPT !.pc = "openTcp", !.held["sock"] = Fresh]
      <4>1. op'.pc = "openTcp" /\ op'.held = [op.held EXCEPT !["sock"] = Fresh]
        BY <1>0, <3>2 DEF Ops
      <4> QED BY <1>0, <1>3, <4>1, KindsAre DEF StartOpenSock, OpPlaces
    <3> QED BY <1>3, <3>1, <3>2 DEF StartOpenSock
  <2> QED BY <1>0, <2>1 DEF OpPlaces, Cleared, GoroutinePlaces
<1>4. CASE StartOpenTcp
  <2>1. /\ op.pc = "openTcp" /\ op'.held["udp"] = Nil
        /\ \/ op'.pc = "idle" /\ ~listener' /\ op'.held["sock"] = Nil /\ op'.held["tcp"] = Nil
           \/ op'.pc = "install"
        /\ UNCHANGED <<running, gen, inst, sup, swp>>
    <3>1. CASE op' = Idle
      BY <1>4, <3>1, KindsAre DEF StartOpenTcp
    <3>2. CASE op' = [op EXCEPT !.pc = "install", !.held["tcp"] = Fresh]
      <4>1. op'.pc = "install" /\ op'.held = [op.held EXCEPT !["tcp"] = Fresh]
        BY <1>0, <3>2 DEF Ops
      <4> QED BY <1>0, <1>4, <4>1, KindsAre DEF StartOpenTcp, OpPlaces
    <3> QED BY <1>4, <3>1, <3>2 DEF StartOpenTcp
  <2> QED BY <1>0, <2>1 DEF OpPlaces, Cleared, GoroutinePlaces
<1>5. CASE StartInstall
  <2>1. /\ op' = Idle /\ running' /\ gen' = gen + 1 /\ gen + 1 \in Gens
        /\ sup' = [sup EXCEPT ![gen + 1].pc = "top"] /\ swp' = [swp EXCEPT ![gen + 1].pc = "check"]
    BY <1>0, <1>5, Bounds DEF StartInstall, OpPlaces, Gens
  <2>2. OpPlaces' /\ Cleared'
    BY <2>1, KindsAre DEF OpPlaces, Cleared
  <2>3. sup[gen + 1] = SupOff /\ swp[gen + 1] = SwpOff
    BY <1>0, <2>1 DEF GoroutinePlaces
  <2>4. \A g \in Gens : g # gen + 1 => sup'[g] = sup[g] /\ swp'[g] = swp[g]
    BY <1>0, <2>1
  <2>5. /\ sup'[gen + 1].nh = Nil
        /\ swp'[gen + 1].nh = Nil /\ swp'[gen + 1].pc = "check" /\ swp'[gen + 1].todo = {}
    BY <1>0, <2>1, <2>3 DEF SupOff, SwpOff
  <2>6. \A g \in Gens : g > gen' => g # gen + 1 /\ g > gen
    BY <1>0, <2>1 DEF Gens
  <2> QED BY <1>0, <2>1, <2>2, <2>4, <2>5, <2>6 DEF GoroutinePlaces
<1>6. CASE StopBegin
  <2>1. /\ op'.pc = "stopTcp" /\ op'.held["udp"] = Nil /\ ~running'
        /\ inst'["tcp"] = Nil /\ inst'["sock"] = Nil
        /\ UNCHANGED <<gen, sup, swp>>
    BY <1>0, <1>6, KindsAre DEF StopBegin
  <2> QED BY <1>0, <2>1 DEF OpPlaces, Cleared, GoroutinePlaces
<1>7. CASE StopTcp
  <2>1. /\ op.pc = "stopTcp" /\ op'.pc = "stopUdp" /\ op'.held["tcp"] = Nil
        /\ op'.held["udp"] = op.held["udp"]
        /\ UNCHANGED <<running, gen, inst, sup, swp>>
    BY <1>0, <1>7, KindsAre DEF StopTcp, Ops
  <2> QED BY <1>0, <2>1 DEF OpPlaces, Cleared, GoroutinePlaces
<1>8. CASE StopUdp
  <2>1. /\ op.pc = "stopUdp" /\ op'.pc = "stopRest" /\ op'.held = op.held
        /\ inst'["tcp"] = inst["tcp"] /\ inst'["sock"] = inst["sock"] /\ inst'["udp"] = Nil
        /\ UNCHANGED <<running, gen, sup, swp>>
    BY <1>0, <1>8, KindsAre DEF StopUdp, Ops
  <2> QED BY <1>0, <2>1 DEF OpPlaces, Cleared, GoroutinePlaces
<1>9. CASE StopRest
  <2>1. /\ op.pc = "stopRest" /\ op' = Idle /\ ~listener'
        /\ UNCHANGED <<running, gen, inst, sup, swp>>
    BY <1>9 DEF StopRest
  <2> QED BY <1>0, <2>1, KindsAre DEF OpPlaces, Cleared, GoroutinePlaces
<1> QED BY <1>1, <1>2, <1>3, <1>4, <1>5, <1>6, <1>7, <1>8, <1>9 DEF OpStep

LEMMA SupKeepsPlaces ==
    ASSUME Places, NEW g \in Gens, SupStep(g)
    PROVE  OpPlaces' /\ Cleared' /\ GoroutinePlaces'
<1>0. /\ Typed /\ sup \in [Gens -> Sups] /\ g \in Gens /\ gen \in 0..MaxGen
      /\ OpPlaces /\ Cleared /\ GoroutinePlaces
  BY DEF Places, Typed
<1>1. OpPlaces' /\ Cleared'
  BY <1>0, SupKeeps, KindsAre DEF OpPlaces, Cleared, Current
<1>2. g <= gen
  BY <1>0 DEF GoroutinePlaces, SupStep, SupTop, SupSuspect, SupTeardown, SupMark, SupDecide,
              SupDrop, SupOpen, SupInstall, SupOff, Gens
<1>3. sup'[g].pc # "install" => sup'[g].nh = Nil
  <2> USE <1>0 DEF SupExit, SupGoto, SupOff, Sups, GoroutinePlaces
  <2>1. CASE SupTop(g) \/ SupSuspect(g) \/ SupTeardown(g) \/ SupMark(g)
    BY <2>1 DEF SupTop, SupSuspect, SupTeardown, SupMark
  <2>2. CASE SupDecide(g)
    <3>1. sup[g] \in Sups /\ sup[g].nh = Nil
      BY <2>2 DEF SupDecide
    <3>2. CASE sup' = [sup EXCEPT ![g] = SupOff]
      BY <3>2
    <3>3. CASE sup' = [sup EXCEPT ![g] = [sup[g] EXCEPT !.pc = "top"]]
      BY <3>1, <3>3
    <3>4. ASSUME NEW want \in Filters \cup {None}, NEW l \in {"drop", "open"},
                 sup' = [sup EXCEPT ![g] = [sup[g] EXCEPT !.pc = l, !.want = want]]
          PROVE  sup'[g].nh = Nil
      BY <3>1, <3>4
    <3> QED BY <2>2, <3>2, <3>3, <3>4, SupDecideGoes
  <2>3. CASE SupDrop(g)
    BY <2>3 DEF SupDrop
  <2>4. CASE SupOpen(g)
    BY <2>4 DEF SupOpen
  <2>5. CASE SupInstall(g)
    BY <2>5 DEF SupInstall
  <2> QED BY <2>1, <2>2, <2>3, <2>4, <2>5 DEF SupStep
<1> QED BY <1>0, <1>1, <1>2, <1>3, SupKeeps DEF GoroutinePlaces, Gens

LEMMA SwpKeepsPlaces ==
    ASSUME Places, NEW g \in Gens, SwpStep(g)
    PROVE  OpPlaces' /\ Cleared' /\ GoroutinePlaces'
<1>0. /\ Typed /\ swp \in [Gens -> Swps] /\ g \in Gens /\ gen \in 0..MaxGen
      /\ OpPlaces /\ Cleared /\ GoroutinePlaces
  BY DEF Places, Typed
<1>1. OpPlaces' /\ Cleared'
  BY <1>0, SwpKeeps, KindsAre DEF OpPlaces, Cleared, Current
<1>2. g <= gen
  BY <1>0 DEF GoroutinePlaces, SwpStep, SwpCheck, SwpOpen, SwpInstall, SwpOff, Gens
<1>3. /\ swp'[g].pc # "install" => swp'[g].nh = Nil
      /\ (swp'[g].pc \in {"off", "check"}) = (swp'[g].todo = {})
  <2> USE <1>0 DEF SwpOff, Swps, GoroutinePlaces
  <2>1. ASSUME SwpNext(g)
        PROVE  /\ swp'[g].pc \in {"check", "open"} /\ swp'[g].nh = Nil
               /\ (swp'[g].pc = "check") = (swp'[g].todo = {})
    BY <2>1 DEF SwpNext
  <2>2. CASE SwpCheck(g)
    BY <2>2 DEF SwpCheck
  <2>3. CASE SwpOpen(g)
    BY <2>1, <2>3 DEF SwpOpen
  <2>4. CASE SwpInstall(g)
    BY <2>1, <2>4 DEF SwpInstall
  <2> QED BY <2>2, <2>3, <2>4 DEF SwpStep
<1> QED BY <1>0, <1>1, <1>2, <1>3, SwpKeeps DEF GoroutinePlaces, Gens

LEMMA PlacesStep == Places /\ [Next]_vars => Places'
<1> SUFFICES ASSUME Places, [Next]_vars PROVE Places'
    OBVIOUS
<1>1. CASE OpStarts \/ OpStops \/ OpStep
  BY <1>1, OpTypes, OpKeepsPlaces DEF Places
<1>2. ASSUME NEW k \in Kinds, LoopStep(k) PROVE Places'
  <2>1. Typed' /\ Typed /\ OpPlaces /\ Cleared /\ GoroutinePlaces
    BY <1>2, LoopTypes DEF Places
  <2>2. OpPlaces' /\ Cleared'
    BY <1>2, <2>1, LoopKeeps, KindsAre DEF OpPlaces, Cleared
  <2>3. GoroutinePlaces'
    <3>1. ASSUME NEW g \in Gens, g > gen PROVE sup'[g] = SupOff /\ swp'[g] = SwpOff
      <4>1. sup[g] = SupOff /\ swp[g] = SwpOff
        BY <2>1, <3>1 DEF GoroutinePlaces
      <4>2. sup[g].nh = Nil /\ swp[g].nh = Nil
        BY <4>1 DEF SupOff, SwpOff
      <4> QED BY <1>2, <2>1, <4>1, <4>2, LoopKeeps
    <3>2. gen' = gen
      BY <1>2, <2>1, LoopKeeps
    <3> QED BY <1>2, <2>1, <3>1, <3>2, LoopKeeps DEF GoroutinePlaces
  <2> QED BY <2>1, <2>2, <2>3 DEF Places
<1>3. ASSUME NEW g \in Gens, SupStep(g) \/ SwpStep(g) PROVE Places'
  BY <1>3, SupTypes, SupKeepsPlaces, SwpTypes, SwpKeepsPlaces DEF Places
<1>4. CASE UNCHANGED vars
  BY <1>4 DEF vars, runVars, instVars, driverVars, Places, Typed, OpPlaces, Cleared, GoroutinePlaces
<1> QED BY <1>1, <1>2, <1>3, <1>4 DEF Next

-----------------------------------------------------------------------------
(* OldRunInstallsNothing: a start finds nothing installed, and whoever     *)
(* installs is of the current run.                                         *)
LEMMA InstallKeepsOld ==
    ASSUME Typed, OldRunInstallsNothing, gen' = gen,
           NEW k \in Kinds, NEW h, NEW g, h = Nil \/ g = gen, Install(k, h, g)
    PROVE  OldRunInstallsNothing'
  BY DEF OldRunInstallsNothing, Install, Typed

LEMMA OldStep == Places /\ OldRunInstallsNothing /\ [Next]_vars => OldRunInstallsNothing'
<1> SUFFICES ASSUME Places, OldRunInstallsNothing, [Next]_vars
             PROVE  OldRunInstallsNothing'
    OBVIOUS
<1>0. /\ Typed /\ OpPlaces /\ Cleared
      /\ inst \in [Kinds -> Handle] /\ instGen \in [Kinds -> 0..MaxGen]
      /\ gen \in 0..MaxGen /\ op.held \in [Kinds -> Handle]
  BY DEF Places, Typed, Ops
<1> USE DEF runVars, instVars
<1>1. CASE UNCHANGED <<gen, inst, instGen>>
  BY <1>1 DEF OldRunInstallsNothing
<1>2. CASE StartInstall
  <2>1. inst["udp"] = Nil /\ gen' = gen + 1
        /\ inst' = [op.held EXCEPT !["udp"] = inst["udp"]]
        /\ instGen' = [instGen EXCEPT !["tcp"] = gen + 1, !["sock"] = gen + 1]
    BY <1>0, <1>2 DEF StartInstall, OpPlaces, Cleared
  <2> QED BY <1>0, <2>1 DEF OldRunInstallsNothing, Kinds
<1>3. CASE StopBegin
  <2>1. /\ inst' = [NoHandles EXCEPT !["udp"] = inst["udp"]] /\ gen' = gen
        /\ instGen' = [instGen EXCEPT !["tcp"] = 0, !["sock"] = 0]
    BY <1>3 DEF StopBegin
  <2> QED BY <1>0, <2>1 DEF OldRunInstallsNothing, Kinds, NoHandles
<1>4. CASE StopUdp
  BY <1>0, <1>4, InstallKeepsOld, KindsAre DEF StopUdp
<1>5. CASE OpStarts \/ OpStops \/ OpStep
  BY <1>1, <1>2, <1>3, <1>4, <1>5
     DEF OpStarts, OpStops, OpStep, StartListen, StartOpenSock, StartOpenTcp, StopTcp, StopRest
<1>6. ASSUME NEW k \in Kinds, LoopStep(k) PROVE OldRunInstallsNothing'
  BY <1>0, <1>6, LoopKeeps DEF OldRunInstallsNothing
<1>7. ASSUME NEW g \in Gens, SupStep(g) PROVE OldRunInstallsNothing'
  <2>1. gen' = gen
    BY <1>0, <1>7, SupKeeps
  <2>2. CASE SupTeardown(g)
    BY <1>0, <2>1, <2>2, InstallKeepsOld, KindsAre DEF SupTeardown
  <2>3. CASE SupDrop(g)
    BY <1>0, <1>1, <2>1, <2>3, InstallKeepsOld, KindsAre DEF SupDrop
  <2>4. CASE SupInstall(g)
    BY <1>0, <1>1, <2>1, <2>4, InstallKeepsOld, KindsAre DEF SupInstall, Current
  <2> QED BY <1>1, <1>7, <2>2, <2>3, <2>4
             DEF SupStep, SupTop, SupSuspect, SupMark, SupDecide, SupOpen
<1>8. ASSUME NEW g \in Gens, SwpStep(g) PROVE OldRunInstallsNothing'
  <2>1. gen' = gen /\ Reviving(g) \in Kinds
    BY <1>0, <1>8, SwpKeeps, RevivingKind
  <2>2. CASE SwpInstall(g)
    BY <1>0, <1>1, <2>1, <2>2, InstallKeepsOld DEF SwpInstall, Current
  <2> QED BY <1>1, <1>8, <2>2 DEF SwpStep, SwpCheck, SwpOpen
<1> QED BY <1>1, <1>5, <1>6, <1>7, <1>8 DEF Next, vars

LEMMA PlacesHold == Spec => []Places
  BY InitPlaces, PlacesStep, PTL DEF Spec

(* A goroutine that a restart left behind installs nothing in the new run, *)
(* whatever the order of opening, restarting and swapping.                 *)
THEOREM OldRunInstallsNothingHolds == Spec => []OldRunInstallsNothing
<1>1. Init => OldRunInstallsNothing
  BY DEF Init, OldRunInstallsNothing, NoHandles
<1> QED BY <1>1, PlacesHold, OldStep, PTL DEF Spec

-----------------------------------------------------------------------------
(* The count.                                                              *)
One(h) == IF h.st = "open" THEN 1 ELSE 0
SupOwn(k) == {g \in Gens : k = "udp" /\ sup[g].nh.st = "open"}
SwpOwn(k) == {g \in Gens : k = Reviving(g) /\ swp[g].nh.st = "open"}
Owners(k) == One(inst[k]) + One(op.held[k]) + Cardinality(SupOwn(k)) + Cardinality(SwpOwn(k))

(* The driver diverts to as many handles as have an owner.                 *)
Owned == \A k \in Kinds : live[k] = Owners(k)

LEMMA OneOrNone == \A h : One(h) \in {0, 1}
  BY DEF One

LEMMA OwnCounts ==
    ASSUME NEW k
    PROVE  /\ IsFiniteSet(SupOwn(k)) /\ Cardinality(SupOwn(k)) \in Nat
           /\ IsFiniteSet(SwpOwn(k)) /\ Cardinality(SwpOwn(k)) \in Nat
<1>1. IsFiniteSet(Gens)
  BY Bounds, FS_Interval DEF Gens
<1>2. SupOwn(k) \subseteq Gens /\ SwpOwn(k) \subseteq Gens
  BY DEF SupOwn, SwpOwn
<1> QED BY <1>1, <1>2, FS_Subset, FS_CardinalityType

(* Two finite sets that differ in g at most.                               *)
LEMMA CountChange ==
    ASSUME NEW S, NEW T, NEW g, IsFiniteSet(S), IsFiniteSet(T), S \ {g} = T \ {g}
    PROVE  Cardinality(T) = Cardinality(S) + (IF g \in T THEN 1 ELSE 0) - (IF g \in S THEN 1 ELSE 0)
<1>1. /\ Cardinality(S \ {g}) = IF g \in S THEN Cardinality(S) - 1 ELSE Cardinality(S)
      /\ Cardinality(T \ {g}) = IF g \in T THEN Cardinality(T) - 1 ELSE Cardinality(T)
  BY FS_RemoveElement
<1>2. Cardinality(S) \in Nat /\ Cardinality(T) \in Nat
  BY FS_CardinalityType
<1> QED BY <1>1, <1>2

LEMMA SupCount ==
    ASSUME NEW g \in Gens, \A h \in Gens \ {g} : sup'[h] = sup[h], NEW k
    PROVE  Cardinality(SupOwn(k)') = Cardinality(SupOwn(k))
             + (IF k = "udp" THEN One(sup'[g].nh) - One(sup[g].nh) ELSE 0)
<1>1. IsFiniteSet(SupOwn(k)) /\ IsFiniteSet(SupOwn(k)')
  <2>1. IsFiniteSet(Gens) /\ SupOwn(k)' \subseteq Gens
    BY Bounds, FS_Interval DEF Gens, SupOwn
  <2> QED BY <2>1, OwnCounts, FS_Subset
<1>2. SupOwn(k) \ {g} = SupOwn(k)' \ {g}
  BY DEF SupOwn
<1>3. /\ (g \in SupOwn(k)) = (k = "udp" /\ sup[g].nh.st = "open")
      /\ (g \in SupOwn(k)') = (k = "udp" /\ sup'[g].nh.st = "open")
  BY DEF SupOwn
<1>4. Cardinality(SupOwn(k)') = Cardinality(SupOwn(k))
         + (IF g \in SupOwn(k)' THEN 1 ELSE 0) - (IF g \in SupOwn(k) THEN 1 ELSE 0)
  BY <1>1, <1>2, CountChange
<1>5. Cardinality(SupOwn(k)) \in Nat
  BY OwnCounts
<1> QED BY <1>3, <1>4, <1>5 DEF One

(* What the sweeper of run g owns of kind k.                               *)
SwpOne(g, k) == IF k = Reviving(g) THEN One(swp[g].nh) ELSE 0

LEMMA SwpCount ==
    ASSUME NEW g \in Gens, \A h \in Gens \ {g} : swp'[h] = swp[h], NEW k
    PROVE  Cardinality(SwpOwn(k)') = Cardinality(SwpOwn(k)) + SwpOne(g, k)' - SwpOne(g, k)
<1>1. IsFiniteSet(SwpOwn(k)) /\ IsFiniteSet(SwpOwn(k)')
  <2>1. IsFiniteSet(Gens) /\ SwpOwn(k)' \subseteq Gens
    BY Bounds, FS_Interval DEF Gens, SwpOwn
  <2> QED BY <2>1, OwnCounts, FS_Subset
<1>2. SwpOwn(k) \ {g} = SwpOwn(k)' \ {g}
  BY DEF SwpOwn, Reviving
<1>3. /\ SwpOne(g, k) = IF g \in SwpOwn(k) THEN 1 ELSE 0
      /\ SwpOne(g, k)' = IF g \in SwpOwn(k)' THEN 1 ELSE 0
  BY DEF SwpOwn, SwpOne, One
<1>4. Cardinality(SwpOwn(k)') = Cardinality(SwpOwn(k))
         + (IF g \in SwpOwn(k)' THEN 1 ELSE 0) - (IF g \in SwpOwn(k) THEN 1 ELSE 0)
  BY <1>1, <1>2, CountChange
<1> QED BY <1>3, <1>4

LEMMA CloseCount ==
    ASSUME Typed, NEW k \in Kinds, NEW h, Close(k, h)
    PROVE  \A j \in Kinds : live'[j] = live[j] - (IF j = k THEN One(h) ELSE 0)
<1>1. live \in [Kinds -> Int]
  BY DEF Typed
<1>2. CASE h.st = "open"
  BY <1>1, <1>2 DEF Close, One
<1>3. CASE h.st # "open"
  BY <1>1, <1>3 DEF Close, One, driverVars
<1> QED BY <1>2, <1>3

LEMMA OpenCount ==
    ASSUME Typed, NEW k \in Kinds, Open(k)
    PROVE  \A j \in Kinds : live'[j] = live[j] + (IF j = k THEN 1 ELSE 0)
  BY DEF Open, Typed

LEMMA InstallCount ==
    ASSUME Typed, NEW k \in Kinds, NEW h, NEW g, Install(k, h, g)
    PROVE  \A j \in Kinds : inst'[j] = IF j = k THEN h ELSE inst[j]
  BY DEF Install, Typed

LEMMA OneOf == One(Nil) = 0 /\ One(Fresh) = 1
  BY DEF One, Nil, Fresh

(* A step that leaves the goroutines alone.                                *)
LEMMA StillCounts ==
    ASSUME UNCHANGED <<sup, swp>>, NEW k
    PROVE  /\ Cardinality(SupOwn(k)') = Cardinality(SupOwn(k))
           /\ Cardinality(SwpOwn(k)') = Cardinality(SwpOwn(k))
  BY DEF SupOwn, SwpOwn, Reviving

(* The balance of a step at one kind.                                      *)
LEMMA Balance ==
    ASSUME Owned, NEW k \in Kinds,
           Cardinality(SupOwn(k)') \in Int, Cardinality(SwpOwn(k)') \in Int,
           live'[k] = live[k] + (One(inst'[k]) - One(inst[k]))
                              + (One(op'.held[k]) - One(op.held[k]))
                              + (Cardinality(SupOwn(k)') - Cardinality(SupOwn(k)))
                              + (Cardinality(SwpOwn(k)') - Cardinality(SwpOwn(k)))
    PROVE  live'[k] = Owners(k)'
<1>1. live[k] = Owners(k)
  BY DEF Owned
<1>2. /\ One(inst[k]) \in Int /\ One(inst'[k]) \in Int
      /\ One(op.held[k]) \in Int /\ One(op'.held[k]) \in Int
  BY OneOrNone
<1>3. Cardinality(SupOwn(k)) \in Int /\ Cardinality(SwpOwn(k)) \in Int
  BY OwnCounts
<1>4. Owners(k)' = One(inst'[k]) + One(op'.held[k]) + Cardinality(SupOwn(k)') + Cardinality(SwpOwn(k)')
  BY DEF Owners, One
<1>5. Owners(k) = One(inst[k]) + One(op.held[k]) + Cardinality(SupOwn(k)) + Cardinality(SwpOwn(k))
  BY DEF Owners
<1> QED BY <1>1, <1>2, <1>3, <1>4, <1>5

LEMMA OpOwned ==
    ASSUME Places, Owned, OpStarts \/ OpStops \/ OpStep
    PROVE  Owned'
<1>0. /\ Typed /\ OpPlaces /\ Cleared
      /\ live \in [Kinds -> Int] /\ inst \in [Kinds -> Handle]
      /\ op \in Ops /\ op.held \in [Kinds -> Handle]
  BY DEF Places, Typed, Ops
<1> USE KindsAre, OneOf DEF runVars, instVars, driverVars
<1>1. UNCHANGED <<sup, swp>> \/ StartInstall
  BY DEF OpStarts, OpStops, OpStep, StartListen, StartOpenSock, StartOpenTcp,
         StopBegin, StopTcp, StopUdp, StopRest
<1>2. ASSUME UNCHANGED <<sup, swp>>,
             \A k \in Kinds : live'[k] = live[k] + (One(inst'[k]) - One(inst[k]))
                                                 + (One(op'.held[k]) - One(op.held[k]))
      PROVE  Owned'
  <2>1. ASSUME NEW k \in Kinds PROVE live'[k] = Owners(k)'
    <3>1. /\ Cardinality(SupOwn(k)') = Cardinality(SupOwn(k))
          /\ Cardinality(SwpOwn(k)') = Cardinality(SwpOwn(k))
          /\ Cardinality(SupOwn(k)) \in Int /\ Cardinality(SwpOwn(k)) \in Int
      BY <1>2, StillCounts, OwnCounts
    <3>2. live'[k] = live[k] + (One(inst'[k]) - One(inst[k]))
                             + (One(op'.held[k]) - One(op.held[k]))
                             + (Cardinality(SupOwn(k)') - Cardinality(SupOwn(k)))
                             + (Cardinality(SwpOwn(k)') - Cardinality(SwpOwn(k)))
      <4>1. /\ One(inst[k]) \in Int /\ One(inst'[k]) \in Int
            /\ One(op.held[k]) \in Int /\ One(op'.held[k]) \in Int /\ live[k] \in Int
        BY <1>0, OneOrNone
      <4> QED BY <1>2, <3>1, <4>1
    <3> QED BY <3>1, <3>2, Balance
  <2> QED BY <2>1 DEF Owned
<1>3. \A k \in Kinds : One(inst[k]) \in {0, 1} /\ One(op.held[k]) \in {0, 1} /\ live[k] \in Int
  BY <1>0, OneOrNone
<1>4. CASE OpStarts \/ OpStops
  <2>1. op'.held = op.held /\ UNCHANGED <<sup, swp, inst, live>>
    BY <1>0, <1>4 DEF OpStarts, OpStops, Ops
  <2> QED BY <1>2, <1>3, <2>1
<1>5. CASE StartListen
  <2>1. UNCHANGED <<sup, swp, inst, live>> /\ op.pc = "listen"
    BY <1>5 DEF StartListen, OpenFails
  <2>2. op'.held = op.held
    <3>1. op' = Idle \/ op' = [op EXCEPT !.pc = "openSock"]
      BY <1>5 DEF StartListen, StartGivesUp
    <3>2. op.held = NoHandles
      BY <1>0, <2>1 DEF OpPlaces, NoHandles, Kinds
    <3> QED BY <1>0, <3>1, <3>2 DEF Ops, Idle
  <2> QED BY <1>2, <1>3, <2>1, <2>2
<1>6. CASE StartOpenSock
  <2>1. UNCHANGED <<sup, swp, inst>> /\ op.held = NoHandles
    <3>1. op.pc = "openSock" /\ UNCHANGED <<sup, swp, inst>>
      BY <1>6 DEF StartOpenSock
    <3> QED BY <1>0, <3>1 DEF OpPlaces, NoHandles, Kinds
  <2>2. CASE OpenFails /\ op' = Idle
    <3>1. op'.held = op.held /\ live' = live
      BY <2>1, <2>2 DEF Idle, OpenFails
    <3> QED BY <1>2, <1>3, <2>1, <3>1
  <2>3. CASE Open("sock") /\ op' = [op EXCEPT !.pc = "openTcp", !.held["sock"] = Fresh]
    <3>1. \A k \in Kinds : op'.held[k] = IF k = "sock" THEN Fresh ELSE op.held[k]
      BY <1>0, <2>3 DEF Ops
    <3>2. \A k \in Kinds : live'[k] = live[k] + (IF k = "sock" THEN 1 ELSE 0)
      BY <1>0, <2>3, OpenCount
    <3>3. op.held["sock"] = Nil
      BY <2>1 DEF NoHandles
    <3> QED BY <1>2, <1>3, <2>1, <3>1, <3>2, <3>3
  <2> QED BY <1>6, <2>2, <2>3 DEF StartOpenSock, StartGivesUp
<1>7. CASE StartOpenTcp
  <2>1. UNCHANGED <<sup, swp, inst>> /\ op.held["tcp"] = Nil /\ op.held["udp"] = Nil
    <3>1. op.pc = "openTcp" /\ UNCHANGED <<sup, swp, inst>>
      BY <1>7 DEF StartOpenTcp
    <3> QED BY <1>0, <3>1 DEF OpPlaces
  <2>2. CASE Close("sock", op.held["sock"]) /\ op' = Idle
    <3>1. \A k \in Kinds : op'.held[k] = IF k = "sock" THEN Nil ELSE op.held[k]
      BY <2>1, <2>2 DEF Idle, NoHandles, Kinds
    <3>2. \A k \in Kinds : live'[k] = live[k] - (IF k = "sock" THEN One(op.held["sock"]) ELSE 0)
      BY <1>0, <2>2, CloseCount
    <3> QED BY <1>2, <1>3, <2>1, <3>1, <3>2
  <2>3. CASE Open("tcp") /\ op' = [op EXCEPT !.pc = "install", !.held["tcp"] = Fresh]
    <3>1. \A k \in Kinds : op'.held[k] = IF k = "tcp" THEN Fresh ELSE op.held[k]
      BY <1>0, <2>3 DEF Ops
    <3>2. \A k \in Kinds : live'[k] = live[k] + (IF k = "tcp" THEN 1 ELSE 0)
      BY <1>0, <2>3, OpenCount
    <3> QED BY <1>2, <1>3, <2>1, <3>1, <3>2
  <2> QED BY <1>7, <2>2, <2>3 DEF StartOpenTcp, StartGivesUp
<1>8. CASE StartInstall
  <2>1. /\ \A k \in Kinds : inst'[k] = IF k = "udp" THEN inst["udp"] ELSE op.held[k]
        /\ \A k \in Kinds : op'.held[k] = Nil
        /\ live' = live
    BY <1>0, <1>8 DEF StartInstall, Idle, NoHandles
  <2>2. op.pc = "install" /\ ~running
    BY <1>0, <1>8 DEF StartInstall, OpPlaces
  <2>3. inst["tcp"] = Nil /\ inst["sock"] = Nil /\ op.held["udp"] = Nil
    BY <1>0, <2>2 DEF Cleared, OpPlaces
  <2>4. ASSUME NEW k \in Kinds
        PROVE  /\ SupOwn(k)' = SupOwn(k)
               /\ SwpOwn(k)' = SwpOwn(k)
    <3>1. /\ sup' = [sup EXCEPT ![gen + 1].pc = "top"]
          /\ swp' = [swp EXCEPT ![gen + 1].pc = "check"]
          /\ sup \in [Gens -> Sups] /\ swp \in [Gens -> Swps]
      BY <1>0, <1>8 DEF StartInstall, Typed
    <3>2. \A g \in Gens : /\ sup'[g].nh = sup[g].nh
                          /\ swp'[g].nh = swp[g].nh /\ swp'[g].todo = swp[g].todo
      BY <3>1 DEF Sups, Swps
    <3> QED BY <3>2 DEF SupOwn, SwpOwn, Reviving
  <2>5. ASSUME NEW k \in Kinds PROVE live'[k] = Owners(k)'
    <3>1. /\ Cardinality(SupOwn(k)') = Cardinality(SupOwn(k))
          /\ Cardinality(SwpOwn(k)') = Cardinality(SwpOwn(k))
          /\ Cardinality(SupOwn(k)) \in Int /\ Cardinality(SwpOwn(k)) \in Int
      BY <2>4, OwnCounts
    <3>2. live'[k] = live[k] + (One(inst'[k]) - One(inst[k]))
                             + (One(op'.held[k]) - One(op.held[k])) + 0 + 0
      BY <1>3, <2>1, <2>3 DEF Kinds
    <3>3. live'[k] = live[k] + (One(inst'[k]) - One(inst[k]))
                             + (One(op'.held[k]) - One(op.held[k]))
                             + (Cardinality(SupOwn(k)') - Cardinality(SupOwn(k)))
                             + (Cardinality(SwpOwn(k)') - Cardinality(SwpOwn(k)))
      BY <3>1, <3>2
    <3> QED BY <3>1, <3>3, Balance
  <2> QED BY <2>5 DEF Owned
<1>9. CASE StopBegin
  <2>1. /\ \A k \in Kinds : op'.held[k] = IF k = "udp" THEN Nil ELSE inst[k]
        /\ \A k \in Kinds : inst'[k] = IF k = "udp" THEN inst["udp"] ELSE Nil
        /\ UNCHANGED <<sup, swp, live>> /\ op.pc = "stop"
    BY <1>0, <1>9 DEF StopBegin, NoHandles
  <2>2. \A k \in Kinds : op.held[k] = Nil
    BY <1>0, <2>1 DEF OpPlaces, Kinds
  <2> QED BY <1>2, <1>3, <2>1, <2>2
<1>10. CASE StopTcp
  <2>1. /\ \A k \in Kinds : op'.held[k] = IF k = "tcp" THEN Nil ELSE op.held[k]
        /\ Close("tcp", op.held["tcp"])
        /\ UNCHANGED <<sup, swp, inst>>
    BY <1>0, <1>10 DEF StopTcp, Ops
  <2>2. \A k \in Kinds : live'[k] = live[k] - (IF k = "tcp" THEN One(op.held["tcp"]) ELSE 0)
    BY <1>0, <2>1, CloseCount
  <2> QED BY <1>2, <1>3, <2>1, <2>2
<1>11. CASE StopUdp
  <2>1. /\ op'.held = op.held /\ Install("udp", Nil, gen) /\ Close("udp", inst["udp"])
        /\ UNCHANGED <<sup, swp>>
    BY <1>0, <1>11 DEF StopUdp, Ops
  <2>2. \A k \in Kinds : live'[k] = live[k] - (IF k = "udp" THEN One(inst["udp"]) ELSE 0)
    BY <1>0, <2>1, CloseCount
  <2>3. \A k \in Kinds : inst'[k] = IF k = "udp" THEN Nil ELSE inst[k]
    BY <1>0, <2>1, InstallCount
  <2> QED BY <1>2, <1>3, <2>1, <2>2, <2>3
<1>12. CASE StopRest
  <2>1. /\ \A k \in Kinds : op'.held[k] = Nil
        /\ Close("sock", op.held["sock"])
        /\ UNCHANGED <<sup, swp, inst>> /\ op.pc = "stopRest"
    BY <1>12 DEF StopRest, Idle, NoHandles
  <2>2. \A k \in Kinds : live'[k] = live[k] - (IF k = "sock" THEN One(op.held["sock"]) ELSE 0)
    BY <1>0, <2>1, CloseCount
  <2>3. op.held["tcp"] = Nil /\ op.held["udp"] = Nil
    BY <1>0, <2>1 DEF OpPlaces
  <2> QED BY <1>2, <1>3, <2>1, <2>2, <2>3 DEF Kinds
<1> QED BY <1>4, <1>5, <1>6, <1>7, <1>8, <1>9, <1>10, <1>11, <1>12 DEF OpStep

(* The handle that a loop changes counts for its owner, whoever that is.   *)
LEMMA LoopEventCount ==
    ASSUME Typed, NEW k \in Kinds, NEW from \in Handle, NEW to \in Handle, LoopEvent(k, from, to)
    PROVE  \A j \in Kinds : Owners(j)' = Owners(j) + (IF j = k THEN One(to) - One(from) ELSE 0)
<1>0. /\ inst \in [Kinds -> Handle] /\ op \in Ops /\ op.held \in [Kinds -> Handle]
      /\ sup \in [Gens -> Sups] /\ swp \in [Gens -> Swps]
  BY DEF Typed, Ops
<1>1. SUFFICES ASSUME NEW j \in Kinds
               PROVE  Owners(j)' = Owners(j) + (IF j = k THEN One(to) - One(from) ELSE 0)
  OBVIOUS
<1>2. Owners(j)' = One(inst'[j]) + One(op'.held[j]) + Cardinality(SupOwn(j)') + Cardinality(SwpOwn(j)')
  BY DEF Owners, One
<1>3. /\ One(inst[j]) \in Int /\ One(op.held[j]) \in Int /\ One(to) \in Int /\ One(from) \in Int
      /\ Cardinality(SupOwn(j)) \in Int /\ Cardinality(SwpOwn(j)) \in Int
  BY OneOrNone, OwnCounts
<1>4. CASE inst[k] = from /\ inst' = [inst EXCEPT ![k] = to] /\ UNCHANGED <<op, sup, swp>>
  BY <1>0, <1>2, <1>3, <1>4, StillCounts DEF Owners
<1>5. CASE op.held[k] = from /\ op' = [op EXCEPT !.held[k] = to] /\ UNCHANGED <<inst, sup, swp>>
  <2>1. op'.held[j] = IF j = k THEN to ELSE op.held[j]
    BY <1>0, <1>5 DEF Ops
  <2> QED BY <1>2, <1>3, <1>5, <2>1, StillCounts DEF Owners
<1>6. ASSUME NEW g \in Gens, k = "udp", sup[g].nh = from,
             sup' = [sup EXCEPT ![g].nh = to] /\ UNCHANGED <<inst, op, swp>>
      PROVE  Owners(j)' = Owners(j) + (IF j = k THEN One(to) - One(from) ELSE 0)
  <2>1. sup'[g].nh = to /\ \A h \in Gens \ {g} : sup'[h] = sup[h]
    BY <1>0, <1>6 DEF Sups
  <2>2. Cardinality(SupOwn(j)') = Cardinality(SupOwn(j)) + (IF j = "udp" THEN One(to) - One(from) ELSE 0)
    BY <1>6, <2>1, SupCount
  <2>3. Cardinality(SwpOwn(j)') = Cardinality(SwpOwn(j))
    BY <1>6 DEF SwpOwn, Reviving
  <2> QED BY <1>2, <1>3, <1>6, <2>2, <2>3 DEF Owners
<1>7. ASSUME NEW g \in Gens, k = Reviving(g), swp[g].nh = from,
             swp' = [swp EXCEPT ![g].nh = to] /\ UNCHANGED <<inst, op, sup>>
      PROVE  Owners(j)' = Owners(j) + (IF j = k THEN One(to) - One(from) ELSE 0)
  <2>1. /\ swp'[g].nh = to /\ swp'[g].todo = swp[g].todo
        /\ \A h \in Gens \ {g} : swp'[h] = swp[h]
    BY <1>0, <1>7 DEF Swps
  <2>2. /\ SwpOne(g, j) = IF j = k THEN One(from) ELSE 0
        /\ SwpOne(g, j)' = IF j = k THEN One(to) ELSE 0
    BY <1>7, <2>1 DEF SwpOne, Reviving, One
  <2>3. Cardinality(SwpOwn(j)') = Cardinality(SwpOwn(j)) + SwpOne(g, j)' - SwpOne(g, j)
    BY <2>1, SwpCount
  <2>4. Cardinality(SupOwn(j)') = Cardinality(SupOwn(j))
    BY <1>7 DEF SupOwn
  <2> QED BY <1>2, <1>3, <1>7, <2>2, <2>3, <2>4 DEF Owners
<1> QED BY <1>4, <1>5, <1>6, <1>7 DEF LoopEvent

LEMMA LoopOwned ==
    ASSUME Places, Owned, NEW k \in Kinds, LoopStep(k)
    PROVE  Owned'
<1>0. Typed /\ live \in [Kinds -> Int] /\ faults \in 0..MaxFaults
  BY DEF Places, Typed
<1> USE HandleTypes, Bounds, OneOf DEF runVars, instVars, driverVars
<1>1. \A j \in Kinds : live[j] = Owners(j) /\ live[j] \in Int
  BY <1>0 DEF Owned
<1>2. CASE LoopFails(k)
  <2> DEFINE dead == [Fresh EXCEPT !.st = "dead"]
  <2>1. One(dead) = 0 /\ dead \in Handle
    BY DEF One, Fresh
  <2>2. LoopEvent(k, Fresh, dead) /\ live' = [live EXCEPT ![k] = @ - 1]
    BY <1>2 DEF LoopFails
  <2> HIDE DEF dead
  <2>3. \A j \in Kinds : Owners(j)' = Owners(j) + (IF j = k THEN 0 - 1 ELSE 0)
    BY <1>0, <2>1, <2>2, LoopEventCount
  <2> QED BY <1>0, <1>1, <2>2, <2>3 DEF Owned
<1>3. CASE LoopPanics(k)
  <2> DEFINE told == [Fresh EXCEPT !.panic = faults + 1]
  <2>1. LoopEvent(k, Fresh, told) /\ live' = live /\ faults + 1 \in 1..MaxFaults
    BY <1>0, <1>3 DEF LoopPanics
  <2>2. One(told) = 1 /\ told \in Handle
    BY <2>1 DEF One, Fresh
  <2> HIDE DEF told
  <2>3. \A j \in Kinds : Owners(j)' = Owners(j) + (IF j = k THEN 1 - 1 ELSE 0)
    BY <1>0, <2>1, <2>2, LoopEventCount
  <2>4. ASSUME NEW j \in Kinds PROVE live'[j] = Owners(j)'
    BY <1>1, <2>1, <2>3
  <2> QED BY <2>4 DEF Owned
<1>4. CASE PanicFinishes(k)
  <2>1. PICK n \in 1..MaxFaults :
             LoopEvent(k, [st |-> "open", panic |-> n], [st |-> "dead", panic |-> n])
    BY <1>4 DEF PanicFinishes
  <2> DEFINE told == [st |-> "open", panic |-> n]
             dead == [st |-> "dead", panic |-> n]
  <2>2. One(told) = 1 /\ One(dead) = 0 /\ told \in Handle /\ dead \in Handle
    BY DEF One
  <2>3. LoopEvent(k, told, dead)
    BY <2>1
  <2> HIDE DEF told, dead
  <2>4. \A j \in Kinds : Owners(j)' = Owners(j) + (IF j = k THEN 0 - 1 ELSE 0)
    BY <1>0, <2>2, <2>3, LoopEventCount
  <2>5. live' = [live EXCEPT ![k] = @ - 1]
    BY <1>4 DEF PanicFinishes
  <2>6. \A j \in Kinds : live'[j] = live[j] + (IF j = k THEN 0 - 1 ELSE 0)
    BY <1>0, <2>5
  <2>7. ASSUME NEW j \in Kinds PROVE live'[j] = Owners(j)'
    BY <1>1, <2>4, <2>6
  <2> QED BY <2>7 DEF Owned
<1>5. CASE RetiredPanics(k)
  <2>1. UNCHANGED <<inst, op, sup, swp, live>>
    BY <1>5 DEF RetiredPanics
  <2> QED BY <2>1 DEF Owned, Owners, SupOwn, SwpOwn, Reviving, One
<1> QED BY <1>2, <1>3, <1>4, <1>5 DEF LoopStep

LEMMA SupOwned ==
    ASSUME Places, Owned, NEW g \in Gens, SupStep(g)
    PROVE  Owned'
<1>0. /\ Typed /\ GoroutinePlaces /\ live \in [Kinds -> Int] /\ sup \in [Gens -> Sups]
      /\ sup[g] \in Sups
  BY DEF Places, Typed
<1>1. UNCHANGED <<op, swp>> /\ \A h \in Gens \ {g} : sup'[h] = sup[h]
  BY <1>0, SupKeeps
<1> USE KindsAre, OneOf DEF runVars, instVars, driverVars
<1>2. \A k \in Kinds : /\ One(inst[k]) \in Int /\ One(inst'[k]) \in Int
                       /\ One(op.held[k]) \in Int /\ live[k] \in Int
                       /\ One(sup[g].nh) \in Int /\ One(sup'[g].nh) \in Int
  BY <1>0, OneOrNone
<1>3. ASSUME \A k \in Kinds :
                live'[k] = live[k] + (One(inst'[k]) - One(inst[k]))
                             + (IF k = "udp" THEN One(sup'[g].nh) - One(sup[g].nh) ELSE 0)
      PROVE  Owned'
  <2>1. ASSUME NEW k \in Kinds PROVE live'[k] = Owners(k)'
    <3> DEFINE d == IF k = "udp" THEN One(sup'[g].nh) - One(sup[g].nh) ELSE 0
    <3>1. d \in Int
      BY <1>2
    <3>2. Cardinality(SupOwn(k)') = Cardinality(SupOwn(k)) + d
      BY <1>1, SupCount
    <3>3. Cardinality(SwpOwn(k)') = Cardinality(SwpOwn(k))
      BY <1>1 DEF SwpOwn, Reviving
    <3>4. Cardinality(SupOwn(k)) \in Int /\ Cardinality(SwpOwn(k)) \in Int
      BY OwnCounts
    <3>5. live'[k] = live[k] + (One(inst'[k]) - One(inst[k])) + d
      BY <1>3
    <3>6. op'.held[k] = op.held[k]
      BY <1>1
    <3> HIDE DEF d
    <3>7. Cardinality(SupOwn(k)') \in Int /\ Cardinality(SwpOwn(k)') \in Int
      BY <3>1, <3>2, <3>3, <3>4
    <3>8. live'[k] = live[k] + (One(inst'[k]) - One(inst[k]))
                             + (One(op'.held[k]) - One(op.held[k]))
                             + (Cardinality(SupOwn(k)') - Cardinality(SupOwn(k)))
                             + (Cardinality(SwpOwn(k)') - Cardinality(SwpOwn(k)))
      BY ONLY <1>2, <3>1, <3>2, <3>3, <3>4, <3>5, <3>6, k \in Kinds
    <3> QED BY <3>7, <3>8, Balance
  <2> QED BY <2>1 DEF Owned
<1>4. CASE SupTop(g) \/ SupSuspect(g) \/ SupMark(g) \/ SupDecide(g)
  <2>1. UNCHANGED <<inst, live>> /\ sup[g].nh = Nil
    BY <1>0, <1>4 DEF SupTop, SupSuspect, SupMark, SupDecide, GoroutinePlaces
  <2>2. sup'[g].pc # "install"
    <3>1. CASE SupTop(g) \/ SupSuspect(g) \/ SupMark(g)
      BY <1>0, <3>1 DEF SupTop, SupSuspect, SupMark, SupExit, SupGoto, SupOff, Sups
    <3>2. CASE SupDecide(g)
      <4>1. CASE sup' = [sup EXCEPT ![g] = SupOff]
        BY <1>0, <4>1 DEF SupOff
      <4>2. CASE sup' = [sup EXCEPT ![g] = [sup[g] EXCEPT !.pc = "top"]]
        BY <1>0, <4>2 DEF Sups
      <4>3. ASSUME NEW want \in Filters \cup {None}, NEW l \in {"drop", "open"},
                   sup' = [sup EXCEPT ![g] = [sup[g] EXCEPT !.pc = l, !.want = want]]
            PROVE  sup'[g].pc # "install"
        <5>1. sup'[g].pc = l
          BY <1>0, <4>3 DEF Sups
        <5> QED BY <5>1
      <4> QED BY <3>2, <4>1, <4>2, <4>3, SupDecideGoes
    <3> QED BY <1>4, <3>1, <3>2
  <2>3. sup'[g].nh = Nil
    BY <2>2, SupKeepsPlaces DEF GoroutinePlaces
  <2> QED BY <1>2, <1>3, <2>1, <2>3
<1>5. CASE SupTeardown(g) \/ (SupDrop(g) /\ Current(g))
  <2>1. Install("udp", Nil, gen) \/ Install("udp", Nil, g)
    BY <1>5 DEF SupTeardown, SupDrop
  <2>2. Close("udp", inst["udp"]) /\ sup[g].nh = Nil
    BY <1>0, <1>5 DEF SupTeardown, SupDrop, GoroutinePlaces
  <2>3. sup'[g].nh = Nil
    BY <1>0, <1>5, <2>2 DEF SupTeardown, SupDrop, SupGoto, SupOff, Sups
  <2>4. \A k \in Kinds : inst'[k] = IF k = "udp" THEN Nil ELSE inst[k]
    BY <1>0, <2>1, InstallCount
  <2>5. \A k \in Kinds : live'[k] = live[k] - (IF k = "udp" THEN One(inst["udp"]) ELSE 0)
    BY <1>0, <2>2, CloseCount
  <2> QED BY <1>2, <1>3, <2>2, <2>3, <2>4, <2>5
<1>6. CASE SupDrop(g) /\ ~Current(g)
  <2>1. UNCHANGED <<inst, live>> /\ sup[g].nh = Nil /\ sup'[g].nh = Nil
    BY <1>0, <1>6 DEF SupDrop, SupGoto, GoroutinePlaces, Sups
  <2> QED BY <1>2, <1>3, <2>1
<1>7. CASE SupOpen(g)
  <2>1. UNCHANGED inst /\ sup[g].nh = Nil
    BY <1>0, <1>7 DEF SupOpen, GoroutinePlaces
  <2>2. CASE OpenFails /\ sup' = [sup EXCEPT ![g].pc = "top", ![g].want = None]
    <3>1. live' = live /\ sup'[g].nh = sup[g].nh
      BY <1>0, <2>2 DEF OpenFails, Sups
    <3> QED BY <1>2, <1>3, <2>1, <3>1
  <2>3. CASE Open("udp") /\ sup' = [sup EXCEPT ![g].pc = "install", ![g].nh = Fresh]
    <3>1. sup'[g].nh = Fresh
      BY <1>0, <2>3 DEF Sups
    <3>2. \A k \in Kinds : live'[k] = live[k] + (IF k = "udp" THEN 1 ELSE 0)
      BY <1>0, <2>3, OpenCount
    <3> QED BY <1>2, <1>3, <2>1, <3>1, <3>2
  <2> QED BY <1>7, <2>2, <2>3 DEF SupOpen
<1>8. CASE SupInstall(g)
  <2>1. sup'[g].nh = Nil
    BY <1>0, <1>8 DEF SupInstall, SupOff
  <2>2. CASE Install("udp", sup[g].nh, g) /\ Close("udp", inst["udp"])
    <3>1. \A k \in Kinds : inst'[k] = IF k = "udp" THEN sup[g].nh ELSE inst[k]
      BY <1>0, <2>2, InstallCount
    <3>2. \A k \in Kinds : live'[k] = live[k] - (IF k = "udp" THEN One(inst["udp"]) ELSE 0)
      BY <1>0, <2>2, CloseCount
    <3> QED BY <1>2, <1>3, <2>1, <3>1, <3>2
  <2>3. CASE Close("udp", sup[g].nh) /\ inst' = inst
    <3>1. \A k \in Kinds : live'[k] = live[k] - (IF k = "udp" THEN One(sup[g].nh) ELSE 0)
      BY <1>0, <2>3, CloseCount
    <3> QED BY <1>2, <1>3, <2>1, <2>3, <3>1
  <2> QED BY <1>8, <2>2, <2>3 DEF SupInstall
<1> QED BY <1>4, <1>5, <1>6, <1>7, <1>8 DEF SupStep

LEMMA SwpOwned ==
    ASSUME Places, Owned, NEW g \in Gens, SwpStep(g)
    PROVE  Owned'
<1>0. /\ Typed /\ GoroutinePlaces /\ live \in [Kinds -> Int] /\ swp \in [Gens -> Swps]
      /\ swp[g] \in Swps /\ Reviving(g) \in Kinds
  BY RevivingKind DEF Places, Typed
<1>1. UNCHANGED <<op, sup>> /\ \A h \in Gens \ {g} : swp'[h] = swp[h]
  BY <1>0, SwpKeeps
<1> USE OneOf DEF runVars, instVars, driverVars
<1>2. \A k \in Kinds : /\ One(inst[k]) \in Int /\ One(inst'[k]) \in Int
                       /\ One(op.held[k]) \in Int /\ live[k] \in Int
                       /\ SwpOne(g, k) \in Int /\ SwpOne(g, k)' \in Int
  BY <1>0, OneOrNone DEF SwpOne, One
<1>3. ASSUME \A k \in Kinds : live'[k] = live[k] + (One(inst'[k]) - One(inst[k]))
                                           + (SwpOne(g, k)' - SwpOne(g, k))
      PROVE  Owned'
  <2>1. ASSUME NEW k \in Kinds PROVE live'[k] = Owners(k)'
    <3> DEFINE d == SwpOne(g, k)' - SwpOne(g, k)
    <3>1. d \in Int
      BY <1>2
    <3>2. Cardinality(SupOwn(k)) \in Int /\ Cardinality(SwpOwn(k)) \in Int
      BY OwnCounts
    <3>3. Cardinality(SwpOwn(k)') = Cardinality(SwpOwn(k)) + d
      <4>1. Cardinality(SwpOwn(k)') = Cardinality(SwpOwn(k)) + SwpOne(g, k)' - SwpOne(g, k)
        BY <1>1, SwpCount
      <4> QED BY <1>2, <3>2, <4>1
    <3>4. Cardinality(SupOwn(k)') = Cardinality(SupOwn(k))
      BY <1>1 DEF SupOwn
    <3>5. live'[k] = live[k] + (One(inst'[k]) - One(inst[k])) + d
      BY <1>3
    <3>6. op'.held[k] = op.held[k]
      BY <1>1
    <3> HIDE DEF d
    <3>7. Cardinality(SupOwn(k)') \in Int /\ Cardinality(SwpOwn(k)') \in Int
      BY <3>1, <3>2, <3>3, <3>4
    <3>8. live'[k] = live[k] + (One(inst'[k]) - One(inst[k]))
                             + (One(op'.held[k]) - One(op.held[k]))
                             + (Cardinality(SupOwn(k)') - Cardinality(SupOwn(k)))
                             + (Cardinality(SwpOwn(k)') - Cardinality(SwpOwn(k)))
      BY ONLY <1>2, <3>1, <3>2, <3>3, <3>4, <3>5, <3>6, k \in Kinds
    <3> QED BY <3>7, <3>8, Balance
  <2> QED BY <2>1 DEF Owned
<1>4. ASSUME swp'[g].nh = Nil PROVE \A k \in Kinds : SwpOne(g, k)' = 0
  <2>1. \A k : SwpOne(g, k)' = IF k = Reviving(g)' THEN One(swp'[g].nh) ELSE 0
    BY DEF SwpOne, One
  <2> QED BY <1>4, <2>1
<1>5. ASSUME SwpNext(g) PROVE swp'[g].nh = Nil
  BY <1>0, <1>5 DEF SwpNext
<1>6. CASE SwpCheck(g)
  <2>1. UNCHANGED <<inst, live>> /\ swp[g].nh = Nil /\ swp'[g].nh = Nil
    BY <1>0, <1>6 DEF SwpCheck, GoroutinePlaces, SwpOff, Swps
  <2>2. \A k \in Kinds : SwpOne(g, k) = 0
    BY <2>1 DEF SwpOne
  <2> QED BY <1>2, <1>3, <1>4, <2>1, <2>2
<1>7. CASE SwpOpen(g)
  <2>1. inst' = inst /\ swp[g].nh = Nil
    BY <1>0, <1>7 DEF SwpOpen, GoroutinePlaces
  <2>2. \A k \in Kinds : SwpOne(g, k) = 0
    BY <2>1 DEF SwpOne
  <2>3. CASE OpenFails /\ SwpNext(g)
    <3>1. live' = live
      BY <2>3 DEF OpenFails
    <3> QED BY <1>2, <1>3, <1>4, <1>5, <2>1, <2>2, <2>3, <3>1
  <2>4. CASE Open(Reviving(g)) /\ swp' = [swp EXCEPT ![g].pc = "install", ![g].nh = Fresh]
    <3>1. swp'[g].nh = Fresh /\ swp'[g].todo = swp[g].todo
      BY <1>0, <2>4 DEF Swps
    <3>2. \A k \in Kinds : SwpOne(g, k)' = IF k = Reviving(g) THEN 1 ELSE 0
      BY <3>1 DEF SwpOne, Reviving, One, Fresh
    <3>3. \A k \in Kinds : live'[k] = live[k] + (IF k = Reviving(g) THEN 1 ELSE 0)
      BY <1>0, <2>4, OpenCount
    <3> QED BY <1>2, <1>3, <2>1, <2>2, <3>2, <3>3
  <2> QED BY <1>7, <2>3, <2>4 DEF SwpOpen
<1>8. CASE SwpInstall(g)
  <2> DEFINE r == Reviving(g)
  <2>1. SwpNext(g)
    BY <1>8 DEF SwpInstall
  <2>2. \A k \in Kinds : SwpOne(g, k)' = 0
    BY <1>4, <1>5, <2>1
  <2>3. \A k \in Kinds : SwpOne(g, k) = IF k = r THEN One(swp[g].nh) ELSE 0
    BY DEF SwpOne
  <2>4. \/ Install(r, swp[g].nh, g) /\ Close(r, inst[r])
        \/ Close(r, swp[g].nh) /\ inst' = inst
    BY <1>8 DEF SwpInstall
  <2>5. r \in Kinds
    BY <1>0
  <2> HIDE DEF r
  <2>6. CASE Install(r, swp[g].nh, g) /\ Close(r, inst[r])
    <3>1. \A k \in Kinds : inst'[k] = IF k = r THEN swp[g].nh ELSE inst[k]
      BY <1>0, <2>5, <2>6, InstallCount
    <3>2. \A k \in Kinds : live'[k] = live[k] - (IF k = r THEN One(inst[r]) ELSE 0)
      BY <1>0, <2>5, <2>6, CloseCount
    <3>3. ASSUME NEW k \in Kinds
          PROVE  live'[k] = live[k] + (One(inst'[k]) - One(inst[k]))
                                    + (SwpOne(g, k)' - SwpOne(g, k))
      <4>1. CASE k = r
        <5>1. inst'[k] = swp[g].nh /\ live'[k] = live[k] - One(inst[k])
          BY <3>1, <3>2, <4>1
        <5>2. SwpOne(g, k)' = 0 /\ SwpOne(g, k) = One(swp[g].nh)
          BY <2>2, <2>3, <4>1
        <5> QED BY <1>2, <5>1, <5>2
      <4>2. CASE k # r
        <5>1. inst'[k] = inst[k] /\ live'[k] = live[k]
          BY <1>2, <3>1, <3>2, <4>2
        <5>2. SwpOne(g, k)' = 0 /\ SwpOne(g, k) = 0
          BY <2>2, <2>3, <4>2
        <5> QED BY <1>2, <5>1, <5>2
      <4> QED BY <4>1, <4>2
    <3> QED BY <1>3, <3>3
  <2>7. CASE Close(r, swp[g].nh) /\ inst' = inst
    <3>1. \A k \in Kinds : live'[k] = live[k] - (IF k = r THEN One(swp[g].nh) ELSE 0)
      BY <1>0, <2>5, <2>7, CloseCount
    <3>2. ASSUME NEW k \in Kinds
          PROVE  live'[k] = live[k] + (One(inst'[k]) - One(inst[k]))
                                    + (SwpOne(g, k)' - SwpOne(g, k))
      <4>1. SwpOne(g, k)' = 0 /\ live'[k] = live[k] - SwpOne(g, k)
        BY <2>2, <2>3, <3>1
      <4> QED BY <1>2, <2>7, <4>1
    <3> QED BY <1>3, <3>2
  <2> QED BY ONLY <2>4, <2>6, <2>7
<1> QED BY ONLY <1>6, <1>7, <1>8, SwpStep(g) DEF SwpStep

LEMMA OwnedStep == Places /\ Owned /\ [Next]_vars => Owned'
<1> SUFFICES ASSUME Places, Owned, [Next]_vars PROVE Owned'
    OBVIOUS
<1>1. CASE UNCHANGED vars
  BY <1>1 DEF vars, driverVars, instVars, runVars, Owned, Owners, SupOwn, SwpOwn, Reviving, One
<1> QED BY <1>1, OpOwned, LoopOwned, SupOwned, SwpOwned DEF Next

LEMMA InitOwned == Init => Owned
<1> SUFFICES ASSUME Init, NEW k \in Kinds PROVE live[k] = Owners(k)
    BY DEF Owned
<1>1. inst[k] = Nil /\ op.held[k] = Nil /\ live[k] = 0
  BY DEF Init, Idle, NoHandles
<1>2. SupOwn(k) = {} /\ SwpOwn(k) = {}
  BY DEF Init, SupOwn, SwpOwn, SupOff, SwpOff, Nil
<1> QED BY <1>1, <1>2, OneOf, FS_EmptySet DEF Owners

LEMMA OwnedHolds == Spec => [](Places /\ Owned)
<1>1. Places /\ Owned /\ [Next]_vars => (Places /\ Owned)'
  BY PlacesStep, OwnedStep
<1> QED BY <1>1, InitPlaces, InitOwned, PTL DEF Spec

-----------------------------------------------------------------------------
(* Every variable keeps its type; that live does is the count.             *)
THEOREM EngineTypeCorrect == Spec => []TypeOK
<1>1. Places /\ Owned => TypeOK
  <2> SUFFICES ASSUME Places, Owned PROVE TypeOK
      OBVIOUS
  <2>1. Typed /\ live \in [Kinds -> Int]
    BY DEF Places, Typed
  <2>2. ASSUME NEW k \in Kinds PROVE live[k] \in Nat
    <3>1. One(inst[k]) \in Nat /\ One(op.held[k]) \in Nat
      BY OneOrNone
    <3> QED BY <3>1, OwnCounts DEF Owned, Owners
  <2>3. live \in [Kinds -> Nat]
    BY <2>1, <2>2
  <2> QED BY <2>1, <2>3 DEF Typed, TypeOK
<1> QED BY <1>1, OwnedHolds, PTL

(* Every handle that takes packets has an owner that will close it, and a  *)
(* stop leaves neither a capture nor the redirect port behind.             *)
THEOREM NoOrphanHolds == Spec => []NoOrphan
<1>1. Places /\ Owned => NoOrphan
  <2> SUFFICES ASSUME Places, Owned PROVE NoOrphan
      OBVIOUS
  <2>0. Typed /\ OpPlaces /\ Cleared
    BY DEF Places
  <2>1. ASSUME NEW k \in Kinds
        PROVE  live[k] = Cardinality({r \in {"inst", "held"} :
                            (IF r = "inst" THEN inst[k] ELSE op.held[k]).st = "open"})
                       + Cardinality({g \in Gens : k = "udp" /\ sup[g].nh.st = "open"})
                       + Cardinality({g \in Gens : k = Reviving(g) /\ swp[g].nh.st = "open"})
    <3> DEFINE R == {r \in {"inst", "held"} :
                        (IF r = "inst" THEN inst[k] ELSE op.held[k]).st = "open"}
    <3>1. Cardinality(R) = One(inst[k]) + One(op.held[k])
      <4>1. CASE inst[k].st = "open" /\ op.held[k].st = "open"
        <5>1. R = {"inst"} \cup {"held"}
          BY <4>1
        <5>2. Cardinality({"inst"} \cup {"held"}) = Cardinality({"inst"}) + 1
          <6>1. IsFiniteSet({"inst"}) /\ "held" \notin {"inst"}
            BY FS_Singleton
          <6> QED BY <6>1, FS_AddElement
        <5>3. Cardinality({"inst"}) = 1
          BY FS_Singleton
        <5>4. One(inst[k]) = 1 /\ One(op.held[k]) = 1
          BY <4>1 DEF One
        <5> HIDE DEF R
        <5> QED BY <5>1, <5>2, <5>3, <5>4
      <4>2. CASE inst[k].st = "open" /\ op.held[k].st # "open"
        <5>1. R = {"inst"}
          BY <4>2
        <5>2. Cardinality({"inst"}) = 1
          BY FS_Singleton
        <5>3. One(inst[k]) = 1 /\ One(op.held[k]) = 0
          BY <4>2 DEF One
        <5> HIDE DEF R
        <5> QED BY <5>1, <5>2, <5>3
      <4>3. CASE inst[k].st # "open" /\ op.held[k].st = "open"
        <5>1. R = {"held"}
          BY <4>3
        <5>2. Cardinality({"held"}) = 1
          BY FS_Singleton
        <5>3. One(inst[k]) = 0 /\ One(op.held[k]) = 1
          BY <4>3 DEF One
        <5> HIDE DEF R
        <5> QED BY <5>1, <5>2, <5>3
      <4>4. CASE inst[k].st # "open" /\ op.held[k].st # "open"
        <5>1. R = {}
          BY <4>4
        <5> QED BY <4>4, <5>1, FS_EmptySet DEF One
      <4> QED BY <4>1, <4>2, <4>3, <4>4
    <3>2. live[k] = Cardinality(R) + Cardinality(SupOwn(k)) + Cardinality(SwpOwn(k))
      BY <3>1 DEF Owned, Owners
    <3> QED BY <3>2 DEF SupOwn, SwpOwn
  <2>2. op.pc = "idle" /\ ~running => inst = NoHandles /\ ~listener
    BY <2>0 DEF Typed, OpPlaces, Cleared, NoHandles, Kinds
  <2> QED BY <2>1, <2>2 DEF NoOrphan
<1> QED BY <1>1, OwnedHolds, PTL

-----------------------------------------------------------------------------
(* PanickedStaysOut: reviveHandles looks at the handles, then reopens them *)
(* one by one.  In between nothing can make it reopen a capture that has   *)
(* panicked, for a handle it found dead has no loop left to panic.         *)
(* No handle names a panic that has not happened yet.                      *)
Heard ==
    /\ \A k \in Revived : inst[k].panic <= faults /\ op.held[k].panic <= faults
    /\ \A g \in Gens : swp[g].nh.panic <= faults

(* The slot of a kind names no earlier panic than that of a handle that is *)
(* in use: only a later one overwrites it.                                 *)
Ranked ==
    /\ \A k \in Revived : inst[k].panic <= panicH[k] /\ op.held[k].panic <= panicH[k]
    /\ \A g \in Gens : Current(g) => swp[g].nh.panic <= panicH[Reviving(g)]

(* What the current sweeper has on its list is as dead as when it looked.  *)
StillDead ==
    \A g \in Gens : Current(g) =>
        \A k \in swp[g].todo : inst[k].st # "open" /\ ~Named(k, inst[k])

LEMMA RevivedAre == Revived \subseteq Kinds /\ "udp" \notin Revived
  BY DEF Revived, Kinds

LEMMA FaultGrows ==
    ASSUME Typed, Fault PROVE faults' \in Nat /\ faults <= faults'
  BY Bounds DEF Fault, Typed

LEMMA OpenGrows ==
    ASSUME Typed, NEW k, Open(k) \/ OpenFails PROVE faults' \in Nat /\ faults <= faults'
<1>1. CASE Open(k)
  BY <1>1 DEF Open, Typed
<1>2. CASE OpenFails
  BY <1>2, FaultGrows DEF OpenFails
<1> QED BY <1>1, <1>2

(* Handles that change hands.                                              *)
LEMMA HeardMoves ==
    ASSUME Heard, faults \in Nat, faults' \in Nat, faults <= faults',
           \A k \in Revived : inst[k].panic \in Nat /\ op.held[k].panic \in Nat,
           \A g \in Gens : swp[g].nh.panic \in Nat,
           \A k \in Revived : \/ inst'[k].panic \in {0, inst[k].panic, op.held[k].panic}
                              \/ \E g \in Gens : inst'[k].panic = swp[g].nh.panic,
           \A k \in Revived : op'.held[k].panic \in {0, inst[k].panic, op.held[k].panic},
           \A g \in Gens : swp'[g].nh.panic \in {0, swp[g].nh.panic}
    PROVE  Heard'
<1>1. ASSUME NEW k \in Revived PROVE inst'[k].panic <= faults' /\ op'.held[k].panic <= faults'
  BY DEF Heard
<1>2. ASSUME NEW g \in Gens PROVE swp'[g].nh.panic <= faults'
  BY DEF Heard
<1> QED BY <1>1, <1>2 DEF Heard

LEMMA PanicTypes ==
    ASSUME Typed
    PROVE  /\ faults \in Nat
           /\ \A k \in Kinds : inst[k].panic \in Nat /\ op.held[k].panic \in Nat
           /\ \A g \in Gens : swp[g].nh.panic \in Nat
<1>1. /\ \A k \in Kinds : inst[k] \in Handle /\ op.held[k] \in Handle
      /\ \A g \in Gens : swp[g].nh \in Handle
  BY DEF Typed, Ops, Swps
<1> QED BY <1>1, HandleParts DEF Typed

(* A step of the operation, as the captures that are reopened see it.      *)
LEMMA OpRuns ==
    ASSUME Places, OpStarts \/ OpStops \/ OpStep
    PROVE  \/ ~running /\ (~running' \/ StartInstall)
           \/ ~running' /\ \A k \in Revived : inst'[k] = Nil
           \/ UNCHANGED <<running, gen, swp, inst, panicH>>
<1>0. OpPlaces /\ inst \in [Kinds -> Handle]
  BY DEF Places, Typed
<1> USE DEF runVars, instVars
<1>1. CASE OpStarts \/ OpStops
  BY <1>1 DEF OpStarts, OpStops
<1>2. CASE StopBegin
  BY <1>2, RevivedAre DEF StopBegin, NoHandles
<1>3. CASE StartListen \/ StartOpenSock \/ StartOpenTcp \/ StartInstall
  BY <1>0, <1>3 DEF OpPlaces, StartListen, StartOpenSock, StartOpenTcp, StartInstall
<1>4. CASE StopTcp \/ StopUdp \/ StopRest
  BY <1>0, <1>4 DEF OpPlaces, StopTcp, StopUdp, StopRest
<1> QED BY <1>1, <1>2, <1>3, <1>4 DEF OpStep

(* Where the panics of the handles come from in a step of the operation.   *)
LEMMA OpMoves ==
    ASSUME Places, OpStarts \/ OpStops \/ OpStep
    PROVE  /\ \A k \in Revived : inst'[k].panic \in {0, inst[k].panic, op.held[k].panic}
           /\ \A k \in Revived : op'.held[k].panic \in {0, inst[k].panic, op.held[k].panic}
           /\ \A g \in Gens : swp'[g].nh.panic \in {0, swp[g].nh.panic}
<1>0. /\ Typed /\ inst \in [Kinds -> Handle] /\ op \in Ops /\ op.held \in [Kinds -> Handle]
      /\ swp \in [Gens -> Swps]
  BY DEF Places, Typed, Ops
<1> USE RevivedAre DEF runVars, instVars
<1>2. Nil.panic = 0 /\ Fresh.panic = 0 /\ \A k \in Revived : Idle.held[k].panic = 0
  BY DEF Nil, Fresh, Idle, NoHandles
<1>4. \A k \in Revived : inst'[k].panic \in {0, inst[k].panic, op.held[k].panic}
  <2>1. CASE StartInstall
    <3>1. inst' = [op.held EXCEPT !["udp"] = inst["udp"]]
      BY <2>1 DEF StartInstall
    <3> QED BY <1>0, <3>1
  <2>2. CASE StopBegin
    <3>1. inst' = [NoHandles EXCEPT !["udp"] = inst["udp"]]
      BY <2>2 DEF StopBegin
    <3> QED BY <1>2, <3>1 DEF NoHandles
  <2>3. CASE StopUdp
    <3>1. inst' = [inst EXCEPT !["udp"] = Nil]
      BY <2>3 DEF StopUdp, Install
    <3> QED BY <1>0, <3>1
  <2>4. CASE OpStarts \/ OpStops \/ StartListen \/ StartOpenSock \/ StartOpenTcp \/ StopTcp \/ StopRest
    BY <2>4 DEF OpStarts, OpStops, StartListen, StartOpenSock, StartOpenTcp, StopTcp, StopRest
  <2> QED BY <2>1, <2>2, <2>3, <2>4 DEF OpStep
<1>5. \A k \in Revived : op'.held[k].panic \in {0, inst[k].panic, op.held[k].panic}
  <2>1. CASE op' = Idle
    BY <1>2, <2>1
  <2>2. ASSUME NEW l, op' = [op EXCEPT !.pc = l]
        PROVE  \A k \in Revived : op'.held[k] = op.held[k]
    BY <1>0, <2>2 DEF Ops
  <2>3. ASSUME NEW l, NEW j \in Kinds, NEW h \in {Nil, Fresh},
               op' = [op EXCEPT !.pc = l, !.held[j] = h]
        PROVE  \A k \in Revived : op'.held[k] \in {h, op.held[k]}
    <3>1. op'.held = [op.held EXCEPT ![j] = h]
      BY <1>0, <2>3 DEF Ops
    <3> QED BY <1>0, <3>1
  <2>4. CASE op' = [pc |-> "stopTcp", held |-> [inst EXCEPT !["udp"] = Nil]]
    BY <1>0, <2>4
  <2>5. \/ op' = Idle
        \/ \E l \in {"listen", "stop", "openSock", "stopRest"} : op' = [op EXCEPT !.pc = l]
        \/ op' = [op EXCEPT !.pc = "openTcp", !.held["sock"] = Fresh]
        \/ op' = [op EXCEPT !.pc = "install", !.held["tcp"] = Fresh]
        \/ op' = [op EXCEPT !.pc = "stopUdp", !.held["tcp"] = Nil]
        \/ op' = [pc |-> "stopTcp", held |-> [inst EXCEPT !["udp"] = Nil]]
    BY DEF OpStep, OpStarts, OpStops, StartListen, StartOpenSock, StartOpenTcp, StartInstall,
           StopBegin, StopTcp, StopUdp, StopRest, StartGivesUp
  <2>6. CASE op' = [op EXCEPT !.pc = "openTcp", !.held["sock"] = Fresh]
    BY <1>2, <2>3, <2>6, KindsAre
  <2>7. CASE op' = [op EXCEPT !.pc = "install", !.held["tcp"] = Fresh]
    BY <1>2, <2>3, <2>7, KindsAre
  <2>8. CASE op' = [op EXCEPT !.pc = "stopUdp", !.held["tcp"] = Nil]
    BY <1>2, <2>3, <2>8, KindsAre
  <2> QED BY <1>2, <2>1, <2>2, <2>4, <2>5, <2>6, <2>7, <2>8
<1>6. \A g \in Gens : swp'[g].nh.panic \in {0, swp[g].nh.panic}
  <2>1. swp' = swp \/ swp' = [swp EXCEPT ![gen + 1].pc = "check"]
    BY DEF OpStep, OpStarts, OpStops, StartListen, StartOpenSock, StartOpenTcp, StartInstall,
           StopBegin, StopTcp, StopUdp, StopRest
  <2>2. CASE swp' = [swp EXCEPT ![gen + 1].pc = "check"]
    <3>1. \A g \in Gens : swp'[g].nh = swp[g].nh
      BY <1>0, <2>2 DEF Swps
    <3> QED BY <3>1
  <2> QED BY <2>1, <2>2
<1> QED BY <1>4, <1>5, <1>6

LEMMA OpHeard ==
    ASSUME Places, Heard, OpStarts \/ OpStops \/ OpStep
    PROVE  Heard'
<1>0. /\ Typed /\ inst \in [Kinds -> Handle] /\ op \in Ops /\ op.held \in [Kinds -> Handle]
      /\ swp \in [Gens -> Swps] /\ faults \in Nat
  BY PanicTypes DEF Places, Typed, Ops
<1> USE RevivedAre DEF runVars, instVars
<1>1. /\ \A k \in Revived : inst[k].panic \in Nat /\ op.held[k].panic \in Nat
      /\ \A g \in Gens : swp[g].nh.panic \in Nat
  BY <1>0, PanicTypes
<1>3. faults' \in Nat /\ faults <= faults'
  <2>1. CASE StartListen \/ StartOpenSock \/ StartOpenTcp
    <3>1. \/ Fault \/ faults' = faults
      BY <2>1 DEF StartListen, StartOpenSock, StartOpenTcp, OpenFails, Open
    <3> QED BY <1>0, <3>1, FaultGrows
  <2>2. CASE OpStarts \/ OpStops \/ StartInstall \/ StopBegin \/ StopTcp \/ StopUdp \/ StopRest
    BY <1>0, <2>2
       DEF OpStarts, OpStops, StartInstall, StopBegin, StopTcp, StopUdp, StopRest
  <2> QED BY <2>1, <2>2 DEF OpStep
<1> QED BY <1>0, <1>1, <1>3, OpMoves, HeardMoves

(* A loop that fails or panics, as the handles that are reopened see it.   *)
LEMMA LoopHeard ==
    ASSUME Places, Heard, NEW k \in Kinds, LoopStep(k)
    PROVE  /\ Heard' /\ faults <= faults' /\ faults' \in Nat
           /\ \A j \in Kinds : /\ inst[j].st # "open" => inst'[j] = inst[j]
                               /\ inst[j].panic # 0 => inst'[j].panic = inst[j].panic
                               /\ panicH'[j] \in {panicH[j], faults + 1}
<1>0. /\ Typed /\ inst \in [Kinds -> Handle] /\ op \in Ops /\ op.held \in [Kinds -> Handle]
      /\ swp \in [Gens -> Swps] /\ faults \in Nat /\ panicH \in [Kinds -> 0..MaxFaults]
  BY PanicTypes DEF Places, Typed, Ops
<1> USE RevivedAre DEF runVars, instVars, driverVars
<1>1. ASSUME NEW from \in Handle, NEW to \in Handle, LoopEvent(k, from, to), from.st = "open",
             faults <= faults', faults' \in Nat, to.panic <= faults' \/ to.panic = from.panic,
             from.panic \in {0, to.panic}
      PROVE  /\ Heard'
             /\ \A j \in Kinds : /\ inst[j].st # "open" => inst'[j] = inst[j]
                                 /\ inst[j].panic # 0 => inst'[j].panic = inst[j].panic
  <2>0. from.panic \in Nat /\ to.panic \in Nat
    BY HandleParts
  <2>1. ASSUME inst[k] = from, inst' = [inst EXCEPT ![k] = to]
        PROVE  \A j \in Kinds : inst'[j] = inst[j] \/ (inst[j] = from /\ inst'[j] = to)
    BY <1>0, <2>1
  <2>2. \A j \in Kinds : inst'[j] = inst[j] \/ (inst[j] = from /\ inst'[j] = to)
    BY <1>1, <2>1 DEF LoopEvent
  <2>3. ASSUME op.held[k] = from, op' = [op EXCEPT !.held[k] = to]
        PROVE  \A j \in Kinds : op'.held[j] = op.held[j] \/ (op.held[j] = from /\ op'.held[j] = to)
    <3>1. op'.held = [op.held EXCEPT ![k] = to]
      BY <1>0, <2>3 DEF Ops
    <3> QED BY <1>0, <2>3, <3>1
  <2>4. \A j \in Kinds : op'.held[j] = op.held[j] \/ (op.held[j] = from /\ op'.held[j] = to)
    BY <1>1, <2>3 DEF LoopEvent
  <2>5. ASSUME NEW h \in Gens, swp[h].nh = from, swp' = [swp EXCEPT ![h].nh = to]
        PROVE  \A g \in Gens : swp'[g].nh = swp[g].nh \/ (swp[g].nh = from /\ swp'[g].nh = to)
    BY <1>0, <2>5 DEF Swps
  <2>6. \A g \in Gens : swp'[g].nh = swp[g].nh \/ (swp[g].nh = from /\ swp'[g].nh = to)
    BY <1>1, <2>5 DEF LoopEvent
  <2>7. /\ \A j \in Kinds : inst[j].panic \in Nat /\ op.held[j].panic \in Nat
        /\ \A g \in Gens : swp[g].nh.panic \in Nat
    BY <1>0, PanicTypes
  <2>8. ASSUME NEW j \in Revived PROVE inst'[j].panic <= faults' /\ op'.held[j].panic <= faults'
    <3>1. inst[j].panic <= faults /\ op.held[j].panic <= faults
      BY DEF Heard
    <3>2. inst[j] = from \/ op.held[j] = from => to.panic <= faults'
      BY <1>0, <1>1, <2>0, <3>1
    <3>3. inst'[j].panic <= faults'
      BY <1>0, <1>1, <2>2, <2>7, <3>1, <3>2
    <3>4. op'.held[j].panic <= faults'
      BY <1>0, <1>1, <2>4, <2>7, <3>1, <3>2
    <3> QED BY <3>3, <3>4
  <2>9. ASSUME NEW g \in Gens PROVE swp'[g].nh.panic <= faults'
    <3>1. swp[g].nh.panic <= faults
      BY DEF Heard
    <3>2. swp[g].nh = from => to.panic <= faults'
      BY <1>0, <1>1, <2>0, <3>1
    <3> QED BY <1>0, <1>1, <2>6, <2>7, <3>1, <3>2
  <2>10. Heard'
    BY <2>8, <2>9 DEF Heard
  <2>11. \A j \in Kinds : /\ inst[j].st # "open" => inst'[j] = inst[j]
                          /\ inst[j].panic # 0 => inst'[j].panic = inst[j].panic
    BY <1>1, <2>2
  <2> QED BY <2>10, <2>11
<1>2. CASE LoopFails(k)
  <2> DEFINE dead == [Fresh EXCEPT !.st = "dead"]
  <2>1. Fault /\ LoopEvent(k, Fresh, dead) /\ panicH' = panicH
    BY <1>2 DEF LoopFails
  <2>2. Fresh.panic = 0 /\ dead.panic = 0 /\ Fresh.st = "open" /\ Fresh \in Handle /\ dead \in Handle
    BY HandleTypes DEF Fresh
  <2>3. faults <= faults' /\ faults' \in Nat
    BY <1>0, <2>1, FaultGrows
  <2> HIDE DEF dead
  <2> QED BY <1>1, <2>1, <2>2, <2>3
<1>3. CASE LoopPanics(k)
  <2> DEFINE told == [Fresh EXCEPT !.panic = faults + 1]
  <2>1. /\ LoopEvent(k, Fresh, told) /\ faults' = faults + 1
        /\ faults + 1 \in 1..MaxFaults
        /\ panicH' = [panicH EXCEPT ![k] = faults + 1]
    BY <1>0, <1>3, Bounds DEF LoopPanics
  <2>2. Fresh.panic = 0 /\ told.panic = faults + 1 /\ Fresh.st = "open" /\ Fresh \in Handle /\ told \in Handle
    BY <2>1, HandleTypes DEF Fresh
  <2>3. faults <= faults' /\ faults' \in Nat
    BY <1>0, <2>1
  <2>4. \A j \in Kinds : panicH'[j] \in {panicH[j], faults + 1}
    BY <1>0, <2>1
  <2>5. told.panic <= faults'
    BY <1>0, <2>1, <2>2
  <2> HIDE DEF told
  <2> QED BY <1>1, <2>1, <2>2, <2>3, <2>4, <2>5
<1>4. CASE PanicFinishes(k)
  <2>1. PICK n \in 1..MaxFaults :
             LoopEvent(k, [st |-> "open", panic |-> n], [st |-> "dead", panic |-> n])
    BY <1>4 DEF PanicFinishes
  <2>2. [st |-> "open", panic |-> n] \in Handle /\ [st |-> "dead", panic |-> n] \in Handle
    BY HandleTypes
  <2>3. faults' = faults /\ panicH' = panicH
    BY <1>4 DEF PanicFinishes
  <2> QED BY <1>0, <1>1, <2>1, <2>2, <2>3
<1>5. CASE RetiredPanics(k)
  <2>1. /\ UNCHANGED <<inst, op, swp>> /\ (Fault \/ faults' = faults)
        /\ panicH' = panicH \/ panicH' = [panicH EXCEPT ![k] = faults + 1]
    BY <1>5 DEF RetiredPanics
  <2>2. faults <= faults' /\ faults' \in Nat
    BY <1>0, <2>1, FaultGrows
  <2>3. \A j \in Kinds : panicH'[j] \in {panicH[j], faults + 1}
    BY <1>0, <2>1
  <2>4. Heard'
    <3>1. /\ \A j \in Revived : inst[j].panic \in Nat /\ op.held[j].panic \in Nat
          /\ \A g \in Gens : swp[g].nh.panic \in Nat
      BY <1>0, PanicTypes
    <3> QED BY <1>0, <2>1, <2>2, <3>1, HeardMoves
  <2> QED BY <2>1, <2>2, <2>3, <2>4
<1> QED BY <1>2, <1>3, <1>4, <1>5 DEF LoopStep

(* The supervisor does not touch the captures that are reopened.           *)
LEMMA SupRuns ==
    ASSUME Places, Heard, NEW g \in Gens, SupStep(g)
    PROVE  /\ Heard' /\ UNCHANGED <<running, gen, swp, panicH>>
           /\ \A k \in Revived : inst'[k] = inst[k]
<1>0. Typed /\ inst \in [Kinds -> Handle] /\ faults \in Nat
  BY PanicTypes DEF Places, Typed
<1> USE RevivedAre DEF runVars, instVars
<1>1. UNCHANGED <<running, gen, swp, op>>
  BY <1>0, SupKeeps
<1>2. panicH' = panicH /\ \A k \in Revived : inst'[k] = inst[k]
  <2>1. ASSUME NEW h, NEW r, Install("udp", h, r) PROVE \A k \in Revived : inst'[k] = inst[k]
    BY <1>0, <2>1 DEF Install
  <2>2. CASE SupTeardown(g) \/ SupDrop(g) \/ SupInstall(g)
    BY <2>1, <2>2 DEF SupTeardown, SupDrop, SupInstall
  <2>3. CASE SupTop(g) \/ SupSuspect(g) \/ SupMark(g) \/ SupDecide(g) \/ SupOpen(g)
    BY <2>3 DEF SupTop, SupSuspect, SupMark, SupDecide, SupOpen
  <2> QED BY <2>2, <2>3 DEF SupStep
<1>3. faults' \in Nat /\ faults <= faults'
  <2>1. CASE SupOpen(g)
    <3>1. Open("udp") \/ OpenFails
      BY <2>1 DEF SupOpen
    <3> QED BY <1>0, <3>1, OpenGrows
  <2>2. CASE ~SupOpen(g)
    <3>1. faults' = faults
      BY <2>2 DEF SupStep, SupTop, SupSuspect, SupTeardown, SupMark, SupDecide, SupDrop, SupInstall
    <3> QED BY <1>0, <3>1
  <2> QED BY <2>1, <2>2
<1>4. /\ \A k \in Revived : inst[k].panic \in Nat /\ op.held[k].panic \in Nat
      /\ \A h \in Gens : swp[h].nh.panic \in Nat
  BY <1>0, PanicTypes
<1> QED BY <1>0, <1>1, <1>2, <1>3, <1>4, HeardMoves

(* What the sweeper of a run does to its list and to the handles.          *)
LEMMA SwpRuns ==
    ASSUME Places, Heard, NEW g \in Gens, SwpStep(g)
    PROVE  /\ Heard' /\ UNCHANGED <<running, gen, panicH>>
           /\ \A h \in Gens \ {g} : swp'[h] = swp[h]
           /\ \/ UNCHANGED inst /\ swp'[g].todo \in {{}, swp[g].todo, DeadCaptures}
              \/ UNCHANGED inst /\ swp'[g].todo = swp[g].todo \ {Reviving(g)}
              \/ /\ Current(g) /\ Reviving(g) \in swp[g].todo
                 /\ swp'[g].todo = swp[g].todo \ {Reviving(g)}
                 /\ \A k \in Kinds \ {Reviving(g)} : inst'[k] = inst[k]
<1>0. /\ Typed /\ inst \in [Kinds -> Handle] /\ faults \in Nat /\ swp \in [Gens -> Swps]
      /\ swp[g] \in Swps /\ GoroutinePlaces /\ Reviving(g) \in Kinds
  BY PanicTypes, RevivingKind DEF Places, Typed
<1> USE RevivedAre DEF runVars, instVars
<1>1. UNCHANGED <<running, gen, op, sup>> /\ \A h \in Gens \ {g} : swp'[h] = swp[h]
  BY <1>0, SwpKeeps
<1>2. panicH' = panicH
  BY DEF SwpStep, SwpCheck, SwpOpen, SwpInstall
<1>3. Nil.panic = 0 /\ Fresh.panic = 0
  BY DEF Nil, Fresh
<1>4. /\ \A k \in Revived : inst[k].panic \in Nat /\ op.held[k].panic \in Nat
      /\ \A h \in Gens : swp[h].nh.panic \in Nat
  BY <1>0, PanicTypes
<1>5. ASSUME SwpNext(g)
      PROVE  swp'[g].nh = Nil /\ swp'[g].todo = swp[g].todo \ {Reviving(g)}
  BY <1>0, <1>5 DEF SwpNext
<1>6. ASSUME UNCHANGED inst, faults' \in Nat, faults <= faults', swp'[g].nh \in {Nil, Fresh, swp[g].nh}
      PROVE  Heard'
  <2>1. \A h \in Gens : swp'[h].nh.panic \in {0, swp[h].nh.panic}
    BY <1>1, <1>3, <1>6
  <2> QED BY <1>0, <1>1, <1>4, <1>6, <2>1, HeardMoves
<1>7. CASE SwpCheck(g)
  <2>1. UNCHANGED inst /\ faults' = faults
    BY <1>7 DEF SwpCheck
  <2>2. swp'[g].todo \in {{}, DeadCaptures} /\ swp'[g].nh \in {Nil, swp[g].nh}
    BY <1>0, <1>7 DEF SwpCheck, SwpOff, Swps
  <2>3. Heard'
    BY <1>0, <1>6, <2>1, <2>2
  <2> QED BY <1>1, <1>2, <2>1, <2>2, <2>3
<1>8. CASE SwpOpen(g)
  <2>1. UNCHANGED inst /\ (Open(Reviving(g)) \/ OpenFails)
    BY <1>8 DEF SwpOpen
  <2>2. faults' \in Nat /\ faults <= faults'
    BY <1>0, <2>1, OpenGrows
  <2>3. \/ SwpNext(g)
        \/ swp' = [swp EXCEPT ![g] = [swp[g] EXCEPT !.pc = "install", !.nh = Fresh]]
    BY <1>8 DEF SwpOpen
  <2>4. CASE swp' = [swp EXCEPT ![g] = [swp[g] EXCEPT !.pc = "install", !.nh = Fresh]]
    <3>1. swp'[g].todo = swp[g].todo /\ swp'[g].nh = Fresh
      BY <1>0, <2>4 DEF Swps
    <3>2. Heard'
      BY <1>6, <2>1, <2>2, <3>1
    <3> QED BY <1>1, <1>2, <2>1, <3>1, <3>2
  <2>5. CASE SwpNext(g)
    <3>1. Heard'
      BY <1>5, <1>6, <2>1, <2>2, <2>5
    <3> QED BY <1>1, <1>2, <1>5, <2>1, <2>5, <3>1
  <2> QED BY <2>3, <2>4, <2>5
<1>9. CASE SwpInstall(g)
  <2>1. SwpNext(g) /\ swp[g].pc = "install" /\ faults' = faults
    BY <1>9 DEF SwpInstall
  <2>2. CASE Current(g)
    <3>1. inst' = [inst EXCEPT ![Reviving(g)] = swp[g].nh]
      BY <1>9, <2>2 DEF SwpInstall, Install
    <3>2. Reviving(g) \in swp[g].todo
      BY <1>0, <2>1 DEF GoroutinePlaces, Swps, Reviving, Revived
    <3>3. \A k \in Revived : inst'[k].panic \in {inst[k].panic, swp[g].nh.panic}
      BY <1>0, <3>1
    <3>4. Heard'
      <4>1. \A h \in Gens : swp'[h].nh.panic \in {0, swp[h].nh.panic}
        BY <1>1, <1>3, <1>5, <2>1
      <4> QED BY <1>0, <1>1, <1>4, <2>1, <3>3, <4>1, HeardMoves
    <3>5. \A k \in Kinds \ {Reviving(g)} : inst'[k] = inst[k]
      BY <1>0, <3>1
    <3> QED BY <1>1, <1>2, <1>5, <2>1, <2>2, <3>2, <3>4, <3>5
  <2>3. CASE ~Current(g)
    <3>1. UNCHANGED inst
      BY <1>9, <2>3 DEF SwpInstall
    <3>2. Heard'
      BY <1>0, <1>5, <1>6, <2>1, <3>1
    <3> QED BY <1>1, <1>2, <1>5, <2>1, <3>1, <3>2
  <2> QED BY <2>2, <2>3
<1> QED BY <1>7, <1>8, <1>9 DEF SwpStep

LEMMA HeardStep == Places /\ Heard /\ [Next]_vars => Heard'
<1> SUFFICES ASSUME Places, Heard, [Next]_vars PROVE Heard'
    OBVIOUS
<1>1. CASE UNCHANGED vars
  BY <1>1 DEF vars, runVars, instVars, driverVars, Heard
<1>2. CASE OpStarts \/ OpStops \/ OpStep
  BY <1>2, OpHeard
<1>3. ASSUME NEW k \in Kinds, LoopStep(k) PROVE Heard'
  BY <1>3, LoopHeard
<1>4. ASSUME NEW g \in Gens, SupStep(g) \/ SwpStep(g) PROVE Heard'
  BY <1>4, SupRuns, SwpRuns
<1> QED BY <1>1, <1>2, <1>3, <1>4 DEF Next

(* A number given out for a later panic is not that of this handle.        *)
LEMMA NamedKept ==
    ASSUME NEW k, Typed, inst[k].panic \in Nat, inst[k].panic <= faults,
           inst'[k] = inst[k], panicH'[k] \in {panicH[k], faults + 1}, Named(k, inst[k])'
    PROVE  Named(k, inst[k])
<1>1. faults \in Nat
  BY DEF Typed
<1>2. panicH'[k] # faults + 1
  BY <1>1 DEF Named
<1> QED BY <1>2 DEF Named

LEMMA StillDeadStep == Places /\ Heard /\ StillDead /\ [Next]_vars => StillDead'
<1> SUFFICES ASSUME Places, Heard, StillDead, [Next]_vars,
                    NEW g \in Gens, Current(g)', NEW k \in swp'[g].todo, Places'
             PROVE  inst'[k].st # "open" /\ ~Named(k, inst[k])'
    BY PlacesStep DEF StillDead
<1>0. /\ Typed /\ GoroutinePlaces /\ gen \in 0..MaxGen /\ swp \in [Gens -> Swps] /\ swp' \in [Gens -> Swps]
  BY DEF Places, Typed
<1>1. k \in Revived /\ k \in Kinds
  BY <1>0, RevivedAre DEF Swps
<1>2. inst[k].panic \in Nat /\ inst[k].panic <= faults
  BY <1>0, <1>1, PanicTypes DEF Heard
<1> USE DEF Current
<1>3. ASSUME UNCHANGED <<running, gen>>, k \in swp[g].todo,
             inst[k].st # "open" => inst'[k] = inst[k],
             panicH'[k] \in {panicH[k], faults + 1}
      PROVE  inst'[k].st # "open" /\ ~Named(k, inst[k])'
  <2>1. inst[k].st # "open" /\ ~Named(k, inst[k])
    BY <1>3 DEF StillDead
  <2> QED BY <1>0, <1>2, <1>3, <2>1, NamedKept
<1>4. CASE UNCHANGED vars
  BY <1>3, <1>4 DEF vars, runVars, instVars, driverVars
<1>5. CASE OpStarts \/ OpStops \/ OpStep
  <2>1. CASE StartInstall
    <3>1. gen' = gen + 1 /\ swp' = [swp EXCEPT ![gen + 1].pc = "check"]
      BY <2>1 DEF StartInstall
    <3>2. g = gen + 1 /\ swp[g] = SwpOff
      BY <1>0, <3>1 DEF GoroutinePlaces, Gens
    <3>3. swp'[g].todo = {}
      BY <1>0, <3>1, <3>2 DEF SwpOff
    <3> QED BY <3>3
  <2>2. CASE UNCHANGED <<running, gen, swp, inst, panicH>>
    BY <1>3, <2>2
  <2> QED BY <1>5, <2>1, <2>2, OpRuns
<1>6. ASSUME NEW j \in Kinds, LoopStep(j) PROVE inst'[k].st # "open" /\ ~Named(k, inst[k])'
  <2>1. UNCHANGED <<running, gen>> /\ swp'[g].todo = swp[g].todo
    BY <1>0, <1>6, LoopKeeps
  <2> QED BY <1>1, <1>3, <1>6, <2>1, LoopHeard
<1>7. ASSUME NEW h \in Gens, SupStep(h) PROVE inst'[k].st # "open" /\ ~Named(k, inst[k])'
  BY <1>1, <1>3, <1>7, SupRuns
<1>8. ASSUME NEW h \in Gens, SwpStep(h) PROVE inst'[k].st # "open" /\ ~Named(k, inst[k])'
  <2>1. /\ UNCHANGED <<running, gen, panicH>>
        /\ \A i \in Gens \ {h} : swp'[i] = swp[i]
        /\ \/ UNCHANGED inst /\ swp'[h].todo \in {{}, swp[h].todo, DeadCaptures}
           \/ UNCHANGED inst /\ swp'[h].todo = swp[h].todo \ {Reviving(h)}
           \/ /\ Current(h) /\ Reviving(h) \in swp[h].todo
              /\ swp'[h].todo = swp[h].todo \ {Reviving(h)}
              /\ \A j \in Kinds \ {Reviving(h)} : inst'[j] = inst[j]
    BY <1>8, SwpRuns
  <2>2. CASE g = h /\ UNCHANGED inst /\ swp'[h].todo = DeadCaptures
    BY <2>1, <2>2 DEF DeadCaptures, Named
  <2>3. CASE g = h /\ k \in swp[g].todo /\ inst'[k] = inst[k]
    BY <1>3, <2>1, <2>3
  <2>4. CASE g # h
    <3>1. UNCHANGED inst
      BY <2>1, <2>4
    <3> QED BY <1>3, <2>1, <2>4, <3>1
  <2> QED BY <1>1, <2>1, <2>2, <2>3, <2>4
<1> QED BY <1>4, <1>5, <1>6, <1>7, <1>8 DEF Next

LEMMA SwpMoves ==
    ASSUME Places, NEW g \in Gens, SwpStep(g)
    PROVE  /\ swp'[g].nh.panic = 0
           /\ \/ UNCHANGED inst
              \/ Current(g) /\ inst' = [inst EXCEPT ![Reviving(g)] = swp[g].nh]
<1>0. swp \in [Gens -> Swps] /\ swp[g] \in Swps /\ GoroutinePlaces
  BY DEF Places, Typed
<1>1. Nil.panic = 0 /\ Fresh.panic = 0
  BY DEF Nil, Fresh
<1>2. SwpNext(g) => swp'[g].nh.panic = 0
  BY <1>0, <1>1 DEF SwpNext
<1> USE DEF runVars, instVars
<1>3. CASE SwpCheck(g)
  BY <1>0, <1>1, <1>3 DEF SwpCheck, SwpOff, Swps, GoroutinePlaces
<1>4. CASE SwpOpen(g)
  BY <1>0, <1>1, <1>2, <1>4 DEF SwpOpen, Swps
<1>5. CASE SwpInstall(g)
  BY <1>2, <1>5 DEF SwpInstall, Install
<1> QED BY <1>3, <1>4, <1>5 DEF SwpStep

(* A loop that does not panic leaves every panic as it is; one that does   *)
(* changes the handles of its kind only.                                   *)
LEMMA LoopMoves ==
    ASSUME Places, NEW k \in Kinds, LoopStep(k)
    PROVE  \/ /\ panicH' = panicH
              /\ \A j \in Kinds : /\ inst'[j].panic = inst[j].panic
                                  /\ op'.held[j].panic = op.held[j].panic
              /\ \A g \in Gens : swp'[g].nh.panic = swp[g].nh.panic
           \/ /\ panicH' = [panicH EXCEPT ![k] = faults + 1] /\ faults' = faults + 1
              /\ \A j \in Kinds \ {k} : inst'[j] = inst[j] /\ op'.held[j] = op.held[j]
              /\ \A g \in Gens : Reviving(g) # k => swp'[g].nh = swp[g].nh
<1>0. /\ inst \in [Kinds -> Handle] /\ op \in Ops /\ op.held \in [Kinds -> Handle]
      /\ swp \in [Gens -> Swps]
  BY DEF Places, Typed, Ops
<1>1. ASSUME NEW from, NEW to, LoopEvent(k, from, to)
      PROVE  /\ \A j \in Kinds : /\ inst'[j] = inst[j] \/ (inst[j] = from /\ inst'[j] = to)
                                 /\ \/ op'.held[j] = op.held[j]
                                    \/ (op.held[j] = from /\ op'.held[j] = to)
             /\ \A j \in Kinds \ {k} : inst'[j] = inst[j] /\ op'.held[j] = op.held[j]
             /\ \A g \in Gens : /\ swp'[g].nh = swp[g].nh \/ (swp[g].nh = from /\ swp'[g].nh = to)
                                /\ Reviving(g) # k => swp'[g].nh = swp[g].nh
  <2>1. CASE inst[k] = from /\ inst' = [inst EXCEPT ![k] = to] /\ UNCHANGED <<op, swp>>
    BY <1>0, <2>1
  <2>2. CASE op.held[k] = from /\ op' = [op EXCEPT !.held[k] = to] /\ UNCHANGED <<inst, swp>>
    <3>1. op'.held = [op.held EXCEPT ![k] = to]
      BY <1>0, <2>2 DEF Ops
    <3> QED BY <1>0, <2>2, <3>1
  <2>3. ASSUME NEW h \in Gens, k = Reviving(h), swp[h].nh = from,
               swp' = [swp EXCEPT ![h].nh = to], UNCHANGED <<inst, op>>
        PROVE  \A g \in Gens : /\ swp'[g].nh = swp[g].nh \/ (swp[g].nh = from /\ swp'[g].nh = to)
                               /\ Reviving(g) # k => swp'[g].nh = swp[g].nh
    BY <1>0, <2>3 DEF Swps
  <2>4. CASE UNCHANGED <<inst, op, swp>>
    BY <2>4
  <2> QED BY <1>1, <2>1, <2>2, <2>3, <2>4 DEF LoopEvent
<1>2. CASE LoopFails(k)
  BY <1>1, <1>2 DEF LoopFails, Fresh
<1>3. CASE LoopPanics(k)
  BY <1>1, <1>3 DEF LoopPanics
<1>4. CASE PanicFinishes(k)
  <2>1. PICK n \in 1..MaxFaults :
             LoopEvent(k, [st |-> "open", panic |-> n], [st |-> "dead", panic |-> n])
    BY <1>4 DEF PanicFinishes
  <2> QED BY <1>1, <1>4, <2>1 DEF PanicFinishes
<1>5. CASE RetiredPanics(k)
  BY <1>5 DEF RetiredPanics, Fault, instVars
<1> QED BY <1>2, <1>3, <1>4, <1>5 DEF LoopStep

LEMMA RankedStep == Places /\ Heard /\ Ranked /\ [Next]_vars => Ranked'
<1> SUFFICES ASSUME Places, Heard, Ranked, [Next]_vars, Places', Heard' PROVE Ranked'
    BY PlacesStep, HeardStep
<1>0. /\ Typed /\ OpPlaces /\ Cleared /\ GoroutinePlaces /\ gen \in 0..MaxGen
      /\ faults \in Nat /\ panicH \in [Kinds -> 0..MaxFaults] /\ panicH' \in [Kinds -> 0..MaxFaults]
      /\ swp \in [Gens -> Swps] /\ MaxFaults \in Nat
  BY PanicTypes, Bounds DEF Places, Typed
<1>1. /\ \A k \in Kinds : /\ inst[k].panic \in Nat /\ op.held[k].panic \in Nat
                          /\ panicH[k] \in Nat /\ panicH'[k] \in Nat
      /\ \A g \in Gens : swp[g].nh.panic \in Nat /\ Reviving(g) \in Revived
  BY <1>0, PanicTypes DEF Reviving, Revived
<1> USE RevivedAre
<1>2. CASE UNCHANGED vars
  BY <1>2 DEF vars, runVars, instVars, driverVars, Ranked, Current, Reviving
<1>3. CASE OpStarts \/ OpStops \/ OpStep
  <2>1. \A k \in Revived : inst'[k].panic <= panicH'[k] /\ op'.held[k].panic <= panicH'[k]
    <3>1. CASE panicH' = panicH
      BY <1>1, <1>3, <3>1, OpMoves DEF Ranked
    <3>2. CASE panicH' # panicH
      <4>0. op \in Ops
        BY <1>0 DEF Typed
      <4>1. /\ op.pc = "listen" /\ inst' = inst
            /\ op' = [op EXCEPT !.pc = "openSock"]
        BY <1>3, <3>2
           DEF OpStep, OpStarts, OpStops, StartListen, StartOpenSock, StartOpenTcp, StartInstall,
               StopBegin, StopTcp, StopUdp, StopRest, runVars, instVars
      <4>2. \A k \in Revived : inst[k] = Nil /\ op.held[k] = Nil
        BY <1>0, <4>1 DEF OpPlaces, Cleared, Revived
      <4>3. op'.held = op.held
        BY <4>0, <4>1 DEF Ops
      <4> QED BY <1>1, <4>1, <4>2, <4>3 DEF Nil
    <3> QED BY <3>1, <3>2
  <2>2. ASSUME NEW g \in Gens, Current(g)' PROVE swp'[g].nh.panic <= panicH'[Reviving(g)']
    <3>1. CASE StartInstall
      <4>1. gen' = gen + 1 /\ swp' = [swp EXCEPT ![gen + 1].pc = "check"]
        BY <3>1 DEF StartInstall
      <4>2. g = gen + 1 /\ swp[g] = SwpOff
        BY <1>0, <2>2, <4>1 DEF GoroutinePlaces, Gens, Current
      <4>3. swp'[g].nh = Nil /\ Reviving(g)' = "sock"
        BY <1>0, <4>1, <4>2 DEF SwpOff, Reviving
      <4> QED BY <1>1, <4>3 DEF Nil, Revived
    <3>2. CASE UNCHANGED <<running, gen, swp, inst, panicH>>
      BY <2>2, <3>2 DEF Ranked, Current, Reviving
    <3> QED BY <1>3, <2>2, <3>1, <3>2, OpRuns DEF Current
  <2> QED BY <2>1, <2>2 DEF Ranked
<1>4. ASSUME NEW k \in Kinds, LoopStep(k) PROVE Ranked'
  <2>1. UNCHANGED <<running, gen>> /\ \A g \in Gens : swp'[g].todo = swp[g].todo
    BY <1>0, <1>4, LoopKeeps
  <2>2. \A g \in Gens : (Current(g)' <=> Current(g)) /\ Reviving(g)' = Reviving(g)
    BY <2>1 DEF Current, Reviving
  <2>3. CASE /\ panicH' = panicH
             /\ \A j \in Kinds : /\ inst'[j].panic = inst[j].panic
                                 /\ op'.held[j].panic = op.held[j].panic
             /\ \A g \in Gens : swp'[g].nh.panic = swp[g].nh.panic
    BY <2>2, <2>3 DEF Ranked
  <2>4. CASE /\ panicH' = [panicH EXCEPT ![k] = faults + 1] /\ faults' = faults + 1
             /\ \A j \in Kinds \ {k} : inst'[j] = inst[j] /\ op'.held[j] = op.held[j]
             /\ \A g \in Gens : Reviving(g) # k => swp'[g].nh = swp[g].nh
    <3>1. panicH'[k] = faults' /\ \A j \in Kinds \ {k} : panicH'[j] = panicH[j]
      BY <1>0, <2>4
    <3>2. \A j \in Revived : inst'[j].panic <= panicH'[j] /\ op'.held[j].panic <= panicH'[j]
      BY <2>4, <3>1 DEF Heard, Ranked
    <3>3. ASSUME NEW g \in Gens, Current(g)
          PROVE  swp'[g].nh.panic <= panicH'[Reviving(g)]
      BY <1>1, <2>4, <3>1, <3>3 DEF Heard, Ranked
    <3> QED BY <2>2, <3>2, <3>3 DEF Ranked
  <2> QED BY <1>4, <2>3, <2>4, LoopMoves
<1>5. ASSUME NEW g \in Gens, SupStep(g) PROVE Ranked'
  <2>1. op' = op
    BY <1>0, <1>5, SupKeeps
  <2> QED BY <1>5, <2>1, SupRuns DEF Ranked, Current, Reviving
<1>6. ASSUME NEW g \in Gens, SwpStep(g) PROVE Ranked'
  <2>1. UNCHANGED <<running, gen, panicH, op>> /\ \A h \in Gens \ {g} : swp'[h] = swp[h]
    BY <1>0, <1>6, SwpKeeps, SwpRuns
  <2>2. \A h \in Gens : Current(h)' <=> Current(h)
    BY <2>1 DEF Current
  <2>3. ASSUME NEW h \in Gens, Current(h) PROVE swp'[h].nh.panic <= panicH'[Reviving(h)']
    <3>1. CASE h = g
      <4>1. Reviving(h)' \in Revived
        BY DEF Reviving, Revived
      <4> QED BY <1>1, <1>6, <3>1, <4>1, SwpMoves
    <3>2. CASE h # g
      BY <2>1, <2>3, <3>2 DEF Ranked, Reviving
    <3> QED BY <3>1, <3>2
  <2>4. \A k \in Revived : inst'[k].panic <= panicH[k]
    <3>1. CASE UNCHANGED inst
      BY <3>1 DEF Ranked
    <3>2. CASE Current(g) /\ inst' = [inst EXCEPT ![Reviving(g)] = swp[g].nh]
      <4>1. inst \in [Kinds -> Handle]
        BY <1>0 DEF Typed
      <4>2. \A k \in Revived : inst'[k] = inst[k] \/ (k = Reviving(g) /\ inst'[k] = swp[g].nh)
        BY <3>2, <4>1
      <4> QED BY <3>2, <4>2 DEF Ranked
    <3> QED BY <1>6, <3>1, <3>2, SwpMoves
  <2> QED BY <2>1, <2>2, <2>3, <2>4 DEF Ranked
<1> QED BY <1>2, <1>3, <1>4, <1>5, <1>6 DEF Next

LEMMA InitHeard == Init => Heard /\ StillDead /\ Ranked
  BY RevivedAre
     DEF Init, Heard, StillDead, Ranked, Current, Idle, NoHandles, SwpOff, Nil, Reviving, Revived

(* A capture whose loop panicked stays as it is until it is closed: while  *)
(* the run lasts no sweeper reopens it, unless the loop of a handle of its *)
(* kind that was retired before has panicked since and taken its slot.     *)
THEOREM PanickedStaysOutHolds == Spec => PanickedStaysOut
<1> DEFINE Inv == Places /\ Heard /\ StillDead /\ Ranked
<1>1. Init => Inv
  BY InitPlaces, InitHeard
<1>2. Inv /\ [Next]_vars => Inv'
  BY PlacesStep, HeardStep, StillDeadStep, RankedStep
<1>3. Inv /\ [Next]_vars =>
        [\A k \in Revived :
            inst[k].panic # 0 /\ inst'[k].panic # inst[k].panic
              => inst'[k] = Nil \/ panicH[k] > inst[k].panic]_vars
  <2> SUFFICES ASSUME Inv, Next, NEW k \in Revived,
                      inst[k].panic # 0, inst'[k].panic # inst[k].panic
               PROVE  inst'[k] = Nil \/ panicH[k] > inst[k].panic
      OBVIOUS
  <2>0. /\ Places /\ Heard /\ StillDead /\ Ranked /\ Typed /\ Cleared
        /\ inst \in [Kinds -> Handle] /\ panicH \in [Kinds -> 0..MaxFaults] /\ k \in Kinds
    BY RevivedAre DEF Places, Typed
  <2> HIDE DEF Inv
  <2>1. CASE OpStarts \/ OpStops \/ OpStep
    <3>1. CASE ~running
      <4>1. inst[k] = Nil
        BY <2>0, <3>1 DEF Cleared, Revived
      <4> QED BY <2>0, <4>1 DEF Nil
    <3> QED BY <2>0, <2>1, <3>1, OpRuns
  <2>2. ASSUME NEW j \in Kinds, LoopStep(j) PROVE inst'[k] = Nil
    BY <2>0, <2>2, LoopHeard
  <2>3. ASSUME NEW g \in Gens, SupStep(g) PROVE inst'[k] = Nil
    BY <2>0, <2>3, SupRuns
  <2>4. ASSUME NEW g \in Gens, SwpStep(g) PROVE panicH[k] > inst[k].panic
    <3>1. /\ Current(g) /\ Reviving(g) \in swp[g].todo
          /\ \A j \in Kinds \ {Reviving(g)} : inst'[j] = inst[j]
      BY <2>0, <2>4, SwpRuns
    <3>2. k = Reviving(g)
      BY <2>0, <3>1
    <3>3. ~Named(k, inst[k])
      BY <2>0, <3>1, <3>2 DEF StillDead
    <3>4. inst[k].panic # panicH[k]
      BY <3>3 DEF Named
    <3>5. inst[k].panic \in Nat /\ panicH[k] \in Nat /\ inst[k].panic <= panicH[k]
      BY <2>0, PanicTypes, Bounds DEF Ranked
    <3> QED BY <3>4, <3>5
  <2> QED BY <2>1, <2>2, <2>3, <2>4 DEF Next
<1> HIDE DEF Inv
<1> QED BY <1>1, <1>2, <1>3, PTL DEF Spec, PanickedStaysOut

=============================================================================
