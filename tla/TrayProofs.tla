----------------------------- MODULE TrayProofs -----------------------------
(***************************************************************************)
(* Proofs about Tray, for any applications, number of clickers and bounds: *)
(* its types with the discipline of clickMu and menuMu, and that the       *)
(* engine routes what the user has clicked together.                       *)
(***************************************************************************)
EXTENDS Tray, FiniteSetTheorems, TLAPS

---------------------------------------------------------------------------
(* Types                                                                   *)

Tasks == [pc : Steps, st : Status, app : Apps \cup {Nobody}, req : SUBSET Apps]

EngineTyped ==
    /\ state \in States /\ apps \subseteq Apps
    /\ up \in BOOLEAN /\ served \in BOOLEAN /\ uninstalling \in BOOLEAN
    /\ pac \in {"none", "ours", "theirs"}
TrayTyped ==
    /\ running \in BOOLEAN /\ serviceUp \in BOOLEAN
    /\ cur \in Status /\ offline \in 0..3
UserTyped == wish \subseteq Apps /\ behind \in Causes
MenuTyped == items \subseteq Apps /\ sig \in (SUBSET Apps) \cup {Nobody}
CountsTyped == ops \in 0..MaxOps /\ mishaps \in 0..MaxMishaps

(* The mutexes are held exactly where the code holds them, and a click     *)
(* under way is one on an application.                                     *)
MenuHeld(t) == (menuMu = t) = (thr[t].pc \in {"items", "sig"})
ClickHeld(t) == (clickMu = t) = (thr[t].pc \notin {"idle", "lock"})
Named(r) == r.pc \in {"lock", "send"} => r.app \in Apps
ThreadsTyped ==
    /\ thr \in [Threads -> Tasks] /\ \A t \in Threads : Named(thr[t])
    /\ {clickMu, menuMu} \subseteq Threads \cup {Nobody}
    /\ \A t \in Threads : MenuHeld(t)
    /\ \A t \in Clickers : ClickHeld(t)

Typed == EngineTyped /\ TrayTyped /\ UserTyped /\ MenuTyped /\ CountsTyped /\ ThreadsTyped

(* What a process that has gone leaves behind.                             *)
AtRest ==
    ~running => /\ menuMu = Nobody /\ clickMu = Nobody
                /\ \A t \in Clickers : thr[t].pc = "idle"

LEMMA TypedIsTypeOK == Typed => TypeOK
BY DEF Typed, EngineTyped, TrayTyped, UserTyped, MenuTyped, CountsTyped, ThreadsTyped,
       MenuHeld, ClickHeld, Tasks, TypeOK

LEMMA IdleTyped == Idle \in Tasks /\ Idle.pc = "idle" /\ Named(Idle) /\ NoStatus \in Status
<1>1. NoStatus \in Status
  BY DEF NoStatus, Status, States
<1>2. "idle" \in Steps
  BY DEF Steps
<1> QED BY <1>1, <1>2 DEF Idle, Tasks, Named

LEMMA TypedInit == Init => Typed
<1> SUFFICES ASSUME Init PROVE Typed
    OBVIOUS
<1>1. EngineTyped /\ UserTyped /\ MenuTyped
  <2>1. up \in BOOLEAN /\ served \in BOOLEAN /\ uninstalling \in BOOLEAN
    <3>1. up \in BOOLEAN
      BY DEF Init
    <3>2. served = TRUE /\ uninstalling = FALSE
      BY DEF Init
    <3> QED BY <3>1, <3>2, Zenon
  <2>2. state \in States /\ pac \in {"none", "ours", "theirs"}
    BY DEF Init, States
  <2>3. apps \subseteq Apps /\ wish \subseteq Apps
    <3>1. apps \in SUBSET Apps /\ wish = apps
      BY DEF Init
    <3> QED BY <3>1
  <2>5. behind \in Causes
    BY DEF Init, Causes
  <2>4. MenuTyped
    <3>1. items = {} /\ sig = Nobody
      BY DEF Init
    <3>2. items \subseteq Apps
      BY <3>1
    <3>3. sig \in (SUBSET Apps) \cup {Nobody}
      BY <3>1, Zenon
    <3> QED BY <3>2, <3>3 DEF MenuTyped
  <2> QED BY <2>1, <2>2, <2>3, <2>4, <2>5 DEF EngineTyped, UserTyped
<1>2. TrayTyped
  <2>1. running \in BOOLEAN /\ serviceUp \in BOOLEAN
    BY Zenon DEF Init
  <2>2. cur \in Status
    BY IdleTyped DEF Init
  <2>3. offline \in 0..3
    BY DEF Init
  <2> QED BY <2>1, <2>2, <2>3 DEF TrayTyped
<1>3. CountsTyped
  BY TrayAssumption DEF Init, CountsTyped
<1>4. ThreadsTyped
  <2>1. \A t \in Threads : thr[t].pc = "idle" /\ t # Nobody
    BY IdleTyped, TrayAssumption DEF Init
  <2>2. Clickers \subseteq Threads
    BY DEF Threads
  <2> QED BY <2>1, <2>2, IdleTyped DEF Init, ThreadsTyped, MenuHeld, ClickHeld, Named
<1> QED BY <1>1, <1>2, <1>3, <1>4 DEF Typed

(* One thread goes on to another step; the mutexes are as the step says.   *)
LEMMA ThreadMoves ==
    ASSUME ThreadsTyped, NEW t \in Threads, NEW r \in Tasks, Named(r), thr' = [thr EXCEPT ![t] = r],
           {clickMu', menuMu'} \subseteq Threads \cup {Nobody},
           (menuMu' = t) = (r.pc \in {"items", "sig"}),
           t \in Clickers => (clickMu' = t) = (r.pc \notin {"idle", "lock"}),
           \A u \in Threads \ {t} : (menuMu' = u) = (menuMu = u),
           \A u \in Clickers \ {t} : (clickMu' = u) = (clickMu = u)
    PROVE  ThreadsTyped'
<1>1. thr' \in [Threads -> Tasks] /\ thr'[t] = r /\ \A u \in Threads \ {t} : thr'[u] = thr[u]
  BY DEF ThreadsTyped
<1>0. \A u \in Threads : Named(thr'[u])
  BY <1>1 DEF ThreadsTyped
<1>2. \A u \in Threads : MenuHeld(u)'
  <2> SUFFICES ASSUME NEW u \in Threads PROVE MenuHeld(u)'
      OBVIOUS
  <2>1. CASE u = t
    BY <1>1, <2>1 DEF MenuHeld
  <2>2. CASE u # t
    BY <1>1, <2>2 DEF MenuHeld, ThreadsTyped
  <2> QED BY <2>1, <2>2
<1>3. \A u \in Clickers : ClickHeld(u)'
  <2> SUFFICES ASSUME NEW u \in Clickers PROVE ClickHeld(u)'
      OBVIOUS
  <2>1. CASE u = t
    BY <1>1, <2>1 DEF ClickHeld
  <2>2. CASE u # t
    <3>1. u \in Threads
      BY DEF Threads
    <3> QED BY <1>1, <2>2, <3>1 DEF ClickHeld, ThreadsTyped
  <2> QED BY <2>1, <2>2
<1> QED BY <1>0, <1>1, <1>2, <1>3 DEF ThreadsTyped

(* A step between two places with the same mutexes.                        *)
Class(pc) == IF pc \in {"idle", "lock"} THEN "free" ELSE IF pc \in {"items", "sig"} THEN "menu" ELSE "busy"

LEMMA GoesOn ==
    ASSUME ThreadsTyped, NEW t \in Threads, NEW pc \in Steps, NEW st \in Status,
           NEW app \in Apps \cup {Nobody}, NEW req \in SUBSET Apps,
           pc \in {"lock", "send"} => app \in Apps,
           thr' = [thr EXCEPT ![t] = [pc |-> pc, st |-> st, app |-> app, req |-> req]],
           UNCHANGED <<clickMu, menuMu>>,
           Class(pc) = Class(thr[t].pc) \/ (t \notin Clickers /\ Class(pc) # "menu" /\ Class(thr[t].pc) # "menu")
    PROVE  ThreadsTyped'
<1> DEFINE r == [pc |-> pc, st |-> st, app |-> app, req |-> req]
<1>1. r \in Tasks /\ r.pc = pc /\ Named(r)
  BY DEF Tasks, Named
<1>2. (menuMu = t) = (pc \in {"items", "sig"})
  BY DEF ThreadsTyped, MenuHeld, Class
<1>3. t \in Clickers => (clickMu = t) = (pc \notin {"idle", "lock"})
  BY DEF ThreadsTyped, ClickHeld, Class
<1>4. thr' = [thr EXCEPT ![t] = r] /\ {clickMu', menuMu'} \subseteq Threads \cup {Nobody}
  BY DEF ThreadsTyped
<1> HIDE DEF r
<1> QED BY <1>1, <1>2, <1>3, <1>4, ThreadMoves

LEMMA GotoTyped ==
    ASSUME ThreadsTyped, NEW t \in Threads, NEW pc \in Steps \ {"lock", "send"}, Goto(t, pc),
           UNCHANGED <<clickMu, menuMu>>,
           Class(pc) = Class(thr[t].pc) \/ (t \notin Clickers /\ Class(pc) # "menu" /\ Class(thr[t].pc) # "menu")
    PROVE  ThreadsTyped'
<1>1. thr[t] \in Tasks /\ thr \in [Threads -> Tasks]
  BY DEF ThreadsTyped
<1> DEFINE r == [pc |-> pc, st |-> thr[t].st, app |-> thr[t].app, req |-> thr[t].req]
<1>2. [thr[t] EXCEPT !.pc = pc] = r
  BY <1>1 DEF Tasks
<1>3. thr' = [thr EXCEPT ![t] = r]
  BY <1>1, <1>2 DEF Goto
<1> QED BY <1>1, <1>3, GoesOn DEF Tasks

LEMMA GotTyped ==
    ASSUME ThreadsTyped, EngineTyped, NEW t \in Threads, Got(t, "store"),
           UNCHANGED <<clickMu, menuMu>>,
           Class(thr[t].pc) = "busy" \/ (t \notin Clickers /\ thr[t].pc = "idle")
    PROVE  ThreadsTyped'
<1>1. thr[t] \in Tasks /\ thr \in [Threads -> Tasks]
  BY DEF ThreadsTyped
<1> DEFINE r == [pc |-> "store", st |-> Reply, app |-> thr[t].app, req |-> thr[t].req]
<1>2. [thr[t] EXCEPT !.pc = "store", !.st = Reply] = r
  <2> DEFINE q == [pc |-> "store", st |-> thr[t].st, app |-> thr[t].app, req |-> thr[t].req]
  <2>1. [thr[t] EXCEPT !.pc = "store"] = q
    BY <1>1 DEF Tasks
  <2>2. [q EXCEPT !.st = Reply] = r
    OBVIOUS
  <2> QED BY <2>1, <2>2, Zenon
<1>3. thr' = [thr EXCEPT ![t] = r]
  <2>1. thr' = [thr EXCEPT ![t] = [thr[t] EXCEPT !.pc = "store", !.st = Reply]]
    BY <1>1 DEF Got
  <2> QED BY <1>2, <2>1, Zenon
<1>4. Reply \in Status /\ "store" \in Steps /\ Class("store") = "busy" /\ Class("idle") = "free"
  BY DEF EngineTyped, Reply, Status, Steps, Class
<1>5. thr[t].app \in Apps \cup {Nobody} /\ thr[t].req \in SUBSET Apps
  BY <1>1 DEF Tasks
<1> QED BY <1>3, <1>4, <1>5, GoesOn

(* Done gives clickMu back.                                                *)
LEMMA DoneTyped ==
    ASSUME ThreadsTyped, NEW t \in Threads, Done(t), UNCHANGED menuMu,
           thr[t].pc \notin {"items", "sig"}
    PROVE  ThreadsTyped'
<1>1. t # Nobody
  BY TrayAssumption
<1>2. clickMu' # t /\ \A u \in Clickers \ {t} : (clickMu' = u) = (clickMu = u)
  <2>1. Nobody \notin Clickers
    BY TrayAssumption DEF Threads
  <2> QED BY <1>1, <2>1 DEF Done
<1>3. thr' = [thr EXCEPT ![t] = Idle] /\ {clickMu', menuMu'} \subseteq Threads \cup {Nobody}
  BY DEF Done, ThreadsTyped
<1>4. menuMu # t
  BY DEF ThreadsTyped, MenuHeld
<1>5. /\ (menuMu' = t) = (Idle.pc \in {"items", "sig"})
      /\ t \in Clickers => (clickMu' = t) = (Idle.pc \notin {"idle", "lock"})
  BY <1>2, <1>4, IdleTyped
<1> QED BY <1>2, <1>3, <1>5, IdleTyped, ThreadMoves

LEMMA Counts ==
    ASSUME CountsTyped, ops' = ops \/ Spend, mishaps' = mishaps \/ Mishap
    PROVE  CountsTyped'
<1>1. ops' \in 0..MaxOps
  BY TrayAssumption DEF CountsTyped, Spend
<1>2. mishaps' \in 0..MaxMishaps
  BY TrayAssumption DEF CountsTyped, Mishap
<1> QED BY <1>1, <1>2 DEF CountsTyped

(* What most steps leave alone.                                            *)
LEMMA Frames ==
    ASSUME Typed
    PROVE  /\ UNCHANGED <<enginev, pac>> => EngineTyped'
           /\ UNCHANGED trayv => TrayTyped'
           /\ UNCHANGED userv => UserTyped'
           /\ UNCHANGED menuv => MenuTyped'
           /\ UNCHANGED <<thr, clickMu, menuMu>> => ThreadsTyped'
<1>1. UNCHANGED <<enginev, pac>> => EngineTyped'
  BY DEF Typed, EngineTyped, enginev
<1>2. UNCHANGED trayv => TrayTyped'
  BY DEF Typed, TrayTyped, trayv
<1>3. UNCHANGED userv => UserTyped'
  BY DEF Typed, UserTyped, userv
<1>4. UNCHANGED menuv => MenuTyped'
  BY DEF Typed, MenuTyped, menuv
<1>5. UNCHANGED <<thr, clickMu, menuMu>> => ThreadsTyped'
  BY DEF Typed, ThreadsTyped, MenuHeld, ClickHeld
<1> QED BY <1>1, <1>2, <1>3, <1>4, <1>5

LEMMA WriteTyped ==
    ASSUME EngineTyped, UNCHANGED enginev,
           (\E v \in {"none", "ours"} : Write(v)) \/ (UNCHANGED pac /\ NoMishap)
    PROVE  EngineTyped' /\ (mishaps' = mishaps \/ Mishap)
<1>1. pac' \in {"none", "ours", "theirs"} /\ (mishaps' = mishaps \/ Mishap)
  BY DEF EngineTyped, Write, NoMishap
<1> QED BY <1>1 DEF EngineTyped, enginev

LEMMA PlaceTyped ==
    /\ Steps = {"idle", "lock", "send", "reply", "offline", "store", "menu", "items", "sig",
                "proxy", "elevate", "quit", "off"}
    /\ Class("idle") = "free" /\ Class("lock") = "free"
    /\ Class("items") = "menu" /\ Class("sig") = "menu"
    /\ \A pc \in Steps \ {"idle", "lock", "items", "sig"} : Class(pc) = "busy"
BY DEF Steps, Class

LEMMA ThreadTyped ==
    ASSUME Typed, NEW t \in Threads
    PROVE  /\ thr[t] \in Tasks /\ thr[t].pc \in Steps /\ thr[t].st \in Status
           /\ thr[t].st.apps \subseteq Apps
           /\ thr[t].app \in Apps \cup {Nobody} /\ thr[t].req \subseteq Apps
           /\ thr[t].pc \in {"lock", "send"} => thr[t].app \in Apps
BY DEF Typed, ThreadsTyped, Tasks, Status, Named

(* watchStatus.                                                            *)
LEMMA PollTyped ==
    ASSUME Typed, PollEngine \/ SetOffline
    PROVE  Typed'
<1>0. Poll \in Threads /\ Poll \notin Clickers
  BY TrayAssumption DEF Threads
<1>1. CASE PollEngine
  <2>1. EngineTyped' /\ TrayTyped' /\ UserTyped' /\ MenuTyped'
    BY <1>1, Frames DEF PollEngine
  <2>2. CountsTyped'
    BY <1>1, Counts DEF PollEngine, NoMishap, Typed
  <2>3. UNCHANGED <<clickMu, menuMu>> /\ thr[Poll].pc = "idle"
    BY <1>1 DEF PollEngine, menuv, At
  <2>4. CASE Got(Poll, "store")
    BY <1>0, <2>1, <2>2, <2>3, <2>4, GotTyped DEF Typed
  <2>5. CASE Goto(Poll, "offline")
    BY <1>0, <2>1, <2>2, <2>3, <2>5, GotoTyped, PlaceTyped DEF Typed
  <2> QED BY <1>1, <2>4, <2>5 DEF PollEngine
<1>2. CASE SetOffline
  <2>1. UserTyped' /\ MenuTyped'
    BY <1>2, Frames DEF SetOffline
  <2>2. EngineTyped' /\ CountsTyped'
    <3>1. Write("none") \/ (UNCHANGED pac /\ NoMishap)
      BY <1>2 DEF SetOffline
    <3>2. EngineTyped' /\ (mishaps' = mishaps \/ Mishap)
      BY <1>2, <3>1, WriteTyped DEF SetOffline, Typed
    <3>3. CountsTyped'
      BY <1>2, <3>2, Counts DEF SetOffline, Typed
    <3> QED BY <3>2, <3>3
  <2>3. TrayTyped'
    <3>1. offline' \in 0..3
      BY <1>2 DEF SetOffline, Plus1, Typed, TrayTyped
    <3>2. serviceUp' = FALSE /\ UNCHANGED <<running, cur>>
      BY <1>2 DEF SetOffline
    <3> QED BY <3>1, <3>2 DEF Typed, TrayTyped
  <2>4. UNCHANGED <<clickMu, menuMu>> /\ thr[Poll].pc = "offline" /\ Goto(Poll, "idle")
    BY <1>2 DEF SetOffline, menuv, At
  <2>5. ThreadsTyped'
    BY <1>0, <2>4, GotoTyped, PlaceTyped DEF Typed
  <2> QED BY <2>1, <2>2, <2>3, <2>5 DEF Typed
<1> QED BY <1>1, <1>2

(* apply.                                                                  *)
LEMMA StoreTyped ==
    ASSUME Typed, NEW t \in Threads, Store(t)
    PROVE  Typed'
<1>1. EngineTyped' /\ MenuTyped' /\ CountsTyped'
  BY Frames, Counts DEF Store, Typed
<1>5. UserTyped'
  BY DEF Store, Causes, Typed, UserTyped
<1>2. TrayTyped'
  <2>1. cur' \in Status /\ serviceUp' = TRUE /\ offline' = 0 /\ UNCHANGED running
    BY ThreadTyped DEF Store
  <2> QED BY <2>1 DEF Typed, TrayTyped
<1>3. UNCHANGED <<clickMu, menuMu>> /\ thr[t].pc = "store" /\ Goto(t, "menu")
  BY DEF Store, menuv, At
<1>4. ThreadsTyped'
  BY <1>3, GotoTyped, PlaceTyped DEF Typed
<1> QED BY <1>1, <1>2, <1>4, <1>5 DEF Typed

LEMMA GotoTask ==
    ASSUME Typed, NEW t \in Threads, NEW pc \in Steps, Goto(t, pc)
    PROVE  \E r \in Tasks : r.pc = pc /\ thr' = [thr EXCEPT ![t] = r]
<1>1. thr[t] \in Tasks /\ thr \in [Threads -> Tasks]
  BY DEF Typed, ThreadsTyped
<1> DEFINE r == [thr[t] EXCEPT !.pc = pc]
<1>2. r \in Tasks /\ r.pc = pc
  BY <1>1 DEF Tasks
<1>3. thr' = [thr EXCEPT ![t] = r]
  BY <1>1 DEF Goto
<1> QED BY <1>2, <1>3

LEMMA SyncAppsTyped ==
    ASSUME Typed, NEW t \in Threads, SyncApps(t)
    PROVE  Typed'
<1>1. EngineTyped' /\ TrayTyped' /\ UserTyped' /\ CountsTyped'
  BY Frames, Counts DEF SyncApps, Typed
<1>2. MenuTyped'
  BY DEF SyncApps, Typed, MenuTyped
<1>3. thr[t].pc = "menu" /\ menuMu = Nobody /\ UNCHANGED clickMu
  BY DEF SyncApps, At
<1>4. CASE Goto(t, "proxy") /\ UNCHANGED menuMu
  BY <1>1, <1>2, <1>3, <1>4, GotoTyped, PlaceTyped DEF Typed
<1>5. CASE Goto(t, "items") /\ menuMu' = t
  <2>1. PICK r \in Tasks : r.pc = "items" /\ thr' = [thr EXCEPT ![t] = r] /\ Named(r)
    BY <1>5, GotoTask, PlaceTyped DEF Named
  <2>2. \A u \in Threads \ {t} : (menuMu' = u) = (menuMu = u)
    BY <1>3, <1>5, TrayAssumption
  <2>3. t \in Clickers => clickMu = t
    BY <1>3 DEF Typed, ThreadsTyped, ClickHeld
  <2>4. {clickMu', menuMu'} \subseteq Threads \cup {Nobody}
    BY <1>3, <1>5 DEF Typed, ThreadsTyped
  <2>5. /\ (menuMu' = t) = (r.pc \in {"items", "sig"})
        /\ t \in Clickers => (clickMu' = t) = (r.pc \notin {"idle", "lock"})
    BY <1>3, <1>5, <2>1, <2>3
  <2>6. ThreadsTyped'
    BY <1>3, <2>1, <2>2, <2>4, <2>5, ThreadMoves DEF Typed
  <2> QED BY <1>1, <1>2, <2>6 DEF Typed
<1> QED BY <1>4, <1>5 DEF SyncApps

LEMMA CheckItemsTyped ==
    ASSUME Typed, NEW t \in Threads, CheckItems(t)
    PROVE  Typed'
<1>1. EngineTyped' /\ TrayTyped' /\ UserTyped' /\ CountsTyped'
  BY Frames, Counts DEF CheckItems, Typed
<1>2. MenuTyped'
  BY ThreadTyped DEF CheckItems, Typed, MenuTyped
<1>3. UNCHANGED <<clickMu, menuMu>> /\ thr[t].pc = "items" /\ Goto(t, "sig")
  BY DEF CheckItems, At
<1>4. ThreadsTyped'
  BY <1>3, GotoTyped, PlaceTyped DEF Typed
<1> QED BY <1>1, <1>2, <1>4 DEF Typed

LEMMA PublishSigTyped ==
    ASSUME Typed, NEW t \in Threads, PublishSig(t)
    PROVE  Typed'
<1>1. EngineTyped' /\ TrayTyped' /\ UserTyped' /\ CountsTyped'
  BY Frames, Counts DEF PublishSig, Typed
<1>2. MenuTyped'
  BY ThreadTyped DEF PublishSig, Typed, MenuTyped
<1>3. thr[t].pc = "sig" /\ menuMu = t /\ menuMu' = Nobody /\ UNCHANGED clickMu
  BY DEF PublishSig, At, Typed, ThreadsTyped, MenuHeld
<1>4. PICK r \in Tasks : r.pc = "proxy" /\ thr' = [thr EXCEPT ![t] = r] /\ Named(r)
  BY GotoTask, PlaceTyped DEF PublishSig, Named
<1>5. /\ menuMu' # t
      /\ \A u \in Threads \ {t} : (menuMu' = u) = (menuMu = u)
  BY <1>3, TrayAssumption
<1>6. t \in Clickers => clickMu = t
  BY <1>3 DEF Typed, ThreadsTyped, ClickHeld
<1>7. {clickMu', menuMu'} \subseteq Threads \cup {Nobody}
  BY <1>3 DEF Typed, ThreadsTyped
<1>8. /\ (menuMu' = t) = (r.pc \in {"items", "sig"})
      /\ t \in Clickers => (clickMu' = t) = (r.pc \notin {"idle", "lock"})
  BY <1>3, <1>4, <1>5, <1>6
<1>9. ThreadsTyped'
  BY <1>3, <1>4, <1>5, <1>7, <1>8, ThreadMoves DEF Typed
<1> QED BY <1>1, <1>2, <1>9 DEF Typed

LEMMA SyncProxyTyped ==
    ASSUME Typed, NEW t \in Threads, SyncProxy(t)
    PROVE  Typed'
<1>1. TrayTyped' /\ UserTyped' /\ MenuTyped'
  BY Frames DEF SyncProxy
<1>2. EngineTyped' /\ CountsTyped'
  BY WriteTyped, Counts DEF SyncProxy, Typed
<1>3. UNCHANGED menuMu /\ thr[t].pc = "proxy" /\ Done(t)
  BY DEF SyncProxy, At, menuv
<1>4. ThreadsTyped'
  BY <1>3, DoneTyped DEF Typed
<1> QED BY <1>1, <1>2, <1>4 DEF Typed

LEMMA ApplyTyped ==
    ASSUME Typed, NEW t \in Threads, Apply(t)
    PROVE  Typed'
BY StoreTyped, SyncAppsTyped, CheckItemsTyped, PublishSigTyped, SyncProxyTyped DEF Apply

(* toggleApp.                                                              *)
LEMMA ClickTyped ==
    ASSUME Typed, NEW t \in Clickers, NEW a \in Apps, Click(t, a)
    PROVE  Typed'
<1>0. t \in Threads
  BY DEF Threads
<1>1. EngineTyped' /\ TrayTyped' /\ MenuTyped' /\ CountsTyped'
  BY Frames, Counts DEF Click, Typed
<1>2. UserTyped'
  BY DEF Click, Toggle, SymDiff, Typed, UserTyped
<1>3. UNCHANGED <<clickMu, menuMu>> /\ thr[t].pc = "idle"
  BY DEF Click, At, menuv
<1> DEFINE r == [pc |-> "lock", st |-> thr[t].st, app |-> a, req |-> thr[t].req]
<1>4. thr' = [thr EXCEPT ![t] = r]
  <2>1. [thr[t] EXCEPT !.pc = "lock", !.app = a] = r
    <3> DEFINE q == [pc |-> "lock", st |-> thr[t].st, app |-> thr[t].app, req |-> thr[t].req]
    <3>1. [thr[t] EXCEPT !.pc = "lock"] = q
      BY <1>0, ThreadTyped DEF Tasks
    <3>2. [q EXCEPT !.app = a] = r
      OBVIOUS
    <3> QED BY <3>1, <3>2, Zenon
  <2>2. thr' = [thr EXCEPT ![t] = [thr[t] EXCEPT !.pc = "lock", !.app = a]]
    BY <1>0 DEF Click, Typed, ThreadsTyped
  <2> QED BY <2>1, <2>2, Zenon
<1>5. ThreadsTyped'
  BY <1>0, <1>3, <1>4, ThreadTyped, GoesOn, PlaceTyped DEF Typed
<1> QED BY <1>1, <1>2, <1>5 DEF Typed

LEMMA TakeClickTyped ==
    ASSUME Typed, NEW t \in Clickers, TakeClick(t)
    PROVE  Typed'
<1>0. t \in Threads
  BY DEF Threads
<1>1. EngineTyped' /\ TrayTyped' /\ MenuTyped' /\ CountsTyped'
  BY Frames, Counts DEF TakeClick, Typed
<1>2. UserTyped'
  <2>1. SymDiff(wish, SymDiff(cur.apps, apps)) \subseteq Apps
    BY DEF SymDiff, Typed, UserTyped, TrayTyped, EngineTyped, Status
  <2> QED BY <2>1 DEF TakeClick, Compute, Typed, UserTyped
<1>3. clickMu = Nobody /\ clickMu' = t /\ UNCHANGED menuMu /\ thr[t].pc = "lock"
  BY DEF TakeClick, At, menuv
<1> DEFINE r == [pc |-> "send", st |-> thr[t].st, app |-> thr[t].app, req |-> Toggle(cur.apps, thr[t].app)]
<1>4. thr' = [thr EXCEPT ![t] = r]
  <2>1. [thr[t] EXCEPT !.pc = "send", !.req = Toggle(cur.apps, thr[t].app)] = r
    <3> DEFINE q == [pc |-> "send", st |-> thr[t].st, app |-> thr[t].app, req |-> thr[t].req]
    <3>1. [thr[t] EXCEPT !.pc = "send"] = q
      BY <1>0, ThreadTyped DEF Tasks
    <3>2. [q EXCEPT !.req = Toggle(cur.apps, thr[t].app)] = r
      OBVIOUS
    <3> QED BY <3>1, <3>2, Zenon
  <2>2. thr' = [thr EXCEPT ![t] = [thr[t] EXCEPT !.pc = "send", !.req = Toggle(cur.apps, thr[t].app)]]
    BY <1>0 DEF TakeClick, Compute, Typed, ThreadsTyped
  <2> QED BY <2>1, <2>2, Zenon
<1>5. thr[t].app \in Apps
  BY <1>0, <1>3, ThreadTyped
<1>6. r \in Tasks /\ r.pc = "send" /\ Named(r)
  <2>1. Toggle(cur.apps, thr[t].app) \subseteq Apps
    BY <1>5 DEF Toggle, SymDiff, Typed, TrayTyped, Status
  <2> QED BY <1>0, <1>5, <2>1, ThreadTyped, PlaceTyped DEF Tasks, Named
<1> HIDE DEF r
<1>7. menuMu # t
  BY <1>0, <1>3 DEF Typed, ThreadsTyped, MenuHeld
<1>8. \A u \in Clickers \ {t} : (clickMu' = u) = (clickMu = u)
  BY <1>3, TrayAssumption DEF Threads
<1>9. {clickMu', menuMu'} \subseteq Threads \cup {Nobody}
  BY <1>0, <1>3 DEF Typed, ThreadsTyped
<1>10. /\ (menuMu' = t) = (r.pc \in {"items", "sig"})
       /\ t \in Clickers => (clickMu' = t) = (r.pc \notin {"idle", "lock"})
  BY <1>3, <1>6, <1>7
<1>11. ThreadsTyped'
  BY <1>0, <1>3, <1>4, <1>6, <1>8, <1>9, <1>10, ThreadMoves DEF Typed
<1> QED BY <1>1, <1>2, <1>11 DEF Typed

LEMMA SendTyped ==
    ASSUME Typed, NEW t \in Clickers, SendApps(t)
    PROVE  Typed'
<1>0. t \in Threads
  BY DEF Threads
<1>1. TrayTyped' /\ MenuTyped' /\ CountsTyped'
  BY Frames, Counts DEF SendApps, Typed
<1>2. thr[t].pc = "send" /\ UNCHANGED menuMu /\ thr[t].app \in Apps
  BY <1>0, ThreadTyped DEF SendApps, At, menuv
<1>3. EngineTyped'
  <2>1. apps' \subseteq Apps
    BY <1>0, ThreadTyped DEF SendApps, Typed, EngineTyped
  <2>2. UNCHANGED <<up, state, served, uninstalling, pac>>
    BY DEF SendApps
  <2> QED BY <2>1, <2>2 DEF Typed, EngineTyped
<1>4. UserTyped'
  <2>1. wish' \subseteq Apps
    BY <1>0, ThreadTyped DEF SendApps, SymDiff, Typed, UserTyped, EngineTyped
  <2>2. behind' \in Causes
    BY DEF SendApps, Causes, Typed, UserTyped
  <2> QED BY <2>1, <2>2 DEF Typed, UserTyped
<1>5. CASE Goto(t, "reply") /\ UNCHANGED clickMu
  <2>1. ThreadsTyped'
    BY <1>0, <1>2, <1>5, GotoTyped, PlaceTyped DEF Typed
  <2> QED BY <1>1, <1>3, <1>4, <2>1 DEF Typed
<1>6. CASE Done(t)
  <2>1. ThreadsTyped'
    BY <1>0, <1>2, <1>6, DoneTyped DEF Typed
  <2> QED BY <1>1, <1>3, <1>4, <2>1 DEF Typed
<1> QED BY <1>5, <1>6 DEF SendApps

LEMMA ReplyTyped ==
    ASSUME Typed, NEW t \in Threads, GetReply(t)
    PROVE  Typed'
<1>1. EngineTyped' /\ TrayTyped' /\ MenuTyped' /\ UserTyped'
  <2>1. UserTyped'
    BY DEF GetReply, Causes, Typed, UserTyped
  <2> QED BY <2>1, Frames DEF GetReply
<1>2. CountsTyped'
  BY Counts DEF GetReply, NoMishap, Typed
<1>3. thr[t].pc = "reply" /\ UNCHANGED menuMu
  BY DEF GetReply, At, menuv
<1>4. CASE Got(t, "store") /\ UNCHANGED clickMu
  <2>1. ThreadsTyped'
    BY <1>3, <1>4, GotTyped, PlaceTyped DEF Typed
  <2> QED BY <1>1, <1>2, <2>1 DEF Typed
<1>5. CASE Done(t)
  <2>1. ThreadsTyped'
    BY <1>3, <1>5, DoneTyped DEF Typed
  <2> QED BY <1>1, <1>2, <2>1 DEF Typed
<1> QED BY <1>4, <1>5 DEF GetReply

(* toggleTunnel, toggleService and the end of the process.                 *)
LEMMA StartedTyped ==
    ASSUME EngineTyped, Started, UNCHANGED <<apps, uninstalling, pac>>
    PROVE  EngineTyped' /\ (mishaps' = mishaps \/ Mishap)
<1>1. state' \in States
  BY DEF Started, EngineTyped, States
<1>2. served' \in BOOLEAN
  BY DEF Started, EngineTyped
<1>3. up' = TRUE
  BY DEF Started
<1>4. mishaps' = mishaps \/ Mishap
  BY DEF Started, NoMishap
<1> QED BY <1>1, <1>2, <1>3, <1>4 DEF EngineTyped

LEMMA ButtonTyped ==
    ASSUME Typed, ToggleTunnel \/ TurnOn \/ TurnOff \/ Elevate
    PROVE  Typed'
<1>0. {Button, Svc} \subseteq Threads \ Clickers
  BY TrayAssumption DEF Threads
<1>1. CASE ToggleTunnel
  <2>1. TrayTyped' /\ UserTyped' /\ MenuTyped' /\ CountsTyped'
    BY <1>1, Frames, Counts DEF ToggleTunnel, Typed
  <2>2. EngineTyped'
    <3>1. state' \in States
      BY <1>1 DEF ToggleTunnel, States
    <3>2. UNCHANGED <<up, apps, served, uninstalling, pac>>
      BY <1>1 DEF ToggleTunnel
    <3> QED BY <3>1, <3>2 DEF Typed, EngineTyped
  <2>3. thr[Button].pc = "idle" /\ UNCHANGED <<clickMu, menuMu>> /\ Goto(Button, "reply")
    BY <1>1 DEF ToggleTunnel, At, menuv
  <2>4. ThreadsTyped'
    BY <1>0, <2>3, GotoTyped, PlaceTyped DEF Typed
  <2> QED BY <2>1, <2>2, <2>4 DEF Typed
<1>2. CASE TurnOn
  <2>1. TrayTyped' /\ UserTyped' /\ MenuTyped' /\ ThreadsTyped'
    BY <1>2, Frames DEF TurnOn, menuv
  <2>2. EngineTyped' /\ (mishaps' = mishaps \/ Mishap)
    BY <1>2, StartedTyped DEF TurnOn, Typed
  <2>3. CountsTyped'
    BY <1>2, <2>2, Counts DEF TurnOn, Typed
  <2> QED BY <2>1, <2>2, <2>3 DEF Typed
<1>3. CASE TurnOff
  <2>1. TrayTyped' /\ UserTyped' /\ MenuTyped'
    BY <1>3, Frames DEF TurnOff
  <2>2. EngineTyped' /\ (mishaps' = mishaps \/ Mishap)
    BY <1>3, WriteTyped DEF TurnOff, Typed
  <2>3. CountsTyped'
    BY <1>3, <2>2, Counts DEF TurnOff, Typed
  <2>4. thr[Svc].pc = "idle" /\ UNCHANGED <<clickMu, menuMu>> /\ Goto(Svc, "elevate")
    BY <1>3 DEF TurnOff, At, menuv
  <2>5. ThreadsTyped'
    BY <1>0, <2>4, GotoTyped, PlaceTyped DEF Typed
  <2> QED BY <2>1, <2>2, <2>3, <2>5 DEF Typed
<1>4. CASE Elevate
  <2>1. TrayTyped' /\ UserTyped' /\ MenuTyped' /\ CountsTyped'
    BY <1>4, Frames, Counts DEF Elevate, Typed
  <2>2. EngineTyped'
    BY <1>4 DEF Elevate, Typed, EngineTyped
  <2>3. thr[Svc].pc = "elevate" /\ UNCHANGED <<clickMu, menuMu>> /\ Goto(Svc, "quit")
    BY <1>4 DEF Elevate, At, menuv
  <2>4. ThreadsTyped'
    BY <1>0, <2>3, GotoTyped, PlaceTyped DEF Typed
  <2> QED BY <2>1, <2>2, <2>4 DEF Typed
<1> QED BY <1>1, <1>2, <1>3, <1>4

LEMMA GoneTyped ==
    ASSUME Typed, NEW last \in Tasks, last.pc \in {"idle", "off"}, Gone(last), UNCHANGED <<enginev, pac, ops>>,
           mishaps' = mishaps \/ Mishap
    PROVE  Typed'
<1>1. EngineTyped' /\ CountsTyped'
  BY Frames, Counts DEF Typed
<1>2. TrayTyped'
  <2>1. running' = FALSE /\ cur' = NoStatus /\ serviceUp' = FALSE /\ offline' = 0
    BY DEF Gone
  <2>2. running' \in BOOLEAN /\ serviceUp' \in BOOLEAN
    BY <2>1, Zenon
  <2>3. cur' \in Status /\ offline' \in 0..3
    BY <2>1, IdleTyped
  <2> QED BY <2>2, <2>3 DEF TrayTyped
<1>3. UserTyped' /\ MenuTyped'
  <2>1. items' = {} /\ sig' = Nobody /\ wish' = apps /\ behind' = "unread"
    BY DEF Gone
  <2>4. behind' \in Causes
    BY <2>1 DEF Causes
  <2>2. sig' \in (SUBSET Apps) \cup {Nobody}
    BY <2>1, Zenon
  <2>3. items' \subseteq Apps /\ wish' \subseteq Apps
    BY <2>1 DEF Typed, EngineTyped
  <2> QED BY <2>2, <2>3, <2>4 DEF UserTyped, MenuTyped
<1>4. ThreadsTyped'
  <2>1. menuMu' = Nobody /\ clickMu' = Nobody /\ thr' = [t \in Threads |-> IF t = Svc THEN last ELSE Idle]
    BY DEF Gone
  <2>2. thr' \in [Threads -> Tasks] /\ \A t \in Threads : thr'[t] = IF t = Svc THEN last ELSE Idle
    BY <2>1, IdleTyped
  <2>3. \A t \in Threads : thr'[t].pc \in {"idle", "off"} /\ t # Nobody
    BY <2>2, IdleTyped, TrayAssumption
  <2>4. \A t \in Clickers : thr'[t].pc = "idle" /\ t \in Threads
    BY <2>2, IdleTyped, TrayAssumption DEF Threads
  <2> QED BY <2>1, <2>2, <2>3, <2>4 DEF ThreadsTyped, Named, MenuHeld, ClickHeld
<1> QED BY <1>1, <1>2, <1>3, <1>4 DEF Typed

LEMMA ProcessTyped ==
    ASSUME Typed, AtRest, Quit \/ TrayKilled \/ TrayStarts
    PROVE  Typed'
<1>1. CASE Quit
  <2> DEFINE last == [Idle EXCEPT !.pc = "off"]
  <2>1. last \in Tasks /\ last.pc = "off"
    BY IdleTyped, PlaceTyped DEF Tasks
  <2>2. Gone(last) /\ UNCHANGED <<enginev, pac, ops, mishaps>>
    BY <1>1 DEF Quit
  <2> HIDE DEF last
  <2> QED BY <2>1, <2>2, GoneTyped
<1>2. CASE TrayKilled
  BY <1>2, GoneTyped, IdleTyped DEF TrayKilled
<1>3. CASE TrayStarts
  <2>1. EngineTyped' /\ UserTyped' /\ MenuTyped' /\ CountsTyped'
    BY <1>3, Frames, Counts DEF TrayStarts, Typed
  <2>2. TrayTyped'
    BY <1>3 DEF TrayStarts, Typed, TrayTyped
  <2>3. /\ menuMu' = Nobody /\ clickMu' = Nobody /\ Nobody \notin Threads
        /\ thr' = [t \in Threads |-> Idle] /\ Clickers \subseteq Threads
    BY <1>3, TrayAssumption DEF TrayStarts, AtRest, menuv, Threads
  <2>4. ThreadsTyped'
    BY <2>3, IdleTyped DEF ThreadsTyped, MenuHeld, ClickHeld
  <2> QED BY <2>1, <2>2, <2>4 DEF Typed
<1> QED BY <1>1, <1>2, <1>3

(* The engine and the session around the tray.                             *)
LEMMA AroundTyped ==
    ASSUME Typed, Engine \/ SomebodySetsPac
    PROVE  Typed'
<1>1. UNCHANGED Around
  BY DEF Engine, Uninstall, TunnelUp, TunnelDrops, EngineStops, EngineStarts, SomebodySetsPac
<1>2. TrayTyped' /\ UserTyped' /\ MenuTyped' /\ ThreadsTyped'
  <2>1. UNCHANGED <<trayv, menuv, clickMu, thr, userv>>
    BY <1>1 DEF Around
  <2> QED BY <2>1, Frames DEF menuv
<1>3. CASE EngineStarts
  <2>1. EngineTyped' /\ (mishaps' = mishaps \/ Mishap)
    BY <1>3, StartedTyped DEF EngineStarts, Typed
  <2> QED BY <1>2, <1>3, <2>1, Counts DEF EngineStarts, Typed
<1>4. CASE SomebodySetsPac
  <2>1. EngineTyped' /\ CountsTyped'
    BY <1>4, Counts DEF SomebodySetsPac, Typed, EngineTyped, enginev
  <2> QED BY <1>2, <2>1 DEF Typed
<1>5. CASE Uninstall \/ TunnelUp \/ TunnelDrops \/ EngineStops
  <2>1. state' \in States /\ (up' = up \/ up' = FALSE) /\ UNCHANGED <<apps, served, uninstalling, pac>>
    BY <1>5 DEF Uninstall, TunnelUp, TunnelDrops, EngineStops, States
  <2>2. EngineTyped'
    BY <2>1 DEF Typed, EngineTyped
  <2>3. CountsTyped'
    BY <1>5, Counts DEF Uninstall, TunnelUp, TunnelDrops, EngineStops, Typed
  <2> QED BY <1>2, <2>2, <2>3 DEF Typed
<1> QED BY <1>3, <1>4, <1>5 DEF Engine

LEMMA TypedStep == Typed /\ AtRest /\ [Next]_vars => Typed'
<1> SUFFICES ASSUME Typed, AtRest, [Next]_vars PROVE Typed'
    OBVIOUS
<1>0. {Poll, Button} \cup Clickers \subseteq Threads
  BY DEF Threads
<1>1. CASE UNCHANGED vars
  BY <1>1, Frames, Counts DEF vars, menuv, Typed
<1>2. CASE PollStep
  BY <1>0, <1>2, PollTyped, ApplyTyped DEF PollStep
<1>3. CASE ButtonStep
  BY <1>0, <1>3, ReplyTyped, ApplyTyped DEF ButtonStep
<1>4. ASSUME NEW t \in Clickers, ClickStep(t) PROVE Typed'
  BY <1>0, <1>4, TakeClickTyped, SendTyped, ReplyTyped, ApplyTyped DEF ClickStep
<1>5. CASE User
  BY <1>5, ClickTyped, ButtonTyped, ProcessTyped, AroundTyped DEF User
<1> QED BY <1>1, <1>2, <1>3, <1>4, <1>5, ButtonTyped, ProcessTyped, AroundTyped DEF Next, TrayStep

LEMMA RestStep == Typed /\ AtRest /\ [Next]_vars => AtRest'
<1> SUFFICES ASSUME Typed, AtRest, [Next]_vars, ~running' PROVE AtRest'
    BY DEF AtRest
<1>1. ASSUME NEW last \in Tasks, Gone(last) PROVE AtRest'
  <2>1. \A t \in Clickers : t \in Threads /\ t # Svc
    BY TrayAssumption DEF Threads
  <2> QED BY <1>1, <2>1, IdleTyped DEF Gone, AtRest
<1>2. CASE Quit
  <2> DEFINE last == [Idle EXCEPT !.pc = "off"]
  <2>1. last \in Tasks
    BY IdleTyped, PlaceTyped DEF Tasks
  <2>2. Gone(last)
    BY <1>2 DEF Quit
  <2> HIDE DEF last
  <2> QED BY <1>1, <2>1, <2>2
<1>3. CASE TrayKilled
  BY <1>1, <1>3, IdleTyped DEF TrayKilled
<1>4. CASE UNCHANGED <<running, menuMu, clickMu, thr>>
  BY <1>4 DEF AtRest
<1>5. CASE Engine \/ SomebodySetsPac \/ UNCHANGED vars
  BY <1>4, <1>5 DEF Engine, Uninstall, TunnelUp, TunnelDrops, EngineStops, EngineStarts,
                    SomebodySetsPac, Around, vars, trayv, menuv
<1>6. ASSUME NEW t \in Threads, Apply(t) PROVE FALSE
  <2>1. running /\ UNCHANGED running
    BY <1>6 DEF Apply, Store, SyncApps, CheckItems, PublishSig, SyncProxy, At, trayv
  <2> QED BY <2>1
<1>7. ASSUME NEW t \in Clickers, TakeClick(t) \/ SendApps(t) \/ \E a \in Apps : Click(t, a) PROVE FALSE
  BY <1>7 DEF TakeClick, SendApps, Click, At, trayv
<1>8. ASSUME NEW t \in Threads, GetReply(t) PROVE FALSE
  BY <1>8 DEF GetReply, At, trayv
<1>9. CASE PollEngine \/ SetOffline \/ ToggleTunnel \/ TurnOn \/ TurnOff \/ Elevate \/ TrayStarts
  BY <1>9 DEF PollEngine, SetOffline, ToggleTunnel, TurnOn, TurnOff, Elevate, TrayStarts, At, trayv
<1>10. {Poll, Button} \cup Clickers \subseteq Threads
  BY DEF Threads
<1> QED BY <1>2, <1>3, <1>5, <1>6, <1>7, <1>8, <1>9, <1>10
        DEF Next, TrayStep, PollStep, ButtonStep, ClickStep, User

(* The tray's goroutines, what they hold and what the engine shows keep    *)
(* their types, and clickMu and menuMu are held exactly where the code     *)
(* holds them.                                                             *)
THEOREM TrayTypeCorrect == Spec => []TypeOK
<1>1. Init => Typed /\ AtRest
  BY TypedInit DEF Init, AtRest
<1> QED BY <1>1, TypedStep, RestStep, TypedIsTypeOK, PTL DEF Spec


---------------------------------------------------------------------------
(* The clicks                                                              *)

(* What was clicked and what the engine routes differ by the clicks that   *)
(* wait: by the applications of which an odd number is.  With a click on   *)
(* its way that holds of the selection it brings.                          *)
On(a) == {t \in Clickers : thr[t].pc = "lock" /\ thr[t].app = a}
Odd(a) == Cardinality(On(a)) % 2 = 1
Differ(S) == \A a \in Apps : (a \in wish) <=> ~((a \in S) <=> Odd(a))
Wished ==
    /\ (\A t \in Clickers : thr[t].pc # "send") => Differ(apps)
    /\ \A t \in Clickers : thr[t].pc = "send" => Differ(thr[t].req)

(* tray.cur is what the engine routes, or there is a cause; while the      *)
(* cause is a command on its way its click is not over.                    *)
Copied ==
    /\ behind = "no" => cur.apps = apps
    /\ behind = "sent" => \E t \in Clickers : thr[t].pc \in {"reply", "store"}
ClicksInv == Typed /\ AtRest /\ Wished /\ Copied

LEMMA OnFinite == ASSUME NEW a PROVE IsFiniteSet(On(a)) /\ Cardinality(On(a)) \in Nat
<1>1. IsFiniteSet(Threads)
  BY TrayAssumption
<1>2. On(a) \subseteq Threads
  BY DEF On, Threads
<1>3. IsFiniteSet(On(a))
  BY <1>1, <1>2, FS_Subset
<1> QED BY <1>3, FS_CardinalityType

LEMMA Parity == \A n \in Nat : ((n + 1) % 2 = 1) <=> ~(n % 2 = 1)
OBVIOUS

(* One click more waits, or one less.                                      *)
LEMMA OneMore ==
    ASSUME NEW a, NEW t \in Clickers, t \notin On(a), On(a)' = On(a) \cup {t}
    PROVE  Odd(a)' <=> ~Odd(a)
<1>1. IsFiniteSet(On(a)) /\ Cardinality(On(a)) \in Nat
  BY OnFinite
<1>2. Cardinality(On(a) \cup {t}) = Cardinality(On(a)) + 1
  BY <1>1, FS_AddElement
<1>3. Cardinality(On(a)') = Cardinality(On(a)) + 1
  BY <1>2
<1> HIDE DEF On
<1> QED BY <1>1, <1>3, Parity DEF Odd

LEMMA OneLess ==
    ASSUME NEW a, NEW t \in Clickers, t \in On(a), On(a)' = On(a) \ {t}
    PROVE  Odd(a)' <=> ~Odd(a)
<1>1. IsFiniteSet(On(a)) /\ Cardinality(On(a)) \in Nat
  BY OnFinite
<1>2. IsFiniteSet(On(a) \ {t}) /\ Cardinality(On(a) \ {t}) \in Nat
  BY <1>1, FS_RemoveElement, FS_CardinalityType
<1>3. Cardinality(On(a) \ {t}) = Cardinality(On(a)) - 1
  BY <1>1, FS_RemoveElement
<1>4. Cardinality(On(a)) = Cardinality(On(a)') + 1 /\ Cardinality(On(a)') \in Nat
  BY <1>1, <1>2, <1>3
<1> QED BY <1>4, Parity DEF Odd

(* A step that leaves the clicks where they are.                           *)
LEMMA ClicksStay ==
    ASSUME ClicksInv, UNCHANGED <<apps, wish>>,
           \A t \in Clickers :
              /\ thr'[t].pc \in {"lock", "send"} <=> thr[t].pc \in {"lock", "send"}
              /\ thr[t].pc \in {"lock", "send"} => thr'[t] = thr[t]
    PROVE  Wished'
<1>1. \A a \in Apps : On(a)' = On(a)
  BY DEF On
<1>2. \A a \in Apps : Odd(a)' <=> Odd(a)
  BY <1>1 DEF Odd
<1>3. \A t \in Clickers : /\ thr'[t].pc = "send" <=> thr[t].pc = "send"
                          /\ thr[t].pc = "send" => thr'[t].req = thr[t].req
  OBVIOUS
<1> HIDE DEF Odd
<1>4. (\A t \in Clickers : thr'[t].pc # "send") => Differ(apps)'
  BY <1>2, <1>3 DEF ClicksInv, Wished, Differ
<1>5. ASSUME NEW t \in Clickers, thr'[t].pc = "send" PROVE Differ(thr[t].req)'
  <2>1. Differ(thr[t].req)
    BY <1>3, <1>5 DEF ClicksInv, Wished
  <2> QED BY <1>2, <1>3, <1>5, <2>1 DEF Differ
<1> QED BY <1>4, <1>5 DEF Wished

(* A thread elsewhere goes on.                                             *)
LEMMA ElsewhereStays ==
    ASSUME ClicksInv, UNCHANGED <<apps, wish>>, NEW t \in Threads, NEW r, r.pc \notin {"lock", "send"},
           thr' = [thr EXCEPT ![t] = r], t \in Clickers => thr[t].pc \notin {"lock", "send"}
    PROVE  Wished'
<1>1. thr'[t] = r /\ \A u \in Threads \ {t} : thr'[u] = thr[u]
  BY DEF ClicksInv, Typed, ThreadsTyped
<1>2. \A u \in Clickers :
        /\ thr'[u].pc \in {"lock", "send"} <=> thr[u].pc \in {"lock", "send"}
        /\ thr[u].pc \in {"lock", "send"} => thr'[u] = thr[u]
  <2> SUFFICES ASSUME NEW u \in Clickers
               PROVE  /\ thr'[u].pc \in {"lock", "send"} <=> thr[u].pc \in {"lock", "send"}
                      /\ thr[u].pc \in {"lock", "send"} => thr'[u] = thr[u]
      OBVIOUS
  <2>1. CASE u = t
    BY <1>1, <2>1
  <2>2. CASE u # t
    BY <1>1, <2>2 DEF Threads
  <2> QED BY <2>1, <2>2
<1> QED BY <1>2, ClicksStay

(* Where a step of one thread takes it.                                    *)
LEMMA Moves ==
    ASSUME Typed, NEW t \in Threads,
           \/ \E pc \in Steps : Goto(t, pc)
           \/ Got(t, "store") \/ Done(t)
    PROVE  \E r \in Tasks :
             /\ thr' = [thr EXCEPT ![t] = r] /\ thr'[t] = r
             /\ \A u \in Threads \ {t} : thr'[u] = thr[u]
             /\ \A pc \in Steps : Goto(t, pc) => r.pc = pc
             /\ Got(t, "store") => r.pc = "store"
             /\ Done(t) => r = Idle
<1>1. thr[t] \in Tasks /\ thr \in [Threads -> Tasks]
  BY DEF Typed, ThreadsTyped
<1>2. PICK r \in Tasks : thr' = [thr EXCEPT ![t] = r]
  <2>1. ASSUME NEW pc \in Steps, Goto(t, pc) PROVE \E r \in Tasks : thr' = [thr EXCEPT ![t] = r]
    BY <2>1, GotoTask
  <2>2. CASE Got(t, "store")
    <3> DEFINE q == [thr[t] EXCEPT !.pc = "store", !.st = Reply]
    <3>1. Reply \in Status /\ "store" \in Steps
      BY DEF Typed, EngineTyped, Reply, Status, Steps
    <3>2. q \in Tasks
      BY <1>1, <3>1 DEF Tasks
    <3>3. thr' = [thr EXCEPT ![t] = q]
      BY <1>1, <2>2 DEF Got
    <3> HIDE DEF q
    <3> QED BY <3>2, <3>3
  <2>3. CASE Done(t)
    BY <2>3, IdleTyped DEF Done
  <2> QED BY <2>1, <2>2, <2>3
<1>3. thr'[t] = r /\ \A u \in Threads \ {t} : thr'[u] = thr[u]
  BY <1>1, <1>2
<1>4. ASSUME NEW pc \in Steps, Goto(t, pc) PROVE r.pc = pc
  <2>1. thr'[t] = [thr[t] EXCEPT !.pc = pc]
    BY <1>1, <1>4 DEF Goto
  <2> QED BY <1>1, <1>3, <2>1 DEF Tasks
<1>5. Got(t, "store") => r.pc = "store"
  <2>1. Got(t, "store") => thr'[t] = [thr[t] EXCEPT !.pc = "store", !.st = Reply]
    BY <1>1 DEF Got
  <2> QED BY <1>1, <1>3, <2>1 DEF Tasks
<1>6. Done(t) => r = Idle
  <2>1. Done(t) => thr'[t] = Idle
    BY <1>1 DEF Done
  <2> QED BY <1>3, <2>1
<1> QED BY <1>2, <1>3, <1>4, <1>5, <1>6

LEMMA MovesStay ==
    ASSUME ClicksInv, UNCHANGED <<apps, wish>>, NEW t \in Threads,
           \/ \E pc \in Steps \ {"lock", "send"} : Goto(t, pc)
           \/ Got(t, "store") \/ Done(t),
           t \in Clickers => thr[t].pc \notin {"lock", "send"}
    PROVE  Wished'
<1>1. PICK r \in Tasks :
             /\ thr' = [thr EXCEPT ![t] = r]
             /\ \A pc \in Steps : Goto(t, pc) => r.pc = pc
             /\ Got(t, "store") => r.pc = "store"
             /\ Done(t) => r = Idle
  BY Moves DEF ClicksInv
<1>2. r.pc \notin {"lock", "send"}
  BY <1>1, IdleTyped
<1> QED BY <1>1, <1>2, ElsewhereStays

(* A command on its way stays there, or tray.cur has another cause.        *)
LEMMA SentStays ==
    ASSUME ClicksInv, NEW t \in Threads, UNCHANGED behind,
           behind = "sent" /\ t \in Clickers => thr[t].pc \notin {"reply", "store"},
           \A u \in Threads \ {t} : thr'[u] = thr[u]
    PROVE  behind' = "sent" => \E u \in Clickers : thr'[u].pc \in {"reply", "store"}
<1> SUFFICES ASSUME behind = "sent" PROVE \E u \in Clickers : thr'[u].pc \in {"reply", "store"}
    OBVIOUS
<1>1. PICK u \in Clickers : thr[u].pc \in {"reply", "store"}
  BY DEF ClicksInv, Copied
<1>2. u # t /\ u \in Threads
  BY <1>1 DEF Threads
<1> QED BY <1>1, <1>2

(* The steps of apply, the poll and the buttons.                           *)
LEMMA OtherStays ==
    ASSUME ClicksInv, NEW t \in Threads, Apply(t) \/ GetReply(t)
    PROVE  Wished' /\ Copied'
<1>1. UNCHANGED <<apps, wish>>
  BY DEF Apply, Store, SyncApps, CheckItems, PublishSig, SyncProxy, GetReply, enginev, userv
<1>2. thr[t].pc \notin {"lock", "send"}
  BY DEF Apply, Store, SyncApps, CheckItems, PublishSig, SyncProxy, GetReply, At
<1>3. \/ \E pc \in {"menu", "proxy", "items", "sig"} : Goto(t, pc)
      \/ Got(t, "store") \/ Done(t)
  BY DEF Apply, Store, SyncApps, CheckItems, PublishSig, SyncProxy, GetReply
<1>4. {"menu", "proxy", "items", "sig"} \subseteq Steps \ {"lock", "send"}
  BY PlaceTyped
<1>5. Wished'
  BY <1>1, <1>2, <1>3, <1>4, MovesStay
<1>6. PICK r \in Tasks :
             /\ thr'[t] = r /\ \A u \in Threads \ {t} : thr'[u] = thr[u]
             /\ Got(t, "store") => r.pc = "store"
  BY <1>3, <1>4, Moves DEF ClicksInv
<1>7. CASE Store(t)
  <2>1. behind' = (IF thr[t].st.apps = apps THEN "no" ELSE "overtaken") /\ cur' = thr[t].st
    BY <1>7 DEF Store
  <2> QED BY <1>5, <1>1, <2>1 DEF Copied
<1>8. CASE GetReply(t) /\ Got(t, "store") /\ UNCHANGED behind
  <2>1. UNCHANGED cur
    BY <1>8 DEF GetReply, trayv
  <2>2. behind = "sent" => \E u \in Clickers : thr'[u].pc \in {"reply", "store"}
    <3> SUFFICES ASSUME behind = "sent" PROVE \E u \in Clickers : thr'[u].pc \in {"reply", "store"}
        OBVIOUS
    <3>1. PICK u \in Clickers : thr[u].pc \in {"reply", "store"}
      BY DEF ClicksInv, Copied
    <3>2. u \in Threads
      BY DEF Threads
    <3> QED BY <1>6, <1>8, <3>1, <3>2
  <2> QED BY <1>5, <1>1, <1>8, <2>1, <2>2 DEF ClicksInv, Copied
<1>9. CASE GetReply(t) /\ behind' = (IF t \in Clickers /\ behind = "sent" THEN "unanswered" ELSE behind)
  <2>1. UNCHANGED cur
    BY <1>9 DEF GetReply, trayv
  <2>2. CASE t \in Clickers /\ behind = "sent"
    BY <1>5, <1>9, <2>2 DEF Copied
  <2>3. CASE ~(t \in Clickers /\ behind = "sent")
    <3>1. behind' = behind
      BY <1>9, <2>3
    <3>2. behind' = "sent" => \E u \in Clickers : thr'[u].pc \in {"reply", "store"}
      BY <1>6, <2>3, <3>1, SentStays
    <3> QED BY <1>5, <1>1, <2>1, <3>1, <3>2 DEF ClicksInv, Copied
  <2> QED BY <2>2, <2>3
<1>10. CASE SyncApps(t) \/ CheckItems(t) \/ PublishSig(t) \/ SyncProxy(t)
  <2>1. UNCHANGED <<cur, behind>> /\ thr[t].pc \notin {"reply", "store"}
    BY <1>10 DEF SyncApps, CheckItems, PublishSig, SyncProxy, At, trayv, userv
  <2>2. behind' = "sent" => \E u \in Clickers : thr'[u].pc \in {"reply", "store"}
    BY <1>6, <2>1, SentStays
  <2> QED BY <1>5, <1>1, <2>1, <2>2 DEF ClicksInv, Copied
<1> QED BY <1>5, <1>7, <1>8, <1>9, <1>10 DEF Apply, GetReply

LEMMA RestStays ==
    ASSUME ClicksInv,
           PollEngine \/ SetOffline \/ ToggleTunnel \/ TurnOn \/ TurnOff \/ Elevate \/ TrayStarts
             \/ SomebodySetsPac \/ Engine \/ UNCHANGED vars
    PROVE  Wished' /\ Copied'
<1>0. {Poll, Button, Svc} \subseteq Threads \ Clickers
  BY TrayAssumption DEF Threads
<1>a. UNCHANGED <<apps, wish, behind, cur>>
  BY DEF PollEngine, SetOffline, ToggleTunnel, TurnOn, TurnOff, Elevate, TrayStarts, SomebodySetsPac,
         Engine, Uninstall, TunnelUp, TunnelDrops, EngineStops, EngineStarts, Around, vars, enginev,
         trayv, userv
<1>b. ASSUME NEW t \in Threads \ Clickers,
             (\E pc \in Steps \ {"lock", "send"} : Goto(t, pc)) \/ Got(t, "store")
      PROVE  Wished' /\ Copied'
  <2>1. Wished'
    BY <1>a, <1>b, MovesStay
  <2>2. \A u \in Threads \ {t} : thr'[u] = thr[u]
    BY <1>b, Moves DEF ClicksInv
  <2>3. behind' = "sent" => \E u \in Clickers : thr'[u].pc \in {"reply", "store"}
    BY <1>a, <2>2, SentStays
  <2> QED BY <1>a, <2>1, <2>3 DEF ClicksInv, Copied
<1>c. ASSUME \A t \in Clickers : thr'[t] = thr[t] PROVE Wished' /\ Copied'
  <2>1. Wished'
    BY <1>a, <1>c, ClicksStay
  <2> QED BY <1>a, <1>c, <2>1 DEF ClicksInv, Copied
<1>1. CASE PollEngine \/ SetOffline
  <2>1. Got(Poll, "store") \/ \E pc \in {"offline", "idle"} : Goto(Poll, pc)
    BY <1>1 DEF PollEngine, SetOffline
  <2> QED BY <1>0, <1>b, <2>1, PlaceTyped
<1>2. CASE ToggleTunnel
  <2>1. Goto(Button, "reply")
    BY <1>2 DEF ToggleTunnel
  <2> QED BY <1>0, <1>b, <2>1, PlaceTyped
<1>3. CASE TurnOff \/ Elevate
  <2>1. \E pc \in {"elevate", "quit"} : Goto(Svc, pc)
    BY <1>3 DEF TurnOff, Elevate
  <2> QED BY <1>0, <1>b, <2>1, PlaceTyped
<1>4. CASE TrayStarts
  <2>1. ~running /\ thr' = [t \in Threads |-> Idle]
    BY <1>4 DEF TrayStarts
  <2>2. \A t \in Clickers : thr[t].pc = "idle" /\ thr'[t].pc = "idle"
    BY <2>1, IdleTyped DEF ClicksInv, AtRest, Threads
  <2>3. Wished'
    BY <1>a, <2>2, ClicksStay
  <2>4. behind # "sent"
    BY <2>2 DEF ClicksInv, Copied
  <2> QED BY <1>a, <2>3, <2>4 DEF ClicksInv, Copied
<1>5. CASE TurnOn \/ SomebodySetsPac \/ Engine \/ UNCHANGED vars
  <2>1. UNCHANGED thr
    BY <1>5 DEF TurnOn, SomebodySetsPac, Engine, Uninstall, TunnelUp, TunnelDrops, EngineStops,
                EngineStarts, Around, vars
  <2> QED BY <1>c, <2>1
<1> QED BY <1>1, <1>2, <1>3, <1>4, <1>5

(* The user clicks.                                                        *)
LEMMA ClickKept ==
    ASSUME ClicksInv, NEW t \in Clickers, NEW a \in Apps, Click(t, a)
    PROVE  Wished' /\ Copied'
<1>0. t \in Threads /\ thr \in [Threads -> Tasks] /\ Clickers \subseteq Threads
  BY DEF Threads, ClicksInv, Typed, ThreadsTyped
<1>1. /\ thr[t].pc = "idle" /\ UNCHANGED <<apps, behind, cur>> /\ wish' = Toggle(wish, a)
      /\ thr'[t].pc = "lock" /\ thr'[t].app = a
      /\ \A u \in Threads \ {t} : thr'[u] = thr[u]
  <2>1. thr' = [thr EXCEPT ![t] = [thr[t] EXCEPT !.pc = "lock", !.app = a]]
    BY <1>0 DEF Click
  <2>2. thr'[t].pc = "lock" /\ thr'[t].app = a /\ \A u \in Threads \ {t} : thr'[u] = thr[u]
    BY <1>0, <2>1 DEF Tasks
  <2> QED BY <2>2 DEF Click, At, enginev, trayv
<1>2. On(a)' = On(a) \cup {t} /\ t \notin On(a)
  BY <1>0, <1>1 DEF On
<1>3. \A b \in Apps \ {a} : On(b)' = On(b)
  BY <1>0, <1>1 DEF On
<1>4. Odd(a)' <=> ~Odd(a)
  BY <1>2, OneMore
<1>5. \A b \in Apps \ {a} : Odd(b)' <=> Odd(b)
  BY <1>3 DEF Odd
<1>6. \A b \in Apps : b \in wish' <=> IF b = a THEN b \notin wish ELSE b \in wish
  BY <1>1 DEF Toggle, SymDiff
<1>7. ASSUME NEW S, Differ(S)
      PROVE  \A b \in Apps : (b \in wish') <=> ~((b \in S) <=> Odd(b)')
  <2> HIDE DEF Odd
  <2> QED BY <1>4, <1>5, <1>6, <1>7 DEF Differ
<1>8. \A u \in Clickers : thr'[u].pc = "send" <=> thr[u].pc = "send"
  BY <1>0, <1>1
<1>9. (\A u \in Clickers : thr'[u].pc # "send") => Differ(apps)'
  <2> SUFFICES ASSUME \A u \in Clickers : thr'[u].pc # "send" PROVE Differ(apps)'
      OBVIOUS
  <2>1. Differ(apps)
    BY <1>8 DEF ClicksInv, Wished
  <2>2. \A b \in Apps : (b \in wish') <=> ~((b \in apps) <=> Odd(b)')
    BY <1>7, <2>1
  <2> QED BY <1>1, <2>2 DEF Differ
<1>10. ASSUME NEW u \in Clickers, thr'[u].pc = "send" PROVE Differ(thr[u].req)'
  <2>1. Differ(thr[u].req) /\ thr'[u].req = thr[u].req
    BY <1>0, <1>1, <1>10 DEF ClicksInv, Wished
  <2>2. \A b \in Apps : (b \in wish') <=> ~((b \in thr[u].req) <=> Odd(b)')
    BY <1>7, <2>1
  <2> QED BY <2>1, <2>2 DEF Differ
<1>11. behind' = "sent" => \E u \in Clickers : thr'[u].pc \in {"reply", "store"}
  BY <1>0, <1>1, SentStays
<1> QED BY <1>1, <1>9, <1>10, <1>11 DEF Wished, ClicksInv, Copied

(* A click is computed from t.cur.                                         *)
LEMMA TakeClickKept ==
    ASSUME ClicksInv, NEW t \in Clickers, TakeClick(t)
    PROVE  Wished' /\ Copied'
<1>0. t \in Threads /\ thr \in [Threads -> Tasks] /\ Clickers \subseteq Threads
  BY DEF Threads, ClicksInv, Typed, ThreadsTyped
<1>a. PICK a : a = thr[t].app
  OBVIOUS
<1>b. PICK R : R = Toggle(cur.apps, a)
  OBVIOUS
<1>1. /\ thr[t].pc = "lock" /\ UNCHANGED <<apps, behind, cur>>
      /\ thr'[t].pc = "send" /\ thr'[t].app = a /\ thr'[t].req = R
      /\ \A u \in Threads \ {t} : thr'[u] = thr[u]
  <2>1. thr' = [thr EXCEPT ![t] = [thr[t] EXCEPT !.pc = "send", !.req = R]]
    BY <1>0, <1>a, <1>b DEF TakeClick, Compute
  <2>2. /\ thr'[t].pc = "send" /\ thr'[t].app = a /\ thr'[t].req = R
        /\ \A u \in Threads \ {t} : thr'[u] = thr[u]
    BY <1>0, <1>a, <2>1 DEF Tasks
  <2> QED BY <2>2 DEF TakeClick, At, enginev, trayv
<1>2. \A u \in Clickers : thr[u].pc \in {"idle", "lock"}
  <2>1. clickMu = Nobody /\ \A u \in Clickers : u # Nobody
    BY <1>0, TrayAssumption DEF TakeClick
  <2> QED BY <2>1 DEF ClicksInv, Typed, ThreadsTyped, ClickHeld
<1>3. Differ(apps)
  BY <1>2 DEF ClicksInv, Wished
<1>4. behind # "sent" /\ (behind = "no" => cur.apps = apps)
  BY <1>2 DEF ClicksInv, Copied
<1>5. \A b \in Apps : b \in wish' <=> ~(b \in wish <=> ~(b \in cur.apps <=> b \in apps))
  <2>1. CASE behind = "no"
    <3>1. wish' = wish
      BY <2>1 DEF TakeClick, Compute
    <3> QED BY <1>4, <2>1, <3>1
  <2>2. CASE behind # "no"
    <3>1. wish' = SymDiff(wish, SymDiff(cur.apps, apps))
      BY <1>4, <2>2 DEF TakeClick, Compute
    <3> QED BY <3>1 DEF SymDiff
  <2> QED BY <2>1, <2>2
<1>6. \A b \in Apps : b \in R <=> IF b = a THEN b \notin cur.apps ELSE b \in cur.apps
  BY <1>b DEF Toggle, SymDiff
<1>7. On(a)' = On(a) \ {t} /\ t \in On(a)
  BY <1>0, <1>1, <1>a DEF On
<1>8. \A b \in Apps \ {a} : On(b)' = On(b)
  BY <1>0, <1>1, <1>a DEF On
<1>9. Odd(a)' <=> ~Odd(a)
  BY <1>7, OneLess
<1>10. \A b \in Apps \ {a} : Odd(b)' <=> Odd(b)
  BY <1>8 DEF Odd
<1>11. \A b \in Apps : (b \in wish') <=> ~((b \in R) <=> Odd(b)')
  <2> SUFFICES ASSUME NEW b \in Apps PROVE (b \in wish') <=> ~((b \in R) <=> Odd(b)')
      OBVIOUS
  <2>1. (b \in wish) <=> ~((b \in apps) <=> Odd(b))
    BY <1>3 DEF Differ
  <2> HIDE DEF Odd
  <2>2. CASE b = a
    BY <1>5, <1>6, <1>9, <2>1, <2>2
  <2>3. CASE b # a
    BY <1>5, <1>6, <1>10, <2>1, <2>3
  <2> QED BY <2>2, <2>3
<1>12. \A u \in Clickers : thr'[u].pc = "send" => u = t
  BY <1>0, <1>1, <1>2
<1>13. Wished'
  <2>1. ASSUME NEW u \in Clickers, thr'[u].pc = "send" PROVE Differ(thr[u].req)'
    <3>1. thr'[u].req = R
      BY <1>1, <1>12, <2>1
    <3> QED BY <1>11, <3>1 DEF Differ
  <2> QED BY <1>1, <2>1 DEF Wished
<1> QED BY <1>1, <1>4, <1>13 DEF ClicksInv, Copied

(* The command routes what was computed, or the click is void.             *)
LEMMA SendKept ==
    ASSUME ClicksInv, NEW t \in Clickers, SendApps(t)
    PROVE  Wished' /\ Copied'
<1>0. t \in Threads /\ thr \in [Threads -> Tasks] /\ Clickers \subseteq Threads
  BY DEF Threads, ClicksInv, Typed, ThreadsTyped
<1>1. /\ thr[t].pc = "send" /\ UNCHANGED cur /\ thr'[t].pc \notin {"lock", "send"}
      /\ Goto(t, "reply") => thr'[t].pc = "reply"
      /\ \A u \in Threads \ {t} : thr'[u] = thr[u]
  <2>1. thr[t].pc = "send" /\ UNCHANGED cur /\ (Goto(t, "reply") \/ Done(t))
    BY DEF SendApps, At, trayv
  <2>2. "reply" \in Steps
    BY PlaceTyped
  <2>3. PICK r \in Tasks :
             /\ thr'[t] = r /\ \A u \in Threads \ {t} : thr'[u] = thr[u]
             /\ Goto(t, "reply") => r.pc = "reply"
             /\ Done(t) => r = Idle
    BY <1>0, <2>1, <2>2, Moves DEF ClicksInv
  <2> QED BY <2>1, <2>3, IdleTyped
<1>2. \A u \in Clickers \ {t} : thr[u].pc \in {"idle", "lock"}
  <2>1. clickMu = t
    BY <1>1 DEF ClicksInv, Typed, ThreadsTyped, ClickHeld
  <2> QED BY <2>1 DEF ClicksInv, Typed, ThreadsTyped, ClickHeld
<1>3. \A a : On(a)' = On(a)
  BY <1>0, <1>1 DEF On
<1>4. \A a : Odd(a)' <=> Odd(a)
  BY <1>3 DEF Odd
<1>5. Differ(thr[t].req)
  BY <1>1 DEF ClicksInv, Wished
<1>6. Differ(apps)'
  <2> HIDE DEF Odd
  <2>1. CASE UNCHANGED wish /\ apps' = thr[t].req
    BY <1>4, <1>5, <2>1 DEF Differ
  <2>2. CASE UNCHANGED apps /\ wish' = SymDiff(wish, SymDiff(thr[t].req, apps))
    <3>1. \A b \in Apps : b \in wish' <=> ~(b \in wish <=> ~(b \in thr[t].req <=> b \in apps))
      BY <2>2 DEF SymDiff
    <3> QED BY <1>4, <1>5, <2>2, <3>1 DEF Differ
  <2> QED BY <2>1, <2>2 DEF SendApps
<1>7. \A u \in Clickers : thr'[u].pc # "send"
  BY <1>0, <1>1, <1>2
<1>8. Copied'
  <2>1. CASE Goto(t, "reply") /\ behind' = "sent"
    BY <1>1, <2>1 DEF Copied
  <2>2. CASE UNCHANGED <<apps, behind>>
    <3>1. behind' = "sent" => \E u \in Clickers : thr'[u].pc \in {"reply", "store"}
      BY <1>0, <1>1, <2>2, SentStays
    <3> QED BY <1>1, <2>2, <3>1 DEF ClicksInv, Copied
  <2> QED BY <2>1, <2>2 DEF SendApps
<1> QED BY <1>6, <1>7, <1>8 DEF Wished

(* The process goes, and the clicks with it.                               *)
LEMMA GoneKept ==
    ASSUME ClicksInv, NEW last, Gone(last), UNCHANGED enginev
    PROVE  Wished' /\ Copied'
<1>1. \A t \in Clickers : thr'[t].pc = "idle"
  <2>1. \A t \in Clickers : t \in Threads /\ t # Svc
    BY TrayAssumption DEF Threads
  <2> QED BY <2>1, IdleTyped DEF Gone
<1>2. \A a : On(a)' = {}
  BY <1>1 DEF On
<1>3. \A a : ~Odd(a)'
  BY <1>2, FS_EmptySet DEF Odd
<1>4. wish' = apps' /\ behind' = "unread"
  BY DEF Gone, enginev
<1> QED BY <1>1, <1>3, <1>4 DEF Differ, Wished, Copied

LEMMA ClicksStep == ClicksInv /\ [Next]_vars => ClicksInv'
<1> SUFFICES ASSUME ClicksInv, [Next]_vars PROVE ClicksInv'
    OBVIOUS
<1>0. {Poll, Button} \cup Clickers \subseteq Threads
  BY DEF Threads
<1>1. Typed' /\ AtRest'
  BY TypedStep, RestStep DEF ClicksInv
<1>2. Wished' /\ Copied'
  <2>1. ASSUME NEW t \in Clickers, ClickStep(t) PROVE Wished' /\ Copied'
    BY <1>0, <2>1, TakeClickKept, SendKept, OtherStays DEF ClickStep
  <2>2. CASE PollStep \/ ButtonStep
    BY <1>0, <2>2, OtherStays, RestStays DEF PollStep, ButtonStep
  <2>3. CASE Quit \/ TrayKilled
    BY <2>3, GoneKept DEF Quit, TrayKilled
  <2>4. CASE User
    BY <2>4, ClickKept, RestStays DEF User
  <2> QED BY <2>1, <2>2, <2>3, <2>4, RestStays DEF Next, TrayStep
<1> QED BY <1>1, <1>2 DEF ClicksInv

(* When no click waits or is on its way the engine routes what the user    *)
(* has clicked together, for any number of applications and of clicks at   *)
(* once (toggleApp under clickMu).  A click computed from a tray.cur that  *)
(* a reply stored late has set back, or that a lost reply has left behind, *)
(* costs that wish what tray.cur lacked then and nothing more (Compute).   *)
THEOREM TogglesKeptHolds == Spec => []TogglesKept
<1>1. Init => ClicksInv
  <2> SUFFICES ASSUME Init PROVE ClicksInv
      OBVIOUS
  <2>1. Typed /\ AtRest
    BY TypedInit DEF Init, AtRest
  <2>2. \A t \in Clickers : thr[t].pc = "idle"
    BY IdleTyped DEF Init, Threads
  <2>3. \A a : On(a) = {}
    BY <2>2 DEF On
  <2>4. \A a : ~Odd(a)
    BY <2>3, FS_EmptySet DEF Odd
  <2>5. wish = apps /\ behind = "unread"
    BY DEF Init
  <2> QED BY <2>1, <2>2, <2>4, <2>5 DEF ClicksInv, Differ, Wished, Copied
<1>2. ClicksInv => TogglesKept
  <2> SUFFICES ASSUME ClicksInv, \A t \in Clickers : thr[t].pc \notin {"lock", "send"}
               PROVE  apps = wish
      BY DEF TogglesKept
  <2>1. \A a : On(a) = {}
    BY DEF On
  <2>2. \A a : ~Odd(a)
    BY <2>1, FS_EmptySet DEF Odd
  <2>3. apps \subseteq Apps /\ wish \subseteq Apps
    BY DEF ClicksInv, Typed, EngineTyped, UserTyped
  <2>4. Differ(apps)
    BY DEF ClicksInv, Wished
  <2> QED BY <2>2, <2>3, <2>4 DEF Differ
<1> QED BY <1>1, <1>2, ClicksStep, PTL DEF Spec

=============================================================================
