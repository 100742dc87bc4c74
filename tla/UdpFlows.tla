------------------------------ MODULE UdpFlows ------------------------------
(***************************************************************************)
(* The UDP flows of apptunnel.Engine                                       *)
(* (internal/apptunnel/apptunnel_windows.go): handleUDP on the capture     *)
(* loops, a reader per flow, the sweeper, and the operations that change   *)
(* the selection or end the run, all over the maps that udpMu guards.      *)
(*                                                                         *)
(* One key of the maps is modelled: the datagrams from one local port to   *)
(* one peer.  The port stays in the capture filter, which retains it for   *)
(* udpPortTTL; the IPv4 and IPv6 tables are one table.  There are two      *)
(* loops while one capture handle replaces another.  A step is a critical  *)
(* section of udpMu or a blocking call; the socket of a flow that a step   *)
(* takes out of the map is closed with it, where the code closes it right  *)
(* after the unlock.                                                       *)
(***************************************************************************)
EXTENDS Naturals

CONSTANTS Pids,             \* processes that may own the port
          Protected,        \* those whose name cannot be read
          Apps,             \* those the user may select
          Loops,            \* goroutines running divertPackets
          None,
          StartsSucceed,    \* assume that start never fails half-way
          MaxFlows,         \* bound: tunnel sockets dialled
          MaxSockets,       \* bound: sockets bound to the port
          MaxOps,           \* bound: SetApps and Suspend
          MaxMishaps        \* bound: panics, tunnels closed, sockets wedged

ASSUME UdpAssumption ==
    /\ Apps \subseteq Pids \ Protected
    /\ None \notin Pids \cup 1..MaxFlows \cup [pid : Pids, old : BOOLEAN, late : BOOLEAN]
    /\ StartsSucceed \in BOOLEAN
    /\ {MaxFlows, MaxSockets, MaxOps, MaxMishaps} \subseteq Nat

Ids == 1..MaxFlows

VARIABLES
    apps, running, op,       \* the selection, the run, the operation holding opMu
    stopped, flow, direct,   \* udpStopped, udpFlows and udpDirect at the key
    fl,                      \* the flows dialled so far
    loop,                    \* the datagram each loop is working on
    owner, sockets,          \* the port's real owner; which socket it is
    table, sock, live,       \* udpPortPID, sockPorts and liveUDP at the port
    fresh,                   \* a snapshot was taken since the last sweep
    carried, strayed,        \* the socket's datagrams were tunnelled; one then was not
    ops, mishaps

flowVars == <<stopped, flow, direct, fl>>
opVars == <<apps, running, op, ops>>
viewVars == <<table, sock, live, fresh>>
sockVars == <<owner, sockets>>
ghosts == <<carried, strayed>>
vars == <<opVars, flowVars, loop, sockVars, viewVars, ghosts, mishaps>>

Opt(S) == S \cup {None}
NoFlow == [conn |-> "none", pid |-> None, of |-> "former", reading |-> FALSE,
           miss |-> 0, ownerMiss |-> 0]
Resting == [pc |-> "idle", pid |-> None, id |-> None, of |-> "former"]

(* What udpDirect holds at a key; a ghost tells a decision that was late:  *)
(* its process has been selected between the decision and its storing.     *)
Decisions == [pid : Pids, old : BOOLEAN, late : BOOLEAN]

(* Where a datagram, or the one a flow was built for, came from: the       *)
(* socket now bound, the same once its datagrams are carried, or an        *)
(* earlier one.                                                            *)
Sources == {"current", "tunnelled", "former"}
Flows == [conn : {"none", "open", "broken", "closed"}, pid : Opt(Pids), of : Sources,
          reading : BOOLEAN, miss : 0..1, ownerMiss : 0..1]
Tasks == [pc : {"idle", "retire", "lookup", "decide", "direct", "dial", "write", "evict"},
          pid : Opt(Pids), id : Opt(Ids), of : Sources]

OpIdle == [pc |-> "idle", drop |-> None]

(* Types; the map holds no flow whose socket was closed by this code, and  *)
(* every flow in it has a reader that takes it out when its socket fails.  *)
TypeOK ==
    /\ apps \subseteq Apps /\ running \in BOOLEAN /\ stopped \in BOOLEAN
    /\ op \in [pc : {"idle", "start", "open", "stop", "pause", "drain", "pauseDrain",
                     "clear", "drop"}, drop : Opt(Pids)]
    /\ flow \in Opt(Ids)
    /\ direct \in Opt(Decisions)
    /\ fl \in [Ids -> Flows] /\ loop \in [Loops -> Tasks]
    /\ owner \in Opt(Pids) /\ table \in Opt(Pids) /\ sock \in Opt(Pids)
    /\ live \in BOOLEAN /\ fresh \in BOOLEAN
    /\ carried \in BOOLEAN /\ strayed \in BOOLEAN
    /\ flow # None => fl[flow].conn \in {"open", "broken"} /\ fl[flow].reading

Init ==
    /\ apps = {} /\ running = FALSE /\ op = OpIdle /\ ops = 0
    /\ stopped = FALSE /\ flow = None /\ direct = None
    /\ fl = [i \in Ids |-> NoFlow]
    /\ loop = [l \in Loops |-> Resting]
    /\ owner = None /\ sockets = 0
    /\ table = None /\ sock = None /\ live = FALSE /\ fresh = FALSE
    /\ carried = FALSE /\ strayed = FALSE /\ mishaps = 0

Mishap == mishaps < MaxMishaps /\ mishaps' = mishaps + 1

-----------------------------------------------------------------------------
(* The machine, and what the engine sees of it.  The event of a bind or a  *)
(* close may be missed: the stream can be down.                            *)
Bind(pid) ==
    /\ owner = None /\ sockets < MaxSockets
    /\ owner' = pid /\ sockets' = sockets + 1
    /\ sock' \in IF running THEN {pid, sock} ELSE {sock}
    /\ UNCHANGED <<opVars, flowVars, loop, table, live, fresh, ghosts, mishaps>>

Unbind ==
    /\ owner # None /\ owner' = None
    /\ sock' \in IF running /\ sock = owner THEN {None, sock} ELSE {sock}
    /\ carried' = FALSE
    /\ fl' = [i \in Ids |-> [fl[i] EXCEPT !.of = "former"]]
    /\ loop' = [l \in Loops |-> [loop[l] EXCEPT !.of = "former"]]
    /\ UNCHANGED <<opVars, stopped, flow, direct, sockets, table, live, fresh, strayed, mishaps>>

Refresh ==
    /\ running
    /\ table' = owner /\ fresh' = TRUE
    /\ UNCHANGED <<opVars, flowVars, loop, sockVars, sock, live, ghosts, mishaps>>

(* pruneSockPorts: sockGrace gives the tables the time to list a new bind. *)
Prune ==
    /\ running /\ sock \notin {None, table, owner}
    /\ sock' = None
    /\ UNCHANGED <<opVars, flowVars, loop, sockVars, table, live, fresh, ghosts, mishaps>>

(* routedUDPPorts publishes the ports that are a routed application's now. *)
PublishLive ==
    /\ running
    /\ live' = (apps \cap {table, sock} # {})
    /\ UNCHANGED <<opVars, flowVars, loop, sockVars, table, sock, fresh, ghosts, mishaps>>

-----------------------------------------------------------------------------
(* handleUDP.  A datagram is carried into the tunnel, dropped, or passed.  *)
UdpPID == IF table # None THEN table ELSE sock

At(l, pc) == loop' = [loop EXCEPT ![l].pc = pc]
Rest(l) == loop' = [loop EXCEPT ![l] = Resting]
Taken == [Resting EXCEPT !.of = IF carried THEN "tunnelled" ELSE "current"]

Pass(l) ==
    /\ Rest(l)
    /\ strayed' = (strayed \/ loop[l].of = "tunnelled")
    /\ UNCHANGED carried
Drop(l) == Rest(l) /\ UNCHANGED ghosts

(* f is the flow a datagram goes on, or the dial that has just built one.  *)
(* The socket counts as carried when the datagram and the flow are its own *)
(* and its owner is selected and settled: not under the name of another    *)
(* application, which a missed bind event leaves on the port, and not      *)
(* while an operation of the selection is between two of its steps.        *)
Carry(l, f) ==
    /\ Rest(l)
    /\ carried' = (carried \/ (/\ running /\ ~stopped /\ op.pc \in {"idle", "drop"}
                              /\ owner \in apps /\ f.pid = owner
                              /\ "former" \notin {loop[l].of, f.of}))
    /\ UNCHANGED strayed

(* retireStale looks for another owner's decision on a routed              *)
(* application's port ...                                                  *)
Arrive(l) ==
    /\ loop[l].pc = "idle" /\ running /\ owner # None
    /\ loop' = [loop EXCEPT ![l] = [Taken EXCEPT !.pc =
         IF direct # None /\ UdpPID \in apps /\ direct.pid # UdpPID THEN "retire" ELSE "lookup"]]
    /\ UNCHANGED <<opVars, flowVars, sockVars, viewVars, ghosts, mishaps>>

(* MUTANT: the decision found at the start is the one that is obeyed.      *)
RetireStaleNot(l) ==
    /\ loop[l].pc = "retire"
    /\ At(l, "lookup")
    /\ UNCHANGED <<opVars, flowVars, sockVars, viewVars, ghosts, mishaps>>

(* ... and drops it, if it still is the one it found (StoreDirect).        *)
RetireStale(l) ==
    /\ loop[l].pc = "retire"
    /\ direct' = None
    /\ At(l, "lookup")
    /\ UNCHANGED <<opVars, stopped, flow, fl, sockVars, viewVars, ghosts, mishaps>>

(* The key in the two maps.                                                *)
LookUp(l) ==
    /\ loop[l].pc = "lookup"
    /\ \/ /\ flow # None
          /\ loop' = [loop EXCEPT ![l].pc = "write", ![l].id = flow]
          /\ UNCHANGED ghosts
       \/ flow = None /\ direct # None /\ direct.late /\ Rest(l) /\ UNCHANGED ghosts
       \/ flow = None /\ direct # None /\ ~direct.late /\ Pass(l)
       \/ flow = None /\ direct = None /\ At(l, "decide") /\ UNCHANGED ghosts
    /\ UNCHANGED <<opVars, flowVars, sockVars, viewVars, mishaps>>

(* No owner, or none with a name: a retained port is passed, a live one is *)
(* a lookup that lags.                                                     *)
Unresolved(l) == IF live THEN Drop(l) ELSE Pass(l)

(* An unselected owner is to be remembered as direct; for a selected one a *)
(* flow is dialled unless the tunnel is not ready.                         *)
Named(l, pid) ==
    \/ pid \notin apps /\ loop' = [loop EXCEPT ![l].pc = "direct", ![l].pid = pid] /\ UNCHANGED ghosts
    \/ pid \in apps /\ loop' = [loop EXCEPT ![l].pc = "dial", ![l].pid = pid] /\ UNCHANGED ghosts
    \/ pid \in apps /\ Drop(l)

Decide(l) ==
    /\ loop[l].pc = "decide"
    /\ \/ UdpPID = None /\ Unresolved(l) /\ UNCHANGED table
       \/ UdpPID \in Pids \ Protected /\ Named(l, UdpPID) /\ UNCHANGED table
       \/ UdpPID \in Protected /\ Unresolved(l) /\ UNCHANGED table
       \/ /\ UdpPID \in Protected /\ table' = owner
          /\ IF owner \in Pids \ Protected THEN Named(l, owner) ELSE Unresolved(l)
    /\ UNCHANGED <<opVars, flowVars, sockVars, sock, live, fresh, mishaps>>

(* The decision gets ahead of a datagram that another loop has between its *)
(* looks at the maps: it is not the one that loop found to drop, and is    *)
(* obeyed.  Such a datagram is not held to what its socket sent before.    *)
Overtaken(t) ==
    IF t.pc \in {"retire", "lookup"}
      THEN [t EXCEPT !.pc = "lookup", !.of = IF @ = "tunnelled" THEN "current" ELSE @]
      ELSE t

StoreDirect(l) ==
    /\ loop[l].pc = "direct"
    /\ direct' = [pid |-> loop[l].pid, old |-> FALSE, late |-> loop[l].pid \in apps]
    /\ loop' = [k \in Loops |-> IF k = l THEN Resting ELSE Overtaken(loop[k])]
    /\ strayed' = (strayed \/ loop[l].of = "tunnelled")
    /\ UNCHANGED <<opVars, stopped, flow, fl, sockVars, viewVars, carried, mishaps>>

DialFails(l) ==
    /\ loop[l].pc = "dial" /\ Drop(l)
    /\ UNCHANGED <<opVars, flowVars, sockVars, viewVars, mishaps>>

(* The flow dialled for the datagram takes the next identity.              *)
Closed(i) == [fl EXCEPT ![i] = [NoFlow EXCEPT !.conn = "closed", !.reading = fl[i].reading]]
Dialled(l) ==
    [NoFlow EXCEPT !.conn = "open", !.pid = loop[l].pid, !.reading = TRUE,
                   !.of = IF loop[l].of = "former" THEN "former" ELSE "current"]
Wasted == [NoFlow EXCEPT !.conn = "closed"]
Next1(i) == \A j \in Ids : fl[j].conn = "none" <=> j >= i

(* MUTANT: a lost creation race replaces the flow that won.                *)
InstallOver(l) ==
    /\ loop[l].pc = "dial"
    /\ \E i \in Ids :
         /\ Next1(i)
         /\ \/ /\ stopped /\ Pass(l)
               /\ fl' = [fl EXCEPT ![i] = Wasted] /\ UNCHANGED flow
            \/ /\ ~stopped
               /\ Rest(l) /\ UNCHANGED ghosts
               /\ fl' = [fl EXCEPT ![i] = Dialled(l)] /\ flow' = i
    /\ UNCHANGED <<opVars, stopped, direct, sockVars, viewVars, mishaps>>

(* The dial succeeded.  Interception may have stopped meanwhile, another   *)
(* loop may have built the flow, and a full map evicts a flow, perhaps     *)
(* this very one.                                                          *)
Install(l) ==
    /\ loop[l].pc = "dial"
    /\ \E i \in Ids :
         /\ Next1(i)
         /\ \/ /\ stopped /\ Pass(l)
               /\ fl' = [fl EXCEPT ![i] = Wasted] /\ UNCHANGED flow
            \/ /\ ~stopped /\ flow # None /\ Carry(l, fl[flow])
               /\ fl' = [fl EXCEPT ![i] = Wasted] /\ UNCHANGED flow
            \/ /\ ~stopped /\ flow = None /\ Carry(l, loop[l])
               /\ fl' = [fl EXCEPT ![i] = Dialled(l)] /\ flow' = i
            \/ /\ ~stopped /\ flow = None /\ Drop(l)
               /\ fl' = [fl EXCEPT ![i] = [Wasted EXCEPT !.reading = TRUE]] /\ UNCHANGED flow
    /\ UNCHANGED <<opVars, stopped, direct, sockVars, viewVars, mishaps>>

AllClosed == IF flow = None THEN fl ELSE Closed(flow)

(* A datagram on a standing flow: written, or dropped for a full buffer; a *)
(* wedged or failed socket is evicted.                                     *)
Write(l) ==
    /\ loop[l].pc = "write"
    /\ \/ fl[loop[l].id].conn = "open" /\ Carry(l, fl[loop[l].id]) /\ UNCHANGED mishaps
       \/ fl[loop[l].id].conn = "open" /\ Mishap /\ At(l, "evict") /\ UNCHANGED ghosts
       \/ fl[loop[l].id].conn # "open" /\ At(l, "evict") /\ UNCHANGED <<ghosts, mishaps>>
    /\ UNCHANGED <<opVars, flowVars, sockVars, viewVars>>

Evict(l) ==
    /\ loop[l].pc = "evict"
    /\ flow' = IF flow = loop[l].id THEN None ELSE flow
    /\ fl' = Closed(loop[l].id)
    /\ Drop(l)
    /\ UNCHANGED <<opVars, stopped, direct, sockVars, viewVars, mishaps>>

(* MUTANT: the flow that makes room is closed but left in the map.         *)
CapEvictsKept ==
    /\ running /\ flow # None /\ Mishap
    /\ UNCHANGED flow /\ fl' = Closed(flow)
    /\ UNCHANGED <<opVars, stopped, direct, loop, sockVars, viewVars, ghosts>>

(* Another key's flow makes room in a full map.                            *)
CapEvicts ==
    /\ running /\ flow # None /\ Mishap
    /\ flow' = None /\ fl' = Closed(flow)
    /\ UNCHANGED <<opVars, stopped, direct, loop, sockVars, viewVars, ghosts>>

(* udpReader: the read fails, the flow is taken out and closed.            *)
ReaderEnds(i) ==
    /\ fl[i].reading /\ fl[i].conn \in {"broken", "closed"}
    /\ flow' = IF flow = i THEN None ELSE flow
    /\ fl' = [fl EXCEPT ![i] = Wasted]
    /\ UNCHANGED <<opVars, stopped, direct, loop, sockVars, viewVars, ghosts, mishaps>>

(* The tunnel under the sockets is closed.                                 *)
TunnelCloses ==
    /\ Mishap
    /\ fl' = [i \in Ids |-> IF fl[i].conn = "open" THEN [fl[i] EXCEPT !.conn = "broken"] ELSE fl[i]]
    /\ UNCHANGED <<opVars, stopped, flow, direct, loop, sockVars, viewVars, ghosts>>

-----------------------------------------------------------------------------
(* sweepFlows: strikes for a port nobody owns or another process owns, two *)
(* of which retire the flow, as does idleness; decisions expire.           *)
StrikesOf(f) ==
    [miss |-> IF table = None THEN f.miss + 1 ELSE 0,
     ownerMiss |-> IF table \notin {None, f.pid} THEN f.ownerMiss + 1 ELSE 0]

(* MUTANT: one strike is enough.                                           *)
GoneAtOnce(s) == s.miss >= 1 \/ s.ownerMiss >= 1

Gone(s) == s.miss >= 2 \/ s.ownerMiss >= 2

Sweep(idle) ==
    /\ running /\ fresh /\ fresh' = FALSE
    /\ direct' \in IF direct = None \/ direct.old THEN {None}
                   ELSE {None, [direct EXCEPT !.old = TRUE]}
    /\ IF flow = None THEN UNCHANGED <<flow, fl>>
       ELSE LET s == StrikesOf(fl[flow]) IN
            IF idle \/ Gone(s)
              THEN flow' = None /\ fl' = Closed(flow)
              ELSE /\ fl' = [fl EXCEPT ![flow].miss = s.miss, ![flow].ownerMiss = s.ownerMiss]
                   /\ UNCHANGED flow
    /\ UNCHANGED <<opVars, stopped, loop, sockVars, table, sock, live, ghosts, mishaps>>

(* The datagrams taken are not those of a carried socket any more.         *)
Uncarried ==
    loop' = [l \in Loops |-> IF loop[l].of = "tunnelled" THEN [loop[l] EXCEPT !.of = "current"]
                             ELSE loop[l]]

(* udpSupervisor gives the capture up after a panic of its loop.  That it  *)
(* can do so to the run after its own is the subject of Engine.            *)
GiveUpCapture ==
    /\ running /\ ~stopped /\ op.pc = "idle" /\ Mishap
    /\ stopped' = TRUE /\ flow' = None /\ fl' = AllClosed
    /\ carried' = FALSE /\ Uncarried
    /\ UNCHANGED <<opVars, direct, sockVars, viewVars, strayed>>

-----------------------------------------------------------------------------
(* SetApps and Suspend, which opMu serialises.                             *)
OpTo(pc) == op' = [op EXCEPT !.pc = pc]

SetApps(names) ==
    /\ op.pc = "idle" /\ ops < MaxOps /\ ops' = ops + 1
    /\ apps' = names /\ carried' = (carried /\ owner \in names)
    /\ IF owner \in names THEN UNCHANGED loop ELSE Uncarried
    /\ OpTo(IF names # {} /\ ~running THEN "start"
            ELSE IF names = {} /\ running THEN "stop" ELSE "clear")
    /\ UNCHANGED <<running, flowVars, sockVars, viewVars, strayed, mishaps>>

Suspend ==
    /\ op.pc = "idle" /\ running /\ ops < MaxOps /\ ops' = ops + 1
    /\ apps' = {} /\ carried' = FALSE /\ Uncarried
    /\ OpTo("pause")
    /\ UNCHANGED <<running, flowVars, sockVars, viewVars, strayed, mishaps>>

StopRunning ==
    /\ op.pc \in {"stop", "pause"}
    /\ running' = FALSE
    /\ OpTo(IF op.pc = "stop" THEN "drain" ELSE "pauseDrain")
    /\ UNCHANGED <<apps, ops, flowVars, loop, sockVars, viewVars, ghosts, mishaps>>

StopDrain ==
    /\ op.pc \in {"drain", "pauseDrain"}
    /\ stopped' = TRUE /\ flow' = None
    /\ fl' = AllClosed
    /\ OpTo(IF op.pc = "drain" THEN "clear" ELSE "idle")
    /\ UNCHANGED <<apps, running, ops, direct, loop, sockVars, viewVars, ghosts, mishaps>>

StartClear ==
    /\ op.pc = "start"
    /\ flow' = None /\ direct' = None /\ stopped' = FALSE
    /\ table' = owner
    /\ OpTo("open")
    /\ UNCHANGED <<apps, running, ops, fl, loop, sockVars, sock, live, fresh, ghosts, mishaps>>

StartOpen ==
    /\ op.pc = "open"
    /\ running' \in IF StartsSucceed THEN {TRUE} ELSE BOOLEAN
    /\ sock' = (IF running' THEN None ELSE sock) /\ live' = (live /\ ~running')
    /\ OpTo("clear")
    /\ UNCHANGED <<apps, ops, flowVars, loop, sockVars, table, fresh, ghosts, mishaps>>

(* Decisions are forgotten, and the flows of applications that are not     *)
(* selected any more picked out.                                           *)
ClearDirect ==
    /\ op.pc = "clear"
    /\ direct' = None
    /\ op' = [pc |-> "drop",
              drop |-> IF flow # None /\ fl[flow].pid \notin apps THEN fl[flow].pid ELSE None]
    /\ UNCHANGED <<apps, running, ops, stopped, flow, fl, loop, sockVars, viewVars, ghosts, mishaps>>

DropDeselected ==
    /\ op.pc = "drop" /\ op' = OpIdle
    /\ IF flow # None /\ fl[flow].pid = op.drop
         THEN flow' = None /\ fl' = Closed(flow)
         ELSE UNCHANGED <<flow, fl>>
    /\ UNCHANGED <<apps, running, ops, stopped, direct, loop, sockVars, viewVars, ghosts, mishaps>>

-----------------------------------------------------------------------------
LoopStep(l) ==
    \/ RetireStale(l) \/ LookUp(l) \/ Decide(l) \/ StoreDirect(l)
    \/ DialFails(l) \/ Install(l) \/ Write(l) \/ Evict(l)

OpStep ==
    StopRunning \/ StopDrain \/ StartClear \/ StartOpen \/ ClearDirect \/ DropDeselected

Next ==
    \/ \E pid \in Pids : Bind(pid)
    \/ Unbind \/ Refresh \/ Prune \/ PublishLive
    \/ \E l \in Loops : Arrive(l) \/ LoopStep(l)
    \/ \E i \in Ids : ReaderEnds(i)
    \/ CapEvicts \/ TunnelCloses \/ GiveUpCapture
    \/ \E idle \in BOOLEAN : Sweep(idle)
    \/ \E names \in SUBSET Apps : SetApps(names)
    \/ Suspend \/ OpStep

Spec == Init /\ [][Next]_vars

(* A dial times out, goroutines run and the tickers tick.                  *)
Fairness ==
    /\ \A l \in Loops : WF_vars(LoopStep(l))
    /\ \A i \in Ids : WF_vars(ReaderEnds(i))
    /\ WF_vars(Refresh) /\ WF_vars(Sweep(FALSE)) /\ WF_vars(OpStep)

FairSpec == Spec /\ Fairness

-----------------------------------------------------------------------------
(* No tunnel socket is lost: one that is open is in the map, where the     *)
(* sweep, an eviction or a stop will find it, and when interception has    *)
(* stopped the map is empty and stays so, also for a dial begun before.    *)
(* Eviction, expiry, the lost creation race and a stop all race here.      *)
NoLeakedSocket ==
    /\ \A i \in Ids : fl[i].conn = "open" => flow = i
    /\ ~running /\ op.pc = "idle" => flow = None

(* Once a datagram of a routed application went through the tunnel on a    *)
(* flow of its own socket and under its own name (Carry), none that this   *)
(* socket sends afterwards leaves in the clear, whatever happens to the    *)
(* flow and to the rest of the selection, while the application stays      *)
(* selected and the capture lasts.  What handleUDP passes for a decision   *)
(* made before and stored after is not held against it: a decision that    *)
(* overtakes the datagram (Overtaken), and one of the application itself   *)
(* that was made before it was selected (late).                            *)
OnceTunnelled == ~strayed

(* A sweep retires no flow whose socket is still the one it was built for, *)
(* unless it is idle: the tables may lag behind a flow built on an event.  *)
KeepsLiveFlow ==
    [][Sweep(FALSE) /\ flow # None /\ owner # None /\ fl[flow].of # "former"
         /\ fl[flow].pid = owner => flow' = flow]_vars

=============================================================================
