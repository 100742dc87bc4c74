----------------------------- MODULE TcpTrack -----------------------------
(***************************************************************************)
(* How apptunnel.Engine decides TCP connections by their local port:       *)
(* handleTCP on the capture loop, the snapshots of the port tables, the    *)
(* sweep of old decisions, and the relays behind the redirect listener     *)
(* (internal/apptunnel/apptunnel_windows.go).                              *)
(*                                                                         *)
(* A port carries one socket at a time.  The IPv4 and IPv6 tables are one  *)
(* table here, which never is wholly empty.  The selection is constant:    *)
(* Selection is about its changes.  One packet is one step: handleTCP runs *)
(* on one goroutine, and a sweep between its two sections of trackMu can   *)
(* only delay by one packet what it does after them.                       *)
(***************************************************************************)
EXTENDS Naturals

CONSTANTS Ports,   \* local ports
          Pids,    \* processes
          Routed,  \* those whose name is in the selection
          IPs, RemotePorts,
          Dests,    \* the addresses connected to
          None,
          MaxConns \* bound: sockets opened

ASSUME TcpAssumption ==
    /\ Ports # {} /\ Dests # {} /\ Dests \subseteq IPs \X RemotePorts
    /\ Routed \subseteq Pids
    /\ None \notin Pids /\ None \notin [pid : Pids, dst : Dests]
    /\ MaxConns \in Nat

VARIABLES
    sock,       \* the socket on each port, with the path its packets took
    conns,      \* sockets opened so far; the last one's id
    table,      \* portPID: the sampled owner of each port
    walk,       \* refreshPorts: the table it walked and is about to store
    portMiss,   \* tcpMiss: the port was looked up within missInterval
    walked,     \* lastTCPWalk: a table was walked within tcpWalkInterval
    tracked, seen, trackMiss,
    retired,    \* sweepTracked: mappings dropped, relays not yet closed
    relay       \* handleRedirect, one per accepted connection

trackVars == <<tracked, seen, trackMiss>>
throttle == <<portMiss, walked>>
vars == <<sock, conns, table, walk, throttle, trackVars, retired, relay>>

Ids == 1..MaxConns
Mappings == [pid : Pids, dst : Dests]
Paths == {"none", "tunnel", "direct",
          "unknown",  \* passed through because the owner was not looked up
          "unnamed"}  \* passed through because the owner's name is unreadable
(* A ghost: how the lag of the tables (the snapshots are 500ms apart, the  *)
(* sweeps 5s) met a connection.                                            *)
Lags == {"misnamed",  \* a SYN of it was looked at with a table that named another process
         "inherited", \* a SYN of it met another process's decision, on a port not listed
         "unlisted",  \* two sweeps in a row found it unlisted and forgot its decision
         "leftover"}  \* so did one, after a strike that an earlier socket had left
Strikes == {"none", "unlisted", "leftover"}
Sockets == [id : Ids, pid : Pids, dst : Dests, kind : {"client", "listener"},
            phase : {"bound", "syn", "open"}, path : Paths,
            struck : Strikes,      \* ghost: where the strike against its port is from
            lag : SUBSET Lags,
            strayed : BOOLEAN]     \* ghost: took the other way, with no lag to blame
ASSUME NoneAssumption == None \notin Sockets

Relays == [port : Ports, dst : Dests, to : Dests \cup {None}, cut : BOOLEAN,
           st : {"none", "accepted", "dialing", "open", "closed"}]

(* Types; every tracked port is also in seen, as sweepTracked relies on,   *)
(* and a strike is only ever held against a decision.                      *)
TypeOK ==
    /\ sock \in [Ports -> {None} \cup Sockets] /\ conns \in 0..MaxConns
    /\ table \in [Ports -> {None} \cup Pids]
    /\ walk \in {None} \cup [Ports -> {None} \cup Pids]
    /\ portMiss \in [Ports -> BOOLEAN] /\ walked \in BOOLEAN
    /\ tracked \in [Ports -> {None} \cup Mappings]
    /\ seen \in [Ports -> {None} \cup Pids]
    /\ trackMiss \in [Ports -> 0..1]
    /\ retired \subseteq Ports \X IPs
    /\ relay \in [Ids -> Relays]
    /\ \A q \in Ports : seen[q] = None => tracked[q] = None /\ trackMiss[q] = 0

NoRelay == [port |-> CHOOSE q \in Ports : TRUE, dst |-> CHOOSE d \in Dests : TRUE,
            to |-> None, cut |-> FALSE, st |-> "none"]

Init ==
    /\ sock = [q \in Ports |-> None] /\ conns = 0
    /\ table = [q \in Ports |-> None] /\ walk = None
    /\ portMiss = [q \in Ports |-> FALSE] /\ walked = FALSE
    /\ tracked = [q \in Ports |-> None] /\ seen = [q \in Ports |-> None]
    /\ trackMiss = [q \in Ports |-> 0]
    /\ retired = {} /\ relay = [i \in Ids |-> NoRelay]

Owner(q) == IF sock[q] = None THEN None ELSE sock[q].pid
Owners == [q \in Ports |-> Owner(q)]

-----------------------------------------------------------------------------
(* The machine: a process opens a socket on a free port, closes it.        *)
Open(q, pid, dst, kind) ==
    /\ sock[q] = None /\ conns < MaxConns
    /\ conns' = conns + 1
    /\ sock' = [sock EXCEPT ![q] = [id |-> conns', pid |-> pid, dst |-> dst, kind |-> kind,
                                    phase |-> "bound", path |-> "none",
                                    struck |-> "none", lag |-> {}, strayed |-> FALSE]]
    /\ UNCHANGED <<table, walk, throttle, trackVars, retired, relay>>

Close(q) ==
    /\ sock[q] # None
    /\ sock' = [sock EXCEPT ![q] = None]
    /\ UNCHANGED <<conns, table, walk, throttle, trackVars, retired, relay>>

(* The peer answered: directly, or through the listener, whose reply       *)
(* handleTCP rewrites only for the peer the mapping names (Case B).        *)
Establish(q) ==
    /\ sock[q] # None /\ sock[q].kind = "client" /\ sock[q].phase = "syn"
    /\ sock[q].path = "tunnel" =>
         /\ tracked[q] # None /\ tracked[q].dst[1] = sock[q].dst[1]
         /\ relay[sock[q].id].st # "none"
    /\ sock' = [sock EXCEPT ![q].phase = "open"]
    /\ UNCHANGED <<conns, table, walk, throttle, trackVars, retired, relay>>

(* refreshPorts, every 500ms: between the walk and the store handleTCP may *)
(* have stored a newer one.                                                *)
RefreshWalk ==
    /\ walk = None /\ walk' = Owners
    /\ UNCHANGED <<sock, conns, table, throttle, trackVars, retired, relay>>

RefreshStore ==
    /\ walk # None /\ walk' = None
    /\ table' = walk
    /\ UNCHANGED <<sock, conns, throttle, trackVars, retired, relay>>

(* The throttles expire.                                                   *)
ThrottlesExpire ==
    /\ walked' = FALSE /\ portMiss' = [q \in Ports |-> FALSE]
    /\ UNCHANGED <<sock, conns, table, walk, trackVars, retired, relay>>

(* A connection on some other port makes handleTCP walk the table.         *)
OtherWalk ==
    /\ ~walked /\ walked' = TRUE
    /\ table' = Owners
    /\ UNCHANGED <<sock, conns, walk, portMiss, trackVars, retired, relay>>

-----------------------------------------------------------------------------
(* handleTCP.  A fresh SYN whose destination or owner differs from the     *)
(* decision held for its port makes that decision stale; a SYN-ACK from    *)
(* another owner says that a listener has the port now.                    *)
(* MUTANT: a mapping is kept for as long as the owner is the same.         *)
StaleByOwner(q, flags) ==
    LET m == tracked[q] IN
    /\ table[q] # None
    /\ \/ flags \in {"syn", "synack"} /\ m # None /\ table[q] # m.pid
       \/ flags = "syn" /\ m = None /\ seen[q] # None /\ table[q] # seen[q]

(* MUTANT: a decision is only looked at again when the mapping differs.    *)
StaleTargetOnly(q, flags) ==
    LET m == tracked[q] IN
    \/ flags = "syn" /\ m # None /\ m.dst # sock[q].dst
    \/ flags \in {"syn", "synack"} /\ m # None /\ table[q] \notin {None, m.pid}

Stale(q, flags) ==
    LET m == tracked[q] IN
    \/ flags = "syn" /\ m # None /\ m.dst # sock[q].dst
    \/ flags \in {"syn", "synack"} /\ m # None /\ table[q] \notin {None, m.pid}
    \/ flags = "syn" /\ m = None /\ seen[q] # None /\ table[q] \notin {None, seen[q]}

(* The packet leaves through the tunnel or past it; once a client's path   *)
(* is decided, one that takes the other way has strayed, unless the tables *)
(* lagged (lag) under this packet or an earlier one.                       *)
Sent(q, flags, path, struck, lag) ==
    LET decided == sock[q].path \in {"tunnel", "direct"}
        all == sock[q].lag \cup lag IN
    sock' = [sock EXCEPT
        ![q].phase = IF flags = "syn" THEN "syn" ELSE @,
        ![q].struck = struck, ![q].lag = all,
        ![q].strayed = @ \/ (decided /\ path # sock[q].path /\ all = {}),
        ![q].path = IF decided THEN @ ELSE path]

(* How the table, and the decision that stands if one does, belie a SYN.   *)
Belied(q, standing) ==
    IF table[q] = None
      THEN IF standing /\ seen[q] # sock[q].pid THEN {"inherited"} ELSE {}
      ELSE IF table[q] # sock[q].pid THEN {"misnamed"} ELSE {}

(* A standing decision: Case A rewrites the packet to the listener.  A     *)
(* strike that is there before the connection's first packet stays.        *)
Standing(q, flags) ==
    /\ ~Stale(q, flags) /\ seen[q] # None
    /\ Sent(q, flags, IF tracked[q] # None THEN "tunnel" ELSE "direct",
            IF flags = "syn" /\ sock[q].phase = "bound" /\ trackMiss[q] = 1 THEN "leftover" ELSE sock[q].struck,
            IF flags = "syn" THEN Belied(q, TRUE) ELSE {})
    /\ UNCHANGED <<conns, table, walk, throttle, trackVars, retired, relay>>

(* No decision, and none is made but on a fresh SYN: the packet passes,    *)
(* also that of a connection whose mapping is gone.                        *)
NotDecided(q, flags) ==
    /\ flags # "syn" /\ (Stale(q, flags) \/ seen[q] = None)
    /\ Sent(q, flags, IF sock[q].path \in {"unknown", "unnamed"} THEN sock[q].path ELSE "direct",
            sock[q].struck, {})
    /\ IF Stale(q, flags)
         THEN /\ tracked' = [tracked EXCEPT ![q] = None]
              /\ seen' = [seen EXCEPT ![q] = None]
              /\ trackMiss' = [trackMiss EXCEPT ![q] = 0]
         ELSE UNCHANGED trackVars
    /\ UNCHANGED <<conns, table, walk, throttle, retired, relay>>

(* The owner: from the snapshot, from a fresh walk, or not at all if the   *)
(* port's or the loop's throttle forbids one.                              *)
Lookup(q) ==
    IF table[q] # None
      THEN [pid |-> table[q], table |-> table, walked |-> walked, miss |-> portMiss[q]]
    ELSE IF portMiss[q]
      THEN [pid |-> None, table |-> table, walked |-> walked, miss |-> TRUE]
    ELSE IF walked
      THEN [pid |-> None, table |-> table, walked |-> TRUE, miss |-> TRUE]
    ELSE [pid |-> Owner(q), table |-> Owners, walked |-> TRUE, miss |-> TRUE]

Decide(q, readable) ==
    LET l == Lookup(q)
        named == l.pid # None /\ readable
        target == named /\ l.pid \in Routed
        old == IF Stale(q, "syn") THEN None ELSE tracked[q]
        oldSeen == IF Stale(q, "syn") THEN None ELSE seen[q] IN
    /\ oldSeen = None
    /\ seen' = [seen EXCEPT ![q] = IF named THEN l.pid ELSE oldSeen]
    /\ trackMiss' = [trackMiss EXCEPT ![q] = 0]
    /\ tracked' = [tracked EXCEPT ![q] =
         IF target THEN [pid |-> l.pid, dst |-> sock[q].dst] ELSE old]
    /\ table' = l.table /\ walked' = l.walked /\ portMiss' = [portMiss EXCEPT ![q] = l.miss]
    /\ Sent(q, "syn", IF target THEN "tunnel" ELSE IF named THEN "direct"
                      ELSE IF l.pid = None THEN "unknown" ELSE "unnamed",
            "none", Belied(q, FALSE))
    /\ UNCHANGED <<conns, walk, retired, relay>>

Undecided(q) == seen[q] = None \/ Stale(q, "syn")

(* A SYN, also a retransmitted one.                                        *)
Syn(q) ==
    /\ sock[q] # None /\ sock[q].kind = "client" /\ sock[q].phase \in {"bound", "syn"}
    /\ \/ Standing(q, "syn")
       \/ \E readable \in BOOLEAN : Undecided(q) /\ Decide(q, readable)

Data(q) ==
    /\ sock[q] # None /\ sock[q].phase = "open"
    /\ Standing(q, "data") \/ NotDecided(q, "data")

SynAck(q) ==
    /\ sock[q] # None /\ sock[q].kind = "listener"
    /\ Standing(q, "synack") \/ NotDecided(q, "synack")

-----------------------------------------------------------------------------
(* Decisions are forgotten, and the ghosts told: a live connection's port  *)
(* has a strike, or lost it, and one whose decision is gone knows why.     *)
Forget(ports) ==
    /\ retired' = {<<q, tracked[q].dst[1]>> : q \in {r \in ports : tracked[r] # None}}
    /\ tracked' = [q \in Ports |-> IF q \in ports THEN None ELSE tracked[q]]
    /\ seen' = [q \in Ports |-> IF q \in ports THEN None ELSE seen[q]]
    /\ sock' = [q \in Ports |->
         IF sock[q] = None \/ seen[q] = None \/ sock[q].phase = "bound" THEN sock[q]
         ELSE [sock[q] EXCEPT
                !.struck = IF table[q] = None /\ q \notin ports THEN "unlisted" ELSE "none",
                !.lag = IF q \in ports THEN @ \cup ({sock[q].struck} \ {"none"}) ELSE @]]

Missed == {q \in Ports : seen[q] # None /\ table[q] = None}

(* MUTANT: one strike is enough.                                           *)
SweepAtOnce ==
    /\ retired = {}
    /\ Forget(Missed)
    /\ UNCHANGED <<conns, table, walk, throttle, trackMiss, relay>>

(* MUTANT: the mapping survives the decision.                              *)
SweepKeepsMapping ==
    LET gone == {q \in Missed : trackMiss[q] = 1} IN
    /\ retired = {}
    /\ seen' = [q \in Ports |-> IF q \in gone THEN None ELSE seen[q]]
    /\ trackMiss' = [q \in Ports |-> IF q \in Missed \ gone THEN 1 ELSE 0]
    /\ UNCHANGED <<sock, conns, table, walk, throttle, tracked, retired, relay>>

(* MUTANT: the sweep walks tracked instead of seen.                        *)
SweepTargets ==
    LET missed == {q \in Missed : tracked[q] # None}
        gone == {q \in missed : trackMiss[q] = 1} IN
    /\ retired = {}
    /\ Forget(gone)
    /\ trackMiss' = [q \in Ports |-> IF q \in missed \ gone THEN 1 ELSE 0]
    /\ UNCHANGED <<conns, table, walk, throttle, relay>>

(* sweepTracked: a decided port that two sweeps in a row find unlisted is  *)
(* forgotten, under trackMu; its relays are closed after that.             *)
Sweep ==
    LET gone == {q \in Missed : trackMiss[q] = 1} IN
    /\ retired = {}
    /\ Forget(gone)
    /\ trackMiss' = [q \in Ports |-> IF q \in Missed \ gone THEN 1 ELSE 0]
    /\ UNCHANGED <<conns, table, walk, throttle, relay>>

(* MUTANT: the relays of a retired mapping are left alone.                 *)
CloseRelaysNot ==
    /\ retired # {} /\ retired' = {}
    /\ UNCHANGED <<sock, conns, table, walk, throttle, trackVars, relay>>

CloseRelays ==
    /\ retired # {} /\ retired' = {}
    /\ relay' = [i \in Ids |->
         IF relay[i].st \in {"accepted", "dialing", "open"}
            /\ <<relay[i].port, relay[i].dst[1]>> \in retired
           THEN [relay[i] EXCEPT !.cut = TRUE] ELSE relay[i]]
    /\ UNCHANGED <<sock, conns, table, walk, throttle, trackVars>>

-----------------------------------------------------------------------------
(* handleRedirect: a redirected SYN is accepted from (destination IP, app  *)
(* port); the mapping is read, must name that IP, and gives the address to *)
(* dial.                                                                   *)
Accept(q) ==
    /\ sock[q] # None /\ sock[q].kind = "client" /\ sock[q].path = "tunnel"
    /\ relay[sock[q].id].st = "none"
    /\ relay' = [relay EXCEPT ![sock[q].id] =
                   [NoRelay EXCEPT !.port = q, !.dst = sock[q].dst, !.st = "accepted"]]
    /\ UNCHANGED <<sock, conns, table, walk, throttle, trackVars, retired>>

RelayTo(i, st, to) == relay' = [relay EXCEPT ![i].st = st, ![i].to = to]

ReadMapping(i) ==
    LET m == tracked[relay[i].port] IN
    /\ relay[i].st = "accepted"
    /\ IF m = None \/ m.dst[1] # relay[i].dst[1]
         THEN RelayTo(i, "closed", None)
         ELSE RelayTo(i, "dialing", m.dst)
    /\ UNCHANGED <<sock, conns, table, walk, throttle, trackVars, retired>>

DialEnds(i) ==
    /\ relay[i].st = "dialing"
    /\ \/ RelayTo(i, "open", relay[i].to)
       \/ RelayTo(i, "closed", None)
    /\ UNCHANGED <<sock, conns, table, walk, throttle, trackVars, retired>>

(* Either side closes: the pumps end.                                      *)
RelayEnds(i) ==
    /\ relay[i].st = "open"
    /\ RelayTo(i, "closed", None)
    /\ UNCHANGED <<sock, conns, table, walk, throttle, trackVars, retired>>

(* closeRelays closed the app side: the pumps fail.                        *)
CutRelayEnds(i) == relay[i].cut /\ RelayEnds(i)

-----------------------------------------------------------------------------
Machine ==
    \/ \E q \in Ports, pid \in Pids, dst \in Dests, kind \in {"client", "listener"} :
          Open(q, pid, dst, kind)
    \/ \E q \in Ports : Close(q) \/ Establish(q)
    \/ ThrottlesExpire \/ OtherWalk

Next ==
    \/ Machine \/ RefreshWalk \/ RefreshStore \/ Sweep \/ CloseRelays
    \/ \E q \in Ports : Syn(q) \/ Data(q) \/ SynAck(q) \/ Accept(q)
    \/ \E i \in Ids : ReadMapping(i) \/ DialEnds(i) \/ RelayEnds(i)

Spec == Init /\ [][Next]_vars

(* The tickers tick and a dial times out; applications owe nothing.        *)
Fairness ==
    /\ WF_vars(RefreshWalk) /\ WF_vars(RefreshStore)
    /\ WF_vars(Sweep) /\ WF_vars(CloseRelays)
    /\ \A i \in Ids : WF_vars(ReadMapping(i) \/ DialEnds(i)) /\ WF_vars(CutRelayEnds(i))

FairSpec == Spec /\ Fairness

-----------------------------------------------------------------------------
(* A connection never changes sides: once its SYN is decided, no packet of *)
(* it takes the other way, through sweeps, strikes, stale tables and       *)
(* throttled look-ups, unless the tables lagged under it in one of the     *)
(* ways of Lags: what handleTCP cannot know, and what it leaves in a port  *)
(* for the next connection.                                                *)
OnePath ==
    \A q \in Ports : sock[q] # None /\ sock[q].kind = "client" => ~sock[q].strayed

(* No connection of a routed application is decided direct, and none of    *)
(* another one is decided into the tunnel: a decision passes from one      *)
(* process to the next with their port only if a table named the former or *)
(* a third one at a SYN, or none and the old decision stood.               *)
OwnDecision ==
    \A q \in Ports :
        sock[q] # None /\ sock[q].kind = "client" /\ sock[q].lag \cap {"misnamed", "inherited"} = {} =>
            /\ sock[q].pid \in Routed => sock[q].path # "direct"
            /\ sock[q].pid \notin Routed => sock[q].path # "tunnel"

(* No misrouting: a relay whose connection lives dials the very address    *)
(* the application connected to.                                           *)
NoMisroute ==
    \A q \in Ports : sock[q] # None =>
        LET r == relay[sock[q].id] IN r.st \in {"dialing", "open"} => r.to = sock[q].dst

(* A decision does not outlive its port for ever.                          *)
StaleDecisionSwept ==
    \A q \in Ports : (sock[q] = None /\ seen[q] # None) ~> (sock[q] # None \/ seen[q] = None)

(* A relay whose application vanished without a word is closed with the    *)
(* mapping it was dialled by.  (A relay whose mapping another connection   *)
(* on the port replaced has only the keepalives of its sockets.)           *)
OrphanRelayClosed ==
    \A i \in Ids : LET q == relay[i].port IN
        (/\ relay[i].st = "open" /\ sock[q] = None
         /\ tracked[q] # None /\ tracked[q].dst[1] = relay[i].dst[1])
        ~> (relay[i].st = "closed" \/ sock[q] # None)

-----------------------------------------------------------------------------
=============================================================================
