--------------------------- MODULE TcpTrackProofs ---------------------------
(* What TcpTrack's runs check of its safety, for any ports, processes,     *)
(* addresses and number of sockets.                                        *)
EXTENDS TcpTrack, TLAPS

---------------------------------------------------------------------------
(* Types                                                                   *)

(* What sending a packet does to the socket it is of.                      *)
Packet(q, flags, path, struck, lag) ==
    /\ sock' \in [Ports -> {None} \cup Sockets]
    /\ \A p \in Ports \ {q} : sock'[p] = sock[p]
    /\ sock'[q].id = sock[q].id /\ sock'[q].pid = sock[q].pid
    /\ sock'[q].dst = sock[q].dst /\ sock'[q].kind = sock[q].kind
    /\ sock'[q].phase = IF flags = "syn" THEN "syn" ELSE sock[q].phase
    /\ sock'[q].path = IF sock[q].path \in {"tunnel", "direct"} THEN sock[q].path ELSE path
    /\ sock'[q].struck = struck /\ sock'[q].lag = sock[q].lag \cup lag
    /\ \/ sock'[q].strayed => sock[q].strayed
       \/ /\ sock[q].path \in {"tunnel", "direct"} /\ path # sock[q].path
          /\ sock[q].lag \cup lag = {}

LEMMA SentFacts ==
    ASSUME TypeOK, NEW q \in Ports, sock[q] # None,
           NEW flags, NEW path \in Paths, NEW struck \in Strikes, NEW lag \in SUBSET Lags,
           Sent(q, flags, path, struck, lag)
    PROVE  Packet(q, flags, path, struck, lag)
<1> DEFINE s == sock[q]
           all == s.lag \cup lag
           strayed == s.strayed \/ (s.path \in {"tunnel", "direct"} /\ path # s.path /\ all = {})
           r == [s EXCEPT !.phase = IF flags = "syn" THEN "syn" ELSE @,
                          !.struck = struck, !.lag = all, !.strayed = strayed,
                          !.path = IF s.path \in {"tunnel", "direct"} THEN @ ELSE path]
<1>0. sock \in [Ports -> {None} \cup Sockets]
  BY DEF TypeOK
<1>1. s \in Sockets
  BY <1>0
<1>2. strayed \in BOOLEAN /\ all \in SUBSET Lags
  <2>1. strayed \in BOOLEAN
    BY Zenon
  <2>2. all \in SUBSET Lags
    BY <1>1 DEF Sockets
  <2> QED BY <2>1, <2>2
<1>3. sock' = [sock EXCEPT ![q] = r]
  BY DEF Sent
<1>4. \/ strayed => s.strayed
      \/ s.path \in {"tunnel", "direct"} /\ path # s.path /\ all = {}
  BY Zenon
<1> HIDE DEF strayed, all
<1>5. r \in Sockets
  BY <1>1, <1>2 DEF Sockets
<1>6. /\ r.id = s.id /\ r.pid = s.pid /\ r.dst = s.dst /\ r.kind = s.kind
      /\ r.phase = IF flags = "syn" THEN "syn" ELSE s.phase
      /\ r.path = IF s.path \in {"tunnel", "direct"} THEN s.path ELSE path
      /\ r.struck = struck /\ r.lag = all /\ r.strayed = strayed
  BY <1>1 DEF Sockets
<1> HIDE DEF r
<1>7. sock'[q] = r /\ \A p \in Ports \ {q} : sock'[p] = sock[p]
  BY <1>0, <1>3
<1>8. sock' \in [Ports -> {None} \cup Sockets]
  BY <1>0, <1>3, <1>5
<1> QED BY <1>4, <1>6, <1>7, <1>8 DEF all, Packet

(* ... for each of the three ways a packet is handled.                     *)
StandingPath(q) == IF tracked[q] # None THEN "tunnel" ELSE "direct"
StandingLag(q, flags) == IF flags = "syn" THEN Belied(q, TRUE) ELSE {}
StandingStruck(q, flags) ==
    IF flags = "syn" /\ sock[q].phase = "bound" /\ trackMiss[q] = 1 THEN "leftover" ELSE sock[q].struck

LEMMA StandingSent ==
    ASSUME TypeOK, NEW q \in Ports, NEW flags, sock[q] # None, Standing(q, flags)
    PROVE  /\ Packet(q, flags, StandingPath(q), StandingStruck(q, flags), StandingLag(q, flags))
           /\ StandingPath(q) \in Paths \ {"none"}
<1>1. Sent(q, flags, StandingPath(q), StandingStruck(q, flags), StandingLag(q, flags))
  BY DEF Standing, StandingPath, StandingStruck, StandingLag
<1>2. sock[q].struck \in Strikes
  BY DEF TypeOK, Sockets
<1>3. StandingPath(q) \in Paths \ {"none"}
  BY DEF StandingPath, Paths
<1>4. StandingStruck(q, flags) \in Strikes /\ StandingLag(q, flags) \in SUBSET Lags
  BY <1>2 DEF StandingStruck, StandingLag, Strikes, Lags, Belied
<1> QED BY <1>1, <1>3, <1>4, SentFacts

PassedPath(q) == IF sock[q].path \in {"unknown", "unnamed"} THEN sock[q].path ELSE "direct"

LEMMA NotDecidedSent ==
    ASSUME TypeOK, NEW q \in Ports, NEW flags, sock[q] # None, NotDecided(q, flags)
    PROVE  /\ Packet(q, flags, PassedPath(q), sock[q].struck, {})
           /\ PassedPath(q) \in Paths \ {"none"}
<1>1. Sent(q, flags, PassedPath(q), sock[q].struck, {})
  BY DEF NotDecided, PassedPath
<1>2. sock[q].struck \in Strikes
  BY DEF TypeOK, Sockets
<1>3. PassedPath(q) \in Paths \ {"none"}
  BY DEF PassedPath, Paths
<1> QED BY <1>1, <1>2, <1>3, SentFacts

DecidedPath(q, readable) ==
    LET pid == Lookup(q).pid IN
    IF pid # None /\ readable
      THEN IF pid \in Routed THEN "tunnel" ELSE "direct"
      ELSE IF pid = None THEN "unknown" ELSE "unnamed"

LEMMA DecideSent ==
    ASSUME TypeOK, NEW q \in Ports, NEW readable \in BOOLEAN, sock[q] # None, Decide(q, readable)
    PROVE  /\ Packet(q, "syn", DecidedPath(q, readable), "none", Belied(q, FALSE))
           /\ DecidedPath(q, readable) \in Paths \ {"none"}
<1>1. Sent(q, "syn", DecidedPath(q, readable), "none", Belied(q, FALSE))
  <2> DEFINE pid == Lookup(q).pid
             path == IF pid # None /\ readable /\ pid \in Routed THEN "tunnel"
                     ELSE IF pid # None /\ readable THEN "direct"
                     ELSE IF pid = None THEN "unknown" ELSE "unnamed"
  <2>1. Sent(q, "syn", path, "none", Belied(q, FALSE))
    BY DEF Decide
  <2>2. path = DecidedPath(q, readable)
    BY DEF DecidedPath
  <2> HIDE DEF path
  <2> QED BY <2>1, <2>2
<1>2. DecidedPath(q, readable) \in Paths \ {"none"}
  BY DEF DecidedPath, Paths
<1>3. "none" \in Strikes /\ Belied(q, FALSE) \in SUBSET Lags
  BY DEF Strikes, Belied, Lags
<1> QED BY <1>1, <1>2, <1>3, SentFacts

LEMMA NoRelayTyped == NoRelay \in Relays
<1>1. (CHOOSE q \in Ports : TRUE) \in Ports
  BY TcpAssumption
<1>2. (CHOOSE d \in Dests : TRUE) \in Dests
  BY TcpAssumption
<1> QED BY <1>1, <1>2 DEF NoRelay, Relays

LEMMA OwnersTyped ==
    ASSUME sock \in [Ports -> {None} \cup Sockets]
    PROVE  /\ Owners \in [Ports -> {None} \cup Pids]
           /\ \A q \in Ports : Owners[q] = Owner(q) /\ Owner(q) \in {None} \cup Pids
<1>1. \A q \in Ports : Owner(q) \in {None} \cup Pids
  BY DEF Owner, Sockets
<1> QED BY <1>1 DEF Owners

LEMMA TypeInit == Init => TypeOK
<1> SUFFICES ASSUME Init PROVE TypeOK
    OBVIOUS
<1>1. conns \in 0..MaxConns
  BY TcpAssumption DEF Init
<1>2. relay \in [Ids -> Relays]
  BY NoRelayTyped DEF Init
<1>3. /\ sock \in [Ports -> {None} \cup Sockets] /\ table \in [Ports -> {None} \cup Pids]
      /\ tracked \in [Ports -> {None} \cup Mappings] /\ seen \in [Ports -> {None} \cup Pids]
      /\ walk \in {None} \cup [Ports -> {None} \cup Pids]
  BY DEF Init
<1>4. portMiss \in [Ports -> BOOLEAN] /\ walked \in BOOLEAN /\ retired \subseteq Ports \X IPs
  BY DEF Init
<1>5. trackMiss \in [Ports -> 0..1] /\ \A q \in Ports : seen[q] = None => tracked[q] = None /\ trackMiss[q] = 0
  BY DEF Init
<1> QED BY <1>1, <1>2, <1>3, <1>4, <1>5 DEF TypeOK

(* The clause of TypeOK on seen, tracked and trackMiss, port by port.      *)
LEMMA OnePortTyped ==
    ASSUME TypeOK, NEW q \in Ports,
           tracked' \in [Ports -> {None} \cup Mappings], seen' \in [Ports -> {None} \cup Pids],
           trackMiss' \in [Ports -> 0..1],
           \A p \in Ports \ {q} : /\ tracked'[p] = tracked[p] /\ seen'[p] = seen[p]
                                  /\ trackMiss'[p] = trackMiss[p],
           seen'[q] = None => tracked'[q] = None /\ trackMiss'[q] = 0,
           sock' \in [Ports -> {None} \cup Sockets],
           table' \in [Ports -> {None} \cup Pids], portMiss' \in [Ports -> BOOLEAN], walked' \in BOOLEAN,
           UNCHANGED <<conns, walk, retired, relay>>
    PROVE  TypeOK'
<1>1. \A p \in Ports : seen'[p] = None => tracked'[p] = None /\ trackMiss'[p] = 0
  BY DEF TypeOK
<1> QED BY <1>1 DEF TypeOK

LEMMA StandingTyped ==
    ASSUME TypeOK, NEW q \in Ports, NEW flags, sock[q] # None, Standing(q, flags)
    PROVE  TypeOK'
<1>2. sock' \in [Ports -> {None} \cup Sockets]
  BY StandingSent DEF Packet
<1> QED BY <1>2 DEF Standing, TypeOK, throttle, trackVars

LEMMA NotDecidedTyped ==
    ASSUME TypeOK, NEW q \in Ports, NEW flags, sock[q] # None, NotDecided(q, flags)
    PROVE  TypeOK'
<1>2. sock' \in [Ports -> {None} \cup Sockets]
  BY NotDecidedSent DEF Packet
<1>3. UNCHANGED <<conns, table, walk, portMiss, walked, retired, relay>>
  BY DEF NotDecided, throttle
<1>4. CASE Stale(q, flags)
  <2>1. /\ tracked' = [tracked EXCEPT ![q] = None]
        /\ seen' = [seen EXCEPT ![q] = None]
        /\ trackMiss' = [trackMiss EXCEPT ![q] = 0]
    BY <1>4, Zenon DEF NotDecided
  <2> QED BY <1>2, <1>3, <2>1, OnePortTyped DEF TypeOK
<1>5. CASE ~Stale(q, flags)
  <2>1. UNCHANGED trackVars
    BY <1>5, Zenon DEF NotDecided
  <2> QED BY <1>2, <1>3, <2>1 DEF TypeOK, trackVars
<1> QED BY <1>4, <1>5

(* The owner a look-up finds, and what it leaves in the tables.            *)
LEMMA LookupTyped ==
    ASSUME TypeOK, NEW q \in Ports
    PROVE  /\ Lookup(q).pid \in {None, table[q], Owner(q)}
           /\ table[q] # None => Lookup(q).pid = table[q]
           /\ Lookup(q).table \in [Ports -> {None} \cup Pids]
           /\ Lookup(q).walked \in BOOLEAN /\ Lookup(q).miss \in BOOLEAN
<1>1. Owners \in [Ports -> {None} \cup Pids]
  BY OwnersTyped DEF TypeOK
<1>2. portMiss[q] \in BOOLEAN /\ walked \in BOOLEAN /\ table \in [Ports -> {None} \cup Pids]
  BY DEF TypeOK
<1>3. CASE table[q] # None
  <2>1. Lookup(q) = [pid |-> table[q], table |-> table, walked |-> walked, miss |-> portMiss[q]]
    BY <1>3 DEF Lookup
  <2> QED BY <1>2, <1>3, <2>1
<1>4. CASE table[q] = None /\ portMiss[q]
  <2>1. Lookup(q) = [pid |-> None, table |-> table, walked |-> walked, miss |-> TRUE]
    BY <1>4 DEF Lookup
  <2> QED BY <1>2, <1>4, <2>1
<1>5. CASE table[q] = None /\ ~portMiss[q] /\ walked
  <2>1. Lookup(q) = [pid |-> None, table |-> table, walked |-> TRUE, miss |-> TRUE]
    BY <1>5 DEF Lookup
  <2> QED BY <1>2, <1>5, <2>1
<1>6. CASE table[q] = None /\ ~portMiss[q] /\ ~walked
  <2>1. Lookup(q) = [pid |-> Owner(q), table |-> Owners, walked |-> TRUE, miss |-> TRUE]
    BY <1>6 DEF Lookup
  <2> QED BY <1>1, <1>2, <1>6, <2>1
<1> QED BY <1>3, <1>4, <1>5, <1>6

LEMMA DecideTyped ==
    ASSUME TypeOK, NEW q \in Ports, NEW readable \in BOOLEAN, sock[q] # None, Decide(q, readable)
    PROVE  TypeOK'
<1> DEFINE l == Lookup(q)
           named == l.pid # None /\ readable
           target == named /\ l.pid \in Routed
           old == IF Stale(q, "syn") THEN None ELSE tracked[q]
           oldSeen == IF Stale(q, "syn") THEN None ELSE seen[q]
           map == [pid |-> l.pid, dst |-> sock[q].dst]
<1>1. /\ oldSeen = None
      /\ seen' = [seen EXCEPT ![q] = IF named THEN l.pid ELSE oldSeen]
      /\ trackMiss' = [trackMiss EXCEPT ![q] = 0]
      /\ tracked' = [tracked EXCEPT ![q] = IF target THEN map ELSE old]
      /\ table' = l.table /\ walked' = l.walked /\ portMiss' = [portMiss EXCEPT ![q] = l.miss]
      /\ UNCHANGED <<conns, walk, retired, relay>>
  BY DEF Decide
<1>2. l.pid \in {None} \cup Pids
  BY LookupTyped, OwnersTyped DEF TypeOK
<1>3. sock' \in [Ports -> {None} \cup Sockets]
  BY DecideSent DEF Packet
<1>4. named => map \in Mappings
  BY <1>2 DEF Mappings, TypeOK, Sockets
<1>5. old = None
  BY <1>1 DEF TypeOK
<1>6. l.table \in [Ports -> {None} \cup Pids] /\ l.walked \in BOOLEAN /\ l.miss \in BOOLEAN
  BY LookupTyped
<1> HIDE DEF l, old, oldSeen, map
<1>7. tracked' \in [Ports -> {None} \cup Mappings] /\ seen' \in [Ports -> {None} \cup Pids]
  BY <1>1, <1>2, <1>4, <1>5 DEF TypeOK
<1>8. seen'[q] = None => tracked'[q] = None
  BY <1>1, <1>5 DEF TypeOK
<1>9. trackMiss' \in [Ports -> 0..1] /\ portMiss' \in [Ports -> BOOLEAN] /\ trackMiss'[q] = 0
  BY <1>1, <1>6 DEF TypeOK
<1>10. table' \in [Ports -> {None} \cup Pids] /\ walked' \in BOOLEAN
  BY <1>1, <1>6
<1>11. \A p \in Ports \ {q} : /\ tracked'[p] = tracked[p] /\ seen'[p] = seen[p]
                              /\ trackMiss'[p] = trackMiss[p]
  BY <1>1 DEF TypeOK
<1> QED BY <1>1, <1>3, <1>7, <1>8, <1>9, <1>10, <1>11, OnePortTyped

LEMMA SynTyped ==
    ASSUME TypeOK, NEW q \in Ports, Syn(q)
    PROVE  TypeOK'
<1>1. sock[q] # None
  BY DEF Syn
<1>2. CASE Standing(q, "syn")
  BY <1>1, <1>2, StandingTyped
<1>3. CASE \E readable \in BOOLEAN : Undecided(q) /\ Decide(q, readable)
  BY <1>1, <1>3, DecideTyped
<1> QED BY <1>2, <1>3, Zenon DEF Syn

(* A sweep changes nothing of a socket but the two ghosts.                 *)
LEMMA ForgetSock ==
    ASSUME sock \in [Ports -> {None} \cup Sockets], NEW ports, Forget(ports)
    PROVE  /\ sock' \in [Ports -> {None} \cup Sockets]
           /\ \A q \in Ports :
                /\ sock'[q] = None <=> sock[q] = None
                /\ sock[q] # None =>
                     /\ sock'[q].id = sock[q].id /\ sock'[q].pid = sock[q].pid
                     /\ sock'[q].dst = sock[q].dst /\ sock'[q].kind = sock[q].kind
                     /\ sock'[q].phase = sock[q].phase /\ sock'[q].path = sock[q].path
                     /\ sock'[q].strayed = sock[q].strayed
                     /\ seen[q] # None /\ sock[q].phase # "bound" =>
                          /\ sock'[q].struck = IF table[q] = None /\ q \notin ports
                                                 THEN "unlisted" ELSE "none"
                          /\ sock'[q].lag = IF q \in ports
                                THEN sock[q].lag \cup ({sock[q].struck} \ {"none"}) ELSE sock[q].lag
                     /\ seen[q] = None \/ sock[q].phase = "bound" => sock'[q] = sock[q]
<1> DEFINE swept(q) == [sock[q] EXCEPT
                          !.struck = IF table[q] = None /\ q \notin ports THEN "unlisted" ELSE "none",
                          !.lag = IF q \in ports THEN @ \cup ({sock[q].struck} \ {"none"}) ELSE @]
           after(q) == IF sock[q] = None \/ seen[q] = None \/ sock[q].phase = "bound"
                         THEN sock[q] ELSE swept(q)
<1>1. sock' = [q \in Ports |-> after(q)]
  BY DEF Forget
<1>2. ASSUME NEW q \in Ports, sock[q] # None
      PROVE  /\ swept(q) \in Sockets
             /\ swept(q).id = sock[q].id /\ swept(q).pid = sock[q].pid
             /\ swept(q).dst = sock[q].dst /\ swept(q).kind = sock[q].kind
             /\ swept(q).phase = sock[q].phase /\ swept(q).path = sock[q].path
             /\ swept(q).strayed = sock[q].strayed
             /\ swept(q).struck = IF table[q] = None /\ q \notin ports THEN "unlisted" ELSE "none"
             /\ swept(q).lag = IF q \in ports
                   THEN sock[q].lag \cup ({sock[q].struck} \ {"none"}) ELSE sock[q].lag
  <2> DEFINE s == sock[q]
             struck == IF table[q] = None /\ q \notin ports THEN "unlisted" ELSE "none"
             lag == IF q \in ports THEN s.lag \cup ({s.struck} \ {"none"}) ELSE s.lag
  <2>1. s \in Sockets
    BY <1>2
  <2>2. struck \in Strikes /\ lag \in SUBSET Lags
    BY <2>1 DEF Sockets, Strikes, Lags
  <2>3. swept(q) = [s EXCEPT !.struck = struck, !.lag = lag]
    BY <2>1 DEF Sockets
  <2> HIDE DEF struck, lag
  <2>4. /\ [s EXCEPT !.struck = struck, !.lag = lag] \in Sockets
        /\ LET t == [s EXCEPT !.struck = struck, !.lag = lag] IN
             /\ t.id = s.id /\ t.pid = s.pid /\ t.dst = s.dst /\ t.kind = s.kind
             /\ t.phase = s.phase /\ t.path = s.path /\ t.strayed = s.strayed
             /\ t.struck = struck /\ t.lag = lag
    BY <2>1, <2>2 DEF Sockets
  <2> HIDE DEF swept
  <2> QED BY <2>3, <2>4 DEF struck, lag
<1>3. None \notin Sockets
  BY NoneAssumption
<1> HIDE DEF swept
<1>4. \A q \in Ports : after(q) \in {None} \cup Sockets
  BY <1>2
<1>5. \A q \in Ports : sock'[q] = after(q)
  BY <1>1
<1>6. sock' \in [Ports -> {None} \cup Sockets]
  BY <1>1, <1>4
<1>7. ASSUME NEW q \in Ports, seen[q] # None /\ sock[q].phase # "bound", sock[q] # None
      PROVE  sock'[q] = swept(q)
  BY <1>5, <1>7
<1>8. ASSUME NEW q \in Ports, seen[q] = None \/ sock[q].phase = "bound" \/ sock[q] = None
      PROVE  sock'[q] = sock[q]
  BY <1>5, <1>8
<1> HIDE DEF after
<1>9. ASSUME NEW q \in Ports
      PROVE  sock'[q] = None <=> sock[q] = None
  BY <1>2, <1>3, <1>7, <1>8
<1>10. ASSUME NEW q \in Ports, sock[q] # None
       PROVE  /\ sock'[q].id = sock[q].id /\ sock'[q].pid = sock[q].pid
              /\ sock'[q].dst = sock[q].dst /\ sock'[q].kind = sock[q].kind
              /\ sock'[q].phase = sock[q].phase /\ sock'[q].path = sock[q].path
              /\ sock'[q].strayed = sock[q].strayed
  BY <1>2, <1>7, <1>8, <1>10
<1>11. ASSUME NEW q \in Ports, sock[q] # None, seen[q] # None, sock[q].phase # "bound"
       PROVE  /\ sock'[q].struck = IF table[q] = None /\ q \notin ports
                                     THEN "unlisted" ELSE "none"
              /\ sock'[q].lag = IF q \in ports
                    THEN sock[q].lag \cup ({sock[q].struck} \ {"none"}) ELSE sock[q].lag
  BY <1>2, <1>7, <1>11
<1> QED BY <1>6, <1>8, <1>9, <1>10, <1>11, Zenon

LEMMA SweepTyped ==
    ASSUME TypeOK, Sweep
    PROVE  TypeOK'
<1> DEFINE gone == {q \in Missed : trackMiss[q] = 1}
<1>1. /\ Forget(gone)
      /\ trackMiss' = [q \in Ports |-> IF q \in Missed \ gone THEN 1 ELSE 0]
      /\ UNCHANGED <<conns, table, walk, throttle, relay>>
  BY DEF Sweep
<1>0. sock' \in [Ports -> {None} \cup Sockets]
  BY <1>1, ForgetSock DEF TypeOK
<1> HIDE DEF gone
<1>2. \A q \in Ports : tracked[q] # None => tracked[q].dst[1] \in IPs
  BY TcpAssumption DEF TypeOK, Mappings
<1>3. gone \subseteq Ports /\ \A q \in gone : seen[q] # None
  BY DEF gone, Missed
<1>4. retired' \subseteq Ports \X IPs
  <2>1. \A q \in gone : tracked[q] # None => <<q, tracked[q].dst[1]>> \in Ports \X IPs
    BY <1>2, <1>3
  <2>2. retired' = {<<q, tracked[q].dst[1]>> : q \in {p \in gone : tracked[p] # None}}
    BY <1>1 DEF Forget
  <2> QED BY <2>1, <2>2
<1>5. tracked' \in [Ports -> {None} \cup Mappings] /\ seen' \in [Ports -> {None} \cup Pids]
  BY <1>1 DEF Forget, TypeOK
<1>6. trackMiss' \in [Ports -> 0..1]
  BY <1>1
<1>7. \A q \in Ports : seen'[q] = None => tracked'[q] = None /\ trackMiss'[q] = 0
  <2>1. ASSUME NEW q \in Ports, seen'[q] = None
        PROVE  tracked'[q] = None /\ trackMiss'[q] = 0
    <3>1. q \in gone \/ seen[q] = None
      BY <1>1, <2>1 DEF Forget
    <3>2. q \notin Missed \ gone
      BY <3>1 DEF Missed
    <3>3. tracked'[q] = None
      BY <1>1, <3>1 DEF Forget, TypeOK
    <3> QED BY <1>1, <3>2, <3>3
  <2> QED BY <2>1
<1> QED BY <1>0, <1>1, <1>4, <1>5, <1>6, <1>7 DEF TypeOK, throttle

LEMMA RelayTyped ==
    ASSUME TypeOK, NEW i \in Ids, ReadMapping(i) \/ DialEnds(i) \/ RelayEnds(i)
    PROVE  TypeOK'
<1>1. \A st \in {"open", "closed", "dialing"}, to \in Dests \cup {None} :
        RelayTo(i, st, to) => relay' \in [Ids -> Relays]
  <2>1. ASSUME NEW st \in {"open", "closed", "dialing"}, NEW to \in Dests \cup {None}, RelayTo(i, st, to)
        PROVE  relay' \in [Ids -> Relays]
    <3> DEFINE r == [relay[i] EXCEPT !.st = st, !.to = to]
    <3>1. r \in Relays
      BY DEF TypeOK, Relays
    <3>2. relay' = [relay EXCEPT ![i] = r]
      BY <2>1 DEF RelayTo, TypeOK
    <3> HIDE DEF r
    <3> QED BY <3>1, <3>2 DEF TypeOK
  <2> QED BY <2>1
<1>2. relay[i].to \in Dests \cup {None} /\ relay[i].port \in Ports
  BY DEF TypeOK, Relays
<1>3. tracked[relay[i].port] # None => tracked[relay[i].port].dst \in Dests
  BY <1>2 DEF TypeOK, Mappings
<1>4. relay' \in [Ids -> Relays]
  <2>1. CASE ReadMapping(i)
    <3> DEFINE m == tracked[relay[i].port]
    <3>1. RelayTo(i, "closed", None) \/ (m # None /\ RelayTo(i, "dialing", m.dst))
      BY <2>1, Zenon DEF ReadMapping
    <3> HIDE DEF m
    <3>2. m # None => m.dst \in Dests
      BY <1>3 DEF m
    <3> QED BY <1>1, <3>1, <3>2
  <2>2. CASE DialEnds(i)
    <3>1. RelayTo(i, "closed", None) \/ RelayTo(i, "open", relay[i].to)
      BY <2>2, Zenon DEF DialEnds
    <3> QED BY <1>1, <1>2, <3>1
  <2>3. CASE RelayEnds(i)
    <3>1. RelayTo(i, "closed", None)
      BY <2>3, Zenon DEF RelayEnds
    <3> QED BY <1>1, <3>1
  <2> QED BY <2>1, <2>2, <2>3
<1> QED BY <1>4 DEF ReadMapping, DialEnds, RelayEnds, TypeOK, throttle, trackVars

LEMMA MachineTyped ==
    ASSUME TypeOK, Machine
    PROVE  TypeOK'
<1> USE DEF throttle, trackVars
<1>1. ASSUME NEW q \in Ports, NEW pid \in Pids, NEW dst \in Dests, NEW kind \in {"client", "listener"},
             Open(q, pid, dst, kind)
      PROVE  TypeOK'
  <2>1. conns' \in 0..MaxConns /\ conns' \in Ids
    BY <1>1, TcpAssumption DEF Open, TypeOK, Ids
  <2>2. [id |-> conns', pid |-> pid, dst |-> dst, kind |-> kind,
         phase |-> "bound", path |-> "none",
         struck |-> "none", lag |-> {}, strayed |-> FALSE] \in Sockets
    BY <2>1 DEF Sockets, Paths, Strikes
  <2>3. sock' \in [Ports -> {None} \cup Sockets]
    BY <1>1, <2>2 DEF Open, TypeOK
  <2> QED BY <1>1, <2>1, <2>3 DEF Open, TypeOK
<1>2. ASSUME NEW q \in Ports, Close(q)
      PROVE  TypeOK'
  BY <1>2 DEF Close, TypeOK
<1>3. ASSUME NEW q \in Ports, Establish(q)
      PROVE  TypeOK'
  <2>1. sock[q] \in Sockets
    BY <1>3 DEF Establish, TypeOK
  <2>2. [sock[q] EXCEPT !.phase = "open"] \in Sockets
    BY <2>1 DEF Sockets
  <2>3. sock' = [sock EXCEPT ![q] = [sock[q] EXCEPT !.phase = "open"]]
    BY <1>3 DEF Establish, TypeOK
  <2>4. sock' \in [Ports -> {None} \cup Sockets]
    BY <2>2, <2>3 DEF TypeOK
  <2> QED BY <1>3, <2>4 DEF Establish, TypeOK
<1>4. CASE ThrottlesExpire
  BY <1>4 DEF ThrottlesExpire, TypeOK
<1>5. CASE OtherWalk
  BY <1>5, OwnersTyped DEF OtherWalk, TypeOK
<1> QED BY <1>1, <1>2, <1>3, <1>4, <1>5, Zenon DEF Machine

LEMMA TypeStep ==
    ASSUME TypeOK, [Next]_vars
    PROVE  TypeOK'
<1> USE DEF throttle, trackVars
<1>1. CASE Machine
  BY <1>1, MachineTyped
<1>2. CASE RefreshWalk
  BY <1>2, OwnersTyped DEF RefreshWalk, TypeOK
<1>3. CASE RefreshStore
  BY <1>3 DEF RefreshStore, TypeOK
<1>4. CASE Sweep
  BY <1>4, SweepTyped
<1>5. CASE CloseRelays
  <2>1. ASSUME NEW i \in Ids PROVE relay'[i] \in Relays
    <3>1. relay[i] \in Relays /\ [relay[i] EXCEPT !.cut = TRUE] \in Relays
      BY DEF TypeOK, Relays
    <3>2. relay'[i] \in {relay[i], [relay[i] EXCEPT !.cut = TRUE]}
      BY <1>5 DEF CloseRelays
    <3> QED BY <3>1, <3>2
  <2>2. relay' = [i \in Ids |-> relay'[i]]
    BY <1>5 DEF CloseRelays
  <2>3. relay' \in [Ids -> Relays]
    BY <2>1, <2>2
  <2> QED BY <1>5, <2>3 DEF CloseRelays, TypeOK
<1>6. ASSUME NEW q \in Ports, Syn(q) \/ Data(q) \/ SynAck(q)
      PROVE  TypeOK'
  BY <1>6, SynTyped, StandingTyped, NotDecidedTyped DEF Data, SynAck
<1>7. ASSUME NEW q \in Ports, Accept(q)
      PROVE  TypeOK'
  <2>1. sock[q] \in Sockets
    BY <1>7 DEF Accept, TypeOK
  <2>2. [NoRelay EXCEPT !.port = q, !.dst = sock[q].dst, !.st = "accepted"] \in Relays
    BY <2>1, NoRelayTyped DEF Relays, Sockets
  <2>3. relay' \in [Ids -> Relays]
    BY <1>7, <2>2 DEF Accept, TypeOK
  <2> QED BY <1>7, <2>3 DEF Accept, TypeOK
<1>8. ASSUME NEW i \in Ids, ReadMapping(i) \/ DialEnds(i) \/ RelayEnds(i)
      PROVE  TypeOK'
  BY <1>8, RelayTyped
<1>9. CASE UNCHANGED vars
  BY <1>9 DEF vars, TypeOK
<1> QED BY <1>1, <1>2, <1>3, <1>4, <1>5, <1>6, <1>7, <1>8, <1>9, Zenon DEF Next

(* Every state of the tables, the sockets and the relays is typed, and no  *)
(* port is tracked that the sweep would not find in seen.                  *)
THEOREM TcpTypeCorrect == Spec => []TypeOK
BY TypeInit, TypeStep, PTL DEF Spec

---------------------------------------------------------------------------
(* Sockets, decisions and relays                                           *)

(* A number is given to one socket, and no relay is for a later one.       *)
Identities ==
    /\ \A q \in Ports : sock[q] # None => sock[q].id <= conns
    /\ \A p, q \in Ports : sock[p] # None /\ sock[q] # None /\ sock[p].id = sock[q].id => p = q
    /\ \A i \in Ids : relay[i].st # "none" => i <= conns

(* A client's first packet is a SYN; a listener never sends one.           *)
Shape(q) ==
    sock[q] # None =>
        /\ sock[q].kind = "listener" => sock[q].phase = "bound"
        /\ sock[q].kind = "client" => (sock[q].phase = "bound" <=> sock[q].path = "none")

(* A port is tracked exactly while it is decided for a routed process.     *)
Decision(q) ==
    /\ tracked[q] # None => tracked[q].pid = seen[q]
    /\ seen[q] # None => (tracked[q] # None <=> seen[q] \in Routed)

(* Once its first SYN was looked at, a mapping is the connection's own.    *)
Target(q) ==
    sock[q] # None /\ sock[q].phase # "bound" /\ tracked[q] # None => tracked[q].dst = sock[q].dst

RelayOf(q) ==
    sock[q] # None /\ relay[sock[q].id].st # "none" =>
        /\ relay[sock[q].id].port = q /\ sock[q].phase # "bound"
        /\ relay[sock[q].id].st \in {"dialing", "open"} => relay[sock[q].id].to = sock[q].dst

PortInv(q) == Shape(q) /\ Decision(q) /\ Target(q) /\ RelayOf(q)
TrackInv == TypeOK /\ Identities /\ \A q \in Ports : PortInv(q)

LEMMA TrackInit == Init => TrackInv
<1> SUFFICES ASSUME Init PROVE TrackInv
    OBVIOUS
<1>1. \A q \in Ports : sock[q] = None /\ seen[q] = None /\ tracked[q] = None
  BY DEF Init
<1>2. \A i \in Ids : relay[i].st = "none"
  BY DEF Init, NoRelay
<1>3. \A q \in Ports : PortInv(q)
  BY <1>1 DEF PortInv, Shape, Decision, Target, RelayOf
<1> QED BY <1>1, <1>2, <1>3, TypeInit DEF TrackInv, Identities

(* A packet: it is of one socket and changes the decision of its port.     *)
LEMMA PacketKept ==
    ASSUME TrackInv, NEW q \in Ports, sock[q] # None,
           \A p \in Ports \ {q} : /\ sock'[p] = sock[p] /\ tracked'[p] = tracked[p] /\ seen'[p] = seen[p],
           sock'[q].id = sock[q].id, sock'[q].dst = sock[q].dst, sock'[q].kind = sock[q].kind,
           sock[q].phase # "bound" => sock'[q].phase # "bound",
           UNCHANGED <<conns, relay>>,
           Shape(q)', Decision(q)', Target(q)'
    PROVE  Identities' /\ \A p \in Ports : PortInv(p)'
<1>1. Identities'
  BY DEF TrackInv, Identities
<1>2. \A p \in Ports \ {q} : PortInv(p)'
  BY DEF TrackInv, PortInv, Shape, Decision, Target, RelayOf
<1>3. RelayOf(q)'
  BY DEF TrackInv, PortInv, RelayOf
<1> QED BY <1>1, <1>2, <1>3 DEF PortInv

LEMMA StandingKept ==
    ASSUME TrackInv, NEW q \in Ports, NEW flags \in {"syn", "data", "synack"}, sock[q] # None, Standing(q, flags),
           flags = "syn" => sock[q].kind = "client",
           flags = "data" => sock[q].phase = "open",
           flags = "synack" => sock[q].kind = "listener"
    PROVE  Identities' /\ \A p \in Ports : PortInv(p)'
<1> DEFINE path == StandingPath(q)
<1>0. TypeOK
  BY DEF TrackInv
<1>1. path \in Paths /\ path # "none"
  BY <1>0, StandingSent
<1>2. /\ \A p \in Ports \ {q} : sock'[p] = sock[p]
      /\ sock'[q].id = sock[q].id /\ sock'[q].pid = sock[q].pid
      /\ sock'[q].dst = sock[q].dst /\ sock'[q].kind = sock[q].kind
      /\ sock'[q].phase = IF flags = "syn" THEN "syn" ELSE sock[q].phase
      /\ sock'[q].path = IF sock[q].path \in {"tunnel", "direct"} THEN sock[q].path ELSE path
  BY <1>0, StandingSent DEF Packet
<1> HIDE DEF path
<1>3. UNCHANGED <<conns, relay, tracked, seen>>
  BY DEF Standing, trackVars
<1>4. Shape(q) /\ Decision(q) /\ Target(q)
  BY DEF TrackInv, PortInv
<1>5. Shape(q)'
  BY <1>1, <1>2, <1>4 DEF Shape, TrackInv, TypeOK, Sockets
<1>6. Decision(q)'
  BY <1>3, <1>4 DEF Decision
<1>7. Target(q)'
  <2>1. CASE flags = "syn"
    <3>1. tracked[q] # None => tracked[q].dst = sock[q].dst
      BY <2>1, Zenon DEF Standing, Stale
    <3> QED BY <1>2, <1>3, <3>1 DEF Target
  <2>2. CASE flags # "syn"
    BY <1>2, <1>3, <1>4, <2>2 DEF Target
  <2> QED BY <2>1, <2>2
<1> QED BY <1>2, <1>3, <1>5, <1>6, <1>7, PacketKept

LEMMA NotDecidedKept ==
    ASSUME TrackInv, NEW q \in Ports, NEW flags \in {"data", "synack"}, sock[q] # None, NotDecided(q, flags),
           flags = "data" => sock[q].phase = "open",
           flags = "synack" => sock[q].kind = "listener"
    PROVE  Identities' /\ \A p \in Ports : PortInv(p)'
<1> DEFINE path == PassedPath(q)
<1>0. TypeOK
  BY DEF TrackInv
<1>1. path \in Paths /\ path # "none"
  BY <1>0, NotDecidedSent
<1>2. /\ \A p \in Ports \ {q} : sock'[p] = sock[p]
      /\ sock'[q].id = sock[q].id /\ sock'[q].pid = sock[q].pid
      /\ sock'[q].dst = sock[q].dst /\ sock'[q].kind = sock[q].kind
      /\ sock'[q].phase = sock[q].phase
      /\ sock'[q].path = IF sock[q].path \in {"tunnel", "direct"} THEN sock[q].path ELSE path
  BY <1>0, NotDecidedSent DEF Packet
<1> HIDE DEF path
<1>3. UNCHANGED <<conns, relay>>
  BY DEF NotDecided
<1>4. Shape(q) /\ Decision(q) /\ Target(q)
  BY DEF TrackInv, PortInv
<1>5. Shape(q)'
  BY <1>1, <1>2, <1>4 DEF Shape, TrackInv, TypeOK, Sockets
<1>6. \/ UNCHANGED <<tracked, seen>>
      \/ tracked' = [tracked EXCEPT ![q] = None] /\ seen' = [seen EXCEPT ![q] = None]
  BY DEF NotDecided, trackVars
<1>7. Decision(q)' /\ Target(q)' /\ \A p \in Ports \ {q} : tracked'[p] = tracked[p] /\ seen'[p] = seen[p]
  BY <1>2, <1>4, <1>6 DEF Decision, Target, TrackInv, TypeOK
<1> QED BY <1>2, <1>3, <1>5, <1>7, PacketKept

LEMMA DecideKept ==
    ASSUME TrackInv, NEW q \in Ports, NEW readable \in BOOLEAN, sock[q] # None, sock[q].kind = "client",
           Decide(q, readable)
    PROVE  Identities' /\ \A p \in Ports : PortInv(p)'
<1> DEFINE l == Lookup(q)
           named == l.pid # None /\ readable
           target == named /\ l.pid \in Routed
           old == IF Stale(q, "syn") THEN None ELSE tracked[q]
           oldSeen == IF Stale(q, "syn") THEN None ELSE seen[q]
           path == DecidedPath(q, readable)
           map == [pid |-> l.pid, dst |-> sock[q].dst]
<1>1. /\ oldSeen = None
      /\ seen' = [seen EXCEPT ![q] = IF named THEN l.pid ELSE oldSeen]
      /\ tracked' = [tracked EXCEPT ![q] = IF target THEN map ELSE old]
      /\ UNCHANGED <<conns, relay>>
  BY DEF Decide
<1>2. l.pid \in {None} \cup Pids
  BY LookupTyped, OwnersTyped DEF TrackInv, TypeOK
<1>3. old = None
  BY <1>1 DEF TrackInv, TypeOK
<1>0. TypeOK
  BY DEF TrackInv
<1>4. path \in Paths /\ path # "none"
  BY <1>0, DecideSent
<1>5. target => map # None /\ map.pid = l.pid /\ map.dst = sock[q].dst
  BY <1>2, TcpAssumption DEF TrackInv, TypeOK, Sockets
<1> HIDE DEF l, old, oldSeen, map
<1>6. /\ \A p \in Ports \ {q} : sock'[p] = sock[p]
      /\ sock'[q].id = sock[q].id /\ sock'[q].pid = sock[q].pid
      /\ sock'[q].dst = sock[q].dst /\ sock'[q].kind = sock[q].kind
      /\ sock'[q].phase = "syn"
      /\ sock'[q].path = IF sock[q].path \in {"tunnel", "direct"} THEN sock[q].path ELSE path
  BY <1>0, DecideSent DEF Packet
<1>7. Shape(q)'
  BY <1>4, <1>6 DEF Shape
<1>8. seen'[q] = (IF named THEN l.pid ELSE None) /\ tracked'[q] = (IF target THEN map ELSE None)
  BY <1>1, <1>3 DEF TrackInv, TypeOK
<1>9. Decision(q)' /\ Target(q)'
  BY <1>5, <1>6, <1>8 DEF Decision, Target
<1>10. \A p \in Ports \ {q} : tracked'[p] = tracked[p] /\ seen'[p] = seen[p]
  BY <1>1 DEF TrackInv, TypeOK
<1> QED BY <1>1, <1>6, <1>7, <1>9, <1>10, PacketKept

LEMMA OpenKept ==
    ASSUME TrackInv, NEW q \in Ports, NEW pid \in Pids, NEW dst \in Dests,
           NEW kind \in {"client", "listener"}, Open(q, pid, dst, kind)
    PROVE  Identities' /\ \A p \in Ports : PortInv(p)'
<1> DEFINE r == [id |-> conns', pid |-> pid, dst |-> dst, kind |-> kind,
                 phase |-> "bound", path |-> "none",
                 struck |-> "none", lag |-> {}, strayed |-> FALSE]
<1>1. /\ conns \in Nat /\ conns' = conns + 1 /\ conns' \in Ids
      /\ sock' = [sock EXCEPT ![q] = r]
      /\ UNCHANGED <<tracked, seen, relay>>
  BY TcpAssumption DEF Open, TrackInv, TypeOK, trackVars, Ids
<1>2. /\ r.id = conns' /\ r.phase = "bound" /\ r.path = "none" /\ r.kind = kind
  OBVIOUS
<1> HIDE DEF r
<1>3. sock'[q] = r /\ \A p \in Ports \ {q} : sock'[p] = sock[p]
  BY <1>1 DEF TrackInv, TypeOK
<1>4. \A p \in Ports \ {q} : sock[p] # None => sock[p].id \in Nat /\ sock[p].id <= conns
  BY DEF TrackInv, TypeOK, Identities, Sockets, Ids
<1>5. relay[conns'].st = "none"
  BY <1>1 DEF TrackInv, Identities
<1>6. Identities'
  <2>1. \A p \in Ports : sock'[p] # None => sock'[p].id <= conns'
    BY <1>1, <1>2, <1>3, <1>4
  <2>2. \A p, p2 \in Ports : sock'[p] # None /\ sock'[p2] # None /\ sock'[p].id = sock'[p2].id => p = p2
    BY <1>1, <1>2, <1>3, <1>4 DEF TrackInv, Identities
  <2>3. \A i \in Ids : relay'[i].st # "none" => i <= conns'
    BY <1>1 DEF TrackInv, Identities, Ids
  <2> QED BY <2>1, <2>2, <2>3 DEF Identities
<1>7. \A p \in Ports \ {q} : PortInv(p)'
  BY <1>1, <1>3 DEF TrackInv, PortInv, Shape, Decision, Target, RelayOf
<1>8. Decision(q)'
  BY <1>1 DEF TrackInv, PortInv, Decision
<1>9. Shape(q)' /\ Target(q)' /\ RelayOf(q)'
  BY <1>1, <1>2, <1>3, <1>5 DEF Shape, Target, RelayOf
<1> QED BY <1>6, <1>7, <1>8, <1>9 DEF PortInv

LEMMA MachineKept ==
    ASSUME TrackInv, Machine
    PROVE  Identities' /\ \A p \in Ports : PortInv(p)'
<1>1. ASSUME NEW q \in Ports, NEW pid \in Pids, NEW dst \in Dests, NEW kind \in {"client", "listener"},
             Open(q, pid, dst, kind)
      PROVE  Identities' /\ \A p \in Ports : PortInv(p)'
  BY <1>1, OpenKept
<1>2. ASSUME NEW q \in Ports, Close(q)
      PROVE  Identities' /\ \A p \in Ports : PortInv(p)'
  <2>1. sock'[q] = None /\ (\A p \in Ports \ {q} : sock'[p] = sock[p])
        /\ UNCHANGED <<conns, relay, tracked, seen>>
    BY <1>2 DEF Close, TrackInv, TypeOK, trackVars
  <2>2. Identities'
    BY <2>1 DEF TrackInv, Identities
  <2>3. \A p \in Ports : PortInv(p)'
    BY <2>1 DEF TrackInv, PortInv, Shape, Decision, Target, RelayOf
  <2> QED BY <2>2, <2>3
<1>3. ASSUME NEW q \in Ports, Establish(q)
      PROVE  Identities' /\ \A p \in Ports : PortInv(p)'
  <2>1. sock[q] # None /\ sock[q] \in Sockets /\ sock[q].phase = "syn" /\ sock[q].kind = "client"
    BY <1>3 DEF Establish, TrackInv, TypeOK
  <2>2. /\ \A p \in Ports \ {q} : sock'[p] = sock[p]
        /\ sock'[q] = [sock[q] EXCEPT !.phase = "open"]
        /\ UNCHANGED <<conns, relay, tracked, seen>>
    BY <1>3 DEF Establish, TrackInv, TypeOK, trackVars
  <2>3. /\ sock'[q].id = sock[q].id /\ sock'[q].dst = sock[q].dst /\ sock'[q].kind = sock[q].kind
        /\ sock'[q].phase = "open" /\ sock'[q].path = sock[q].path
    BY <2>1, <2>2 DEF Sockets
  <2>4. Shape(q) /\ Decision(q) /\ Target(q)
    BY DEF TrackInv, PortInv
  <2>5. Shape(q)' /\ Decision(q)' /\ Target(q)'
    BY <2>1, <2>2, <2>3, <2>4 DEF Shape, Decision, Target
  <2> QED BY <2>1, <2>2, <2>3, <2>5, PacketKept
<1>4. CASE ThrottlesExpire \/ OtherWalk
  BY <1>4 DEF ThrottlesExpire, OtherWalk, trackVars, TrackInv, Identities, PortInv, Shape, Decision,
              Target, RelayOf
<1> QED BY <1>1, <1>2, <1>3, <1>4, Zenon DEF Machine

LEMMA SweepKept ==
    ASSUME TrackInv, Sweep
    PROVE  Identities' /\ \A p \in Ports : PortInv(p)'
<1> DEFINE gone == {q \in Missed : trackMiss[q] = 1}
<1>1. Forget(gone) /\ UNCHANGED <<conns, relay>>
  BY DEF Sweep
<1>0. \A q \in Ports :
         /\ sock'[q] = None <=> sock[q] = None
         /\ sock[q] # None =>
              /\ sock'[q].id = sock[q].id /\ sock'[q].dst = sock[q].dst /\ sock'[q].kind = sock[q].kind
              /\ sock'[q].phase = sock[q].phase /\ sock'[q].path = sock[q].path
  BY <1>1, ForgetSock DEF TrackInv, TypeOK
<1> HIDE DEF gone
<1>2. \A q \in Ports : \/ tracked'[q] = None /\ seen'[q] = None
                       \/ tracked'[q] = tracked[q] /\ seen'[q] = seen[q]
  BY <1>1 DEF Forget
<1>3. Identities'
  BY <1>0, <1>1 DEF TrackInv, Identities
<1>4. \A q \in Ports : PortInv(q)'
  BY <1>0, <1>1, <1>2 DEF TrackInv, PortInv, Shape, Decision, Target, RelayOf
<1> QED BY <1>3, <1>4

(* A relay whose stage changes and that keeps its port.                    *)
LEMMA RelayKept ==
    ASSUME TrackInv, NEW i \in Ids, UNCHANGED <<sock, conns, tracked, seen>>,
           \A j \in Ids \ {i} : relay'[j] = relay[j],
           relay[i].st # "none", relay'[i].port = relay[i].port,
           \A q \in Ports : sock[q] # None /\ sock[q].id = i /\ relay'[i].st \in {"dialing", "open"}
              => relay'[i].to = sock[q].dst
    PROVE  Identities' /\ \A p \in Ports : PortInv(p)'
<1>1. Identities'
  BY DEF TrackInv, Identities
<1>2. ASSUME NEW q \in Ports PROVE PortInv(q)'
  <2>1. Shape(q)' /\ Decision(q)' /\ Target(q)'
    BY DEF TrackInv, PortInv, Shape, Decision, Target
  <2>2. RelayOf(q)'
    <3>1. sock[q] # None => sock[q].id \in Ids
      BY DEF TrackInv, TypeOK, Sockets
    <3>2. RelayOf(q)
      BY DEF TrackInv, PortInv
    <3> QED BY <3>1, <3>2 DEF RelayOf
  <2> QED BY <2>1, <2>2 DEF PortInv
<1> QED BY <1>1, <1>2

LEMMA RelayStepKept ==
    ASSUME TrackInv, NEW i \in Ids, ReadMapping(i) \/ DialEnds(i) \/ RelayEnds(i)
    PROVE  Identities' /\ \A p \in Ports : PortInv(p)'
<1>1. UNCHANGED <<sock, conns, tracked, seen>>
  BY DEF ReadMapping, DialEnds, RelayEnds, trackVars
<1>2. \A st, to : RelayTo(i, st, to) =>
         /\ \A j \in Ids \ {i} : relay'[j] = relay[j]
         /\ relay'[i].port = relay[i].port /\ relay'[i].st = st /\ relay'[i].to = to
  BY DEF RelayTo, TrackInv, TypeOK, Relays
<1>3. \A q \in Ports : sock[q] # None /\ sock[q].id = i /\ relay[i].st # "none" =>
         /\ relay[i].port = q
         /\ tracked[q] # None => tracked[q].dst = sock[q].dst
         /\ relay[i].st \in {"dialing", "open"} => relay[i].to = sock[q].dst
  BY DEF TrackInv, PortInv, RelayOf, Target
<1>4. CASE ReadMapping(i)
  <2> DEFINE m == tracked[relay[i].port]
  <2>1. relay[i].st = "accepted" /\ (RelayTo(i, "closed", None) \/ (m # None /\ RelayTo(i, "dialing", m.dst)))
    BY <1>4, Zenon DEF ReadMapping
  <2>2. relay[i].st # "none"
    BY <2>1
  <2>3. /\ \A j \in Ids \ {i} : relay'[j] = relay[j]
        /\ relay'[i].port = relay[i].port
        /\ relay'[i].st = "closed" \/ (m # None /\ relay'[i].st = "dialing" /\ relay'[i].to = m.dst)
    BY <1>2, <2>1
  <2>4. \A q \in Ports : sock[q] # None /\ sock[q].id = i /\ relay'[i].st \in {"dialing", "open"}
              => relay'[i].to = sock[q].dst
    BY <1>3, <2>2, <2>3
  <2> QED BY <1>1, <2>2, <2>3, <2>4, RelayKept
<1>5. CASE DialEnds(i)
  <2>1. relay[i].st = "dialing" /\ (RelayTo(i, "closed", None) \/ RelayTo(i, "open", relay[i].to))
    BY <1>5, Zenon DEF DialEnds
  <2>2. relay[i].st # "none"
    BY <2>1
  <2>3. /\ \A j \in Ids \ {i} : relay'[j] = relay[j]
        /\ relay'[i].port = relay[i].port
        /\ relay'[i].st = "closed" \/ (relay'[i].st = "open" /\ relay'[i].to = relay[i].to)
    BY <1>2, <2>1
  <2>4. \A q \in Ports : sock[q] # None /\ sock[q].id = i /\ relay'[i].st \in {"dialing", "open"}
              => relay'[i].to = sock[q].dst
    BY <1>3, <2>1, <2>2, <2>3
  <2> QED BY <1>1, <2>2, <2>3, <2>4, RelayKept
<1>6. CASE RelayEnds(i)
  <2>1. relay[i].st = "open" /\ RelayTo(i, "closed", None)
    BY <1>6, Zenon DEF RelayEnds
  <2>2. relay[i].st # "none"
    BY <2>1
  <2>3. /\ \A j \in Ids \ {i} : relay'[j] = relay[j]
        /\ relay'[i].port = relay[i].port /\ relay'[i].st = "closed"
    BY <1>2, <2>1
  <2> QED BY <1>1, <2>2, <2>3, RelayKept
<1> QED BY <1>4, <1>5, <1>6

LEMMA AcceptKept ==
    ASSUME TrackInv, NEW q \in Ports, Accept(q)
    PROVE  Identities' /\ \A p \in Ports : PortInv(p)'
<1> DEFINE i == sock[q].id
           r == [NoRelay EXCEPT !.port = q, !.dst = sock[q].dst, !.st = "accepted"]
<1>1. /\ sock[q] # None /\ sock[q].kind = "client" /\ sock[q].path = "tunnel"
      /\ relay' = [relay EXCEPT ![i] = r]
      /\ UNCHANGED <<sock, conns, tracked, seen>>
  BY DEF Accept, trackVars
<1>2. i \in Ids /\ i <= conns /\ relay[i].st = "none" /\ sock[q].phase # "bound"
  BY <1>1 DEF Accept, TrackInv, TypeOK, Sockets, Identities, PortInv, Shape
<1>3. r.port = q /\ r.st = "accepted"
  BY NoRelayTyped DEF NoRelay
<1> HIDE DEF r
<1>4. relay'[i] = r /\ \A j \in Ids \ {i} : relay'[j] = relay[j]
  BY <1>1, <1>2 DEF TrackInv, TypeOK
<1>5. Identities'
  BY <1>1, <1>2, <1>4 DEF TrackInv, Identities
<1>6. ASSUME NEW p \in Ports PROVE PortInv(p)'
  <2>1. Shape(p)' /\ Decision(p)' /\ Target(p)'
    BY <1>1 DEF TrackInv, PortInv, Shape, Decision, Target
  <2>2. CASE sock[p] # None /\ p # q
    <3>1. sock[p].id \in Ids /\ sock[p].id # i
      BY <1>1, <2>2 DEF TrackInv, TypeOK, Sockets, Identities
    <3> QED BY <1>1, <1>4, <2>1, <3>1 DEF TrackInv, PortInv, RelayOf
  <2>3. CASE sock[p] = None
    BY <1>1, <2>1, <2>3 DEF PortInv, RelayOf
  <2>4. CASE p = q
    BY <1>1, <1>2, <1>3, <1>4, <2>1, <2>4 DEF PortInv, RelayOf
  <2> QED BY <2>2, <2>3, <2>4
<1> QED BY <1>5, <1>6

LEMMA CloseRelaysKept ==
    ASSUME TrackInv, CloseRelays
    PROVE  Identities' /\ \A p \in Ports : PortInv(p)'
<1>1. UNCHANGED <<sock, conns, tracked, seen>>
  BY DEF CloseRelays, trackVars
<1>2. ASSUME NEW i \in Ids
      PROVE  relay'[i].st = relay[i].st /\ relay'[i].port = relay[i].port /\ relay'[i].to = relay[i].to
  <2>1. relay'[i] \in {relay[i], [relay[i] EXCEPT !.cut = TRUE]} /\ relay[i] \in Relays
    BY DEF CloseRelays, TrackInv, TypeOK
  <2> QED BY <2>1 DEF Relays
<1>3. Identities'
  BY <1>1, <1>2 DEF TrackInv, Identities
<1>4. \A q \in Ports : sock[q] # None => sock[q].id \in Ids
  BY DEF TrackInv, TypeOK, Sockets
<1>5. \A q \in Ports : PortInv(q)'
  BY <1>1, <1>2, <1>4 DEF TrackInv, PortInv, Shape, Decision, Target, RelayOf
<1> QED BY <1>3, <1>5

LEMMA PacketStepKept ==
    ASSUME TrackInv, NEW q \in Ports, Syn(q) \/ Data(q) \/ SynAck(q)
    PROVE  Identities' /\ \A p \in Ports : PortInv(p)'
<1>1. CASE Syn(q)
  <2>1. sock[q] # None /\ sock[q].kind = "client"
    BY <1>1 DEF Syn
  <2>2. Standing(q, "syn") \/ \E readable \in BOOLEAN : Decide(q, readable)
    BY <1>1, Zenon DEF Syn
  <2> QED BY <2>1, <2>2, StandingKept, DecideKept
<1>2. CASE Data(q)
  BY <1>2, StandingKept, NotDecidedKept DEF Data
<1>3. CASE SynAck(q)
  BY <1>3, StandingKept, NotDecidedKept DEF SynAck
<1> QED BY <1>1, <1>2, <1>3

LEMMA TrackStep ==
    ASSUME TrackInv, [Next]_vars
    PROVE  TrackInv'
<1>1. CASE Machine
  BY <1>1, MachineKept, TypeStep DEF TrackInv
<1>2. CASE RefreshWalk \/ RefreshStore \/ UNCHANGED vars
  <2>1. UNCHANGED <<sock, conns, tracked, seen, relay>>
    BY <1>2 DEF RefreshWalk, RefreshStore, vars, trackVars
  <2>2. Identities' /\ \A q \in Ports : PortInv(q)'
    BY <2>1 DEF TrackInv, Identities, PortInv, Shape, Decision, Target, RelayOf
  <2> QED BY <2>2, TypeStep DEF TrackInv
<1>3. CASE Sweep
  BY <1>3, SweepKept, TypeStep DEF TrackInv
<1>4. CASE CloseRelays
  BY <1>4, CloseRelaysKept, TypeStep DEF TrackInv
<1>5. ASSUME NEW q \in Ports, Syn(q) \/ Data(q) \/ SynAck(q)
      PROVE  TrackInv'
  BY <1>5, PacketStepKept, TypeStep DEF TrackInv
<1>6. ASSUME NEW q \in Ports, Accept(q)
      PROVE  TrackInv'
  BY <1>6, AcceptKept, TypeStep DEF TrackInv
<1>7. ASSUME NEW i \in Ids, ReadMapping(i) \/ DialEnds(i) \/ RelayEnds(i)
      PROVE  TrackInv'
  BY <1>7, RelayStepKept, TypeStep DEF TrackInv
<1> QED BY <1>1, <1>2, <1>3, <1>4, <1>5, <1>6, <1>7, Zenon DEF Next

LEMMA TrackInvHolds == Spec => []TrackInv
BY TrackInit, TrackStep, PTL DEF Spec

(* handleRedirect reads a mapping by its port alone; the connection it was *)
(* accepted for, if it lives, is the one the mapping is of.                *)
THEOREM NoMisrouteHolds == Spec => []NoMisroute
<1>1. TrackInv => NoMisroute
  BY DEF TrackInv, PortInv, RelayOf, NoMisroute
<1> QED BY <1>1, TrackInvHolds, PTL

---------------------------------------------------------------------------
(* Decisions and the lag of the tables                                     *)

Own(q) == sock[q].lag \cap {"misnamed", "inherited"} = {}

(* Where the tables belied no SYN of a connection, its decision is its own *)
(* process's and its packets took the side of that decision; it is lost    *)
(* with two strikes only, and a strike against a live connection's         *)
(* decision is one that its struck remembers.                              *)
Kept(q) ==
    sock[q] # None /\ sock[q].kind = "client" =>
        /\ sock[q].phase # "bound" /\ seen[q] # None /\ trackMiss[q] = 1 => sock[q].struck # "none"
        /\ Own(q) =>
             /\ sock[q].phase # "bound" => seen[q] \in {None, sock[q].pid}
             /\ sock[q].pid \in Routed => sock[q].path # "direct"
             /\ sock[q].pid \notin Routed => sock[q].path # "tunnel"
        /\ sock[q].lag = {} /\ sock[q].path \in {"tunnel", "direct"} => seen[q] = sock[q].pid
        /\ ~sock[q].strayed
KeptInv == TrackInv /\ \A q \in Ports : Kept(q)

LEMMA KeptInit == Init => KeptInv
<1> SUFFICES ASSUME Init PROVE KeptInv
    OBVIOUS
<1>1. \A q \in Ports : sock[q] = None
  BY DEF Init
<1> QED BY <1>1, TrackInit DEF KeptInv, Kept

LEMMA OthersKept ==
    ASSUME KeptInv, NEW q \in Ports, Kept(q)',
           \A p \in Ports \ {q} : /\ sock'[p] = sock[p] /\ seen'[p] = seen[p]
                                  /\ trackMiss'[p] = trackMiss[p]
    PROVE  \A p \in Ports : Kept(p)'
BY DEF KeptInv, Kept, Own

(* A packet of a decided client.  On a SYN, Belied is told if the decision *)
(* is another's; a data packet cannot tell.                                *)
LEMMA StandingKeeps ==
    ASSUME KeptInv, NEW q \in Ports, NEW flags \in {"syn", "data"}, sock[q] # None, sock[q].kind = "client",
           Standing(q, flags), flags = "data" => sock[q].phase = "open"
    PROVE  \A p \in Ports : Kept(p)'
<1> DEFINE path == StandingPath(q)
           lag == StandingLag(q, flags)
           struck == StandingStruck(q, flags)
<1>1. /\ TypeOK /\ sock[q] \in Sockets /\ sock[q].pid \in Pids
      /\ seen' = seen /\ trackMiss' = trackMiss /\ seen[q] # None /\ ~Stale(q, flags)
  BY DEF Standing, trackVars, KeptInv, TrackInv, TypeOK, Sockets
<1>2. /\ \A p \in Ports \ {q} : sock'[p] = sock[p]
      /\ sock'[q].pid = sock[q].pid /\ sock'[q].kind = sock[q].kind
      /\ sock'[q].phase = IF flags = "syn" THEN "syn" ELSE sock[q].phase
      /\ sock'[q].path = IF sock[q].path \in {"tunnel", "direct"} THEN sock[q].path ELSE path
      /\ sock'[q].struck = struck /\ sock'[q].lag = sock[q].lag \cup lag
      /\ \/ sock'[q].strayed => sock[q].strayed
         \/ sock[q].path \in {"tunnel", "direct"} /\ path # sock[q].path /\ sock[q].lag \cup lag = {}
  BY <1>1, StandingSent DEF Packet
<1>3. Kept(q) /\ Decision(q) /\ Shape(q)
  BY DEF KeptInv, TrackInv, PortInv
<1>4. path = IF seen[q] \in Routed THEN "tunnel" ELSE "direct"
  BY <1>1, <1>3 DEF Decision, StandingPath
(* The decision met is the connection's own, or lag says otherwise.        *)
<1>5. Own(q)' => Own(q) /\ seen[q] = sock[q].pid
  <2>1. Own(q)' => Own(q) /\ "misnamed" \notin lag /\ "inherited" \notin lag
    BY <1>2 DEF Own
  <2>2. CASE flags = "syn"
    <3>1. lag = Belied(q, TRUE)
      BY <2>2 DEF StandingLag
    <3>2. "misnamed" \notin lag /\ "inherited" \notin lag => seen[q] = sock[q].pid
      <4>1. CASE table[q] = None
        BY <3>1, <4>1 DEF Belied
      <4>2. CASE table[q] # None
        <5>1. "misnamed" \notin lag => table[q] = sock[q].pid
          BY <3>1, <4>2 DEF Belied
        <5>2. tracked[q] # None => table[q] = tracked[q].pid
          BY <1>1, <2>2, <4>2 DEF Stale
        <5>3. tracked[q] = None => table[q] = seen[q]
          BY <1>1, <2>2, <4>2 DEF Stale
        <5> QED BY <1>3, <5>1, <5>2, <5>3 DEF Decision
      <4> QED BY <4>1, <4>2
    <3> QED BY <2>1, <3>2
  <2>3. CASE flags = "data"
    BY <1>1, <1>3, <2>1, <2>3 DEF Kept
  <2> QED BY <2>1, <2>2, <2>3
<1>6. sock'[q].lag = {} => Own(q)' /\ sock[q].lag = {}
  BY <1>2 DEF Own
<1>7. sock'[q].phase # "bound" /\ seen'[q] # None /\ trackMiss'[q] = 1 => sock'[q].struck # "none"
  <2>1. CASE flags = "syn" /\ sock[q].phase = "bound" /\ trackMiss[q] = 1
    BY <1>2, <2>1 DEF StandingStruck
  <2>2. CASE ~(flags = "syn" /\ sock[q].phase = "bound" /\ trackMiss[q] = 1)
    <3>1. struck = sock[q].struck
      BY <2>2 DEF StandingStruck
    <3>2. trackMiss[q] = 1 => sock[q].phase # "bound"
      BY <2>2
    <3> QED BY <1>1, <1>2, <1>3, <3>1, <3>2 DEF Kept
  <2> QED BY <2>1, <2>2
<1> HIDE DEF path, lag, struck
<1>8. ~sock'[q].strayed
  <2>1. sock[q].lag \cup lag = {} /\ sock[q].path \in {"tunnel", "direct"} => path = sock[q].path
    BY <1>2, <1>3, <1>4, <1>5, <1>6 DEF Kept
  <2> QED BY <1>2, <1>3, <2>1 DEF Kept
<1>9. Own(q)' => /\ sock'[q].pid \in Routed => sock'[q].path # "direct"
                 /\ sock'[q].pid \notin Routed => sock'[q].path # "tunnel"
  BY <1>2, <1>3, <1>4, <1>5 DEF Kept
<1>10. Kept(q)'
  BY <1>1, <1>2, <1>5, <1>6, <1>7, <1>8, <1>9 DEF Kept
<1> QED BY <1>1, <1>2, <1>10, OthersKept

LEMMA DecideKeeps ==
    ASSUME KeptInv, NEW q \in Ports, NEW readable \in BOOLEAN, sock[q] # None, sock[q].kind = "client",
           Decide(q, readable)
    PROVE  \A p \in Ports : Kept(p)'
<1> DEFINE l == Lookup(q)
           named == l.pid # None /\ readable
           target == named /\ l.pid \in Routed
           oldSeen == IF Stale(q, "syn") THEN None ELSE seen[q]
           path == DecidedPath(q, readable)
           lag == Belied(q, FALSE)
<1>1. /\ oldSeen = None
      /\ seen' = [seen EXCEPT ![q] = IF named THEN l.pid ELSE oldSeen]
      /\ trackMiss' = [trackMiss EXCEPT ![q] = 0]
  BY DEF Decide
<1>2. TypeOK /\ sock[q] \in Sockets /\ sock[q].pid \in Pids
  BY DEF KeptInv, TrackInv, TypeOK, Sockets
<1>3. Kept(q) /\ Decision(q) /\ Target(q) /\ Shape(q)
  BY DEF KeptInv, TrackInv, PortInv
<1>4. "misnamed" \notin lag => table[q] \in {None, sock[q].pid}
  BY DEF Belied
<1>5. "misnamed" \notin lag => l.pid \in {None, sock[q].pid}
  BY <1>2, <1>4, LookupTyped DEF Owner
(* No standing decision of the connection's own is ever stale.             *)
<1>6. "misnamed" \notin lag /\ sock[q].lag = {} => sock[q].path \notin {"tunnel", "direct"}
  <2> SUFFICES ASSUME "misnamed" \notin lag, sock[q].lag = {}, sock[q].path \in {"tunnel", "direct"} PROVE FALSE
    OBVIOUS
  <2>1. seen[q] = sock[q].pid /\ seen[q] # None
    BY <1>2, <1>3, TcpAssumption DEF Kept
  <2>2. tracked[q] # None => tracked[q].dst = sock[q].dst /\ tracked[q].pid = sock[q].pid
    BY <1>3, <2>1 DEF Target, Decision, Shape
  <2>3. ~Stale(q, "syn")
    BY <1>4, <2>1, <2>2 DEF Stale
  <2> QED BY <1>1, <2>1, <2>3
<1>0. path = IF target THEN "tunnel" ELSE IF named THEN "direct"
              ELSE IF l.pid = None THEN "unknown" ELSE "unnamed"
  BY DEF DecidedPath
<1> HIDE DEF l, oldSeen, lag
<1>7. /\ \A p \in Ports \ {q} : sock'[p] = sock[p]
      /\ sock'[q].pid = sock[q].pid /\ sock'[q].kind = sock[q].kind /\ sock'[q].phase = "syn"
      /\ sock'[q].path = IF sock[q].path \in {"tunnel", "direct"} THEN sock[q].path ELSE path
      /\ sock'[q].lag = sock[q].lag \cup lag
      /\ \/ sock'[q].strayed => sock[q].strayed
         \/ sock[q].path \in {"tunnel", "direct"} /\ sock[q].lag \cup lag = {}
  BY <1>2, DecideSent DEF Packet, lag
<1>8. /\ seen'[q] = (IF named THEN l.pid ELSE None) /\ trackMiss'[q] = 0
      /\ \A p \in Ports \ {q} : seen'[p] = seen[p] /\ trackMiss'[p] = trackMiss[p]
  BY <1>1, <1>2 DEF TypeOK
<1>9. Own(q)' => Own(q) /\ l.pid \in {None, sock[q].pid}
  BY <1>5, <1>7 DEF Own
<1>10. ~sock'[q].strayed
  BY <1>3, <1>6, <1>7 DEF Kept
<1>11. Own(q)' => /\ sock'[q].pid \in Routed => sock'[q].path # "direct"
                  /\ sock'[q].pid \notin Routed => sock'[q].path # "tunnel"
  BY <1>0, <1>3, <1>7, <1>9 DEF Kept
<1>12. sock'[q].lag = {} /\ sock'[q].path \in {"tunnel", "direct"} => seen'[q] = sock'[q].pid
  <2>1. sock'[q].lag = {} => Own(q)' /\ "misnamed" \notin lag /\ sock[q].lag = {}
    BY <1>7 DEF Own
  <2> QED BY <1>0, <1>6, <1>7, <1>8, <1>9, <2>1
<1>13. Kept(q)'
  BY <1>7, <1>8, <1>9, <1>10, <1>11, <1>12 DEF Kept
<1> QED BY <1>7, <1>8, <1>13, OthersKept

LEMMA DataKeeps ==
    ASSUME KeptInv, NEW q \in Ports, Data(q)
    PROVE  \A p \in Ports : Kept(p)'
<1>1. /\ TypeOK /\ sock[q] # None /\ sock[q] \in Sockets /\ sock[q].pid \in Pids
      /\ sock[q].phase = "open" /\ ~Stale(q, "data")
  BY DEF Data, Stale, KeptInv, TrackInv, TypeOK, Sockets
<1>2. Kept(q) /\ Shape(q)
  BY DEF KeptInv, TrackInv, PortInv
<1>3. sock[q].kind = "client" /\ sock[q].path # "none"
  BY <1>1, <1>2 DEF Shape, Sockets
<1>4. CASE Standing(q, "data")
  BY <1>1, <1>3, <1>4, StandingKeeps
<1>5. CASE NotDecided(q, "data")
  <2>1. UNCHANGED <<seen, trackMiss>> /\ seen[q] = None
    BY <1>1, <1>5, Zenon DEF NotDecided, trackVars
  <2>2. PassedPath(q) \in {"unknown", "unnamed", "direct"}
        /\ (sock[q].path \notin {"tunnel", "direct"} => PassedPath(q) = sock[q].path)
    BY <1>1, <1>3 DEF PassedPath, Sockets, Paths
  <2>3. /\ \A p \in Ports \ {q} : sock'[p] = sock[p]
        /\ sock'[q].pid = sock[q].pid /\ sock'[q].kind = sock[q].kind
        /\ sock'[q].path = IF sock[q].path \in {"tunnel", "direct"} THEN sock[q].path ELSE PassedPath(q)
        /\ sock'[q].phase = sock[q].phase
        /\ sock'[q].struck = sock[q].struck /\ sock'[q].lag = sock[q].lag \cup {}
        /\ \/ sock'[q].strayed => sock[q].strayed
           \/ sock[q].path \in {"tunnel", "direct"} /\ sock[q].lag \cup {} = {}
    BY <1>1, <1>5, NotDecidedSent DEF Packet
  <2>4. sock'[q].path = sock[q].path /\ sock'[q].lag = sock[q].lag
    BY <2>2, <2>3
  <2>5. sock[q].lag = {} => sock[q].path \notin {"tunnel", "direct"}
    BY <1>1, <1>2, <1>3, <2>1, TcpAssumption DEF Kept
  <2>6. Kept(q)'
    BY <1>1, <1>2, <1>3, <2>1, <2>3, <2>4, <2>5 DEF Kept, Own
  <2> QED BY <2>1, <2>3, <2>6, OthersKept
<1> QED BY <1>4, <1>5 DEF Data

LEMMA SynAckKeeps ==
    ASSUME KeptInv, NEW q \in Ports, SynAck(q)
    PROVE  \A p \in Ports : Kept(p)'
<1>1. TypeOK /\ sock[q] # None /\ sock[q] \in Sockets /\ sock[q].kind = "listener"
  BY DEF SynAck, KeptInv, TrackInv, TypeOK
<1>2. sock'[q].kind = "listener" /\ \A p \in Ports \ {q} : sock'[p] = sock[p]
  BY <1>1, StandingSent, NotDecidedSent DEF SynAck, Packet
<1>3. \A p \in Ports \ {q} : seen'[p] = seen[p] /\ trackMiss'[p] = trackMiss[p]
  BY <1>1 DEF SynAck, Standing, NotDecided, trackVars, TypeOK
<1>4. Kept(q)'
  BY <1>2 DEF Kept
<1> QED BY <1>2, <1>3, <1>4, OthersKept

(* A sweep forgets a live connection's decision with its second strike.    *)
LEMMA SweepKeeps ==
    ASSUME KeptInv, Sweep
    PROVE  \A p \in Ports : Kept(p)'
<1> DEFINE gone == {q \in Missed : trackMiss[q] = 1}
<1>1. Forget(gone) /\ trackMiss' = [q \in Ports |-> IF q \in Missed \ gone THEN 1 ELSE 0]
  BY DEF Sweep
<1>2. \A q \in gone : seen[q] # None /\ trackMiss[q] = 1
  BY DEF Missed
<1>3. \A q \in Ports : trackMiss'[q] = 1 => seen[q] # None /\ table[q] = None /\ q \notin gone
  BY <1>1 DEF Missed
<1> HIDE DEF gone
<1>4. \A q \in Ports : seen'[q] = IF q \in gone THEN None ELSE seen[q]
  BY <1>1 DEF Forget
<1>5. ASSUME NEW q \in Ports, sock'[q] # None, sock'[q].kind = "client" PROVE Kept(q)'
  <2>1. /\ sock[q] # None
        /\ sock'[q].pid = sock[q].pid /\ sock'[q].kind = sock[q].kind
        /\ sock'[q].phase = sock[q].phase /\ sock'[q].path = sock[q].path
        /\ sock'[q].strayed = sock[q].strayed
        /\ seen[q] # None /\ sock[q].phase # "bound" =>
             /\ sock'[q].struck = IF table[q] = None /\ q \notin gone THEN "unlisted" ELSE "none"
             /\ sock'[q].lag = IF q \in gone
                   THEN sock[q].lag \cup ({sock[q].struck} \ {"none"}) ELSE sock[q].lag
        /\ seen[q] = None \/ sock[q].phase = "bound" => sock'[q] = sock[q]
    BY <1>1, <1>5, ForgetSock DEF KeptInv, TrackInv, TypeOK
  <2>2. Kept(q) /\ Shape(q)
    BY DEF KeptInv, TrackInv, PortInv
  <2>3. sock'[q].phase # "bound" /\ seen'[q] # None /\ trackMiss'[q] = 1 => sock'[q].struck # "none"
    BY <1>3, <2>1
  <2>4. Own(q)' => Own(q)
    BY <2>1 DEF Own
  <2>5. Own(q)' => /\ sock'[q].phase # "bound" => seen'[q] \in {None, sock'[q].pid}
                   /\ sock'[q].pid \in Routed => sock'[q].path # "direct"
                   /\ sock'[q].pid \notin Routed => sock'[q].path # "tunnel"
    BY <1>4, <1>5, <2>1, <2>2, <2>4 DEF Kept
  <2>6. sock'[q].lag = {} /\ sock'[q].path \in {"tunnel", "direct"} => seen'[q] = sock'[q].pid
    <3> SUFFICES ASSUME sock'[q].lag = {}, sock'[q].path \in {"tunnel", "direct"}
                 PROVE  seen'[q] = sock'[q].pid
      OBVIOUS
    <3>1. sock[q].phase # "bound"
      BY <1>5, <2>1, <2>2 DEF Shape
    <3>2. CASE seen[q] = None
      BY <1>2, <1>4, <1>5, <2>1, <2>2, <3>2 DEF Kept
    <3>3. CASE q \in gone
      <4>1. sock[q].struck # "none"
        BY <1>2, <1>5, <2>1, <2>2, <3>1, <3>3 DEF Kept
      <4>2. sock[q].struck \in sock'[q].lag
        BY <1>2, <2>1, <3>1, <3>3, <4>1
      <4> QED BY <4>2
    <3>4. CASE seen[q] # None /\ q \notin gone
      BY <1>4, <1>5, <2>1, <2>2, <3>1, <3>4 DEF Kept
    <3> QED BY <3>2, <3>3, <3>4
  <2> QED BY <1>5, <2>1, <2>2, <2>3, <2>5, <2>6 DEF Kept
<1> QED BY <1>5 DEF Kept

LEMMA MachineKeeps ==
    ASSUME KeptInv, Machine
    PROVE  \A p \in Ports : Kept(p)'
<1>1. ASSUME NEW q \in Ports, NEW pid \in Pids, NEW dst \in Dests, NEW kind \in {"client", "listener"},
             Open(q, pid, dst, kind)
      PROVE  \A p \in Ports : Kept(p)'
  <2>1. /\ sock'[q].phase = "bound" /\ sock'[q].path = "none" /\ ~sock'[q].strayed
        /\ \A p \in Ports \ {q} : /\ sock'[p] = sock[p] /\ seen'[p] = seen[p]
                                  /\ trackMiss'[p] = trackMiss[p]
    <3> DEFINE r == [id |-> conns', pid |-> pid, dst |-> dst, kind |-> kind,
                     phase |-> "bound", path |-> "none",
                     struck |-> "none", lag |-> {}, strayed |-> FALSE]
    <3>1. sock' = [sock EXCEPT ![q] = r] /\ seen' = seen /\ trackMiss' = trackMiss
      BY <1>1 DEF Open, trackVars
    <3>2. r.phase = "bound" /\ r.path = "none" /\ ~r.strayed
      OBVIOUS
    <3> HIDE DEF r
    <3> QED BY <3>1, <3>2 DEF KeptInv, TrackInv, TypeOK
  <2>2. Kept(q)'
    BY <2>1 DEF Kept
  <2> QED BY <2>1, <2>2, OthersKept
<1>2. ASSUME NEW q \in Ports, Close(q)
      PROVE  \A p \in Ports : Kept(p)'
  <2>1. sock'[q] = None /\ \A p \in Ports \ {q} : /\ sock'[p] = sock[p] /\ seen'[p] = seen[p]
                                                  /\ trackMiss'[p] = trackMiss[p]
    BY <1>2 DEF Close, KeptInv, TrackInv, TypeOK, trackVars
  <2> QED BY <2>1, OthersKept DEF Kept
<1>3. ASSUME NEW q \in Ports, Establish(q)
      PROVE  \A p \in Ports : Kept(p)'
  <2>1. sock[q] # None /\ sock[q] \in Sockets /\ sock[q].phase = "syn"
    BY <1>3 DEF Establish, KeptInv, TrackInv, TypeOK
  <2>2. /\ sock'[q] = [sock[q] EXCEPT !.phase = "open"]
        /\ \A p \in Ports \ {q} : sock'[p] = sock[p]
        /\ seen' = seen /\ trackMiss' = trackMiss
    BY <1>3 DEF Establish, KeptInv, TrackInv, TypeOK, trackVars
  <2>3. /\ sock'[q].pid = sock[q].pid /\ sock'[q].kind = sock[q].kind
        /\ sock'[q].path = sock[q].path /\ sock'[q].strayed = sock[q].strayed
        /\ sock'[q].struck = sock[q].struck /\ sock'[q].lag = sock[q].lag
    BY <2>1, <2>2 DEF Sockets
  <2>4. Kept(q)'
    BY <2>1, <2>2, <2>3 DEF KeptInv, Kept, Own
  <2> QED BY <2>2, <2>4, OthersKept
<1>4. CASE ThrottlesExpire \/ OtherWalk
  BY <1>4 DEF ThrottlesExpire, OtherWalk, trackVars, KeptInv, Kept, Own
<1> QED BY <1>1, <1>2, <1>3, <1>4, Zenon DEF Machine

LEMMA KeptStep ==
    ASSUME KeptInv, [Next]_vars
    PROVE  KeptInv'
<1>1. TrackInv'
  BY TrackStep DEF KeptInv
<1>2. CASE Machine
  BY <1>1, <1>2, MachineKeeps DEF KeptInv
<1>3. CASE Sweep
  BY <1>1, <1>3, SweepKeeps DEF KeptInv
<1>4. ASSUME NEW q \in Ports, Syn(q) \/ Data(q) \/ SynAck(q)
      PROVE  KeptInv'
  <2>1. Syn(q) => \A p \in Ports : Kept(p)'
    BY StandingKeeps, DecideKeeps DEF Syn
  <2> QED BY <1>1, <1>4, <2>1, DataKeeps, SynAckKeeps DEF KeptInv
<1>5. CASE UNCHANGED <<sock, seen, trackMiss>>
  BY <1>1, <1>5 DEF KeptInv, Kept, Own
<1>6. CASE RefreshWalk \/ RefreshStore \/ CloseRelays \/ UNCHANGED vars
  BY <1>5, <1>6 DEF RefreshWalk, RefreshStore, CloseRelays, vars, trackVars
<1>7. ASSUME NEW q \in Ports, Accept(q)
      PROVE  KeptInv'
  BY <1>5, <1>7 DEF Accept, trackVars
<1>8. ASSUME NEW i \in Ids, ReadMapping(i) \/ DialEnds(i) \/ RelayEnds(i)
      PROVE  KeptInv'
  BY <1>5, <1>8 DEF ReadMapping, DialEnds, RelayEnds, trackVars
<1> QED BY <1>2, <1>3, <1>4, <1>6, <1>7, <1>8, Zenon DEF Next

LEMMA KeptInvHolds == Spec => []KeptInv
BY KeptInit, KeptStep, PTL DEF Spec

(* A reused port passes a decision from one process to the next only where *)
(* a table names another process at a SYN (misnamed), or nobody while the  *)
(* old decision stands (inherited).                                        *)
THEOREM OwnDecisionHolds == Spec => []OwnDecision
<1>1. KeptInv => OwnDecision
  BY DEF KeptInv, Kept, Own, OwnDecision
<1> QED BY <1>1, KeptInvHolds, PTL

(* A connection that has taken a side keeps it, through sweeps, stale      *)
(* tables and throttled look-ups, but for the four ways in which the       *)
(* tables can lag under it.                                                *)
THEOREM OnePathHolds == Spec => []OnePath
<1>1. KeptInv => OnePath
  BY DEF KeptInv, Kept, OnePath
<1> QED BY <1>1, KeptInvHolds, PTL
=============================================================================
