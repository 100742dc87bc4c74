------------------------------- MODULE Proxy -------------------------------
(***************************************************************************)
(* The mixed proxy (internal/proxy/mixed.go) over the decision engine      *)
(* (Rules), with forceWGForPort of internal/daemon.                        *)
(*                                                                         *)
(* A goroutine serves each client connection: it decides the route, then   *)
(* takes Server.mu to track the connection, and takes it again to untrack. *)
(* Rebalance runs in applyManual, after the rules are published: it reads  *)
(* the tracked connections under Server.mu and closes the stale ones after *)
(* it has let go of it.                                                    *)
(***************************************************************************)
EXTENDS Rules

CONSTANTS Conns,   \* slots for client connections that exist at once
          Apps,    \* the applications that use the proxy
          Selected,\* those of Daemon.selApps (Daemon models its changes)
          None     \* no application, no host

VARIABLES
    conn,      \* [Conns -> the goroutine of a connection and its connRoute]
    active,    \* Server.active: the tracked connections
    stale,     \* what Rebalance has collected and not closed yet
    snap       \* Daemon.portSnap: [Conns -> Apps, or None], or None

proxyVars == <<conn, active, stale, snap>>
vars == <<ruleVars, proxyVars>>

Free == [pc |-> "free", app |-> None, open |-> FALSE, forced |-> FALSE,
         http |-> FALSE, host |-> None, wg |-> FALSE, excused |-> FALSE]

(* excused: the route was decided before the last Rebalance and tracked    *)
(* after it, or a fetched list has changed the decision since.             *)
Conn == [pc : {"free", "accepted", "ask", "track", "relay"},
         app : Apps \cup {None}, open : BOOLEAN, forced : BOOLEAN,
         http : BOOLEAN, host : Hosts \cup {None}, wg : BOOLEAN, excused : BOOLEAN]

TypeOK ==
    /\ RulesTypeOK
    /\ conn \in [Conns -> Conn]
    /\ active = {c \in Conns : conn[c].pc = "relay"}
    /\ stale \subseteq {c \in Conns : conn[c].pc # "free"}
    /\ stale # {} => wpc = "close"
    /\ snap \in [Conns -> Apps \cup {None}] \cup {None}

Init ==
    /\ RulesInit
    /\ conn = [c \in Conns |-> Free]
    /\ active = {} /\ stale = {}
    /\ snap = None

---------------------------------------------------------------------------
(* A connection                                                            *)

ByRule(host) == Decide(current, host) = "wg"

Accept(c) ==
    /\ up /\ conn[c].pc = "free"
    /\ \E a \in Apps : conn' = [conn EXCEPT ![c] = [Free EXCEPT
                                    !.pc = "accepted", !.app = a, !.open = TRUE]]
    /\ UNCHANGED <<ruleVars, active, stale, snap>>

Walked == [c \in Conns |-> conn[c].app]

(* forceWGForPort, asked once for a connection: the owner of its port in a *)
(* table of connections that may be up to 500 ms old.                      *)
Lookup(c) ==
    /\ conn[c].pc = "accepted"
    /\ snap' \in IF Selected = {} THEN {snap} ELSE {snap, Walked} \ {None}
    /\ conn' = [conn EXCEPT ![c].pc = "ask",
                            ![c].forced = Selected # {} /\ snap'[c] \in Selected]
    /\ UNCHANGED <<ruleVars, active, stale>>

(* A request for a host: SOCKS5 and CONNECT make one (relay), plain HTTP   *)
(* any number (forwardHTTP); dialerFor decides the route of each.          *)
Request(c, host, http) ==
    /\ conn[c].pc = "ask" /\ conn[c].open
    /\ conn[c].http => http
    /\ conn' = [conn EXCEPT ![c].pc = "track", ![c].host = host, ![c].http = http,
                            ![c].wg = conn[c].forced \/ ByRule(host),
                            ![c].excused = FALSE]
    /\ UNCHANGED <<ruleVars, active, stale, snap>>

Track(c) ==
    /\ conn[c].pc = "track"
    /\ conn' = [conn EXCEPT ![c].pc = "relay"]
    /\ active' = active \cup {c}
    /\ UNCHANGED <<ruleVars, stale, snap>>

(* The slot is free for another connection, at another port.               *)
Ended(c) ==
    /\ conn' = [conn EXCEPT ![c] = Free]
    /\ stale' = stale \ {c}
    /\ snap' = IF snap = None THEN None ELSE [snap EXCEPT ![c] = None]

(* MUTANT: a connection that is closed stays in the table.                 *)
FinishTracked(c) ==
    /\ conn[c].pc = "relay"
    /\ \/ Ended(c) /\ UNCHANGED active
       \/ /\ conn[c].http /\ conn[c].open
          /\ conn' = [conn EXCEPT ![c].pc = "ask", ![c].host = None, ![c].wg = FALSE,
                                  ![c].excused = FALSE]
          /\ active' = active \ {c}
          /\ UNCHANGED <<stale, snap>>
    /\ UNCHANGED ruleVars

(* The dial has failed, or the streams are spliced to their end: untrack,  *)
(* and close unless the client may send another plain HTTP request.        *)
Finish(c) ==
    /\ conn[c].pc = "relay"
    /\ active' = active \ {c}
    /\ \/ Ended(c)
       \/ /\ conn[c].http /\ conn[c].open
          /\ conn' = [conn EXCEPT ![c].pc = "ask", ![c].host = None, ![c].wg = FALSE,
                                  ![c].excused = FALSE]
          /\ UNCHANGED <<stale, snap>>
    /\ UNCHANGED ruleVars

(* The client leaves, says something else, or nothing until the deadline.  *)
Abandon(c) ==
    /\ conn[c].pc \in {"accepted", "ask"}
    /\ Ended(c)
    /\ UNCHANGED <<ruleVars, active>>

---------------------------------------------------------------------------
(* Rebalance                                                               *)

(* MUTANT: only connections that should move into the tunnel are seen.     *)
ChangedToWG(c) == ~conn[c].forced /\ ~conn[c].wg /\ ByRule(conn[c].host)

(* Not routed by force, and the rules now say otherwise.                   *)
Changed(c) == ~conn[c].forced /\ ByRule(conn[c].host) # conn[c].wg

Scan ==
    /\ wpc = "scan" /\ wpc' = "close"
    /\ stale' = {c \in active : Changed(c)}
    /\ conn' = [c \in Conns |->
          IF conn[c].pc \in {"track", "relay"}
          THEN [conn[c] EXCEPT !.excused = conn[c].pc = "track" /\ Changed(c)]
          ELSE conn[c]]
    /\ UNCHANGED <<engine, file, stamp, last, loaded, up, missed, fetcher, ready, budget,
                   active, snap>>

CloseStale ==
    /\ wpc = "close" /\ Applied
    /\ conn' = [c \in Conns |->
          IF c \in stale THEN [conn[c] EXCEPT !.open = FALSE] ELSE conn[c]]
    /\ stale' = {}
    /\ UNCHANGED <<active, snap>>

(* SetList does not rebalance.                                             *)
ListPublished ==
    /\ PublishList
    /\ conn' = [c \in Conns |->
          IF conn[c].pc \in {"track", "relay"}
          THEN [conn[c] EXCEPT !.excused =
                   @ \/ (Decide(current', conn[c].host) = "wg") # conn[c].wg]
          ELSE conn[c]]
    /\ UNCHANGED <<active, stale, snap>>
---------------------------------------------------------------------------
RestartAll ==
    /\ Restart
    /\ conn' = [c \in Conns |-> Free] /\ active' = {} /\ stale' = {} /\ snap' = None

ConnStep(c) ==
    \/ Accept(c) \/ Lookup(c) \/ Track(c) \/ Finish(c) \/ Abandon(c)
    \/ \E h \in Hosts, http \in BOOLEAN : Request(c, h, http)

Alone(A) == A /\ UNCHANGED proxyVars
WatcherStep == Alone(Watcher) \/ Scan \/ CloseStale
FetcherStep == Alone(Fetcher) \/ ListPublished
Next ==
    \/ \E c \in Conns : ConnStep(c)
    \/ WatcherStep \/ FetcherStep
    \/ Alone(TimerFires) \/ Alone(WakeUp) \/ Alone(Surroundings)
    \/ RestartAll

(* Both goroutines run, an armed timer fires, a wake-up is received.  The  *)
(* body of a download owes nothing: it may stall.  Nor do connections.     *)
Fairness ==
    /\ WF_vars(WatcherStep) /\ WF_vars(lpc # "body" /\ FetcherStep)
    /\ WF_vars(Alone(TimerFires)) /\ WF_vars(Alone(WakeUp))

Spec == Init /\ [][Next]_vars /\ Fairness

---------------------------------------------------------------------------
(* The published decisions are always what the stored rules of one moment  *)
(* intend, and change for every host at once, however SetManual and        *)
(* SetList interleave: engine.go implements RuleStore.                     *)
PublishesIntended == Store!Spec

(* Between two runs of Rebalance, every tracked connection is on the route *)
(* that the published rules give its host, but for the two cases excused   *)
(* names (relay decides before it tracks; SetList does not rebalance).     *)
RoutesFollowRules ==
    wpc \notin {"scan", "close"} =>
        \A c \in active : conn[c].open /\ ~conn[c].forced /\ ~conn[c].excused =>
            conn[c].wg = ByRule(conn[c].host)

(* Watch and lists.Run: once the tunnel stays up, what is decided comes to *)
(* follow the file on disk and a whole list fetched lately, and stays with *)
(* them, whatever failed before; unless the last read of the file failed,  *)
(* or an edit fell between New's read and Watch's first look.  In two cases*)
(* the list is not kept up: a body that stalls for ever holds lists.Run in *)
(* download (refilter.go:199), and a copy cut short that says it is recent *)
(* counts as the list until it grows old (:59).                            *)
Stalled == lpc = "body"
CutShort == fresh /\ got \notin Fetched
CatchesUp ==
    <>[](ready /\ ~missed) => <>[]CaughtUp \/ <>[]Stalled \/ <>[]CutShort
=============================================================================
