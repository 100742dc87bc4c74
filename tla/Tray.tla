-------------------------------- MODULE Tray --------------------------------
(***************************************************************************)
(* The tray (cmd/fortochka/main.go), a client in the user's session: it    *)
(* polls the engine, shows which applications are routed, sends what the   *)
(* user clicks and keeps the user's system proxy in step (sysproxy).       *)
(*                                                                         *)
(* Goroutines: watchStatus (Poll), one per application in the menu         *)
(* (Clickers), the tunnel's item (Button) and the menu's select loop, of   *)
(* which toggleService is modelled (Svc).  Each calls apply with the reply *)
(* it got; apply takes mu for t.cur, menuMu for the menu and mu again for  *)
(* the proxy.  The engine is what its replies show; Daemon models it.      *)
(***************************************************************************)
EXTENDS Naturals, FiniteSetsExt

CONSTANTS Apps, Clickers, Poll, Button, Svc,
          Nobody,      \* the holder of a free mutex; no signature yet
          MaxOps,      \* bound: clicks, changes of the tunnel, the service, the registry
          MaxMishaps   \* bound: lost replies, failed registry writes, crashes

Threads == Clickers \cup {Poll, Button, Svc}

ASSUME TrayAssumption ==
    /\ IsFiniteSet(Threads) /\ Nobody \notin Threads
    /\ Cardinality({Poll, Button, Svc}) = 3
    /\ {Poll, Button, Svc} \cap Clickers = {}
    /\ {MaxOps, MaxMishaps} \subseteq Nat

VARIABLES
    up, state, apps, served,  \* the engine: reachable, and its Status: State, Apps,
                              \* whether PACURL is set
    uninstalling,             \* the elevated -uninstall has been started
    pac,                      \* AutoConfigURL of the user: "none", "ours", "theirs"
    running,                  \* the tray process
    cur, serviceUp, offline,  \* tray.cur, .serviceUp, .offlineTicks
    items, sig,               \* the checked items, tray.lastAppsSig
    clickMu, menuMu,          \* their holders, or Nobody
    thr,                      \* [Threads -> where it is, its reply, its application]
    wish, behind,             \* the selection the user clicked together; whether, and
                              \* why, tray.cur is not what the engine routes
    ops, mishaps              \* spent of MaxOps and MaxMishaps

enginev == <<up, state, apps, served, uninstalling>>
trayv == <<running, cur, serviceUp, offline>>
menuv == <<items, sig, menuMu>>
userv == <<wish, behind>>
vars == <<enginev, pac, trayv, menuv, clickMu, thr, userv, ops, mishaps>>

States == {"none", "connecting", "connected"}
Status == [state : States, apps : SUBSET Apps, served : BOOLEAN]
NoStatus == [state |-> "none", apps |-> {}, served |-> FALSE]
Reply == [state |-> state, apps |-> apps, served |-> served]

Steps == {"idle", "lock", "send", "reply", "offline", "store", "menu", "items", "sig",
          "proxy", "elevate", "quit", "off"}
Causes == {"no", "unread", "sent", "unanswered", "overtaken"}
Idle == [pc |-> "idle", st |-> NoStatus, app |-> Nobody, req |-> {}]

(* Types; each mutex is held exactly where the code holds it.              *)
TypeOK ==
    /\ state \in States /\ apps \subseteq Apps /\ wish \subseteq Apps
    /\ up \in BOOLEAN /\ served \in BOOLEAN /\ uninstalling \in BOOLEAN
    /\ running \in BOOLEAN /\ serviceUp \in BOOLEAN /\ behind \in Causes
    /\ pac \in {"none", "ours", "theirs"}
    /\ cur \in Status /\ offline \in 0..3
    /\ items \subseteq Apps /\ sig \in (SUBSET Apps) \cup {Nobody}
    /\ thr \in [Threads -> [pc : Steps, st : Status, app : Apps \cup {Nobody},
                            req : SUBSET Apps]]
    /\ \A t \in Threads : (menuMu = t) = (thr[t].pc \in {"items", "sig"})
    /\ \A t \in Clickers : (clickMu = t) = (thr[t].pc \notin {"idle", "lock"})
    /\ {clickMu, menuMu} \subseteq Threads \cup {Nobody}
    /\ ops \in 0..MaxOps /\ mishaps \in 0..MaxMishaps

Init ==
    /\ up \in BOOLEAN /\ state = "none" /\ apps \in SUBSET Apps
    /\ served = TRUE /\ uninstalling = FALSE
    /\ pac \in {"none", "ours", "theirs"}
    /\ running = TRUE /\ cur = NoStatus /\ serviceUp = FALSE /\ offline = 0
    /\ items = {} /\ sig = Nobody
    /\ clickMu = Nobody /\ menuMu = Nobody
    /\ thr = [t \in Threads |-> Idle]
    /\ wish = apps /\ behind = "unread"
    /\ ops = 0 /\ mishaps = 0

Spend == ops < MaxOps /\ ops' = ops + 1
Mishap == mishaps < MaxMishaps /\ mishaps' = mishaps + 1
NoMishap == UNCHANGED mishaps

At(t, pc) == running /\ thr[t].pc = pc
Goto(t, pc) == thr' = [thr EXCEPT ![t].pc = pc]
Got(t, pc) == thr' = [thr EXCEPT ![t].pc = pc, ![t].st = Reply]
Done(t) == /\ thr' = [thr EXCEPT ![t] = Idle]
           /\ clickMu' = IF clickMu = t THEN Nobody ELSE clickMu
Toggle(S, a) == SymDiff(S, {a})

---------------------------------------------------------------------------
(* watchStatus: each second status, then apply or setOffline               *)

PollEngine ==
    /\ At(Poll, "idle")
    /\ \/ up /\ Got(Poll, "store") /\ NoMishap
       \/ Goto(Poll, "offline") /\ IF up THEN Mishap ELSE NoMishap
    /\ UNCHANGED <<enginev, pac, trayv, menuv, clickMu, userv, ops>>

(* A registry write: it may fail, and then nothing is tried before the     *)
(* next poll.                                                              *)
Write(v) == \/ pac' = v /\ NoMishap
            \/ UNCHANGED pac /\ Mishap

Plus1(n) == IF n < 3 THEN n + 1 ELSE n   \* counted as far as it is compared

(* MUTANT: the leftover is cleared at the third failure and no later one.  *)
SetOfflineOnce ==
    /\ At(Poll, "offline") /\ Goto(Poll, "idle")
    /\ serviceUp' = FALSE /\ offline' = Plus1(offline)
    /\ IF offline = 2 /\ pac = "ours" THEN Write("none") ELSE UNCHANGED pac /\ NoMishap
    /\ UNCHANGED <<enginev, running, cur, menuv, clickMu, userv, ops>>

SetOffline ==
    /\ At(Poll, "offline") /\ Goto(Poll, "idle")
    /\ serviceUp' = FALSE /\ offline' = Plus1(offline)
    /\ IF offline' = 3 /\ pac = "ours" THEN Write("none") ELSE UNCHANGED pac /\ NoMishap
    /\ UNCHANGED <<enginev, running, cur, menuv, clickMu, userv, ops>>

---------------------------------------------------------------------------
(* apply                                                                   *)

Store(t) ==
    /\ At(t, "store") /\ Goto(t, "menu")
    /\ cur' = thr[t].st /\ serviceUp' = TRUE /\ offline' = 0
    /\ behind' = IF thr[t].st.apps = apps THEN "no" ELSE "overtaken"
    /\ UNCHANGED <<enginev, pac, running, menuv, clickMu, wish, ops, mishaps>>

(* MUTANT: syncApps without menuMu.                                        *)
SyncAppsUnlocked(t) ==
    /\ At(t, "menu") /\ UNCHANGED menuMu
    /\ Goto(t, IF sig = thr[t].st.apps THEN "proxy" ELSE "items")
    /\ UNCHANGED <<enginev, pac, trayv, items, sig, clickMu, userv, ops, mishaps>>

(* syncApps: an unchanged signature ends it under the lock it took.        *)
SyncApps(t) ==
    /\ At(t, "menu") /\ menuMu = Nobody
    /\ IF sig = thr[t].st.apps THEN Goto(t, "proxy") /\ UNCHANGED menuMu
       ELSE Goto(t, "items") /\ menuMu' = t
    /\ UNCHANGED <<enginev, pac, trayv, items, sig, clickMu, userv, ops, mishaps>>

CheckItems(t) ==
    /\ At(t, "items") /\ Goto(t, "sig")
    /\ items' = thr[t].st.apps
    /\ UNCHANGED <<enginev, pac, trayv, sig, menuMu, clickMu, userv, ops, mishaps>>

PublishSig(t) ==
    /\ At(t, "sig") /\ Goto(t, "proxy")
    /\ sig' = thr[t].st.apps
    /\ menuMu' = IF menuMu = t THEN Nobody ELSE menuMu
    /\ UNCHANGED <<enginev, pac, trayv, items, clickMu, userv, ops, mishaps>>

Wants(st) == st.state # "none" /\ st.served

(* MUTANT: a click is over without giving clickMu back.                    *)
SyncProxyHeld(t) ==
    /\ At(t, "proxy") /\ Goto(t, "idle") /\ UNCHANGED clickMu
    /\ IF Wants(thr[t].st) /\ pac # "ours" THEN Write("ours")
       ELSE IF ~Wants(thr[t].st) /\ pac = "ours" THEN Write("none")
       ELSE UNCHANGED pac /\ NoMishap
    /\ UNCHANGED <<enginev, trayv, menuv, userv, ops>>

(* The registry is read and written under mu.  Somebody else's PAC is      *)
(* replaced while the tunnel is wanted and left alone otherwise.           *)
SyncProxy(t) ==
    /\ At(t, "proxy") /\ Done(t)
    /\ IF Wants(thr[t].st) /\ pac # "ours" THEN Write("ours")
       ELSE IF ~Wants(thr[t].st) /\ pac = "ours" THEN Write("none")
       ELSE UNCHANGED pac /\ NoMishap
    /\ UNCHANGED <<enginev, trayv, menuv, userv, ops>>

---------------------------------------------------------------------------
(* toggleApp                                                               *)

(* The submenu is enabled while the engine answers, and lists what the     *)
(* menu was last built from.                                               *)
Click(t, a) ==
    /\ Spend
    /\ At(t, "idle") /\ serviceUp /\ sig # Nobody
    /\ thr' = [thr EXCEPT ![t].pc = "lock", ![t].app = a]
    /\ wish' = Toggle(wish, a)
    /\ UNCHANGED <<enginev, pac, trayv, menuv, clickMu, behind, mishaps>>

(* The click is computed from tray.cur.  A copy that a late reply has set  *)
(* back, or a lost reply has not brought up to date, takes what the engine *)
(* routes beyond it out of the user's wish: that is what the code gives up.*)
Compute(t) ==
    /\ thr' = [thr EXCEPT ![t].pc = "send", ![t].req = Toggle(cur.apps, thr[t].app)]
    /\ wish' = IF behind \in {"no", "sent"} THEN wish
               ELSE SymDiff(wish, SymDiff(cur.apps, apps))

(* MUTANT: toggles are not serialised.                                     *)
TakeClickUnlocked(t) ==
    /\ At(t, "lock")
    /\ Compute(t)
    /\ UNCHANGED <<enginev, pac, trayv, menuv, clickMu, behind, ops, mishaps>>

TakeClick(t) ==
    /\ At(t, "lock") /\ clickMu = Nobody /\ clickMu' = t
    /\ Compute(t)
    /\ UNCHANGED <<enginev, pac, trayv, menuv, behind, ops, mishaps>>

(* The command reaches the engine, or nothing does and what it would have  *)
(* changed is not wished for.                                              *)
SendApps(t) ==
    /\ At(t, "send")
    /\ \/ /\ up /\ apps' = thr[t].req /\ Goto(t, "reply")
          /\ behind' = "sent" /\ UNCHANGED <<clickMu, wish>>
       \/ /\ ~up /\ Done(t) /\ wish' = SymDiff(wish, SymDiff(thr[t].req, apps))
          /\ UNCHANGED <<apps, behind>>
    /\ UNCHANGED <<up, state, served, uninstalling, pac, trayv, menuv, ops, mishaps>>

(* The reply of a command; without one nothing is applied.                 *)
GetReply(t) ==
    /\ At(t, "reply")
    /\ \/ up /\ Got(t, "store") /\ NoMishap /\ UNCHANGED <<clickMu, behind>>
       \/ /\ Done(t) /\ IF up THEN Mishap ELSE NoMishap
          /\ behind' = IF t \in Clickers /\ behind = "sent" THEN "unanswered" ELSE behind
    /\ UNCHANGED <<enginev, pac, trayv, menuv, wish, ops>>

---------------------------------------------------------------------------
(* toggleTunnel and toggleService                                          *)

(* The item is disabled while offline, and soon after t.cur says that the  *)
(* tunnel connects: a click may come before.  A Connect that fails changes *)
(* nothing and has no status to apply.                                     *)
ToggleTunnel ==
    /\ Spend
    /\ At(Button, "idle") /\ serviceUp /\ up
    /\ state' = IF cur.state # "none" THEN "none" ELSE "connecting"
    /\ Goto(Button, "reply")
    /\ UNCHANGED <<up, apps, served, uninstalling, pac, trayv, menuv, clickMu, userv, mishaps>>

(* The service starts, unless it runs: it resumes what state.json says,    *)
(* and the port of the PAC may be taken.                                   *)
Started ==
    /\ up' = TRUE
    /\ IF up THEN UNCHANGED <<state, served>> /\ NoMishap
       ELSE /\ state' \in {"none", "connecting"}
            /\ served' \in BOOLEAN /\ IF served' THEN NoMishap ELSE Mishap

TurnOn ==
    /\ Spend
    /\ At(Svc, "idle") /\ ~serviceUp /\ ~uninstalling
    /\ Started
    /\ UNCHANGED <<apps, uninstalling, pac, trayv, menuv, clickMu, thr, userv>>

(* The PAC is dropped first, whoever set it; then the consent dialog.      *)
TurnOff ==
    /\ Spend
    /\ At(Svc, "idle") /\ serviceUp /\ ~uninstalling /\ Goto(Svc, "elevate")
    /\ Write("none")
    /\ UNCHANGED <<enginev, trayv, menuv, clickMu, userv>>

Elevate ==
    /\ At(Svc, "elevate") /\ Goto(Svc, "quit")
    /\ uninstalling' \in BOOLEAN
    /\ UNCHANGED <<up, state, apps, served, pac, trayv, menuv, clickMu, userv, ops, mishaps>>

(* The process is gone: threads, mutexes and menu with it.                 *)
Gone(last) ==
    /\ running' = FALSE /\ cur' = NoStatus /\ serviceUp' = FALSE /\ offline' = 0
    /\ items' = {} /\ sig' = Nobody /\ menuMu' = Nobody /\ clickMu' = Nobody
    /\ thr' = [t \in Threads |-> IF t = Svc THEN last ELSE Idle]
    /\ wish' = apps /\ behind' = "unread"

Quit ==
    /\ At(Svc, "quit") /\ Gone([Idle EXCEPT !.pc = "off"])
    /\ UNCHANGED <<enginev, pac, ops, mishaps>>

TrayKilled ==
    /\ running /\ Mishap /\ Gone(Idle)
    /\ UNCHANGED <<enginev, pac, ops>>

(* runTray: ensureService leaves an installed service as it is.            *)
TrayStarts ==
    /\ ~running /\ ~uninstalling /\ Spend
    /\ running' = TRUE /\ thr' = [t \in Threads |-> Idle]
    /\ UNCHANGED <<enginev, pac, cur, serviceUp, offline, menuv, clickMu, userv, mishaps>>
---------------------------------------------------------------------------
(* The engine and the user's session around the tray                       *)

Around == <<trayv, menuv, clickMu, thr, userv>>

Uninstall ==
    /\ uninstalling /\ up /\ up' = FALSE /\ state' = "none"
    /\ UNCHANGED <<apps, served, uninstalling, pac, Around, ops, mishaps>>

TunnelUp ==
    /\ state = "connecting" /\ state' = "connected"
    /\ UNCHANGED <<up, apps, served, uninstalling, pac, Around, ops, mishaps>>

TunnelDrops ==
    /\ Spend
    /\ state = "connected" /\ state' = "connecting"
    /\ UNCHANGED <<up, apps, served, uninstalling, pac, Around, mishaps>>

EngineStops ==
    /\ up /\ Mishap /\ up' = FALSE /\ state' = "none"
    /\ UNCHANGED <<apps, served, uninstalling, pac, Around, ops>>

EngineStarts ==
    /\ ~up /\ ~uninstalling /\ Spend
    /\ Started
    /\ UNCHANGED <<apps, uninstalling, pac, Around>>

SomebodySetsPac ==
    /\ Spend /\ pac' \in {"none", "theirs"} \ {pac}
    /\ UNCHANGED <<enginev, Around, mishaps>>

---------------------------------------------------------------------------
Apply(t) == Store(t) \/ SyncApps(t) \/ CheckItems(t) \/ PublishSig(t) \/ SyncProxy(t)
PollStep == PollEngine \/ SetOffline \/ Apply(Poll)
ClickStep(t) == TakeClick(t) \/ SendApps(t) \/ GetReply(t) \/ Apply(t)
ButtonStep == GetReply(Button) \/ Apply(Button)
TrayStep == \/ PollStep \/ ButtonStep \/ Elevate \/ Quit
          \/ \E t \in Clickers : ClickStep(t)
User == \/ \E t \in Clickers, a \in Apps : Click(t, a)
        \/ ToggleTunnel \/ TurnOn \/ TurnOff \/ TrayStarts \/ SomebodySetsPac
Engine == Uninstall \/ TunnelUp \/ TunnelDrops \/ EngineStops \/ EngineStarts
Next == TrayStep \/ User \/ Engine \/ TrayKilled

(* The poll ticks; whoever holds a mutex gives it back.                    *)
Fairness == /\ WF_vars(PollStep) /\ WF_vars(ButtonStep)
            /\ \A t \in Clickers : WF_vars(ClickStep(t))

Spec == Init /\ [][Next]_vars /\ Fairness

---------------------------------------------------------------------------
(* toggleApp under clickMu: when no click is waiting or on its way, the    *)
(* engine routes what the user has clicked together, whatever polls and    *)
(* other clicks ran meanwhile.  Two causes take something out of that wish,*)
(* once each and no more than what tray.cur lacked when the click was      *)
(* computed (Compute): a reply stored after a later command (main.go:258,  *)
(* of a poll or of the tunnel's item) and a command whose reply was lost   *)
(* (:485).                                                                 *)
TogglesKept == (\A t \in Clickers : thr[t].pc \notin {"lock", "send"}) => apps = wish

(* syncProxy and setOffline: while the tray runs, the user's proxy comes   *)
(* to be ours exactly when the tunnel is wanted and a PAC is served, also  *)
(* after failed writes, late replies and an engine that went away.         *)
PacFollows ==
    <>[]running => <>[]((pac = "ours") = (up /\ Wants(Reply)))

(* syncApps: the checked items come to be the engine's selection, however  *)
(* the replies of polls and clicks overtake each other.                    *)
MenuFollows == <>[](running /\ up) => <>[](items = apps)

(* main.go:544, "drop the PAC before the engine goes away so HTTP isn't    *)
(* left pointing at a dead proxy".                                         *)
OffLeavesNoPac == thr[Svc].pc = "off" /\ ~up => pac # "ours"
=============================================================================
