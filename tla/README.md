# Fortochka in TLA+

Fortochka is a Windows program that sends chosen traffic through a WireGuard
tunnel and everything else directly. A service ("the engine") holds the tunnel,
a local SOCKS5/HTTP proxy that routes by domain and address rules, and a packet
interceptor on WinDivert that routes whole applications; a tray program in the
user's session drives it over a named pipe.

What is hard about it is not the routing table. It is that every decision is
made on a view of the machine that is late (port tables sampled twice a second,
socket events that can be missed, a handshake age), by goroutines that outlive
the thing they were started for (packet loops of retired handles, supervisors of
an earlier run, dials that take five seconds), about traffic that must not leave
in the clear even once. The modules here are about that.

## 1. Inventory

| Component (source) | State | Operations | Talks to |
|---|---|---|---|
| capture handle, `divHandle` (`internal/apptunnel/apptunnel_windows.go`) | `closed`, `draining`, an RWMutex, the driver's queue | send, recv, close, finish, grace timer | packet loops, flow readers, stop, supervisor, sweeper |
| runs of interception, `Engine` (same file) | `running`, `gen`, `ln`, `tcpH`, `udpH`, `sockH`, `panicH` | start, stopLocked, udpSupervisor/reopenUDP, reviveHandles/reopenTCP/reopenSock | driver; called by the daemon through SetApps and Suspend |
| selection (same file) | `apps`, `lastSel`, `pendingReset` | SetApps, Suspend, Stop, resetAppConnections | procnet resets |
| TCP redirect (same file) | `tracked`, `seen`, `trackMiss`, `portPID`, throttles, `redirects` | handleTCP, refreshPorts, sweepTracked, closeRelays, handleRedirect | port tables, tunnel dialer |
| UDP flows (same file) | `udpFlows`, `udpDirect`, `udpStopped`, `sockPorts`, `liveUDP`, sticky ports | handleUDP, udpReader, evictUDP, capFlowsLocked, sweepFlows, watchSockets | port tables, socket events, tunnel dialer |
| daemon (`internal/daemon/daemon.go`) | `tunnelWanted`, `selApps`, `rebuildFails`, `startTries`, `lastState`, `closing`, `applyMu` | Connect, Disconnect, Import, SetApps, Status, watch, superviseTunnel, reconcile, persist, Close | wg manager, apptunnel, state.json |
| wg manager and device (`internal/wg`) | the current device, its last handshake | Connect, Close, State, DialContext | WireGuard library, netstack |
| appstate (`internal/appstate`) | `state.json` | Load, Save (temp file, fsync, rename) | disk |
| proxy (`internal/proxy`) | `active` connections with their route | relay, forwardHTTP, Rebalance | rules, tunnel and direct dialers, the daemon's `portSnap` |
| rules (`internal/rules`) | manual and fetched rules, the compiled matchers | SetManual, SetList, Decide | proxy |
| userrules (`internal/userrules`) | the user's file, the modification time last seen | Load, Watch, applyManual | rules, proxy's Rebalance |
| lists (`internal/lists`) | the lists in hand, a cache file, a timer, a wake channel | Run, fetch, loadCache, saveCache | rules, tunnel |
| selfupdate, installation (`internal/selfupdate`, `cmd/fortochka/install*.go`) | the executable and its `.new` and `.old` siblings | Check, install, CleanOld; placeBinary, handOffToInstalled | service manager |
| service, ipc (`cmd/fortochka/service_windows.go`, `internal/ipc`) | the pipe, log files | Execute, installService; serveConn | daemon |
| tray (`cmd/fortochka/main.go`) | last status, checked items and their signature, three mutexes | watchStatus, apply, toggleApp, toggleTunnel, toggleService, syncProxy, setOffline | pipe, sysproxy |
| procnet, windivert | none | port tables, resets; driver calls | Windows |
| wgconf, config, paths, pac, autostart, filedialog, appnames, tools | none worth a model | parsing, single system calls | |

How they interact. The tray sends one request per pipe connection; each
connection is a goroutine in the daemon. The daemon's `watch` goroutine ticks
once a second, supervises the tunnel and re-applies the selection when the
tunnel's state changes. `reconcile` maps tunnel state and selection to
`Engine.SetApps`, which starts and stops interception. A run of interception is
a set of goroutines over three WinDivert handles; a generation number tells them
when their run is over, but they notice it only at their next look. The proxy
decides each connection by the compiled rules, which two goroutines feed: the
watcher of `rules.txt`, which also makes the proxy close connections whose route
has changed, and the keeper of the fetched lists, which does not.

What makes each part correct:

* **capture handle**: no injection on a closed handle (Windows reuses handle
  values), one close, never open without a reader (that stops the machine's
  traffic), nothing lost in an orderly retirement, always closed in the end;
* **runs**: each open handle has exactly one owner through any overlap of a
  restart with the goroutines of the run before; a dead capture comes back, a
  panicked one does not; a stop leaves nothing;
* **selection**: an application that is to be routed has no connection outside
  the tunnel that nobody will reset, and none is reset without need;
* **TCP redirect**: a connection keeps one path, the path of its own process,
  and its own destination, under lagging views and reused ports;
* **UDP flows**: no tunnel socket leaks, and a socket whose datagrams were
  tunnelled is not sent in the clear when its flow fails;
* **daemon**: when all is quiet, what runs and what is saved is what was asked
  for; retries are bounded and do happen;
* **rules**: what is decided is at every moment, and for every host at once, what
  the rules stored at one moment intend, however the two goroutines interleave;
  the file and the lists are caught up with, whatever failed before;
* **proxy**: after a rules change no tracked connection stays on the wrong route;
* **tray**: no click is lost among the replies that overtake each other, and the
  menu and the user's system proxy come to agree with the engine;
* **update and installation**: the executable at the service's path is never
  part of a build, a swap that fails leaves one there, and a build that runs
  survives a stop, a kill or a power cut at any point.

`PROJECT.json` lists the hazards line by line.

## 2. Modules

```
DivHandle --- DivHandleProofs         one capture handle
Engine ------ EngineProofs            the runs, handles as values
Selection                             SetApps/Suspend, what they promise
    ^
Daemon ------ DaemonProofs            extends Selection
TcpTrack ---- MCTcpTrack, TcpTrackProofs   TCP decisions by local port
UdpFlows ---- MCUdpFlows, UdpFlowsProofs   UDP flows of one key
Update ------ UpdateProofs            replacing the executable, two processes
RuleStore                             what the decision engine promises
    ^
Rules                                 engine, watcher, lists; refines RuleStore
    ^
Proxy ------- MCProxy, RulesProofs    the proxy's connections over the rules
Tray -------- TrayProofs              the tray over an engine that comes and goes
```

The granularity is the same everywhere: a step is a critical section of a mutex
(or one atomic operation, or one blocking call), and whatever the code does
between two of them is a gap in which everybody else may move. The exceptions
are stated in the header of each module.

**DivHandle.** The `divHandle` with the goroutines around it. `readers` and
`waiting` are Go's RWMutex, a waiting writer included. `RLockForSend`/`SendEnd`
is `send`, `RecvCall`/`RecvPacket`/`RecvError` is `recv`, `Dispatch` to
`LoopSendEnd` the body of `divertPackets`, `CloseCall` to `ShutdownErr` is
`close`, `TimerFires` the grace timer, `Finish` is `finish`. `pkt` follows each
packet from the wire to where it ends.

**Engine.** A handle is a value held by one variable at a time (installed, held
by the operation, by a supervisor or by a sweeper) and `live` counts, at the
driver, what was opened and not closed, so a handle that falls out of every
variable shows. `StartListen` to `StartInstall` and `StopBegin` to `StopRest`
are the sections of `start` and `stopLocked`; `Sup*` are the steps of
`udpSupervisor` and `reopenUDP`, one supervisor per run; `Swp*` are `reviveHandles`
with `reopenTCP` and `reopenSock`; `Loop*` and `Retired*` are the packet loops.

**Selection.** The interface `Engine.SetApps` and `Suspend` offer the daemon and
what they promise about the connections of applications: `outside` are the
applications with a connection opened past the tunnel, `resetting` those the
engine is about to reset. `Daemon` takes its operations as they are.

**Daemon.** One program counter per client goroutine, the watch and the closer.
`applyMu` is a variable because `persist` and `reconcile` hold it across a file
write and an engine call; `mu` is not, as nothing blocks under it. `dev` is what
`Manager.State` reports. `CrashAndRestart` loses all but `saved`.

**TcpTrack.** Sockets of the machine on one hand, the engine's tables on the
other, `table` lagging between them; `walk` is a table walked and not yet
stored. A packet is one step (`Syn`, `Data`, `SynAck`), chosen by the decision
that stands (`Standing`), its staleness (`Stale`) and the look-up with its two
throttles (`Lookup`, `Decide`). `retired` holds what `sweepTracked` dropped under
the lock until `CloseRelays`. `relay` is `handleRedirect`, per connection. The
fields `struck`, `lag` and `strayed` of a socket are ghosts: where the strike
against its port is from, how the lag of the tables met it (`Lags`), and that a
packet of it took the other way with no lag to blame.

**UdpFlows.** One key of `udpFlows`/`udpDirect`. `Arrive` (the look of
`retireStale`), `RetireStale` (its removal), `LookUp`, `Decide`, `StoreDirect`,
`DialFails`, `Install`, `Write`, `Evict` are the sections of `handleUDP` under
`udpMu` and between its blocking calls, per loop; `ReaderEnds` is `udpReader`; `Sweep` is `sweepFlows`;
the `op` variable is `SetApps` or `Suspend` under `opMu`, with `start` and
`stopLocked` inside it. `carried` and `strayed` are ghosts for `OnceTunnelled`:
a socket counts as carried once a datagram of its own went through the tunnel under
its own, selected application's name, with no operation between two of its steps,
until its application is deselected or the capture ends. `Overtaken` and the field
`late` of a decision mark what `OnceTunnelled` gives up.

**Update.** The files `fortochka.exe`, `.new`, `.old` and `.old-<time>`, each two
halves that remember their build; `image` is where the file of a running process
is by now, because Windows lets it be renamed and nothing else. Three tasks:
`updater` is `selfupdate.Check` in the service (`CheckUpdate` to `Restart`) and
ends with the service, at whatever line; `installer` is `-install` of another
build (`HandOff` is its tray's decision, `PlaceBinary` to `PlaceNew` is
`placeBinary`); `restarter` is the detached `-restart-service`. `AskStop`,
`WaitStopped` and `StartAgain` are `stopAndWait` and the start after it. A rename
is refused by the rules of Windows or, within a bound, for a reason of its own.
`shared`, `overlap`, `torn` and `installed` are ghosts.

**RuleStore, Rules.** `RuleStore` is the abstract specification: two rule sets are
stored, and `Publish` replaces all decisions by what they intend, stated with no
matcher: of the rules that cover a host, a hand-written one answers first, then
a suffix before a keyword, the longer suffix, the rule written first. `Rules` is
the code: `Compile` and `Match` are the maps and slices of `engine.go`, `current`
the published pair; `LoadRules`, `SetManual`, `PublishManual`, `FirstLook` and
`Tick` are `applyManual` and `userrules.Watch`; `Seed` to `WakeUp` are
`lists.Run`, with `lpc` its place, `armed` its timer and `wake` the channel of one.
`Store == INSTANCE RuleStore WITH decided <- Decisions` is the refinement mapping:
the answers the compiled rules give, host by host. `missed` is a ghost: the file
may differ from what was loaded for a reason `Watch` cannot see.

**Proxy.** Extends `Rules`. A connection is `Accept`, `Lookup` (`forceWGForPort`,
from a snapshot that may be 500ms old), `Request` (decides), `Track`, `Finish`;
plain HTTP goes back for another request, with the route forced or not as at
first. `Scan` and `CloseStale` are the two halves of `Rebalance` and belong to the
watcher. `excused` is a ghost that names the connections no `Rebalance` can have
seen.

**Tray.** Each goroutine has a place, the reply it got and the application it was
clicked for. `PollEngine` to `SetOffline` are `watchStatus`, `Store` to `SyncProxy`
are `apply`, lock by lock; `Click` to `GetReply` are `toggleApp`; `ToggleTunnel`,
`TurnOn`, `TurnOff`, `Elevate`, `Quit` the other items; `pac` is the registry value
`sysproxy` reads and writes. `wish` and `behind` are ghosts: what the user has
clicked together, and whether, and why, `t.cur` is not what the engine routes.

## 3. What the runs check

| Run | States | What it shows |
|---|---|---|
| `div_handle` | 25 thousand | all properties of the handle, safety and liveness |
| `engine` | 0.5 million | ownership of handles, stop, the old run leaves the new one alone, revival |
| `daemon` | 6.4 million | selection, saved state, bounded retries |
| `daemon_live` | 1.1 million | the retries happen until they are exhausted, the dead tunnel is closed |
| `daemon_disconnect` | violation | finding 1 |
| `tcp_track` | 0.7 million | one path and own decision but for the lags, no misroute, decisions end |
| `udp_flows` | 8.2 million (loops symmetric) | no leaked socket, no return into the clear |
| `udp_leak` | violation | finding 2 |
| `update` | 4.1 million | the executable stays whole, present and not older; a copy survives |
| `proxy` | 1.1 million | decisions are those of one rule set (refinement), routes follow rules, file and lists are caught up with |
| `tray` | 0.6 million | no click lost but by late and lost replies, menu and system proxy follow the engine |
| `tray_off` | violation | finding 3 |

`MCProxy` also evaluates `MatchersMeetIntent`, as an assumption: the compiled
matchers against `RuleStore`'s reference for every two rule sets of at most two
rules, over a site, a host of it and an address.

Findings:

1. **A rebuild can undo a Disconnect** (`DisconnectHolds`). The comment at
   `daemon.go:485` names the case; the flag is read before the rebuild and not
   under the same lock.
2. **A flow can leak through a start that fails** (`NoLeakedSocket` with
   `StartsSucceed = FALSE`): `start` clears `udpStopped`, the flag that is to
   catch a late dial (`:1488`), and does not set it again when it fails.
3. **Switching off can leave the browser at a dead proxy** (`OffLeavesNoPac`). The
   comment at `main.go:544` says the PAC is dropped first so that this does not
   happen; but the consent dialog comes after it, the poll goes on behind the
   dialog, and its next reply sets the PAC again before the tray quits.

Windows that are in the models, each a disagreement of two steps, and that no run
reports because the properties name them or leave them out:

* the supervisor of an old run, having seen a panic, can stop the UDP capture of
  the new run (`apptunnel_windows.go:1198`; the generation check of `:1203` and
  the `Swap` it protects are not one step). `NoOrphan` holds all the same;
* the sweeper reopens a capture whose loop panicked, though `:288` says that it
  must not, if the loop of an older handle of that kind panics over its last
  packets afterwards: `panicH` has one slot per kind, and the later panic takes
  it. `DeadCaptureRevived` names that case and fails without it;
* a SYN on a recycled port is caught only if the sampled table names the new
  owner, though `:906` says "always": a table that names a third process, or
  none while the old decision stands, hands a foreign decision on for the life of
  the connection. `OwnDecision` says that these are the only two ways;
* a connection whose decision the sweep has dropped goes on in the clear
  (`:921`): after two sweeps in a row that found it unlisted, or one after a strike
  that the port's former socket left. `OnePath` says that only these, and a
  belied SYN, move a connection. These four are the `Lags`;
* a decision for another process that is stored between the looks of `handleUDP`
  at the maps (`:1373`, `:1389`) is obeyed at `:1415`, also for a datagram of a
  socket that was tunnelled: `Overtaken` in `OnceTunnelled`, which fails without
  it;
* a selection may change between `targetApp` and the store into `udpDirect`
  (`:1452`), and a selected application's key is then direct until the decision
  idles out: `late` in `OnceTunnelled`. It takes three operations (decided while a
  `Suspend` stops the run, selected again, stored after `SetApps` cleared the map),
  one more than the run has; the theorem covers it;
* a start that fails as often as the watch tries, which a flap of the tunnel can
  hasten, leaves a wanted selection outside (`daemon.go:419`): `StartExhausted` in
  `InterceptionStarts`;
* a download whose body stalls holds `lists.Run` for good: `refilter.go:188` says
  that a server that stalls cannot wedge the loop, but `clientFor` bounds only the
  handshake and the header, and `ctx` is the daemon's (`Stalled` in `CatchesUp`). A copy
  of the lists that a power cut shortened counts as recent by its first line and
  is not fetched again until it is old (`CutShort`);
* `relay` decides and then tracks (`mixed.go:174`), so a `Rebalance` between the two
  does not see the connection; and the lists' `SetList` has no `Rebalance`. Both are
  `excused` in `RoutesFollowRules`, which fails without the excuse;
* a proxy connection younger than the port snapshot is not forced into the
  tunnel (`daemon.go:526`; `mixed.go:144` says it is);
* a reply of the tray's poll, or of the tunnel's item, that was sent before a click
  and is stored after it sets `t.cur` back, and the next click undoes the first;
  so does a click whose own reply is lost (`main.go:485`). `Compute` takes exactly
  what `t.cur` lacked out of `wish`; `TogglesKept` fails if either case does not;
* with two routed applications, a port that passes from one to the other while the
  second's bind event is missed goes on under the name of the first. When that
  name is dropped before the tables name the second (`pruneSockPorts`), or the
  first is deselected, the second's datagrams are passed in the clear, although
  others of the same socket went through the tunnel. So `OnceTunnelled` speaks
  of datagrams tunnelled under their own application's name, and fails with two
  applications if any tunnelled datagram counts;
* the first table walk of the proxy's `forceWGForPort` may fail; `Lookup` leaves
  that out, as the connection then goes by the rules, which it also may with a
  table that is out of date;
* an edit of `rules.txt` between `New`'s read and `Watch`'s first look, or a read
  that fails, is not noticed before the next save: `missed` in `CatchesUp`.

What the `update` run shows of the two writers of `.new`. `ExeIsWhole` and
`CopySurvives` carry the precondition `~shared`: neither task opened `.new`
while the other was staging in it. Nothing in the code makes that so (the
service's process and the elevated one share no lock), and without the
precondition TLC breaks both, in some fifteen steps:

* the updater opens and truncates the `.new` that the installer has copied and
  not yet renamed, its connection fails, and the installer renames what is left
  of the file over the executable. Likewise the digest of a download is taken
  of what was received (`selfupdate.go:179`) and not of the file, which another
  process may have written to;
* the installer finds the executable in place (`install.go:85`), the updater
  moves it to `.old`, the service is stopped before it moves the new one in, and
  the installer removes `.old` (`install.go:87`). Its own rename then fails, as
  there is no executable to move, and it removes `.new` (`install.go:91`).

`InstalledStays` carries `~overlap` because an installation acts on what its tray
saw before the elevation dialog, and because `Check` compares the release with
the running build (`selfupdate.go:50`), not with the installed one: a service that
an installation could not stop in time goes on from the file moved aside, and may
put a release over the installed build that is older than it. An update that
begins in such a service, or beside an installation, sets `overlap`.

### Bounds, and why they are enough

* `div_handle`: one injector, two closers, two packets. A second closer is all
  that `draining` tells apart; the second packet lets one be in the loop's hands
  while another is queued.
* `engine`: two runs (`MaxGen`), so that goroutines of the old run meet the new
  one; two faults anywhere, so that a reopening fails after a loop died and a
  retired loop panics after the current one did; one filter, which the supervisor may want or not. A
  third run adds a goroutine that differs from the first only in its number.
* `daemon`: two clients with two commands between them, one application, two
  rebuild and two start attempts instead of six (a count reaches its limit, is
  reset and reaches it again), two mishaps. `daemon_live` has one client, the
  closer and one command, since liveness is costlier to check; one start attempt
  and two mishaps, so that failures and a flap do exhaust the tries.
* `tcp_track`: one port, two sockets in succession on it, a routed and an
  unrouted process, two ports of one address and one of another: a reuse can
  change owner, address or port alone. Every table is keyed by port, so ports interact only
  through the throttles (`OtherWalk` stands for the others).
* `udp_flows`: two loops, two flows dialled, two sockets in succession on the
  port, three processes (selected, not selected, unreadable), two changes of the
  selection, one mishap. Two applications take TLC too long for a run that is
  repeated; the theorems cover any number. `udp_leak` needs four operations and nothing else.
* `update`: three builds, of which the release is the middle one, so that an
  installed one, a launched one and the release can all differ and either of them
  be newer than it; two checks and two launches, so that the second swap meets what
  the first left behind, in use or not; two halves of a file, the least that can
  be part of a build or a mixture; one refused rename and one crash, anywhere
  (stops and starts of the service and the tray are not bounded). `Spares` has a
  name for each launch, as a time stamp would.
* `proxy`: one connection slot, used again and again: connections meet only in
  `active` and `stale`, which are sets of them. Two hosts, so that one changes its
  route and the other does not; a file that is empty or has a direct suffix and a
  network, one list of two rules, which can be cut short, one built-in rule: an
  edit overrules the list and gives way to it. One edit or list grown old, one
  mishap (failed read, write or download, a copy cut short or a restart). The tunnel comes and goes without a bound.
* `tray`: one application and two goroutines that click on it (one item's goroutine
  each; a second application would only make clicks differ that differ already by
  the goroutine), two operations of the user or the engine, one mishap; the poll
  runs without a bound. `tray_off` needs three operations, no mishap.

`CHECK_DEADLOCK FALSE` stands where the bounds, or an engine that is switched
off, let the system stop.

### Fairness

Weak fairness, and only of steps the Go scheduler, a ticker or a timeout
brings about: a goroutine between two critical sections goes on, a driver call
returns, a ticker ticks, a dial ends within its timeout, the watch ticks.
Nothing is asked of users, applications, the network, or of a capture loop that
may be wedged in a handler (`RetiredIsClosed` must hold without it). Locks are granted weakly fairly:
Go's mutexes do not starve a waiter. Strong fairness is asked of two steps of
the daemon's watch, `RetryStart` and `SuperviseDue`: they stand for "the interval
has run out by this tick", and ticks at which it has not are other steps, so an
interval measured by a clock does run out, though not at every tick. Of `Engine`
only the sweepers' steps are asked for, the one thing a revival needs. Of the
rules, both goroutines run, an armed timer fires and a wake-up is received, but
the body of a download owes nothing, as nothing in the code ends it; `CatchesUp`
asks in its own premise that the tunnel stays up. Of the tray, the poll ticks and a
goroutine that was started ends; `PacFollows` and `MenuFollows` ask in their
premises that the tray keeps running.

### Assumptions that a constant names

* `StartsSucceed` (UdpFlows): `start` does not fail after clearing `udpStopped`.
  `udp_leak` drops it. It is the only assumption of this kind; what the other
  properties cannot promise, ghosts name (the windows listed above).

Of the environment it is assumed: a port has one socket at a time; the IPv4 and IPv6
tables are one table; a walk of the table is true at the moment it is made; a
reset reaches every connection it is meant for (the half-open ones of
`apptunnel_windows.go:612` excepted).

## 4. What is proved

TLAPS checks the following for every value of the constants, on the assumptions
each module names (`ThreadAssumption`, `DaemonAssumption` and so on, which say
only that names of goroutines differ, a missing value is no value and bounds are numbers;
`BuildAssumption` also says that builds are numbers of which the release is one;
`RulesAssumption` gives the shape of rules and hosts, and that no suffix or
keyword is empty).

* **DivHandleProofs.** `TypeCorrect`, `SendSafety`, `CloseSafety`, `ReaderSafety`,
  `DrainSafety`. The type invariant carries the lock's book-keeping (who holds
  it is determined by the program counters), and from it comes mutual exclusion
  of senders and `finish`: a send under way means `readers` is not empty, so no
  `Finish` step is enabled. `ClosedOnce` and `HandleDiesWithReader` need the link
  between `closed`, the driver's state and the count of closes, which none of
  the three properties says alone; that link is the inductive invariant. The
  drain adds an invariant on where packets may be lost: only a handle that is
  closed before it is drained loses any, and without a fault only the timer
  closes such a handle.
* **EngineProofs.** `EngineTypeCorrect`, `NoOrphanHolds`, `OldRunInstallsNothingHolds`,
  `PanickedStaysOutHolds`. Two invariants carry them. `Places` says what the
  operation and the goroutines may hold at each step, and that nothing is
  installed while nothing runs. `Owned` counts: the driver diverts to as many
  handles of a kind as there are open ones installed, held by the operation, and
  in the hands of supervisors and sweepers; each step opens, closes or moves one
  (`OpenCount`, `CloseCount`, `Balance`). Even the type of `live`, that it never
  falls below zero, needs the count. That a panicked capture stays out needs
  `StillDead`: what `reviveHandles` has found dead is dead until it reopens it, for
  a dead handle has no loop left that could panic; and `Heard` and `Ranked`: panics are
  numbered as they happen, and the slot of a kind never names an earlier one than
  that of a handle in use, so only a later panic can have overwritten it.
* **DaemonProofs.** Of Selection alone: `BypassSafety`, `NoNeedlessResetHolds`.
  `NoBypass` is not inductive: it says nothing while the engine is stopped. The
  strengthening says what is remembered then: an application intercepted by the
  last selection is either still in `lastSel` and has nothing outside, or is in
  `pendingReset`. Of the daemon: `DaemonTypeCorrect`; `DaemonBypassSafety` from
  `BypassSafety`, as every action of the daemon leaves Selection's variables alone
  or is one of its operations; `SavedSafety`, whose invariant
  says of each thread between its write of a field and its `persist` that the
  file is still owed; `GaveUpSafety`, from the place of the watch that rebuilds; and
  `SettledSafety`, which says who will put right what a reconcile left: while the
  engine routes anything but the selection, some goroutine has yet to read it
  or holds the current one (`SelectionDue`), and while it routes without a
  tunnel, some goroutine has yet to look or saw that there is none (`PauseDue`).

* **RulesProofs.** `DecideMeetsIntent` is about the matchers alone: a map from
  suffixes, walked from the whole name to its last label, two slices in the order
  written, and for each the least position answers; every host has at most one
  rule that outranks all others that cover it, and the matcher finds that one.
  From it `RulesImplementStore`: of all steps of the watcher, the lists and the
  proxy only `SetManual`, `SetList`, the two publications and a restart touch the
  engine, and each maps to the step of `RuleStore` of that name. `ProxyTypeCorrect`
  needs that a file has a modification time other than Watch's first.
  `RoutesFollowRulesHolds` strengthens the property to the times when `Rebalance` is
  at work: unless it is still due to scan, a request whose route is not the
  published one is among those it has collected.

* **TcpTrackProofs.** `TcpTypeCorrect` and `NoMisrouteHolds` hold whatever the port
  tables say: once the first SYN of a connection was looked at, a mapping of its
  port is its own, and a relay that lives was dialled by that mapping; sockets
  are told apart by a number given once, which keeps a relay from being taken
  for that of a later socket on the port. `OwnDecisionHolds` and `OnePathHolds` hold of
  any tables as well: unless one belied a SYN of the connection (`Own`), the decision
  of its port is its own process's or gone; and a connection that no lag has met
  still has the decision its packets follow, since a strike against it is one that
  `struck` remembers and the second strike puts that into `lag` (`Kept`).

* **UdpFlowsProofs.** `UdpTypeCorrect`, and `NoLeakedSocketHolds` on the assumption
  `StartsSucceed`. The strengthening says why a dial that outlives its run finds
  the map barred: outside of a run `udpStopped` is set, or no loop has ever begun;
  `start` alone clears it, with the map empty, and then succeeds. That a flow
  closed by one party is out of the map, whoever else still holds it, is the
  first half of the property itself. `KeepsLiveFlowHolds` needs no assumption:
  once a walk of the tables is newer than the strikes of a live flow, it names
  the port's owner, so the second strike never comes. `OnceTunnelledHolds` needs
  none either. Its invariant says that whatever shows that the engine once knew
  the socket's owner (a datagram carried, a flow or a dial that is the owner's, a
  datagram taken up since: `Witness`) means that it knows it still: the table names
  it, or names nobody and the bind event does (`Known`). While the socket is
  carried, no decision that would be obeyed is its owner's (`DirectOK`); one that is
  somebody else's is removed by `retireStale`, so a datagram of the socket that has
  got past it finds none (`Bound`).

* **UpdateProofs.** All the invariants of `Update`. `ExeIsWholeHolds` needs to know
  what a task has staged so far (`Content`) and that two tasks stage at once only
  if `shared` says so (`Alone`). `CopySurvivesHolds` adds who may remove `.old`: the
  installer has seen the service's file there, and the updater is a service that
  runs from a file, which Windows then keeps. `BinaryKeptHolds` says who is `Due` to put
  a file back. `InstalledStaysHolds` follows the ages of the file in place, of the
  one aside and of the one the installer brings, and that a swap that was cut
  short left neither a file nor a task that would put one back.

* **TrayProofs.** `TrayTypeCorrect` carries `clickMu` and `menuMu` (who holds them
  is determined by the places of the goroutines) and that a tray that is gone
  leaves nobody on the way. `TogglesKeptHolds` counts: with `On(a)` the clicks on
  `a` that wait for `clickMu` or have computed and not yet sent, the engine and
  the user's wish differ on `a` exactly if their number is odd (`Differ`), and what a
  goroutine under `clickMu` computed and has not sent differs from the wish by the
  waiting clicks in the same way (`Wished`). That `t.cur` is what the engine routes
  unless `behind` names a cause is `Copied`.

Proved but no property of a run of its own: `CloseSafety`, `NoNeedlessResetHolds`, and
`PanickedStaysOutHolds`, the safety half of what `DeadCaptureRevived` says.

Every invariant and every action property that a run checks is proved. Only
model-checked: liveness, which is `RetiredIsClosed`, the rest of `DeadCaptureRevived`,
`DeadTunnelIsClosed`, `InterceptionStarts`, `StaleDecisionSwept`, `OrphanRelayClosed`,
`CatchesUp`, `PacFollows` and `MenuFollows` (temporal reasoning under fairness and
`ENABLED` are outside of what the prover does); the three runs that show a
violation. Nothing proved or checked uses a recursive operator.

## 5. What is not modelled

Packet bytes, checksums and address rewriting; IPv6 decisions, which are made
per packet without memory; which UDP ports go into the capture filter and in
which order they are dropped from it; several keys of the UDP maps at once; an
installation at another path than Program Files, and the service's registration;
the text of a rules file (`EnsureDefault`'s rewrite of its header, `normalizeEntry`,
with the `/32` a single IPv6 address gets at `userrules.go:132`); the length of the
lists' back-off and which of them failed; the tray's other commands, which apply
a reply as `ToggleTunnel` does, and `askUpdateOnce`; that the fields of one status
reply are read at slightly different moments; logging and statistics; parsers;
Windows' registry and dialogs; the WireGuard library. The components table in
`PROJECT.json` says so one by one.

## 6. Plan

In the order of what matters most to a user:

1. `UdpPorts`: sticky ports, the filter's limit, and the supervisor's settle
   time: a port of a routed application that is bound gets captured and stays so
   while it is live.
2. `Update`: that the service comes back after an update or an installation
   (under which bound on its `Close` does `stopAndWait` suffice), and that an old
   image still in use delays the next update and does not stop it for good.
3. An abstract specification of one port, "decided once, by its owner, until it
   is closed", which `TcpTrack` and `UdpFlows` both implement.
