------------------------------- MODULE Rules -------------------------------
(***************************************************************************)
(* How routing rules reach the proxy: the decision engine                  *)
(* (internal/rules/engine.go), the watcher of the hand-edited rule file    *)
(* (internal/userrules, applyManual of internal/daemon) and the goroutine  *)
(* that keeps the fetched lists (internal/lists/refilter.go).              *)
(*                                                                         *)
(* Engine.mu is taken once to store a rule set and once more to compile    *)
(* and publish, so either goroutine may run between the two.  A step is    *)
(* one such section, or one call that touches a file or the network.       *)
(***************************************************************************)
EXTENDS Naturals, SequencesExt

CONSTANTS Hosts, Rule, Default,  \* as in RuleStore
          BuiltIn,     \* the pinned domains and the rules of the configuration
          Files,       \* what the user may write to rules.txt, sequences of Line
          Fetched,     \* what the list host may serve, sequences of Rule
          MaxOps,      \* bound: edits of the file, lists growing old
          MaxMishaps   \* bound: failed reads, writes and downloads, restarts

Actions == {"direct", "wg"}

(* A line of rules.txt that says something; a service name is written here *)
(* as the domains it stands for, bang is the mark of a direct entry.       *)
Line == [kind : {"suffix", "cidr"}, key : Seq(STRING), bang : BOOLEAN]
Entry(l) ==
    [kind |-> l.kind, key |-> l.key, action |-> IF l.bang THEN "direct" ELSE "wg"]
Parse(lines) == [i \in DOMAIN lines |-> Entry(lines[i])]

ASSUME RulesAssumption ==
    /\ Default \in Actions
    /\ \A h \in Hosts : h.ip \in BOOLEAN /\ h.name \in Seq(STRING)
    /\ \A r \in Rule : /\ r.kind \in {"suffix", "keyword", "cidr"}
                       /\ r.key \in Seq(STRING) /\ r.action \in Actions
                       /\ r.kind # "cidr" => r.key # <<>>
    /\ BuiltIn \in Seq(Rule)
    /\ Files \subseteq Seq(Line)
    /\ \A f \in Files : Parse(f) \in Seq(Rule)
    /\ Fetched \subseteq Seq(Rule)
    /\ \A f \in Fetched : \A i \in DOMAIN f : f[i].action = "wg"
    /\ MaxOps \in Nat /\ MaxMishaps \in Nat

VARIABLES
    manual, list, current,  \* Engine.manual, .list, and the published compiled
    file, stamp,            \* rules.txt and its modification time
    wpc, last, loaded,      \* applyManual and Watch: where, Watch's last, custom
    up,                     \* New is past applyManual: lists.Run and Serve run
    lpc, got, fresh,        \* lists.Run: where, the rules in hand, fetchedAt recent
    cache,                  \* lists.cache
    armed, wake,            \* the timer; the channel Wake
    ready,                  \* the tunnel is connected
    missed,                 \* the file on disk may differ from what was loaded for
                            \* a reason Watch cannot see
    ops, mishaps            \* spent of MaxOps and MaxMishaps

engine == <<manual, list, current>>
watcher == <<wpc, last, loaded, up, missed>>
fetcher == <<lpc, got, fresh, cache, armed, wake>>
budget == <<ops, mishaps>>
ruleVars == <<engine, file, stamp, watcher, fetcher, ready, budget>>

Never == 0   \* the zero time modTime returns when the file cannot be read
NotYet == 1  \* Watch has not looked yet

---------------------------------------------------------------------------
(* engine.go: two matchers.  Keywords and networks keep their positions in *)
(* the rule set, so the least of a set of positions is the first written.  *)

First(S) == {i \in S : \A j \in S : i <= j}   \* none or one
Of(rs, kind) == {i \in DOMAIN rs : rs[i].kind = kind}
With(rs, key) == {i \in Of(rs, "suffix") : rs[i].key = key}

(* The first rule written for a suffix is the one kept.                    *)
SuffixMap(rs) ==
    [k \in {rs[i].key : i \in Of(rs, "suffix")} |->
        rs[CHOOSE i \in First(With(rs, k)) : TRUE].action]

Compile(rs) ==
    [suffixes |-> SuffixMap(rs),
     keywords |-> [i \in Of(rs, "keyword") |-> rs[i]],
     cidrs |-> [i \in Of(rs, "cidr") |-> rs[i]]]

(* The answer of one matcher: none, or one action.  A name is looked up    *)
(* from its whole down to its last label.                                  *)
Match(m, h) ==
    LET From(i) == SubSeq(h.name, i, Len(h.name))
        starts == 1..Len(h.name)
        names == {i \in starts : From(i) \in DOMAIN m.suffixes}
        words == {i \in DOMAIN m.keywords :
                     \E j \in starts : IsPrefix(m.keywords[i].key, From(j))}
        nets == {i \in DOMAIN m.cidrs : IsPrefix(m.cidrs[i].key, h.name)}
    IN  IF h.ip THEN {m.cidrs[i].action : i \in First(nets)}
        ELSE IF names # {} THEN {m.suffixes[From(i)] : i \in First(names)}
        ELSE {m.keywords[i].action : i \in First(words)}

Decide(c, h) ==
    LET answer == IF Match(c.manual, h) # {} THEN Match(c.manual, h)
                  ELSE Match(c.list, h)
    IN  IF answer = {} THEN Default ELSE CHOOSE a \in answer : TRUE

---------------------------------------------------------------------------
(* rebuild: both sets are compiled and published under mu.                 *)

(* MUTANT: one matcher for both origins, the most specific rule answers.   *)
PublishMerged == current' = [manual |-> Compile(manual \o list), list |-> Compile(<<>>)]

Publish == current' = [manual |-> Compile(manual), list |-> Compile(list)]

Nothing == [manual |-> Compile(<<>>), list |-> Compile(<<>>)]

Mishap == mishaps < MaxMishaps /\ mishaps' = mishaps + 1
NoMishap == UNCHANGED mishaps

---------------------------------------------------------------------------
(* applyManual: load, set, rebuild, scan, close; the last two are the      *)
(* proxy's Rebalance.  New runs it once, then Watch.                       *)

WatchSteps == {"load", "set", "rebuild", "scan", "close", "stat", "idle"}

(* userrules.Load.  applyManual logs an error and applies what it got.     *)
LoadRules ==
    /\ wpc = "load" /\ wpc' = "set"
    /\ \/ /\ loaded' = Parse(file) /\ missed' = FALSE /\ NoMishap
       \/ /\ loaded' \in {Parse(SubSeq(file, 1, n)) : n \in 0..Len(file)}
          /\ missed' = TRUE /\ Mishap
    /\ UNCHANGED <<engine, file, stamp, last, up, fetcher, ready, ops>>

SetManual ==
    /\ wpc = "set" /\ wpc' = "rebuild"
    /\ manual' = BuiltIn \o loaded
    /\ UNCHANGED <<list, current, file, stamp, last, loaded, up, missed, fetcher, ready, budget>>

PublishManual ==
    /\ wpc = "rebuild" /\ wpc' = "scan"
    /\ Publish
    /\ UNCHANGED <<manual, list, file, stamp, last, loaded, up, missed, fetcher, ready, budget>>

(* What follows Rebalance: in New, the goroutines are started.             *)
Applied ==
    /\ wpc' = IF up THEN "idle" ELSE "stat"
    /\ up' = TRUE
    /\ UNCHANGED <<engine, file, stamp, last, loaded, missed, fetcher, ready, budget>>

ModTime ==
    \/ last' = stamp /\ NoMishap
    \/ last' = Never /\ Mishap

FirstLook ==
    /\ wpc = "stat" /\ wpc' = "idle"
    /\ ModTime
    /\ UNCHANGED <<engine, file, stamp, loaded, up, missed, fetcher, ready, ops>>

(* A tick of Watch that finds another modification time.                   *)
Tick ==
    /\ wpc = "idle"
    /\ ModTime /\ last' # last
    /\ wpc' = "load"
    /\ UNCHANGED <<engine, file, stamp, loaded, up, missed, fetcher, ready, ops>>

---------------------------------------------------------------------------
(* lists.Run                                                               *)

FetchSteps == {"seed", "seedSet", "seedPublish", "check", "fetch", "body", "set",
               "publish", "save", "wait"}

(* loadCache: an absent, unreadable or empty copy leaves the list empty.   *)
(* A copy that was renamed and not synced may have lost its end in a power *)
(* cut: what is left is loaded, as recent as its first line says.          *)
Seed ==
    /\ up /\ lpc = "seed"
    /\ \/ \E n \in 1..Len(cache) :
             /\ cache' = SubSeq(cache, 1, n) /\ got' = cache' /\ fresh' \in BOOLEAN
             /\ lpc' = "seedSet" /\ IF n = Len(cache) THEN NoMishap ELSE Mishap
       \/ /\ lpc' = "check" /\ UNCHANGED <<got, fresh, cache>>
          /\ IF cache = <<>> THEN NoMishap ELSE Mishap
    /\ UNCHANGED <<engine, file, stamp, watcher, armed, wake, ready, ops>>

SetList ==
    /\ lpc \in {"seedSet", "set"}
    /\ lpc' = IF lpc = "set" THEN "publish" ELSE "seedPublish"
    /\ list' = got
    /\ UNCHANGED <<manual, current, file, stamp, watcher, got, fresh, cache, armed, wake, ready, budget>>

PublishList ==
    /\ lpc \in {"seedPublish", "publish"}
    /\ lpc' = IF lpc = "publish" THEN "save" ELSE "check"
    /\ fresh' = (fresh \/ lpc = "publish")
    /\ Publish
    /\ UNCHANGED <<manual, list, file, stamp, watcher, got, cache, armed, wake, ready, budget>>

(* A refresh is due and the tunnel can carry it, or the timer is armed.    *)
Check ==
    /\ lpc = "check"
    /\ IF ~fresh /\ ready THEN lpc' = "fetch" /\ UNCHANGED armed
       ELSE lpc' = "wait" /\ armed' = TRUE
    /\ UNCHANGED <<engine, file, stamp, watcher, got, fresh, cache, wake, ready, budget>>

(* The answer begins, within the deadlines of clientFor; the body has none.*)
Headers ==
    /\ lpc = "fetch" /\ lpc' = "body"
    /\ UNCHANGED <<engine, file, stamp, watcher, got, fresh, cache, armed, wake, ready, budget>>

Downloaded ==
    /\ lpc = "body" /\ lpc' = "set"
    /\ got' \in Fetched
    /\ UNCHANGED <<engine, file, stamp, watcher, fresh, cache, armed, wake, ready, budget>>

(* MUTANT: a failed download is retried when the tunnel comes up only.     *)
FetchFailsUnarmed ==
    /\ lpc \in {"fetch", "body"} /\ lpc' = "wait"
    /\ IF ready THEN Mishap ELSE NoMishap
    /\ UNCHANGED <<engine, file, stamp, watcher, got, fresh, cache, armed, wake, ready, ops>>

FetchFails ==
    /\ lpc \in {"fetch", "body"} /\ lpc' = "wait" /\ armed' = TRUE
    /\ IF ready THEN Mishap ELSE NoMishap
    /\ UNCHANGED <<engine, file, stamp, watcher, got, fresh, cache, wake, ready, ops>>

(* saveCache renames a whole copy over the old one; a failure is logged.   *)
SaveCache ==
    /\ lpc = "save" /\ lpc' = "wait" /\ armed' = TRUE
    /\ \/ cache' = got /\ NoMishap
       \/ UNCHANGED cache /\ Mishap
    /\ UNCHANGED <<engine, file, stamp, watcher, got, fresh, wake, ready, ops>>

TimerFires ==
    /\ lpc = "wait" /\ armed /\ armed' = FALSE /\ lpc' = "check"
    /\ UNCHANGED <<engine, file, stamp, watcher, got, fresh, cache, wake, ready, budget>>

WakeUp ==
    /\ lpc = "wait" /\ wake /\ wake' = FALSE /\ lpc' = "check"
    /\ UNCHANGED <<engine, file, stamp, watcher, got, fresh, cache, armed, ready, budget>>

---------------------------------------------------------------------------
(* Around them: the tunnel, Daemon.watch's poll of it, the user, time.     *)

(* The poll signals Wake, a channel of one place, when it finds the tunnel *)
(* connected and had not before; it may miss a short break.                *)
TunnelChanges ==
    /\ up /\ ready' = ~ready
    /\ wake' \in {wake, wake \/ ready'}
    /\ UNCHANGED <<engine, file, stamp, watcher, lpc, got, fresh, cache, armed, budget>>

Spend == ops < MaxOps /\ ops' = ops + 1

(* The user saves rules.txt.  Between New's Load and Watch's first look    *)
(* the new modification time is taken for the one that was loaded.         *)
Edit ==
    /\ Spend
    /\ file' \in Files \ {file} /\ stamp' = stamp + 1
    /\ missed' = (missed \/ (wpc # "load" /\ last = NotYet))
    /\ UNCHANGED <<engine, wpc, last, loaded, up, fetcher, ready, mishaps>>

(* Refresh has passed since fetchedAt.                                     *)
GrowsOld ==
    /\ Spend
    /\ fresh /\ fresh' = FALSE
    /\ UNCHANGED <<engine, file, stamp, watcher, lpc, got, cache, armed, wake, ready, mishaps>>

(* The service ends, however it ends, and is started again: memory is new, *)
(* rules.txt and lists.cache are what they were.                           *)
Restart ==
    /\ Mishap
    /\ manual' = <<>> /\ list' = <<>> /\ current' = Nothing
    /\ wpc' = "load" /\ last' = NotYet /\ loaded' = <<>> /\ up' = FALSE /\ missed' = FALSE
    /\ lpc' = "seed" /\ got' = <<>> /\ fresh' = FALSE /\ armed' = FALSE /\ wake' = FALSE
    /\ ready' = FALSE
    /\ UNCHANGED <<file, stamp, cache, ops>>

RulesInit ==
    /\ manual = <<>> /\ list = <<>> /\ current = Nothing
    /\ file \in Files /\ stamp = NotYet + 1
    /\ wpc = "load" /\ last = NotYet /\ loaded = <<>> /\ up = FALSE /\ missed = FALSE
    /\ lpc = "seed" /\ got = <<>> /\ fresh = FALSE /\ armed = FALSE /\ wake = FALSE
    /\ cache \in Fetched \cup {<<>>}
    /\ ready = FALSE
    /\ ops = 0 /\ mishaps = 0

(* The goroutines of Watch and of lists.Run (but for PublishList, which    *)
(* the proxy's state sees), and what happens around them.                  *)
Watcher == LoadRules \/ SetManual \/ PublishManual \/ FirstLook \/ Tick
Fetcher == Seed \/ SetList \/ Check \/ Headers \/ Downloaded \/ FetchFails \/ SaveCache
Surroundings == TunnelChanges \/ Edit \/ GrowsOld

RulesTypeOK ==
    /\ manual \in Seq(Rule) /\ list \in Seq(Rule) /\ loaded \in Seq(Rule)
    /\ file \in Files /\ stamp \in Nat /\ last \in 0..stamp
    /\ wpc \in WatchSteps /\ up = (wpc \in {"stat", "idle"} \/ last # NotYet)
    /\ lpc \in FetchSteps /\ got \in Seq(Rule) /\ cache \in Seq(Rule)
    /\ fresh \in BOOLEAN /\ armed \in BOOLEAN /\ wake \in BOOLEAN
    /\ ready \in BOOLEAN /\ missed \in BOOLEAN
    /\ ops \in 0..MaxOps /\ mishaps \in 0..MaxMishaps

(* What a connection made now is told.                                     *)
Decisions == [h \in Hosts |-> Decide(current, h)]
Store == INSTANCE RuleStore WITH decided <- Decisions

(* What runs keep up with: the file, and a whole list fetched lately.      *)
CaughtUp ==
    /\ manual = BuiltIn \o Parse(file)
    /\ fresh /\ list = got /\ got \in Fetched
    /\ Decisions = [h \in Hosts |-> Store!Intended(manual, list, h)]
=============================================================================
