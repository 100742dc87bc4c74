---------------------------- MODULE RulesProofs ----------------------------
(* The decision engine decides what RuleStore intends, for every rule set  *)
(* and host, and publishes it as RuleStore allows, whatever the watcher,   *)
(* the list goroutine and the proxy's connections do meanwhile.            *)
EXTENDS Proxy, WellFoundedInduction, SequenceTheorems, TLAPS

---------------------------------------------------------------------------
(* The matchers                                                            *)

(* A non-empty set of positions has exactly one first.                     *)
LEMMA FirstIsOne ==
    ASSUME NEW S \in SUBSET Nat, S # {}
    PROVE  \E n \in S : First(S) = {n} /\ \A k \in S : n <= k
<1>1. PICK n \in S : \A k \in S : ~ (<<k, n>> \in OpToRel(<, Nat))
  BY NatLessThanWellFounded, WFMin
<1>2. \A k \in S : n <= k
  <2> SUFFICES ASSUME NEW k \in S, k < n PROVE FALSE
    OBVIOUS
  <2>1. <<k, n>> \in Nat \X Nat /\ <<k, n>>[1] < <<k, n>>[2]
    OBVIOUS
  <2>2. <<k, n>> \in {ss \in Nat \X Nat : ss[1] < ss[2]}
    BY <2>1
  <2>3. OpToRel(<, Nat) = {ss \in Nat \X Nat : ss[1] < ss[2]}
    BY DEF OpToRel
  <2> QED BY <1>1, <2>2, <2>3
<1>3. First(S) = {n}
  <2>1. \A i \in S : (\A j \in S : i <= j) <=> i = n
    BY <1>2
  <2> QED BY <2>1 DEF First
<1> QED BY <1>2, <1>3

(* RuleStore's helpers on sequences are the ones used here.                *)
LEMMA SameHelpers ==
    /\ \A s, t : Store!IsPrefix(s, t) <=> IsPrefix(s, t)
    /\ \A s : Store!Suffixes(s) = Suffixes(s)
BY Zenon DEF IsPrefix, Store!IsPrefix, Suffixes, Store!Suffixes

(* Two rules cannot both answer first.                                     *)
LEMMA AnswersIsOne ==
    ASSUME NEW rs \in Seq(Rule), NEW h \in Hosts,
           NEW i \in DOMAIN rs, NEW j \in DOMAIN rs,
           Store!Answers(rs, i, h), Store!Answers(rs, j, h)
    PROVE  i = j
<1> SUFFICES ASSUME i # j PROVE FALSE
    OBVIOUS
<1>1. Store!Before(rs, i, j) /\ Store!Before(rs, j, i)
  BY DEF Store!Answers
<1>2. rs[i].key \in Seq(STRING) /\ rs[j].key \in Seq(STRING)
  BY RulesAssumption
<1>3. ~(Store!Outranks(rs[i], rs[j]) /\ Store!Outranks(rs[j], rs[i]))
  BY <1>2 DEF Store!Outranks
<1> QED BY <1>1, <1>3 DEF Store!Before

(* An address: the first network written that holds it.                    *)
LEMMA AddressMeetsIntent ==
    ASSUME NEW rs \in Seq(Rule), NEW h \in Hosts, h.ip,
           Store!Covering(rs, h) # {}
    PROVE  \E i \in DOMAIN rs : Store!Answers(rs, i, h) /\ Match(Compile(rs), h) = {rs[i].action}
<1> DEFINE C == Store!Covering(rs, h)
           m == Compile(rs)
           nets == {i \in DOMAIN m.cidrs : IsPrefix(m.cidrs[i].key, h.name)}
<1>a. \A r : Store!Covers(r, h) <=> r.kind = "cidr" /\ IsPrefix(r.key, h.name)
  BY SameHelpers, Zenon DEF Store!Covers
<1>1. C = {i \in DOMAIN rs : rs[i].kind = "cidr" /\ IsPrefix(rs[i].key, h.name)}
  BY <1>a DEF Store!Covering
<1>2. m.cidrs = [i \in Of(rs, "cidr") |-> rs[i]]
  BY DEF Compile
<1>3. DOMAIN m.cidrs = Of(rs, "cidr") /\ \A i \in Of(rs, "cidr") : m.cidrs[i] = rs[i]
  BY <1>2
<1>4. nets = C
  BY <1>1, <1>3 DEF Of
<1>5. PICK n \in C : First(C) = {n} /\ \A k \in C : n <= k
  <2>1. C \in SUBSET Nat
    BY <1>1
  <2> QED BY <2>1, FirstIsOne
<1>6. Match(m, h) = {m.cidrs[i].action : i \in First(nets)}
  BY DEF Match
<1>7. Match(m, h) = {rs[n].action}
  BY <1>1, <1>3, <1>4, <1>5, <1>6 DEF Of
<1>8. \A j \in C \ {n} : Store!Before(rs, n, j)
  BY <1>1, <1>5 DEF Store!Before, Store!Outranks
<1> QED BY <1>1, <1>5, <1>7, <1>8 DEF Store!Answers

(* A name and the rules it is matched with: the longest suffix for which   *)
(* there is a rule, and the first of the rules for it; else the first      *)
(* keyword in it.                                                          *)
LEMMA TailLength ==
    ASSUME NEW h \in Hosts, NEW i \in 1..Len(h.name)
    PROVE  Len(SubSeq(h.name, i, Len(h.name))) = Len(h.name) - i + 1
<1>1. h.name \in Seq(STRING)
  BY RulesAssumption
<1>2. \A j \in i..Len(h.name) : h.name[j] \in STRING
  BY <1>1
<1> QED BY <1>1, <1>2, SubSeqProperties

LEMMA NameCovered ==
    ASSUME NEW rs \in Seq(Rule), NEW h \in Hosts, ~h.ip, NEW i \in DOMAIN rs
    PROVE  i \in Store!Covering(rs, h) <=>
             \/ /\ rs[i].kind = "suffix"
                /\ \E p \in 1..Len(h.name) : rs[i].key = SubSeq(h.name, p, Len(h.name))
             \/ /\ rs[i].kind = "keyword"
                /\ \E p \in 1..Len(h.name) : IsPrefix(rs[i].key, SubSeq(h.name, p, Len(h.name)))
<1> DEFINE From(p) == SubSeq(h.name, p, Len(h.name))
<1>1. rs[i] \in Rule
  OBVIOUS
<1>2. \/ rs[i].kind = "cidr"
      \/ rs[i].kind \in {"suffix", "keyword"} /\ rs[i].key \in Seq(STRING) /\ rs[i].key # <<>>
  BY <1>1, RulesAssumption
<1>3. Suffixes(h.name) = {From(p) : p \in 1..Len(h.name)} \cup {<<>>}
  BY DEF Suffixes
<1>4. rs[i].kind # "cidr" => ~IsPrefix(rs[i].key, <<>>)
  BY <1>2 DEF IsPrefix
<1> HIDE DEF From
<1>5. Store!Covers(rs[i], h) <=>
         \/ rs[i].kind = "suffix" /\ rs[i].key \in Suffixes(h.name)
         \/ rs[i].kind = "keyword" /\ \E s \in Suffixes(h.name) : IsPrefix(rs[i].key, s)
  BY SameHelpers, Zenon DEF Store!Covers
<1>6. rs[i].kind = "suffix" =>
        (rs[i].key \in Suffixes(h.name) <=> \E p \in 1..Len(h.name) : rs[i].key = From(p))
  BY <1>2, <1>3
<1>7. rs[i].kind = "keyword" =>
        ((\E s \in Suffixes(h.name) : IsPrefix(rs[i].key, s))
           <=> \E p \in 1..Len(h.name) : IsPrefix(rs[i].key, From(p)))
  BY <1>3, <1>4
<1>8. i \in Store!Covering(rs, h) <=> Store!Covers(rs[i], h)
  BY DEF Store!Covering
<1> QED BY <1>5, <1>6, <1>7, <1>8, Zenon DEF From

LEMMA SuffixMeetsIntent ==
    ASSUME NEW rs \in Seq(Rule), NEW h \in Hosts, ~h.ip,
           NEW p \in 1..Len(h.name), NEW c \in Of(rs, "suffix"),
           rs[c].key = SubSeq(h.name, p, Len(h.name))
    PROVE  \E i \in DOMAIN rs : Store!Answers(rs, i, h) /\ Match(Compile(rs), h) = {rs[i].action}
<1> DEFINE From(i) == SubSeq(h.name, i, Len(h.name))
           m == Compile(rs)
           names == {i \in 1..Len(h.name) : From(i) \in DOMAIN m.suffixes}
<1>1. m.suffixes = SuffixMap(rs)
  BY DEF Compile
<1>2. DOMAIN m.suffixes = {rs[i].key : i \in Of(rs, "suffix")}
  BY <1>1 DEF SuffixMap
<1>3. Len(h.name) \in Nat /\ names \in SUBSET Nat
  BY RulesAssumption
<1>4. p \in names
  BY <1>2
<1>5. PICK n \in names : First(names) = {n} /\ \A k \in names : n <= k
  <2> HIDE DEF names
  <2> QED BY <1>3, <1>4, FirstIsOne
<1> DEFINE K == With(rs, From(n))
<1>6. K # {} /\ K \in SUBSET Nat
  <2>1. PICK i \in Of(rs, "suffix") : rs[i].key = From(n)
    BY <1>2, <1>5
  <2>2. i \in K
    BY ONLY <2>1 DEF K, With
  <2>3. Of(rs, "suffix") \in SUBSET Nat
    BY DEF Of
  <2>4. K \subseteq Of(rs, "suffix")
    BY ONLY DEF K, With
  <2> HIDE DEF K
  <2> QED BY ONLY <2>2, <2>3, <2>4
<1>7. PICK k \in K : First(K) = {k} /\ \A j \in K : k <= j
  BY <1>6, FirstIsOne
<1>8. k \in DOMAIN rs /\ rs[k].kind = "suffix" /\ rs[k].key = From(n) /\ n \in 1..Len(h.name)
  BY <1>5, <1>7 DEF With, Of
<1>9. Match(m, h) = {rs[k].action}
  <2>1. m.suffixes[From(n)] = rs[k].action
    <3>1. From(n) \in DOMAIN m.suffixes
      BY <1>5
    <3>2. m.suffixes[From(n)] = rs[CHOOSE i \in First(K) : TRUE].action
      BY <1>1, <3>1 DEF SuffixMap
    <3> QED BY <3>2, <1>7
  <2>2. Match(m, h) = {m.suffixes[From(i)] : i \in First(names)}
    BY <1>4, Zenon DEF Match
  <2> HIDE DEF m, names, From
  <2> QED BY <2>1, <2>2, <1>5
<1>10. k \in Store!Covering(rs, h)
  BY <1>8, NameCovered
<1>11. ASSUME NEW j \in Store!Covering(rs, h) \ {k}
       PROVE  Store!Before(rs, k, j)
  <2>1. j \in DOMAIN rs
    BY DEF Store!Covering
  <2>2. CASE rs[j].kind # "suffix"
    BY <1>8, <2>2 DEF Store!Before, Store!Outranks
  <2>3. CASE rs[j].kind = "suffix"
    <3>1. PICK q \in 1..Len(h.name) : rs[j].key = From(q)
      BY <2>1, <2>3, NameCovered
    <3>2. q \in names
      BY <1>2, <2>1, <2>3, <3>1 DEF Of
    <3>3. Len(rs[j].key) = Len(h.name) - q + 1 /\ Len(rs[k].key) = Len(h.name) - n + 1
      BY <1>8, <3>1, TailLength
    <3>4. CASE n < q
      BY <1>3, <1>8, <2>3, <3>3, <3>4 DEF Store!Before, Store!Outranks
    <3>5. CASE n = q
      <4>1. j \in K
        BY <2>1, <2>3, <3>1, <3>5 DEF With, Of
      <4>2. k < j
        BY <1>7, <1>6, <4>1
      <4>3. ~Store!Outranks(rs[j], rs[k])
        BY <1>3, <1>8, <3>3, <3>5 DEF Store!Outranks
      <4> QED BY <4>2, <4>3 DEF Store!Before
    <3> QED BY <1>3, <1>5, <3>2, <3>4, <3>5
  <2> QED BY <2>2, <2>3
<1> QED BY <1>8, <1>9, <1>10, <1>11 DEF Store!Answers

LEMMA KeywordMeetsIntent ==
    ASSUME NEW rs \in Seq(Rule), NEW h \in Hosts, ~h.ip,
           Store!Covering(rs, h) # {},
           \A i \in Store!Covering(rs, h) : rs[i].kind # "suffix"
    PROVE  \E i \in DOMAIN rs : Store!Answers(rs, i, h) /\ Match(Compile(rs), h) = {rs[i].action}
<1> DEFINE From(i) == SubSeq(h.name, i, Len(h.name))
           m == Compile(rs)
           C == Store!Covering(rs, h)
           starts == 1..Len(h.name)
           names == {i \in starts : From(i) \in DOMAIN m.suffixes}
           words == {i \in DOMAIN m.keywords : \E j \in starts : IsPrefix(m.keywords[i].key, From(j))}
<1>1. C \subseteq DOMAIN rs /\ C \in SUBSET Nat
  BY DEF Store!Covering
<1>2. names = {}
  <2>1. DOMAIN m.suffixes = {rs[i].key : i \in Of(rs, "suffix")}
    BY DEF Compile, SuffixMap
  <2>2. ASSUME NEW i \in names PROVE FALSE
    <3>1. PICK j \in Of(rs, "suffix") : rs[j].key = From(i)
      BY <2>1
    <3>2. j \in C
      BY <3>1, NameCovered DEF Of
    <3> QED BY <3>1, <3>2 DEF Of
  <2> QED BY <2>2
<1>3. DOMAIN m.keywords = Of(rs, "keyword") /\ \A i \in Of(rs, "keyword") : m.keywords[i] = rs[i]
  BY DEF Compile
<1>4. words = C
  <2>1. ASSUME NEW i \in DOMAIN rs
        PROVE  i \in C <=> rs[i].kind = "keyword" /\ \E j \in starts : IsPrefix(rs[i].key, From(j))
    BY <1>1, NameCovered
  <2> QED BY <1>1, <1>3, <2>1 DEF Of
<1>5. PICK n \in C : First(C) = {n} /\ \A k \in C : n <= k
  BY <1>1, FirstIsOne
<1>6. Match(m, h) = {m.keywords[i].action : i \in First(words)}
  BY <1>2, Zenon DEF Match
<1>7. Match(m, h) = {rs[n].action}
  <2>1. n \in Of(rs, "keyword")
    BY <1>3, <1>4, <1>5
  <2> HIDE DEF m, words, C
  <2> QED BY <1>3, <1>4, <1>5, <1>6, <2>1
<1>8. \A j \in C \ {n} : Store!Before(rs, n, j)
  BY <1>1, <1>5 DEF Store!Before, Store!Outranks
<1> QED BY <1>1, <1>5, <1>7, <1>8 DEF Store!Answers

(* No rule that covers the host, no answer.                                *)
LEMMA UncoveredIsSilent ==
    ASSUME NEW rs \in Seq(Rule), NEW h \in Hosts, Store!Covering(rs, h) = {}
    PROVE  Match(Compile(rs), h) = {}
<1> DEFINE From(i) == SubSeq(h.name, i, Len(h.name))
           m == Compile(rs)
           starts == 1..Len(h.name)
           names == {i \in starts : From(i) \in DOMAIN m.suffixes}
           words == {i \in DOMAIN m.keywords : \E j \in starts : IsPrefix(m.keywords[i].key, From(j))}
           nets == {i \in DOMAIN m.cidrs : IsPrefix(m.cidrs[i].key, h.name)}
<1>1. DOMAIN m.suffixes = {rs[i].key : i \in Of(rs, "suffix")}
  BY DEF Compile, SuffixMap
<1>2. /\ DOMAIN m.keywords = Of(rs, "keyword") /\ \A i \in Of(rs, "keyword") : m.keywords[i] = rs[i]
      /\ DOMAIN m.cidrs = Of(rs, "cidr") /\ \A i \in Of(rs, "cidr") : m.cidrs[i] = rs[i]
  BY DEF Compile
<1>3. First({}) = {}
  BY DEF First
<1>4. CASE h.ip
  <2>1. \A i \in DOMAIN rs : ~Store!Covers(rs[i], h)
    BY DEF Store!Covering
  <2>2. \A i \in DOMAIN rs : rs[i].kind = "cidr" => ~IsPrefix(rs[i].key, h.name)
    BY <1>4, <2>1, SameHelpers, Zenon DEF Store!Covers
  <2>3. nets = {}
    BY <1>2, <2>2 DEF Of
  <2>4. Match(m, h) = {m.cidrs[i].action : i \in First(nets)}
    BY <1>4 DEF Match
  <2> QED BY <1>3, <2>3, <2>4
<1>5. CASE ~h.ip
  <2>1. names = {}
    <3>1. ASSUME NEW i \in names PROVE FALSE
      <4>1. PICK j \in Of(rs, "suffix") : rs[j].key = From(i)
        BY <1>1
      <4> QED BY <1>5, <4>1, NameCovered DEF Of
    <3> QED BY <3>1
  <2>2. words = {}
    <3>1. ASSUME NEW i \in words PROVE FALSE
      <4>1. i \in DOMAIN rs /\ rs[i].kind = "keyword" /\ \E j \in starts : IsPrefix(rs[i].key, From(j))
        BY <1>2 DEF Of
      <4> QED BY <1>5, <4>1, NameCovered
    <3> QED BY <3>1
  <2>3. Match(m, h) = {m.keywords[i].action : i \in First(words)}
    BY <1>5, <2>1, Zenon DEF Match
  <2> QED BY <1>3, <2>2, <2>3
<1>6. h.ip \in BOOLEAN
  BY RulesAssumption
<1> QED BY <1>4, <1>5, <1>6

(* The rules of one origin answer with the one rule RuleStore names.       *)
LEMMA OneOrigin ==
    ASSUME NEW rs \in Seq(Rule), NEW h \in Hosts, Store!Covering(rs, h) # {}
    PROVE  /\ Match(Compile(rs), h) =
                {rs[CHOOSE i \in DOMAIN rs : Store!Answers(rs, i, h)].action}
           /\ rs[CHOOSE i \in DOMAIN rs : Store!Answers(rs, i, h)].action \in Actions
<1>1. \E i \in DOMAIN rs : Store!Answers(rs, i, h) /\ Match(Compile(rs), h) = {rs[i].action}
  <2>1. CASE h.ip
    BY <2>1, AddressMeetsIntent
  <2>2. CASE ~h.ip /\ \E c \in Store!Covering(rs, h) : rs[c].kind = "suffix"
    <3>1. PICK c \in Store!Covering(rs, h) : rs[c].kind = "suffix"
      BY <2>2
    <3>2. c \in DOMAIN rs
      BY DEF Store!Covering
    <3>3. c \in Of(rs, "suffix") /\ \E p \in 1..Len(h.name) : rs[c].key = SubSeq(h.name, p, Len(h.name))
      BY <2>2, <3>1, <3>2, NameCovered DEF Of
    <3> QED BY <2>2, <3>3, SuffixMeetsIntent
  <2>3. CASE ~h.ip /\ \A c \in Store!Covering(rs, h) : rs[c].kind # "suffix"
    BY <2>3, KeywordMeetsIntent
  <2> QED BY <2>1, <2>2, <2>3
<1>2. PICK i \in DOMAIN rs : Store!Answers(rs, i, h) /\ Match(Compile(rs), h) = {rs[i].action}
  BY <1>1
<1>3. (CHOOSE j \in DOMAIN rs : Store!Answers(rs, j, h)) = i
  BY <1>2, AnswersIsOne
<1>4. rs[i].action \in Actions
  BY RulesAssumption
<1> QED BY <1>2, <1>3, <1>4

(* What the matchers decide is what RuleStore intends.                     *)
THEOREM DecideMeetsIntent ==
    ASSUME NEW m \in Seq(Rule), NEW l \in Seq(Rule), NEW h \in Hosts
    PROVE  Decide([manual |-> Compile(m), list |-> Compile(l)], h) = Store!Intended(m, l, h)
<1> DEFINE M == Match(Compile(m), h)
           L == Match(Compile(l), h)
           c == [manual |-> Compile(m), list |-> Compile(l)]
           answer == IF M # {} THEN M ELSE L
           byM == m[CHOOSE i \in DOMAIN m : Store!Answers(m, i, h)].action
           byL == l[CHOOSE i \in DOMAIN l : Store!Answers(l, i, h)].action
<1>1. Decide(c, h) = IF answer = {} THEN Default ELSE CHOOSE a \in answer : TRUE
  BY DEF Decide
<1>2. Store!Intended(m, l, h) = IF Store!Covering(m, h) # {} THEN byM
                                ELSE IF Store!Covering(l, h) # {} THEN byL ELSE Default
  BY DEF Store!Intended
<1>3. IF Store!Covering(m, h) # {} THEN M = {byM} ELSE M = {}
  BY OneOrigin, UncoveredIsSilent
<1>4. IF Store!Covering(l, h) # {} THEN L = {byL} ELSE L = {}
  BY OneOrigin, UncoveredIsSilent
<1> HIDE DEF M, L, byM, byL
<1>5. \A a : (CHOOSE b \in {a} : TRUE) = a
  OBVIOUS
<1> QED BY <1>1, <1>2, <1>3, <1>4, <1>5

---------------------------------------------------------------------------
(* Types                                                                   *)

(* Half of a file, parsed, is a sequence of rules too.                     *)
LEMMA HalfParsed ==
    ASSUME NEW f \in Files, NEW n \in 0..Len(f)
    PROVE  Parse(SubSeq(f, 1, n)) \in Seq(Rule)
<1>1. f \in Seq(Line) /\ Len(f) \in Nat /\ DOMAIN f = 1..Len(f)
  BY RulesAssumption
<1>2. Parse(f) = [i \in 1..Len(f) |-> Entry(f[i])] /\ Parse(f) \in Seq(Rule)
  BY <1>1, RulesAssumption DEF Parse
<1>3. \A i \in 1..Len(f) : Entry(f[i]) \in Rule
  <2>1. Len(Parse(f)) = Len(f)
    BY <1>1, <1>2
  <2>2. \A i \in 1..Len(f) : Parse(f)[i] \in Rule
    BY <1>2, <2>1
  <2> QED BY <1>2, <2>2
<1>4. SubSeq(f, 1, n) = [i \in 1..n |-> f[i]]
  BY <1>1
<1>5. Parse(SubSeq(f, 1, n)) = [i \in 1..n |-> Entry(f[i])]
  BY <1>4 DEF Parse
<1> QED BY <1>1, <1>3, <1>5

(* And what is left of a copy is one.                                      *)
LEMMA Part ==
    ASSUME NEW s \in Seq(Rule), NEW n \in 1..Len(s)
    PROVE  SubSeq(s, 1, n) \in Seq(Rule)
<1>1. SubSeq(s, 1, n) = [i \in 1..n |-> s[i]]
  OBVIOUS
<1>2. \A i \in 1..n : s[i] \in Rule
  OBVIOUS
<1> QED BY <1>1, <1>2

(* The engine, the watcher and the list goroutine; a file that exists has  *)
(* a modification time that is neither the zero time nor Watch's first.    *)
RulesInv == RulesTypeOK /\ stamp > NotYet

LEMMA RulesInitTyped == RulesInit => RulesInv
<1> SUFFICES ASSUME RulesInit PROVE RulesInv
    OBVIOUS
<1> USE RulesAssumption DEF RulesInit, NotYet
<1>1. manual \in Seq(Rule) /\ list \in Seq(Rule) /\ loaded \in Seq(Rule) /\ got \in Seq(Rule) /\ cache \in Seq(Rule)
  <2>1. <<>> \in Seq(Rule)
    OBVIOUS
  <2> QED BY <2>1
<1>2. file \in Files /\ stamp \in Nat /\ last \in 0..stamp /\ stamp > NotYet /\ ops \in 0..MaxOps /\ mishaps \in 0..MaxMishaps
  OBVIOUS
<1>3. wpc \in WatchSteps /\ lpc \in FetchSteps
      /\ fresh \in BOOLEAN /\ armed \in BOOLEAN /\ wake \in BOOLEAN /\ ready \in BOOLEAN /\ missed \in BOOLEAN
  BY DEF WatchSteps, FetchSteps
<1>4. up = (wpc \in {"stat", "idle"} \/ last # NotYet)
  OBVIOUS
<1> QED BY <1>1, <1>2, <1>3, <1>4 DEF RulesInv, RulesTypeOK

LEMMA WatcherTyped ==
    ASSUME RulesInv, Watcher \/ (wpc = "scan" /\ wpc' = "close"
                                 /\ UNCHANGED <<engine, file, stamp, last, loaded, up, missed,
                                                fetcher, ready, budget>>)
                     \/ (wpc = "close" /\ Applied)
    PROVE  RulesInv'
<1> USE RulesAssumption DEF RulesInv, RulesTypeOK, WatchSteps, engine, fetcher, budget, Mishap, NoMishap, NotYet, Never
<1>1. CASE LoadRules
  <2>1. loaded' \in Seq(Rule)
    BY <1>1, HalfParsed DEF LoadRules
  <2>2. missed' \in BOOLEAN /\ mishaps' \in 0..MaxMishaps
    <3>1. (missed' = FALSE /\ NoMishap) \/ (missed' = TRUE /\ Mishap)
      BY <1>1, Zenon DEF LoadRules
    <3>2. missed' \in BOOLEAN
      BY <3>1, Zenon
    <3>3. mishaps' \in 0..MaxMishaps
      <4>1. NoMishap \/ Mishap
        BY <3>1, Zenon
      <4> QED BY <4>1
    <3> QED BY <3>2, <3>3
  <2>3. wpc = "load" /\ wpc' = "set"
           /\ UNCHANGED <<engine, file, stamp, last, up, fetcher, ready, ops>>
    BY <1>1, Zenon DEF LoadRules
  <2>4. wpc' \in WatchSteps /\ up' = (wpc' \in {"stat", "idle"} \/ last' # NotYet)
    BY <2>3
  <2>5. lpc' \in FetchSteps /\ got' \in Seq(Rule) /\ cache' \in Seq(Rule) /\ manual' \in Seq(Rule) /\ list' \in Seq(Rule)
    BY <2>3
  <2>6. file' \in Files /\ stamp' \in Nat /\ stamp' > NotYet /\ last' \in 0..stamp' /\ ops' \in 0..MaxOps
    BY <2>3
  <2>7. fresh' \in BOOLEAN /\ armed' \in BOOLEAN /\ wake' \in BOOLEAN /\ ready' \in BOOLEAN
    BY <2>3
  <2> QED BY <2>1, <2>2, <2>4, <2>5, <2>6, <2>7
<1>2. CASE SetManual
  BY <1>2, ConcatProperties DEF SetManual
<1>3. CASE PublishManual
  BY <1>3 DEF PublishManual
<1>4. CASE FirstLook
  BY <1>4 DEF FirstLook, ModTime
<1>5. CASE Tick
  BY <1>5 DEF Tick, ModTime
<1>6. CASE wpc = "scan" /\ wpc' = "close"
           /\ UNCHANGED <<engine, file, stamp, last, loaded, up, missed, fetcher, ready, budget>>
  BY <1>6
<1>7. CASE wpc = "close" /\ Applied
  BY <1>7 DEF Applied
<1> QED BY <1>1, <1>2, <1>3, <1>4, <1>5, <1>6, <1>7 DEF Watcher

LEMMA FetcherTyped ==
    ASSUME RulesInv, Fetcher \/ PublishList \/ TimerFires \/ WakeUp
    PROVE  RulesInv'
<1> USE RulesAssumption DEF RulesInv, RulesTypeOK, FetchSteps, engine, watcher, budget, Mishap, NoMishap
<1>1. CASE Seed
  <2>1. got' \in Seq(Rule) /\ cache' \in Seq(Rule) /\ fresh' \in BOOLEAN /\ lpc' \in FetchSteps
    <3>1. CASE \E n \in 1..Len(cache) :
                  /\ cache' = SubSeq(cache, 1, n) /\ got' = cache' /\ fresh' \in BOOLEAN
                  /\ lpc' = "seedSet"
      <4>1. PICK n \in 1..Len(cache) : cache' = SubSeq(cache, 1, n) /\ got' = cache'
        BY <3>1
      <4>2. cache' \in Seq(Rule)
        BY <4>1, Part
      <4> QED BY <3>1, <4>1, <4>2
    <3>2. CASE lpc' = "check" /\ UNCHANGED <<got, fresh, cache>>
      BY <3>2
    <3> QED BY <1>1, <3>1, <3>2, Zenon DEF Seed
  <2>2. mishaps' \in 0..MaxMishaps
    <3>1. mishaps' = mishaps \/ (mishaps < MaxMishaps /\ mishaps' = mishaps + 1)
      BY <1>1, Zenon DEF Seed
    <3>2. mishaps \in 0..MaxMishaps /\ MaxMishaps \in Nat
      BY Zenon
    <3> QED BY ONLY <3>1, <3>2
  <2> QED BY <1>1, <2>1, <2>2 DEF Seed
<1>2. CASE SetList
  BY <1>2 DEF SetList
<1>3. CASE PublishList
  BY <1>3 DEF PublishList
<1>4. CASE Check
  BY <1>4 DEF Check
<1>5. CASE Headers \/ Downloaded
  BY <1>5 DEF Headers, Downloaded
<1>6. CASE FetchFails
  BY <1>6 DEF FetchFails
<1>7. CASE SaveCache
  BY <1>7 DEF SaveCache
<1>8. CASE TimerFires
  BY <1>8 DEF TimerFires
<1>9. CASE WakeUp
  BY <1>9 DEF WakeUp
<1> QED BY <1>1, <1>2, <1>3, <1>4, <1>5, <1>6, <1>7, <1>8, <1>9 DEF Fetcher

LEMMA SurroundingsTyped ==
    ASSUME RulesInv, Surroundings \/ Restart
    PROVE  RulesInv'
<1> USE RulesAssumption DEF RulesInv, RulesTypeOK, engine, watcher, fetcher, budget, Spend, NotYet
<1>1. CASE TunnelChanges
  BY <1>1 DEF TunnelChanges
<1>2. CASE Edit
  BY <1>2 DEF Edit
<1>3. CASE GrowsOld
  <2>1. fresh' = FALSE /\ Spend
           /\ UNCHANGED <<engine, file, stamp, watcher, lpc, got, cache, armed, wake, ready, mishaps>>
    BY <1>3, Zenon DEF GrowsOld
  <2>2. fresh' \in BOOLEAN
    BY <2>1
  <2>3. ops' \in 0..MaxOps
    BY <2>1
  <2> QED BY <2>1, <2>2, <2>3
<1>4. CASE Restart
  <2>1. <<>> \in Seq(Rule)
    OBVIOUS
  <2>2. manual' \in Seq(Rule) /\ list' \in Seq(Rule) /\ loaded' \in Seq(Rule) /\ got' \in Seq(Rule) /\ cache' \in Seq(Rule)
    BY <1>4, <2>1 DEF Restart
  <2>3. file' \in Files /\ stamp' \in Nat /\ stamp' > NotYet /\ last' \in 0..stamp' /\ ops' \in 0..MaxOps /\ mishaps' \in 0..MaxMishaps
    BY <1>4 DEF Restart, Mishap
  <2>4. wpc' \in WatchSteps /\ lpc' \in FetchSteps
    BY <1>4 DEF Restart, WatchSteps, FetchSteps
  <2>5. up' = (wpc' \in {"stat", "idle"} \/ last' # NotYet)
    BY <1>4 DEF Restart
  <2>6. fresh' \in BOOLEAN /\ armed' \in BOOLEAN /\ wake' \in BOOLEAN /\ ready' \in BOOLEAN /\ missed' \in BOOLEAN
    BY <1>4 DEF Restart
  <2> HIDE DEF NotYet
  <2> QED BY <2>2, <2>3, <2>4, <2>5, <2>6
<1> QED BY <1>1, <1>2, <1>3, <1>4 DEF Surroundings

(* The proxy's part of TypeOK.                                             *)
ConnsInv ==
    /\ conn \in [Conns -> Conn]
    /\ active = {c \in Conns : conn[c].pc = "relay"}
    /\ stale \subseteq {c \in Conns : conn[c].pc # "free"}
    /\ stale # {} => wpc = "close"
    /\ snap \in [Conns -> Apps \cup {None}] \cup {None}

(* A step of one connection.                                               *)
LEMMA OneConn ==
    ASSUME ConnsInv, NEW c \in Conns, NEW r \in Conn,
           conn' = [conn EXCEPT ![c] = r],
           active' = IF r.pc = "relay" THEN active \cup {c} ELSE active \ {c},
           stale' \subseteq stale, r.pc = "free" => c \notin stale',
           wpc' = wpc,
           snap' \in [Conns -> Apps \cup {None}] \cup {None}
    PROVE  ConnsInv'
<1>1. conn' \in [Conns -> Conn] /\ conn'[c] = r /\ \A d \in Conns \ {c} : conn'[d] = conn[d]
  BY DEF ConnsInv
<1>2. active' = {d \in Conns : conn'[d].pc = "relay"}
  BY <1>1 DEF ConnsInv
<1>3. stale' \subseteq {d \in Conns : conn'[d].pc # "free"}
  BY <1>1 DEF ConnsInv
<1>4. stale' # {} => wpc' = "close"
  BY DEF ConnsInv
<1> QED BY <1>1, <1>2, <1>3, <1>4 DEF ConnsInv

LEMMA EndedTyped ==
    ASSUME ConnsInv, NEW c \in Conns, Ended(c), wpc' = wpc, active' = active \ {c}
    PROVE  ConnsInv'
<1>1. Free \in Conn /\ Free.pc = "free"
  BY DEF Free, Conn
<1>2. conn' = [conn EXCEPT ![c] = Free] /\ stale' = stale \ {c}
  BY DEF Ended
<1>3. snap' \in [Conns -> Apps \cup {None}] \cup {None}
  BY DEF Ended, ConnsInv
<1> QED BY <1>1, <1>2, <1>3, OneConn

LEMMA ConnTyped ==
    ASSUME ConnsInv, NEW c \in Conns, ConnStep(c)
    PROVE  ConnsInv'
<1>1. conn[c] \in Conn /\ wpc' = wpc /\ (conn[c].pc = "relay" <=> c \in active)
  BY DEF ConnsInv, ConnStep, ruleVars, watcher, Accept, Lookup, Request, Track, Finish, Abandon
<1>2. CASE Accept(c)
  <2>1. PICK a \in Apps : conn' = [conn EXCEPT ![c] = [Free EXCEPT !.pc = "accepted", !.app = a, !.open = TRUE]]
    BY <1>2 DEF Accept
  <2> DEFINE r == [Free EXCEPT !.pc = "accepted", !.app = a, !.open = TRUE]
  <2>2. r \in Conn /\ r.pc = "accepted"
    BY DEF Free, Conn
  <2>3. active' = active \ {c} /\ stale' = stale /\ snap' = snap
    BY <1>1, <1>2 DEF Accept
  <2> HIDE DEF r
  <2>4. conn' = [conn EXCEPT ![c] = r]
    BY <2>1 DEF r
  <2>5. snap' \in [Conns -> Apps \cup {None}] \cup {None}
    BY <2>3 DEF ConnsInv
  <2> QED BY <1>1, <2>2, <2>3, <2>4, <2>5, OneConn
<1>3. CASE Lookup(c)
  <2> DEFINE f == Selected # {} /\ snap'[c] \in Selected
             r == [conn[c] EXCEPT !.pc = "ask", !.forced = f]
  <2>1. f \in BOOLEAN
    BY Zenon
  <2> HIDE DEF f
  <2>2. r \in Conn /\ r.pc = "ask"
    BY <1>1, <2>1 DEF Conn
  <2>3. conn' = [conn EXCEPT ![c] = r]
    <3>1. conn' = [conn EXCEPT ![c].pc = "ask", ![c].forced = f]
      BY <1>3 DEF Lookup, f
    <3> QED BY <3>1 DEF ConnsInv
  <2>4. active' = active \ {c} /\ stale' = stale
    BY <1>1, <1>3 DEF Lookup
  <2>5. snap' \in [Conns -> Apps \cup {None}] \cup {None}
    <3>1. snap' \in {snap, Walked}
      BY <1>3 DEF Lookup
    <3>2. Walked \in [Conns -> Apps \cup {None}]
      BY DEF Walked, ConnsInv, Conn
    <3> QED BY <3>1, <3>2 DEF ConnsInv
  <2> HIDE DEF r
  <2> QED BY <1>1, <2>2, <2>3, <2>4, <2>5, OneConn
<1>4. CASE Track(c)
  <2> DEFINE r == [conn[c] EXCEPT !.pc = "relay"]
  <2>1. r \in Conn /\ r.pc = "relay"
    BY <1>1 DEF Conn
  <2>2. conn' = [conn EXCEPT ![c] = r]
    BY <1>4 DEF Track, ConnsInv
  <2>3. active' = active \cup {c} /\ stale' = stale /\ snap' = snap
    BY <1>4 DEF Track
  <2>4. snap' \in [Conns -> Apps \cup {None}] \cup {None}
    BY <2>3 DEF ConnsInv
  <2> HIDE DEF r
  <2> QED BY <1>1, <2>1, <2>2, <2>3, <2>4, OneConn
<1>5. CASE Finish(c)
  <2>1. CASE Ended(c)
    BY <1>1, <1>5, <2>1, EndedTyped DEF Finish
  <2>2. CASE /\ conn' = [conn EXCEPT ![c].pc = "ask", ![c].host = None, ![c].wg = FALSE,
                                     ![c].excused = FALSE]
             /\ UNCHANGED <<stale, snap>>
    <3> DEFINE r == [conn[c] EXCEPT !.pc = "ask", !.host = None, !.wg = FALSE, !.excused = FALSE]
    <3>1. r \in Conn /\ r.pc = "ask"
      BY <1>1 DEF Conn
    <3>2. conn' = [conn EXCEPT ![c] = r]
      BY <2>2 DEF ConnsInv
    <3>3. active' = active \ {c}
      BY <1>5 DEF Finish
    <3>4. snap' \in [Conns -> Apps \cup {None}] \cup {None}
      BY <2>2 DEF ConnsInv
    <3> HIDE DEF r
    <3> QED BY <1>1, <2>2, <3>1, <3>2, <3>3, <3>4, OneConn
  <2> QED BY <1>5, <2>1, <2>2, Zenon DEF Finish
<1>6. CASE Abandon(c)
  <2>1. Ended(c) /\ active' = active \ {c}
    BY <1>1, <1>6 DEF Abandon
  <2> QED BY <1>1, <2>1, EndedTyped
<1>7. CASE \E h \in Hosts, http \in BOOLEAN : Request(c, h, http)
  <2>1. PICK h \in Hosts, http \in BOOLEAN : Request(c, h, http)
    BY <1>7
  <2> DEFINE w == conn[c].forced \/ ByRule(h)
             r == [conn[c] EXCEPT !.pc = "track", !.host = h, !.http = http,
                                  !.wg = w, !.excused = FALSE]
  <2>2. w \in BOOLEAN
    BY Zenon
  <2> HIDE DEF w
  <2>3. r \in Conn /\ r.pc = "track"
    BY <1>1, <2>2 DEF Conn
  <2>4. conn' = [conn EXCEPT ![c] = r]
    <3>1. conn' = [conn EXCEPT ![c].pc = "track", ![c].host = h, ![c].http = http,
                               ![c].wg = w, ![c].excused = FALSE]
      BY <2>1 DEF Request, w
    <3> QED BY <3>1 DEF ConnsInv
  <2>5. active' = active \ {c} /\ stale' = stale /\ snap' = snap
    BY <1>1, <2>1 DEF Request
  <2>6. snap' \in [Conns -> Apps \cup {None}] \cup {None}
    BY <2>5 DEF ConnsInv
  <2> HIDE DEF r
  <2> QED BY <1>1, <2>3, <2>4, <2>5, <2>6, OneConn
<1> QED BY <1>2, <1>3, <1>4, <1>5, <1>6, <1>7, Zenon DEF ConnStep

LEMMA TypeInit == Init => RulesInv /\ ConnsInv
<1> SUFFICES ASSUME Init PROVE RulesInv /\ ConnsInv
    OBVIOUS
<1>1. RulesInv
  BY RulesInitTyped DEF Init
<1>2. Free \in Conn /\ Free.pc = "free"
  BY DEF Free, Conn
<1>3. ConnsInv
  BY <1>2 DEF Init, ConnsInv
<1> QED BY <1>1, <1>3

LEMMA TypeStep ==
    ASSUME RulesInv, ConnsInv, [Next]_vars
    PROVE  RulesInv' /\ ConnsInv'
<1>1. CASE \E c \in Conns : ConnStep(c)
  <2>1. PICK c \in Conns : ConnStep(c)
    BY <1>1
  <2>2. UNCHANGED ruleVars
    BY <2>1 DEF ConnStep, Accept, Lookup, Request, Track, Finish, Abandon
  <2>3. RulesInv'
    BY <2>2 DEF RulesInv, RulesTypeOK, ruleVars, engine, watcher, fetcher, budget
  <2> QED BY <2>1, <2>3, ConnTyped
<1>2. CASE Alone(Watcher)
  <2>1. Watcher /\ UNCHANGED proxyVars
    BY <1>2 DEF Alone
  <2>2. stale = {}
    BY <2>1 DEF ConnsInv, Watcher, LoadRules, SetManual, PublishManual, FirstLook, Tick
  <2>3. ConnsInv'
    BY <2>1, <2>2 DEF ConnsInv, proxyVars
  <2> QED BY <2>1, <2>3, WatcherTyped
<1>3. CASE Scan
  <2>1. RulesInv'
    BY <1>3, WatcherTyped DEF Scan
  <2>2. ASSUME NEW c \in Conns PROVE conn'[c] \in Conn /\ conn'[c].pc = conn[c].pc
    <3> DEFINE e == conn[c].pc = "track" /\ Changed(c)
    <3>1. e \in BOOLEAN
      BY Zenon
    <3>2. conn'[c] = IF conn[c].pc \in {"track", "relay"} THEN [conn[c] EXCEPT !.excused = e] ELSE conn[c]
      BY <1>3 DEF Scan
    <3> HIDE DEF e
    <3> QED BY <3>1, <3>2 DEF ConnsInv, Conn
  <2>3. conn' = [c \in Conns |-> conn'[c]]
    BY <1>3 DEF Scan
  <2>4. wpc' = "close" /\ UNCHANGED <<active, snap>> /\ stale' \subseteq active
    BY <1>3 DEF Scan
  <2> QED BY <2>1, <2>2, <2>3, <2>4 DEF ConnsInv
<1>4. CASE CloseStale
  <2>1. RulesInv'
    BY <1>4, WatcherTyped DEF CloseStale
  <2>2. ASSUME NEW c \in Conns PROVE conn'[c] \in Conn /\ conn'[c].pc = conn[c].pc
    <3>1. conn'[c] = IF c \in stale THEN [conn[c] EXCEPT !.open = FALSE] ELSE conn[c]
      BY <1>4 DEF CloseStale
    <3> QED BY <3>1 DEF ConnsInv, Conn
  <2>3. conn' = [c \in Conns |-> conn'[c]]
    BY <1>4 DEF CloseStale
  <2> QED BY <1>4, <2>1, <2>2, <2>3 DEF CloseStale, ConnsInv
<1>5. CASE Alone(Fetcher)
  <2>1. Fetcher /\ UNCHANGED proxyVars
    BY <1>5 DEF Alone
  <2>2. wpc' = wpc
    BY <2>1 DEF Fetcher, Seed, SetList, Check, Headers, Downloaded, FetchFails, SaveCache, watcher
  <2> QED BY <2>1, <2>2, FetcherTyped DEF ConnsInv, proxyVars
<1>6. CASE ListPublished
  <2>1. RulesInv'
    BY <1>6, FetcherTyped DEF ListPublished
  <2>2. ASSUME NEW c \in Conns PROVE conn'[c] \in Conn /\ conn'[c].pc = conn[c].pc
    <3> DEFINE e == conn[c].excused \/ (Decide(current', conn[c].host) = "wg") # conn[c].wg
    <3>1. e \in BOOLEAN
      BY Zenon
    <3>2. conn'[c] = IF conn[c].pc \in {"track", "relay"} THEN [conn[c] EXCEPT !.excused = e] ELSE conn[c]
      BY <1>6 DEF ListPublished
    <3> HIDE DEF e
    <3> QED BY <3>1, <3>2 DEF ConnsInv, Conn
  <2>3. conn' = [c \in Conns |-> conn'[c]]
    BY <1>6 DEF ListPublished
  <2>4. wpc' = wpc
    BY <1>6 DEF ListPublished, PublishList, watcher
  <2> QED BY <1>6, <2>1, <2>2, <2>3, <2>4 DEF ListPublished, ConnsInv
<1>7. CASE Alone(TimerFires) \/ Alone(WakeUp)
  <2>1. (TimerFires \/ WakeUp) /\ UNCHANGED proxyVars
    BY <1>7 DEF Alone
  <2>2. wpc' = wpc
    BY <2>1 DEF TimerFires, WakeUp, watcher
  <2> QED BY <2>1, <2>2, FetcherTyped DEF ConnsInv, proxyVars
<1>8. CASE Alone(Surroundings)
  <2>1. Surroundings /\ UNCHANGED proxyVars
    BY <1>8 DEF Alone
  <2>2. wpc' = wpc
    BY <2>1 DEF Surroundings, TunnelChanges, Edit, GrowsOld, watcher
  <2> QED BY <2>1, <2>2, SurroundingsTyped DEF ConnsInv, proxyVars
<1>9. CASE RestartAll
  <2>1. RulesInv'
    BY <1>9, SurroundingsTyped DEF RestartAll
  <2>2. Free \in Conn /\ Free.pc = "free"
    BY DEF Free, Conn
  <2> QED BY <1>9, <2>1, <2>2 DEF RestartAll, ConnsInv
<1>10. CASE UNCHANGED vars
  BY <1>10 DEF vars, ruleVars, proxyVars, engine, watcher, fetcher, budget,
               RulesInv, RulesTypeOK, ConnsInv
<1> QED BY <1>1, <1>2, <1>3, <1>4, <1>5, <1>6, <1>7, <1>8, <1>9, <1>10, Zenon
        DEF Next, WatcherStep, FetcherStep

(* Every state of the engine, its two goroutines and the proxy is typed.   *)
THEOREM ProxyTypeCorrect == Spec => []TypeOK
<1>1. RulesInv /\ ConnsInv => TypeOK
  BY DEF RulesInv, ConnsInv, TypeOK
<1>2. Spec => [](RulesInv /\ ConnsInv)
  BY TypeInit, TypeStep, PTL DEF Spec
<1> QED BY <1>1, <1>2, PTL

---------------------------------------------------------------------------
(* The refinement                                                          *)

LEMMA NothingDecides ==
    ASSUME NEW h \in Hosts
    PROVE  Decide(Nothing, h) = Default
<1>1. <<>> \in Seq(Rule) /\ Nothing = [manual |-> Compile(<<>>), list |-> Compile(<<>>)]
  BY DEF Nothing
<1>2. Store!Covering(<<>>, h) = {}
  BY DEF Store!Covering
<1>3. Store!Intended(<<>>, <<>>, h) = Default
  BY <1>2 DEF Store!Intended
<1> QED BY <1>1, <1>3, DecideMeetsIntent

LEMMA StoreInit == Init => Store!Empty
<1> SUFFICES ASSUME Init PROVE Store!Empty
    OBVIOUS
<1>1. manual = <<>> /\ list = <<>> /\ current = Nothing
  BY DEF Init, RulesInit
<1>2. \A h \in Hosts : Decide(Nothing, h) = Default
  BY NothingDecides
<1> QED BY <1>1, <1>2 DEF Store!Empty, Decisions

LEMMA StorePublish ==
    ASSUME RulesInv, Publish, UNCHANGED <<manual, list>>
    PROVE  Store!Publish
<1>1. \A h \in Hosts : Decide(current', h) = Store!Intended(manual, list, h)
  BY DecideMeetsIntent DEF Publish, RulesInv, RulesTypeOK
<1> QED BY <1>1 DEF Store!Publish, Decisions

LEMMA StoreStep ==
    ASSUME RulesInv, RulesInv', [Next]_vars
    PROVE  [Store!Next]_(Store!vars)
<1>1. CASE UNCHANGED engine
  BY <1>1 DEF engine, Store!vars, Decisions
<1>2. CASE \E c \in Conns : ConnStep(c)
  <2>1. UNCHANGED ruleVars
    <3>1. ASSUME NEW c \in Conns, ConnStep(c) PROVE UNCHANGED ruleVars
      <4>1. Accept(c) => UNCHANGED ruleVars
        BY Zenon DEF Accept
      <4>2. Lookup(c) => UNCHANGED ruleVars
        BY Zenon DEF Lookup
      <4>3. \A h \in Hosts, http \in BOOLEAN : Request(c, h, http) => UNCHANGED ruleVars
        BY Zenon DEF Request
      <4>4. Track(c) \/ Finish(c) \/ Abandon(c) => UNCHANGED ruleVars
        BY Zenon DEF Track, Finish, Abandon
      <4> QED BY <3>1, <4>1, <4>2, <4>3, <4>4, Zenon DEF ConnStep
    <3> QED BY <1>2, <3>1, Zenon
  <2> QED BY <1>1, <2>1 DEF ruleVars
<1>3. CASE Watcher
  <2>1. CASE SetManual
    BY <2>1 DEF SetManual, RulesInv, RulesTypeOK, Store!Next, Store!SetManual, Decisions
  <2>2. CASE PublishManual
    BY <2>2, StorePublish DEF PublishManual, Store!Next
  <2>3. CASE LoadRules \/ FirstLook \/ Tick
    BY <1>1, <2>3 DEF LoadRules, FirstLook, Tick
  <2> QED BY <1>3, <2>1, <2>2, <2>3 DEF Watcher
<1>4. CASE Scan \/ CloseStale
  BY <1>1, <1>4 DEF Scan, CloseStale, Applied
<1>5. CASE Fetcher
  <2>1. CASE SetList
    BY <2>1 DEF SetList, RulesInv, RulesTypeOK, Store!Next, Store!SetList, Decisions
  <2>2. CASE ~SetList
    BY <1>1, <1>5, <2>2 DEF Fetcher, Seed, Check, Headers, Downloaded, FetchFails, SaveCache
  <2> QED BY <2>1, <2>2
<1>6. CASE PublishList
  BY <1>6, StorePublish DEF PublishList, Store!Next
<1>7. CASE TimerFires \/ WakeUp \/ Surroundings
  BY <1>1, <1>7 DEF TimerFires, WakeUp, Surroundings, TunnelChanges, Edit, GrowsOld
<1>8. CASE Restart
  <2>1. manual' = <<>> /\ list' = <<>> /\ current' = Nothing
    BY <1>8 DEF Restart
  <2>2. Decisions' = [h \in Hosts |-> Default]
    BY <2>1, NothingDecides DEF Decisions
  <2>3. Store!Restart
    BY <2>1, <2>2 DEF Store!Restart, Store!Empty
  <2> QED BY <2>3 DEF Store!Next
<1>9. CASE UNCHANGED vars
  BY <1>1, <1>9 DEF vars, ruleVars
<1> QED BY <1>2, <1>3, <1>4, <1>5, <1>6, <1>7, <1>8, <1>9, Zenon
        DEF Next, WatcherStep, FetcherStep, ListPublished, RestartAll, Alone

(* The engine, behind two goroutines that store and publish under mu one   *)
(* section at a time, with restarts in between, implements RuleStore: what *)
(* is published is at every moment, for every host, what the rules stored  *)
(* at one moment intend.                                                   *)
THEOREM RulesImplementStore == Spec => PublishesIntended
<1>1. Spec => [](RulesInv /\ ConnsInv)
  BY TypeInit, TypeStep, PTL DEF Spec
<1>2. Spec => Store!Empty /\ [][Store!Next]_(Store!vars)
  BY <1>1, StoreInit, StoreStep, PTL DEF Spec
<1> QED BY <1>2, PTL DEF PublishesIntended, Store!Spec

---------------------------------------------------------------------------
(* Routes                                                                  *)

(* A request under way whose route is not the published one, and that no   *)
(* exception covers ...                                                    *)
Misrouted(c) ==
    /\ conn[c].pc \in {"track", "relay"} /\ conn[c].open
    /\ ~conn[c].forced /\ ~conn[c].excused
    /\ conn[c].wg # ByRule(conn[c].host)

(* ... is one that Rebalance has collected, unless Rebalance is still due. *)
RoutesInv == wpc # "scan" => \A c \in Conns : Misrouted(c) => c \in stale

LEMMA RoutesInit == Init => RoutesInv
BY DEF Init, RoutesInv, Misrouted, Free

(* A step that changes no decision and no stage of Rebalance, and leaves   *)
(* every request under way as it was, or new and on its route.             *)
LEMMA RoutesAlone ==
    ASSUME RoutesInv, wpc' # "scan" => wpc # "scan",
           \A c \in Conns : Misrouted(c)' => Misrouted(c) /\ (c \in stale => c \in stale')
    PROVE  RoutesInv'
BY DEF RoutesInv

LEMMA ConnRoutes ==
    ASSUME ConnsInv, RoutesInv, NEW c \in Conns, ConnStep(c)
    PROVE  RoutesInv'
<1>1. wpc' = wpc /\ current' = current
  BY DEF ConnStep, ruleVars, engine, watcher, Accept, Lookup, Request, Track, Finish, Abandon
<1>2. \A d \in Conns \ {c} : conn'[d] = conn[d] /\ (d \in stale => d \in stale')
  BY DEF ConnsInv, ConnStep, Accept, Lookup, Request, Track, Finish, Abandon, Ended
<1>3. \A d \in Conns \ {c} : Misrouted(d)' <=> Misrouted(d)
  BY <1>1, <1>2 DEF Misrouted, ByRule
<1>4. Misrouted(c)' => Misrouted(c) /\ (c \in stale => c \in stale')
  <2>1. CASE Accept(c)
    BY <2>1 DEF Accept, ConnsInv, Misrouted, Free
  <2>2. CASE Lookup(c)
    BY <2>2 DEF Lookup, ConnsInv, Misrouted
  <2>3. CASE Track(c)
    BY <2>3, <1>1 DEF Track, ConnsInv, Conn, Misrouted, ByRule
  <2>4. CASE Finish(c)
    <3>1. conn'[c].pc \in {"free", "ask"}
      BY <2>4 DEF Finish, Ended, ConnsInv, Conn, Free
    <3> QED BY <3>1 DEF Misrouted
  <2>5. CASE Abandon(c)
    BY <2>5 DEF Abandon, Ended, ConnsInv, Misrouted, Free
  <2>6. CASE \E h \in Hosts, http \in BOOLEAN : Request(c, h, http)
    <3>1. PICK h \in Hosts, http \in BOOLEAN : Request(c, h, http)
      BY <2>6
    <3> DEFINE w == conn[c].forced \/ ByRule(h)
    <3>2. conn' = [conn EXCEPT ![c].pc = "track", ![c].host = h, ![c].http = http,
                               ![c].wg = w, ![c].excused = FALSE]
      BY <3>1 DEF Request
    <3>3. ~conn[c].forced => w = ByRule(h)
      BY Zenon DEF ByRule
    <3> HIDE DEF w
    <3>4. conn'[c].host = h /\ conn'[c].wg = w /\ conn'[c].forced = conn[c].forced
      BY <3>2 DEF ConnsInv, Conn
    <3>5. ByRule(h)' = ByRule(h)
      BY <1>1 DEF ByRule
    <3>6. ~Misrouted(c)'
      BY <3>3, <3>4, <3>5 DEF Misrouted, ByRule
    <3> QED BY <3>6
  <2> QED BY <2>1, <2>2, <2>3, <2>4, <2>5, <2>6, Zenon DEF ConnStep
<1> QED BY <1>1, <1>2, <1>3, <1>4, RoutesAlone


LEMMA RoutesStep ==
    ASSUME RulesInv, ConnsInv, RoutesInv, [Next]_vars
    PROVE  RoutesInv'
<1>1. CASE \E c \in Conns : ConnStep(c)
  BY <1>1, ConnRoutes
<1>2. CASE UNCHANGED <<current, proxyVars>> /\ (wpc' # "scan" => wpc # "scan")
  BY <1>2, RoutesAlone DEF proxyVars, Misrouted, ByRule
<1>3. CASE Alone(Watcher)
  <2>1. CASE PublishManual
    BY <2>1 DEF PublishManual, RoutesInv
  <2>2. CASE ~PublishManual
    BY <1>2, <1>3, <2>2 DEF Alone, Watcher, LoadRules, SetManual, FirstLook, Tick, engine
  <2> QED BY <2>1, <2>2
<1>4. CASE Scan
  <2>1. ASSUME NEW c \in Conns, Misrouted(c)'
        PROVE  c \in stale'
    <3> DEFINE e == conn[c].pc = "track" /\ Changed(c)
    <3>1. conn'[c] = IF conn[c].pc \in {"track", "relay"} THEN [conn[c] EXCEPT !.excused = e] ELSE conn[c]
      BY <1>4 DEF Scan
    <3>2. current' = current /\ stale' = {d \in active : Changed(d)}
      BY <1>4 DEF Scan, engine
    <3>3. conn[c] \in Conn
      BY DEF ConnsInv
    <3> HIDE DEF e
    <3>4. conn[c].pc \in {"track", "relay"} /\ ~conn[c].forced /\ ~e /\ conn[c].wg # ByRule(conn[c].host)
      BY <2>1, <3>1, <3>2, <3>3 DEF Misrouted, ByRule, Conn
    <3>5. Changed(c)
      BY <3>4, Zenon DEF Changed
    <3>6. conn[c].pc = "relay"
      BY <3>4, <3>5 DEF e
    <3> QED BY <3>2, <3>5, <3>6 DEF ConnsInv
  <2> QED BY <2>1 DEF RoutesInv
<1>5. CASE CloseStale
  <2>1. ASSUME NEW c \in Conns PROVE ~Misrouted(c)'
    <3>1. conn'[c] = IF c \in stale THEN [conn[c] EXCEPT !.open = FALSE] ELSE conn[c]
      BY <1>5 DEF CloseStale
    <3>2. wpc # "scan" /\ current' = current
      BY <1>5 DEF CloseStale, Applied, engine
    <3>3. c \notin stale => ~Misrouted(c)
      BY <3>2 DEF RoutesInv
    <3>4. conn[c] \in Conn
      BY DEF ConnsInv
    <3> QED BY <3>1, <3>2, <3>3, <3>4 DEF Misrouted, ByRule, Conn
  <2> QED BY <2>1 DEF RoutesInv
<1>6. CASE ListPublished
  <2>1. wpc' = wpc /\ stale' = stale
    BY <1>6 DEF ListPublished, PublishList, watcher
  <2>2. ASSUME NEW c \in Conns, Misrouted(c)' PROVE Misrouted(c)
    <3> DEFINE w == Decide(current', conn[c].host) = "wg"
               e == conn[c].excused \/ w # conn[c].wg
    <3>1. conn'[c] = IF conn[c].pc \in {"track", "relay"} THEN [conn[c] EXCEPT !.excused = e] ELSE conn[c]
      BY <1>6 DEF ListPublished
    <3>2. conn[c] \in Conn
      BY DEF ConnsInv
    <3>3. conn'[c].host = conn[c].host /\ conn'[c].pc = conn[c].pc /\ conn'[c].wg = conn[c].wg
      BY <3>1, <3>2 DEF Conn
    <3>4. ByRule(conn[c].host)' = w
      BY <3>3 DEF ByRule
    <3> QED BY <2>2, <3>1, <3>2, <3>3, <3>4 DEF Misrouted, Conn
  <2> QED BY <2>1, <2>2, RoutesAlone
<1>7. CASE Alone(Fetcher)
  BY <1>2, <1>7 DEF Alone, Fetcher, Seed, SetList, Check, Headers, Downloaded, FetchFails, SaveCache,
                     engine, watcher
<1>8. CASE Alone(TimerFires) \/ Alone(WakeUp) \/ Alone(Surroundings)
  BY <1>2, <1>8 DEF Alone, TimerFires, WakeUp, Surroundings, TunnelChanges, Edit, GrowsOld, engine, watcher
<1>9. CASE RestartAll
  BY <1>9 DEF RestartAll, RoutesInv, Misrouted, Free
<1>10. CASE UNCHANGED vars
  BY <1>2, <1>10 DEF vars, ruleVars, engine, watcher
<1> QED BY <1>1, <1>3, <1>4, <1>5, <1>6, <1>7, <1>8, <1>9, <1>10, Zenon
        DEF Next, WatcherStep, FetcherStep

(* After every run of Rebalance the tracked connections are on the routes  *)
(* that the published rules give their hosts: what is not was decided      *)
(* before that run and tracked after it, or outdated by a fetched list.    *)
THEOREM RoutesFollowRulesHolds == Spec => []RoutesFollowRules
<1>1. RulesInv /\ ConnsInv /\ RoutesInv => RoutesFollowRules
  <2> SUFFICES ASSUME ConnsInv, RoutesInv, wpc \notin {"scan", "close"}, NEW c \in active,
                      conn[c].open, ~conn[c].forced, ~conn[c].excused
               PROVE  conn[c].wg = ByRule(conn[c].host)
      BY DEF RoutesFollowRules
  <2>1. stale = {} /\ c \in Conns /\ conn[c].pc = "relay"
    BY DEF ConnsInv
  <2>2. ~Misrouted(c)
    BY <2>1 DEF RoutesInv
  <2> QED BY <2>1, <2>2 DEF Misrouted
<1>2. Spec => [](RulesInv /\ ConnsInv /\ RoutesInv)
  BY TypeInit, TypeStep, RoutesInit, RoutesStep, PTL DEF Spec
<1> QED BY <1>1, <1>2, PTL
=============================================================================
