----------------------------- MODULE RuleStore -----------------------------
(***************************************************************************)
(* What the decision engine promises, without its matchers: rules from two *)
(* origins, and published decisions that are, for every host at once, what *)
(* the rules stored at one moment intend.  Rules implements it.            *)
(*                                                                         *)
(* A name is a sequence of labels, an address a sequence of bits.          *)
(***************************************************************************)
EXTENDS Naturals, SequencesExt

CONSTANTS Hosts,    \* destinations, [ip: BOOLEAN, name: a sequence]
          Rule,     \* match conditions, [kind, key, action]
          Default   \* the action where no rule matches

VARIABLES manual,   \* hand-written rules, in the order written
          list,     \* fetched rules
          decided   \* [Hosts -> action]: what a connection made now is told

vars == <<manual, list, decided>>

(* An address is matched by networks only, a name by the rest.             *)
Covers(r, h) ==
    \/ h.ip /\ r.kind = "cidr" /\ IsPrefix(r.key, h.name)
    \/ ~h.ip /\ r.kind = "suffix" /\ r.key \in Suffixes(h.name)
    \/ ~h.ip /\ r.kind = "keyword" /\ \E s \in Suffixes(h.name) : IsPrefix(r.key, s)

Covering(rs, h) == {i \in DOMAIN rs : Covers(rs[i], h)}

(* Among rules of one origin that cover a host: a suffix before a keyword, *)
(* the longer suffix, and what is written first.                           *)
Outranks(r, q) ==
    r.kind = "suffix" /\ (q.kind = "suffix" => Len(r.key) > Len(q.key))
Before(rs, i, j) ==
    Outranks(rs[i], rs[j]) \/ (~Outranks(rs[j], rs[i]) /\ i < j)
Answers(rs, i, h) ==
    i \in Covering(rs, h) /\ \A j \in Covering(rs, h) \ {i} : Before(rs, i, j)

(* A hand-written rule answers first, whatever its shape.                  *)
Intended(m, l, h) ==
    IF Covering(m, h) # {} THEN m[CHOOSE i \in DOMAIN m : Answers(m, i, h)].action
    ELSE IF Covering(l, h) # {} THEN l[CHOOSE i \in DOMAIN l : Answers(l, i, h)].action
    ELSE Default

Empty == /\ manual = <<>> /\ list = <<>>
         /\ decided = [h \in Hosts |-> Default]

SetManual == manual' \in Seq(Rule) /\ UNCHANGED <<list, decided>>
SetList == list' \in Seq(Rule) /\ UNCHANGED <<manual, decided>>
Publish == /\ decided' = [h \in Hosts |-> Intended(manual, list, h)]
           /\ UNCHANGED <<manual, list>>
Restart == Empty'

Next == SetManual \/ SetList \/ Publish \/ Restart
Spec == Empty /\ [][Next]_vars
=============================================================================
