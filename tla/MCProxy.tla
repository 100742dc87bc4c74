------------------------------ MODULE MCProxy ------------------------------
(***************************************************************************)
(* Proxy over a site, a host of it and an address.                         *)
(***************************************************************************)
EXTENDS Proxy, TLC

Site == [ip |-> FALSE, name |-> <<"site", "org">>]
Www == [ip |-> FALSE, name |-> <<"www", "site", "org">>]
Addr == [ip |-> TRUE, name |-> <<"0", "1">>]
MCHosts == {Www, Addr}

R(kind, key, action) == [kind |-> kind, key |-> key, action |-> action]
SiteDirect == R("suffix", Site.name, "direct")
WwwWG == R("suffix", Www.name, "wg")
NetWG == R("cidr", <<"0">>, "wg")
Pinned == R("suffix", <<"cord", "org">>, "direct")
Word == R("keyword", <<"www">>, "direct")
MCRule == {SiteDirect, WwwWG, NetWG, Pinned, Word, R("suffix", Site.name, "wg")}

MCBuiltIn == <<Pinned>>
MCFiles ==
    {<<>>, <<[kind |-> "suffix", key |-> Site.name, bang |-> TRUE],
             [kind |-> "cidr", key |-> <<"0">>, bang |-> FALSE]>>}
MCFetched == {<<WwwWG, NetWG>>}

(* The matchers against the reference, for every two rule sets of at most  *)
(* two rules.                                                              *)
Sets == UNION {[1..n -> MCRule] : n \in 0..2}
ASSUME MatchersMeetIntent ==
    \A m, l \in Sets, h \in {Site, Www, Addr} :
        Decide([manual |-> Compile(m), list |-> Compile(l)], h) = Store!Intended(m, l, h)
=============================================================================
