----------------------------- MODULE MCDNSCache -----------------------------
(* Small instance of DNSCache: three keys for two slots, lifetimes on both   *)
(* sides of the cap and of a second, and every kind of message TTLFromMsg    *)
(* tells apart.                                                              *)
EXTENDS DNSCache

A(t) == [type |-> "A", ttl |-> t, minttl |-> 0]
OPT == [type |-> "OPT", ttl |-> 0, minttl |-> 0]
SOA(t, m) == [type |-> "SOA", ttl |-> t, minttl |-> m]
Msg(S) == [truncated |-> FALSE, rrs |-> S]

MCMsgs == { Msg({A(1), A(3), OPT}),                      \* the minimum counts
            Msg({SOA(3, 1)}),                            \* negative answer
            Msg({OPT}),                                  \* no TTL at all
            Msg({A(3)}),                                 \* over the cap
            [truncated |-> TRUE, rrs |-> {A(1)}] }
MCCfgMaxTTLs == {3, 9}
=============================================================================
