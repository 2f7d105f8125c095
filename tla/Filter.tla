------------------------------- MODULE Filter -------------------------------
(***************************************************************************)
(* What the prober's results do to an answer: Filter of package probe, for *)
(* the addresses of one family, and filterAnswerIPs of package core, for   *)
(* the records of an answer.                                               *)
(*                                                                         *)
(* A result says whether an address was reached and how long that took;    *)
(* res[i] is what Check returned for the i-th address.  The four workers   *)
(* change nothing but the time it takes.                                   *)
(***************************************************************************)
EXTENDS Integers, FiniteSets, SequencesExt

\* At most max addresses are probed; 0 stands for all of them.
Limit(ips, max) == IF max <= 0 \/ max > Len(ips) THEN Len(ips) ELSE max

\* The comparison of the stable sort: reachable before unreachable, and among
\* the reachable by latency.
Less(r, s) == \/ r.reachable /\ ~s.reachable
              \/ r.reachable /\ s.reachable /\ r.latency < s.latency

\* The positions in S, in a strict order of them.
InOrder(S, before) ==
    CHOOSE f \in [1 .. Cardinality(S) -> S] :
        \A j, k \in DOMAIN f : j < k => <<f[j], f[k]>> \in before

Ascending(S) == InOrder(S, { p \in S \X S : p[1] < p[2] })

\* Stable: what does not differ keeps its order.
Before(res) ==
    { p \in (DOMAIN res) \X (DOMAIN res) :
          \/ Less(res[p[1]], res[p[2]])
          \/ ~Less(res[p[2]], res[p[1]]) /\ p[1] < p[2] }

Sorted(res) == InOrder(DOMAIN res, Before(res))

Reachable(res) == Ascending({ i \in DOMAIN res : res[i].reachable })

At(ips, positions) == [k \in DOMAIN positions |-> ips[positions[k]]]

\* Nothing to choose from, nothing probed.  Dropping keeps the whole answer when
\* no probed address was reached, and the addresses beyond the limit always.
FilterIPs(ips, mode, max, res) ==
    LET rest == SubSeq(ips, Limit(ips, max) + 1, Len(ips))
    IN  IF Len(ips) <= 1 \/ (mode = "drop" /\ Reachable(res) = <<>>)
        THEN ips
        ELSE At(ips, IF mode = "drop" THEN Reachable(res) ELSE Sorted(res)) \o rest

-----------------------------------------------------------------------------

Of(answer, type) == At(answer, Ascending({ i \in DOMAIN answer : answer[i].type = type }))

Texts(records) == [i \in DOMAIN records |-> records[i].ip]

\* byIP: of several records with the same textual address, the last one.
ByIP(answer, ip) ==
    answer[SelectLastInSeq(answer, LAMBDA r : r.type \in {"A", "AAAA"} /\ r.ip = ip)]

Records(answer, ips) == [k \in DOMAIN ips |-> ByIP(answer, ips[k])]

\* The other records come first, then the IPv4 and the IPv6 addresses.
FilterAnswer(answer, mode, max, res4, res6) ==
    LET v4 == Texts(Of(answer, "A"))
        v6 == Texts(Of(answer, "AAAA"))
    IN  IF Len(v4) <= 1 /\ Len(v6) <= 1
        THEN answer
        ELSE Of(answer, "other")
             \o Records(answer, FilterIPs(v4, mode, max, res4))
             \o Records(answer, FilterIPs(v6, mode, max, res6))
=============================================================================
