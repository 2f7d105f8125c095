------------------------------ MODULE MCProber ------------------------------
(* The instance of Prober, and Filter against what it promises, for lists of *)
(* up to three addresses, every result, mode and limit.                      *)
EXTENDS Prober, Filter

Found == [reachable : {TRUE}, latency : {1, 2}] \cup [reachable : {FALSE}, latency : {1}]

Probed(ips, max) == [1 .. Limit(ips, max) -> Found]

\* Reference: a sort by insertion, which is stable, written without positions.
RECURSIVE InsertionSort(_)
InsertionSort(pairs) ==
    IF pairs = <<>> THEN <<>>
    ELSE LET sorted == InsertionSort(Front(pairs))
             later == SelectSeq(sorted, LAMBDA p : Less(Last(pairs).res, p.res))
         IN  SubSeq(sorted, 1, Len(sorted) - Len(later)) \o <<Last(pairs)>> \o later

\* Addresses may occur more than once.
IPLists == UNION { [1 .. n -> 1 .. n] : n \in 0 .. 3 }

\* "prefer sorts reachable first by latency"; the rest keep their positions.
ASSUME PreferIsStableSort ==
    \A ips \in IPLists, max \in 0 .. 4 : \A res \in Probed(ips, max) :
        LET pairs == [i \in DOMAIN res |-> [ip |-> ips[i], res |-> res[i]]]
            sorted == InsertionSort(pairs)
        IN  Len(ips) > 1 =>
              FilterIPs(ips, "prefer", max, res)
                = [i \in DOMAIN sorted |-> sorted[i].ip] \o SubSeq(ips, Len(res) + 1, Len(ips))

\* "drop removes unreachable addresses (falling back to the original set when
\* none survive)": an answer is never emptied, what is dropped was probed and not
\* reached, and nothing else is.
ASSUME DropKeepsReachable ==
    \A ips \in IPLists, max \in 0 .. 4 : \A res \in Probed(ips, max) :
        LET out == FilterIPs(ips, "drop", max, res)
            kept == { i \in DOMAIN ips : i \notin DOMAIN res \/ res[i].reachable }
        IN  /\ ips # <<>> => out # <<>>
            /\ Len(ips) <= 1 \/ (\A i \in DOMAIN res : ~res[i].reachable) => out = ips
            /\ out # ips => /\ Len(out) = Cardinality(kept)
                            /\ ToSet(out) = { ips[i] : i \in kept }

\* Answers of up to four records of any kind, no address in two of them.
Answers ==
    { a \in UNION { [1 .. n -> [type : {"A", "AAAA", "other"}, ip : 1 .. 4]] : n \in 0 .. 4 } :
          \A i, j \in DOMAIN a : a[i].ip = a[j].ip => i = j }

AllReached(records) == [i \in DOMAIN records |-> [reachable |-> TRUE, latency |-> 2 - (i % 2)]]

\* "Non-address records are preserved; per-family sets smaller than 2 are left
\* untouched", and preferring loses no record and adds none.
ASSUME PreferKeepsRecords ==
    \A a \in Answers :
        LET out == FilterAnswer(a, "prefer", 0, AllReached(Of(a, "A")), AllReached(Of(a, "AAAA")))
        IN  /\ ToSet(out) = ToSet(a) /\ Len(out) = Len(a)
            /\ Of(out, "other") = Of(a, "other")
            /\ \A t \in {"A", "AAAA"} : Len(Of(a, t)) < 2 => Of(out, t) = Of(a, t)
=============================================================================
