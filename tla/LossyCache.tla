----------------------------- MODULE LossyCache -----------------------------
(***************************************************************************)
(* What the response cache promises its only client, the query engine: a   *)
(* bounded map from cache keys to messages that may forget, but only in    *)
(* the ways listed here.  Time, recency and TTLs do not appear.            *)
(*                                                                         *)
(* DNSCache implements this specification, and Engine uses its operations  *)
(* in place of the detailed cache.                                         *)
(***************************************************************************)
EXTENDS Naturals, FiniteSets

CONSTANTS Keys,     \* cache keys
          Msgs,     \* response messages
          Capacity  \* the number of entries held at most (cache.max_entries)

VARIABLES store,    \* what is retained: a function from some keys to messages
          got       \* the result of the latest call: {msg} after a hit, else {}

vars == <<store, got>>

Stores == UNION { [K -> Msgs] : K \in SUBSET Keys }

Init == /\ store = [k \in {} |-> {}]
        /\ got = {}

Forget(K) == [x \in DOMAIN store \ K |-> store[x]]

\* A lookup returns the message of the latest Put under the key, or misses; an
\* entry that was missed is gone.
Get(k) == \/ /\ k \in DOMAIN store
             /\ got' = {store[k]}
             /\ UNCHANGED store
          \/ /\ got' = {}
             /\ store' = Forget({k})

\* The entry put is always retained.  At most one other entry is given up for
\* it, and only for a new key in a full cache.
Put(k, m) ==
    \E lost \in SUBSET (DOMAIN store \ {k}) :
        /\ lost # {} => /\ k \notin DOMAIN store
                        /\ Cardinality(DOMAIN store) = Capacity
                        /\ \E x \in lost : lost = {x}
        /\ store' = [x \in (DOMAIN store \ lost) \cup {k} |->
                        IF x = k THEN m ELSE store[x]]
        /\ got' = {}

Flush == /\ store' = [k \in {} |-> {}]
         /\ got' = {}

\* A call that changes nothing, or time passing.
Quiet == /\ got' = {}
         /\ UNCHANGED store

Next == \/ \E k \in Keys : Get(k)
        \/ \E k \in Keys, m \in Msgs : Put(k, m)
        \/ Flush
        \/ Quiet

Spec == Init /\ [][Next]_vars
=============================================================================
