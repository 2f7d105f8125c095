------------------------------ MODULE DNSCache ------------------------------
(***************************************************************************)
(* The response cache of package cache: an LRU list of entries with an     *)
(* expiry each, indexed by key.  Every method runs under the cache's mutex *)
(* and is one action here; time is counted in ticks, Second of them to the *)
(* second, because Get rounds remaining lifetimes to whole seconds.        *)
(*                                                                         *)
(* The hit and miss counters are statistics that no branch reads; they are *)
(* left out.                                                               *)
(***************************************************************************)
EXTENDS Integers, Sequences, FiniteSets, FiniteSetsExt

CONSTANTS Keys,        \* cache keys
          Msgs,        \* the responses the engine may store
          MaxEntries,  \* Cache.max
          MaxTTL,      \* Cache.maxTTL, in ticks: fixed when the cache is built
          CfgMaxTTLs,  \* cache.max_ttl of the configurations in force, in ticks
          Second,      \* ticks in a second
          MaxTime      \* bound on the clock

RRs == [type : {"A", "SOA", "OPT"}, ttl : Nat, minttl : Nat]
Messages == [truncated : BOOLEAN, rrs : SUBSET RRs]

\* config.Validate demands a positive max_entries and says nothing of max_ttl.
ASSUME ConstantsAssumption ==
    /\ Msgs \subseteq Messages
    /\ MaxEntries \in Nat \ {0}
    /\ MaxTTL \in Int
    /\ CfgMaxTTLs \subseteq Int
    /\ Second \in Nat \ {0}
    /\ MaxTime \in Nat

VARIABLES now,    \* the clock
          lru,    \* the list, most recently used entry first
          index,  \* the keys of the index map
          reply,  \* what the latest call returned: {} unless it was a hit
          putAt,  \* history: when the entry of each key was last written
          limit,  \* history: the cache.max_ttl in force for the query that wrote it
          newer   \* history: <<a, b>> when a was used (hit or put) after b

vars == <<now, lru, index, reply, putAt, limit, newer>>

Entries == [key : Keys, msg : Msgs, expires : Int]
Replies == [key : Keys, msg : Msgs, ttl : Nat \ {0}]

TypeOK == /\ now \in Nat
          /\ lru \in Seq(Entries)
          /\ index \subseteq Keys
          /\ reply \subseteq Replies /\ \A r, s \in reply : r = s
          /\ putAt \in [Keys -> Nat]
          /\ limit \in [Keys -> Int]
          /\ newer \subseteq Keys \X Keys

-----------------------------------------------------------------------------
(* The lifetime of a response                                              *)

Capped(t, max) == IF t > max THEN max ELSE t

\* The OPT pseudo-record carries no TTL.
TTLBearing(m) == { r \in m.rrs : r.type # "OPT" }

\* Faulty variant: the MINIMUM field is not read.
RecordTTLNoMinimum(r) == r.ttl

\* RFC 2308: an SOA counts with the smaller of its TTL and its MINIMUM.
RecordTTL(r) == IF r.type = "SOA" /\ r.minttl < r.ttl THEN r.minttl ELSE r.ttl

\* The lifetime in ticks; 0 when the response is not cacheable.
TTLFromMsg(m, max) ==
    IF m.truncated \/ TTLBearing(m) = {}
    THEN 0
    ELSE LET ttl == Capped(Min({ RecordTTL(r) : r \in TTLBearing(m) }) * Second, max)
         IN  IF ttl <= 0 THEN 0 ELSE ttl

-----------------------------------------------------------------------------
(* The list                                                                *)

Position(k) == CHOOSE i \in DOMAIN lru : lru[i].key = k

Without(s, i) == [j \in 1 .. Len(s) - 1 |-> IF j < i THEN s[j] ELSE s[j + 1]]

PushFront(e, s) == <<e>> \o s

\* Faulty variant: the entry stays in the index.
RemoveFromListOnly(i) == /\ lru' = Without(lru, i)
                         /\ UNCHANGED index

\* removeLocked
Remove(i) == /\ lru' = Without(lru, i)
             /\ index' = index \ {lru[i].key}

\* The loop of Put over the tail of the list: how many entries it leaves.
Evictable(n) == n > 0 /\ n >= MaxEntries /\ now > lru[n].expires

Swept == CHOOSE n \in 0 .. Len(lru) :
            /\ ~Evictable(n)
            /\ \A m \in n + 1 .. Len(lru) : Evictable(m)

\* Faulty variant: the tail goes when the new entry would fill the cache.
KeptEarly == IF Swept + 1 >= MaxEntries THEN Swept - 1 ELSE Swept

\* ... and how many are left when the tail goes too if the cache is still full.
Kept == IF Swept >= MaxEntries THEN Swept - 1 ELSE Swept

\* The use of key k, for the history variable.
Use(k) == newer' = (newer \ (Keys \X {k})) \cup ({k} \X (Keys \ {k}))

-----------------------------------------------------------------------------
(* The methods                                                             *)

\* Faulty variant: rounds down.
FloorSeconds(t) == t \div Second

CeilSeconds(t) == LET s == (t + Second - 1) \div Second
                  IN  IF s < 1 THEN 1 ELSE s

GetMiss(k) == /\ k \notin index
              /\ reply' = {}
              /\ UNCHANGED <<lru, index, newer>>

GetExpired(k) == /\ k \in index
                 /\ lru[Position(k)].expires - now <= 0
                 /\ Remove(Position(k))
                 /\ reply' = {}
                 /\ UNCHANGED newer

\* Faulty variant: a hit does not move the entry to the front.
GetHitInPlace(k) ==
    /\ k \in index
    /\ LET e == lru[Position(k)]
       IN  /\ e.expires - now > 0
           /\ reply' = {[key |-> k, msg |-> e.msg, ttl |-> CeilSeconds(e.expires - now)]}
    /\ Use(k)
    /\ UNCHANGED <<lru, index>>

GetHit(k) ==
    /\ k \in index
    /\ LET i == Position(k)
           e == lru[i]
           remaining == e.expires - now
       IN  /\ remaining > 0
           /\ lru' = PushFront(e, Without(lru, i))
           /\ reply' = {[key |-> k, msg |-> e.msg, ttl |-> CeilSeconds(remaining)]}
    /\ Use(k)
    /\ UNCHANGED index

Get(k) == /\ GetMiss(k) \/ GetExpired(k) \/ GetHit(k)
          /\ UNCHANGED <<now, putAt, limit>>

PutSkip(ttl) == /\ ttl <= 0
                /\ UNCHANGED <<lru, index, putAt, newer>>

\* The entry a Put writes.
Fresh(k, m, ttl) == [key |-> k, msg |-> m, expires |-> now + Capped(ttl, MaxTTL)]

\* Faulty variant: an overwrite leaves the entry where it is in the list.
PutExistingInPlace(k, m, ttl) ==
    /\ ttl > 0
    /\ k \in index
    /\ lru' = [lru EXCEPT ![Position(k)] = Fresh(k, m, ttl)]
    /\ putAt' = [putAt EXCEPT ![k] = now]
    /\ Use(k)
    /\ UNCHANGED index

PutExisting(k, m, ttl) ==
    /\ ttl > 0
    /\ k \in index
    /\ lru' = PushFront(Fresh(k, m, ttl), Without(lru, Position(k)))
    /\ putAt' = [putAt EXCEPT ![k] = now]
    /\ Use(k)
    /\ UNCHANGED index

PutNew(k, m, ttl) ==
    /\ ttl > 0
    /\ k \notin index
    /\ lru' = PushFront(Fresh(k, m, ttl), SubSeq(lru, 1, Kept))
    /\ index' = (index \ { lru[i].key : i \in Kept + 1 .. Len(lru) }) \cup {k}
    /\ putAt' = [putAt EXCEPT ![k] = now]
    /\ Use(k)

Put(k, m, ttl) == /\ PutSkip(ttl) \/ PutExisting(k, m, ttl) \/ PutNew(k, m, ttl)
                  /\ reply' = {}
                  /\ UNCHANGED now

Flush == /\ lru' = <<>>
         /\ index' = {}
         /\ reply' = {}
         /\ UNCHANGED <<now, putAt, limit, newer>>

Tick == /\ now < MaxTime
        /\ now' = now + 1
        /\ reply' = {}
        /\ UNCHANGED <<lru, index, putAt, limit, newer>>

-----------------------------------------------------------------------------

Init == /\ now = 0
        /\ lru = <<>>
        /\ index = {}
        /\ reply = {}
        /\ putAt = [k \in Keys |-> 0]
        /\ limit = [k \in Keys |-> 0]
        /\ newer = {}

\* The engine stores a response for the lifetime TTLFromMsg computes under the
\* configuration of the query, which a reload may have changed since the cache
\* was built.
Store(k) ==
    \E m \in Msgs, max \in CfgMaxTTLs :
        LET ttl == TTLFromMsg(m, max)
        IN  /\ Put(k, m, ttl)
            /\ limit' = IF ttl > 0 THEN [limit EXCEPT ![k] = max] ELSE limit

Next == \/ \E k \in Keys : Get(k)
        \/ \E k \in Keys : Store(k)
        \/ Flush
        \/ Tick

Spec == Init /\ [][Next]_vars

-----------------------------------------------------------------------------
(* Properties                                                              *)

\* The list and the index map describe the same entries, one per key, and never
\* more than max_entries: Get, Put, their evictions and Flush keep the two in
\* step (removeLocked deletes from both).
IndexMatchesList ==
    /\ index = { lru[i].key : i \in DOMAIN lru }
    /\ \A i, j \in DOMAIN lru : lru[i].key = lru[j].key => i = j
    /\ Len(lru) <= MaxEntries

\* The list is in the order of last use, which MoveToFront and PushFront must
\* maintain through hits, overwrites, expiries and evictions.
LRUOrder == \A i, j \in DOMAIN lru : i < j => <<lru[i].key, lru[j].key>> \in newer

\* An entry leaves the cache only when it has expired, when it is the least
\* recently used of all, or in a flush.
EvictsLeastRecent ==
    [][\A v \in index \ index' :
          \/ lru[Position(v)].expires <= now
          \/ \A w \in index' : <<w, v>> \in newer']_vars

\* The lifetimes, in seconds, a record states of itself.
Lifetimes(rr) == (IF rr.type = "OPT" THEN {} ELSE {rr.ttl})
                    \cup (IF rr.type = "SOA" THEN {rr.minttl} ELSE {})

\* What Get hands out was written by the latest Put of the key, is still within
\* the lifetime every record of it had then, and is announced with a TTL that
\* overstates what is left of any record by less than a second.  It is also within
\* both caps on it: the cache's own, fixed when it was built, and the max_ttl of the
\* configuration it was stored under, which a reload may since have lowered or
\* raised past the other.
ServedTTL ==
    \A r \in reply :
        LET age == now - putAt[r.key]
        IN  /\ age >= 0
            /\ ~r.msg.truncated
            /\ \A rr \in r.msg.rrs : \A t \in Lifetimes(rr) :
                  /\ age < t * Second
                  /\ r.ttl * Second < t * Second - age + Second
            /\ age < MaxTTL
            /\ age < limit[r.key]

\* The cache is a bounded map that forgets only as LossyCache allows.
Abstract == INSTANCE LossyCache
              WITH Capacity <- MaxEntries,
                   store <- [k \in index |-> lru[Position(k)].msg],
                   got <- { r.msg : r \in reply }

ImplementsLossyCache == Abstract!Spec
=============================================================================
