------------------------------- MODULE Prober -------------------------------
(***************************************************************************)
(* The reachability prober of package probe: concurrent calls of Check,    *)
(* which share the dial of an address that is not in the bounded result    *)
(* cache.                                                                  *)
(*                                                                         *)
(* A result is named by the dial it comes from; what the dial found plays  *)
(* no part in Check.  The count of dials is left out.                      *)
(***************************************************************************)
EXTENDS Naturals, FiniteSets

CONSTANTS Callers,     \* goroutines of Filter, each making one call at a time
          IPs,         \* the addresses they check
          MaxEntries,  \* cacheMaxEntries
          TTL,         \* cacheTTL; 0 disables the cache
          MaxTime,     \* bound on the clock
          None         \* a result not set

ASSUME ConstantsAssumption ==
    /\ MaxEntries \in Nat \ {0}
    /\ TTL \in Nat
    /\ MaxTime \in Nat
    /\ None \notin IPs
    /\ None \notin [ip : IPs, from : Nat, known : Nat]

VARIABLES now,       \* the clock
          cache,     \* the result kept for each address, and its insertion time
          inflight,  \* the caller that is dialling each address
          pc,        \* control state of each caller
          ip,        \* the address it checks
          began,     \* its reading of the clock at the beginning of the call
          dialled,   \* when its dial began
          joined,    \* the caller whose dial it waits for
          got        \* the result it returns; None until it is set

vars == <<now, cache, inflight, pc, ip, began, dialled, joined, got>>

\* A result: the address, when its dial began, and when it became known.
Results == [ip : IPs, from : Nat, known : Nat]

\* Entries are inserted, by their own account, when the dialling call began.
Entries == [res : Results, inserted : Nat]

Live(e, t) == t < e.inserted + TTL

TypeOK ==
    /\ now \in Nat
    /\ DOMAIN cache \subseteq IPs /\ cache \in [DOMAIN cache -> Entries]
    /\ DOMAIN inflight \subseteq IPs /\ inflight \in [DOMAIN inflight -> Callers]
    /\ pc \in [Callers -> {"idle", "lookup", "dial", "wait", "return"}]
    /\ ip \in [Callers -> IPs \cup {None}]
    /\ began \in [Callers -> Nat]
    /\ dialled \in [Callers -> Nat]
    /\ joined \in [Callers -> Callers]
    /\ got \in [Callers -> Results \cup {None}]
    /\ \A c \in Callers : pc[c] = "return" => got[c] # None

-----------------------------------------------------------------------------

Goto(c, state) == pc' = [pc EXCEPT ![c] = state]

Without(f, S) == [x \in DOMAIN f \ S |-> f[x]]
With(f, k, v) == [x \in DOMAIN f \cup {k} |-> IF x = k THEN v ELSE f[x]]

\* The clock is read before the mutex is taken.
Call(c, a) ==
    /\ pc[c] = "idle"
    /\ ip' = [ip EXCEPT ![c] = a]
    /\ began' = [began EXCEPT ![c] = now]
    /\ Goto(c, "lookup")
    /\ UNCHANGED <<now, cache, inflight, dialled, joined, got>>

\* Faulty variant: the expiry is not looked at.
HitAny(c) == ip[c] \in DOMAIN cache

Hit(c) == ip[c] \in DOMAIN cache /\ Live(cache[ip[c]], began[c])

\* Faulty variant: the dial is not announced.
LookupAlone(c) ==
    /\ pc[c] = "lookup"
    /\ \/ /\ Hit(c)
          /\ got' = [got EXCEPT ![c] = cache[ip[c]].res]
          /\ Goto(c, "return")
          /\ UNCHANGED dialled
       \/ /\ ~Hit(c)
          /\ dialled' = [dialled EXCEPT ![c] = now]
          /\ Goto(c, "dial")
          /\ UNCHANGED got
    /\ UNCHANGED <<now, cache, inflight, ip, began, joined>>

\* The first critical section: a cached result, a dial to wait for, or none.
Lookup(c) ==
    /\ pc[c] = "lookup"
    /\ \/ /\ Hit(c)
          /\ got' = [got EXCEPT ![c] = cache[ip[c]].res]
          /\ Goto(c, "return")
          /\ UNCHANGED <<inflight, dialled, joined>>
       \/ /\ ~Hit(c)
          /\ ip[c] \in DOMAIN inflight
          /\ joined' = [joined EXCEPT ![c] = inflight[ip[c]]]
          /\ Goto(c, "wait")
          /\ UNCHANGED <<inflight, dialled, got>>
       \/ /\ ~Hit(c)
          /\ ip[c] \notin DOMAIN inflight
          /\ inflight' = With(inflight, ip[c], c)
          /\ dialled' = [dialled EXCEPT ![c] = now]
          /\ Goto(c, "dial")
          /\ UNCHANGED <<joined, got>>
    /\ UNCHANGED <<now, cache, ip, began>>

\* Faulty variant: the entry inserted last goes first.
Newest(f) == { k \in DOMAIN f : \A x \in DOMAIN f : f[k].inserted >= f[x].inserted }

\* Which of several entries of one age goes is up to the map's order.
Oldest(f) == { k \in DOMAIN f : \A x \in DOMAIN f : f[k].inserted <= f[x].inserted }

Swept(f, t) == Without(f, { k \in DOMAIN f : ~Live(f[k], t) })

\* Faulty variant: the sweep is taken to have made room.
RoomSweepOnly(k, t) ==
    { IF k \notin DOMAIN cache /\ Cardinality(DOMAIN cache) >= MaxEntries
      THEN Swept(cache, t) ELSE cache }

\* The cache made ready for an entry of address k by a call that began at t: when
\* it is full the expired entries go, then, if need be, the oldest one.
Room(k, t) ==
    IF k \in DOMAIN cache \/ Cardinality(DOMAIN cache) < MaxEntries THEN {cache}
    ELSE LET rest == Swept(cache, t)
         IN  IF Cardinality(DOMAIN rest) < MaxEntries THEN {rest}
             ELSE { Without(rest, {x}) : x \in Oldest(rest) }

\* What the dial of caller c has found.
Result(c) == [ip |-> ip[c], from |-> dialled[c], known |-> now]

Entry(c) == [res |-> Result(c), inserted |-> began[c]]

Keep(c) == IF TTL = 0 THEN UNCHANGED cache
           ELSE \E f \in Room(ip[c], began[c]) : cache' = With(f, ip[c], Entry(c))

\* The caller whose dial it is, and those who wait for it.  A caller that has got
\* the result of an earlier dial, and has not run since, is not among them.
Sharing(c) ==
    {c} \cup { d \in Callers : pc[d] = "wait" /\ joined[d] = c /\ got[d] = None }

Hand(c) == got' = [d \in Callers |-> IF d \in Sharing(c) THEN Result(c) ELSE got[d]]

\* Faulty variant: the dial stays announced.
PublishForgotten(c) ==
    /\ pc[c] = "dial"
    /\ Keep(c)
    /\ Hand(c)
    /\ Goto(c, "return")
    /\ UNCHANGED <<now, inflight, ip, began, dialled, joined>>

\* The dial has ended, in whichever way, at some time before, and the second
\* critical section follows: the result is kept and handed to the waiting
\* callers, and the dial is no longer announced.
Publish(c) ==
    /\ pc[c] = "dial"
    /\ Keep(c)
    /\ Hand(c)
    /\ inflight' = Without(inflight, {ip[c]})
    /\ Goto(c, "return")
    /\ UNCHANGED <<now, ip, began, dialled, joined>>

\* Faulty variant: the result is read without waiting for done.
WakeEarly(c) ==
    /\ pc[c] = "wait"
    /\ Goto(c, "return")
    /\ UNCHANGED <<now, cache, inflight, ip, began, dialled, joined, got>>

\* done is closed.
Wake(c) ==
    /\ pc[c] = "wait"
    /\ got[c] # None
    /\ Goto(c, "return")
    /\ UNCHANGED <<now, cache, inflight, ip, began, dialled, joined, got>>

\* The call's variables go with it.
Return(c) ==
    /\ pc[c] = "return"
    /\ ip' = [ip EXCEPT ![c] = None]
    /\ began' = [began EXCEPT ![c] = 0]
    /\ dialled' = [dialled EXCEPT ![c] = 0]
    /\ joined' = [joined EXCEPT ![c] = c]
    /\ got' = [got EXCEPT ![c] = None]
    /\ Goto(c, "idle")
    /\ UNCHANGED <<now, cache, inflight>>

Tick == /\ now < MaxTime
        /\ now' = now + 1
        /\ UNCHANGED <<cache, inflight, pc, ip, began, dialled, joined, got>>

Init == /\ now = 0
        /\ cache = [k \in {} |-> None]
        /\ inflight = [k \in {} |-> None]
        /\ pc = [c \in Callers |-> "idle"]
        /\ ip = [c \in Callers |-> None]
        /\ began = [c \in Callers |-> 0]
        /\ dialled = [c \in Callers |-> 0]
        /\ joined = [c \in Callers |-> c]
        /\ got = [c \in Callers |-> None]

Check(c) == Lookup(c) \/ Publish(c) \/ Wake(c) \/ Return(c)

\* The goroutines of any number of Filters, up to four of each at a time.
Next == \/ \E c \in Callers : Check(c) \/ \E a \in IPs : Call(c, a)
        \/ Tick

\* A dial ends, at the latest at its timeout.
Fairness == \A c \in Callers : WF_vars(Check(c))

Spec == Init /\ [][Next]_vars /\ Fairness

-----------------------------------------------------------------------------
(* Properties                                                              *)

\* The results that the cache keeps or a caller has got.
Made == { cache[k].res : k \in DOMAIN cache } \cup ({ got[c] : c \in Callers } \ {None})

\* Concurrent callers of the same cache miss share a single dial, and the results
\* of an address tell the same afterwards: they come from dials made one after
\* the other, and the one that is kept is the latest.
SingleDial ==
    /\ \A c, d \in Callers :
          c # d /\ pc[c] = "dial" /\ pc[d] = "dial" => ip[c] # ip[d]
    /\ \A r, s \in Made :
          r.ip = s.ip => r = s \/ r.known <= s.from \/ s.known <= r.from
    /\ \A k \in DOMAIN cache, r \in Made : r.ip = k => r.known <= cache[k].res.known

\* A call returns a result for its own address that became known during the
\* call, or of a dial that began less than the TTL before it: neither a joined
\* dial nor the cache hands out anything older.
ReturnsFreshResult ==
    \A c \in Callers : pc[c] = "return" =>
        /\ got[c].ip = ip[c]
        /\ got[c].known >= began[c] \/ began[c] < got[c].from + TTL

Flight == INSTANCE SingleFlight
          WITH Limit <- MaxEntries,
               dials <- [a \in DOMAIN inflight |-> dialled[inflight[a]]],
               kept <- [a \in DOMAIN cache |-> cache[a].res],
               asks <- ip,
               since <- began,
               answer <- got

\* For its callers Check is a single flight for each address and a memory of the
\* results that is bounded, however many dials end while it is full, gives up a
\* result only then, and answers with none that is not fresh: each of its steps is
\* one of SingleFlight, or hidden there.
ImplementsSingleFlight == Flight!Spec

\* A live result is thrown out for another address only when no expired one is
\* kept, even though the sweep uses a clock reading from before the dial.
EvictsExpiredFirst ==
    [][\A k \in DOMAIN cache \ DOMAIN cache' :
          Live(cache[k], now) =>
              \A x \in DOMAIN cache \cap DOMAIN cache' : Live(cache[x], now)]_vars

\* Every call returns: no caller waits for a dial that is over.
CallsReturn == \A c \in Callers : pc[c] # "idle" ~> pc[c] = "idle"
=============================================================================
