---------------------------- MODULE ProberProofs ----------------------------
(***************************************************************************)
(* Safety of the reachability prober, for any callers, addresses, TTL and  *)
(* size of the cache.                                                      *)
(***************************************************************************)
EXTENDS Prober, FiniteSetTheorems, TLAPS

\* The announced dials are exactly those that some caller is making.
Announced ==
    /\ \A c \in Callers : pc[c] = "dial" =>
          ip[c] \in DOMAIN inflight /\ inflight[ip[c]] = c
    /\ \A a \in DOMAIN inflight : pc[inflight[a]] = "dial" /\ ip[inflight[a]] = a

\* A caller that waits for a result waits for a dial of its own address that is
\* still being made.
Joined ==
    \A c \in Callers : pc[c] = "wait" /\ got[c] = None =>
        pc[joined[c]] = "dial" /\ ip[joined[c]] = ip[c]

\* The variables of a call in progress.
InCall ==
    \A c \in Callers :
        /\ pc[c] # "idle" => ip[c] \in IPs /\ began[c] <= now
        /\ pc[c] = "dial" => began[c] <= dialled[c]
        /\ pc[c] \in {"idle", "lookup", "dial"} => got[c] = None

\* A kept result is of its address, and its lifetime began no later than its dial.
KeptResults ==
    \A k \in DOMAIN cache :
        /\ cache[k].res.ip = k
        /\ cache[k].inserted <= cache[k].res.from

\* A result that a caller has got is fresh, whether it has run since or not.
FreshOnceGot ==
    \A c \in Callers : got[c] # None =>
        /\ got[c].ip = ip[c]
        /\ got[c].known >= began[c] \/ began[c] < got[c].from + TTL

Bounded == IsFiniteSet(DOMAIN cache) /\ Cardinality(DOMAIN cache) <= MaxEntries

IInv == /\ TypeOK
        /\ Announced
        /\ Joined
        /\ InCall
        /\ KeptResults
        /\ FreshOnceGot
        /\ Bounded

-----------------------------------------------------------------------------
(* Making room                                                             *)

\* Making room only takes entries away.
LEMMA RoomKeeps ==
    ASSUME NEW k, NEW t, NEW f \in Room(k, t)
    PROVE  /\ DOMAIN f \subseteq DOMAIN cache
           /\ \A x \in DOMAIN f : f[x] = cache[x]
  <1> DEFINE rest == Swept(cache, t)
  <1>1. /\ DOMAIN rest \subseteq DOMAIN cache
        /\ \A x \in DOMAIN rest : rest[x] = cache[x]
    BY DEF Swept, Without
  <1>2. \A x : /\ DOMAIN Without(rest, {x}) \subseteq DOMAIN rest
               /\ \A y \in DOMAIN Without(rest, {x}) : Without(rest, {x})[y] = rest[y]
    BY DEF Without
  <1>3. \/ f = cache
        \/ f = rest
        \/ \E x \in Oldest(rest) : f = Without(rest, {x})
    BY Zenon DEF Room
  <1> QED
    BY <1>1, <1>2, <1>3

\* There is room for one more when it has been made.
LEMMA RoomFits ==
    ASSUME ConstantsAssumption, Bounded, NEW k, NEW t, NEW f \in Room(k, t)
    PROVE  /\ IsFiniteSet(DOMAIN f \cup {k})
           /\ Cardinality(DOMAIN f \cup {k}) <= MaxEntries
  <1> DEFINE rest == Swept(cache, t)
  <1>1. /\ DOMAIN rest \subseteq DOMAIN cache
        /\ IsFiniteSet(DOMAIN rest)
        /\ Cardinality(DOMAIN rest) \in Nat
        /\ Cardinality(DOMAIN rest) <= Cardinality(DOMAIN cache)
    <2>1. DOMAIN rest \subseteq DOMAIN cache
      BY DEF Swept, Without
    <2> QED
      BY <2>1, FS_Subset, FS_CardinalityType DEF Bounded
  <1>2. ASSUME NEW S, IsFiniteSet(S), Cardinality(S) < MaxEntries
        PROVE  IsFiniteSet(S \cup {k}) /\ Cardinality(S \cup {k}) <= MaxEntries
    <2>1. /\ IsFiniteSet(S \cup {k})
          /\ \/ Cardinality(S \cup {k}) = Cardinality(S)
             \/ Cardinality(S \cup {k}) = Cardinality(S) + 1
          /\ Cardinality(S) \in Nat
      BY <1>2, FS_AddElement, FS_CardinalityType
    <2> QED
      BY <1>2, <2>1 DEF ConstantsAssumption
  <1>3. CASE k \in DOMAIN cache
    <2>1. f = cache /\ DOMAIN f \cup {k} = DOMAIN cache
      BY <1>3 DEF Room
    <2> QED
      BY <2>1 DEF Bounded
  <1>4. CASE Cardinality(DOMAIN cache) < MaxEntries
    <2>1. f = cache
      BY <1>4 DEF Room
    <2> QED
      BY <2>1, <1>2, <1>4 DEF Bounded
  <1>5. CASE /\ k \notin DOMAIN cache
             /\ ~(Cardinality(DOMAIN cache) < MaxEntries)
    <2>1. CASE Cardinality(DOMAIN rest) < MaxEntries
      <3>1. f = rest
        BY <1>5, <2>1 DEF Room
      <3> QED
        BY <3>1, <2>1, <1>1, <1>2
    <2>2. CASE ~(Cardinality(DOMAIN rest) < MaxEntries)
      <3>1. PICK x \in Oldest(rest) : f = Without(rest, {x})
        BY <1>5, <2>2 DEF Room
      <3>2. x \in DOMAIN rest /\ DOMAIN f = DOMAIN rest \ {x}
        BY <3>1 DEF Oldest, Without
      <3>3. /\ IsFiniteSet(DOMAIN f)
            /\ Cardinality(DOMAIN f) = Cardinality(DOMAIN rest) - 1
        BY <3>2, <1>1, FS_RemoveElement
      <3>4. Cardinality(DOMAIN f) < MaxEntries
        BY <3>3, <1>1, FS_CardinalityType DEF Bounded, ConstantsAssumption
      <3> QED
        BY <3>3, <3>4, <1>2
    <2> QED
      BY <2>1, <2>2
  <1> QED
    BY <1>3, <1>4, <1>5

-----------------------------------------------------------------------------
(* The invariant is inductive                                              *)

LEMMA InvInit == ConstantsAssumption /\ Init => IInv
  <1> SUFFICES ASSUME ConstantsAssumption, Init  PROVE IInv
    OBVIOUS
  <1>1. DOMAIN cache = {} /\ DOMAIN inflight = {}
    BY DEF Init
  <1>2. TypeOK
    BY <1>1 DEF Init, TypeOK
  <1>3. Announced /\ Joined /\ InCall /\ KeptResults /\ FreshOnceGot
    BY <1>1 DEF Init, Announced, Joined, InCall, KeptResults, FreshOnceGot
  <1>4. Bounded
    BY <1>1, FS_EmptySet DEF Bounded, ConstantsAssumption
  <1> QED
    BY <1>2, <1>3, <1>4 DEF IInv

LEMMA CallPreserves ==
    ASSUME IInv, NEW c \in Callers, NEW a \in IPs, Call(c, a)
    PROVE  IInv'
  <1> USE DEF IInv, TypeOK, Call, Goto
  <1>1. TypeOK'
    OBVIOUS
  <1>2. Announced'
    BY DEF Announced
  <1>3. Joined'
    BY DEF Joined
  <1>4. InCall'
    BY DEF InCall
  <1>5. KeptResults' /\ Bounded'
    BY DEF KeptResults, Bounded
  <1>6. FreshOnceGot'
    BY DEF FreshOnceGot, InCall
  <1> QED
    BY <1>1, <1>2, <1>3, <1>4, <1>5, <1>6

LEMMA LookupPreserves ==
    ASSUME ConstantsAssumption, IInv, NEW c \in Callers, Lookup(c)
    PROVE  IInv'
  <1> USE DEF IInv, TypeOK, Goto
  <1>a. KeptResults' /\ Bounded'
    BY DEF KeptResults, Bounded, Lookup
  <1>b. ip[c] \in IPs /\ began[c] <= now /\ got[c] = None
    BY DEF InCall, Lookup
  <1>1. CASE /\ Hit(c)
             /\ got' = [got EXCEPT ![c] = cache[ip[c]].res]
             /\ pc' = [pc EXCEPT ![c] = "return"]
             /\ UNCHANGED <<inflight, dialled, joined>>
    <2> DEFINE e == cache[ip[c]]
    <2>1. /\ e \in Entries
          /\ e.res.ip = ip[c]
          /\ e.inserted <= e.res.from
          /\ began[c] < e.inserted + TTL
      BY <1>1 DEF Hit, Live, KeptResults
    <2>2. e.res \in Results /\ e.inserted \in Nat /\ e.res.from \in Nat
      BY <2>1 DEF Entries, Results
    <2>3. e.res # None /\ began[c] < e.res.from + TTL
      BY <2>1, <2>2 DEF ConstantsAssumption, Results
    <2>4. TypeOK'
      BY <1>1, <2>2, <2>3 DEF Lookup
    <2>5. Announced' /\ Joined' /\ InCall'
      BY <1>1, <1>b, <2>3 DEF Announced, Joined, InCall, Lookup
    <2>6. FreshOnceGot'
      BY <1>1, <2>1, <2>3 DEF FreshOnceGot, Lookup
    <2> QED
      BY <1>a, <2>4, <2>5, <2>6
  <1>2. CASE /\ ip[c] \in DOMAIN inflight
             /\ joined' = [joined EXCEPT ![c] = inflight[ip[c]]]
             /\ pc' = [pc EXCEPT ![c] = "wait"]
             /\ UNCHANGED <<inflight, dialled, got>>
    <2>1. /\ inflight[ip[c]] \in Callers
          /\ pc[inflight[ip[c]]] = "dial"
          /\ ip[inflight[ip[c]]] = ip[c]
          /\ inflight[ip[c]] # c
      BY <1>2 DEF Announced, Lookup
    <2>2. TypeOK'
      BY <1>2, <2>1 DEF Lookup
    <2>3. Announced' /\ Joined' /\ InCall'
      BY <1>2, <1>b, <2>1 DEF Announced, Joined, InCall, Lookup
    <2>4. FreshOnceGot'
      BY <1>2 DEF FreshOnceGot, Lookup
    <2> QED
      BY <1>a, <2>2, <2>3, <2>4
  <1>3. CASE /\ ip[c] \notin DOMAIN inflight
             /\ inflight' = With(inflight, ip[c], c)
             /\ dialled' = [dialled EXCEPT ![c] = now]
             /\ pc' = [pc EXCEPT ![c] = "dial"]
             /\ UNCHANGED <<joined, got>>
    <2>1. /\ DOMAIN inflight' = DOMAIN inflight \cup {ip[c]}
          /\ inflight'[ip[c]] = c
          /\ \A a \in DOMAIN inflight : inflight'[a] = inflight[a]
          /\ inflight' \in [DOMAIN inflight' -> Callers]
      BY <1>3 DEF With
    <2>2. TypeOK'
      BY <1>3, <1>b, <2>1 DEF Lookup
    <2>3. Announced'
      BY <1>3, <2>1 DEF Announced, Lookup
    <2>4. Joined' /\ InCall'
      BY <1>3, <1>b DEF Joined, InCall, Lookup
    <2>5. FreshOnceGot'
      BY <1>3 DEF FreshOnceGot, Lookup
    <2> QED
      BY <1>a, <2>2, <2>3, <2>4, <2>5
  <1> QED
    BY <1>1, <1>2, <1>3 DEF Lookup

LEMMA PublishPreserves ==
    ASSUME ConstantsAssumption, IInv, NEW c \in Callers, Publish(c)
    PROVE  IInv'
  <1> USE DEF IInv, Goto
  <1>1. /\ ip[c] \in IPs
        /\ began[c] \in Nat /\ dialled[c] \in Nat /\ now \in Nat
        /\ began[c] <= dialled[c] /\ began[c] <= now
        /\ Result(c) \in Results
        /\ Result(c) # None
    BY DEF InCall, Publish, TypeOK, Result, Results, ConstantsAssumption
  <1>2. /\ \A d \in Sharing(c) : got'[d] = Result(c)
        /\ \A d \in Callers \ Sharing(c) : got'[d] = got[d]
        /\ got' \in [Callers -> Results \cup {None}]
        /\ pc' = [pc EXCEPT ![c] = "return"]
    BY <1>1 DEF Publish, Hand, TypeOK, Sharing
  <1>3. \A d \in Sharing(c) : d = c \/ (pc[d] = "wait" /\ ip[d] = ip[c])
    BY DEF Sharing, Joined
  <1>4. /\ DOMAIN cache' \subseteq IPs /\ cache' \in [DOMAIN cache' -> Entries]
        /\ KeptResults'
        /\ Bounded'
    <2>1. CASE TTL = 0
      BY <2>1 DEF Publish, Keep, TypeOK, KeptResults, Bounded
    <2>2. CASE TTL # 0
      <3>1. PICK f \in Room(ip[c], began[c]) : cache' = With(f, ip[c], Entry(c))
        BY <2>2 DEF Publish, Keep
      <3>2. /\ DOMAIN f \subseteq DOMAIN cache
            /\ \A x \in DOMAIN f : f[x] = cache[x]
        BY RoomKeeps
      <3>3. /\ DOMAIN cache' = DOMAIN f \cup {ip[c]}
            /\ cache'[ip[c]] = Entry(c)
            /\ \A x \in DOMAIN f : x # ip[c] => cache'[x] = cache[x]
            /\ cache' = [x \in DOMAIN cache' |-> cache'[x]]
        BY <3>1, <3>2 DEF With
      <3>4. /\ Entry(c) \in Entries
            /\ Entry(c).res.ip = ip[c]
            /\ Entry(c).inserted <= Entry(c).res.from
        BY <1>1 DEF Entry, Entries, Result
      <3>5. \A x \in DOMAIN cache : cache[x] \in Entries
        BY DEF TypeOK
      <3>6. \A x \in DOMAIN cache' : cache'[x] \in Entries
        BY <3>2, <3>3, <3>4, <3>5
      <3>7. DOMAIN cache' \subseteq IPs /\ cache' \in [DOMAIN cache' -> Entries]
        BY <1>1, <3>2, <3>3, <3>6 DEF TypeOK
      <3>8. KeptResults'
        BY <3>2, <3>3, <3>4 DEF KeptResults
      <3>9. Bounded'
        BY <3>3, RoomFits DEF Bounded
      <3> QED
        BY <3>7, <3>8, <3>9
    <2> QED
      BY <2>1, <2>2
  <1>5. TypeOK'
    <2>1. /\ DOMAIN inflight' \subseteq DOMAIN inflight
          /\ inflight' \in [DOMAIN inflight' -> Callers]
      BY DEF Publish, Without, TypeOK
    <2>2. ASSUME NEW d \in Callers, pc'[d] = "return"  PROVE got'[d] # None
      <3>1. CASE d \in Sharing(c)
        BY <3>1, <1>1, <1>2
      <3>2. CASE d \notin Sharing(c)
        <4>1. d # c /\ pc[d] = "return"
          BY <2>2, <3>2, <1>2 DEF Sharing, TypeOK
        <4> QED
          BY <3>2, <4>1, <1>2 DEF TypeOK
      <3> QED
        BY <3>1, <3>2
    <2>3. /\ UNCHANGED <<now, ip, began, dialled, joined>>
          /\ pc' \in [Callers -> {"idle", "lookup", "dial", "wait", "return"}]
      BY <1>2 DEF Publish, TypeOK
    <2>4. DOMAIN inflight' \subseteq IPs
      BY <2>1 DEF TypeOK
    <2> QED
      BY <1>2, <1>4, <2>1, <2>2, <2>3, <2>4 DEF TypeOK
  <1>6. Announced'
    <2>1. inflight' = [a \in DOMAIN inflight \ {ip[c]} |-> inflight[a]]
      BY DEF Publish, Without
    <2>2. \A d \in Callers : d # c /\ pc[d] = "dial" => ip[d] # ip[c]
      BY DEF Announced, Publish
    <2>3. UNCHANGED ip
      BY DEF Publish
    <2>4. pc[c] = "dial" /\ inflight[ip[c]] = c
      BY DEF Publish, Announced
    <2>5. ASSUME NEW d \in Callers, pc'[d] = "dial"
          PROVE  ip[d] \in DOMAIN inflight' /\ inflight'[ip[d]] = d
      <3>1. d # c /\ pc[d] = "dial"
        BY <2>5, <1>2 DEF TypeOK
      <3> QED
        BY <3>1, <2>1, <2>2 DEF Announced
    <2>6. ASSUME NEW a \in DOMAIN inflight'
          PROVE  pc'[inflight'[a]] = "dial" /\ ip[inflight'[a]] = a
      <3>1. /\ a \in DOMAIN inflight /\ a # ip[c]
            /\ inflight'[a] = inflight[a]
        BY <2>1
      <3>2. /\ inflight[a] \in Callers
            /\ pc[inflight[a]] = "dial" /\ ip[inflight[a]] = a
        BY <3>1 DEF Announced, TypeOK
      <3>3. inflight[a] # c
        BY <3>1, <3>2
      <3> QED
        BY <3>1, <3>2, <3>3, <1>2 DEF TypeOK
    <2> QED
      BY <2>3, <2>5, <2>6 DEF Announced
  <1>7. Joined'
    <2>1. UNCHANGED <<ip, joined>>
      BY DEF Publish
    <2>2. \A d \in Callers : pc'[d] = "wait" /\ got'[d] = None => joined[d] # c
      BY <1>1, <1>2 DEF Sharing, TypeOK, Publish
    <2>3. \A d \in Callers : d # c => pc'[d] = pc[d]
      BY <1>2 DEF TypeOK
    <2>4. \A d \in Callers : pc'[d] = "wait" /\ got'[d] = None =>
             pc[d] = "wait" /\ got[d] = None
      BY <1>1, <1>2, <2>3 DEF TypeOK, Sharing
    <2> QED
      BY <2>1, <2>2, <2>3, <2>4 DEF Joined, TypeOK
  <1>8. InCall'
    <2>1. UNCHANGED <<now, ip, began, dialled>>
      BY DEF Publish
    <2>2. \A d \in Callers : pc'[d] \in {"idle", "lookup", "dial"} =>
             pc[d] = pc'[d] /\ got'[d] = got[d]
      BY <1>2, <1>3 DEF TypeOK, Publish
    <2> QED
      BY <1>1, <1>2, <2>1, <2>2 DEF InCall, TypeOK, Publish
  <1>9. FreshOnceGot'
    <2>1. UNCHANGED <<ip, began>>
      BY DEF Publish
    <2>2. \A d \in Sharing(c) : d \in Callers /\ ip[d] = ip[c] /\ began[d] <= now
      BY <1>1, <1>3 DEF InCall, Sharing, TypeOK
    <2>3. Result(c).ip = ip[c] /\ Result(c).known = now
      BY DEF Result
    <2>4. \A d \in Sharing(c) : got'[d].ip = ip[d] /\ got'[d].known >= began[d]
      BY <1>1, <1>2, <2>2, <2>3 DEF TypeOK
    <2> QED
      BY <1>2, <2>1, <2>4 DEF FreshOnceGot
  <1> QED
    BY <1>4, <1>5, <1>6, <1>7, <1>8, <1>9

LEMMA WakePreserves ==
    ASSUME IInv, NEW c \in Callers, Wake(c)
    PROVE  IInv'
  <1> USE DEF IInv, TypeOK, Goto, Wake
  <1>1. TypeOK'
    OBVIOUS
  <1>2. Announced' /\ Joined' /\ InCall'
    BY DEF Announced, Joined, InCall
  <1>3. KeptResults' /\ FreshOnceGot' /\ Bounded'
    BY DEF KeptResults, FreshOnceGot, Bounded
  <1> QED
    BY <1>1, <1>2, <1>3

LEMMA ReturnPreserves ==
    ASSUME IInv, NEW c \in Callers, Return(c)
    PROVE  IInv'
  <1> USE DEF IInv, TypeOK, Goto, Return
  <1>1. TypeOK'
    OBVIOUS
  <1>2. Announced'
    BY DEF Announced
  <1>3. Joined'
    BY DEF Joined
  <1>4. InCall'
    BY DEF InCall
  <1>5. KeptResults' /\ FreshOnceGot' /\ Bounded'
    BY DEF KeptResults, FreshOnceGot, Bounded
  <1> QED
    BY <1>1, <1>2, <1>3, <1>4, <1>5

LEMMA TickPreserves == IInv /\ Tick => IInv'
  <1> SUFFICES ASSUME IInv, Tick  PROVE IInv'
    OBVIOUS
  <1> USE DEF IInv, Tick
  <1>1. TypeOK'
    BY DEF TypeOK
  <1>2. Announced' /\ Joined' /\ KeptResults' /\ FreshOnceGot' /\ Bounded'
    BY DEF Announced, Joined, KeptResults, FreshOnceGot, Bounded
  <1>3. InCall'
    BY DEF InCall, TypeOK
  <1> QED
    BY <1>1, <1>2, <1>3

LEMMA InvStep == ConstantsAssumption /\ IInv /\ [Next]_vars => IInv'
  <1> SUFFICES ASSUME ConstantsAssumption, IInv, [Next]_vars  PROVE IInv'
    OBVIOUS
  <1>1. ASSUME NEW c \in Callers, Check(c)  PROVE IInv'
    BY <1>1, LookupPreserves, PublishPreserves, WakePreserves, ReturnPreserves DEF Check
  <1>2. ASSUME NEW c \in Callers, NEW a \in IPs, Call(c, a)  PROVE IInv'
    BY <1>2, CallPreserves
  <1>3. CASE Tick
    BY <1>3, TickPreserves
  <1>4. CASE UNCHANGED vars
    BY <1>4 DEF vars, IInv, TypeOK, Announced, Joined, InCall, KeptResults,
                FreshOnceGot, Bounded
  <1> QED
    BY <1>1, <1>2, <1>3, <1>4 DEF Next

LEMMA Invariance == Spec => []IInv
  BY InvInit, InvStep, ConstantsAssumption, PTL DEF Spec

-----------------------------------------------------------------------------
(* The order of the dials of an address                                    *)

\* A result has been made in the past, and the dial being made for an address
\* began when all its results were known.
DialsInOrder ==
    /\ \A r \in Made : r.from <= r.known /\ r.known <= now
    /\ \A c \in Callers : pc[c] = "dial" =>
          /\ dialled[c] <= now
          /\ \A r \in Made : r.ip = ip[c] => r.known <= dialled[c]
    /\ TTL = 0 => DOMAIN cache = {}
    /\ SingleDial

LEMMA MadeResults ==
    ASSUME TypeOK
    PROVE  Made \subseteq Results /\ \A r \in Made : r.from \in Nat /\ r.known \in Nat
  <1>1. \A k \in DOMAIN cache : cache[k].res \in Results
    BY DEF TypeOK, Entries
  <1>2. Made \subseteq Results
    BY <1>1 DEF Made, TypeOK
  <1> QED
    BY <1>2 DEF Results

\* The steps that make no result and begin no dial.
LEMMA OrderKept ==
    ASSUME TypeOK, DialsInOrder, Made' \subseteq Made, UNCHANGED cache,
           now' \in Nat, now <= now',
           \A c \in Callers : pc'[c] = "dial" =>
              pc[c] = "dial" /\ ip'[c] = ip[c] /\ dialled'[c] = dialled[c]
    PROVE  DialsInOrder'
  <1>1. \A r \in Made : r.known \in Nat
    BY MadeResults
  <1>2. \A r \in Made' : r.from <= r.known /\ r.known <= now'
    BY <1>1 DEF DialsInOrder, TypeOK
  <1>3. \A c \in Callers : dialled[c] \in Nat
    BY DEF TypeOK
  <1>4. \A c \in Callers : pc'[c] = "dial" =>
           /\ dialled'[c] <= now'
           /\ \A r \in Made' : r.ip = ip'[c] => r.known <= dialled'[c]
    BY <1>3 DEF DialsInOrder, TypeOK
  <1>5. SingleDial'
    BY DEF DialsInOrder, SingleDial
  <1> QED
    BY <1>2, <1>4, <1>5 DEF DialsInOrder

LEMMA OrderLookup ==
    ASSUME ConstantsAssumption, IInv, DialsInOrder, NEW c \in Callers, Lookup(c)
    PROVE  DialsInOrder'
  <1>a. TypeOK /\ got[c] = None /\ UNCHANGED <<now, cache, ip>> /\ now \in Nat
    BY DEF IInv, InCall, Lookup, TypeOK
  <1>1. CASE UNCHANGED dialled /\ pc' \in {[pc EXCEPT ![c] = "return"], [pc EXCEPT ![c] = "wait"]}
    <2>1. Made' \subseteq Made
      <3>1. CASE UNCHANGED got
        BY <1>a, <3>1 DEF Made
      <3>2. CASE Hit(c) /\ got' = [got EXCEPT ![c] = cache[ip[c]].res]
        BY <1>a, <3>2 DEF Made, Hit, TypeOK
      <3> QED
        BY <3>1, <3>2 DEF Lookup
    <2>2. \A d \in Callers : pc'[d] = "dial" => pc[d] = "dial"
      BY <1>a, <1>1 DEF TypeOK
    <2> QED
      BY <1>a, <1>1, <2>1, <2>2, OrderKept
  <1>2. CASE /\ ip[c] \notin DOMAIN inflight
             /\ dialled' = [dialled EXCEPT ![c] = now]
             /\ pc' = [pc EXCEPT ![c] = "dial"]
             /\ UNCHANGED got
    <2>1. Made' = Made
      BY <1>a, <1>2 DEF Made
    <2>2. \A d \in Callers : pc'[d] = "dial" =>
             \/ d = c /\ dialled'[d] = now
             \/ d # c /\ pc[d] = "dial" /\ dialled'[d] = dialled[d] /\ ip[d] # ip[c]
      BY <1>a, <1>2 DEF TypeOK, IInv, Announced
    <2>3. \A d \in Callers : pc'[d] = "dial" =>
             /\ dialled'[d] <= now
             /\ \A r \in Made : r.ip = ip[d] => r.known <= dialled'[d]
      BY <1>a, <2>2 DEF DialsInOrder
    <2>4. SingleDial'
      BY <1>a, <2>1, <2>2 DEF DialsInOrder, SingleDial
    <2> QED
      BY <1>a, <2>1, <2>3, <2>4 DEF DialsInOrder
  <1> QED
    BY <1>1, <1>2 DEF Lookup, Goto

LEMMA OrderPublish ==
    ASSUME ConstantsAssumption, IInv, DialsInOrder, NEW c \in Callers, Publish(c)
    PROVE  DialsInOrder'
  <1> DEFINE R == Result(c)
  <1>a. /\ TypeOK
        /\ pc[c] = "dial"
        /\ pc' = [pc EXCEPT ![c] = "return"]
        /\ UNCHANGED <<now, ip, dialled>>
        /\ now \in Nat /\ dialled[c] \in Nat /\ dialled[c] <= now
    BY DEF IInv, Publish, Goto, TypeOK, DialsInOrder
  <1>b. R.ip = ip[c] /\ R.from = dialled[c] /\ R.known = now
    BY <1>a DEF Result
  <1>c. \A r \in Made : r.from \in Nat /\ r.known \in Nat
    BY <1>a, MadeResults
  <1>d. \A d \in Callers : pc'[d] = "dial" => d # c /\ pc[d] = "dial" /\ ip[d] # ip[c]
    BY <1>a DEF TypeOK, DialsInOrder, SingleDial
  \* What the cache keeps is an earlier entry or the new one.
  <1>1. \A k \in DOMAIN cache' :
           \/ k \in DOMAIN cache /\ cache'[k] = cache[k] /\ k # ip[c]
           \/ k = ip[c] /\ cache'[k].res = R
    <2>1. CASE TTL = 0
      BY <2>1 DEF Publish, Keep, DialsInOrder
    <2>2. CASE TTL # 0
      <3>1. PICK f \in Room(ip[c], began[c]) : cache' = With(f, ip[c], Entry(c))
        BY <2>2 DEF Publish, Keep
      <3>2. /\ DOMAIN f \subseteq DOMAIN cache
            /\ \A x \in DOMAIN f : f[x] = cache[x]
        BY RoomKeeps
      <3> QED
        BY <3>1, <3>2 DEF With, Entry
    <2> QED
      BY <2>1, <2>2
  <1>2. \A d \in Callers : got'[d] = R \/ got'[d] = got[d]
    BY DEF Publish, Hand
  <1>3. Made' \subseteq Made \cup {R}
    BY <1>1, <1>2 DEF Made
  <1>4. \A r \in Made : r.ip = ip[c] => r.known <= R.from
    BY <1>a, <1>b DEF DialsInOrder
  <1>5. \A r \in Made' : r.from <= r.known /\ r.known <= now
    BY <1>a, <1>b, <1>3 DEF DialsInOrder
  <1>6. \A d \in Callers : pc'[d] = "dial" =>
           /\ dialled[d] <= now
           /\ \A r \in Made' : r.ip = ip[d] => r.known <= dialled[d]
    BY <1>b, <1>d, <1>3 DEF DialsInOrder
  <1>7. SingleDial'
    <2>1. \A d, e \in Callers : d # e /\ pc'[d] = "dial" /\ pc'[e] = "dial" => ip[d] # ip[e]
      BY <1>d DEF DialsInOrder, SingleDial
    <2>2. \A r, s \in Made' : r.ip = s.ip => r = s \/ r.known <= s.from \/ s.known <= r.from
      BY <1>b, <1>3, <1>4 DEF DialsInOrder, SingleDial
    <2>3. ASSUME NEW k \in DOMAIN cache', NEW r \in Made', r.ip = k
          PROVE  r.known <= cache'[k].res.known
      <3>1. CASE k = ip[c]
        <4>1. cache'[k].res.known = now
          BY <1>b, <1>1, <3>1
        <4> QED
          BY <1>5, <4>1
      <3>2. CASE k # ip[c]
        <4>1. k \in DOMAIN cache /\ cache'[k] = cache[k] /\ r \in Made
          BY <1>b, <1>1, <1>3, <2>3, <3>2
        <4> QED
          BY <2>3, <4>1 DEF DialsInOrder, SingleDial
      <3> QED
        BY <3>1, <3>2
    <2> QED
      BY <1>a, <2>1, <2>2, <2>3 DEF SingleDial
  <1>8. TTL = 0 => DOMAIN cache' = {}
    BY DEF Publish, Keep, DialsInOrder
  <1> QED
    BY <1>a, <1>5, <1>6, <1>7, <1>8 DEF DialsInOrder

LEMMA OrderInvariant == Spec => []DialsInOrder
  <1>1. ConstantsAssumption /\ Init => DialsInOrder
    BY DEF Init, DialsInOrder, SingleDial, Made
  <1>2. ConstantsAssumption /\ IInv /\ DialsInOrder /\ [Next]_vars => DialsInOrder'
    <2> SUFFICES ASSUME ConstantsAssumption, IInv, DialsInOrder, [Next]_vars
                 PROVE  DialsInOrder'
      OBVIOUS
    <2>a. TypeOK /\ now \in Nat
      BY DEF IInv, TypeOK
    <2>1. ASSUME NEW c \in Callers, NEW a \in IPs, Call(c, a)  PROVE DialsInOrder'
      <3>1. UNCHANGED <<now, cache, dialled>> /\ Made' = Made
        BY <2>1 DEF Call, Made
      <3>2. \A d \in Callers : pc'[d] = "dial" => pc[d] = "dial" /\ ip'[d] = ip[d]
        BY <2>a, <2>1 DEF Call, Goto, TypeOK
      <3> QED
        BY <2>a, <3>1, <3>2, OrderKept
    <2>2. ASSUME NEW c \in Callers, Wake(c)  PROVE DialsInOrder'
      <3>1. UNCHANGED <<now, cache, dialled, ip>> /\ Made' = Made
        BY <2>2 DEF Wake, Made
      <3>2. \A d \in Callers : pc'[d] = "dial" => pc[d] = "dial"
        BY <2>a, <2>2 DEF Wake, Goto, TypeOK
      <3> QED
        BY <2>a, <3>1, <3>2, OrderKept
    <2>3. ASSUME NEW c \in Callers, Return(c)  PROVE DialsInOrder'
      <3>1. UNCHANGED <<now, cache>> /\ Made' \subseteq Made
        BY <2>a, <2>3 DEF Return, Made, TypeOK
      <3>2. \A d \in Callers : pc'[d] = "dial" =>
               pc[d] = "dial" /\ ip'[d] = ip[d] /\ dialled'[d] = dialled[d]
        BY <2>a, <2>3 DEF Return, Goto, TypeOK
      <3> QED
        BY <2>a, <3>1, <3>2, OrderKept
    <2>4. ASSUME Tick  PROVE DialsInOrder'
      <3>1. /\ UNCHANGED <<cache, pc, ip, dialled>> /\ Made' = Made
            /\ now' \in Nat /\ now <= now'
        BY <2>a, <2>4 DEF Tick, Made
      <3> QED
        BY <2>a, <3>1, OrderKept
    <2>5. ASSUME UNCHANGED vars  PROVE DialsInOrder'
      <3>1. UNCHANGED <<now, cache, pc, ip, dialled>> /\ Made' = Made
        BY <2>5 DEF vars, Made
      <3> QED
        BY <2>a, <3>1, OrderKept
    <2> QED
      BY <2>1, <2>2, <2>3, <2>4, <2>5, OrderLookup, OrderPublish DEF Next, Check
  <1> QED
    BY <1>1, <1>2, Invariance, ConstantsAssumption, PTL DEF Spec

-----------------------------------------------------------------------------
(* Single flight                                                           *)

\* The dials of SingleFlight and what it retains.
Dials == [a \in DOMAIN inflight |-> dialled[inflight[a]]]
Kept == [a \in DOMAIN cache |-> cache[a].res]

LEMMA InitFlies == ConstantsAssumption /\ Init => Flight!Init
  <1> SUFFICES ASSUME ConstantsAssumption, Init  PROVE Flight!Init
    OBVIOUS
  <1>1. DOMAIN cache = {} /\ DOMAIN inflight = {}
    BY DEF Init
  <1>2. Dials = [a \in {} |-> None] /\ Kept = [a \in {} |-> None]
    BY <1>1 DEF Dials, Kept
  <1> QED
    BY <1>2 DEF Init, Flight!Init, Dials, Kept

\* What a step of a caller that does not dial, and will not, leaves of the dials.
LEMMA DialsKept ==
    ASSUME IInv, UNCHANGED inflight, \A d \in Callers : pc[d] = "dial" => dialled'[d] = dialled[d]
    PROVE  Dials' = Dials
  <1>1. \A a \in DOMAIN inflight : inflight[a] \in Callers /\ pc[inflight[a]] = "dial"
    BY DEF IInv, TypeOK, Announced
  <1> QED
    BY <1>1 DEF Dials

LEMMA CallFlies ==
    ASSUME IInv, NEW c \in Callers, NEW a \in IPs, Call(c, a), ip[c] = None
    PROVE  Flight!Ask(c, a)
  <1>1. Dials' = Dials /\ Kept' = Kept
    BY DialsKept DEF Call, Kept
  <1> QED
    BY <1>1 DEF Call, Flight!Ask, Dials, Kept

LEMMA LookupFlies ==
    ASSUME ConstantsAssumption, IInv, NEW c \in Callers, Lookup(c), NEW a \in IPs, ip[c] = a
    PROVE  \/ Flight!Recall(c) \/ Flight!Dial(a)
           \/ UNCHANGED Flight!vars
  <1>a. TypeOK /\ ip[c] = a /\ got[c] = None
    BY DEF IInv, InCall, Lookup
  <1>b. UNCHANGED <<now, cache, ip, began>> /\ Kept' = Kept
    BY DEF Lookup, Kept
  <1>1. CASE /\ Hit(c)
             /\ got' = [got EXCEPT ![c] = cache[ip[c]].res]
             /\ UNCHANGED <<inflight, dialled, joined>>
    <2>1. /\ ip[c] \in DOMAIN cache
          /\ cache[ip[c]] \in Entries
          /\ cache[ip[c]].inserted <= cache[ip[c]].res.from
          /\ began[c] < cache[ip[c]].inserted + TTL
      BY <1>1 DEF IInv, TypeOK, KeptResults, Hit, Live
    <2>2. began[c] < cache[ip[c]].res.from + TTL
      BY <1>a, <2>1 DEF ConstantsAssumption, TypeOK, Entries, Results
    <2>3. ip[c] \in DOMAIN Kept /\ Kept[ip[c]] = cache[ip[c]].res
      BY <2>1 DEF Kept
    <2>4. Dials' = Dials
      BY <1>1, DialsKept
    <2>5. Flight!Recall(c)
      BY <1>a, <1>b, <1>1, <2>2, <2>3, <2>4 DEF Flight!Recall, Dials, Kept
    <2> QED
      BY <2>5
  <1>2. CASE UNCHANGED <<inflight, dialled, got>>
    <2>1. Dials' = Dials
      BY <1>2, DialsKept
    <2> QED
      BY <1>b, <1>2, <2>1 DEF Flight!vars, Dials, Kept
  <1>3. CASE /\ ip[c] \notin DOMAIN inflight
             /\ inflight' = With(inflight, ip[c], c)
             /\ dialled' = [dialled EXCEPT ![c] = now]
             /\ UNCHANGED <<joined, got>>
    <2>1. Dials' = [b \in DOMAIN Dials \cup {a} |-> IF b = a THEN now ELSE Dials[b]]
      <3>1. \A b \in DOMAIN inflight : inflight[b] \in Callers /\ inflight[b] # c
        BY DEF IInv, TypeOK, Announced, Lookup
      <3>2. /\ DOMAIN inflight' = DOMAIN inflight \cup {a}
            /\ inflight'[a] = c
            /\ \A b \in DOMAIN inflight : b # a => inflight'[b] = inflight[b]
        BY <1>a, <1>3 DEF With
      <3>3. dialled'[c] = now /\ \A d \in Callers : d # c => dialled'[d] = dialled[d]
        BY <1>a, <1>3 DEF TypeOK
      <3>4. \A b \in DOMAIN inflight \cup {a} :
               dialled'[inflight'[b]] = IF b = a THEN now ELSE Dials[b]
        BY <3>1, <3>2, <3>3 DEF Dials
      <3> QED
        BY <3>2, <3>4 DEF Dials
    <2>2. DOMAIN Dials = DOMAIN inflight
      BY DEF Dials
    <2>3. c \in Flight!Asking(a)
      BY <1>a DEF Flight!Asking
    <2>4. Flight!Dial(a)
      BY <1>b, <1>3, <2>1, <2>2, <2>3 DEF Flight!Dial, Dials, Kept
    <2> QED
      BY <2>4
  <1> QED
    BY <1>1, <1>2, <1>3 DEF Lookup

LEMMA SameCardinality == \A S : Flight!Cardinality(S) = Cardinality(S)
  BY Zenon DEF Flight!Cardinality, Cardinality

\* What the second critical section does to the kept results.
LEMMA KeepRetains ==
    ASSUME ConstantsAssumption, IInv, IInv', NEW c \in Callers, Publish(c),
           NEW a, a = ip[c], NEW r, r = Result(c)
    PROVE  IF TTL = 0 THEN Kept' = Kept ELSE Flight!Retain(a, r)
  <1>1. CASE TTL = 0
    BY <1>1 DEF Publish, Keep, Kept
  <1>2. CASE TTL # 0
    <2>1. PICK f \in Room(a, began[c]) : cache' = With(f, a, Entry(c))
      BY <1>2 DEF Publish, Keep
    <2>2. /\ DOMAIN f \subseteq DOMAIN cache
          /\ \A x \in DOMAIN f : f[x] = cache[x]
      BY RoomKeeps
    <2> DEFINE lost == (DOMAIN cache \ DOMAIN f) \ {a}
    <2>3. /\ DOMAIN cache' = (DOMAIN cache \ lost) \cup {a}
          /\ \A x \in DOMAIN cache' :
                cache'[x].res = IF x = a THEN r ELSE cache[x].res
      BY <2>1, <2>2 DEF With, Entry
    <2>4. Kept' = [b \in (DOMAIN Kept \ lost) \cup {a} |->
                      IF b = a THEN r ELSE Kept[b]]
      <3>1. DOMAIN Kept = DOMAIN cache /\ \A b \in DOMAIN cache : Kept[b] = cache[b].res
        BY DEF Kept
      <3>2. \A b \in (DOMAIN Kept \ lost) \cup {a} :
               cache'[b].res = IF b = a THEN r ELSE Kept[b]
        BY <2>3, <3>1
      <3> QED
        BY <2>3, <3>1, <3>2, Zenon DEF Kept
    <2>5. ASSUME lost # {}  PROVE a \notin DOMAIN cache /\ Cardinality(DOMAIN cache) = MaxEntries
      <3>1. f # cache
        BY <2>5
      <3>2. a \notin DOMAIN cache /\ ~(Cardinality(DOMAIN cache) < MaxEntries)
        BY <3>1 DEF Room
      <3>3. Cardinality(DOMAIN cache) \in Nat /\ Cardinality(DOMAIN cache) <= MaxEntries
        BY FS_CardinalityType DEF IInv, Bounded
      <3> QED
        BY <3>2, <3>3 DEF ConstantsAssumption
    <2>6. DOMAIN Kept = DOMAIN cache /\ DOMAIN Kept' = DOMAIN cache'
      BY DEF Kept
    <2>7. Cardinality(DOMAIN Kept') <= MaxEntries
      BY <2>6 DEF IInv, Bounded
    <2>8. lost \in SUBSET (DOMAIN Kept \ {a})
      BY <2>6
    <2> HIDE DEF lost
    <2> QED
      BY <1>2, <2>4, <2>5, <2>6, <2>7, <2>8, SameCardinality, Zenon DEF Flight!Retain, Kept
  <1> QED
    BY <1>1, <1>2

LEMMA PublishFlies ==
    ASSUME ConstantsAssumption, IInv, IInv', NEW c \in Callers, Publish(c), NEW a \in IPs, ip[c] = a
    PROVE  Flight!Found(a)
  <1>a. /\ TypeOK /\ pc[c] = "dial" /\ got[c] = None
        /\ ip[c] \in DOMAIN inflight /\ inflight[ip[c]] = c
        /\ UNCHANGED <<now, ip, began, dialled>>
    BY DEF IInv, InCall, Announced, Publish
  <1>1. Dials' = [b \in DOMAIN Dials \ {a} |-> Dials[b]]
    BY <1>a DEF Publish, Without, Dials
  <1>2. a \in DOMAIN Dials /\ Dials[a] = dialled[c]
    BY <1>a DEF Dials
  <1>r. PICK r : r = [ip |-> a, from |-> Dials[a], known |-> now]
    OBVIOUS
  <1>3. r = Result(c)
    BY <1>r, <1>2 DEF Result
  <1>4. Sharing(c) \in (SUBSET Flight!Asking(a)) \ {{}}
    BY <1>a DEF Sharing, Flight!Asking, IInv, Joined
  <1>5. got' = [d \in Callers |-> IF d \in Sharing(c) THEN r ELSE got[d]]
    BY <1>3 DEF Publish, Hand
  <1>6. IF TTL = 0 THEN Kept' = Kept ELSE Flight!Retain(a, r)
    BY <1>3, KeepRetains
  <1> QED
    <2>1. \E S \in (SUBSET Flight!Asking(a)) \ {{}} :
             got' = [d \in Callers |-> IF d \in S THEN r ELSE got[d]]
      BY <1>4, <1>5, Zenon
    <2>2. IF TTL = 0 THEN Kept' = Kept
          ELSE Flight!Retain(a, [ip |-> a, from |-> Dials[a], known |-> now])
      <3>1. CASE TTL = 0
        BY <1>6, <3>1
      <3>2. CASE TTL # 0
        <4>1. Flight!Retain(a, r)
          BY <1>6, <3>2
        <4>2. Flight!Retain(a, [ip |-> a, from |-> Dials[a], known |-> now])
          <5> DEFINE s == [ip |-> a, from |-> Dials[a], known |-> now]
          <5>1. PICK lost \in SUBSET (DOMAIN Kept \ {a}) :
                   /\ lost # {} => a \notin DOMAIN Kept /\ Flight!Cardinality(DOMAIN Kept) = MaxEntries
                   /\ Kept' = [b \in (DOMAIN Kept \ lost) \cup {a} |-> IF b = a THEN r ELSE Kept[b]]
                   /\ Flight!Cardinality(DOMAIN Kept') <= MaxEntries
            BY <4>1, Zenon DEF Flight!Retain, Kept
          <5>2. r = s
            BY <1>r
          <5> HIDE DEF s
          <5>3. Kept' = [b \in (DOMAIN Kept \ lost) \cup {a} |-> IF b = a THEN s ELSE Kept[b]]
            BY <5>1, <5>2
          <5>4. Flight!Retain(a, s)
            BY <5>1, <5>3, Zenon DEF Flight!Retain, Kept
          <5> QED
            BY <5>4 DEF s
        <4> QED
          BY <3>2, <4>2
      <3> QED
        BY <3>1, <3>2
    <2>3. \E S \in (SUBSET Flight!Asking(a)) \ {{}} :
             got' = [d \in Callers |->
                        IF d \in S THEN [ip |-> a, from |-> Dials[a], known |-> now] ELSE got[d]]
      BY <1>r, <2>1
    <2> QED
      BY <1>a, <1>1, <1>2, <2>2, <2>3 DEF Flight!Found, Dials, Kept

LEMMA WakeFlies ==
    ASSUME IInv, NEW c \in Callers, Wake(c)
    PROVE  UNCHANGED Flight!vars
  <1>1. Dials' = Dials /\ Kept' = Kept
    BY DialsKept DEF Wake, Kept
  <1> QED
    BY <1>1 DEF Wake, Flight!vars, Dials, Kept

LEMMA ReturnFlies ==
    ASSUME IInv, NEW c \in Callers, Return(c)
    PROVE  Flight!Done(c)
  <1>1. Dials' = Dials /\ Kept' = Kept
    <2>1. \A d \in Callers : pc[d] = "dial" => dialled'[d] = dialled[d]
      BY DEF Return, IInv, TypeOK
    <2> QED
      BY <2>1, DialsKept DEF Return, Kept
  <1>2. got[c] # None
    BY DEF Return, IInv, TypeOK
  <1> QED
    BY <1>1, <1>2 DEF Return, Flight!Done, Dials, Kept

LEMMA TickFlies ==
    ASSUME Tick
    PROVE  Flight!Tick
  BY DEF Tick, Flight!Tick

\* Who makes no call asks for nothing.
Asked == \A c \in Callers : pc[c] = "idle" => ip[c] = None

LEMMA AskedStays == IInv /\ Asked /\ [Next]_vars => Asked'
  <1> SUFFICES ASSUME IInv, Asked, [Next]_vars  PROVE Asked'
    OBVIOUS
  <1>a. pc \in [Callers -> {"idle", "lookup", "dial", "wait", "return"}]
        /\ ip \in [Callers -> IPs \cup {None}]
    BY DEF IInv, TypeOK
  <1>1. ASSUME NEW c \in Callers, NEW a \in IPs, Call(c, a)  PROVE Asked'
    BY <1>a, <1>1 DEF Call, Goto, Asked
  <1>2. ASSUME NEW c \in Callers, Lookup(c) \/ Publish(c) \/ Wake(c)  PROVE Asked'
    <2>1. UNCHANGED ip /\ pc'[c] # "idle" /\ \A d \in Callers : d # c => pc'[d] = pc[d]
      BY <1>a, <1>2 DEF Lookup, Publish, Wake, Goto
    <2> QED
      BY <2>1 DEF Asked
  <1>3. ASSUME NEW c \in Callers, Return(c)  PROVE Asked'
    BY <1>a, <1>3 DEF Return, Goto, Asked
  <1>4. CASE Tick \/ UNCHANGED vars
    BY <1>4 DEF Tick, vars, Asked
  <1> QED
    BY <1>1, <1>2, <1>3, <1>4 DEF Next, Check

LEMMA NextFlies ==
    ConstantsAssumption /\ IInv /\ IInv' /\ Asked /\ [Next]_vars => [Flight!Next]_(Flight!vars)
  <1> SUFFICES ASSUME ConstantsAssumption, IInv, IInv', Asked, [Next]_vars
               PROVE  [Flight!Next]_(Flight!vars)
    OBVIOUS
  <1>1. ASSUME NEW c \in Callers, NEW a \in IPs, Call(c, a)  PROVE Flight!Next
    BY <1>1, CallFlies DEF Asked, Call, Flight!Next
  <1>2. ASSUME NEW c \in Callers, Check(c)  PROVE Flight!Next \/ UNCHANGED Flight!vars
    <2>1. CASE Lookup(c)
      <3>1. PICK a \in IPs : ip[c] = a
        BY <2>1 DEF IInv, InCall, Lookup
      <3> QED
        BY <2>1, <3>1, LookupFlies DEF Flight!Next
    <2>2. CASE Publish(c)
      <3>1. PICK a \in IPs : ip[c] = a
        BY <2>2 DEF IInv, InCall, Publish
      <3> QED
        BY <2>2, <3>1, PublishFlies DEF Flight!Next
    <2>3. CASE Wake(c)
      BY <2>3, WakeFlies
    <2>4. CASE Return(c)
      BY <2>4, ReturnFlies DEF Flight!Next
    <2> QED
      BY <1>2, <2>1, <2>2, <2>3, <2>4 DEF Check
  <1>3. CASE Tick
    BY <1>3, TickFlies DEF Flight!Next
  <1>4. CASE UNCHANGED vars
    BY <1>4 DEF vars, Flight!vars
  <1> QED
    BY <1>1, <1>2, <1>3, <1>4 DEF Next

-----------------------------------------------------------------------------
(* Theorems                                                                *)

\* The variables keep their types, and a call that returns has its result: Wake
\* and the two critical sections of Check never hand out one that is not set.
THEOREM TypeCorrect == Spec => []TypeOK
  BY Invariance, PTL DEF IInv

\* Callers of Check that miss the cache at the same time share one dial, however
\* many they are, so that the results of an address come from dials made one after
\* the other, of which the cache keeps the latest.
THEOREM DialsAreShared == Spec => []SingleDial
  BY OrderInvariant, PTL DEF DialsInOrder

\* A caller that waits for a result waits for a dial that another caller is making
\* for the same address: the safety half of CallsReturn.
WaitersHaveADial ==
    \A c \in Callers : pc[c] = "wait" /\ got[c] = None =>
        \E d \in Callers : d # c /\ pc[d] = "dial" /\ ip[d] = ip[c]

\* Check never leaves a caller waiting on a done channel that nobody is left to
\* close, for any number of callers.
THEOREM NobodyWaitsInVain == Spec => []WaitersHaveADial
  <1>1. IInv => WaitersHaveADial
    BY DEF IInv, TypeOK, Joined, WaitersHaveADial
  <1> QED
    BY <1>1, Invariance, PTL

\* Check returns a result of its own address that is no older than the TTL, from
\* the cache or from another caller's dial.
THEOREM ResultsAreFresh == Spec => []ReturnsFreshResult
  <1>1. IInv => ReturnsFreshResult
    BY DEF IInv, TypeOK, FreshOnceGot, ReturnsFreshResult
  <1> QED
    BY <1>1, Invariance, PTL

CacheBounded == Cardinality(DOMAIN cache) <= MaxEntries

\* The cache never holds more than cacheMaxEntries, for any number of callers
\* whose dials end while it is full.
THEOREM CacheKeepsToLimit == Spec => []CacheBounded
  <1>1. IInv => CacheBounded
    BY DEF IInv, Bounded, CacheBounded
  <1> QED
    BY <1>1, Invariance, PTL

\* evictOldestLocked never takes a live result while the cache keeps an expired
\* one, although the sweep before it goes by a clock reading from before the dial.
THEOREM ExpiredGoFirst == Spec => EvictsExpiredFirst
  <1> DEFINE Evicts == \A k \in DOMAIN cache \ DOMAIN cache' :
                          Live(cache[k], now) =>
                             \A x \in DOMAIN cache \cap DOMAIN cache' : Live(cache[x], now)
  <1>1. ASSUME IInv, [Next]_vars, NEW k \in DOMAIN cache \ DOMAIN cache',
               Live(cache[k], now), NEW x \in DOMAIN cache \cap DOMAIN cache'
        PROVE  Live(cache[x], now)
    <2>1. PICK c \in Callers : Publish(c) /\ TTL # 0
      BY <1>1 DEF Next, vars, Call, Check, Lookup, Publish, Keep, Wake, Return, Tick
    <2>2. PICK f \in Room(ip[c], began[c]) : cache' = With(f, ip[c], Entry(c))
      BY <2>1 DEF Publish, Keep
    <2> DEFINE rest == Swept(cache, began[c])
    <2>3. DOMAIN cache' = DOMAIN f \cup {ip[c]}
      BY <2>2 DEF With
    <2>4. /\ ip[c] \notin DOMAIN cache
          /\ \/ f = rest
             \/ \E y \in Oldest(rest) : f = Without(rest, {y})
      BY <1>1, <2>3, Zenon DEF Room
    <2>5. /\ cache[k].inserted \in Nat /\ cache[x].inserted \in Nat
          /\ now \in Nat /\ began[c] \in Nat /\ began[c] <= now
      BY <1>1, <2>1 DEF IInv, TypeOK, Entries, InCall, Publish
    <2>6. Live(cache[k], began[c])
      BY <1>1, <2>5, ConstantsAssumption DEF Live, ConstantsAssumption
    <2>7. k \in DOMAIN rest
      BY <1>1, <2>6 DEF Swept, Without
    <2>8. f = Without(rest, {k}) /\ k \in Oldest(rest)
      BY <1>1, <2>3, <2>4, <2>7 DEF Without
    <2>9. x \in DOMAIN rest
      BY <1>1, <2>3, <2>4, <2>8 DEF Without
    <2>10. cache[k].inserted <= cache[x].inserted
      BY <2>7, <2>8, <2>9 DEF Oldest, Swept, Without
    <2> QED
      BY <1>1, <2>5, <2>10, ConstantsAssumption DEF Live, ConstantsAssumption
  <1>2. IInv /\ [Next]_vars => [Evicts]_vars
    BY <1>1
  <1> QED
    BY <1>2, Invariance, PTL DEF Spec, EvictsExpiredFirst

\* Check is a single flight per address with a bounded memory of fresh results, for
\* any callers, addresses, TTL and size: each step of Prober is one of SingleFlight
\* or hidden there.
THEOREM CheckIsASingleFlight == Spec => ImplementsSingleFlight
  <1>1. Init => Asked
    BY DEF Init, Asked
  <1>2. Spec => []Asked
    BY <1>1, AskedStays, Invariance, PTL DEF Spec
  <1> QED
    BY <1>2, InitFlies, NextFlies, InvStep, Invariance, ConstantsAssumption, PTL
    DEF Spec, ImplementsSingleFlight, Flight!Spec
=============================================================================
