--------------------------- MODULE DNSCacheProofs ---------------------------
(***************************************************************************)
(* Proofs about the response cache, for any set of keys and messages, any  *)
(* capacity, TTL cap and tick length.                                      *)
(***************************************************************************)
EXTENDS DNSCache, TLAPS, SequenceTheorems, FiniteSetTheorems, WellFoundedInduction

-----------------------------------------------------------------------------
(* The list operators                                                      *)

\* Taking one element out of a list keeps the others in their order.
LEMMA WithoutProperties ==
    ASSUME NEW S, NEW s \in Seq(S), NEW i \in 1 .. Len(s)
    PROVE  /\ Without(s, i) \in Seq(S)
           /\ Len(Without(s, i)) = Len(s) - 1
           /\ DOMAIN Without(s, i) = 1 .. Len(s) - 1
           /\ \A j \in 1 .. Len(s) - 1 :
                 Without(s, i)[j] = IF j < i THEN s[j] ELSE s[j + 1]
<1> DEFINE w == Without(s, i)
           n == Len(s) - 1
<1>1. n \in Nat
  BY LenProperties
<1>2. w = [j \in 1 .. n |-> IF j < i THEN s[j] ELSE s[j + 1]]
  BY DEF Without
<1>3. \A j \in 1 .. n : (IF j < i THEN s[j] ELSE s[j + 1]) \in S
  BY ElementOfSeq, LenProperties
<1>4. w \in Seq(S)
  BY <1>1, <1>2, <1>3, IsASeq
<1>5. Len(w) = n
  BY <1>1, <1>2, <1>4, LenProperties
<1> QED BY <1>2, <1>4, <1>5

\* Pushing an element to the front shifts the others by one.
LEMMA PushFrontProperties ==
    ASSUME NEW S, NEW e \in S, NEW s \in Seq(S)
    PROVE  /\ PushFront(e, s) \in Seq(S)
           /\ Len(PushFront(e, s)) = Len(s) + 1
           /\ DOMAIN PushFront(e, s) = 1 .. Len(s) + 1
           /\ PushFront(e, s)[1] = e
           /\ \A j \in 2 .. Len(s) + 1 : PushFront(e, s)[j] = s[j - 1]
<1>1. <<e>> \in Seq(S) /\ Len(<<e>>) = 1 /\ <<e>>[1] = e
  OBVIOUS
<1>2. Len(s) \in Nat
  BY LenProperties
<1> QED BY <1>1, <1>2, ConcatProperties, LenProperties DEF PushFront

-----------------------------------------------------------------------------
(* What an entry's lifetime rests on: it never outlives what any of its    *)
(* records, or either cap, allowed when it was written.                       *)

EntryLifetime ==
    \A i \in DOMAIN lru :
        LET e == lru[i]
        IN  /\ putAt[e.key] <= now
            /\ e.expires <= putAt[e.key] + MaxTTL
            /\ e.expires <= putAt[e.key] + limit[e.key]
            /\ ~e.msg.truncated
            /\ \A rr \in e.msg.rrs : \A t \in Lifetimes(rr) :
                  e.expires <= putAt[e.key] + t * Second

IInv == TypeOK /\ IndexMatchesList /\ LRUOrder /\ EntryLifetime /\ ServedTTL

\* An indexed key has exactly one place in the list.
LEMMA PositionProperties ==
    ASSUME TypeOK, IndexMatchesList, NEW k \in index
    PROVE  /\ Position(k) \in 1 .. Len(lru)
           /\ lru[Position(k)].key = k
           /\ lru[Position(k)] \in Entries
           /\ \A i \in 1 .. Len(lru) : lru[i].key = k => i = Position(k)
<1>1. DOMAIN lru = 1 .. Len(lru)
  BY LenProperties DEF TypeOK
<1>2. PICK i \in DOMAIN lru : lru[i].key = k
  BY DEF IndexMatchesList
<1>3. Position(k) \in DOMAIN lru /\ lru[Position(k)].key = k
  BY <1>2 DEF Position
<1>4. lru[Position(k)] \in Entries
  BY <1>1, <1>3, ElementOfSeq DEF TypeOK
<1> QED BY <1>1, <1>3, <1>4 DEF IndexMatchesList

\* The eviction of Put makes room for one entry and gives up at most the tail,
\* and that only when the cache is full.
LEMMA KeptProperties ==
    ASSUME TypeOK, IndexMatchesList
    PROVE  /\ Kept \in Nat /\ Kept <= Len(lru) /\ Kept < MaxEntries
           /\ Len(lru) = MaxEntries => Kept = Len(lru) - 1
           /\ Len(lru) < MaxEntries => Kept = Len(lru)
<1> DEFINE n == Len(lru)
<1>1. n \in Nat /\ n <= MaxEntries /\ MaxEntries \in Nat \ {0}
  BY ConstantsAssumption, LenProperties DEF TypeOK, IndexMatchesList
<1>2. CASE Evictable(n)
  <2>1. n = MaxEntries /\ n - 1 \in 0 .. n /\ ~Evictable(n - 1)
    BY <1>1, <1>2 DEF Evictable
  <2>2. \A m \in 0 .. n : m = n - 1 <=> (~Evictable(m) /\ \A j \in m + 1 .. n : Evictable(j))
    BY <1>1, <1>2, <2>1 DEF Evictable
  <2>3. Swept = n - 1
    BY <1>1, <2>1, <2>2 DEF Swept
  <2> QED BY <1>1, <2>1, <2>3 DEF Kept
<1>3. CASE ~Evictable(n)
  <2>1. \A m \in 0 .. n : m = n <=> (~Evictable(m) /\ \A j \in m + 1 .. n : Evictable(j))
    BY <1>1, <1>3
  <2>2. Swept = n
    BY <1>1, <2>1 DEF Swept
  <2> QED BY <1>1, <2>2 DEF Kept
<1> QED BY <1>2, <1>3

-----------------------------------------------------------------------------
(* Lifetimes                                                               *)

\* A nonempty set of naturals has a least element, which Min returns.
LEMMA MinProperties ==
    ASSUME NEW T, T \subseteq Nat, T # {}
    PROVE  Min(T) \in T /\ \A t \in T : Min(T) <= t
<1>1. PICK x \in T : \A y \in T : ~(<<y, x>> \in OpToRel(<, Nat))
  BY NatLessThanWellFounded, WFMin
<1>2. OpToRel(<, Nat) = { p \in Nat \X Nat : p[1] < p[2] }
  BY Zenon DEF OpToRel
<1>3. \A y \in T : ~(<<y, x>> \in { p \in Nat \X Nat : p[1] < p[2] })
  BY <1>1, <1>2, Zenon
<1>4. ASSUME NEW y \in T
      PROVE  x <= y
  <2>1. x \in Nat /\ y \in Nat
    OBVIOUS
  <2>2. y < x => <<y, x>> \in { p \in Nat \X Nat : p[1] < p[2] }
    BY <2>1
  <2> QED BY <1>3, <2>1, <2>2
<1> QED BY <1>4 DEF Min

\* A response that may be cached is not truncated, and gets no longer lifetime
\* than any of its records states.
LEMMA TTLFromMsgProperties ==
    ASSUME NEW m \in Msgs, NEW max \in Int
    PROVE  /\ TTLFromMsg(m, max) \in Int
           /\ TTLFromMsg(m, max) > 0 =>
                 /\ TTLFromMsg(m, max) <= max
                 /\ ~m.truncated
                 /\ \A rr \in m.rrs : \A t \in Lifetimes(rr) :
                       t \in Nat /\ TTLFromMsg(m, max) <= t * Second
<1> DEFINE T == { RecordTTL(r) : r \in TTLBearing(m) }
<1>1. m.rrs \subseteq RRs /\ Second \in Nat
  BY ConstantsAssumption DEF Messages
<1>2. T \subseteq Nat
  BY <1>1 DEF TTLBearing, RecordTTL, RRs
<1>3. CASE m.truncated \/ TTLBearing(m) = {}
  BY <1>3 DEF TTLFromMsg
<1>4. CASE ~m.truncated /\ TTLBearing(m) # {}
  <2>1. T # {}
    BY <1>4
  <2>2. Min(T) \in Nat /\ \A t \in T : Min(T) <= t
    BY <1>2, <2>1, MinProperties
  <2> DEFINE p == Min(T) * Second
  <2>3. p \in Nat
    BY <1>1, <2>2
  <2>4. TTLFromMsg(m, max) = IF Capped(p, max) <= 0 THEN 0 ELSE Capped(p, max)
    BY <1>4 DEF TTLFromMsg
  <2> HIDE DEF p
  <2>5. /\ TTLFromMsg(m, max) \in Int /\ TTLFromMsg(m, max) <= p
        /\ TTLFromMsg(m, max) > 0 => TTLFromMsg(m, max) <= max
    BY <2>3, <2>4 DEF Capped
  <2>6. ASSUME NEW rr \in m.rrs, NEW t \in Lifetimes(rr)
        PROVE  t \in Nat /\ p <= t * Second
    <3>1. rr \in TTLBearing(m) /\ t \in Nat /\ RecordTTL(rr) <= t
      BY <1>1 DEF Lifetimes, TTLBearing, RecordTTL, RRs
    <3>2. RecordTTL(rr) \in T
      BY <3>1
    <3>3. Min(T) <= t
      BY <1>2, <2>2, <3>1, <3>2
    <3>4. p <= t * Second
      BY <1>1, <2>2, <3>1, <3>3 DEF p
    <3> QED BY <3>1, <3>4
  <2>7. \A rr \in m.rrs : \A t \in Lifetimes(rr) : t * Second \in Int
    BY <1>1, <2>6
  <2> QED BY <1>4, <2>3, <2>5, <2>6, <2>7
<1> QED BY <1>3, <1>4

\* Rounding up announces at least one second and less than one too many.
LEMMA CeilSecondsProperties ==
    ASSUME NEW t \in Int, t > 0
    PROVE  /\ CeilSeconds(t) \in Nat \ {0}
           /\ CeilSeconds(t) * Second < t + Second
<1> DEFINE a == t + Second - 1
           s == a \div Second
<1>1. Second \in Nat \ {0} /\ a \in Nat /\ a >= Second
  BY ConstantsAssumption
<1>2. s \in Int /\ s * Second <= a /\ a < (s + 1) * Second
  BY <1>1
<1>3. s >= 1
  BY <1>1, <1>2
<1>4. CeilSeconds(t) = s
  BY <1>3, <1>2 DEF CeilSeconds
<1> QED BY <1>1, <1>2, <1>3, <1>4

-----------------------------------------------------------------------------
(* The list after each of its updates                                      *)

\* Moving (or rewriting) the entry of key k to the front.
LEMMA MovedProperties ==
    ASSUME TypeOK, IndexMatchesList, NEW k \in index, NEW e \in Entries
    PROVE  LET p == Position(k)
               s == PushFront(e, Without(lru, p))
           IN  /\ s \in Seq(Entries)
               /\ Len(s) = Len(lru)
               /\ DOMAIN s = 1 .. Len(lru)
               /\ s[1] = e
               /\ \A j \in 2 .. Len(lru) : s[j] = lru[IF j <= p THEN j - 1 ELSE j]
<1> DEFINE p == Position(k)
           w == Without(lru, p)
<1>1. lru \in Seq(Entries) /\ p \in 1 .. Len(lru) /\ Len(lru) \in Nat
  BY PositionProperties, LenProperties DEF TypeOK
<1>2. /\ w \in Seq(Entries)
      /\ Len(w) = Len(lru) - 1
      /\ \A j \in 1 .. Len(lru) - 1 : w[j] = IF j < p THEN lru[j] ELSE lru[j + 1]
  BY <1>1, WithoutProperties
<1> HIDE DEF w, p
<1>3. /\ PushFront(e, w) \in Seq(Entries)
      /\ Len(PushFront(e, w)) = Len(lru)
      /\ DOMAIN PushFront(e, w) = 1 .. Len(lru)
      /\ PushFront(e, w)[1] = e
      /\ \A j \in 2 .. Len(lru) : PushFront(e, w)[j] = w[j - 1]
  BY <1>1, <1>2, PushFrontProperties
<1>4. \A j \in 2 .. Len(lru) : w[j - 1] = lru[IF j <= p THEN j - 1 ELSE j]
  BY <1>1, <1>2
<1> QED BY <1>3, <1>4 DEF w, p

\* The entry of a new key in front of those the eviction keeps.
LEMMA InsertedProperties ==
    ASSUME TypeOK, IndexMatchesList, NEW e \in Entries
    PROVE  LET s == PushFront(e, SubSeq(lru, 1, Kept))
           IN  /\ s \in Seq(Entries)
               /\ Len(s) = Kept + 1
               /\ DOMAIN s = 1 .. Kept + 1
               /\ s[1] = e
               /\ \A j \in 2 .. Kept + 1 : s[j] = lru[j - 1]
<1> DEFINE w == SubSeq(lru, 1, Kept)
<1>1. lru \in Seq(Entries) /\ Len(lru) \in Nat /\ Len(lru) <= MaxEntries
  BY LenProperties DEF TypeOK, IndexMatchesList
<1>2. Kept \in Nat /\ Kept <= Len(lru)
  BY KeptProperties
<1>3. \A i \in 1 .. Kept : lru[i] \in Entries
  BY <1>1, <1>2, ElementOfSeq
<1>4. /\ w \in Seq(Entries)
      /\ Len(w) = Kept
      /\ \A i \in 1 .. Kept : w[i] = lru[i]
  BY <1>2, <1>3, SubSeqProperties
<1> HIDE DEF w
<1>5. /\ PushFront(e, w) \in Seq(Entries)
      /\ Len(PushFront(e, w)) = Kept + 1
      /\ DOMAIN PushFront(e, w) = 1 .. Kept + 1
      /\ PushFront(e, w)[1] = e
      /\ \A j \in 2 .. Kept + 1 : PushFront(e, w)[j] = w[j - 1]
  <2>1. /\ PushFront(e, w) \in Seq(Entries)
        /\ Len(PushFront(e, w)) = Len(w) + 1
        /\ DOMAIN PushFront(e, w) = 1 .. Len(w) + 1
        /\ PushFront(e, w)[1] = e
        /\ \A j \in 2 .. Len(w) + 1 : PushFront(e, w)[j] = w[j - 1]
    <3>1. w \in Seq(Entries) /\ e \in Entries
      BY <1>4
    <3> QED BY <3>1, PushFrontProperties, SMTT(60)
  <2> QED BY <1>4, <2>1
<1>6. \A j \in 2 .. Kept + 1 : w[j - 1] = lru[j - 1]
  BY <1>2, <1>4
<1> QED BY <1>5, <1>6 DEF w

-----------------------------------------------------------------------------
(* The inductive invariant                                                 *)

LEMMA InitIInv == Init => IInv
<1> SUFFICES ASSUME Init PROVE IInv
  OBVIOUS
<1> USE DEF Init
<1>1. TypeOK
  BY DEF TypeOK
<1>2. IndexMatchesList
  BY ConstantsAssumption DEF IndexMatchesList
<1>3. LRUOrder /\ EntryLifetime /\ ServedTTL
  BY DEF LRUOrder, EntryLifetime, ServedTTL
<1> QED BY <1>1, <1>2, <1>3 DEF IInv

\* The use of k makes it newer than every other key and changes no other pair.
LEMMA UseProperties ==
    ASSUME NEW k \in Keys, newer \subseteq Keys \X Keys, Use(k)
    PROVE  /\ newer' \subseteq Keys \X Keys
           /\ \A x \in Keys : x # k => <<k, x>> \in newer'
           /\ \A x, y \in Keys : y # k /\ <<x, y>> \in newer => <<x, y>> \in newer'
  BY Zenon DEF Use

\* An expired entry that is looked up leaves list and index alike.
LEMMA GetExpiredIInv ==
    ASSUME IInv, NEW k \in Keys, GetExpired(k), UNCHANGED <<now, putAt, limit>>
    PROVE  IInv'
<1> DEFINE p == Position(k)
<1>1. TypeOK /\ IndexMatchesList /\ k \in index
  BY DEF IInv, GetExpired
<1>2. /\ p \in 1 .. Len(lru)
      /\ lru[p].key = k
      /\ \A i \in 1 .. Len(lru) : lru[i].key = k => i = p
  BY <1>1, PositionProperties
<1>3. lru \in Seq(Entries) /\ Len(lru) \in Nat /\ DOMAIN lru = 1 .. Len(lru)
  BY <1>1, LenProperties DEF TypeOK
<1> HIDE DEF p
<1>4. lru' = Without(lru, p) /\ index' = index \ {k} /\ reply' = {} /\ newer' = newer
  BY <1>2 DEF GetExpired, Remove, p
<1>5. /\ lru' \in Seq(Entries)
      /\ Len(lru') = Len(lru) - 1
      /\ DOMAIN lru' = 1 .. Len(lru) - 1
      /\ \A j \in 1 .. Len(lru) - 1 : lru'[j] = IF j < p THEN lru[j] ELSE lru[j + 1]
  BY <1>2, <1>3, <1>4, WithoutProperties
<1> DEFINE old(j) == IF j < p THEN j ELSE j + 1
<1>6. \A j \in DOMAIN lru' : old(j) \in DOMAIN lru /\ old(j) # p /\ lru'[j] = lru[old(j)]
  BY <1>2, <1>3, <1>5
<1>7. TypeOK'
  BY <1>1, <1>4, <1>5 DEF TypeOK
<1>8. IndexMatchesList'
  <2>1. ASSUME NEW x \in index' PROVE \E j \in DOMAIN lru' : lru'[j].key = x
    <3>1. PICK i \in DOMAIN lru : lru[i].key = x
      BY <1>1, <1>4 DEF IndexMatchesList
    <3>2. i # p
      BY <1>2, <1>4, <3>1
    <3>3. CASE i < p
      BY <1>2, <1>3, <1>5, <3>1, <3>3
    <3>4. CASE i > p
      <4>1. i - 1 \in DOMAIN lru' /\ lru'[i - 1] = lru[i]
        BY <1>2, <1>3, <1>5, <3>4
      <4> QED BY <3>1, <4>1
    <3> QED BY <1>2, <1>3, <3>2, <3>3, <3>4
  <2>2. ASSUME NEW j \in DOMAIN lru' PROVE lru'[j].key \in index'
    BY <1>1, <1>2, <1>3, <1>4, <1>6 DEF IndexMatchesList
  <2>3. index' = { lru'[j].key : j \in DOMAIN lru' }
    BY <2>1, <2>2
  <2>4. \A i, j \in DOMAIN lru' : lru'[i].key = lru'[j].key => i = j
    BY <1>1, <1>2, <1>3, <1>5, <1>6 DEF IndexMatchesList
  <2>5. Len(lru') <= MaxEntries
    BY <1>1, <1>3, <1>5, ConstantsAssumption DEF IndexMatchesList
  <2> QED BY <2>3, <2>4, <2>5 DEF IndexMatchesList
<1>9. LRUOrder'
  BY <1>2, <1>3, <1>4, <1>5, <1>6 DEF IInv, LRUOrder
<1>10. EntryLifetime'
  BY <1>6 DEF IInv, EntryLifetime
<1>11. ServedTTL'
  BY <1>4 DEF ServedTTL
<1> QED BY <1>7, <1>8, <1>9, <1>10, <1>11 DEF IInv

\* Moving the entry of k to the front, rewritten or not, keeps list and index in
\* step and the list in the order of use.
LEMMA MovedOrder ==
    ASSUME IInv, NEW k \in index, NEW e \in Entries, e.key = k,
           lru' = PushFront(e, Without(lru, Position(k))),
           index' = index, Use(k)
    PROVE  /\ lru' \in Seq(Entries)
           /\ lru'[1] = e
           /\ \A j \in DOMAIN lru' : j # 1 =>
                 \E i \in DOMAIN lru : lru'[j] = lru[i] /\ lru[i].key # k
           /\ IndexMatchesList'
           /\ LRUOrder'
<1> DEFINE p == Position(k)
           old(j) == IF j <= p THEN j - 1 ELSE j
<1>1. TypeOK /\ IndexMatchesList /\ LRUOrder
  BY DEF IInv
<1>2. /\ p \in 1 .. Len(lru)
      /\ lru[p].key = k
      /\ \A i \in 1 .. Len(lru) : lru[i].key = k => i = p
  BY <1>1, PositionProperties
<1>3. lru \in Seq(Entries) /\ Len(lru) \in Nat /\ DOMAIN lru = 1 .. Len(lru)
  BY <1>1, LenProperties DEF TypeOK
<1>4. /\ lru' \in Seq(Entries)
      /\ Len(lru') = Len(lru)
      /\ DOMAIN lru' = 1 .. Len(lru)
      /\ lru'[1] = e
      /\ \A j \in 2 .. Len(lru) : lru'[j] = lru[old(j)]
  BY <1>1, MovedProperties
<1> HIDE DEF p
<1>5. \A j \in 2 .. Len(lru) :
         old(j) \in DOMAIN lru /\ old(j) # p /\ lru[old(j)].key # k
  BY <1>2, <1>3
<1>6. \A i, j \in 2 .. Len(lru) : i < j => old(i) < old(j)
  BY <1>2, <1>3
<1> HIDE DEF old
<1>7. \A i \in DOMAIN lru : lru[i].key \in Keys
  <2>1. \A i \in DOMAIN lru : lru[i] \in Entries
    BY <1>3, ElementOfSeq
  <2> QED BY <2>1 DEF Entries
<1>8. \A j \in 2 .. Len(lru) : lru'[j].key \in Keys /\ lru'[j].key # k
  BY <1>4, <1>5, <1>7
<1>9. k \in Keys /\ lru'[1].key = k
  BY <1>1, <1>4 DEF TypeOK
<1>10. IndexMatchesList'
  <2>1. \A i, j \in DOMAIN lru' : lru'[i].key = lru'[j].key => i = j
    <3> SUFFICES ASSUME NEW i \in DOMAIN lru', NEW j \in DOMAIN lru', i < j
                 PROVE  lru'[i].key # lru'[j].key
      BY <1>3, <1>4
    <3>1. CASE i = 1
      BY <1>3, <1>4, <1>8, <1>9, <3>1
    <3>2. CASE i # 1
      <4>1. i \in 2 .. Len(lru) /\ j \in 2 .. Len(lru)
        BY <1>3, <1>4, <3>2
      <4>2. old(i) \in DOMAIN lru /\ old(j) \in DOMAIN lru /\ old(i) < old(j)
        BY <1>5, <1>6, <4>1
      <4>3. lru[old(i)].key # lru[old(j)].key
        BY <1>1, <1>3, <4>2 DEF IndexMatchesList
      <4> QED BY <1>4, <4>1, <4>3
    <3> QED BY <3>1, <3>2
  <2>2. ASSUME NEW x \in index' PROVE \E j \in DOMAIN lru' : lru'[j].key = x
    <3>1. PICK i \in DOMAIN lru : lru[i].key = x
      BY <1>1 DEF IndexMatchesList
    <3>2. CASE x = k
      BY <1>2, <1>3, <1>4, <1>9, <3>2
    <3>3. CASE x # k /\ i < p
      <4>1. i + 1 \in 2 .. Len(lru) /\ old(i + 1) = i
        BY <1>2, <1>3, <3>3 DEF old
      <4> QED BY <1>4, <3>1, <4>1
    <3>4. CASE x # k /\ i > p
      <4>1. i \in 2 .. Len(lru) /\ old(i) = i
        BY <1>2, <1>3, <3>4 DEF old
      <4> QED BY <1>4, <3>1, <4>1
    <3> QED BY <1>2, <1>3, <3>1, <3>2, <3>3, <3>4
  <2>3. ASSUME NEW j \in DOMAIN lru' PROVE lru'[j].key \in index'
    <3>1. CASE j = 1
      BY <1>9, <3>1
    <3>2. CASE j # 1
      <4>1. j \in 2 .. Len(lru)
        BY <1>3, <1>4, <3>2
      <4> QED BY <1>1, <1>4, <1>5, <4>1 DEF IndexMatchesList
    <3> QED BY <3>1, <3>2
  <2>4. index' = { lru'[j].key : j \in DOMAIN lru' }
    BY <2>2, <2>3
  <2> QED BY <1>1, <1>4, <2>1, <2>4 DEF IndexMatchesList
<1>11. LRUOrder'
  <2> SUFFICES ASSUME NEW i \in DOMAIN lru', NEW j \in DOMAIN lru', i < j
               PROVE  <<lru'[i].key, lru'[j].key>> \in newer'
    BY DEF LRUOrder
  <2>1. newer \subseteq Keys \X Keys
    BY <1>1 DEF TypeOK
  <2>2. /\ \A x \in Keys : x # k => <<k, x>> \in newer'
        /\ \A x, y \in Keys : y # k /\ <<x, y>> \in newer => <<x, y>> \in newer'
    BY <1>9, <2>1, UseProperties
  <2>3. j \in 2 .. Len(lru)
    BY <1>3, <1>4
  <2>4. CASE i = 1
    BY <1>8, <1>9, <2>2, <2>3, <2>4
  <2>5. CASE i # 1
    <3>1. i \in 2 .. Len(lru)
      BY <1>3, <1>4, <2>5
    <3>2. old(i) \in DOMAIN lru /\ old(j) \in DOMAIN lru /\ old(i) < old(j)
      BY <1>5, <1>6, <2>3, <3>1
    <3>3. <<lru[old(i)].key, lru[old(j)].key>> \in newer
      BY <1>1, <3>2 DEF LRUOrder
    <3>4. <<lru'[i].key, lru'[j].key>> \in newer
      BY <1>4, <2>3, <3>1, <3>3
    <3> QED BY <1>8, <2>2, <2>3, <3>1, <3>4
  <2> QED BY <2>4, <2>5
<1>12. \A j \in DOMAIN lru' : j # 1 =>
          \E i \in DOMAIN lru : lru'[j] = lru[i] /\ lru[i].key # k
  <2> SUFFICES ASSUME NEW j \in DOMAIN lru', j # 1
               PROVE  \E i \in DOMAIN lru : lru'[j] = lru[i] /\ lru[i].key # k
    OBVIOUS
  <2>1. j \in 2 .. Len(lru)
    BY <1>3, <1>4
  <2> QED BY <1>4, <1>5, <2>1
<1> QED BY <1>4, <1>10, <1>11, <1>12

\* A hit moves its entry to the front and announces what is left of it.
LEMMA GetHitIInv ==
    ASSUME IInv, NEW k \in Keys, GetHit(k), UNCHANGED <<now, putAt, limit>>
    PROVE  IInv'
<1> DEFINE e == lru[Position(k)]
           remaining == e.expires - now
           r == [key |-> k, msg |-> e.msg, ttl |-> CeilSeconds(remaining)]
<1>1. TypeOK /\ IndexMatchesList /\ EntryLifetime /\ k \in index
  BY DEF IInv, GetHit
<1>2. Position(k) \in DOMAIN lru /\ e \in Entries /\ e.key = k
  BY <1>1, PositionProperties, LenProperties DEF TypeOK
<1>3. /\ remaining > 0
      /\ lru' = PushFront(e, Without(lru, Position(k)))
      /\ reply' = {r}
      /\ index' = index
      /\ Use(k)
  BY DEF GetHit
<1>4. /\ putAt[k] <= now
      /\ e.expires <= putAt[k] + MaxTTL
      /\ e.expires <= putAt[k] + limit[k]
      /\ ~e.msg.truncated
      /\ \A rr \in e.msg.rrs : \A t \in Lifetimes(rr) : e.expires <= putAt[k] + t * Second
  BY <1>1, <1>2 DEF EntryLifetime
<1> HIDE DEF e
<1>5. e.expires \in Int /\ e.msg \in Msgs /\ now \in Nat /\ putAt[k] \in Nat /\ limit[k] \in Int
  BY <1>1, <1>2 DEF Entries, TypeOK
<1>6. /\ lru' \in Seq(Entries)
      /\ lru'[1] = e
      /\ \A j \in DOMAIN lru' : j # 1 =>
            \E i \in DOMAIN lru : lru'[j] = lru[i] /\ lru[i].key # k
      /\ IndexMatchesList'
      /\ LRUOrder'
  BY <1>1, <1>2, <1>3, MovedOrder
<1>7. remaining \in Int
  BY <1>5
<1>8. CeilSeconds(remaining) \in Nat \ {0} /\ CeilSeconds(remaining) * Second < remaining + Second
  BY <1>3, <1>7, CeilSecondsProperties
<1>9. TypeOK'
  <2>1. newer' \subseteq Keys \X Keys
    BY <1>1, <1>3, UseProperties DEF TypeOK
  <2>2. r \in Replies
    BY <1>5, <1>8 DEF Replies
  <2>3. reply' \subseteq Replies /\ \A x, y \in reply' : x = y
    BY <1>3, <2>2
  <2> QED BY <1>1, <1>3, <1>6, <2>1, <2>3 DEF TypeOK
<1>10. EntryLifetime'
  <2> SUFFICES ASSUME NEW j \in DOMAIN lru'
               PROVE  \E i \in DOMAIN lru : lru'[j] = lru[i]
    BY <1>1 DEF EntryLifetime
  <2>1. CASE j = 1
    BY <1>2, <1>6, <2>1 DEF e
  <2>2. CASE j # 1
    BY <1>6, <2>2
  <2> QED BY <2>1, <2>2
<1>11. ServedTTL'
  <2> DEFINE age == now - putAt[k]
  <2> SUFFICES /\ age >= 0
               /\ ~r.msg.truncated
               /\ \A rr \in r.msg.rrs : \A t \in Lifetimes(rr) :
                     age < t * Second /\ r.ttl * Second < t * Second - age + Second
               /\ age < MaxTTL
               /\ age < limit[k]
    BY <1>3 DEF ServedTTL, Lifetimes
  <2>1. age \in Int /\ age >= 0 /\ Second \in Nat /\ MaxTTL \in Int
    BY <1>4, <1>5, ConstantsAssumption
  <2>2. age < MaxTTL /\ age < limit[k]
    BY <1>3, <1>4, <1>5, <2>1
  <2>3. ASSUME NEW rr \in e.msg.rrs, NEW t \in Lifetimes(rr)
        PROVE  age < t * Second /\ CeilSeconds(remaining) * Second < t * Second - age + Second
    <3>1. rr \in RRs
      BY <1>5, ConstantsAssumption DEF Messages
    <3>2. t \in Nat
      BY <3>1 DEF Lifetimes, RRs
    <3>3. t * Second \in Int /\ CeilSeconds(remaining) * Second \in Int
      BY <1>8, <2>1, <3>2
    <3>4. e.expires <= putAt[k] + t * Second
      BY <1>4
    <3> HIDE DEF age
    <3>5. age = now - putAt[k]
      BY DEF age
    <3> QED BY <1>3, <1>5, <1>8, <2>1, <3>3, <3>4, <3>5
  <2> QED BY <1>4, <2>1, <2>2, <2>3
<1> QED BY <1>6, <1>9, <1>10, <1>11 DEF IInv

\* What a Put writes is an entry whose lifetime every record allows.
LEMMA FreshProperties ==
    ASSUME TypeOK, NEW k \in Keys, NEW m \in Msgs, NEW max \in CfgMaxTTLs,
           TTLFromMsg(m, max) > 0
    PROVE  LET e == Fresh(k, m, TTLFromMsg(m, max))
           IN  /\ e \in Entries
               /\ e.key = k
               /\ e.msg = m
               /\ e.expires <= now + MaxTTL
               /\ e.expires <= now + max
               /\ ~e.msg.truncated
               /\ \A rr \in e.msg.rrs : \A t \in Lifetimes(rr) :
                     e.expires <= now + t * Second
<1> DEFINE ttl == TTLFromMsg(m, max)
           e == Fresh(k, m, ttl)
<1>1. /\ max \in Int /\ MaxTTL \in Int /\ Second \in Nat /\ now \in Nat
  BY ConstantsAssumption DEF TypeOK
<1>2. /\ ttl \in Int
      /\ ttl <= max
      /\ ~m.truncated
      /\ \A rr \in m.rrs : \A t \in Lifetimes(rr) : t \in Nat /\ ttl <= t * Second
  BY <1>1, TTLFromMsgProperties
<1> HIDE DEF ttl
<1>3. /\ Capped(ttl, MaxTTL) \in Int
      /\ Capped(ttl, MaxTTL) <= MaxTTL
      /\ Capped(ttl, MaxTTL) <= ttl
  BY <1>1, <1>2 DEF Capped
<1>4. e = [key |-> k, msg |-> m, expires |-> now + Capped(ttl, MaxTTL)]
  BY DEF Fresh
<1>5. e \in Entries /\ e.key = k /\ e.msg = m /\ e.expires = now + Capped(ttl, MaxTTL)
  BY <1>1, <1>3, <1>4 DEF Entries
<1> HIDE DEF e
<1>6. ASSUME NEW rr \in m.rrs, NEW t \in Lifetimes(rr)
      PROVE  e.expires <= now + t * Second
  <2>1. t * Second \in Int /\ ttl <= t * Second
    BY <1>1, <1>2
  <2> QED BY <1>1, <1>2, <1>3, <1>5, <2>1
<1>7. e.expires <= now + MaxTTL /\ e.expires <= now + max
  BY <1>1, <1>2, <1>3, <1>5
<1> QED BY <1>2, <1>5, <1>6, <1>7 DEF e, ttl

\* An overwrite rewrites the entry at the front.
LEMMA PutExistingIInv ==
    ASSUME IInv, NEW k \in Keys, NEW m \in Msgs, NEW max \in CfgMaxTTLs,
           PutExisting(k, m, TTLFromMsg(m, max)), reply' = {}, now' = now,
           limit' = [limit EXCEPT ![k] = max]
    PROVE  IInv'
<1> DEFINE e == Fresh(k, m, TTLFromMsg(m, max))
<1>1. TypeOK /\ EntryLifetime /\ k \in index /\ TTLFromMsg(m, max) > 0
  BY DEF IInv, PutExisting
<1>2. /\ e \in Entries
      /\ e.key = k
      /\ e.expires <= now + MaxTTL
      /\ e.expires <= now + max
      /\ ~e.msg.truncated
      /\ \A rr \in e.msg.rrs : \A t \in Lifetimes(rr) : e.expires <= now + t * Second
  BY <1>1, FreshProperties
<1>3. /\ lru' = PushFront(e, Without(lru, Position(k)))
      /\ index' = index
      /\ putAt' = [putAt EXCEPT ![k] = now]
      /\ Use(k)
  BY DEF PutExisting
<1> HIDE DEF e
<1>4. /\ lru' \in Seq(Entries)
      /\ lru'[1] = e
      /\ \A j \in DOMAIN lru' : j # 1 =>
            \E i \in DOMAIN lru : lru'[j] = lru[i] /\ lru[i].key # k
      /\ IndexMatchesList'
      /\ LRUOrder'
  BY <1>1, <1>2, <1>3, MovedOrder
<1>5. TypeOK'
  <2>1. newer' \subseteq Keys \X Keys
    BY <1>1, <1>3, UseProperties DEF TypeOK
  <2>2. limit' \in [Keys -> Int]
    BY <1>1, ConstantsAssumption DEF TypeOK
  <2> QED BY <1>1, <1>3, <1>4, <2>1, <2>2 DEF TypeOK
<1>6. /\ now \in Nat /\ putAt'[k] = now /\ \A x : x # k => putAt'[x] = putAt[x]
      /\ limit'[k] = max /\ \A x : x # k => limit'[x] = limit[x]
  BY <1>1, <1>3 DEF TypeOK
<1>7. EntryLifetime'
  <2> SUFFICES ASSUME NEW j \in DOMAIN lru'
               PROVE  /\ putAt'[lru'[j].key] <= now
                      /\ lru'[j].expires <= putAt'[lru'[j].key] + MaxTTL
                      /\ lru'[j].expires <= putAt'[lru'[j].key] + limit'[lru'[j].key]
                      /\ ~lru'[j].msg.truncated
                      /\ \A rr \in lru'[j].msg.rrs : \A t \in Lifetimes(rr) :
                            lru'[j].expires <= putAt'[lru'[j].key] + t * Second
    BY DEF EntryLifetime, Lifetimes
  <2>1. CASE j = 1
    <3>1. lru'[j] = e /\ putAt'[lru'[j].key] = now /\ limit'[lru'[j].key] = max
      BY <1>2, <1>4, <1>6, <2>1
    <3> QED BY <1>2, <1>6, <3>1
  <2>2. CASE j # 1
    <3>1. PICK i \in DOMAIN lru : lru'[j] = lru[i] /\ lru[i].key # k
      BY <1>4, <2>2
    <3>2. putAt'[lru'[j].key] = putAt[lru[i].key] /\ limit'[lru'[j].key] = limit[lru[i].key]
      BY <1>6, <3>1
    <3> QED BY <1>1, <3>1, <3>2 DEF EntryLifetime
  <2> QED BY <2>1, <2>2
<1>8. ServedTTL'
  BY DEF ServedTTL
<1> QED BY <1>4, <1>5, <1>7, <1>8 DEF IInv

\* A new entry goes to the front; the tail leaves list and index alike.
LEMMA PutNewIInv ==
    ASSUME IInv, NEW k \in Keys, NEW m \in Msgs, NEW max \in CfgMaxTTLs,
           PutNew(k, m, TTLFromMsg(m, max)), reply' = {}, now' = now,
           limit' = [limit EXCEPT ![k] = max]
    PROVE  IInv'
<1> DEFINE e == Fresh(k, m, TTLFromMsg(m, max))
           n == Len(lru)
<1>1. /\ TypeOK /\ IndexMatchesList /\ LRUOrder /\ EntryLifetime
      /\ k \notin index /\ TTLFromMsg(m, max) > 0
  BY DEF IInv, PutNew
<1>2. /\ e \in Entries
      /\ e.key = k
      /\ e.expires <= now + MaxTTL
      /\ e.expires <= now + max
      /\ ~e.msg.truncated
      /\ \A rr \in e.msg.rrs : \A t \in Lifetimes(rr) : e.expires <= now + t * Second
  BY <1>1, FreshProperties
<1>3. /\ lru' = PushFront(e, SubSeq(lru, 1, Kept))
      /\ index' = (index \ { lru[i].key : i \in Kept + 1 .. n }) \cup {k}
      /\ putAt' = [putAt EXCEPT ![k] = now]
      /\ Use(k)
  BY DEF PutNew
<1> HIDE DEF e
<1>4. lru \in Seq(Entries) /\ n \in Nat /\ DOMAIN lru = 1 .. n /\ n <= MaxEntries
  BY <1>1, LenProperties DEF TypeOK, IndexMatchesList
<1>5. Kept \in Nat /\ Kept <= n /\ Kept < MaxEntries
  BY <1>1, KeptProperties
<1>6. /\ lru' \in Seq(Entries)
      /\ Len(lru') = Kept + 1
      /\ DOMAIN lru' = 1 .. Kept + 1
      /\ lru'[1] = e
      /\ \A j \in 2 .. Kept + 1 : lru'[j] = lru[j - 1]
  BY <1>1, <1>2, <1>3, InsertedProperties
<1>7. \A i \in DOMAIN lru : lru[i].key \in index /\ lru[i].key \in Keys /\ lru[i].key # k
  BY <1>1 DEF IndexMatchesList, TypeOK
<1>8. ASSUME NEW j \in DOMAIN lru', j # 1
      PROVE  j \in 2 .. Kept + 1 /\ j - 1 \in DOMAIN lru /\ j - 1 <= Kept /\ lru'[j] = lru[j - 1]
  BY <1>4, <1>5, <1>6, <1>8
<1>9. TypeOK'
  <2>1. newer' \subseteq Keys \X Keys
    BY <1>1, <1>3, UseProperties DEF TypeOK
  <2>2. index' \subseteq Keys
    BY <1>1, <1>3 DEF TypeOK
  <2>3. limit' \in [Keys -> Int]
    BY <1>1, ConstantsAssumption DEF TypeOK
  <2> QED BY <1>1, <1>3, <1>6, <2>1, <2>2, <2>3 DEF TypeOK
<1>10. IndexMatchesList'
  <2>1. \A i, j \in DOMAIN lru' : lru'[i].key = lru'[j].key => i = j
    <3> DEFINE D == DOMAIN lru'
    <3>0. \A i, j \in D : i # j => i < j \/ j < i
      BY <1>5, <1>6
    <3> SUFFICES ASSUME NEW i \in DOMAIN lru', NEW j \in DOMAIN lru', i < j
                 PROVE  lru'[i].key # lru'[j].key
      BY <3>0
    <3>1. j # 1 /\ j - 1 \in DOMAIN lru /\ lru'[j] = lru[j - 1]
      BY <1>5, <1>6, <1>8
    <3>2. CASE i = 1
      BY <1>2, <1>6, <1>7, <3>1, <3>2
    <3>3. CASE i # 1
      <4>1. i - 1 \in DOMAIN lru /\ lru'[i] = lru[i - 1]
        BY <1>8, <3>3
      <4>2. i - 1 # j - 1
        BY <1>5, <1>6
      <4> QED BY <1>1, <3>1, <4>1, <4>2 DEF IndexMatchesList
    <3> QED BY <3>2, <3>3
  <2>2. ASSUME NEW x \in index' PROVE \E j \in DOMAIN lru' : lru'[j].key = x
    <3>1. CASE x = k
      BY <1>2, <1>5, <1>6, <3>1
    <3>2. CASE x # k
      <4>1. x \in index /\ x \notin { lru[i].key : i \in Kept + 1 .. n }
        BY <1>3, <3>2
      <4>2. PICK i \in DOMAIN lru : lru[i].key = x
        BY <1>1, <4>1 DEF IndexMatchesList
      <4>3. i \in 1 .. Kept
        BY <1>4, <1>5, <4>1, <4>2
      <4>4. i + 1 \in DOMAIN lru' /\ lru'[i + 1] = lru[i]
        BY <1>5, <1>6, <4>3
      <4> QED BY <4>2, <4>4
    <3> QED BY <3>1, <3>2
  <2>3. ASSUME NEW j \in DOMAIN lru' PROVE lru'[j].key \in index'
    <3>1. CASE j = 1
      BY <1>2, <1>3, <1>6, <3>1
    <3>2. CASE j # 1
      <4>1. j - 1 \in DOMAIN lru /\ j - 1 <= Kept /\ lru'[j] = lru[j - 1]
        BY <1>8, <3>2
      <4>2. \A i \in Kept + 1 .. n : lru[i].key # lru[j - 1].key
        BY <1>1, <1>4, <1>5, <4>1 DEF IndexMatchesList
      <4> QED BY <1>3, <1>7, <4>1, <4>2
    <3> QED BY <3>1, <3>2
  <2>4. index' = { lru'[j].key : j \in DOMAIN lru' }
    BY <2>2, <2>3
  <2>5. Len(lru') <= MaxEntries
    BY <1>5, <1>6, ConstantsAssumption
  <2> QED BY <2>1, <2>4, <2>5 DEF IndexMatchesList
<1>11. LRUOrder'
  <2> SUFFICES ASSUME NEW i \in DOMAIN lru', NEW j \in DOMAIN lru', i < j
               PROVE  <<lru'[i].key, lru'[j].key>> \in newer'
    BY DEF LRUOrder
  <2>1. /\ \A x \in Keys : x # k => <<k, x>> \in newer'
        /\ \A x, y \in Keys : y # k /\ <<x, y>> \in newer => <<x, y>> \in newer'
    BY <1>1, <1>3, UseProperties DEF TypeOK
  <2>2. j # 1 /\ j - 1 \in DOMAIN lru /\ lru'[j] = lru[j - 1]
    BY <1>5, <1>6, <1>8
  <2>3. CASE i = 1
    BY <1>2, <1>6, <1>7, <2>1, <2>2, <2>3
  <2>4. CASE i # 1
    <3>1. i - 1 \in DOMAIN lru /\ lru'[i] = lru[i - 1] /\ i - 1 < j - 1
      BY <1>5, <1>6, <1>8, <2>4
    <3>2. <<lru[i - 1].key, lru[j - 1].key>> \in newer
      BY <1>1, <2>2, <3>1 DEF LRUOrder
    <3> QED BY <1>7, <2>1, <2>2, <3>1, <3>2
  <2> QED BY <2>3, <2>4
<1>12. /\ now \in Nat /\ putAt'[k] = now /\ \A x : x # k => putAt'[x] = putAt[x]
      /\ limit'[k] = max /\ \A x : x # k => limit'[x] = limit[x]
  BY <1>1, <1>3 DEF TypeOK
<1>13. EntryLifetime'
  <2> SUFFICES ASSUME NEW j \in DOMAIN lru'
               PROVE  /\ putAt'[lru'[j].key] <= now
                      /\ lru'[j].expires <= putAt'[lru'[j].key] + MaxTTL
                      /\ lru'[j].expires <= putAt'[lru'[j].key] + limit'[lru'[j].key]
                      /\ ~lru'[j].msg.truncated
                      /\ \A rr \in lru'[j].msg.rrs : \A t \in Lifetimes(rr) :
                            lru'[j].expires <= putAt'[lru'[j].key] + t * Second
    BY DEF EntryLifetime, Lifetimes
  <2>1. CASE j = 1
    <3>1. lru'[j] = e /\ putAt'[lru'[j].key] = now /\ limit'[lru'[j].key] = max
      BY <1>2, <1>6, <1>12, <2>1
    <3> QED BY <1>2, <1>12, <3>1
  <2>2. CASE j # 1
    <3>1. PICK i \in DOMAIN lru : lru'[j] = lru[i] /\ lru[i].key # k
      BY <1>7, <1>8, <2>2
    <3>2. putAt'[lru'[j].key] = putAt[lru[i].key] /\ limit'[lru'[j].key] = limit[lru[i].key]
      BY <1>12, <3>1
    <3> QED BY <1>1, <3>1, <3>2 DEF EntryLifetime
  <2> QED BY <2>1, <2>2
<1>14. ServedTTL'
  BY DEF ServedTTL
<1> QED BY <1>9, <1>10, <1>11, <1>13, <1>14 DEF IInv

LEMMA NextIInv == IInv /\ [Next]_vars => IInv'
<1> SUFFICES ASSUME IInv, [Next]_vars PROVE IInv'
  OBVIOUS
<1>1. ASSUME NEW k \in Keys, Get(k) PROVE IInv'
  <2>1. CASE GetMiss(k)
    BY <1>1, <2>1 DEF IInv, GetMiss, Get, TypeOK, IndexMatchesList, LRUOrder,
                      EntryLifetime, ServedTTL
  <2>2. CASE GetExpired(k)
    BY <1>1, <2>2, GetExpiredIInv DEF Get
  <2>3. CASE GetHit(k)
    BY <1>1, <2>3, GetHitIInv DEF Get
  <2> QED BY <1>1, <2>1, <2>2, <2>3 DEF Get
<1>2. ASSUME NEW k \in Keys, NEW m \in Msgs, NEW max \in CfgMaxTTLs,
             Put(k, m, TTLFromMsg(m, max)),
             limit' = IF TTLFromMsg(m, max) > 0 THEN [limit EXCEPT ![k] = max] ELSE limit
      PROVE  IInv'
  <2>1. CASE PutSkip(TTLFromMsg(m, max))
    <3>1. ~(TTLFromMsg(m, max) > 0)
      <4>1. max \in Int
        BY ConstantsAssumption
      <4> QED BY <2>1, <4>1, TTLFromMsgProperties DEF PutSkip
    <3>2. UNCHANGED <<now, lru, index, putAt, limit, newer>> /\ reply' = {}
      BY <1>2, <2>1, <3>1 DEF PutSkip, Put
    <3> QED BY <3>2 DEF IInv, TypeOK, IndexMatchesList, LRUOrder, EntryLifetime, ServedTTL
  <2>2. CASE PutExisting(k, m, TTLFromMsg(m, max))
    BY <1>2, <2>2, PutExistingIInv DEF Put, PutExisting
  <2>3. CASE PutNew(k, m, TTLFromMsg(m, max))
    BY <1>2, <2>3, PutNewIInv DEF Put, PutNew
  <2> QED BY <1>2, <2>1, <2>2, <2>3 DEF Put
<1>3. CASE Flush
  <2> USE <1>3 DEF Flush
  <2>1. TypeOK'
    BY DEF IInv, TypeOK
  <2>2. IndexMatchesList'
    BY ConstantsAssumption DEF IndexMatchesList
  <2>3. LRUOrder' /\ EntryLifetime' /\ ServedTTL'
    BY DEF LRUOrder, EntryLifetime, ServedTTL
  <2> QED BY <2>1, <2>2, <2>3 DEF IInv
<1>4. CASE Tick
  <2> USE <1>4 DEF Tick
  <2>1. TypeOK' /\ IndexMatchesList' /\ LRUOrder' /\ ServedTTL'
    BY DEF IInv, TypeOK, IndexMatchesList, LRUOrder, ServedTTL
  <2>2. \A x \in Keys : putAt[x] \in Nat /\ (putAt[x] <= now => putAt[x] <= now + 1)
    BY DEF IInv, TypeOK
  <2>3. \A i \in DOMAIN lru : lru[i].key \in Keys
    BY DEF IInv, TypeOK, IndexMatchesList
  <2>4. EntryLifetime'
    BY <2>2, <2>3 DEF IInv, EntryLifetime
  <2> QED BY <2>1, <2>4 DEF IInv
<1>5. CASE UNCHANGED vars
  BY <1>5 DEF vars, IInv, TypeOK, IndexMatchesList, LRUOrder, EntryLifetime, ServedTTL
<1> QED BY <1>1, <1>2, <1>3, <1>4, <1>5 DEF Next, Store

LEMMA InvariantIInv == Spec => []IInv
<1> QED BY InitIInv, NextIInv, PTL DEF Spec

\* Every method of the cache leaves a well-typed state; in particular a hit is
\* never announced with a TTL of zero.
THEOREM TypeCorrect == Spec => []TypeOK
<1>1. IInv => TypeOK
  BY DEF IInv
<1> QED BY <1>1, InvariantIInv, PTL

\* List and index agree, hold one entry per key and never exceed max_entries,
\* for every capacity and every sequence of calls.
THEOREM IndexIsConsistent == Spec => []IndexMatchesList
<1>1. IInv => IndexMatchesList
  BY DEF IInv
<1> QED BY <1>1, InvariantIInv, PTL

\* The list is always in the order of last use.
THEOREM ListIsLRU == Spec => []LRUOrder
<1>1. IInv => LRUOrder
  BY DEF IInv
<1> QED BY <1>1, InvariantIInv, PTL

\* No hit outlives its records or overstates them by a second or more.
THEOREM HitsAreAlive == Spec => []ServedTTL
<1>1. IInv => ServedTTL
  BY DEF IInv
<1> QED BY <1>1, InvariantIInv, PTL

-----------------------------------------------------------------------------
(* Evictions                                                               *)

\* The keys a Put gives up: none, or that of the tail of a full list.
LEMMA EvictedIsTail ==
    ASSUME IInv, NEW v \in { lru[i].key : i \in Kept + 1 .. Len(lru) }
    PROVE  /\ Kept = Len(lru) - 1
           /\ Len(lru) = MaxEntries
           /\ v = lru[Len(lru)].key
           /\ v \in index
<1>1. TypeOK /\ IndexMatchesList
  BY DEF IInv
<1>2. Len(lru) \in Nat /\ DOMAIN lru = 1 .. Len(lru) /\ Len(lru) <= MaxEntries
  BY <1>1, LenProperties DEF TypeOK, IndexMatchesList
<1>3. /\ Len(lru) = MaxEntries => Kept = Len(lru) - 1
      /\ Len(lru) < MaxEntries => Kept = Len(lru)
  BY <1>1, KeptProperties
<1>4. MaxEntries \in Nat \ {0}
  BY ConstantsAssumption
<1>5. PICK i \in Kept + 1 .. Len(lru) : v = lru[i].key
  OBVIOUS
<1>6. Len(lru) = MaxEntries /\ Kept = Len(lru) - 1
  <2>1. Len(lru) \in Nat /\ Len(lru) <= MaxEntries /\ MaxEntries \in Nat
    BY <1>2, <1>4
  <2>2. ~(Len(lru) < MaxEntries)
    BY <1>3, <1>5, <2>1
  <2>3. Len(lru) = MaxEntries
    BY <2>1, <2>2
  <2> QED BY <1>3, <2>3
<1>7. i = Len(lru) /\ i \in DOMAIN lru
  BY <1>2, <1>4, <1>5, <1>6
<1> QED BY <1>1, <1>5, <1>6, <1>7 DEF IndexMatchesList

\* Cache entries are lost only to expiry, to LRU eviction and to Flush.
THEOREM EvictionIsLRU == Spec => EvictsLeastRecent
<1> DEFINE Ok(v) == \/ lru[Position(v)].expires <= now
                    \/ \A w \in index' : <<w, v>> \in newer'
<1>1. ASSUME IInv, [Next]_vars, NEW v \in index \ index' PROVE Ok(v)
  <2>0. TypeOK /\ IndexMatchesList /\ LRUOrder /\ v \in Keys
    BY <1>1 DEF IInv, TypeOK
  <2>1. ASSUME NEW k \in Keys, Get(k) PROVE Ok(v)
    <3>1. GetExpired(k)
      BY <1>1, <2>1 DEF Get, GetMiss, GetHit
    <3>2. k \in index /\ lru[Position(k)].expires - now <= 0 /\ index' = index \ {lru[Position(k)].key}
      BY <3>1 DEF GetExpired, Remove
    <3>3. v = k /\ lru[Position(k)] \in Entries
      BY <1>1, <2>0, <3>2, PositionProperties
    <3>4. lru[Position(k)].expires \in Int /\ now \in Nat
      BY <2>0, <3>3 DEF Entries, TypeOK
    <3> QED BY <3>2, <3>3, <3>4
  <2>2. ASSUME NEW k \in Keys, NEW m \in Msgs, NEW max \in CfgMaxTTLs,
               Put(k, m, TTLFromMsg(m, max))
        PROVE  Ok(v)
    <3>1. PutNew(k, m, TTLFromMsg(m, max))
      BY <1>1, <2>2 DEF Put, PutSkip, PutExisting
    <3>2. /\ k \notin index
          /\ index' = (index \ { lru[i].key : i \in Kept + 1 .. Len(lru) }) \cup {k}
          /\ Use(k)
      BY <3>1 DEF PutNew
    <3>3. v # k /\ v \in { lru[i].key : i \in Kept + 1 .. Len(lru) }
      BY <1>1, <3>2
    <3>4. Len(lru) \in Nat /\ DOMAIN lru = 1 .. Len(lru) /\ Kept = Len(lru) - 1
             /\ v = lru[Len(lru)].key
      BY <1>1, <2>0, <3>3, EvictedIsTail, LenProperties DEF TypeOK
    <3>5. /\ \A x \in Keys : x # k => <<k, x>> \in newer'
          /\ \A x, y \in Keys : y # k /\ <<x, y>> \in newer => <<x, y>> \in newer'
      BY <2>0, <3>2, UseProperties DEF TypeOK
    <3>6. ASSUME NEW w \in index', w # k PROVE <<w, v>> \in newer'
      <4>1. w \in index /\ w # v /\ w \in Keys
        BY <2>0, <3>2, <3>3, <3>6 DEF TypeOK
      <4>2. PICK j \in DOMAIN lru : lru[j].key = w
        BY <2>0, <4>1 DEF IndexMatchesList
      <4>3. j < Len(lru) /\ Len(lru) \in DOMAIN lru
        BY <3>4, <4>1, <4>2
      <4>4. <<w, v>> \in newer
        BY <2>0, <3>4, <4>2, <4>3 DEF LRUOrder
      <4> QED BY <2>0, <3>3, <3>5, <4>1, <4>4
    <3> QED BY <2>0, <3>3, <3>5, <3>6
  <2>3. CASE Flush
    BY <2>3 DEF Flush
  <2>4. CASE Tick \/ UNCHANGED vars
    BY <1>1, <2>4 DEF Tick, vars
  <2> QED BY <1>1, <2>1, <2>2, <2>3, <2>4 DEF Next, Store
<1>2. IInv /\ [Next]_vars => [\A v \in index \ index' : Ok(v)]_vars
  BY <1>1
<1> QED BY <1>2, InvariantIInv, PTL DEF Spec, EvictsLeastRecent
-----------------------------------------------------------------------------
(* The detailed cache implements LossyCache: every one of its steps is a   *)
(* step of the abstract cache on the map it represents.                    *)

\* The map the list and the index represent.
View == [k \in index |-> lru[Position(k)].msg]

LEMMA ViewOfEntry ==
    IInv => /\ \A i \in DOMAIN lru : lru[i].key \in index /\ View[lru[i].key] = lru[i].msg
            /\ \A k \in index : \E i \in DOMAIN lru : lru[i].key = k
<1> SUFFICES ASSUME IInv
             PROVE  /\ \A i \in DOMAIN lru :
                          lru[i].key \in index /\ View[lru[i].key] = lru[i].msg
                    /\ \A k \in index : \E i \in DOMAIN lru : lru[i].key = k
  OBVIOUS
<1>1. TypeOK /\ IndexMatchesList
  BY DEF IInv
<1>2. ASSUME NEW i \in DOMAIN lru
      PROVE  lru[i].key \in index /\ View[lru[i].key] = lru[i].msg
  <2>1. lru[i].key \in index
    BY <1>1 DEF IndexMatchesList
  <2>2. i = Position(lru[i].key)
    BY <1>1, <2>1, PositionProperties, LenProperties DEF TypeOK
  <2> QED BY <2>1, <2>2 DEF View
<1>3. \A k \in index : \E i \in DOMAIN lru : lru[i].key = k
  BY <1>1 DEF IndexMatchesList
<1> QED BY <1>2, <1>3

LEMMA ViewOfEntryNext ==
    IInv' => /\ \A i \in DOMAIN lru' :
                   lru'[i].key \in index' /\ View'[lru'[i].key] = lru'[i].msg
             /\ \A k \in index' : \E i \in DOMAIN lru' : lru'[i].key = k
<1>1. (IInv => /\ \A i \in DOMAIN lru : lru[i].key \in index /\ View[lru[i].key] = lru[i].msg
               /\ \A k \in index : \E i \in DOMAIN lru : lru[i].key = k)'
  BY ViewOfEntry, PTL
<1> QED BY <1>1

\* A key keeps its message as long as its new entry is one of the old ones.
LEMMA SameMessage ==
    ASSUME IInv, IInv', NEW x \in index',
           \A j \in DOMAIN lru' : lru'[j].key = x => \E i \in DOMAIN lru : lru'[j] = lru[i]
    PROVE  View'[x] = View[x]
<1>1. PICK j \in DOMAIN lru' : lru'[j].key = x /\ View'[x] = lru'[j].msg
  BY ViewOfEntryNext
<1>2. PICK i \in DOMAIN lru : lru'[j] = lru[i]
  BY <1>1
<1>3. View[lru[i].key] = lru[i].msg
  BY ViewOfEntry
<1> QED BY <1>1, <1>2, <1>3

\* ... which holds for every key but the one a Put writes.
LEMMA MovedMessages ==
    ASSUME IInv, IInv', NEW k \in index, NEW e \in Entries, e.key = k,
           lru' = PushFront(e, Without(lru, Position(k))),
           index' = index, Use(k)
    PROVE  View' = [x \in index |-> IF x = k THEN e.msg ELSE View[x]]
<1>1. /\ lru' \in Seq(Entries)
      /\ lru'[1] = e
      /\ \A j \in DOMAIN lru' : j # 1 =>
            \E i \in DOMAIN lru : lru'[j] = lru[i] /\ lru[i].key # k
  BY MovedOrder
<1>2. 1 \in DOMAIN lru'
  <2>1. PICK j \in DOMAIN lru' : lru'[j].key = k
    BY ViewOfEntryNext
  <2> QED BY <1>1, <2>1
<1>3. View'[k] = e.msg
  BY <1>1, <1>2, ViewOfEntryNext
<1>4. ASSUME NEW x \in index, x # k PROVE View'[x] = View[x]
  <2>1. \A j \in DOMAIN lru' : lru'[j].key = x => \E i \in DOMAIN lru : lru'[j] = lru[i]
    BY <1>1, <1>4
  <2> QED BY <2>1, SameMessage
<1> QED BY <1>3, <1>4 DEF View

LEMMA InsertedMessages ==
    ASSUME IInv, IInv', NEW k \in Keys, NEW m \in Msgs, NEW max \in CfgMaxTTLs,
           PutNew(k, m, TTLFromMsg(m, max))
    PROVE  View' = [x \in index' |-> IF x = k THEN m ELSE View[x]]
<1> DEFINE e == Fresh(k, m, TTLFromMsg(m, max))
<1>1. TypeOK /\ IndexMatchesList /\ TTLFromMsg(m, max) > 0
  BY DEF IInv, PutNew
<1>2. e \in Entries /\ e.key = k /\ e.msg = m
  BY <1>1, FreshProperties
<1>3. /\ lru' = PushFront(e, SubSeq(lru, 1, Kept))
      /\ k \in index'
  BY DEF PutNew
<1> HIDE DEF e
<1>4. /\ DOMAIN lru' = 1 .. Kept + 1
      /\ lru'[1] = e
      /\ \A j \in 2 .. Kept + 1 : lru'[j] = lru[j - 1]
  BY <1>1, <1>2, <1>3, InsertedProperties
<1>5. Kept \in Nat /\ Kept <= Len(lru)
  BY <1>1, KeptProperties
<1>6. Len(lru) \in Nat /\ DOMAIN lru = 1 .. Len(lru)
  BY <1>1, LenProperties DEF TypeOK
<1>7. View'[k] = m
  <2>1. 1 \in DOMAIN lru'
    BY <1>4, <1>5
  <2> QED BY <1>2, <1>4, <2>1, ViewOfEntryNext
<1>8. ASSUME NEW x \in index', x # k PROVE View'[x] = View[x]
  <2>1. ASSUME NEW j \in DOMAIN lru', lru'[j].key = x
        PROVE  \E i \in DOMAIN lru : lru'[j] = lru[i]
    <3>1. j # 1
      BY <1>2, <1>4, <1>8, <2>1
    <3>2. j \in 2 .. Kept + 1 /\ j - 1 \in 1 .. Kept
      BY <1>4, <1>5, <3>1
    <3>3. 1 .. Kept \subseteq 1 .. Len(lru)
      BY <1>5, <1>6
    <3>4. j - 1 \in DOMAIN lru
      BY <1>6, <3>2, <3>3
    <3> QED BY <1>4, <3>2, <3>4
  <2> QED BY <2>1, SameMessage
<1> QED BY <1>7, <1>8 DEF View

-----------------------------------------------------------------------------
(* Steps map to steps                                                      *)

\* Each entry has one key, so the index counts the entries.
LEMMA IndexCardinality ==
    ASSUME IInv
    PROVE  Cardinality(index) = Len(lru)
<1>1. TypeOK /\ IndexMatchesList
  BY DEF IInv
<1>2. Len(lru) \in Nat /\ DOMAIN lru = 1 .. Len(lru)
  BY <1>1, LenProperties DEF TypeOK
<1> DEFINE f == [i \in 1 .. Len(lru) |-> lru[i].key]
<1>3. f \in Bijection(1 .. Len(lru), index)
  <2>1. f \in [1 .. Len(lru) -> index]
    BY <1>1, <1>2 DEF IndexMatchesList
  <2>2. \A x \in index : \E i \in 1 .. Len(lru) : f[i] = x
    BY <1>1, <1>2 DEF IndexMatchesList
  <2>3. \A i, j \in 1 .. Len(lru) : f[i] = f[j] => i = j
    BY <1>1, <1>2 DEF IndexMatchesList
  <2> QED BY <2>1, <2>2, <2>3 DEF Bijection, Injection, IsInjective, Surjection
<1>4. ExistsBijection(1 .. Len(lru), index)
  BY <1>3 DEF ExistsBijection
<1>5. IsFiniteSet(1 .. Len(lru)) /\ Cardinality(1 .. Len(lru)) = Len(lru)
  <2>1. /\ IsFiniteSet(1 .. Len(lru))
        /\ Cardinality(1 .. Len(lru)) = IF 1 > Len(lru) THEN 0 ELSE Len(lru) - 1 + 1
    BY <1>2, FS_Interval
  <2> QED BY <1>2, <2>1
<1> QED BY <1>4, <1>5, FS_Bijection

\* The abstract module counts with the same operator.
LEMMA SameCardinality == \A S : Abstract!Cardinality(S) = Cardinality(S)
  BY Zenon DEF Abstract!Cardinality, Cardinality

Got == { r.msg : r \in reply }

LEMMA GetImplements ==
    ASSUME IInv, IInv', NEW k \in Keys, Get(k)
    PROVE  Abstract!Get(k)
<1>1. CASE GetMiss(k)
  <2>1. index' = index /\ View' = View /\ Got' = {} /\ k \notin index
    BY <1>1 DEF GetMiss, View, Got, Position
  <2>2. View' = [x \in DOMAIN View \ {k} |-> View[x]]
    BY <2>1 DEF View
  <2> QED BY <2>1, <2>2 DEF Abstract!Get, Abstract!Forget, View, Got
<1>2. CASE GetExpired(k)
  <2> DEFINE p == Position(k)
  <2>1. TypeOK /\ IndexMatchesList /\ k \in index /\ p \in 1 .. Len(lru) /\ lru[p].key = k
    BY <1>2, PositionProperties DEF IInv, GetExpired
  <2>2. lru' = Without(lru, p) /\ index' = index \ {k} /\ Got' = {}
    BY <1>2, <2>1 DEF GetExpired, Remove, Got
  <2>3. lru \in Seq(Entries) /\ Len(lru) \in Nat /\ DOMAIN lru = 1 .. Len(lru)
    BY <2>1, LenProperties DEF TypeOK
  <2> HIDE DEF p
  <2>4. /\ DOMAIN lru' = 1 .. Len(lru) - 1
        /\ \A j \in 1 .. Len(lru) - 1 : lru'[j] = IF j < p THEN lru[j] ELSE lru[j + 1]
    BY <2>1, <2>2, <2>3, WithoutProperties
  <2>5. \A j \in DOMAIN lru' : \E i \in DOMAIN lru : lru'[j] = lru[i]
    BY <2>3, <2>4
  <2>6. \A x \in index' : View'[x] = View[x]
    BY <2>5, SameMessage
  <2>7. View' = [x \in DOMAIN View \ {k} |-> View[x]]
    BY <2>2, <2>6 DEF View
  <2> QED BY <2>2, <2>7 DEF Abstract!Get, Abstract!Forget, View, Got
<1>3. CASE GetHit(k)
  <2> DEFINE e == lru[Position(k)]
  <2>1. TypeOK /\ IndexMatchesList /\ k \in index /\ e \in Entries /\ e.key = k
    BY <1>3, PositionProperties DEF IInv, GetHit
  <2>2. /\ lru' = PushFront(e, Without(lru, Position(k)))
        /\ index' = index
        /\ Use(k)
        /\ Got' = {e.msg}
    BY <1>3 DEF GetHit, Got
  <2>3. View' = [x \in index |-> IF x = k THEN e.msg ELSE View[x]]
    BY <2>1, <2>2, MovedMessages
  <2>4. View[k] = e.msg /\ View' = View
    BY <2>1, <2>3 DEF View
  <2> QED BY <2>1, <2>2, <2>4 DEF Abstract!Get, View, Got
<1> QED BY <1>1, <1>2, <1>3 DEF Get

LEMMA PutImplements ==
    ASSUME IInv, IInv', NEW k \in Keys, NEW m \in Msgs, NEW max \in CfgMaxTTLs,
           Put(k, m, TTLFromMsg(m, max))
    PROVE  Abstract!Put(k, m) \/ Abstract!Quiet
<1> DEFINE ttl == TTLFromMsg(m, max)
<1>1. Got' = {}
  BY DEF Put, Got
<1>2. CASE PutSkip(ttl)
  <2>1. View' = View
    BY <1>2 DEF PutSkip, View, Position
  <2> QED BY <1>1, <2>1 DEF Abstract!Quiet, View, Got
<1>3. CASE PutExisting(k, m, ttl)
  <2> DEFINE e == Fresh(k, m, ttl)
  <2>1. TypeOK /\ k \in index /\ ttl > 0
    BY <1>3 DEF IInv, PutExisting
  <2>2. e \in Entries /\ e.key = k /\ e.msg = m
    BY <2>1, FreshProperties
  <2>3. /\ lru' = PushFront(e, Without(lru, Position(k)))
        /\ index' = index
        /\ Use(k)
    BY <1>3 DEF PutExisting
  <2> HIDE DEF e
  <2>4. View' = [x \in index |-> IF x = k THEN m ELSE View[x]]
    BY <2>1, <2>2, <2>3, MovedMessages
  <2>5. View' = [x \in (DOMAIN View \ {}) \cup {k} |-> IF x = k THEN m ELSE View[x]]
    BY <2>1, <2>4 DEF View
  <2> QED BY <1>1, <2>5 DEF Abstract!Put, View, Got
<1>4. CASE PutNew(k, m, ttl)
  <2> DEFINE lost == { lru[i].key : i \in Kept + 1 .. Len(lru) }
  <2>1. k \notin index /\ index' = (index \ lost) \cup {k}
    BY <1>4 DEF PutNew
  <2>2. View' = [x \in (DOMAIN View \ lost) \cup {k} |-> IF x = k THEN m ELSE View[x]]
    <3>1. View' = [x \in index' |-> IF x = k THEN m ELSE View[x]]
      BY <1>4, InsertedMessages
    <3> QED BY <2>1, <3>1 DEF View
  <2>3. \A v \in lost : /\ Len(lru) = MaxEntries
                        /\ v = lru[Len(lru)].key
                        /\ v \in index
    BY EvictedIsTail
  <2> HIDE DEF lost
  <2>4. lost \in SUBSET (DOMAIN View \ {k})
    BY <2>1, <2>3 DEF View
  <2>5. lost # {} => /\ k \notin DOMAIN View
                     /\ Abstract!Cardinality(DOMAIN View) = MaxEntries
                     /\ \E x \in lost : lost = {x}
    <3> SUFFICES ASSUME lost # {}
                 PROVE  /\ Abstract!Cardinality(DOMAIN View) = MaxEntries
                        /\ \E x \in lost : lost = {x}
      BY <2>1 DEF View
    <3>1. Len(lru) = MaxEntries /\ \E x \in lost : lost = {x}
      BY <2>3
    <3> QED BY <3>1, IndexCardinality, SameCardinality DEF View
  <2> QED BY <1>1, <2>2, <2>4, <2>5 DEF Abstract!Put, View, Got
<1> QED BY <1>2, <1>3, <1>4 DEF Put

LEMMA StepImplements == IInv /\ IInv' /\ [Next]_vars => [Abstract!Next]_(Abstract!vars)
<1> SUFFICES ASSUME IInv, IInv', [Next]_vars
             PROVE  Abstract!Next \/ UNCHANGED Abstract!vars
  OBVIOUS
<1>1. ASSUME NEW k \in Keys, Get(k) PROVE Abstract!Next
  BY <1>1, GetImplements DEF Abstract!Next
<1>2. ASSUME NEW k \in Keys, NEW m \in Msgs, NEW max \in CfgMaxTTLs,
             Put(k, m, TTLFromMsg(m, max))
      PROVE  Abstract!Next
  BY <1>2, PutImplements DEF Abstract!Next
<1>3. CASE Flush
  <2>1. View' = [k \in {} |-> {}] /\ Got' = {}
    BY <1>3 DEF Flush, View, Got
  <2> QED BY <2>1 DEF Abstract!Next, Abstract!Flush, View, Got
<1>4. CASE Tick
  <2>1. View' = View /\ Got' = {}
    BY <1>4 DEF Tick, View, Got, Position
  <2> QED BY <2>1 DEF Abstract!Next, Abstract!Quiet, View, Got
<1>5. CASE UNCHANGED vars
  <2>1. View' = View /\ Got' = Got
    BY <1>5 DEF vars, View, Got, Position
  <2> QED BY <2>1 DEF Abstract!vars, View, Got
<1> QED BY <1>1, <1>2, <1>3, <1>4, <1>5 DEF Next, Store

\* The cache behaves as a bounded map that forgets only expired entries, the
\* least recently used one of a full cache, or everything at a flush; what a hit
\* returns is what the latest Put of that key stored.
THEOREM CacheImplementsLossyCache == Spec => ImplementsLossyCache
<1>1. Init => Abstract!Init
  <2> SUFFICES ASSUME Init PROVE Abstract!Init
    OBVIOUS
  <2>1. View = [k \in {} |-> {}] /\ Got = {}
    BY DEF Init, View, Got
  <2> QED BY <2>1 DEF Abstract!Init, View, Got
<1> QED BY <1>1, StepImplements, InvariantIInv, PTL
        DEF Spec, ImplementsLossyCache, Abstract!Spec
=============================================================================
