---------------------------- MODULE OperatorProofs ----------------------------
(***************************************************************************)
(* Theorems of the pure operators: Matcher finds the patterns that cover a *)
(* name, and Filter sorts and drops addresses and records as it promises,  *)
(* for lists of any length.                                                *)
(***************************************************************************)
EXTENDS Matcher, Filter, FiniteSetTheorems, FunctionTheorems, TLAPS

-----------------------------------------------------------------------------
(* Matcher                                                                 *)

\* What is left of a name, label by label.
LEMMA LeftOf ==
    ASSUME NEW L, NEW name \in Seq(L), NEW i \in 1 .. Len(name)
    PROVE  /\ From(name, i) \in Seq(L)
           /\ Len(From(name, i)) = Len(name) - i + 1
           /\ \A j \in 1 .. Len(name) - i + 1 : From(name, i)[j] = name[i + j - 1]
BY DEF From

\* A prefix of two reversed names, label by label.
LEMMA SuffixByLabel ==
    ASSUME NEW L, NEW s \in Seq(L), NEW name \in Seq(L)
    PROVE  IsSuffix(s, name) <=>
              /\ Len(s) <= Len(name)
              /\ \A j \in 1 .. Len(s) : s[Len(s) - j + 1] = name[Len(name) - j + 1]
<1> DEFINE r == Reverse(s)
           t == Reverse(name)
<1>1. /\ r \in Seq(L) /\ Len(r) = Len(s)
      /\ t \in Seq(L) /\ Len(t) = Len(name)
      /\ \A j \in 1 .. Len(s) : r[j] = s[Len(s) - j + 1]
      /\ \A j \in 1 .. Len(name) : t[j] = name[Len(name) - j + 1]
  BY DEF Reverse
<1> HIDE DEF r, t
<1>2. ASSUME Len(s) <= Len(name)
      PROVE  SubSeq(r, 1, Len(r)) = SubSeq(t, 1, Len(r)) <=> \A j \in 1 .. Len(s) : r[j] = t[j]
  <2>1. Len(s) \in Nat /\ Len(name) \in Nat
    OBVIOUS
  <2>2. /\ SubSeq(r, 1, Len(r)) = [j \in 1 .. Len(s) |-> r[j]]
        /\ SubSeq(t, 1, Len(r)) = [j \in 1 .. Len(s) |-> t[j]]
    BY <1>1, <1>2, <2>1
  <2> QED BY <2>2
<1>3. IsSuffix(s, name) <=>
          Len(s) <= Len(name) /\ SubSeq(r, 1, Len(r)) = SubSeq(t, 1, Len(r))
  BY <1>1 DEF IsSuffix, IsPrefix, r, t
<1>4. ASSUME Len(s) <= Len(name)
      PROVE  \A j \in 1 .. Len(s) : j \in 1 .. Len(name)
  BY <1>4
<1> QED BY <1>1, <1>2, <1>3, <1>4

\* A name ends with another when something is left of it that equals the other.
LEMMA SuffixIsLeft ==
    ASSUME NEW L, NEW s \in Seq(L), NEW name \in Seq(L), s # <<>>
    PROVE  IsSuffix(s, name) <=> \E i \in 1 .. Len(name) : From(name, i) = s
<1>1. Len(s) \in Nat /\ Len(s) # 0 /\ Len(name) \in Nat
  OBVIOUS
<1>2. ASSUME IsSuffix(s, name) PROVE \E i \in 1 .. Len(name) : From(name, i) = s
  <2> DEFINE i == Len(name) - Len(s) + 1
  <2>1. /\ Len(s) <= Len(name)
        /\ \A j \in 1 .. Len(s) : s[Len(s) - j + 1] = name[Len(name) - j + 1]
    BY <1>2, SuffixByLabel
  <2>2. i \in 1 .. Len(name) /\ Len(name) - i + 1 = Len(s)
    BY <1>1, <2>1
  <2>3. \A j \in 1 .. Len(s) : s[j] = name[i + j - 1]
    <3> TAKE j \in 1 .. Len(s)
    <3>1. /\ Len(s) - j + 1 \in 1 .. Len(s) /\ Len(s) - (Len(s) - j + 1) + 1 = j
          /\ Len(name) - (Len(s) - j + 1) + 1 = i + j - 1
      BY <1>1, <2>1
    <3> QED BY <2>1, <3>1
  <2> HIDE DEF i
  <2>4. /\ From(name, i) \in Seq(L) /\ Len(From(name, i)) = Len(s)
        /\ \A j \in 1 .. Len(s) : From(name, i)[j] = s[j]
    BY <2>2, <2>3, LeftOf
  <2>5. From(name, i) = s
    BY <2>4
  <2> QED BY <2>2, <2>5
<1>3. ASSUME NEW i \in 1 .. Len(name), From(name, i) = s PROVE IsSuffix(s, name)
  <2>1. /\ Len(s) = Len(name) - i + 1
        /\ \A j \in 1 .. Len(name) - i + 1 : s[j] = name[i + j - 1]
    BY <1>3, LeftOf
  <2>2. \A j \in 1 .. Len(s) : s[Len(s) - j + 1] = name[Len(name) - j + 1]
    <3> TAKE j \in 1 .. Len(s)
    <3>1. /\ Len(s) - j + 1 \in 1 .. Len(name) - i + 1
          /\ i + (Len(s) - j + 1) - 1 = Len(name) - j + 1
      BY <1>1, <2>1
    <3> QED BY <2>1, <3>1
  <2>3. Len(s) <= Len(name)
    BY <1>1, <2>1
  <2> QED BY <2>2, <2>3, SuffixByLabel
<1> QED BY <1>2, <1>3

\* Cutting nothing off leaves the name, and cutting labels off does not.
LEMMA LeftOfAll ==
    ASSUME NEW L, NEW name \in Seq(L), name # <<>>
    PROVE  \A i \in 1 .. Len(name) : From(name, i) = name <=> i = 1
<1>1. Len(name) \in Nat
  OBVIOUS
<1>2. From(name, 1) = name
  BY DEF From
<1>3. ASSUME NEW i \in 1 .. Len(name), From(name, i) = name PROVE i = 1
  <2>1. Len(name) = Len(name) - i + 1
    BY <1>3, LeftOf
  <2> QED BY <1>1, <2>1
<1> QED BY <1>2, <1>3

\* Of which patterns the parts of a matcher come.
LEMMA ResetParts ==
    ASSUME NEW m, NEW ps, Valid(ps)
    PROVE  /\ \A x : x \in Reset(m, ps).roots <=> \E p \in ps : p.kind = "plain" /\ p.name = x
           /\ \A x : x \in Reset(m, ps).wildcard <=> \E p \in ps : p.kind = "wildcard" /\ p.name = x
           /\ Reset(m, ps).matchAll <=> \E p \in ps : p.kind = "all"
<1>1. Named(ps, "invalid") = {}
  BY DEF Valid, Named
<1>2. Reset(m, ps) = [roots |-> Named(ps, "plain"), wildcard |-> Named(ps, "wildcard"),
                      matchAll |-> Named(ps, "all") # {}]
  BY <1>1 DEF Reset
<1>3. \A kind, x : x \in Named(ps, kind) <=> \E p \in ps : p.kind = kind /\ p.name = x
  BY DEF Named
<1>4. /\ Reset(m, ps).roots = Named(ps, "plain")
      /\ Reset(m, ps).wildcard = Named(ps, "wildcard")
  BY <1>2
<1>a. Reset(m, ps).matchAll = (Named(ps, "all") # {})
  BY <1>2
<1>5. Named(ps, "all") # {} <=> \E p \in ps : p.kind = "all"
  BY <1>3
<1>6. Reset(m, ps).matchAll <=> \E p \in ps : p.kind = "all"
  BY <1>5, <1>a, Zenon
<1>7. /\ \A x : x \in Reset(m, ps).roots <=> \E p \in ps : p.kind = "plain" /\ p.name = x
      /\ \A x : x \in Reset(m, ps).wildcard <=> \E p \in ps : p.kind = "wildcard" /\ p.name = x
  BY <1>3, <1>4
<1> QED BY <1>6, <1>7, Zenon

\* The comment of the package: after a successful Reset, whatever the matcher was
\* before, a name is matched exactly when one of the patterns covers it, for
\* lists of patterns and names of any length; the root is never matched.
THEOREM MatchesWhatIsCovered ==
    ASSUME NEW Labels, NEW m, NEW ps, Valid(ps),
           \A p \in ps : p.kind \in Kinds /\ p.name \in Seq(Labels),
           NEW name \in Seq(Labels)
    PROVE  Match(Reset(m, ps), name) <=> name # <<>> /\ \E p \in ps : Covers(p, name)
<1> DEFINE r == Reset(m, ps)
<1>1. CASE name = <<>>
  BY <1>1 DEF Match
<1>2. CASE name # <<>>
  <2>1. Len(name) \in Nat /\ Len(name) # 0 /\ 1 \in 1 .. Len(name)
    BY <1>2
  <2>2. /\ \A x : x \in r.roots <=> \E p \in ps : p.kind = "plain" /\ p.name = x
        /\ \A x : x \in r.wildcard <=> \E p \in ps : p.kind = "wildcard" /\ p.name = x
        /\ r.matchAll <=> \E p \in ps : p.kind = "all"
    BY ResetParts
  <2> HIDE DEF r
  <2>3. \A i \in 1 .. Len(name) : From(name, i) # <<>> /\ (From(name, i) = name <=> i = 1)
    <3>1. \A i \in 1 .. Len(name) : From(name, i) \in Seq(Labels) /\ Len(From(name, i)) # 0
      BY <2>1, LeftOf
    <3> QED BY <1>2, <3>1, LeftOfAll
  <2>4. \A p \in ps : p.kind = "plain" =>
            (Covers(p, name) <=> \E i \in 1 .. Len(name) : From(name, i) = p.name)
    BY <2>3, SuffixIsLeft DEF Covers
  <2>5. \A p \in ps : p.kind = "wildcard" =>
            (Covers(p, name) <=> \E i \in 2 .. Len(name) : From(name, i) = p.name)
    <3> SUFFICES ASSUME NEW p \in ps, p.kind = "wildcard"
                 PROVE  Covers(p, name) <=> \E i \in 2 .. Len(name) : From(name, i) = p.name
      OBVIOUS
    <3>1. Covers(p, name) <=> /\ p.name # <<>> /\ p.name # name
                              /\ \E i \in 1 .. Len(name) : From(name, i) = p.name
      BY SuffixIsLeft DEF Covers, IsStrictSuffix
    <3>2. \A i : i \in 2 .. Len(name) <=> i \in 1 .. Len(name) /\ i # 1
      BY <2>1
    <3> QED BY <2>3, <3>1, <3>2
  <2>6. \A p \in ps : p.kind = "all" => Covers(p, name)
    BY DEF Covers
  <2>7. \A i : i \in 1 .. Len(name) <=> i = 1 \/ i \in 2 .. Len(name)
    BY <2>1
  <2>8. name \in r.roots \/ (\E i \in 2 .. Len(name) : From(name, i) \in r.roots)
            <=> \E p \in ps : p.kind = "plain" /\ Covers(p, name)
    BY <2>1, <2>2, <2>3, <2>4, <2>7
  <2>9. (\E i \in 2 .. Len(name) : From(name, i) \in r.wildcard)
            <=> \E p \in ps : p.kind = "wildcard" /\ Covers(p, name)
    BY <2>2, <2>5
  <2>10. \A p \in ps : p.kind \in {"plain", "wildcard", "all"}
    BY DEF Valid, Kinds
  <2>11. Match(r, name) <=>
            \/ r.matchAll
            \/ name \in r.roots \/ \E i \in 2 .. Len(name) : From(name, i) \in r.roots
            \/ \E i \in 2 .. Len(name) : From(name, i) \in r.wildcard
    BY <1>2 DEF Match
  <2> QED BY <1>2, <2>2, <2>6, <2>8, <2>9, <2>10, <2>11 DEF r
<1> QED BY <1>1, <1>2

-----------------------------------------------------------------------------
(* Putting positions in order                                              *)

\* A strict total order of S.
Strict(S, R) ==
    /\ \A x \in S : <<x, x>> \notin R
    /\ \A x, y \in S : x = y \/ <<x, y>> \in R \/ <<y, x>> \in R
    /\ \A x, y, z \in S : <<x, y>> \in R /\ <<y, z>> \in R => <<x, z>> \in R

\* A finite set can be put in such an order: each element has its rank.
LEMMA OrderExists ==
    ASSUME NEW S, NEW R, IsFiniteSet(S), Strict(S, R)
    PROVE  \E f \in [1 .. Cardinality(S) -> S] :
              \A j, k \in DOMAIN f : j < k => <<f[j], f[k]>> \in R
<1> DEFINE n == Cardinality(S)
           Below(x) == { y \in S : <<y, x>> \in R }
           rank == [x \in S |-> Cardinality(Below(x)) + 1]
<1>1. n \in Nat /\ IsFiniteSet(1 .. n) /\ Cardinality(1 .. n) = n
  BY FS_CardinalityType, FS_Interval
<1>2. \A x \in S : IsFiniteSet(Below(x)) /\ Cardinality(Below(x)) \in Nat
  BY FS_Subset, FS_CardinalityType
<1>3. ASSUME NEW x \in S PROVE rank[x] \in 1 .. n
  <2>1. Below(x) \subseteq S \ {x}
    BY DEF Strict
  <2>2. IsFiniteSet(S \ {x}) /\ Cardinality(S \ {x}) = n - 1
    BY FS_RemoveElement
  <2>3. Cardinality(Below(x)) <= n - 1
    <3>1. Below(x) \in SUBSET (S \ {x})
      BY <2>1
    <3> HIDE DEF Below
    <3>2. Cardinality(Below(x)) <= Cardinality(S \ {x})
      BY <2>2, <3>1, FS_Subset
    <3> QED BY <2>2, <3>2
  <2>4. rank[x] = Cardinality(Below(x)) + 1
    OBVIOUS
  <2> HIDE DEF rank, Below, n
  <2> QED BY <1>1, <1>2, <2>3, <2>4
<1>4. ASSUME NEW x \in S, NEW y \in S, <<x, y>> \in R PROVE rank[x] < rank[y]
  <2>1. Below(x) \subseteq Below(y) /\ x \in Below(y) /\ x \notin Below(x)
    BY <1>4 DEF Strict
  <2>2. /\ Cardinality(Below(x)) <= Cardinality(Below(y))
        /\ Cardinality(Below(x)) # Cardinality(Below(y))
    BY <1>2, <2>1, FS_Subset
  <2> QED BY <1>2, <2>2
<1>5. rank \in [S -> 1 .. n]
  BY <1>3
<1>a. \A x \in S : rank[x] \in Int
  BY <1>1, <1>3
<1> HIDE DEF rank
<1>6. \A x, y \in S : rank[x] = rank[y] => x = y
  <2> SUFFICES ASSUME NEW x \in S, NEW y \in S, rank[x] = rank[y], x # y PROVE FALSE
    OBVIOUS
  <2>1. rank[x] < rank[y] \/ rank[y] < rank[x]
    BY <1>4 DEF Strict
  <2> QED BY <1>a, <2>1
<1>7. rank \in Injection(S, 1 .. n)
  BY <1>5, <1>6, Fun_IsInj
<1>8. rank \in Surjection(S, 1 .. n)
  BY <1>1, <1>7, FS_Injection
<1>9. \A k \in 1 .. n : \E x \in S : rank[x] = k
  BY <1>8, Fun_SurjectionProperties
<1> DEFINE f == [k \in 1 .. n |-> CHOOSE x \in S : rank[x] = k]
<1>10. \A k \in 1 .. n : f[k] \in S /\ rank[f[k]] = k
  BY <1>9
<1>11. f \in [1 .. n -> S]
  BY <1>10
<1> HIDE DEF f, n
<1>12. \A j, k \in 1 .. n : j < k => <<f[j], f[k]>> \in R
  <2> SUFFICES ASSUME NEW j \in 1 .. n, NEW k \in 1 .. n, j < k PROVE <<f[j], f[k]>> \in R
    OBVIOUS
  <2>1. f[j] # f[k]
    BY <1>10
  <2>2. <<f[k], f[j]>> \notin R
    <3>1. ASSUME <<f[k], f[j]>> \in R PROVE FALSE
      <4>1. rank[f[k]] < rank[f[j]]
        BY <1>4, <1>10, <3>1
      <4> QED BY <1>1, <1>10, <4>1
    <3> QED BY <3>1
  <2> QED BY <1>10, <2>1, <2>2 DEF Strict
<1> QED BY <1>11, <1>12 DEF n

\* What InOrder makes of it.
LEMMA InOrderLists ==
    ASSUME NEW S, NEW R, IsFiniteSet(S), Strict(S, R)
    PROVE  /\ Cardinality(S) \in Nat
           /\ InOrder(S, R) \in Bijection(1 .. Cardinality(S), S)
           /\ \A j, k \in 1 .. Cardinality(S) :
                 j < k => <<InOrder(S, R)[j], InOrder(S, R)[k]>> \in R
<1> DEFINE n == Cardinality(S)
           f == InOrder(S, R)
<1>1. n \in Nat /\ IsFiniteSet(1 .. n) /\ Cardinality(1 .. n) = n
  BY FS_CardinalityType, FS_Interval
<1>2. f \in [1 .. n -> S] /\ \A j, k \in DOMAIN f : j < k => <<f[j], f[k]>> \in R
  BY OrderExists DEF InOrder
<1> HIDE DEF n, f
<1>3. \A j, k \in 1 .. n : f[j] = f[k] => j = k
  <2> SUFFICES ASSUME NEW j \in 1 .. n, NEW k \in 1 .. n, f[j] = f[k], j # k PROVE FALSE
    OBVIOUS
  <2>1. j < k \/ k < j
    BY <1>1
  <2>2. f[j] \in S /\ <<f[j], f[j]>> \in R
    BY <1>2, <2>1
  <2> QED BY <2>2 DEF Strict
<1>4. f \in Injection(1 .. n, S)
  BY <1>2, <1>3, Fun_IsInj
<1>5. f \in Surjection(1 .. n, S)
  BY <1>1, <1>4, FS_Injection DEF n
<1> QED BY <1>1, <1>2, <1>4, <1>5, Fun_IsBij DEF n, f

\* Positions in ascending order.
LEMMA AscendingLists ==
    ASSUME NEW n \in Nat, NEW S, S \subseteq 1 .. n
    PROVE  /\ Cardinality(S) \in Nat
           /\ Ascending(S) \in Bijection(1 .. Cardinality(S), S)
           /\ \A j, k \in 1 .. Cardinality(S) : j < k => Ascending(S)[j] < Ascending(S)[k]
<1> DEFINE R == { p \in S \X S : p[1] < p[2] }
<1>1. IsFiniteSet(S)
  <2>1. IsFiniteSet(1 .. n) /\ S \in SUBSET (1 .. n)
    BY FS_Interval
  <2> QED BY <2>1, FS_Subset
<1>2. \A x, y : <<x, y>> \in R <=> x \in S /\ y \in S /\ x < y
  OBVIOUS
<1> HIDE DEF R
<1>3. Strict(S, R)
  BY <1>2 DEF Strict
<1>4. Ascending(S) = InOrder(S, R)
  BY DEF Ascending, R
<1>5. /\ Cardinality(S) \in Nat
      /\ InOrder(S, R) \in Bijection(1 .. Cardinality(S), S)
      /\ \A j, k \in 1 .. Cardinality(S) :
            j < k => <<InOrder(S, R)[j], InOrder(S, R)[k]>> \in R
  BY <1>1, <1>3, InOrderLists
<1> QED BY <1>2, <1>4, <1>5

\* What Check may return.
Outcome == [reachable : BOOLEAN, latency : Int]

\* The comparison of the stable sort, over the positions.
LEMMA BeforeIsStrict ==
    ASSUME NEW n \in Nat, NEW res \in [1 .. n -> Outcome]
    PROVE  Strict(1 .. n, Before(res))
<1> DEFINE up(i) == res[i].reachable
           t(i) == res[i].latency
<1>1. \A i \in 1 .. n : up(i) \in BOOLEAN /\ t(i) \in Int
  BY DEF Outcome
<1>2. \A i, j : <<i, j>> \in Before(res) <=>
          /\ i \in 1 .. n /\ j \in 1 .. n
          /\ \/ Less(res[i], res[j])
             \/ ~Less(res[j], res[i]) /\ i < j
  BY DEF Before
<1>3. \A i, j : Less(res[i], res[j]) <=>
          (up(i) /\ ~up(j)) \/ (up(i) /\ up(j) /\ t(i) < t(j))
  BY DEF Less
<1> HIDE DEF up, t
<1>4. \A i, j \in 1 .. n : Less(res[i], res[j]) => ~Less(res[j], res[i])
  BY <1>1, <1>3
<1>5. \A i, j, k \in 1 .. n :
          Less(res[i], res[j]) => Less(res[i], res[k]) \/ Less(res[k], res[j])
  BY <1>1, <1>3
<1>6. \A i \in 1 .. n : <<i, i>> \notin Before(res)
  BY <1>2, <1>4
<1>7. \A i, j \in 1 .. n : i = j \/ <<i, j>> \in Before(res) \/ <<j, i>> \in Before(res)
  <2>1. \A i, j \in 1 .. n : i = j \/ i < j \/ j < i
    OBVIOUS
  <2> QED BY <1>2, <1>4, <2>1
<1>8. \A i, j, k \in 1 .. n : <<i, j>> \in Before(res) /\ <<j, k>> \in Before(res)
                                => <<i, k>> \in Before(res)
  BY <1>2, <1>4, <1>5
<1> QED BY <1>6, <1>7, <1>8 DEF Strict

LEMMA LimitType ==
    ASSUME NEW IP, NEW ips \in Seq(IP), NEW max \in Int
    PROVE  Limit(ips, max) \in 0 .. Len(ips) /\ (ips # <<>> => Limit(ips, max) # 0)
BY DEF Limit

\* A sequence read at given positions.
LEMMA AtType ==
    ASSUME NEW IP, NEW ips \in Seq(IP), NEW m \in Nat, NEW f \in [1 .. m -> 1 .. Len(ips)]
    PROVE  /\ At(ips, f) \in Seq(IP) /\ Len(At(ips, f)) = m
           /\ \A k \in 1 .. m : At(ips, f)[k] = ips[f[k]]
<1>1. At(ips, f) = [k \in 1 .. m |-> ips[f[k]]]
  BY DEF At
<1>2. At(ips, f) \in [1 .. m -> IP]
  BY <1>1
<1> QED BY <1>1, <1>2

\* Two sequences, joined.
LEMMA Joined ==
    ASSUME NEW T, NEW s \in Seq(T), NEW t \in Seq(T)
    PROVE  /\ s \o t \in Seq(T) /\ Len(s \o t) = Len(s) + Len(t)
           /\ \A k \in 1 .. Len(s) + Len(t) :
                 (s \o t)[k] = IF k <= Len(s) THEN s[k] ELSE t[k - Len(s)]
<1>1. s \o t \in Seq(T) /\ Len(s \o t) = Len(s) + Len(t)
  OBVIOUS
<1>2. Len(s) \in Nat /\ Len(t) \in Nat
  OBVIOUS
<1>3. ASSUME NEW k \in 1 .. Len(s) + Len(t)
      PROVE  (s \o t)[k] = IF k <= Len(s) THEN s[k] ELSE t[k - Len(s)]
  BY <1>2
<1> QED BY <1>1, <1>3

\* What a bijection is, without its names.
LEMMA OneToOne ==
    ASSUME NEW S, NEW T, NEW f
    PROVE  f \in Bijection(S, T) <=>
              /\ f \in [S -> T]
              /\ \A a, b \in S : f[a] = f[b] => a = b
              /\ \A t \in T : \E a \in S : f[a] = t
<1>1. ASSUME f \in Bijection(S, T)
      PROVE  /\ f \in [S -> T]
             /\ \A a, b \in S : f[a] = f[b] => a = b
             /\ \A t \in T : \E a \in S : f[a] = t
  BY <1>1, Fun_BijectionProperties
<1>2. ASSUME f \in [S -> T],
             \A a, b \in S : f[a] = f[b] => a = b,
             \A t \in T : \E a \in S : f[a] = t
      PROVE  f \in Bijection(S, T)
  BY <1>2, Fun_IsBij
<1> QED BY <1>1, <1>2

LEMMA SameSequence ==
    ASSUME NEW T, NEW s \in Seq(T), NEW t \in Seq(T), Len(s) = Len(t),
           \A k \in 1 .. Len(s) : s[k] = t[k]
    PROVE  s = t
OBVIOUS

\* The positions f of the first n addresses, and those of the rest.
WithRest(f, m, n, l) == [k \in 1 .. m + (l - n) |-> IF k <= m THEN f[k] ELSE n + (k - m)]

KeepsRest(ips, S, f, m, n, p) ==
    /\ p \in Bijection(1 .. m + (Len(ips) - n), S \cup (n + 1 .. Len(ips)))
    /\ At(ips, f) \o SubSeq(ips, n + 1, Len(ips)) = At(ips, p)
    /\ \A k \in 1 .. m : p[k] = f[k]
    /\ \A k \in m + 1 .. m + (Len(ips) - n) : p[k] = n + (k - m)

LEMMA RestIsKept ==
    ASSUME NEW IP, NEW ips \in Seq(IP), NEW n \in 0 .. Len(ips), NEW m \in Nat,
           NEW S, S \subseteq 1 .. n, NEW f \in Bijection(1 .. m, S)
    PROVE  KeepsRest(ips, S, f, m, n, WithRest(f, m, n, Len(ips)))
<1> DEFINE l == Len(ips)
           r == l - n
           p == WithRest(f, m, n, l)
<1>1. l \in Nat /\ n \in Nat /\ r \in Nat /\ n <= l /\ n + r = l
  OBVIOUS
<1>2. /\ f \in [1 .. m -> S]
      /\ \A j, k \in 1 .. m : f[j] = f[k] => j = k
      /\ \A i \in S : \E k \in 1 .. m : f[k] = i
  BY OneToOne
<1>3. \A i \in 1 .. m + r : p[i] = IF i <= m THEN f[i] ELSE n + (i - m)
  BY DEF WithRest
<1>4. DOMAIN p = 1 .. m + r /\ p = [i \in 1 .. m + r |-> p[i]]
  BY DEF WithRest
<1> HIDE DEF p, l, r
<1>5. \A i \in 1 .. m + r : IF i <= m THEN i \in 1 .. m /\ p[i] = f[i] /\ p[i] \in S
                            ELSE p[i] = n + (i - m) /\ p[i] \in n + 1 .. l /\ p[i] \notin S
  <2> TAKE i \in 1 .. m + r
  <2>1. CASE i <= m
    BY <1>2, <1>3, <2>1
  <2>2. CASE ~(i <= m)
    <3>1. i \in Int /\ m \in Int /\ n + (i - m) \in n + 1 .. l
      BY <1>1, <2>2
    <3>2. n + (i - m) \notin 1 .. n
      BY <1>1, <3>1
    <3> QED BY <1>3, <2>2, <3>1, <3>2
  <2> QED BY <2>1, <2>2
<1>6. p \in [1 .. m + r -> S \cup (n + 1 .. l)]
  BY <1>4, <1>5
<1>7. \A j, k \in 1 .. m + r : p[j] = p[k] => j = k
  <2> SUFFICES ASSUME NEW j \in 1 .. m + r, NEW k \in 1 .. m + r, p[j] = p[k] PROVE j = k
    OBVIOUS
  <2>1. CASE j <= m /\ k <= m
    BY <1>2, <1>5, <2>1
  <2>2. CASE ~(j <= m) /\ ~(k <= m)
    <3>1. n + (j - m) = n + (k - m)
      BY <1>5, <2>2
    <3> QED BY <1>1, <3>1
  <2> QED BY <1>5, <2>1, <2>2
<1>8. \A i \in S \cup (n + 1 .. l) : \E k \in 1 .. m + r : p[k] = i
  <2> TAKE i \in S \cup (n + 1 .. l)
  <2>1. CASE i \in S
    <3>1. PICK k \in 1 .. m : f[k] = i
      BY <1>2, <2>1
    <3>2. k \in 1 .. m + r /\ k <= m
      BY <1>1
    <3> QED BY <1>3, <3>1, <3>2
  <2>2. CASE i \in n + 1 .. l
    <3>1. i - n + m \in 1 .. m + r /\ ~(i - n + m <= m) /\ n + (i - n + m - m) = i
      BY <1>1, <2>2
    <3>2. p[i - n + m] = i
      BY <1>3, <3>1
    <3> QED BY <3>1, <3>2
  <2> QED BY <2>1, <2>2
<1>9. p \in Bijection(1 .. m + r, S \cup (n + 1 .. l))
  <2> DEFINE A == 1 .. m + r
             B == S \cup (n + 1 .. l)
  <2>1. /\ p \in [A -> B]
        /\ \A j, k \in A : p[j] = p[k] => j = k
        /\ \A i \in B : \E k \in A : p[k] = i
    BY <1>6, <1>7, <1>8
  <2> HIDE DEF A, B
  <2>2. p \in Bijection(A, B)
    BY <2>1, OneToOne
  <2> QED BY <2>2 DEF A, B
<1>10. At(ips, f) \o SubSeq(ips, n + 1, l) = At(ips, p)
  <2> DEFINE a == At(ips, f)
             b == SubSeq(ips, n + 1, l)
  <2>1. a \in Seq(IP) /\ Len(a) = m /\ \A k \in 1 .. m : a[k] = ips[f[k]]
    <3>1. S \subseteq 1 .. Len(ips)
      BY <1>1 DEF l
    <3>2. f \in [1 .. m -> 1 .. Len(ips)]
      BY <1>2, <3>1
    <3> QED BY <3>2, AtType
  <2>2. b \in Seq(IP) /\ Len(b) = r /\ \A k \in 1 .. r : b[k] = ips[n + k]
    <3>1. \A k \in 1 .. r : n + 1 + k - 1 = n + k
      BY <1>1
    <3>2. /\ b \in Seq(IP) /\ Len(b) = l - (n + 1) + 1
          /\ \A k \in 1 .. l - (n + 1) + 1 : b[k] = ips[n + 1 + k - 1]
      BY <1>1 DEF l
    <3>3. l - (n + 1) + 1 = r
      BY <1>1
    <3> HIDE DEF b
    <3> QED BY <3>1, <3>2, <3>3
  <2> HIDE DEF a, b
  <2>3. /\ a \o b \in Seq(IP) /\ Len(a \o b) = m + r
        /\ \A k \in 1 .. m + r : (a \o b)[k] = IF k <= m THEN a[k] ELSE b[k - m]
    BY <2>1, <2>2, Joined
  <2>4. /\ At(ips, p) \in Seq(IP) /\ Len(At(ips, p)) = m + r
        /\ \A k \in 1 .. m + r : At(ips, p)[k] = ips[p[k]]
    <3>1. m + r \in Nat /\ S \cup (n + 1 .. l) \subseteq 1 .. l
      BY <1>1
    <3>2. p \in [1 .. m + r -> 1 .. l]
      BY <1>6, <3>1
    <3> QED BY <3>1, <3>2, AtType DEF l
  <2>5. \A k \in 1 .. m + r : (IF k <= m THEN a[k] ELSE b[k - m]) = ips[p[k]]
    <3> TAKE k \in 1 .. m + r
    <3>1. CASE k <= m
      BY <1>3, <2>1, <3>1
    <3>2. CASE ~(k <= m)
      <4>1. k - m \in 1 .. r
        BY <1>1, <3>2
      <4> QED BY <1>3, <2>2, <3>2, <4>1
    <3> QED BY <3>1, <3>2
  <2> DEFINE c == a \o b
             d == At(ips, p)
  <2>6. \A k \in 1 .. m + r : c[k] = d[k]
    BY <2>3, <2>4, <2>5
  <2>7. c \in Seq(IP) /\ d \in Seq(IP) /\ Len(c) = m + r /\ Len(d) = m + r
    BY <2>3, <2>4
  <2> HIDE DEF c, d
  <2>8. c = d
    BY <2>6, <2>7, SameSequence
  <2> QED BY <2>8 DEF a, b, c, d
<1>11. /\ \A k \in 1 .. m : p[k] = f[k]
       /\ \A k \in m + 1 .. m + r : p[k] = n + (k - m)
  BY <1>1, <1>3
<1> QED BY <1>9, <1>10, <1>11 DEF p, l, r, KeepsRest

-----------------------------------------------------------------------------
(* Filter                                                                  *)

\* "prefer sorts reachable first by latency", and "the rest keep their positions":
\* the answer is a permutation of the addresses, sorted as far as they were
\* probed, where those that do not differ keep their order.
THEOREM PreferSortsReachableFirst ==
    ASSUME NEW IP, NEW ips \in Seq(IP), Len(ips) > 1, NEW max \in Int,
           NEW res \in [1 .. Limit(ips, max) -> Outcome], NEW mode, mode # "drop"
    PROVE  \E p \in Bijection(1 .. Len(ips), 1 .. Len(ips)) :
              /\ FilterIPs(ips, mode, max, res) = At(ips, p)
              /\ \A k \in Limit(ips, max) + 1 .. Len(ips) : p[k] = k
              /\ \A j, k \in 1 .. Limit(ips, max) :
                    j < k => <<p[j], p[k]>> \in Before(res)
<1> DEFINE n == Limit(ips, max)
           s == Sorted(res)
           p == WithRest(s, n, n, Len(ips))
<1>1. FilterIPs(ips, mode, max, res) = At(ips, s) \o SubSeq(ips, n + 1, Len(ips))
  <2>1. ~(Len(ips) <= 1)
    OBVIOUS
  <2> QED BY <2>1 DEF FilterIPs
<1>2. n \in 0 .. Len(ips)
  BY LimitType
<1>3. DOMAIN res = 1 .. n
  OBVIOUS
<1> HIDE DEF n
<1>4. /\ s \in Bijection(1 .. n, 1 .. n)
      /\ \A j, k \in 1 .. n : j < k => <<s[j], s[k]>> \in Before(res)
  <2>1. IsFiniteSet(1 .. n) /\ Cardinality(1 .. n) = n /\ n \in Nat
    BY <1>2, FS_Interval
  <2>2. Strict(1 .. n, Before(res))
    BY <2>1, BeforeIsStrict DEF n
  <2> QED BY <1>3, <2>1, <2>2, InOrderLists DEF Sorted
<1> HIDE DEF s, p
<1>5. /\ p \in Bijection(1 .. n + (Len(ips) - n), (1 .. n) \cup (n + 1 .. Len(ips)))
      /\ At(ips, s) \o SubSeq(ips, n + 1, Len(ips)) = At(ips, p)
      /\ \A k \in 1 .. n : p[k] = s[k]
      /\ \A k \in n + 1 .. n + (Len(ips) - n) : p[k] = n + (k - n)
  <2>1. n \in Nat /\ 1 .. n \subseteq 1 .. n
    BY <1>2
  <2>2. KeepsRest(ips, 1 .. n, s, n, n, WithRest(s, n, n, Len(ips)))
    BY <1>2, <1>4, <2>1, RestIsKept
  <2> QED BY <2>2 DEF p, KeepsRest
<1>6. n + (Len(ips) - n) = Len(ips) /\ (1 .. n) \cup (n + 1 .. Len(ips)) = 1 .. Len(ips)
  BY <1>2
<1>7. \A k \in n + 1 .. Len(ips) : p[k] = k
  BY <1>2, <1>5, <1>6
<1>8. \A j, k \in 1 .. n : j < k => <<p[j], p[k]>> \in Before(res)
  BY <1>4, <1>5
<1>9. p \in Bijection(1 .. Len(ips), 1 .. Len(ips))
  BY <1>5, <1>6
<1> QED BY <1>1, <1>5, <1>7, <1>8, <1>9 DEF n

\* "drop removes unreachable addresses (falling back to the original set when none
\* survive)": what is left of an answer, in its order, is what was reached or not
\* probed, and it is never emptied.
THEOREM DropKeepsTheReachable ==
    ASSUME NEW IP, NEW ips \in Seq(IP), NEW max \in Int,
           NEW res \in [1 .. Limit(ips, max) -> Outcome]
    PROVE  LET out == FilterIPs(ips, "drop", max, res)
               kept == { i \in DOMAIN ips : i \in DOMAIN res => res[i].reachable }
           IN  /\ Len(ips) <= 1 \/ (\A i \in DOMAIN res : ~res[i].reachable) => out = ips
               /\ Len(ips) > 1 /\ (\E i \in DOMAIN res : res[i].reachable) =>
                     \E p \in Bijection(1 .. Cardinality(kept), kept) :
                        /\ out = At(ips, p)
                        /\ \A j, k \in 1 .. Cardinality(kept) : j < k => p[j] < p[k]
               /\ ips # <<>> => out # <<>>
<1> DEFINE out == FilterIPs(ips, "drop", max, res)
           kept == { i \in DOMAIN ips : i \in DOMAIN res => res[i].reachable }
           n == Limit(ips, max)
           S == { i \in DOMAIN res : res[i].reachable }
           m == Cardinality(S)
           f == Reachable(res)
           p == WithRest(f, m, n, Len(ips))
<1>1. n \in 0 .. Len(ips) /\ DOMAIN res = 1 .. n /\ DOMAIN ips = 1 .. Len(ips)
  BY LimitType
<1>2. out = IF Len(ips) <= 1 \/ f = <<>> THEN ips
            ELSE At(ips, f) \o SubSeq(ips, n + 1, Len(ips))
  BY DEF FilterIPs
<1>3. S \subseteq 1 .. n /\ S = { i \in 1 .. n : res[i].reachable }
  BY <1>1
<1>4. f = Ascending(S)
  BY DEF Reachable
<1>5. kept = S \cup (n + 1 .. Len(ips))
  BY <1>1
<1> HIDE DEF n, S, f, kept, out
<1>6. /\ m \in Nat
      /\ f \in Bijection(1 .. m, S)
      /\ \A j, k \in 1 .. m : j < k => f[j] < f[k]
  <2>1. n \in Nat
    BY <1>1
  <2> QED BY <1>3, <1>4, <2>1, AscendingLists
<1> HIDE DEF m, p
<1>7. /\ f \in [1 .. m -> S]
      /\ \A i \in S : \E k \in 1 .. m : f[k] = i
  BY <1>6, OneToOne
<1>8. f = <<>> <=> S = {}
  <2>1. ASSUME f = <<>> PROVE S = {}
    <3>1. 1 .. m = {}
      BY <1>7, <2>1
    <3> QED BY <1>7, <3>1
  <2>2. ASSUME S = {} PROVE f = <<>>
    <3>1. 1 .. m = {}
      BY <1>7, <2>2
    <3>2. f = [k \in 1 .. m |-> f[k]]
      BY <1>7
    <3> QED BY <3>1, <3>2
  <2> QED BY <2>1, <2>2
<1>9. /\ p \in Bijection(1 .. m + (Len(ips) - n), kept)
      /\ At(ips, f) \o SubSeq(ips, n + 1, Len(ips)) = At(ips, p)
      /\ \A k \in 1 .. m : p[k] = f[k]
      /\ \A k \in m + 1 .. m + (Len(ips) - n) : p[k] = n + (k - m)
  <2>1. KeepsRest(ips, S, f, m, n, WithRest(f, m, n, Len(ips)))
    BY <1>1, <1>3, <1>6, RestIsKept
  <2> QED BY <1>5, <2>1 DEF p, KeepsRest
<1>10. m + (Len(ips) - n) \in Nat
  BY <1>1, <1>6
<1>11. Cardinality(kept) = m + (Len(ips) - n)
  BY <1>9, <1>10, FS_CountingElements DEF ExistsBijection
<1>12. \A j, k \in 1 .. Cardinality(kept) : j < k => p[j] < p[k]
  <2> SUFFICES ASSUME NEW j \in 1 .. Cardinality(kept), NEW k \in 1 .. Cardinality(kept), j < k
               PROVE  p[j] < p[k]
    OBVIOUS
  <2>1. \A i \in 1 .. m : f[i] \in 1 .. n
    BY <1>3, <1>7
  <2>2. CASE k <= m
    <3>1. j \in 1 .. m /\ k \in 1 .. m
      BY <1>6, <1>10, <1>11, <2>2
    <3> QED BY <1>6, <1>9, <3>1
  <2>3. CASE j <= m /\ ~(k <= m)
    <3>1. j \in 1 .. m /\ k \in m + 1 .. m + (Len(ips) - n)
      BY <1>6, <1>10, <1>11, <2>3
    <3>2. p[j] \in 1 .. n /\ p[k] = n + (k - m)
      BY <1>9, <2>1, <3>1
    <3> QED BY <1>1, <1>6, <3>1, <3>2
  <2>4. CASE ~(j <= m)
    <3>1. j \in m + 1 .. m + (Len(ips) - n) /\ k \in m + 1 .. m + (Len(ips) - n)
      BY <1>6, <1>10, <1>11, <2>4
    <3>2. p[j] = n + (j - m) /\ p[k] = n + (k - m)
      BY <1>9, <3>1
    <3> QED BY <1>1, <1>6, <3>1, <3>2
  <2> QED BY <2>2, <2>3, <2>4
<1>13. Len(ips) <= 1 \/ (\A i \in DOMAIN res : ~res[i].reachable) => out = ips
  <2>1. (\A i \in DOMAIN res : ~res[i].reachable) => S = {}
    BY DEF S
  <2> QED BY <1>2, <1>8, <2>1
<1>14. Len(ips) > 1 /\ (\E i \in DOMAIN res : res[i].reachable) => out = At(ips, p) /\ S # {}
  <2>1. (\E i \in DOMAIN res : res[i].reachable) => S # {}
    BY DEF S
  <2>2. Len(ips) > 1 => ~(Len(ips) <= 1)
    OBVIOUS
  <2> QED BY <1>2, <1>8, <1>9, <2>1, <2>2
<1>15. ips # <<>> => out # <<>>
  <2> SUFFICES ASSUME ips # <<>>, out = <<>> PROVE FALSE
    OBVIOUS
  <2>1. out = At(ips, p) /\ S # {}
    BY <1>2, <1>8, <1>9
  <2>2. DOMAIN p = 1 .. m + (Len(ips) - n) /\ 1 \in 1 .. m + (Len(ips) - n)
    <3>1. m # 0
      BY <1>7, <2>1
    <3> QED BY <1>1, <1>6, <3>1 DEF p, WithRest
  <2>3. DOMAIN out = DOMAIN p
    BY <2>1 DEF At
  <2> QED BY <2>2, <2>3
<1> QED BY <1>9, <1>11, <1>12, <1>13, <1>14, <1>15 DEF out, kept

-----------------------------------------------------------------------------
(* The records of an answer                                                *)

Types == {"A", "AAAA", "other"}

\* Whatever the mode, Filter reads the addresses at some positions.
LEMMA FilteredPositions ==
    ASSUME NEW IP, NEW ips \in Seq(IP), NEW max \in Int, NEW mode,
           NEW res \in [1 .. Limit(ips, max) -> Outcome]
    PROVE  \E m \in Nat : \E p \in [1 .. m -> 1 .. Len(ips)] :
              /\ FilterIPs(ips, mode, max, res) = At(ips, p)
              /\ ips # <<>> => m # 0
              /\ mode # "drop" => m = Len(ips) /\ p \in Bijection(1 .. m, 1 .. m)
<1> DEFINE out == FilterIPs(ips, mode, max, res)
           l == Len(ips)
<1>1. l \in Nat /\ (ips # <<>> => l # 0)
  OBVIOUS
<1>2. CASE out = ips
  <2> DEFINE p == [k \in 1 .. l |-> k]
  <2>1. p \in [1 .. l -> 1 .. l] /\ \A k \in 1 .. l : p[k] = k
    OBVIOUS
  <2> HIDE DEF p
  <2>2. p \in Bijection(1 .. l, 1 .. l)
    BY <2>1, OneToOne
  <2> DEFINE a == At(ips, p)
  <2>3. a \in Seq(IP) /\ Len(a) = l /\ \A k \in 1 .. l : a[k] = ips[k]
    BY <1>1, <2>1, AtType
  <2> HIDE DEF a
  <2>4. a = ips
    BY <2>3, SameSequence
  <2> QED BY <1>1, <1>2, <2>1, <2>2, <2>4 DEF a
<1>3. CASE out # ips /\ mode = "drop"
  <2> DEFINE kept == { i \in DOMAIN ips : i \in DOMAIN res => res[i].reachable }
             m == Cardinality(kept)
  <2>1. /\ Len(ips) <= 1 \/ (\A i \in DOMAIN res : ~res[i].reachable) => out = ips
        /\ Len(ips) > 1 /\ (\E i \in DOMAIN res : res[i].reachable) =>
              \E p \in Bijection(1 .. m, kept) :
                  /\ out = At(ips, p)
                  /\ \A j, k \in 1 .. m : j < k => p[j] < p[k]
        /\ ips # <<>> => out # <<>>
    BY <1>3, DropKeepsTheReachable
  <2>2. kept \subseteq 1 .. l /\ m \in Nat
    <3>1. kept \subseteq 1 .. l
      OBVIOUS
    <3> HIDE DEF kept
    <3>2. IsFiniteSet(1 .. l) /\ kept \in SUBSET (1 .. l)
      BY <1>1, <3>1, FS_Interval
    <3>3. IsFiniteSet(kept)
      BY <3>2, FS_Subset
    <3> QED BY <3>1, <3>3, FS_CardinalityType
  <2>3. Len(ips) > 1 /\ (\E i \in DOMAIN res : res[i].reachable)
    BY <1>1, <1>3, <2>1
  <2>4. \E p \in Bijection(1 .. m, kept) :
                  /\ out = At(ips, p)
                  /\ \A j, k \in 1 .. m : j < k => p[j] < p[k]
    BY <2>1, <2>3
  <2> HIDE DEF kept, m, out
  <2>5. PICK p \in Bijection(1 .. m, kept) : out = At(ips, p)
    BY <2>4
  <2>6. p \in [1 .. m -> kept]
    BY OneToOne
  <2>7. p \in [1 .. m -> 1 .. l]
    BY <2>2, <2>6
  <2>8. ips # <<>> => m # 0
    <3>1. At(ips, p) \in Seq(IP) /\ Len(At(ips, p)) = m
      BY <2>2, <2>7, AtType
    <3>2. At(ips, p) # <<>>
      BY <2>1, <2>3, <2>5
    <3> QED BY <3>1, <3>2
  <2> QED BY <1>3, <2>2, <2>5, <2>7, <2>8 DEF out
<1>4. CASE out # ips /\ mode # "drop"
  <2>1. Len(ips) > 1
    BY <1>1, <1>4 DEF FilterIPs
  <2>2. PICK p \in Bijection(1 .. l, 1 .. l) : out = At(ips, p)
    BY <1>4, <2>1, PreferSortsReachableFirst
  <2>3. p \in [1 .. l -> 1 .. l]
    BY OneToOne
  <2> QED BY <1>1, <1>4, <2>2, <2>3
<1> QED BY <1>2, <1>3, <1>4

With(answer, type) == { i \in 1 .. Len(answer) : answer[i].type = type }

\* The records of one type, in their order.
LEMMA OfType ==
    ASSUME NEW Rec, NEW answer \in Seq(Rec), NEW type
    PROVE  /\ Of(answer, type) \in Seq(Rec)
           /\ Cardinality(With(answer, type)) \in Nat
           /\ Len(Of(answer, type)) = Cardinality(With(answer, type))
           /\ \A i \in With(answer, type) :
                 \E k \in 1 .. Len(Of(answer, type)) : Of(answer, type)[k] = answer[i]
           /\ \A k \in 1 .. Len(Of(answer, type)) :
                 \E i \in With(answer, type) : Of(answer, type)[k] = answer[i]
<1> DEFINE P == With(answer, type)
           f == Ascending(P)
<1>1. Of(answer, type) = At(answer, f)
  <2>1. DOMAIN answer = 1 .. Len(answer)
    OBVIOUS
  <2> QED BY <2>1 DEF Of, With
<1>2. P \subseteq 1 .. Len(answer) /\ Len(answer) \in Nat
  BY DEF With
<1> HIDE DEF P
<1>3. Cardinality(P) \in Nat /\ f \in Bijection(1 .. Cardinality(P), P)
  BY <1>2, AscendingLists
<1> DEFINE c == Cardinality(P)
<1> HIDE DEF f, c
<1>4. /\ f \in [1 .. c -> P]
      /\ \A i \in P : \E k \in 1 .. c : f[k] = i
  BY <1>3, OneToOne DEF c
<1>5. f \in [1 .. c -> 1 .. Len(answer)] /\ c \in Nat
  BY <1>2, <1>3, <1>4 DEF c
<1>6. /\ At(answer, f) \in Seq(Rec) /\ Len(At(answer, f)) = c
      /\ \A k \in 1 .. c : At(answer, f)[k] = answer[f[k]]
  BY <1>5, AtType
<1>7. /\ \A i \in P : \E k \in 1 .. c : At(answer, f)[k] = answer[i]
      /\ \A k \in 1 .. c : \E i \in P : At(answer, f)[k] = answer[i]
  BY <1>4, <1>6
<1> QED BY <1>1, <1>5, <1>6, <1>7 DEF P, c

LEMMA MaxExists ==
    ASSUME NEW n \in Nat, NEW S, S \subseteq 1 .. n, S # {}
    PROVE  Max(S) \in S
<1> DEFINE T == { n - i : i \in S }
<1>1. T \subseteq Nat /\ T # {}
  <2>1. \A i \in S : n - i \in Nat
    OBVIOUS
  <2>2. PICK i \in S : TRUE
    OBVIOUS
  <2>3. n - i \in T
    BY <2>2
  <2> QED BY <2>1, <2>3
<1>2. PICK x \in T : \A y \in T : ~(<<y, x>> \in OpToRel(<, Nat))
  BY <1>1, NatLessThanWellFounded, WFMin
<1>3. PICK i \in S : x = n - i
  OBVIOUS
<1>4. \A j \in S : i >= j
  <2> SUFFICES ASSUME NEW j \in S, ~(i >= j) PROVE FALSE
    OBVIOUS
  <2>1. n - j \in T /\ n - j < x /\ x \in Nat
    BY <1>1, <1>3
  <2>2. <<n - j, x>> \in OpToRel(<, Nat)
    BY <1>1, <2>1 DEF OpToRel
  <2> QED BY <1>2, <2>1, <2>2
<1> QED BY <1>4 DEF Max

\* byIP has a record for every address of the answer.
LEMMA ByIPFinds ==
    ASSUME NEW Rec, NEW answer \in Seq(Rec), NEW i \in 1 .. Len(answer),
           answer[i].type \in {"A", "AAAA"}
    PROVE  \E j \in 1 .. Len(answer) :
              /\ ByIP(answer, answer[i].ip) = answer[j]
              /\ answer[j].type \in {"A", "AAAA"}
              /\ answer[j].ip = answer[i].ip
<1> DEFINE I == { j \in 1 .. Len(answer) : /\ answer[j].type \in {"A", "AAAA"}
                                           /\ answer[j].ip = answer[i].ip }
<1>1. ByIP(answer, answer[i].ip) = answer[IF I # {} THEN Max(I) ELSE 0]
  BY DEF ByIP, SelectLastInSeq
<1>2. I \subseteq 1 .. Len(answer) /\ i \in I /\ Len(answer) \in Nat
  OBVIOUS
<1>3. \A j \in I : /\ j \in 1 .. Len(answer)
                   /\ answer[j].type \in {"A", "AAAA"}
                   /\ answer[j].ip = answer[i].ip
  OBVIOUS
<1> HIDE DEF I
<1>4. Max(I) \in I
  BY <1>2, MaxExists
<1> QED BY <1>1, <1>2, <1>3, <1>4

Recs(Ip) == [type : Types, ip : Ip]

\* What becomes of the addresses of one family.
FamilyKept(answer, type, mode, max, res) ==
    LET v == Texts(Of(answer, type))
        out == Records(answer, FilterIPs(v, mode, max, res))
    IN  /\ \A k \in 1 .. Len(out) :
              \E j \in 1 .. Len(answer) : /\ out[k] = answer[j]
                                          /\ answer[j].type \in {"A", "AAAA"}
        /\ v # <<>> => Len(out) # 0
        /\ mode # "drop" =>
              /\ Len(out) = Len(v)
              /\ \A i \in With(answer, type) : \E k \in 1 .. Len(out) : out[k].ip = answer[i].ip

LEMMA FamilyIsKept ==
    ASSUME NEW Ip, NEW answer \in Seq(Recs(Ip)), NEW type \in {"A", "AAAA"},
           NEW max \in Int, NEW mode,
           NEW res \in [1 .. Limit(Texts(Of(answer, type)), max) -> Outcome]
    PROVE  /\ Texts(Of(answer, type)) \in Seq(Ip)
           /\ Len(Texts(Of(answer, type))) = Cardinality(With(answer, type))
           /\ Records(answer, FilterIPs(Texts(Of(answer, type)), mode, max, res)) \in Seq(Recs(Ip))
           /\ FamilyKept(answer, type, mode, max, res)
<1> DEFINE P == With(answer, type)
           c == Cardinality(P)
           of == Of(answer, type)
           v == Texts(of)
           o == FilterIPs(v, mode, max, res)
           out == Records(answer, o)
<1>1. /\ of \in Seq(Recs(Ip)) /\ c \in Nat /\ Len(of) = c
      /\ \A i \in P : \E k \in 1 .. c : of[k] = answer[i]
      /\ \A k \in 1 .. c : \E i \in P : of[k] = answer[i]
  <2>1. of \in Seq(Recs(Ip)) /\ c \in Nat /\ Len(of) = c
    BY OfType
  <2>2. \A i \in P : \E k \in 1 .. Len(of) : of[k] = answer[i]
    BY OfType
  <2>3. \A k \in 1 .. Len(of) : \E i \in P : of[k] = answer[i]
    BY OfType
  <2> QED BY <2>1, <2>2, <2>3
<1>2. \A i \in P : i \in 1 .. Len(answer) /\ answer[i].type = type
  BY DEF With
<1> HIDE DEF P, c, of
<1>3. v \in Seq(Ip) /\ Len(v) = c /\ \A k \in 1 .. c : v[k] = of[k].ip
  <2>1. \A k \in 1 .. c : of[k] \in Recs(Ip)
    BY <1>1
  <2>2. v = [k \in 1 .. c |-> of[k].ip]
    BY <1>1 DEF Texts
  <2>3. v \in [1 .. c -> Ip]
    BY <2>1, <2>2 DEF Recs
  <2> QED BY <1>1, <2>2, <2>3
<1>4. res \in [1 .. Limit(v, max) -> Outcome]
  BY DEF of
<1> HIDE DEF v
<1>a. PICK m \in Nat : \E p \in [1 .. m -> 1 .. Len(v)] :
         /\ o = At(v, p)
         /\ v # <<>> => m # 0
         /\ mode # "drop" => m = Len(v) /\ p \in Bijection(1 .. m, 1 .. m)
  BY <1>3, <1>4, FilteredPositions
<1> HIDE DEF o
<1>5. PICK p \in [1 .. m -> 1 .. Len(v)] :
         /\ o = At(v, p)
         /\ v # <<>> => m # 0
         /\ mode # "drop" => m = Len(v) /\ p \in Bijection(1 .. m, 1 .. m)
  BY <1>a
<1>6. o \in Seq(Ip) /\ Len(o) = m /\ \A k \in 1 .. m : o[k] = v[p[k]]
  <2>1. /\ At(v, p) \in Seq(Ip) /\ Len(At(v, p)) = m
        /\ \A k \in 1 .. m : At(v, p)[k] = v[p[k]]
    <3>1. v \in Seq(Ip) /\ p \in [1 .. m -> 1 .. Len(v)]
      BY <1>3
    <3> QED BY <3>1, AtType
  <2>2. o = At(v, p)
    BY <1>5
  <2> QED BY <2>1, <2>2
<1>7. out = [k \in 1 .. m |-> ByIP(answer, o[k])]
  BY <1>6 DEF Records
<1>8. \A k \in 1 .. m : \E j \in 1 .. Len(answer) :
          /\ out[k] = answer[j] /\ answer[j].type \in {"A", "AAAA"} /\ answer[j].ip = o[k]
  <2> SUFFICES ASSUME NEW k \in 1 .. m
               PROVE  \E j \in 1 .. Len(answer) : /\ out[k] = answer[j]
                                                  /\ answer[j].type \in {"A", "AAAA"}
                                                  /\ answer[j].ip = o[k]
    OBVIOUS
  <2>1. p[k] \in 1 .. c /\ o[k] = of[p[k]].ip
    BY <1>3, <1>5, <1>6
  <2>2. PICK i \in P : of[p[k]] = answer[i]
    BY <1>1, <2>1
  <2>3. i \in 1 .. Len(answer) /\ answer[i].type \in {"A", "AAAA"} /\ o[k] = answer[i].ip
    BY <1>2, <2>1, <2>2
  <2>4. out[k] = ByIP(answer, answer[i].ip)
    BY <1>7, <2>3
  <2> QED BY <2>3, <2>4, ByIPFinds
<1> HIDE DEF out
<1>9. out \in Seq(Recs(Ip)) /\ Len(out) = m
  <2>1. \A k \in 1 .. m : out[k] \in Recs(Ip)
    BY <1>8
  <2>2. out \in [1 .. m -> Recs(Ip)]
    BY <1>7, <2>1
  <2> QED BY <1>5, <2>2
<1>10. ASSUME mode # "drop", NEW i \in P PROVE \E k \in 1 .. m : out[k].ip = answer[i].ip
  <2>1. PICK a \in 1 .. c : of[a] = answer[i]
    BY <1>1
  <2>2. m = c /\ \A b \in 1 .. m : \E k \in 1 .. m : p[k] = b
    <3>1. m = c /\ p \in Bijection(1 .. m, 1 .. m)
      BY <1>3, <1>5, <1>10
    <3> DEFINE D == 1 .. m
    <3>2. p \in Bijection(D, D)
      BY <3>1
    <3> HIDE DEF D
    <3>3. \A b \in D : \E k \in D : p[k] = b
      BY <3>2, OneToOne
    <3> QED BY <3>1, <3>3 DEF D
  <2>3. PICK k \in 1 .. m : p[k] = a
    BY <2>1, <2>2
  <2>4. o[k] = answer[i].ip
    BY <1>3, <1>6, <2>1, <2>3
  <2> QED BY <1>8, <2>4
<1>11. FamilyKept(answer, type, mode, max, res)
  <2>1. \A k \in 1 .. Len(out) : \E j \in 1 .. Len(answer) :
            out[k] = answer[j] /\ answer[j].type \in {"A", "AAAA"}
    BY <1>8, <1>9
  <2>2. v # <<>> => Len(out) # 0
    BY <1>5, <1>9
  <2>3. mode # "drop" => /\ Len(out) = Len(v)
                         /\ \A i \in P : \E k \in 1 .. Len(out) : out[k].ip = answer[i].ip
    BY <1>5, <1>9, <1>10
  <2> QED BY <2>1, <2>2, <2>3 DEF FamilyKept, out, o, v, of, P
<1> QED BY <1>3, <1>9, <1>11 DEF out, o, v, of, c, P

\* Every record has one type.
LEMMA TypesPartition ==
    ASSUME NEW Ip, NEW answer \in Seq(Recs(Ip))
    PROVE  /\ \A i \in 1 .. Len(answer) : \E type \in Types : i \in With(answer, type)
           /\ Cardinality(With(answer, "other")) + Cardinality(With(answer, "A"))
                + Cardinality(With(answer, "AAAA")) = Len(answer)
<1> DEFINE o == With(answer, "other")
           a == With(answer, "A")
           b == With(answer, "AAAA")
           n == Len(answer)
<1>1. n \in Nat /\ IsFiniteSet(1 .. n) /\ Cardinality(1 .. n) = n
  <2>1. n \in Nat
    OBVIOUS
  <2> HIDE DEF n
  <2> QED BY <2>1, FS_Interval
<1>2. \A i \in 1 .. n : answer[i].type \in Types
  <2>1. \A i \in 1 .. n : answer[i] \in Recs(Ip)
    OBVIOUS
  <2> QED BY <2>1 DEF Recs
<1>3. /\ o \subseteq 1 .. n /\ a \subseteq 1 .. n /\ b \subseteq 1 .. n
      /\ o \cap a = {} /\ (o \cup a) \cap b = {} /\ (o \cup a) \cup b = 1 .. n
  BY <1>2 DEF With, Types
<1>4. \A i \in 1 .. n : \E type \in Types : i \in With(answer, type)
  BY <1>2 DEF With
<1> HIDE DEF o, a, b, n
<1>5. IsFiniteSet(o) /\ IsFiniteSet(a) /\ IsFiniteSet(b)
  BY <1>1, <1>3, FS_Subset
<1>6. Cardinality(o) \in Nat /\ Cardinality(a) \in Nat /\ Cardinality(b) \in Nat
  BY <1>5, FS_CardinalityType
<1>7. Cardinality({}) = 0
  BY FS_EmptySet
<1>8. IsFiniteSet(o \cup a) /\ Cardinality(o \cup a) = Cardinality(o) + Cardinality(a)
  <2>1. /\ IsFiniteSet(o \cup a)
        /\ Cardinality(o \cup a) = Cardinality(o) + Cardinality(a) - Cardinality(o \cap a)
    BY <1>5, FS_Union
  <2>2. Cardinality(o \cap a) = 0
    BY <1>3, <1>7, Zenon
  <2> QED BY <1>6, <2>1, <2>2
<1>9. Cardinality((o \cup a) \cup b) = Cardinality(o \cup a) + Cardinality(b)
  <2>1. Cardinality((o \cup a) \cup b)
          = Cardinality(o \cup a) + Cardinality(b) - Cardinality((o \cup a) \cap b)
    BY <1>5, <1>8, FS_Union
  <2>2. Cardinality((o \cup a) \cap b) = 0
    BY <1>3, <1>7, Zenon
  <2> QED BY <1>6, <1>8, <2>1, <2>2
<1>10. Cardinality(o) + Cardinality(a) + Cardinality(b) = n
  BY <1>1, <1>3, <1>8, <1>9
<1> QED BY <1>4, <1>10 DEF o, a, b, n

\* filterAnswerIPs: "non-address records are preserved", and no answer gets a
\* record that it did not have or loses its last.  Preferring loses and adds none,
\* unless two records have the same address, of which byIP keeps one.
THEOREM AnswerIsKept ==
    ASSUME NEW Ip, NEW answer \in Seq(Recs(Ip)), NEW max \in Int, NEW mode,
           NEW res4 \in [1 .. Limit(Texts(Of(answer, "A")), max) -> Outcome],
           NEW res6 \in [1 .. Limit(Texts(Of(answer, "AAAA")), max) -> Outcome]
    PROVE  LET out == FilterAnswer(answer, mode, max, res4, res6)
           IN  /\ \A k \in 1 .. Len(out) : \E j \in 1 .. Len(answer) : out[k] = answer[j]
               /\ \A j \in With(answer, "other") : \E k \in 1 .. Len(out) : out[k] = answer[j]
               /\ answer # <<>> => Len(out) # 0
               /\ mode # "drop" =>
                     /\ Len(out) = Len(answer)
                     /\ \A j \in 1 .. Len(answer) :
                           \E k \in 1 .. Len(out) :
                              /\ out[k].ip = answer[j].ip
                              /\ out[k].type = "other" <=> answer[j].type = "other"
<1> DEFINE v4 == Texts(Of(answer, "A"))
           v6 == Texts(Of(answer, "AAAA"))
           a == Of(answer, "other")
           b == Records(answer, FilterIPs(v4, mode, max, res4))
           c == Records(answer, FilterIPs(v6, mode, max, res6))
           out == FilterAnswer(answer, mode, max, res4, res6)
<1>1. Len(answer) \in Nat /\ (answer # <<>> => Len(answer) # 0)
  OBVIOUS
<1>2. out = IF Len(v4) <= 1 /\ Len(v6) <= 1 THEN answer ELSE a \o b \o c
  BY DEF FilterAnswer
<1>3. CASE out = answer
  <2>1. \A j \in With(answer, "other") : j \in 1 .. Len(answer)
    BY DEF With
  <2> QED BY <1>1, <1>3, <2>1
<1>4. CASE out = a \o b \o c
  <2>1. /\ a \in Seq(Recs(Ip)) /\ Len(a) = Cardinality(With(answer, "other"))
        /\ \A j \in With(answer, "other") : \E k \in 1 .. Len(a) : a[k] = answer[j]
        /\ \A k \in 1 .. Len(a) : \E j \in With(answer, "other") : a[k] = answer[j]
    BY OfType
  <2>2. /\ Len(v4) = Cardinality(With(answer, "A"))
        /\ b \in Seq(Recs(Ip))
        /\ v4 \in Seq(Ip)
        /\ FamilyKept(answer, "A", mode, max, res4)
    BY FamilyIsKept
  <2>3. /\ Len(v6) = Cardinality(With(answer, "AAAA"))
        /\ c \in Seq(Recs(Ip))
        /\ v6 \in Seq(Ip)
        /\ FamilyKept(answer, "AAAA", mode, max, res6)
    BY FamilyIsKept
  <2>4. /\ \A k \in 1 .. Len(b) : \E j \in 1 .. Len(answer) : b[k] = answer[j]
        /\ v4 # <<>> => Len(b) # 0
        /\ mode # "drop" =>
              /\ Len(b) = Len(v4)
              /\ \A j \in With(answer, "A") : \E k \in 1 .. Len(b) : b[k].ip = answer[j].ip
    BY <2>2 DEF FamilyKept
  <2>a. /\ \A k \in 1 .. Len(b) : b[k].type # "other"
        /\ \A k \in 1 .. Len(c) : c[k].type # "other"
    <3>1. /\ \A k \in 1 .. Len(b) : b[k].type \in {"A", "AAAA"}
          /\ \A k \in 1 .. Len(c) : c[k].type \in {"A", "AAAA"}
      BY <2>2, <2>3 DEF FamilyKept
    <3> QED BY <3>1
  <2>5. /\ \A k \in 1 .. Len(c) : \E j \in 1 .. Len(answer) : c[k] = answer[j]
        /\ v6 # <<>> => Len(c) # 0
        /\ mode # "drop" =>
              /\ Len(c) = Len(v6)
              /\ \A j \in With(answer, "AAAA") : \E k \in 1 .. Len(c) : c[k].ip = answer[j].ip
    BY <2>3 DEF FamilyKept
  <2> HIDE DEF a, b, c, v4, v6, out
  <2>6. \A type : \A j \in With(answer, type) : j \in 1 .. Len(answer)
    BY DEF With
  <2>7. /\ Len(a) \in Nat /\ Len(b) \in Nat /\ Len(c) \in Nat
        /\ Len(out) = Len(a) + Len(b) + Len(c)
        /\ \A k \in 1 .. Len(a) : out[k] = a[k]
        /\ \A k \in 1 .. Len(b) : out[Len(a) + k] = b[k]
        /\ \A k \in 1 .. Len(c) : out[Len(a) + Len(b) + k] = c[k]
    <3> DEFINE d == a \o b
    <3>1. Len(a) \in Nat /\ Len(b) \in Nat /\ Len(c) \in Nat
      BY <2>1, <2>2, <2>3
    <3>2. /\ d \in Seq(Recs(Ip)) /\ Len(d) = Len(a) + Len(b)
          /\ \A k \in 1 .. Len(a) + Len(b) : d[k] = IF k <= Len(a) THEN a[k] ELSE b[k - Len(a)]
      BY <2>1, <2>2, Joined
    <3>3. out = d \o c
      BY <1>4
    <3> HIDE DEF d
    <3>4. /\ Len(out) = Len(d) + Len(c)
          /\ \A k \in 1 .. Len(d) + Len(c) : out[k] = IF k <= Len(d) THEN d[k] ELSE c[k - Len(d)]
      <4>1. /\ Len(d \o c) = Len(d) + Len(c)
            /\ \A k \in 1 .. Len(d) + Len(c) :
                  (d \o c)[k] = IF k <= Len(d) THEN d[k] ELSE c[k - Len(d)]
        <5>1. d \in Seq(Recs(Ip)) /\ c \in Seq(Recs(Ip))
          BY <2>3, <3>2
        <5> QED BY <5>1, Joined
      <4> QED BY <3>3, <4>1
    <3>5. \A k \in 1 .. Len(a) : out[k] = a[k]
      BY <3>1, <3>2, <3>4
    <3>6. \A k \in 1 .. Len(b) : out[Len(a) + k] = b[k]
      <4> TAKE k \in 1 .. Len(b)
      <4>1. /\ Len(a) + k \in 1 .. Len(d) /\ Len(a) + k \in 1 .. Len(d) + Len(c)
            /\ Len(a) + k <= Len(d) /\ ~(Len(a) + k <= Len(a)) /\ Len(a) + k - Len(a) = k
        BY <3>1, <3>2
      <4> QED BY <3>2, <3>4, <4>1
    <3>7. \A k \in 1 .. Len(c) : out[Len(a) + Len(b) + k] = c[k]
      <4> TAKE k \in 1 .. Len(c)
      <4>1. /\ Len(a) + Len(b) + k \in 1 .. Len(d) + Len(c)
            /\ ~(Len(a) + Len(b) + k <= Len(d)) /\ Len(a) + Len(b) + k - Len(d) = k
        BY <3>1, <3>2
      <4> QED BY <3>4, <4>1
    <3> QED BY <3>1, <3>2, <3>4, <3>5, <3>6, <3>7
  <2>8. \A k \in 1 .. Len(out) : \/ k \in 1 .. Len(a)
                                 \/ \E i \in 1 .. Len(b) : k = Len(a) + i
                                 \/ \E i \in 1 .. Len(c) : k = Len(a) + Len(b) + i
    <3> SUFFICES ASSUME NEW k \in 1 .. Len(out), k \notin 1 .. Len(a),
                        \A i \in 1 .. Len(b) : k # Len(a) + i
                 PROVE  \E i \in 1 .. Len(c) : k = Len(a) + Len(b) + i
      OBVIOUS
    <3>a. k \in Nat /\ k > Len(a) /\ k = Len(a) + (k - Len(a))
      BY <2>7
    <3>1. ~(k - Len(a) \in 1 .. Len(b)) /\ k > Len(a)
      BY <3>a
    <3>2. k - Len(a) - Len(b) \in 1 .. Len(c) /\ k = Len(a) + Len(b) + (k - Len(a) - Len(b))
      BY <2>7, <3>1
    <3> QED BY <3>2
  <2>9. \A i : /\ i \in 1 .. Len(a) => i \in 1 .. Len(out)
               /\ i \in 1 .. Len(b) => Len(a) + i \in 1 .. Len(out)
               /\ i \in 1 .. Len(c) => Len(a) + Len(b) + i \in 1 .. Len(out)
    BY <2>7
  <2>10. \A k \in 1 .. Len(out) : \E j \in 1 .. Len(answer) : out[k] = answer[j]
    <3> TAKE k \in 1 .. Len(out)
    <3>1. CASE k \in 1 .. Len(a)
      <4>1. PICK j \in With(answer, "other") : a[k] = answer[j]
        BY <2>1, <3>1
      <4>2. j \in 1 .. Len(answer) /\ out[k] = answer[j]
        BY <2>6, <2>7, <3>1, <4>1
      <4> QED BY <4>2
    <3>2. ASSUME NEW i \in 1 .. Len(b), k = Len(a) + i
          PROVE  \E j \in 1 .. Len(answer) : out[k] = answer[j]
      BY <2>4, <2>7, <3>2
    <3>3. ASSUME NEW i \in 1 .. Len(c), k = Len(a) + Len(b) + i
          PROVE  \E j \in 1 .. Len(answer) : out[k] = answer[j]
      BY <2>5, <2>7, <3>3
    <3> QED BY <2>8, <3>1, <3>2, <3>3
  <2>11. \A j \in With(answer, "other") : \E k \in 1 .. Len(out) : out[k] = answer[j]
    BY <2>1, <2>7, <2>9
  <2>12. Len(a) + Len(v4) + Len(v6) = Len(answer)
    BY <2>1, <2>2, <2>3, TypesPartition
  <2>13. answer # <<>> => Len(out) # 0
    <3>1. /\ Len(v4) \in Nat /\ (v4 = <<>> => Len(v4) = 0)
          /\ Len(v6) \in Nat /\ (v6 = <<>> => Len(v6) = 0)
      BY <2>2, <2>3
    <3> QED BY <1>1, <2>4, <2>5, <2>7, <2>12, <3>1
  <2>14. ASSUME mode # "drop"
         PROVE  /\ Len(out) = Len(answer)
                /\ \A j \in 1 .. Len(answer) : \E k \in 1 .. Len(out) :
                      /\ out[k].ip = answer[j].ip
                      /\ out[k].type = "other" <=> answer[j].type = "other"
    <3>1. Len(out) = Len(answer)
      BY <2>4, <2>5, <2>7, <2>12, <2>14
    <3>2. ASSUME NEW j \in 1 .. Len(answer)
          PROVE  \E k \in 1 .. Len(out) : /\ out[k].ip = answer[j].ip
                                          /\ out[k].type = "other" <=> answer[j].type = "other"
      <4>a. \A type : j \in With(answer, type) => answer[j].type = type
        BY DEF With
      <4>1. CASE j \in With(answer, "other")
        BY <2>11, <4>1
      <4>2. CASE j \in With(answer, "A")
        <5>1. PICK i \in 1 .. Len(b) : b[i].ip = answer[j].ip
          BY <2>4, <2>14, <4>2
        <5>2. answer[j].type # "other"
          BY <4>2, <4>a
        <5>3. Len(a) + i \in 1 .. Len(out) /\ out[Len(a) + i] = b[i] /\ b[i].type # "other"
          BY <2>7, <2>9, <2>a
        <5> QED BY <5>1, <5>2, <5>3
      <4>3. CASE j \in With(answer, "AAAA")
        <5>1. PICK i \in 1 .. Len(c) : c[i].ip = answer[j].ip
          BY <2>5, <2>14, <4>3
        <5>2. answer[j].type # "other"
          BY <4>3, <4>a
        <5>3. /\ Len(a) + Len(b) + i \in 1 .. Len(out)
              /\ out[Len(a) + Len(b) + i] = c[i] /\ c[i].type # "other"
          BY <2>7, <2>9, <2>a
        <5> QED BY <5>1, <5>2, <5>3
      <4> QED BY <4>1, <4>2, <4>3, TypesPartition DEF Types
    <3> QED BY <3>1, <3>2
  <2> QED BY <2>10, <2>11, <2>13, <2>14 DEF out
<1> QED BY <1>2, <1>3, <1>4
=============================================================================
