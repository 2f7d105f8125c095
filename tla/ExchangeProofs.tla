--------------------------- MODULE ExchangeProofs ---------------------------
(* Theorems of Exchange: the answer of a query comes from the first stage    *)
(* that could give one, a query fails before its deadlines only when every   *)
(* upstream it may be sent to has failed, and until then it is never stuck.  *)
EXTENDS Exchange, SequenceTheorems, FiniteSetTheorems, TLAPS

ATs == {"idle", "udp", "tcp", "post", "get", "deliver", "ended"}
Contexts == {"query", "fallback"}
Chained == {"system", "fallback"}

-----------------------------------------------------------------------------
(* The inductive invariant                                                 *)

\* TypeOK, but for the equivalence of pc and answer.
Typed ==
    /\ cfg \in Configs
    /\ pc \in {"start", "answered", "failed"} \cup Stages
    /\ ctx \in [Contexts -> {"none", "live", "cancelled", "expired"}]
    /\ at \in [Upstreams -> ATs]
    /\ result \in [Upstreams -> {"none", "valid", "mismatched", "error"}]
    /\ chan \in [Stages -> Seq(Upstreams)]
    /\ closed \in BOOLEAN
    /\ failed \in [Stages -> Nat]
    /\ turn \in Seq(DoHs)
    /\ answer \in Upstreams \cup {None}

\* The stages still to come.
Ahead(s) == \/ pc = "start"
            \/ pc = "system" /\ s \in {"fallback", "doh"}
            \/ pc = "fallback" /\ s = "doh"

\* An exchange belongs to the stage it runs in, begins with it, has a result
\* exactly when it is over, and over DoH never a response that is not the query's.
Placed == \A u \in Upstreams : at[u] # "idle" => u \in Members(StageOf(u))
Untouched == \A u \in Upstreams : Ahead(StageOf(u)) => at[u] = "idle"
Kinds == \A u \in DoHs : at[u] \notin {"udp", "tcp"}
Settled == \A u \in Upstreams :
               /\ u \in DoHs => result[u] # "mismatched"
               /\ result[u] # "none" <=> at[u] \in {"deliver", "ended"}

\* The stages a query passes through, and the state of its contexts there.
Routed == /\ pc \in Chained => ~cfg.viaDoH
          /\ pc = "doh" => cfg.viaDoH \/ cfg.toDoH
Deadlines == /\ pc = "start" => \A c \in Contexts : ctx[c] = "none"
             /\ pc \in Stages => ctx["query"] \in {"live", "expired"}
             /\ pc = "fallback" => ctx["fallback"] \in {"live", "expired"}
             /\ ctx["fallback"] = "expired" => ctx["query"] = "expired"

\* A stage that is over without an answer has been refused or has run out of time.
GivenUp(s) == Refused(Members(s)) \/ ctx[Context(s)] = "expired"
Passed == /\ pc \in {"fallback", "doh", "failed"} /\ ~cfg.viaDoH => GivenUp("system")
          /\ pc \in {"doh", "failed"} /\ ~cfg.viaDoH => GivenUp("fallback")
          /\ pc = "failed" /\ (cfg.viaDoH \/ cfg.toDoH) => GivenUp("doh")

\* A retry through DoH that is answered had time left: no stage before it was given
\* up for a deadline.
InTime == pc = "doh" /\ ~cfg.viaDoH =>
              Refused(cfg.system \cup cfg.fallback) \/ \A u \in DoHs : result[u] # "valid"

\* What was sent on a channel comes from goroutines that are through, once from
\* each.
Sent == \A s \in Stages : \A i \in DOMAIN chan[s] :
            /\ chan[s][i] \in Members(s)
            /\ at[chan[s][i]] = "ended"
            /\ \A j \in DOMAIN chan[s] : chan[s][i] = chan[s][j] => i = j

InChannel(u, s) == \E i \in DOMAIN chan[s] : chan[s][i] = u

\* The failures that Plain.Exchange can have counted: those that are over and no
\* longer in the channel.
Lost(s) == { u \in Members(s) : /\ at[u] = "ended"
                                /\ result[u] = "error"
                                /\ ~InChannel(u, s) }
Counted == \A s \in Chained : failed[s] <= Cardinality(Lost(s))

\* A race sends successes only, and while the query waits none of them is lost.
OnlySuccesses == \A i \in DOMAIN chan["doh"] : result[chan["doh"][i]] = "valid"
NoneLost == pc = "doh" /\ cfg.race =>
                \A u \in DoHs : at[u] = "ended" /\ result[u] = "valid" => InChannel(u, "doh")

ClosedLast == closed => cfg.race /\ \A u \in DoHs : at[u] = "ended"

\* Failover: who is not in line any more has failed, and who is not yet first in
\* line has not begun.
InLine == pc = "doh" /\ ~cfg.race =>
              /\ turn # <<>>
              /\ \A i, j \in DOMAIN turn : turn[i] = turn[j] => i = j
              /\ \A u \in DoHs : \/ \E i \in DOMAIN turn : turn[i] = u
                                 \/ at[u] = "ended" /\ result[u] = "error"
              /\ \A i \in DOMAIN turn : i # 1 => at[turn[i]] = "idle"

Answered == /\ pc = "answered" <=> answer # None
            /\ AnswerIsDue

Control == Routed /\ Deadlines /\ Passed /\ Answered /\ InTime
Work == Placed /\ Untouched /\ Kinds /\ Settled
Channels == Sent /\ Counted /\ OnlySuccesses /\ NoneLost /\ ClosedLast

IInv == Typed /\ Control /\ Work /\ Channels /\ InLine

-----------------------------------------------------------------------------
(* The operators of Exchange                                               *)


LEMMA MembersOf == /\ Members("system") = cfg.system
                   /\ Members("fallback") = cfg.fallback
                   /\ Members("doh") = DoHs
<1>1. Members("system") = cfg.system
  BY Zenon DEF Members
<1>2. Members("fallback") = cfg.fallback
  BY Zenon DEF Members
<1>3. Members("doh") = DoHs
  BY Zenon DEF Members
<1> QED BY <1>1, <1>2, <1>3

LEMMA MembersKnown == ASSUME cfg \in Configs
                      PROVE  /\ cfg \in ConfigType
                             /\ cfg.system \subseteq Addresses
                             /\ cfg.fallback \subseteq Addresses
                             /\ cfg.system \cap cfg.fallback = {}
                             /\ cfg.race \in BOOLEAN /\ cfg.viaDoH \in BOOLEAN /\ cfg.toDoH \in BOOLEAN
BY ConstantsAssumption DEF ConfigType

LEMMA StageOfMember == ASSUME cfg \in Configs
                       PROVE  \A s \in Stages : \A u \in Members(s) :
                                  u \in Upstreams /\ StageOf(u) = s
<1>1. ASSUME NEW u \in cfg.system PROVE u \in Upstreams /\ StageOf(u) = "system"
  <2>1. u \in Addresses /\ u \notin cfg.fallback /\ u \notin DoHs
    BY <1>1, MembersKnown, ConstantsAssumption
  <2>2. StageOf(u) = "system"
    BY <2>1, Zenon DEF StageOf
  <2> QED BY <2>1, <2>2 DEF Upstreams
<1>2. ASSUME NEW u \in cfg.fallback PROVE u \in Upstreams /\ StageOf(u) = "fallback"
  <2>1. u \in Addresses /\ u \notin DoHs
    BY <1>2, MembersKnown, ConstantsAssumption
  <2> QED BY <1>2, <2>1, Zenon DEF StageOf, Upstreams
<1>3. ASSUME NEW u \in DoHs PROVE u \in Upstreams /\ StageOf(u) = "doh"
  <2>1. u \notin cfg.fallback
    BY <1>3, MembersKnown, ConstantsAssumption
  <2> QED BY <1>3, <2>1, Zenon DEF StageOf, Upstreams
<1> QED BY <1>1, <1>2, <1>3, MembersOf DEF Stages

LEMMA StageOfType == ASSUME cfg \in Configs PROVE \A u : StageOf(u) \in Stages
<1> TAKE u
<1>1. ~(u \in cfg.fallback /\ u \in DoHs)
  BY MembersKnown, ConstantsAssumption
<1>2. CASE u \in cfg.fallback
  <2>1. StageOf(u) = "fallback"
    BY <1>1, <1>2, Zenon DEF StageOf
  <2> QED BY <2>1 DEF Stages
<1>3. CASE u \in DoHs
  <2>1. StageOf(u) = "doh"
    BY <1>1, <1>3, Zenon DEF StageOf
  <2> QED BY <2>1 DEF Stages
<1>4. CASE u \notin cfg.fallback /\ u \notin DoHs
  <2>1. StageOf(u) = "system"
    BY <1>4, Zenon DEF StageOf
  <2> QED BY <2>1 DEF Stages
<1> QED BY <1>2, <1>3, <1>4

LEMMA MembersFinite == ASSUME cfg \in Configs, NEW s \in Stages PROVE IsFiniteSet(Members(s))
<1>1. IsFiniteSet(DoHs)
  <2>1. DoHs \subseteq DoHs /\ DOMAIN DoH = 1 .. Len(DoH) /\ Len(DoH) \in Nat
    BY ConstantsAssumption
  <2>2. IsFiniteSet(DOMAIN DoH)
    BY <2>1, FS_Interval
  <2>3. [i \in DOMAIN DoH |-> DoH[i]] \in Surjection(DOMAIN DoH, DoHs)
    BY DEF Surjection, DoHs
  <2> QED BY <2>2, <2>3, FS_Surjection
<1>2. IsFiniteSet(cfg.system) /\ IsFiniteSet(cfg.fallback)
  BY MembersKnown, ConstantsAssumption, FS_Subset
<1> QED BY <1>1, <1>2, MembersOf DEF Stages

LEMMA DoHsKnown == /\ DoHs # {}
                   /\ Len(DoH) \in Nat \ {0}
                   /\ DOMAIN DoH = 1 .. Len(DoH)
                   /\ \A i \in DOMAIN DoH : DoH[i] \in DoHs
                   /\ DoHs \subseteq Upstreams
BY ConstantsAssumption DEF DoHs, Upstreams

\* A failover goes once through all the upstreams.
LEMMA RotationCovers ==
    ASSUME NEW i \in DOMAIN DoH
    PROVE  /\ Rotation(i) \in Seq(DoHs)
           /\ Rotation(i) # <<>>
           /\ Rotation(i)[1] = DoH[i]
           /\ \A j, k \in DOMAIN Rotation(i) : Rotation(i)[j] = Rotation(i)[k] => j = k
           /\ \A u \in DoHs : \E j \in DOMAIN Rotation(i) : Rotation(i)[j] = u
<1> DEFINE n == Len(DoH)
           place == [j \in 1 .. n |-> 1 + ((i + j - 2) % n)]
<1>1. n \in Nat \ {0} /\ i \in 1 .. n /\ DOMAIN DoH = 1 .. n
  BY DoHsKnown
<1> HIDE DEF n, place
<1>2. \A a \in 0 .. 2 * n - 1 : a % n = IF a < n THEN a ELSE a - n
  BY <1>1
<1>3. ASSUME NEW j \in 1 .. n
      PROVE  /\ place[j] \in 1 .. n
             /\ i + j - 2 < n => place[j] = i + j - 1
             /\ ~(i + j - 2 < n) => place[j] = i + j - 1 - n
  <2> DEFINE a == i + j - 2
  <2>1. a \in 0 .. 2 * n - 1
    BY <1>1
  <2>2. place[j] = 1 + (a % n)
    BY DEF place
  <2> HIDE DEF a
  <2>3. a % n = IF a < n THEN a ELSE a - n
    BY <1>2, <2>1
  <2>4. place[j] = IF a < n THEN 1 + a ELSE 1 + (a - n)
    BY <1>1, <2>1, <2>2, <2>3
  <2> QED BY <1>1, <2>1, <2>4 DEF a
<1>4. place \in [1 .. n -> 1 .. n]
  BY <1>3 DEF place
<1>5. \A j, k \in 1 .. n : place[j] = place[k] => j = k
  <2> TAKE j, k \in 1 .. n
  <2>1. /\ i + j - 2 < n => place[j] = i + j - 1
        /\ ~(i + j - 2 < n) => place[j] = i + j - 1 - n
    BY <1>3
  <2>2. /\ i + k - 2 < n => place[k] = i + k - 1
        /\ ~(i + k - 2 < n) => place[k] = i + k - 1 - n
    BY <1>3
  <2>3. i \in Nat /\ j \in Nat /\ k \in Nat /\ i <= n /\ j <= n /\ k <= n /\ 1 <= j /\ 1 <= k
    BY <1>1
  <2> QED BY <1>1, <2>1, <2>2, <2>3
<1>6. \A m \in 1 .. n : \E j \in 1 .. n : place[j] = m
  <2> TAKE m \in 1 .. n
  <2>1. CASE m >= i
    <3>1. m - i + 1 \in 1 .. n /\ place[m - i + 1] = m
      BY <1>1, <1>3, <2>1
    <3> QED BY <3>1
  <2>2. CASE m < i
    <3> DEFINE j == m - i + 1 + n
    <3>1. j \in 1 .. n /\ ~(i + j - 2 < n) /\ i + j - 1 - n = m
      BY <1>1, <2>2
    <3> HIDE DEF j
    <3> QED BY <1>3, <3>1
  <2> QED BY <1>1, <2>1, <2>2
<1>7. Rotation(i) = [j \in 1 .. n |-> DoH[place[j]]]
  BY <1>1, Zenon DEF Rotation, place, n
<1>8. \A j \in 1 .. n : DoH[place[j]] \in DoHs
  BY <1>1, <1>4, DoHsKnown
<1>9. Rotation(i) \in Seq(DoHs)
  BY <1>1, <1>7, <1>8
<1>10. Rotation(i)[1] = DoH[i]
  BY <1>1, <1>3, <1>7
<1>11. \A j, k \in 1 .. n : DoH[place[j]] = DoH[place[k]] => j = k
  BY <1>1, <1>4, <1>5, ConstantsAssumption
<1>12. \A u \in DoHs : \E m \in 1 .. n : DoH[m] = u
  BY <1>1 DEF DoHs
<1>13. \A u \in DoHs : \E j \in 1 .. n : DoH[place[j]] = u
  BY <1>6, <1>12
<1>14. DOMAIN Rotation(i) = 1 .. n /\ \A j \in 1 .. n : Rotation(i)[j] = DoH[place[j]]
  BY <1>7
<1>15. Rotation(i) # <<>>
  BY <1>1, <1>9, <1>14
<1> QED BY <1>9, <1>10, <1>11, <1>13, <1>14, <1>15

-----------------------------------------------------------------------------
(* Facts that most steps need                                              *)

LEMMA SameMembers == ASSUME cfg' = cfg
                     PROVE  /\ \A s : Members(s)' = Members(s)
                            /\ \A u : StageOf(u)' = StageOf(u)
<1>1. ASSUME NEW s PROVE Members(s)' = Members(s)
  BY Zenon DEF Members
<1>2. ASSUME NEW u PROVE StageOf(u)' = StageOf(u)
  BY Zenon DEF StageOf
<1> QED BY <1>1, <1>2

\* A stage stays given up: no refusal is taken back, and time does not return.
LEMMA GivenUpStays ==
    ASSUME Typed, cfg' = cfg, NEW s \in Stages, GivenUp(s),
           \A v \in Upstreams : result[v] = "error" => result'[v] = "error",
           ctx[Context(s)] = "expired" => ctx'[Context(s)] = "expired"
    PROVE  GivenUp(s)'
<1>1. \A v \in Members(s) : v \in Upstreams
  BY StageOfMember DEF Typed
<1>2. Members(s)' = Members(s) /\ Context(s)' = Context(s)
  BY SameMembers DEF Context
<1>3. CASE Refused(Members(s))
  BY <1>1, <1>2, <1>3 DEF GivenUp, Refused
<1>4. CASE ctx[Context(s)] = "expired"
  BY <1>2, <1>4 DEF GivenUp
<1> QED BY <1>3, <1>4 DEF GivenUp

LEMMA RefusedStays ==
    ASSUME Typed, cfg' = cfg,
           \A v \in Upstreams : result[v] = "error" => result'[v] = "error"
    PROVE  /\ Refused(cfg.system) => Refused(cfg.system)'
           /\ Refused(cfg.system \cup cfg.fallback) => Refused(cfg.system \cup cfg.fallback)'
BY MembersKnown DEF Typed, Refused, Upstreams

\* An answer stays due: what has ended keeps its result.
LEMMA AnsweredStays ==
    ASSUME Typed, Answered, cfg' = cfg, pc' = pc, answer' = answer,
           \A v \in Upstreams : result[v] # "none" => result'[v] = result[v],
           ctx["query"] = "expired" => ctx'["query"] = "expired"
    PROVE  Answered'
<1>1. \A v \in Upstreams : result[v] = "error" => result'[v] = "error"
  OBVIOUS
<1>2. /\ Refused(cfg.system) => Refused(cfg.system)'
      /\ Refused(cfg.system \cup cfg.fallback) => Refused(cfg.system \cup cfg.fallback)'
  BY <1>1, RefusedStays
<1>3. pc = "answered" => answer \in Upstreams
  BY DEF Typed, Answered
<1> QED BY <1>2, <1>3 DEF Answered, AnswerIsDue

LEMMA InTimeStays ==
    ASSUME Typed, InTime, cfg' = cfg, pc' = pc, result' = result
    PROVE  InTime'
BY DEF InTime, Refused

\* Failures stay counted when no more are counted and none is forgotten.
LEMMA CountedStays ==
    ASSUME Typed, Counted, cfg' = cfg, failed' = failed,
           \A s \in Chained : Lost(s) \subseteq Lost(s)'
    PROVE  Counted'
<1> SUFFICES ASSUME NEW s \in Chained PROVE failed[s] <= Cardinality(Lost(s)')
  BY DEF Counted
<1>1. IsFiniteSet(Members(s)) /\ Members(s)' = Members(s) /\ s \in Stages
  BY MembersFinite, SameMembers DEF Typed, Chained, Stages
<1>2. IsFiniteSet(Lost(s)')
  <2>1. Lost(s)' \subseteq Members(s)
    BY <1>1 DEF Lost
  <2> QED BY <1>1, <2>1, FS_Subset
<1>3. Cardinality(Lost(s)) <= Cardinality(Lost(s)')
  BY <1>2, FS_Subset
<1>4. Cardinality(Lost(s)) \in Nat /\ Cardinality(Lost(s)') \in Nat
  BY <1>2, FS_Subset, FS_CardinalityType
<1>5. failed[s] \in Nat /\ failed[s] <= Cardinality(Lost(s))
  BY <1>1 DEF Typed, Counted
<1> QED BY <1>3, <1>4, <1>5

\* A channel has room for everybody who has not sent yet.
LEMMA RoomLeft ==
    ASSUME Typed, Sent, NEW s \in Stages, NEW u \in Members(s), at[u] # "ended"
    PROVE  Room(s)
<1> DEFINE c == chan[s]
           T == Members(s) \ {u}
<1>1. c \in Seq(Upstreams) /\ Len(c) \in Nat /\ DOMAIN c = 1 .. Len(c)
  BY DEF Typed
<1>2. /\ \A i \in DOMAIN c : c[i] \in T
      /\ \A i, j \in DOMAIN c : c[i] = c[j] => i = j
  BY DEF Sent
<1>3. IsFiniteSet(Members(s)) /\ Cardinality(Members(s)) \in Nat
  BY MembersFinite, FS_CardinalityType DEF Typed
<1>4. IsFiniteSet(T) /\ Cardinality(T) = Cardinality(Members(s)) - 1
  BY <1>3, FS_RemoveElement
<1>5. c \in Injection(1 .. Len(c), T)
  <2>1. c = [i \in 1 .. Len(c) |-> c[i]]
    BY <1>1
  <2>2. c \in [1 .. Len(c) -> T]
    BY <1>1, <1>2, <2>1
  <2> QED BY <1>1, <1>2, <2>2 DEF Injection, IsInjective
<1>6. Cardinality(1 .. Len(c)) <= Cardinality(T)
  BY <1>4, <1>5, FS_Injection
<1>7. Cardinality(1 .. Len(c)) = Len(c)
  BY <1>1, FS_Interval
<1> QED BY <1>1, <1>3, <1>4, <1>6, <1>7 DEF Room

-----------------------------------------------------------------------------
(* Each kind of step preserves the invariant                               *)

LEMMA InitInv == Init => IInv
<1> SUFFICES ASSUME Init PROVE IInv
  OBVIOUS
<1>1. Typed
  <2>1. <<>> \in Seq(Upstreams) /\ <<>> \in Seq(DoHs)
    OBVIOUS
  <2>2. chan \in [Stages -> Seq(Upstreams)] /\ failed \in [Stages -> Nat]
    BY <2>1 DEF Init
  <2>3. ctx \in [Contexts -> {"none", "live", "cancelled", "expired"}]
    BY DEF Init, Contexts
  <2> QED BY <2>1, <2>2, <2>3 DEF Init, Typed, ATs
<1>2. Control
  BY <1>1, ConstantsAssumption 
     DEF Init, Control, Routed, Deadlines, Contexts, Passed, Answered, AnswerIsDue, InTime, Stages, Chained
<1>3. Work
  BY DoHsKnown DEF Init, Work, Placed, Untouched, Kinds, Settled
<1>4. Counted
  <2>1. \A s \in Chained : s \in Stages /\ failed[s] = 0
    BY DEF Init, Chained, Stages
  <2>2. \A s \in Stages : IsFiniteSet(Members(s))
    BY <1>1, MembersFinite DEF Typed
  <2>3. \A s \in Stages : IsFiniteSet(Lost(s))
    BY <2>2, FS_Subset DEF Lost
  <2>4. \A s \in Stages : Cardinality(Lost(s)) \in Nat
    BY <2>3, FS_CardinalityType
  <2> QED BY <2>1, <2>4 DEF Counted
<1>5. \A s \in Stages : DOMAIN chan[s] = {}
  BY DEF Init
<1>6. Channels
  BY <1>4, <1>5 DEF Init, Channels, Sent, OnlySuccesses, NoneLost, ClosedLast, Stages
<1>7. InLine
  BY DEF Init, InLine
<1> QED BY <1>1, <1>2, <1>3, <1>6, <1>7 DEF IInv

\* A step of the exchange with u: it goes on, or ends with a result.
Asks(u) ==
    /\ at[u] \in {"udp", "tcp", "post", "get"}
    /\ \/ at[u] = "udp" /\ Goes(u, "tcp")
       \/ Goes(u, "get")
       \/ Ends(u, "error")
       \/ \E r \in {"valid", "mismatched"} : at[u] \in {"udp", "tcp"} /\ Ends(u, r)
       \/ Live(u) /\ Ends(u, "valid")
    /\ UNCHANGED quiet

LEMMA RequestSteps ==
    ASSUME NEW u \in Upstreams,
           PlainReply(u) \/ PlainTimeout(u) \/ DoHReply(u) \/ DoHTimeout(u)
    PROVE  Asks(u)
<1>1. CASE PlainReply(u)
  BY <1>1 DEF PlainReply, Asks
<1>2. CASE PlainTimeout(u)
  BY <1>2 DEF PlainTimeout, Asks
<1>3. CASE DoHReply(u)
  BY <1>3 DEF DoHReply, Asks
<1>4. CASE DoHTimeout(u)
  BY <1>4 DEF DoHTimeout, Asks
<1> QED BY <1>1, <1>2, <1>3, <1>4

LEMMA AsksKeepsInv ==
    ASSUME IInv, NEW u \in Upstreams, Asks(u)
    PROVE  IInv'
<1> USE DEF IInv
<1>1. /\ cfg' = cfg /\ pc' = pc /\ ctx' = ctx /\ chan' = chan
      /\ closed' = closed /\ failed' = failed /\ turn' = turn /\ answer' = answer
  BY DEF Asks, quiet
<1>2. PICK state \in {"tcp", "get", "deliver"}, r \in {"none", "valid", "mismatched", "error"} :
          /\ at' = [at EXCEPT ![u] = state]
          /\ result' = [result EXCEPT ![u] = r]
          /\ r # "none" <=> state = "deliver"
          /\ state = "tcp" \/ r = "mismatched" => at[u] \in {"udp", "tcp"}
          /\ r = "valid" => at[u] \in {"udp", "tcp"} \/ Live(u)
  <2>1. result[u] = "none"
    BY DEF Asks, Work, Settled
  <2>2. result = [result EXCEPT ![u] = "none"]
    BY <2>1 DEF Typed
  <2>3. CASE at[u] = "udp" /\ Goes(u, "tcp")
    BY <2>2, <2>3 DEF Goes
  <2>4. CASE Goes(u, "get")
    BY <2>2, <2>4 DEF Goes
  <2>5. CASE Ends(u, "error")
    BY <2>5 DEF Ends
  <2>6. CASE \E r \in {"valid", "mismatched"} : at[u] \in {"udp", "tcp"} /\ Ends(u, r)
    BY <2>6 DEF Ends
  <2>7. CASE Live(u) /\ Ends(u, "valid")
    BY <2>7 DEF Ends
  <2> QED BY <2>3, <2>4, <2>5, <2>6, <2>7 DEF Asks
<1>3. /\ at[u] \in {"udp", "tcp", "post", "get"} /\ result[u] = "none"
      /\ at'[u] = state /\ result'[u] = r
      /\ \A v \in Upstreams : v # u => at'[v] = at[v] /\ result'[v] = result[v]
  BY <1>2 DEF Asks, Typed, Work, Settled
<1>4. Typed'
  BY <1>1, <1>2 DEF Typed, ATs
<1>a. u \in DoHs => /\ state # "tcp" /\ r # "mismatched"
                    /\ r = "valid" => ctx["query"] = "live"
  <2>1. u \in DoHs => at[u] \notin {"udp", "tcp"}
    BY DEF Work, Kinds
  <2>2. u \in DoHs => StageOf(u) = "doh" /\ Context("doh") = "query"
    BY StageOfMember, MembersOf DEF Typed, Stages, Context
  <2> QED BY <1>2, <2>1, <2>2 DEF Live
<1>5. Control'
  <2>1. Routed' /\ Deadlines'
    BY <1>1 DEF Control, Routed, Deadlines
  <2>2. \A s \in Stages : GivenUp(s) => GivenUp(s)'
    BY <1>1, <1>3, GivenUpStays
  <2>3. Passed'
    BY <1>1, <2>2 DEF Control, Passed, Stages
  <2>4. Answered'
    BY <1>1, <1>3, AnsweredStays DEF Control
  <2>5. InTime'
    <3> SUFFICES ASSUME pc = "doh", ~cfg.viaDoH, NEW w \in DoHs, result'[w] = "valid"
                 PROVE  Refused(cfg.system \cup cfg.fallback)
      BY <1>1, <1>3, RefusedStays DEF InTime
    <3>1. CASE result[w] = "valid"
      BY <3>1 DEF Control, InTime
    <3>2. CASE result[w] # "valid"
      <4>1. ctx["query"] = "live"
        BY <1>3, <1>a, <3>2, DoHsKnown
      <4>2. /\ Context("system") = "query" /\ Context("fallback") = "fallback"
            /\ ctx["fallback"] # "expired"
        BY <4>1 DEF Context, Control, Deadlines
      <4> QED BY <4>1, <4>2, MembersOf DEF Control, Passed, GivenUp, Refused
    <3> QED BY <3>1, <3>2
  <2> QED BY <2>1, <2>3, <2>4, <2>5 DEF Control
<1>6. Work'
  <2>1. Kinds'
    BY <1>1, <1>2, <1>3, <1>a, DoHsKnown DEF Work, Kinds
  <2>2. Settled'
    BY <1>1, <1>2, <1>3, <1>a DEF Work, Settled
  <2> QED BY <1>1, <1>2, <1>3, <2>1, <2>2, SameMembers DEF Work, Placed, Untouched, Ahead
<1>7. \A s \in Stages : \A v \in Members(s) : v \in Upstreams
  BY StageOfMember DEF Typed
<1>8. Channels'
  <2>1. Sent' /\ OnlySuccesses'
    BY <1>1, <1>3, <1>7, SameMembers, MembersOf DEF Channels, Sent, OnlySuccesses, Stages
  <2>2. Counted'
    <3>1. \A s \in Chained : Lost(s) \subseteq Lost(s)'
      BY <1>1, <1>3, <1>7, SameMembers DEF Lost, InChannel, Chained, Stages
    <3> QED BY <1>1, <3>1, CountedStays DEF Channels
  <2>3. NoneLost' /\ ClosedLast'
    BY <1>1, <1>2, <1>3, DoHsKnown DEF Channels, NoneLost, ClosedLast, InChannel
  <2> QED BY <2>1, <2>2, <2>3 DEF Channels
<1>9. InLine'
  <2>1. \A i \in DOMAIN turn : turn[i] \in Upstreams
    BY DoHsKnown DEF Typed
  <2> QED BY <1>1, <1>3, <2>1, DoHsKnown DEF InLine
<1> QED BY <1>4, <1>5, <1>6, <1>8, <1>9

\* What a goroutine leaves in the channel of its stage: u, or nothing.
LEMMA DeliverEffect ==
    ASSUME IInv, NEW u \in Upstreams, Deliver(u)
    PROVE  LET s == StageOf(u)
           IN /\ s \in Stages /\ u \in Members(s)
              /\ at[u] = "deliver" /\ at' = [at EXCEPT ![u] = "ended"] /\ result' = result
              /\ result[u] \in {"valid", "mismatched", "error"}
              /\ UNCHANGED <<cfg, pc, ctx, closed, failed, turn, answer>>
              /\ \/ chan' = [chan EXCEPT ![s] = Append(@, u)] /\ (s = "doh" => result[u] = "valid")
                 \/ UNCHANGED chan /\ (s = "doh" => result[u] = "error")
<1> USE DEF IInv
<1> DEFINE s == StageOf(u)
<1>1. s \in Stages /\ u \in Members(s)
  BY StageOfType DEF Typed, Deliver, Work, Placed
<1>2. /\ at[u] = "deliver" /\ at' = [at EXCEPT ![u] = "ended"] /\ result' = result
      /\ UNCHANGED <<cfg, pc, ctx, closed, failed, turn, answer>>
  BY DEF Deliver, Goes
<1>3. result[u] \in {"valid", "mismatched", "error"} /\ (u \in DoHs => result[u] # "mismatched")
  BY <1>2 DEF Typed, Work, Settled
<1>4. CASE DeliverPlain(u)
  BY <1>1, <1>2, <1>3, <1>4 DEF DeliverPlain, Send
<1>5. CASE DeliverDoH(u)
  <2>1. Room("doh")
    BY <1>1, <1>2, <1>5, RoomLeft DEF Channels, DeliverDoH, Stages
  <2>2. u \in DoHs
    BY <1>1, <1>5, MembersOf DEF DeliverDoH
  <2> QED BY <1>1, <1>2, <1>3, <1>5, <2>1, <2>2 DEF DeliverDoH, Send
<1> QED BY <1>4, <1>5 DEF Deliver

LEMMA DeliverKeepsInv ==
    ASSUME IInv, NEW u \in Upstreams, Deliver(u)
    PROVE  IInv'
<1> USE DEF IInv
<1> DEFINE s == StageOf(u)
<1>1. /\ s \in Stages /\ u \in Members(s)
      /\ at[u] = "deliver" /\ at' = [at EXCEPT ![u] = "ended"] /\ result' = result
      /\ result[u] \in {"valid", "mismatched", "error"}
      /\ UNCHANGED <<cfg, pc, ctx, closed, failed, turn, answer>>
      /\ \/ chan' = [chan EXCEPT ![s] = Append(@, u)] /\ (s = "doh" => result[u] = "valid")
         \/ UNCHANGED chan /\ (s = "doh" => result[u] = "error")
  BY DeliverEffect
<1> HIDE DEF s
<1>2. /\ at'[u] = "ended"
      /\ \A v \in Upstreams : v # u => at'[v] = at[v]
  BY <1>1 DEF Typed
<1>3. \A t \in Stages : \A v \in Members(t) : v \in Upstreams /\ StageOf(v) = t
  BY StageOfMember DEF Typed
<1>4. /\ \A t : Members(t)' = Members(t)
      /\ \A v : StageOf(v)' = StageOf(v)
  BY <1>1, SameMembers
<1>5. \A t \in Stages : chan[t] \in Seq(Upstreams)
  BY DEF Typed
<1>6. /\ \A t \in Stages : chan'[t] \in Seq(Upstreams)
      /\ \A t \in Stages : \A i \in DOMAIN chan[t] : i \in DOMAIN chan'[t] /\ chan'[t][i] = chan[t][i]
      /\ \A t \in Stages : \A i \in DOMAIN chan'[t] :
             \/ i \in DOMAIN chan[t] /\ chan'[t][i] = chan[t][i]
             \/ t = s /\ i = Len(chan[t]) + 1 /\ chan'[t][i] = u /\ (t = "doh" => result[u] = "valid")
  <2>1. CASE UNCHANGED chan
    BY <1>5, <2>1
  <2>2. CASE chan' = [chan EXCEPT ![s] = Append(@, u)] /\ (s = "doh" => result[u] = "valid")
    <3>1. chan'[s] = Append(chan[s], u) /\ \A t \in Stages : t # s => chan'[t] = chan[t]
      BY <1>1, <2>2 DEF Typed
    <3>2. /\ Append(chan[s], u) \in Seq(Upstreams)
          /\ DOMAIN Append(chan[s], u) = 1 .. Len(chan[s]) + 1
          /\ DOMAIN chan[s] = 1 .. Len(chan[s]) /\ Len(chan[s]) \in Nat
          /\ \A i \in 1 .. Len(chan[s]) + 1 :
                Append(chan[s], u)[i] = IF i = Len(chan[s]) + 1 THEN u ELSE chan[s][i]
      BY <1>1, <1>5
    <3>3. \A i \in DOMAIN chan[s] : i \in DOMAIN chan'[s] /\ chan'[s][i] = chan[s][i]
      BY <3>1, <3>2
    <3>4. \A i \in DOMAIN chan'[s] : \/ i \in DOMAIN chan[s] /\ chan'[s][i] = chan[s][i]
                                     \/ i = Len(chan[s]) + 1 /\ chan'[s][i] = u
      BY <3>1, <3>2
    <3> QED BY <1>5, <2>2, <3>1, <3>2, <3>3, <3>4
  <2> QED BY <1>1, <2>1, <2>2
<1>7. Typed'
  <2>1. chan' \in [Stages -> Seq(Upstreams)]
    BY <1>1, <1>6 DEF Typed
  <2> QED BY <1>1, <2>1 DEF Typed, ATs
<1>8. Control'
  <2>1. Routed' /\ Deadlines'
    BY <1>1 DEF Control, Routed, Deadlines
  <2>2. \A t \in Stages : GivenUp(t) => GivenUp(t)'
    BY <1>1, GivenUpStays
  <2>3. Passed'
    BY <1>1, <2>2 DEF Control, Passed, Stages
  <2>4. Answered' /\ InTime'
    BY <1>1, AnsweredStays, InTimeStays DEF Control
  <2> QED BY <2>1, <2>3, <2>4 DEF Control
<1>9. Work'
  BY <1>1, <1>2, <1>4, DoHsKnown DEF Work, Placed, Untouched, Kinds, Settled, Ahead
<1>10. Sent'
  <2> SUFFICES ASSUME NEW t \in Stages, NEW i \in DOMAIN chan'[t]
               PROVE  /\ chan'[t][i] \in Members(t)
                      /\ at'[chan'[t][i]] = "ended"
                      /\ \A j \in DOMAIN chan'[t] : chan'[t][i] = chan'[t][j] => i = j
    BY <1>4, Zenon DEF Sent
  <2>1. \A j \in DOMAIN chan[t] : /\ chan[t][j] \in Members(t) /\ chan[t][j] \in Upstreams
                                  /\ at[chan[t][j]] = "ended" /\ chan[t][j] # u
    BY <1>1, <1>3 DEF Channels, Sent
  <2>2. \A j, k \in DOMAIN chan[t] : chan[t][j] = chan[t][k] => j = k
    BY DEF Channels, Sent
  <2>3. chan'[t][i] \in Members(t) /\ at'[chan'[t][i]] = "ended"
    BY <1>1, <1>2, <1>6, <2>1
  <2>4. \A j \in DOMAIN chan'[t] : chan'[t][i] = chan'[t][j] => i = j
    BY <1>6, <2>1, <2>2
  <2> QED BY <2>3, <2>4
<1>11. \A t \in Stages : \A v : InChannel(v, t) => InChannel(v, t)'
  BY <1>6 DEF InChannel
<1>12. \A t \in Stages : \A v \in Upstreams : v # u /\ InChannel(v, t)' => InChannel(v, t)
  BY <1>6 DEF InChannel
<1>13. Counted'
  <2>1. \A t \in Chained : Lost(t) \subseteq Lost(t)'
    <3> SUFFICES ASSUME NEW t \in Chained, NEW v \in Lost(t) PROVE v \in Lost(t)'
      OBVIOUS
    <3>1. t \in Stages
      BY DEF Chained, Stages
    <3>2. v \in Members(t) /\ at[v] = "ended" /\ result[v] = "error" /\ ~InChannel(v, t)
      BY DEF Lost
    <3>3. v \in Upstreams /\ v # u
      BY <1>1, <1>3, <3>1, <3>2
    <3>4. ~InChannel(v, t)' /\ at'[v] = "ended" /\ result'[v] = "error"
      BY <1>1, <1>2, <1>12, <3>1, <3>2, <3>3
    <3> QED BY <1>4, <3>2, <3>4 DEF Lost
  <2> QED BY <1>1, <2>1, CountedStays DEF Channels
<1>14. OnlySuccesses'
  <2>1. "doh" \in Stages
    BY DEF Stages
  <2> QED BY <1>1, <1>6, <2>1 DEF Channels, OnlySuccesses
<1>15. NoneLost'
  <2> SUFFICES ASSUME pc = "doh", cfg.race, NEW v \in DoHs, at'[v] = "ended", result[v] = "valid"
               PROVE  InChannel(v, "doh")'
    BY <1>1 DEF NoneLost
  <2>1. v \in Upstreams /\ "doh" \in Stages
    BY DoHsKnown DEF Stages
  <2>2. CASE v # u
    BY <1>2, <1>11, <2>1, <2>2 DEF Channels, NoneLost
  <2>3. CASE v = u
    <3>1. s = "doh"
      BY <1>3, <2>1, <2>3, MembersOf DEF s
    <3>2. chan' = [chan EXCEPT !["doh"] = Append(@, u)]
      BY <1>1, <2>3, <3>1
    <3>3. chan'["doh"] = Append(chan["doh"], u) /\ chan["doh"] \in Seq(Upstreams)
      BY <1>5, <2>1, <3>2 DEF Typed
    <3>4. Len(chan["doh"]) + 1 \in DOMAIN chan'["doh"] /\ chan'["doh"][Len(chan["doh"]) + 1] = u
      BY <3>3
    <3> QED BY <2>3, <3>4 DEF InChannel
  <2> QED BY <2>2, <2>3
<1>16. ClosedLast'
  BY <1>1, <1>2, DoHsKnown DEF Channels, ClosedLast
<1>17. InLine'
  <2>1. \A i \in DOMAIN turn : turn[i] \in DoHs /\ turn[i] \in Upstreams
    BY DoHsKnown DEF Typed
  <2>2. ASSUME pc = "doh", ~cfg.race PROVE s # "doh"
    BY <2>2 DEF Deliver, Concurrent, s
  <2>3. \A v \in DoHs : StageOf(v) = "doh" /\ v \in Upstreams
    BY <1>3, MembersOf DEF Stages
  <2>4. ASSUME pc = "doh", ~cfg.race PROVE \A v \in DoHs : at'[v] = at[v]
    BY <1>2, <2>2, <2>3, <2>4 DEF s
  <2> QED BY <1>1, <2>1, <2>4 DEF InLine
<1> QED BY <1>7, <1>8, <1>9, <1>10, <1>13, <1>14, <1>15, <1>16, <1>17 DEF Channels

LEMMA CloseKeepsInv == ASSUME IInv, Close PROVE IInv'
<1> USE DEF IInv
<1>1. /\ closed' = TRUE /\ cfg.race /\ \A u \in DoHs : at[u] = "ended"
      /\ UNCHANGED <<cfg, pc, ctx, at, result, chan, failed, turn, answer>>
  BY DEF Close
<1>2. Typed'
  BY <1>1 DEF Typed
<1>3. Control'
  <2>1. \A s \in Stages : GivenUp(s) => GivenUp(s)'
    BY <1>1, GivenUpStays
  <2>2. Answered' /\ InTime'
    BY <1>1, AnsweredStays, InTimeStays DEF Control
  <2> QED BY <1>1, <2>1, <2>2 DEF Control, Routed, Deadlines, Passed, Stages
<1>4. Work'
  BY <1>1, SameMembers DEF Work, Placed, Untouched, Kinds, Settled, Ahead
<1>5. Counted'
  <2>1. \A s \in Chained : Lost(s) \subseteq Lost(s)'
    BY <1>1, SameMembers DEF Lost, InChannel
  <2> QED BY <1>1, <2>1, CountedStays DEF Channels
<1>6. Channels'
  BY <1>1, <1>5, SameMembers DEF Channels, Sent, OnlySuccesses, NoneLost, InChannel, ClosedLast
<1>7. InLine'
  BY <1>1 DEF InLine
<1> QED BY <1>2, <1>3, <1>4, <1>6, <1>7

LEMMA ExpireKeepsInv == ASSUME IInv, NEW c \in Contexts, Expire(c) PROVE IInv'
<1> USE DEF IInv
<1>1. /\ ctx' = [ctx EXCEPT ![c] = "expired"] /\ ctx[c] # "none"
      /\ c = "fallback" => ctx["query"] = "expired"
      /\ UNCHANGED <<cfg, pc, at, result, chan, closed, failed, turn, answer>>
  BY DEF Expire
<1>2. Typed'
  BY <1>1 DEF Typed, Contexts
<1>3. \A d \in Contexts : ctx'[d] = IF d = c THEN "expired" ELSE ctx[d]
  BY <1>1 DEF Typed
<1>4. Control'
  <2>1. \A s : Context(s) \in Contexts
    BY DEF Context, Contexts
  <2>2. \A s \in Stages : GivenUp(s) => GivenUp(s)'
    BY <1>1, <1>3, <2>1, GivenUpStays
  <2>3. Passed'
    BY <1>1, <2>2 DEF Control, Passed, Stages
  <2>4. Deadlines'
    BY <1>1, <1>3 DEF Control, Deadlines, Contexts
  <2>5. Routed' /\ Answered' /\ InTime'
    <3>1. ctx["query"] = "expired" => ctx'["query"] = "expired"
      BY <1>3 DEF Contexts
    <3> QED BY <1>1, <3>1, AnsweredStays, InTimeStays DEF Control, Routed
  <2> QED BY <2>3, <2>4, <2>5 DEF Control
<1>5. Work'
  BY <1>1, SameMembers DEF Work, Placed, Untouched, Kinds, Settled, Ahead
<1>6. Counted'
  <2>1. \A s \in Chained : Lost(s) \subseteq Lost(s)'
    BY <1>1, SameMembers DEF Lost, InChannel
  <2> QED BY <1>1, <2>1, CountedStays DEF Channels
<1>7. Channels'
  BY <1>1, <1>6, SameMembers DEF Channels, Sent, OnlySuccesses, NoneLost, InChannel, ClosedLast
<1>8. InLine'
  BY <1>1 DEF InLine
<1> QED BY <1>2, <1>4, <1>5, <1>7, <1>8

-----------------------------------------------------------------------------
(* The steps of ServeDNS                                                   *)

LEMMA FirstKind == \A s : First(s) \in {"udp", "post"} /\ (s = "doh" => First(s) = "post")
BY DEF First

\* What they do to the exchanges: the first ones of a stage begin, and failover
\* puts one aside.
Proceeds ==
    /\ at' \in [Upstreams -> ATs]
    /\ \A v \in Upstreams :
          \/ at'[v] = at[v]
          \/ at[v] = "deliver" /\ at'[v] = "ended"
          \/ /\ at[v] = "idle" /\ at'[v] = First(StageOf(v))
             /\ v \in Members(StageOf(v))
             /\ ~Ahead(StageOf(v))'
    /\ \A s : Ahead(s)' => Ahead(s)

\* At most the first message of a channel is taken.
Takes == \A s \in Stages : \/ chan'[s] = chan[s]
                           \/ chan[s] # <<>> /\ chan'[s] = Tail(chan[s])

LEMMA TailIndex ==
    ASSUME Typed, Takes
    PROVE  /\ \A s \in Stages : chan'[s] \in Seq(Upstreams)
           /\ \A s \in Stages : \E k \in {0, 1} : \A i \in DOMAIN chan'[s] :
                 i + k \in DOMAIN chan[s] /\ chan'[s][i] = chan[s][i + k]
<1>1. \A s \in Stages : chan[s] \in Seq(Upstreams)
  BY DEF Typed
<1>2. ASSUME NEW s \in Stages
      PROVE  /\ chan'[s] \in Seq(Upstreams)
             /\ \E k \in {0, 1} : \A i \in DOMAIN chan'[s] :
                   i + k \in DOMAIN chan[s] /\ chan'[s][i] = chan[s][i + k]
  <2>1. CASE chan'[s] = chan[s]
    <3>1. \A i \in DOMAIN chan'[s] : i + 0 \in DOMAIN chan[s] /\ chan'[s][i] = chan[s][i + 0]
      BY <1>1, <2>1
    <3> QED BY <1>1, <2>1, <3>1
  <2>2. CASE chan[s] # <<>> /\ chan'[s] = Tail(chan[s])
    <3>1. \A i \in DOMAIN chan'[s] : i + 1 \in DOMAIN chan[s] /\ chan'[s][i] = chan[s][i + 1]
      BY <1>1, <2>2
    <3>2. chan'[s] \in Seq(Upstreams)
      BY <1>1, <2>2
    <3> QED BY <3>1, <3>2
  <2> QED BY <2>1, <2>2 DEF Takes
<1> QED BY <1>2

LEMMA ProceedsKeeps ==
    ASSUME IInv, cfg' = cfg, result' = result, closed' = closed, Proceeds, Takes
    PROVE  /\ Work' /\ Sent' /\ OnlySuccesses' /\ ClosedLast'
           /\ \A s \in Stages : Lost(s) \subseteq Lost(s)'
<1> USE DEF IInv
<1>1. /\ \A s : Members(s)' = Members(s)
      /\ \A v : StageOf(v)' = StageOf(v)
  BY SameMembers
<1>2. Work'
  <2>1. Placed'
    BY <1>1 DEF Proceeds, Work, Placed
  <2>2. Settled'
    BY FirstKind DEF Proceeds, Work, Settled
  <2>4. Kinds'
    <3>1. \A v \in DoHs : v \in Upstreams /\ StageOf(v) = "doh"
      BY StageOfMember, MembersOf DEF Typed, Stages
    <3> QED BY <3>1, FirstKind DEF Proceeds, Work, Kinds
  <2>3. Untouched'
    <3> SUFFICES ASSUME NEW v \in Upstreams, Ahead(StageOf(v))' PROVE at'[v] = "idle"
      BY <1>1 DEF Untouched
    <3>1. Ahead(StageOf(v))
      BY <1>1 DEF Proceeds, Ahead
    <3>2. at[v] = "idle"
      BY <3>1 DEF Work, Untouched
    <3> QED BY <3>2 DEF Proceeds
  <2> QED BY <2>1, <2>2, <2>3, <2>4 DEF Work
<1>3. \A v \in Upstreams : at[v] = "ended" => at'[v] = "ended"
  BY DEF Proceeds
<1>4. \A s \in Stages : \A v \in Members(s) : v \in Upstreams
  BY StageOfMember DEF Typed
<1>5. ASSUME NEW s \in Stages
      PROVE  \A i \in DOMAIN chan'[s] :
                /\ chan'[s][i] \in Members(s)
                /\ at'[chan'[s][i]] = "ended"
                /\ \A j \in DOMAIN chan'[s] : chan'[s][i] = chan'[s][j] => i = j
                /\ \E j \in DOMAIN chan[s] : chan[s][j] = chan'[s][i]
  <2>1. PICK k \in {0, 1} : \A i \in DOMAIN chan'[s] :
            i + k \in DOMAIN chan[s] /\ chan'[s][i] = chan[s][i + k]
    BY TailIndex
  <2>2. \A i \in DOMAIN chan[s] : /\ chan[s][i] \in Members(s)
                                  /\ at[chan[s][i]] = "ended"
                                  /\ \A j \in DOMAIN chan[s] : chan[s][i] = chan[s][j] => i = j
    BY DEF Channels, Sent
  <2>3. \A i \in DOMAIN chan'[s] : i \in Nat
    BY TailIndex
  <2> SUFFICES ASSUME NEW i \in DOMAIN chan'[s]
               PROVE  /\ chan'[s][i] \in Members(s)
                      /\ at'[chan'[s][i]] = "ended"
                      /\ \A j \in DOMAIN chan'[s] : chan'[s][i] = chan'[s][j] => i = j
                      /\ \E j \in DOMAIN chan[s] : chan[s][j] = chan'[s][i]
    OBVIOUS
  <2>4. chan'[s][i] \in Members(s) /\ at'[chan'[s][i]] = "ended"
    BY <1>3, <1>4, <2>1, <2>2
  <2>5. ASSUME NEW j \in DOMAIN chan'[s], chan'[s][i] = chan'[s][j] PROVE i = j
    <3>1. i + k = j + k
      BY <2>1, <2>2, <2>5
    <3> QED BY <2>3, <3>1
  <2> QED BY <2>1, <2>4, <2>5
<1>6. Sent'
  BY <1>1, <1>5, Zenon DEF Sent
<1>7. OnlySuccesses'
  BY <1>5 DEF OnlySuccesses, Channels, Stages
<1>8. ClosedLast'
  BY <1>3, DoHsKnown DEF Channels, ClosedLast
<1>9. ASSUME NEW s \in Stages, NEW v \in Lost(s) PROVE v \in Lost(s)'
  <2>1. v \in Members(s) /\ v \in Upstreams /\ at[v] = "ended" /\ result[v] = "error" /\ ~InChannel(v, s)
    BY <1>4 DEF Lost
  <2>2. ~InChannel(v, s)'
    BY <1>5, <2>1 DEF InChannel
  <2> QED BY <1>1, <1>3, <2>1, <2>2 DEF Lost
<1> QED BY <1>2, <1>6, <1>7, <1>8, <1>9

\* A stage that is still to come begins.
LEMMA EnterEffect ==
    ASSUME IInv, cfg' = cfg, result' = result, NEW s \in Stages, NEW contexts, Enter(s, contexts),
           pc \in {"start", "system", "fallback"}, Ahead(s)
    PROVE  /\ pc' = s /\ ctx' = contexts
           /\ Proceeds
           /\ turn' \in Seq(DoHs)
           /\ \A v \in DoHs : at'[v] # "ended"
           /\ InLine'
<1> USE DEF IInv
<1>1. /\ \A t : Members(t)' = Members(t)
      /\ \A v : StageOf(v)' = StageOf(v)
  BY SameMembers
<1>2. \A t \in Stages : \A v \in Members(t) : v \in Upstreams /\ StageOf(v) = t
  BY StageOfMember DEF Typed
<1>3. pc' = s /\ ctx' = contexts
  BY DEF Enter
<1>4. \A t : Ahead(t)' => Ahead(t) /\ t # s
  BY <1>3, Zenon DEF Ahead, Stages
<1>5. \A v \in Members(s) : at[v] = "idle"
  BY <1>2 DEF Work, Untouched
<1>6. \A v \in DoHs : v \in Upstreams /\ at[v] = "idle"
  <2>1. Ahead("doh")
    BY DEF Ahead
  <2> QED BY <1>2, <2>1, MembersOf DEF Work, Untouched, Stages
<1>7. ASSUME NEW S \in SUBSET Members(s), Begin(s, S)
      PROVE  /\ Proceeds
             /\ \A v \in Upstreams : at'[v] = IF v \in S THEN First(s) ELSE at[v]
  <2>1. \A v \in Upstreams : at'[v] = IF v \in S THEN First(s) ELSE at[v]
    BY <1>7 DEF Begin
  <2>2. at' \in [Upstreams -> ATs]
    BY <1>7, FirstKind DEF Begin, Typed, ATs
  <2>3. ASSUME NEW v \in Upstreams, v \in S
        PROVE  /\ at[v] = "idle" /\ at'[v] = First(StageOf(v))
               /\ v \in Members(StageOf(v))
               /\ ~Ahead(StageOf(v))'
    <3>1. StageOf(v) = s /\ v \in Members(s)
      BY <1>2, <2>3
    <3>2. ~Ahead(StageOf(v))'
      BY <1>1, <1>4, <3>1
    <3> QED BY <1>5, <2>1, <2>3, <3>1, <3>2
  <2>4. \A v \in Upstreams : v \notin S => at'[v] = at[v]
    BY <2>1
  <2> QED BY <1>4, <2>1, <2>2, <2>3, <2>4, Zenon DEF Proceeds
<1>8. CASE s = "doh" /\ ~cfg.race
  <2>1. PICK i \in DOMAIN DoH : turn' = Rotation(i) /\ Begin("doh", {DoH[i]})
    BY <1>8 DEF Enter
  <2>2. DoH[i] \in DoHs /\ {DoH[i]} \in SUBSET Members("doh")
    BY DoHsKnown, MembersOf
  <2>3. /\ Proceeds
        /\ \A v \in Upstreams : at'[v] = IF v \in {DoH[i]} THEN First("doh") ELSE at[v]
    BY <1>7, <1>8, <2>1, <2>2
  <2>4. /\ turn' \in Seq(DoHs) /\ turn' # <<>> /\ turn'[1] = DoH[i]
        /\ \A j, k \in DOMAIN turn' : turn'[j] = turn'[k] => j = k
        /\ \A u \in DoHs : \E j \in DOMAIN turn' : turn'[j] = u
    BY <2>1, RotationCovers
  <2>5. \A j \in DOMAIN turn' : j # 1 => at'[turn'[j]] = "idle"
    <3> SUFFICES ASSUME NEW j \in DOMAIN turn', j # 1 PROVE at'[turn'[j]] = "idle"
      OBVIOUS
    <3>1. 1 \in DOMAIN turn' /\ turn'[j] \in DoHs
      BY <2>4
    <3>2. turn'[j] # DoH[i]
      BY <2>4, <3>1
    <3> QED BY <1>6, <2>3, <3>1, <3>2
  <2>6. InLine'
    BY <2>4, <2>5 DEF InLine
  <2>7. \A v \in DoHs : at'[v] # "ended"
    BY <1>6, <2>3, FirstKind
  <2> QED BY <1>3, <2>3, <2>4, <2>6, <2>7
<1>9. CASE s # "doh" \/ cfg.race
  <2>1. Begin(s, Members(s)) /\ turn' = turn
    BY <1>9 DEF Enter
  <2>2. /\ Proceeds
        /\ \A v \in Upstreams : at'[v] = IF v \in Members(s) THEN First(s) ELSE at[v]
    BY <1>7, <2>1
  <2>3. \A v \in DoHs : at'[v] # "ended"
    BY <1>6, <2>2, FirstKind
  <2>4. InLine'
    BY <1>3, <1>9 DEF InLine
  <2> QED BY <1>3, <2>1, <2>2, <2>3, <2>4 DEF Typed
<1> QED BY <1>8, <1>9

LEMMA AfterKnown ==
    ASSUME Typed, NEW s
    PROVE  /\ After(s) \in [Contexts -> {"none", "live", "cancelled", "expired"}]
           /\ Cancelled(After(s)) \in [Contexts -> {"none", "live", "cancelled", "expired"}]
           /\ After(s)["query"] = ctx["query"]
           /\ \A c \in Contexts : /\ After(s)[c] = "expired" <=> ctx[c] = "expired"
                                  /\ Cancelled(After(s))[c] = "expired" <=> ctx[c] = "expired"
BY DEF Typed, After, Cancelled, Contexts

\* What Fail does to the exchanges does not depend on the reason.
LEMMA FailProceeds ==
    ASSUME IInv, cfg' = cfg, result' = result, pc \in Stages, Fail
    PROVE  Proceeds
<1>1. CASE pc = "system" /\ Enter("fallback", [ctx EXCEPT !["fallback"] = "live"])
  BY <1>1, EnterEffect DEF Ahead, Stages
<1>2. CASE pc \in {"system", "fallback"} /\ Enter("doh", After(pc))
  BY <1>2, EnterEffect DEF Ahead, Stages
<1>3. CASE pc' = "failed" /\ at' = at
  BY <1>3 DEF IInv, Proceeds, Typed, Ahead
<1> QED BY <1>1, <1>2, <1>3 DEF Fail

\* A stage that is given up for good reason passes the query on, or fails it.
LEMMA FailKeeps ==
    ASSUME IInv, cfg' = cfg, result' = result, pc \in Stages, GivenUp(pc), Fail
    PROVE  /\ pc' \in {"failed", "fallback", "doh"} /\ answer' = answer
           /\ ctx' \in [Contexts -> {"none", "live", "cancelled", "expired"}]
           /\ turn' \in Seq(DoHs)
           /\ Proceeds
           /\ Control'
           /\ InLine'
           /\ pc' = "doh" => \A v \in DoHs : at'[v] # "ended"
<1> USE DEF IInv
<1>1. pc \in {"system", "fallback", "doh"} /\ answer = None /\ answer' = None
  BY DEF Control, Answered, Fail, Stages
<1>2. /\ Context("system") = "query" /\ Context("doh") = "query" /\ Context("fallback") = "fallback"
      /\ "query" \in Contexts /\ "fallback" \in Contexts
      /\ \A s \in Stages : Context(s) \in Contexts
  BY DEF Context, Contexts
<1>3. ASSUME NEW s \in Stages, Members(s) = {} PROVE GivenUp(s)
  BY <1>3 DEF GivenUp, Refused
<1>4. ASSUME NEW s \in Stages, GivenUp(s), ctx[Context(s)] = "expired" => ctx'[Context(s)] = "expired"
      PROVE  GivenUp(s)'
  BY <1>4, GivenUpStays
<1>5. CASE pc = "system" /\ cfg.fallback # {} /\ Enter("fallback", [ctx EXCEPT !["fallback"] = "live"])
  <2>1. Ahead("fallback") /\ "fallback" \in Stages /\ "system" \in Stages
    BY <1>5 DEF Ahead, Stages
  <2>2. /\ pc' = "fallback" /\ ctx' = [ctx EXCEPT !["fallback"] = "live"]
        /\ Proceeds /\ turn' \in Seq(DoHs) /\ InLine'
    BY <1>5, <2>1, EnterEffect
  <2>3. ctx' \in [Contexts -> {"none", "live", "cancelled", "expired"}]
    BY <2>2 DEF Typed
  <2>4. ctx'["query"] = ctx["query"] /\ ctx'["fallback"] = "live"
    BY <1>2, <2>2 DEF Typed
  <2>5. GivenUp("system")'
    BY <1>2, <1>4, <1>5, <2>1, <2>4
  <2>6. Control'
    BY <1>1, <1>5, <2>2, <2>4, <2>5
       DEF Control, Routed, Deadlines, Passed, Answered, AnswerIsDue, InTime, Chained, Stages
  <2> QED BY <1>1, <2>2, <2>3, <2>6
<1>6. CASE /\ \/ pc = "system" /\ cfg.fallback = {}
              \/ pc = "fallback"
           /\ cfg.toDoH
           /\ Enter("doh", After(pc))
  <2>1. Ahead("doh") /\ "doh" \in Stages /\ "system" \in Stages /\ "fallback" \in Stages
    BY <1>6 DEF Ahead, Stages
  <2>2. /\ pc' = "doh" /\ ctx' = After(pc)
        /\ Proceeds /\ turn' \in Seq(DoHs) /\ InLine'
        /\ \A v \in DoHs : at'[v] # "ended"
    BY <1>6, <2>1, EnterEffect
  <2>3. /\ ctx' \in [Contexts -> {"none", "live", "cancelled", "expired"}]
        /\ ctx'["query"] = ctx["query"]
        /\ \A c \in Contexts : ctx'[c] = "expired" <=> ctx[c] = "expired"
    BY <2>2, AfterKnown
  <2>4. GivenUp("system") /\ GivenUp("fallback")
    BY <1>1, <1>3, <1>6, <2>1, MembersOf DEF Control, Passed, Routed, Chained
  <2>5. GivenUp("system")' /\ GivenUp("fallback")'
    BY <1>2, <1>4, <2>1, <2>3, <2>4
  <2>6. Deadlines'
    BY <1>1, <1>2, <2>2, <2>3 DEF Control, Deadlines, Stages
  <2>8. InTime'
    <3>1. \A v \in DoHs : v \in Upstreams /\ StageOf(v) = "doh"
      BY StageOfMember, MembersOf DEF Typed, Stages
    <3>2. \A v \in DoHs : result[v] = "none"
      BY <2>1, <3>1 DEF Work, Untouched, Settled, Typed
    <3> QED BY <3>2 DEF InTime
  <2>7. Control'
    BY <1>1, <1>6, <2>2, <2>5, <2>6, <2>8
       DEF Control, Routed, Passed, Answered, AnswerIsDue, Chained
  <2> QED BY <1>1, <2>2, <2>3, <2>7
<1>7. CASE /\ \/ pc = "system" /\ cfg.fallback = {} /\ ~cfg.toDoH
              \/ pc = "fallback" /\ ~cfg.toDoH
              \/ pc = "doh"
           /\ pc' = "failed"
           /\ ctx' = Cancelled(After(pc))
           /\ UNCHANGED <<at, turn>>
  <2>1. "doh" \in Stages /\ "system" \in Stages /\ "fallback" \in Stages
    BY DEF Stages
  <2>2. /\ ctx' \in [Contexts -> {"none", "live", "cancelled", "expired"}]
        /\ \A c \in Contexts : ctx'[c] = "expired" <=> ctx[c] = "expired"
    BY <1>7, AfterKnown
  <2>3. \A s \in Stages : GivenUp(s) => GivenUp(s)'
    BY <1>2, <1>4, <2>2
  <2>4. ~cfg.viaDoH => GivenUp("system") /\ GivenUp("fallback")
    BY <1>1, <1>3, <1>7, <2>1, MembersOf DEF Control, Passed, Routed, Chained
  <2>5. cfg.viaDoH \/ cfg.toDoH => GivenUp("doh")
    BY <1>7 DEF Control, Routed, Chained
  <2>6. Deadlines'
    BY <1>2, <1>7, <2>2 DEF Control, Deadlines, Stages
  <2>7. Control'
    BY <1>1, <1>7, <2>1, <2>3, <2>4, <2>5, <2>6
       DEF Control, Routed, Passed, Answered, AnswerIsDue, InTime, Chained
  <2>8. Proceeds
    BY <1>1, <1>7 DEF Proceeds, Typed, Ahead
  <2>9. InLine'
    BY <1>7 DEF InLine
  <2> QED BY <1>1, <1>7, <2>2, <2>7, <2>8, <2>9 DEF Typed
<1> QED BY <1>5, <1>6, <1>7 DEF Fail

\* A successful response of a member of the stage is an answer.
LEMMA AnswerKeeps ==
    ASSUME IInv, cfg' = cfg, result' = result, pc \in Stages,
           NEW u \in Members(pc), result[u] \in {"valid", "mismatched"}, Answer(u)
    PROVE  /\ pc' = "answered" /\ answer' \in Upstreams
           /\ ctx' \in [Contexts -> {"none", "live", "cancelled", "expired"}]
           /\ turn' = turn
           /\ Proceeds
           /\ Control'
           /\ InLine'
<1> USE DEF IInv
<1>1. pc' = "answered" /\ answer' = u /\ ctx' = Cancelled(After(pc)) /\ at' = at /\ turn' = turn
  BY DEF Answer
<1>2. u \in Upstreams /\ StageOf(u) = pc
  BY StageOfMember DEF Typed
<1>3. /\ ctx' \in [Contexts -> {"none", "live", "cancelled", "expired"}]
      /\ \A c \in Contexts : ctx'[c] = "expired" <=> ctx[c] = "expired"
  BY <1>1, AfterKnown
<1>4. Proceeds
  BY <1>1 DEF Proceeds, Typed, Ahead
<1>5. InLine'
  BY <1>1 DEF InLine
<1>6. /\ cfg.viaDoH => u \in DoHs
      /\ u \in cfg.fallback => Refused(cfg.system) \/ ctx["query"] = "expired"
      /\ u \in DoHs => /\ result[u] = "valid"
                       /\ cfg.viaDoH \/ (cfg.toDoH /\ Refused(cfg.system \cup cfg.fallback))
  <2>1. /\ \A v \in DoHs : StageOf(v) = "doh"
        /\ \A v \in cfg.fallback : StageOf(v) = "fallback"
    BY StageOfMember, MembersOf DEF Typed, Stages
  <2>2. cfg.viaDoH => u \in DoHs
    BY <1>2, <2>1, MembersOf DEF Control, Routed, Chained, Stages
  <2>3. ASSUME u \in cfg.fallback PROVE Refused(cfg.system) \/ ctx["query"] = "expired"
    BY <1>2, <2>1, <2>3, MembersOf, Zenon
       DEF Control, Routed, Passed, Chained, GivenUp, Context
  <2>4. ASSUME u \in DoHs
        PROVE  /\ result[u] = "valid"
               /\ cfg.viaDoH \/ (cfg.toDoH /\ Refused(cfg.system \cup cfg.fallback))
    <3>1. pc = "doh" /\ result[u] = "valid"
      BY <1>2, <2>1, <2>4 DEF Work, Settled
    <3> QED BY <2>4, <3>1 DEF Control, Routed, InTime
  <2> QED BY <2>2, <2>3, <2>4
<1>7. u # None
  BY <1>2, ConstantsAssumption
<1>8. Deadlines'
  BY <1>1, <1>3 DEF Control, Deadlines, Stages, Contexts
<1>9. Control'
  <2>1. Answered'
    <3>1. \A S : Refused(S) => Refused(S)'
      BY DEF Refused
    <3>2. ctx["query"] = "expired" => ctx'["query"] = "expired"
      BY <1>3 DEF Contexts
    <3> QED BY <1>1, <1>6, <1>7, <3>2, MembersKnown DEF Answered, AnswerIsDue, Refused, Typed
  <2> QED BY <1>1, <1>8, <2>1 DEF Control, Routed, Passed, InTime, Chained
<1> QED BY <1>1, <1>2, <1>3, <1>4, <1>5, <1>9

\* What remains to show of a step of ServeDNS.
LEMMA ServeKeeps ==
    ASSUME IInv, UNCHANGED <<cfg, result, closed>>,
           pc' \in {"start", "answered", "failed"} \cup Stages,
           ctx' \in [Contexts -> {"none", "live", "cancelled", "expired"}],
           turn' \in Seq(DoHs),
           answer' \in Upstreams \cup {None},
           chan' = [s \in Stages |-> chan'[s]], Takes,
           failed' \in [Stages -> Nat], Counted',
           Proceeds, Control', InLine',
           pc' = "doh" /\ cfg.race => \A v \in DoHs : at'[v] # "ended"
    PROVE  IInv'
<1>1. \A s \in Stages : chan'[s] \in Seq(Upstreams)
  BY TailIndex DEF IInv
<1>2. chan' \in [Stages -> Seq(Upstreams)]
  BY <1>1
<1>3. Typed'
  BY <1>2 DEF IInv, Typed, Proceeds
<1>4. Work' /\ Sent' /\ OnlySuccesses' /\ ClosedLast'
  BY ProceedsKeeps
<1>5. NoneLost'
  BY DEF NoneLost
<1> QED BY <1>3, <1>4, <1>5 DEF IInv, Channels

LEMMA SameChannels ==
    ASSUME IInv, UNCHANGED <<cfg, result, closed, chan, failed>>, Proceeds
    PROVE  /\ chan' = [s \in Stages |-> chan'[s]] /\ Takes
           /\ failed' \in [Stages -> Nat] /\ Counted'
<1>1. chan' = [s \in Stages |-> chan'[s]] /\ Takes /\ failed' \in [Stages -> Nat]
  BY DEF IInv, Typed, Takes
<1>2. \A s \in Chained : Lost(s) \subseteq Lost(s)'
  BY <1>1, ProceedsKeeps DEF Chained, Stages
<1> QED BY <1>1, <1>2, CountedStays DEF IInv, Channels

LEMMA FailOnly ==
    ASSUME IInv, UNCHANGED <<cfg, result, closed, chan, failed>>, pc \in Stages, GivenUp(pc), Fail
    PROVE  IInv'
<1>1. /\ pc' \in {"failed", "fallback", "doh"} /\ answer' = answer
      /\ ctx' \in [Contexts -> {"none", "live", "cancelled", "expired"}]
      /\ turn' \in Seq(DoHs)
      /\ Proceeds /\ Control' /\ InLine'
      /\ pc' = "doh" => \A v \in DoHs : at'[v] # "ended"
  BY FailKeeps
<1>2. /\ chan' = [s \in Stages |-> chan'[s]] /\ Takes
      /\ failed' \in [Stages -> Nat] /\ Counted'
  BY <1>1, SameChannels
<1>3. pc' \in {"start", "answered", "failed"} \cup Stages /\ answer' \in Upstreams \cup {None}
  BY <1>1 DEF IInv, Typed, Stages
<1> QED BY <1>1, <1>2, <1>3, ServeKeeps

LEMMA StartKeepsInv == ASSUME IInv, Start PROVE IInv'
<1> USE DEF IInv
<1> DEFINE s == IF cfg.viaDoH THEN "doh" ELSE "system"
           contexts == [ctx EXCEPT !["query"] = "live"]
<1>1. /\ pc = "start" /\ Enter(s, contexts) /\ s \in Stages /\ Ahead(s)
      /\ UNCHANGED <<cfg, result, chan, closed, failed, answer>>
  BY DEF Start, Stages, Ahead
<1>2. s = "doh" => cfg.viaDoH
  BY Zenon
<1>3. s # "doh" => s = "system" /\ ~cfg.viaDoH
  BY Zenon
<1> HIDE DEF s
<1>4. /\ pc' = s /\ ctx' = contexts
      /\ Proceeds /\ turn' \in Seq(DoHs) /\ InLine'
      /\ \A v \in DoHs : at'[v] # "ended"
  BY <1>1, EnterEffect
<1>5. /\ contexts \in [Contexts -> {"none", "live", "cancelled", "expired"}]
      /\ contexts["query"] = "live" /\ contexts["fallback"] = ctx["fallback"]
  BY DEF Typed, Contexts
<1> HIDE DEF contexts
<1>6. answer = None
  BY <1>1 DEF Control, Answered
<1>7. ctx["fallback"] # "expired"
  BY <1>1 DEF Control, Deadlines, Contexts
<1>8. Control'
  BY <1>1, <1>2, <1>3, <1>4, <1>5, <1>6, <1>7
     DEF Control, Routed, Deadlines, Passed, Answered, AnswerIsDue, InTime, Chained
<1>9. /\ chan' = [t \in Stages |-> chan'[t]] /\ Takes
      /\ failed' \in [Stages -> Nat] /\ Counted'
  BY <1>1, <1>4, SameChannels
<1>10. pc' \in {"start", "answered", "failed"} \cup Stages /\ answer' \in Upstreams \cup {None}
  BY <1>1, <1>4, <1>6 DEF Typed
<1> QED BY <1>1, <1>4, <1>5, <1>8, <1>9, <1>10, ServeKeeps

LEMMA NoUpstreamKeepsInv == ASSUME IInv, NoUpstream PROVE IInv'
<1>1. pc \in Stages /\ GivenUp(pc) /\ Fail /\ UNCHANGED <<cfg, result, chan, closed, failed>>
  BY DEF NoUpstream, GivenUp, Refused
<1> QED BY <1>1, FailOnly

LEMMA GiveUpKeepsInv == ASSUME IInv, GiveUp PROVE IInv'
<1>1. /\ pc \in Chained /\ pc \in Stages /\ Done(pc) /\ Fail
      /\ UNCHANGED <<cfg, result, chan, closed, failed>>
  BY DEF GiveUp, Chained, Stages
<1>2. ctx[Context(pc)] \in {"live", "expired"}
  BY <1>1 DEF IInv, Control, Deadlines, Context, Chained
<1>3. GivenUp(pc)
  BY <1>1, <1>2 DEF Done, GivenUp
<1> QED BY <1>1, <1>3, FailOnly

\* The response u is the answer; its message may be taken from the channel.
LEMMA AnswerOnly ==
    ASSUME IInv, UNCHANGED <<cfg, result, closed, failed>>, pc \in Stages,
           NEW u \in Members(pc), result[u] \in {"valid", "mismatched"}, Answer(u),
           \/ chan' = chan
           \/ chan[pc] # <<>> /\ chan' = [chan EXCEPT ![pc] = Tail(@)]
    PROVE  IInv'
<1>1. /\ pc' = "answered" /\ answer' \in Upstreams
      /\ ctx' \in [Contexts -> {"none", "live", "cancelled", "expired"}]
      /\ turn' = turn
      /\ Proceeds /\ Control' /\ InLine'
  BY AnswerKeeps
<1>2. chan' = [s \in Stages |-> chan'[s]] /\ Takes
  BY DEF IInv, Typed, Takes
<1>3. failed' \in [Stages -> Nat] /\ Counted'
  <2>1. \A s \in Chained : Lost(s) \subseteq Lost(s)'
    BY <1>1, <1>2, ProceedsKeeps DEF Chained, Stages
  <2> QED BY <2>1, CountedStays DEF IInv, Typed, Channels
<1>4. turn' \in Seq(DoHs)
  BY <1>1 DEF IInv, Typed
<1> QED BY <1>1, <1>2, <1>3, <1>4, ServeKeeps

\* The one exchange that failover waits for is the first in line.
LEMMA FirstInLine ==
    ASSUME IInv, pc = "doh", ~cfg.race, NEW u \in DoHs, at[u] = "deliver"
    PROVE  1 \in DOMAIN turn /\ turn[1] = u
<1>1. PICK i \in DOMAIN turn : turn[i] = u
  BY DEF IInv, InLine
<1>2. i = 1
  BY <1>1 DEF IInv, InLine
<1> QED BY <1>1, <1>2

\* Failover moves on to the next in line.
LEMMA FailoverKeeps ==
    ASSUME IInv, UNCHANGED <<cfg, result, chan, closed, failed, pc, ctx, answer>>,
           pc = "doh", ~cfg.race, NEW u \in DoHs, at[u] = "deliver", result[u] = "error",
           Len(turn) > 1, turn' = Tail(turn),
           at' = [at EXCEPT ![u] = "ended", ![turn[2]] = "post"]
    PROVE  IInv'
<1> USE DEF IInv
<1>1. turn \in Seq(DoHs) /\ Len(turn) \in Nat /\ DOMAIN turn = 1 .. Len(turn) /\ turn[1] = u
  BY FirstInLine DEF Typed
<1>2. /\ turn' \in Seq(DoHs) /\ Len(turn') = Len(turn) - 1 /\ DOMAIN turn' = 1 .. Len(turn) - 1
      /\ \A i \in DOMAIN turn' : i + 1 \in DOMAIN turn /\ i \in Nat /\ turn'[i] = turn[i + 1]
  BY <1>1
<1>3. /\ \A i, j \in DOMAIN turn : turn[i] = turn[j] => i = j
      /\ \A v \in DoHs : \/ \E i \in DOMAIN turn : turn[i] = v
                         \/ at[v] = "ended" /\ result[v] = "error"
      /\ \A i \in DOMAIN turn : i # 1 => at[turn[i]] = "idle"
  BY DEF InLine
<1>a. 2 \in DOMAIN turn /\ 1 \in DOMAIN turn /\ turn[2] \in DoHs
  BY <1>1
<1>b. PICK w \in DoHs : w = turn[2]
  BY <1>a
<1>4. w \in DoHs /\ w # u /\ at[w] = "idle"
  BY <1>1, <1>3, <1>a, <1>b
<1>5. /\ u \in Upstreams /\ w \in Upstreams
      /\ at' = [at EXCEPT ![u] = "ended", ![w] = "post"]
  BY <1>4, <1>b, DoHsKnown
<1>6. \A v \in Upstreams : at'[v] = IF v = w THEN "post" ELSE IF v = u THEN "ended" ELSE at[v]
  BY <1>4, <1>5 DEF Typed
<1>7. Proceeds
  <2>1. at' \in [Upstreams -> ATs]
    BY <1>5 DEF Typed, ATs
  <2>2. StageOf(w) = "doh" /\ w \in Members(StageOf(w))
    BY <1>4, MembersOf, StageOfMember DEF Typed, Stages
  <2>3. ~Ahead(StageOf(w))' /\ \A s : Ahead(s)' => Ahead(s)
    BY SameMembers DEF Ahead
  <2>4. ASSUME NEW v \in Upstreams
        PROVE  \/ at'[v] = at[v]
               \/ at[v] = "deliver" /\ at'[v] = "ended"
               \/ /\ at[v] = "idle" /\ at'[v] = First(StageOf(v))
                  /\ v \in Members(StageOf(v))
                  /\ ~Ahead(StageOf(v))'
    <3>1. CASE v = w
      BY <1>4, <1>6, <2>2, <2>3, <3>1, FirstKind
    <3>2. CASE v # w
      BY <1>6, <3>2
    <3> QED BY <3>1, <3>2
  <2> QED BY <2>1, <2>3, <2>4, Zenon DEF Proceeds
<1>8. Control'
  <2>1. \A s \in Stages : GivenUp(s) => GivenUp(s)'
    BY GivenUpStays
  <2>2. Passed'
    BY <2>1 DEF Control, Passed, Stages
  <2>3. Answered' /\ InTime'
    BY AnsweredStays, InTimeStays DEF Control
  <2> QED BY <2>2, <2>3 DEF Control, Routed, Deadlines
<1>9. InLine'
  <2>1. turn' # <<>>
    <3>1. Len(turn') \in Nat /\ Len(turn') # 0
      BY <1>1, <1>2
    <3> QED BY <3>1
  <2>2. \A i, j \in DOMAIN turn' : turn'[i] = turn'[j] => i = j
    <3> TAKE i, j \in DOMAIN turn'
    <3> HAVE turn'[i] = turn'[j]
    <3>1. i + 1 = j + 1
      BY <1>2, <1>3
    <3> QED BY <1>2, <3>1
  <2>3. \A v \in DoHs : \/ \E i \in DOMAIN turn' : turn'[i] = v
                        \/ at'[v] = "ended" /\ result'[v] = "error"
    <3> TAKE v \in DoHs
    <3>1. CASE v = u
      BY <1>4, <1>5, <1>6, <3>1
    <3>2. CASE v # u
      <4>1. CASE at[v] = "ended" /\ result[v] = "error"
        BY <1>4, <1>6, <4>1, DoHsKnown
      <4>2. CASE \E i \in DOMAIN turn : turn[i] = v
        <5>1. PICK i \in DOMAIN turn : turn[i] = v
          BY <4>2
        <5>2. i \in Nat /\ i - 1 \in DOMAIN turn' /\ (i - 1) + 1 = i
          BY <1>1, <1>2, <3>2, <5>1
        <5>3. turn'[i - 1] = v
          BY <1>2, <5>1, <5>2
        <5> QED BY <5>2, <5>3
      <4> QED BY <1>3, <4>1, <4>2
    <3> QED BY <3>1, <3>2
  <2>4. \A i \in DOMAIN turn' : i # 1 => at'[turn'[i]] = "idle"
    <3> SUFFICES ASSUME NEW i \in DOMAIN turn', i # 1 PROVE at'[turn'[i]] = "idle"
      OBVIOUS
    <3>1. i + 1 \in DOMAIN turn /\ i + 1 # 1 /\ i + 1 # 2 /\ turn'[i] = turn[i + 1]
      BY <1>2
    <3>2. at[turn[i + 1]] = "idle" /\ turn[i + 1] # w /\ turn[i + 1] # u /\ turn[i + 1] \in Upstreams
      BY <1>1, <1>3, <1>4, <1>a, <1>b, <3>1, DoHsKnown
    <3> QED BY <1>6, <3>1, <3>2
  <2> QED BY <2>1, <2>2, <2>3, <2>4 DEF InLine
<1>10. /\ chan' = [t \in Stages |-> chan'[t]] /\ Takes
       /\ failed' \in [Stages -> Nat] /\ Counted'
  BY <1>7, SameChannels
<1> QED BY <1>2, <1>7, <1>8, <1>9, <1>10, ServeKeeps DEF Typed

LEMMA ReturnKeepsInv == ASSUME IInv, Return PROVE IInv'
<1> USE DEF IInv
<1>1. PICK u \in Members(pc) :
          /\ at[u] = "deliver"
          /\ IF result[u] # "error"
             THEN Answer(u)
             ELSE IF pc = "doh" /\ Len(turn) > 1
             THEN /\ turn' = Tail(turn)
                  /\ at' = [at EXCEPT ![u] = "ended", ![turn[2]] = "post"]
                  /\ UNCHANGED <<pc, ctx, answer>>
             ELSE Fail
  BY DEF Return
<1>2. /\ pc \in Stages /\ ~Concurrent(pc)
      /\ UNCHANGED <<cfg, result, chan, closed, failed>>
  BY DEF Return
<1>3. u \in Upstreams
  BY <1>2, StageOfMember DEF Typed
<1>4. result[u] \in {"valid", "mismatched", "error"}
  BY <1>1, <1>3 DEF Typed, Work, Settled
<1>5. pc = "doh" => ~cfg.race /\ u \in DoHs
  BY <1>2, MembersOf DEF Concurrent
<1>6. CASE result[u] \in {"valid", "mismatched"}
  <2>1. Answer(u)
    BY <1>1, <1>6
  <2> QED BY <1>2, <1>6, <2>1, AnswerOnly
<1>7. CASE result[u] = "error" /\ pc = "doh" /\ Len(turn) > 1
  BY <1>1, <1>2, <1>5, <1>7, FailoverKeeps
<1>8. CASE result[u] = "error" /\ ~(pc = "doh" /\ Len(turn) > 1)
  <2>1. Fail
    BY <1>1, <1>8
  <2>2. Refused(Members(pc))
    <3>1. CASE pc = "doh"
      <4>1. turn \in Seq(DoHs) /\ Len(turn) \in Nat /\ ~(Len(turn) > 1) /\ turn[1] = u
        BY <1>1, <1>5, <1>8, <3>1, FirstInLine DEF Typed
      <4>2. \A i \in DOMAIN turn : turn[i] = u
        BY <4>1
      <4>3. \A v \in DoHs : result[v] = "error"
        BY <1>5, <1>8, <3>1, <4>2 DEF InLine
      <4> QED BY <3>1, <4>3, MembersOf DEF Refused
    <3>2. CASE pc # "doh"
      <4>1. IsFiniteSet(Members(pc)) /\ Cardinality(Members(pc)) \in Nat /\ ~(Cardinality(Members(pc)) > 1)
        BY <1>2, <3>2, MembersFinite, FS_CardinalityType DEF Typed, Concurrent
      <4>2. {u} \in SUBSET Members(pc) /\ Cardinality({u}) = 1
        BY FS_Singleton
      <4>3. Cardinality({u}) <= Cardinality(Members(pc))
        BY <4>1, <4>2, FS_Subset
      <4>4. Members(pc) = {u}
        BY <4>1, <4>2, <4>3, FS_Subset
      <4> QED BY <1>8, <4>4 DEF Refused
    <3> QED BY <3>1, <3>2
  <2> QED BY <1>2, <2>1, <2>2, FailOnly DEF GivenUp
<1> QED BY <1>4, <1>6, <1>7, <1>8

\* Plain.Exchange counts a failure: one that was not counted before.  When it has
\* counted as many as there are addresses, all of them have failed.
LEMMA CountFailure ==
    ASSUME IInv, UNCHANGED <<cfg, result, closed>>, NEW s \in Chained, chan[s] # <<>>,
           chan' = [chan EXCEPT ![s] = Tail(@)], Proceeds,
           result[Head(chan[s])] = "error",
           failed' = [failed EXCEPT ![s] = @ + 1]
    PROVE  /\ Counted' /\ failed' \in [Stages -> Nat]
           /\ failed'[s] = Cardinality(Members(s)) => Refused(Members(s))
<1> USE DEF IInv
<1>1. s \in Stages /\ chan[s] \in Seq(Upstreams)
  BY DEF Typed, Chained, Stages
<1>2. PICK h \in Upstreams : h = chan[s][1] /\ h = Head(chan[s]) /\ 1 \in DOMAIN chan[s]
  BY <1>1
<1>3. /\ \A i \in DOMAIN chan[s] : chan[s][i] \in Members(s) /\ at[chan[s][i]] = "ended"
      /\ \A i, j \in DOMAIN chan[s] : chan[s][i] = chan[s][j] => i = j
  BY <1>1 DEF Channels, Sent
<1>4. h \in Members(s) /\ at[h] = "ended" /\ InChannel(h, s) /\ result[h] = "error"
  BY <1>2, <1>3 DEF InChannel
<1>5. chan'[s] = Tail(chan[s]) /\ \A t \in Stages : t # s => chan'[t] = chan[t]
  BY <1>1 DEF Typed
<1>6. ~InChannel(h, s)'
  <2>1. \A i \in DOMAIN Tail(chan[s]) : /\ i + 1 \in DOMAIN chan[s] /\ i + 1 # 1
                                        /\ Tail(chan[s])[i] = chan[s][i + 1]
    BY <1>1, <1>2
  <2>2. \A i \in DOMAIN Tail(chan[s]) : Tail(chan[s])[i] # h
    BY <1>2, <1>3, <2>1
  <2> QED BY <1>5, <2>2 DEF InChannel
<1>7. Takes
  BY <1>5 DEF Takes
<1>8. \A t \in Stages : Lost(t) \subseteq Lost(t)'
  BY <1>7, ProceedsKeeps
<1>9. h \notin Lost(s) /\ h \in Lost(s)'
  <2>1. h \notin Lost(s)
    BY <1>4 DEF Lost
  <2>2. at'[h] = "ended" /\ result'[h] = "error" /\ h \in Members(s)'
    BY <1>4, SameMembers DEF Proceeds
  <2> QED BY <1>6, <2>1, <2>2 DEF Lost
<1>10. \A t \in Stages : IsFiniteSet(Members(t)) /\ Members(t)' = Members(t)
  BY MembersFinite, SameMembers DEF Typed
<1>11. \A t \in Stages : /\ Lost(t) \in SUBSET Members(t) /\ Lost(t)' \in SUBSET Members(t)
                         /\ IsFiniteSet(Lost(t)) /\ IsFiniteSet(Lost(t)')
                         /\ Cardinality(Lost(t)) \in Nat /\ Cardinality(Lost(t)') \in Nat
  <2> TAKE t \in Stages
  <2>1. Lost(t) \in SUBSET Members(t) /\ Lost(t)' \in SUBSET Members(t)
    BY <1>10 DEF Lost
  <2>2. IsFiniteSet(Lost(t)) /\ IsFiniteSet(Lost(t)')
    BY <1>10, <2>1, FS_Subset
  <2> QED BY <2>1, <2>2, FS_CardinalityType
<1>12. Cardinality(Lost(s)) + 1 <= Cardinality(Lost(s)')
  <2>1. /\ IsFiniteSet(Lost(s) \cup {h})
        /\ Cardinality(Lost(s) \cup {h}) = Cardinality(Lost(s)) + 1
    BY <1>1, <1>9, <1>11, FS_AddElement
  <2>2. Lost(s) \cup {h} \in SUBSET (Lost(s)')
    BY <1>1, <1>8, <1>9
  <2>3. Cardinality(Lost(s) \cup {h}) <= Cardinality(Lost(s)')
    BY <1>1, <1>11, <2>2, FS_Subset
  <2> QED BY <2>1, <2>3
<1>13. \A t \in Stages : Cardinality(Lost(t)) <= Cardinality(Lost(t)')
  BY <1>8, <1>11, FS_Subset
<1>14. /\ failed' \in [Stages -> Nat] /\ failed'[s] = failed[s] + 1 /\ failed[s] \in Nat
       /\ \A t \in Stages : t # s => failed'[t] = failed[t]
  BY <1>1 DEF Typed
<1>15. \A t \in Chained : t \in Stages /\ failed[t] \in Nat /\ failed[t] <= Cardinality(Lost(t))
  BY DEF Typed, Channels, Counted, Chained, Stages
<1>16. failed'[s] <= Cardinality(Lost(s)')
  BY <1>1, <1>11, <1>12, <1>14, <1>15
<1>17. Counted'
  <2> SUFFICES ASSUME NEW t \in Chained PROVE failed'[t] <= Cardinality(Lost(t)')
    BY DEF Counted
  <2>1. CASE t = s
    BY <1>16, <2>1
  <2>2. CASE t # s
    BY <1>11, <1>13, <1>14, <1>15, <2>2
  <2> QED BY <2>1, <2>2
<1>18. ASSUME failed'[s] = Cardinality(Members(s)) PROVE Refused(Members(s))
  <2>1. Cardinality(Lost(s)') <= Cardinality(Members(s)) /\ Cardinality(Members(s)) \in Nat
    BY <1>1, <1>10, <1>11, FS_Subset, FS_CardinalityType
  <2>2. Cardinality(Members(s)) = Cardinality(Lost(s)')
    BY <1>1, <1>11, <1>16, <1>18, <2>1
  <2>3. Members(s) = Lost(s)'
    BY <1>1, <1>10, <1>11, <2>2, FS_Subset
  <2>4. \A v \in Lost(s)' : result'[v] = "error"
    BY DEF Lost
  <2> QED BY <2>3, <2>4 DEF Refused
<1> QED BY <1>14, <1>17, <1>18

LEMMA ReceiveKeepsInv == ASSUME IInv, Receive PROVE IInv'
<1> USE DEF IInv
<1>1. PICK s \in Chained : s = pc
  BY DEF Receive, Chained
<1>2. /\ s \in Stages /\ pc \in Stages /\ chan[s] \in Seq(Upstreams) /\ chan[s] # <<>>
      /\ chan' = [chan EXCEPT ![s] = Tail(@)]
      /\ UNCHANGED <<cfg, result, closed>>
  BY <1>1 DEF Receive, Typed, Chained, Stages
<1>3. PICK h \in Upstreams : h = chan[s][1] /\ h = Head(chan[s]) /\ 1 \in DOMAIN chan[s]
  BY <1>2
<1>4. h \in Members(s) /\ at[h] = "ended"
  BY <1>2, <1>3 DEF Channels, Sent
<1>5. result[h] \in {"valid", "mismatched", "error"}
  BY <1>4 DEF Typed, Work, Settled
<1>6. CASE result[h] # "error"
  <2>1. Answer(h) /\ UNCHANGED failed /\ result[h] \in {"valid", "mismatched"}
    BY <1>1, <1>3, <1>5, <1>6 DEF Receive
  <2>2. h \in Members(pc) /\ chan[pc] # <<>> /\ chan' = [chan EXCEPT ![pc] = Tail(@)]
    BY <1>1, <1>2, <1>4
  <2> QED BY <1>2, <2>1, <2>2, AnswerOnly
<1>7. CASE result[h] = "error"
  <2>1. /\ failed' = [failed EXCEPT ![s] = @ + 1]
        /\ IF failed'[s] = Cardinality(Members(s))
           THEN Fail
           ELSE UNCHANGED <<pc, ctx, at, turn, answer>>
    BY <1>1, <1>3, <1>7 DEF Receive
  <2>2. chan' = [t \in Stages |-> chan'[t]] /\ Takes
    BY <1>2 DEF Typed, Takes
  <2>3. CASE failed'[s] # Cardinality(Members(s))
    <3>1. UNCHANGED <<pc, ctx, at, turn, answer>>
      BY <2>1, <2>3
    <3>2. Proceeds
      BY <3>1 DEF Proceeds, Typed, Ahead
    <3>3. Counted' /\ failed' \in [Stages -> Nat]
      BY <1>2, <1>3, <1>7, <2>1, <3>2, CountFailure
    <3>4. Control'
      <4>1. \A t \in Stages : GivenUp(t) => GivenUp(t)'
        BY <1>2, <3>1, GivenUpStays
      <4>2. Answered' /\ InTime'
        BY <1>2, <3>1, AnsweredStays, InTimeStays DEF Control
      <4> QED BY <1>2, <3>1, <4>1, <4>2 DEF Control, Routed, Deadlines, Passed, Stages
    <3>5. InLine' /\ pc' # "doh"
      BY <1>1, <3>1 DEF InLine, Chained
    <3> QED BY <1>2, <2>2, <3>1, <3>2, <3>3, <3>4, <3>5, ServeKeeps DEF Typed
  <2>4. CASE failed'[s] = Cardinality(Members(s))
    <3>1. Fail
      BY <2>1, <2>4
    <3>2. Proceeds
      BY <3>1, FailProceeds, <1>2
    <3>3. Counted' /\ failed' \in [Stages -> Nat] /\ Refused(Members(pc))
      BY <1>1, <1>2, <1>3, <1>7, <2>1, <2>4, <3>2, CountFailure
    <3>4. /\ pc' \in {"failed", "fallback", "doh"} /\ answer' = answer
          /\ ctx' \in [Contexts -> {"none", "live", "cancelled", "expired"}]
          /\ turn' \in Seq(DoHs)
          /\ Proceeds /\ Control' /\ InLine'
          /\ pc' = "doh" => \A v \in DoHs : at'[v] # "ended"
      BY <1>2, <3>1, <3>3, FailKeeps DEF GivenUp
    <3>5. pc' \in {"start", "answered", "failed"} \cup Stages /\ answer' \in Upstreams \cup {None}
      BY <3>4 DEF Typed, Stages
    <3> QED BY <1>2, <2>2, <3>3, <3>4, <3>5, ServeKeeps
  <2> QED BY <2>3, <2>4
<1> QED BY <1>6, <1>7

LEMMA ReceiveDoHKeepsInv == ASSUME IInv, ReceiveDoH PROVE IInv'
<1> USE DEF IInv
<1>1. /\ pc = "doh" /\ cfg.race /\ pc \in Stages /\ "doh" \in Stages
      /\ UNCHANGED <<cfg, result, closed, failed>>
      /\ chan["doh"] \in Seq(Upstreams)
  BY DEF ReceiveDoH, Typed, Stages
<1>2. CASE /\ chan["doh"] # <<>>
           /\ chan' = [chan EXCEPT !["doh"] = Tail(@)]
           /\ Answer(Head(chan["doh"]))
  <2>1. PICK h \in Upstreams : h = chan["doh"][1] /\ h = Head(chan["doh"]) /\ 1 \in DOMAIN chan["doh"]
    BY <1>1, <1>2
  <2>2. h \in Members(pc) /\ result[h] = "valid"
    BY <1>1, <2>1 DEF Channels, Sent, OnlySuccesses
  <2>3. Answer(h) /\ chan[pc] # <<>> /\ chan' = [chan EXCEPT ![pc] = Tail(@)]
    BY <1>1, <1>2, <2>1
  <2> QED BY <1>1, <2>2, <2>3, AnswerOnly
<1>3. CASE chan["doh"] = <<>> /\ closed /\ Fail /\ UNCHANGED chan
  <2>1. \A u \in DoHs : ~InChannel(u, "doh")
    BY <1>3 DEF InChannel
  <2>2. \A u \in DoHs : u \in Upstreams /\ at[u] = "ended" /\ result[u] # "valid"
    BY <1>1, <1>3, <2>1, DoHsKnown DEF Channels, ClosedLast, NoneLost
  <2>3. \A u \in DoHs : result[u] = "error"
    BY <2>2 DEF Typed, Work, Settled
  <2>4. GivenUp(pc)
    BY <1>1, <2>3, MembersOf DEF GivenUp, Refused
  <2> QED BY <1>1, <1>3, <2>4, FailOnly
<1> QED BY <1>1, <1>2, <1>3 DEF ReceiveDoH

-----------------------------------------------------------------------------
(* All steps together                                                      *)

LEMMA NextInv == IInv /\ [Next]_vars => IInv'
<1> SUFFICES ASSUME IInv, [Next]_vars PROVE IInv'
  OBVIOUS
<1>1. CASE ServeDNS
  BY <1>1, StartKeepsInv, NoUpstreamKeepsInv, ReturnKeepsInv, ReceiveKeepsInv,
     GiveUpKeepsInv, ReceiveDoHKeepsInv DEF ServeDNS
<1>2. ASSUME NEW u \in Upstreams,
             PlainReply(u) \/ PlainTimeout(u) \/ DoHReply(u) \/ DoHTimeout(u)
      PROVE  IInv'
  BY <1>2, RequestSteps, AsksKeepsInv
<1>3. ASSUME NEW u \in Upstreams, Deliver(u) PROVE IInv'
  BY <1>3, DeliverKeepsInv
<1>4. CASE Close
  BY <1>4, CloseKeepsInv
<1>5. ASSUME NEW c \in Contexts, Expire(c) PROVE IInv'
  BY <1>5, ExpireKeepsInv
<1>6. CASE UNCHANGED vars
  <2>1. UNCHANGED <<cfg, pc, ctx, at, result, chan, closed, failed, turn, answer>>
    BY <1>6 DEF vars
  <2>2. Typed'
    BY <2>1 DEF IInv, Typed
  <2>3. Control'
    <3>1. \A s \in Stages : GivenUp(s) => GivenUp(s)'
      BY <2>1, GivenUpStays DEF IInv
    <3>2. Answered' /\ InTime'
      BY <2>1, AnsweredStays, InTimeStays DEF IInv, Control
    <3> QED BY <2>1, <3>1, <3>2 DEF IInv, Control, Routed, Deadlines, Passed, Stages
  <2>4. Work' /\ Sent' /\ OnlySuccesses' /\ ClosedLast' /\ NoneLost' /\ InLine'
    BY <2>1, SameMembers
       DEF IInv, Work, Placed, Untouched, Kinds, Settled, Ahead, Channels, Sent, OnlySuccesses,
           ClosedLast, NoneLost, InChannel, InLine
  <2>5. Counted'
    <3>1. \A s \in Chained : Lost(s) \subseteq Lost(s)'
      BY <2>1, SameMembers DEF Lost, InChannel
    <3> QED BY <2>1, <3>1, CountedStays DEF IInv, Channels
  <2> QED BY <2>2, <2>3, <2>4, <2>5 DEF IInv, Channels
<1> QED BY <1>1, <1>2, <1>3, <1>4, <1>5, <1>6 DEF Next, Contexts

LEMMA Invariance == Spec => []IInv
BY InitInv, NextInv, PTL DEF Spec

-----------------------------------------------------------------------------
(* Somebody is always at work for a query                                  *)

Working == {"udp", "tcp", "post", "get", "deliver"}

\* The stage a query is in has begun: all its exchanges if they are concurrent,
\* the only one or the first in line if not.
Busy == /\ pc \in Stages /\ Concurrent(pc) => \A u \in Members(pc) : at[u] # "idle"
        /\ pc \in Chained /\ ~Concurrent(pc) => \A u \in Members(pc) : at[u] \in Working
        /\ pc = "doh" /\ ~cfg.race => at[turn[1]] \in Working

\* While Plain.Exchange may wait, it has counted every failure that was taken
\* from the channel, they are not all, and no success was taken or dropped.
Unfinished ==
    pc \in Chained /\ Concurrent(pc) /\ ~Done(pc) =>
        /\ failed[pc] = Cardinality(Lost(pc))
        /\ failed[pc] < Cardinality(Members(pc))
        /\ \A u \in Members(pc) : at[u] = "ended" /\ result[u] # "error" => InChannel(u, pc)

\* What the query waits for: one disjunct for NoUpstream, the replies and
\* timeouts, Deliver and Return, Receive and GiveUp, Close and ReceiveDoH.
Pending ==
    pc \in Stages =>
        \/ Members(pc) = {}
        \/ \E u \in Members(pc) : at[u] \in Working \ {"deliver"}
        \/ \E u \in Members(pc) : at[u] = "deliver" /\ (Concurrent(pc) => Room(pc))
        \/ pc \in Chained /\ Concurrent(pc) /\ (chan[pc] # <<>> \/ Done(pc))
        \/ pc = "doh" /\ cfg.race /\ \A u \in DoHs : at[u] = "ended"

\* A goroutine that has its result can send it.
HaveRoom == \A u \in Upstreams : at[u] = "deliver" => Room(StageOf(u))

LEMMA SameStage ==
    ASSUME cfg' = cfg, pc' = pc
    PROVE  /\ Concurrent(pc)' = Concurrent(pc) /\ Members(pc)' = Members(pc)
           /\ ctx' = ctx => Done(pc)' = Done(pc)
BY SameMembers DEF Concurrent, Done, Context

\* Who is at work stays so in steps of the exchanges with the upstreams.
LEMMA AsksKeepsProgress ==
    ASSUME IInv, Busy, Unfinished, NEW u \in Upstreams, Asks(u)
    PROVE  Busy' /\ Unfinished'
<1> USE DEF IInv
<1>1. /\ cfg' = cfg /\ pc' = pc /\ ctx' = ctx /\ chan' = chan
      /\ failed' = failed /\ turn' = turn
  BY DEF Asks, quiet
<1>2. /\ at[u] \notin {"idle", "ended"}
      /\ at'[u] \in Working
      /\ \A v \in Upstreams : v # u => at'[v] = at[v] /\ result'[v] = result[v]
  BY DEF Asks, Goes, Ends, Typed, Working
<1>3. \A v \in Members(pc) : pc \in Stages => v \in Upstreams
  BY StageOfMember DEF Typed
<1>4. /\ Concurrent(pc)' = Concurrent(pc) /\ Members(pc)' = Members(pc)
      /\ Done(pc)' = Done(pc)
  BY <1>1, SameStage
<1>5. pc = "doh" /\ ~cfg.race => turn[1] \in Upstreams
  <2>1. ASSUME pc = "doh", ~cfg.race PROVE turn[1] \in DoHs
    BY <2>1 DEF InLine, Typed
  <2> QED BY <2>1, DoHsKnown
<1>6. Busy'
  BY <1>1, <1>2, <1>3, <1>4, <1>5 DEF Busy, Working, Chained, Stages
<1>7. pc \in Stages => Lost(pc)' = Lost(pc)
  BY <1>1, <1>2, <1>3, <1>4, SameMembers DEF Lost, InChannel, Working
<1>8. Unfinished'
  BY <1>1, <1>2, <1>3, <1>4, <1>7 DEF Unfinished, InChannel, Chained, Stages, Working
<1> QED BY <1>6, <1>8

\* A goroutine sends while the loop waits for it: a result is dropped only when
\* the context is done.
LEMMA DeliverKeepsProgress ==
    ASSUME IInv, Busy, Unfinished, NEW u \in Upstreams, Deliver(u)
    PROVE  Busy' /\ Unfinished'
<1> USE DEF IInv
<1> DEFINE s == StageOf(u)
<1>1. /\ s \in Stages /\ u \in Members(s) /\ Concurrent(s)
      /\ at[u] = "deliver" /\ at' = [at EXCEPT ![u] = "ended"] /\ result' = result
      /\ UNCHANGED <<cfg, pc, ctx, closed, failed, turn, answer>>
      /\ \/ chan' = [chan EXCEPT ![s] = Append(@, u)]
         \/ UNCHANGED chan
  BY DeliverEffect DEF Deliver
<1>2. s # "doh" => Send(u) \/ Done(s)
  BY DEF Deliver, DeliverPlain, DeliverDoH
<1>3. Send(u) => chan' = [chan EXCEPT ![s] = Append(@, u)]
  BY DEF Send
<1> HIDE DEF s
<1>4. at'[u] = "ended" /\ \A v \in Upstreams : v # u => at'[v] = at[v]
  BY <1>1 DEF Typed
<1>5. \A t \in Stages : \A v \in Members(t) : v \in Upstreams /\ (t # s => v # u)
  BY StageOfMember DEF Typed, s
<1>6. /\ Concurrent(pc)' = Concurrent(pc) /\ Members(pc)' = Members(pc)
      /\ Done(pc)' = Done(pc)
  BY <1>1, SameStage
<1>7. Busy'
  <2>1. ASSUME pc \in Stages, Concurrent(pc) PROVE \A v \in Members(pc) : at'[v] # "idle"
    BY <1>4, <1>5, <2>1 DEF Busy
  <2>2. ASSUME pc \in Chained, ~Concurrent(pc) PROVE \A v \in Members(pc) : at'[v] \in Working
    BY <1>1, <1>4, <1>5, <2>2 DEF Busy, Chained, Stages
  <2>3. ASSUME pc = "doh", ~cfg.race PROVE at'[turn[1]] \in Working
    <3>1. turn[1] \in Members("doh")
      BY <2>3, MembersOf DEF InLine, Typed
    <3>2. s # "doh"
      BY <1>1, <2>3 DEF Concurrent
    <3> QED BY <1>4, <1>5, <2>3, <3>1, <3>2 DEF Busy, Stages
  <2> QED BY <1>1, <1>6, <2>1, <2>2, <2>3 DEF Busy
<1>8. Unfinished'
  <2> SUFFICES ASSUME pc \in Chained, Concurrent(pc), ~Done(pc)
               PROVE  /\ Lost(pc)' = Lost(pc)
                      /\ \A v \in Members(pc) : at'[v] = "ended" /\ result'[v] # "error" => InChannel(v, pc)'
    BY <1>1, <1>6 DEF Unfinished
  <2>1. pc \in Stages /\ chan[pc] \in Seq(Upstreams)
    BY DEF Chained, Stages, Typed
  <2>2. CASE s # pc
    <3>1. chan'[pc] = chan[pc]
      BY <1>1, <2>1, <2>2 DEF Typed
    <3>2. \A v : InChannel(v, pc)' <=> InChannel(v, pc)
      BY <1>1, <3>1 DEF InChannel
    <3>3. \A v \in Members(pc) : at'[v] = at[v]
      BY <1>4, <1>5, <2>1, <2>2
    <3> QED BY <1>1, <1>6, <3>2, <3>3 DEF Lost, Unfinished
  <2>3. CASE s = pc
    <3>1. chan'[pc] = Append(chan[pc], u)
      BY <1>1, <1>2, <1>3, <2>1, <2>3 DEF Typed, Chained
    <3>2. \A v : InChannel(v, pc)' <=> InChannel(v, pc) \/ v = u
      <4>1. /\ DOMAIN chan'[pc] = 1 .. Len(chan[pc]) + 1 /\ DOMAIN chan[pc] = 1 .. Len(chan[pc])
            /\ Len(chan[pc]) \in Nat
            /\ \A i \in 1 .. Len(chan[pc]) + 1 :
                  chan'[pc][i] = IF i = Len(chan[pc]) + 1 THEN u ELSE chan[pc][i]
        BY <2>1, <3>1
      <4>2. ASSUME NEW v, InChannel(v, pc) \/ v = u PROVE \E i \in DOMAIN chan'[pc] : chan'[pc][i] = v
        <5>1. CASE v = u
          <6>1. Len(chan[pc]) + 1 \in DOMAIN chan'[pc] /\ chan'[pc][Len(chan[pc]) + 1] = u
            BY <4>1
          <6> QED BY <5>1, <6>1
        <5>2. CASE InChannel(v, pc)
          <6>1. PICK i \in 1 .. Len(chan[pc]) : chan[pc][i] = v
            BY <4>1, <5>2 DEF InChannel
          <6>2. i \in 1 .. Len(chan[pc]) + 1 /\ i # Len(chan[pc]) + 1
            BY <4>1
          <6> QED BY <4>1, <6>1, <6>2
        <5> QED BY <4>2, <5>1, <5>2
      <4>3. ASSUME NEW v, NEW i \in DOMAIN chan'[pc], chan'[pc][i] = v PROVE InChannel(v, pc) \/ v = u
        BY <4>1, <4>3 DEF InChannel
      <4> QED BY <1>1, <4>2, <4>3 DEF InChannel
    <3>3. \A v \in Members(pc) : v # u => at'[v] = at[v]
      BY <1>4, <1>5, <2>1
    <3> QED BY <1>1, <1>4, <1>6, <3>2, <3>3 DEF Lost, Unfinished
  <2> QED BY <2>2, <2>3
<1> QED BY <1>7, <1>8

\* The loop is not concerned by the closing of the other channel, and a deadline
\* ends its wait.
LEMMA TimeKeepsProgress ==
    ASSUME IInv, Busy, Unfinished,
           UNCHANGED <<cfg, pc, at, result, chan, failed, turn>>,
           \A c \in Contexts : ctx'[c] = ctx[c] \/ ctx'[c] = "expired"
    PROVE  Busy' /\ Unfinished'
<1>1. Concurrent(pc)' = Concurrent(pc) /\ Members(pc)' = Members(pc)
  BY SameStage
<1>2. ~Done(pc)' => ~Done(pc)
  BY DEF Done, Context, Contexts
<1>3. Lost(pc)' = Lost(pc)
  BY <1>1 DEF Lost, InChannel
<1> QED BY <1>1, <1>2, <1>3 DEF Busy, Unfinished, InChannel

\* A stage begins with somebody at work and nothing counted.
LEMMA EnterMakesProgress ==
    ASSUME IInv, cfg' = cfg, result' = result, NEW s \in Stages, NEW contexts, Enter(s, contexts),
           pc \in {"start", "system", "fallback"}, Ahead(s), s \in Chained => failed'[s] = failed[s]
    PROVE  Busy' /\ Unfinished'
<1> USE DEF IInv
<1>1. /\ \A t : Members(t)' = Members(t)
      /\ pc' = s /\ Concurrent(s)' = Concurrent(s)
  BY SameMembers DEF Enter, Concurrent
<1>2. \A v \in Members(s) : v \in Upstreams /\ StageOf(v) = s
  BY StageOfMember DEF Typed
<1>3. First(s) \in Working /\ First(s) # "idle" /\ First(s) # "ended"
  BY FirstKind DEF Working
<1>4. ASSUME s # "doh" \/ cfg.race PROVE \A v \in Members(s) : at'[v] = First(s)
  BY <1>2, <1>4 DEF Enter, Begin
<1>5. ASSUME s = "doh", ~cfg.race PROVE at'[turn'[1]] = First(s)
  <2>1. PICK i \in DOMAIN DoH : turn' = Rotation(i) /\ Begin(s, {DoH[i]})
    BY <1>5 DEF Enter
  <2>2. turn'[1] = DoH[i] /\ DoH[i] \in Upstreams
    BY <2>1, RotationCovers, DoHsKnown
  <2> QED BY <2>1, <2>2 DEF Begin
<1>6. Busy'
  BY <1>1, <1>3, <1>4, <1>5 DEF Busy, Concurrent, Chained
<1>7. Unfinished'
  <2> SUFFICES ASSUME s \in Chained, Concurrent(s)
               PROVE  /\ failed'[s] = Cardinality(Lost(s)')
                      /\ failed'[s] < Cardinality(Members(s))
                      /\ \A v \in Members(s) : at'[v] # "ended"
    BY <1>1 DEF Unfinished
  <2>1. \A v \in Members(s) : at[v] = "idle" /\ at'[v] # "ended"
    BY <1>2, <1>3, <1>4 DEF Work, Untouched, Chained
  <2>2. Lost(s) = {} /\ Lost(s)' = {}
    BY <1>1, <2>1 DEF Lost
  <2>3. failed[s] \in Nat /\ failed[s] <= Cardinality(Lost(s)) /\ failed'[s] = failed[s]
    BY DEF Typed, Channels, Counted
  <2>4. failed'[s] = 0 /\ Cardinality(Lost(s)') = 0
    BY <2>2, <2>3, FS_EmptySet
  <2>5. Cardinality(Members(s)) > 1 /\ Cardinality(Members(s)) \in Nat
    BY MembersFinite, FS_CardinalityType DEF Concurrent, Chained, Typed
  <2> QED BY <2>1, <2>4, <2>5
<1> QED BY <1>6, <1>7

LEMMA OverMakesProgress == ASSUME pc' \notin Stages PROVE Busy' /\ Unfinished'
BY DEF Busy, Unfinished, Stages, Chained

LEMMA FailMakesProgress ==
    ASSUME IInv, cfg' = cfg, result' = result, pc \in Stages, Fail,
           \A s \in Chained : s # pc => failed'[s] = failed[s]
    PROVE  Busy' /\ Unfinished'
<1>1. CASE pc = "system" /\ Enter("fallback", [ctx EXCEPT !["fallback"] = "live"])
  BY <1>1, EnterMakesProgress DEF Ahead, Stages
<1>2. CASE pc \in {"system", "fallback"} /\ Enter("doh", After(pc))
  BY <1>2, EnterMakesProgress DEF Ahead, Stages, Chained
<1>3. CASE pc' = "failed"
  BY <1>3, OverMakesProgress DEF Stages
<1> QED BY <1>1, <1>2, <1>3 DEF Fail

LEMMA ReturnMakesProgress == ASSUME IInv, Busy, Unfinished, Return PROVE Busy' /\ Unfinished'
<1>1. PICK u \in Members(pc) :
          /\ at[u] = "deliver"
          /\ IF result[u] # "error"
             THEN Answer(u)
             ELSE IF pc = "doh" /\ Len(turn) > 1
             THEN /\ turn' = Tail(turn)
                  /\ at' = [at EXCEPT ![u] = "ended", ![turn[2]] = "post"]
                  /\ UNCHANGED <<pc, ctx, answer>>
             ELSE Fail
  BY DEF Return
<1>2. /\ pc \in Stages /\ ~Concurrent(pc)
      /\ UNCHANGED <<cfg, result, chan, closed, failed>>
  BY DEF Return
<1>3. CASE Answer(u)
  BY <1>3, OverMakesProgress DEF Answer, Stages
<1>4. CASE Fail
  BY <1>2, <1>4, FailMakesProgress
<1>5. CASE /\ pc = "doh" /\ Len(turn) > 1
           /\ turn' = Tail(turn)
           /\ at' = [at EXCEPT ![u] = "ended", ![turn[2]] = "post"]
           /\ UNCHANGED <<pc, ctx, answer>>
  <2>1. turn \in Seq(DoHs) /\ at \in [Upstreams -> ATs]
    BY DEF IInv, Typed
  <2>2. turn'[1] = turn[2] /\ turn[2] \in DoHs
    BY <1>5, <2>1
  <2>3. at'[turn'[1]] = "post"
    BY <1>5, <2>1, <2>2, DoHsKnown
  <2>4. ~Concurrent(pc)'
    BY <1>2, <1>5, SameStage
  <2> QED BY <1>5, <2>3, <2>4 DEF Busy, Unfinished, Working, Chained, Stages
<1> QED BY <1>1, <1>3, <1>4, <1>5

\* A failure that was not counted before is counted; the last one ends the stage.
LEMMA ReceiveMakesProgress == ASSUME IInv, Busy, Unfinished, Receive PROVE Busy' /\ Unfinished'
<1> USE DEF IInv
<1>1. PICK s \in Chained : s = pc
  BY DEF Receive, Chained
<1>2. /\ s \in Stages /\ chan[s] \in Seq(Upstreams) /\ chan[s] # <<>>
      /\ chan' = [chan EXCEPT ![s] = Tail(@)]
      /\ UNCHANGED <<cfg, result, closed>>
  BY <1>1 DEF Receive, Typed, Chained, Stages
<1>3. PICK h \in Upstreams : h = chan[s][1] /\ h = Head(chan[s]) /\ 1 \in DOMAIN chan[s]
  BY <1>2
<1>4. CASE Answer(h)
  BY <1>4, OverMakesProgress DEF Answer, Stages
<1>5. CASE failed' = [failed EXCEPT ![s] = @ + 1] /\ Fail
  <2>1. \A t \in Chained : t # s => failed'[t] = failed[t]
    BY <1>5 DEF Typed, Chained, Stages
  <2> QED BY <1>1, <1>2, <1>5, <2>1, FailMakesProgress
<1>6. CASE /\ result[h] = "error"
           /\ failed' = [failed EXCEPT ![s] = @ + 1]
           /\ failed'[s] # Cardinality(Members(s))
           /\ UNCHANGED <<pc, ctx, at, turn, answer>>
  <2>1. /\ Concurrent(pc)' = Concurrent(pc) /\ Members(pc)' = Members(pc)
        /\ Done(pc)' = Done(pc)
    BY <1>2, <1>6, SameStage
  <2>2. Busy'
    BY <1>1, <1>2, <1>6, <2>1 DEF Busy, Chained
  <2> SUFFICES ASSUME Concurrent(s), ~Done(s)
               PROVE  /\ failed'[s] = Cardinality(Lost(s)')
                      /\ failed'[s] < Cardinality(Members(s))
                      /\ \A u \in Members(s) :
                            at[u] = "ended" /\ result[u] # "error" => InChannel(u, s)'
    BY <1>1, <1>2, <1>6, <2>1, <2>2 DEF Unfinished
  <2>3. /\ failed[s] = Cardinality(Lost(s)) /\ failed[s] < Cardinality(Members(s))
        /\ \A u \in Members(s) : at[u] = "ended" /\ result[u] # "error" => InChannel(u, s)
    BY <1>1 DEF Unfinished
  <2>4. /\ h \in Members(s) /\ at[h] = "ended" /\ InChannel(h, s)
        /\ \A i \in DOMAIN chan[s] : chan[s][i] = h => i = 1
    BY <1>2, <1>3 DEF Channels, Sent, InChannel
  <2>5. \A u : InChannel(u, s)' <=> InChannel(u, s) /\ u # h
    <3>1. chan'[s] = Tail(chan[s])
      BY <1>2 DEF Typed
    <3>2. DOMAIN chan[s] = 1 .. Len(chan[s]) /\ Len(chan[s]) \in Nat
      BY <1>2
    <3>a. Len(Tail(chan[s])) = Len(chan[s]) - 1 /\ Tail(chan[s]) \in Seq(Upstreams)
      BY <1>2
    <3>b. /\ DOMAIN chan'[s] = 1 .. Len(chan[s]) - 1
          /\ \A i \in 1 .. Len(chan[s]) - 1 : chan'[s][i] = chan[s][i + 1]
      <4>1. DOMAIN Tail(chan[s]) = 1 .. Len(Tail(chan[s]))
        BY <3>a
      <4>2. \A i \in 1 .. Len(chan[s]) - 1 : Tail(chan[s])[i] = chan[s][i + 1]
        BY <1>2, <3>2
      <4> QED BY <3>1, <3>a, <4>1, <4>2
    <3>3. ASSUME NEW u, NEW i \in DOMAIN chan'[s], chan'[s][i] = u PROVE InChannel(u, s) /\ u # h
      <4>1. i + 1 \in DOMAIN chan[s] /\ chan[s][i + 1] = u /\ i + 1 # 1
        BY <3>2, <3>3, <3>b
      <4> QED BY <2>4, <4>1 DEF InChannel
    <3>4. ASSUME NEW u, NEW i \in DOMAIN chan[s], chan[s][i] = u, u # h
          PROVE  \E j \in DOMAIN chan'[s] : chan'[s][j] = u
      <4>1. i # 1
        BY <1>3, <3>4
      <4>2. i - 1 \in DOMAIN chan'[s] /\ chan'[s][i - 1] = chan[s][(i - 1) + 1] /\ (i - 1) + 1 = i
        BY <3>2, <3>4, <3>b, <4>1
      <4> QED BY <3>4, <4>2
    <3> QED BY <1>6, <3>3, <3>4 DEF InChannel
  <2>6. Lost(s)' = Lost(s) \cup {h} /\ h \notin Lost(s)
    BY <1>1, <1>2, <1>6, <2>1, <2>4, <2>5 DEF Lost
  <2>7. IsFiniteSet(Lost(s))
    <3>1. Lost(s) \in SUBSET Members(s)
      BY DEF Lost
    <3> QED BY <1>2, <3>1, MembersFinite, FS_Subset DEF Typed
  <2>8. Cardinality(Lost(s)') = Cardinality(Lost(s)) + 1
    BY <2>6, <2>7, FS_AddElement
  <2>9. failed'[s] = failed[s] + 1 /\ failed[s] \in Nat /\ Cardinality(Members(s)) \in Nat
    BY <1>2, <1>6, MembersFinite, FS_CardinalityType DEF Typed
  <2> QED BY <1>6, <2>3, <2>5, <2>8, <2>9
<1> QED BY <1>1, <1>3, <1>4, <1>5, <1>6 DEF Receive

LEMMA NextMakesProgress == IInv /\ Busy /\ Unfinished /\ [Next]_vars => Busy' /\ Unfinished'
<1> SUFFICES ASSUME IInv, Busy, Unfinished, [Next]_vars PROVE Busy' /\ Unfinished'
  OBVIOUS
<1>1. CASE Start
  <2> DEFINE s == IF cfg.viaDoH THEN "doh" ELSE "system"
  <2>1. /\ pc = "start" /\ Enter(s, [ctx EXCEPT !["query"] = "live"]) /\ s \in Stages /\ Ahead(s)
        /\ UNCHANGED <<cfg, result, chan, closed, failed, answer>>
    BY <1>1 DEF Start, Stages, Ahead
  <2> HIDE DEF s
  <2> QED BY <2>1, EnterMakesProgress
<1>2. CASE NoUpstream \/ GiveUp
  BY <1>2, FailMakesProgress DEF NoUpstream, GiveUp, Stages
<1>3. CASE Return
  BY <1>3, ReturnMakesProgress
<1>4. CASE Receive
  BY <1>4, ReceiveMakesProgress
<1>5. CASE ReceiveDoH
  <2>1. CASE pc' = "answered"
    BY <2>1, OverMakesProgress DEF Stages
  <2>2. CASE Fail
    BY <1>5, <2>2, FailMakesProgress DEF ReceiveDoH, Stages
  <2> QED BY <1>5, <2>1, <2>2 DEF ReceiveDoH, Answer
<1>6. ASSUME NEW u \in Upstreams,
             PlainReply(u) \/ PlainTimeout(u) \/ DoHReply(u) \/ DoHTimeout(u)
      PROVE  Busy' /\ Unfinished'
  BY <1>6, RequestSteps, AsksKeepsProgress
<1>7. ASSUME NEW u \in Upstreams, Deliver(u) PROVE Busy' /\ Unfinished'
  BY <1>7, DeliverKeepsProgress
<1>8. CASE Close
  BY <1>8, TimeKeepsProgress DEF Close
<1>9. ASSUME NEW c \in Contexts, Expire(c) PROVE Busy' /\ Unfinished'
  BY <1>9, TimeKeepsProgress DEF Expire, IInv, Typed
<1>10. CASE UNCHANGED vars
  BY <1>10, TimeKeepsProgress DEF vars
<1> QED BY <1>1, <1>2, <1>3, <1>4, <1>5, <1>6, <1>7, <1>8, <1>9, <1>10
     DEF Next, ServeDNS, Contexts

LEMMA ProgressInvariance == Spec => [](IInv /\ Busy /\ Unfinished)
<1>1. Init => Busy /\ Unfinished
  BY OverMakesProgress DEF Init, Busy, Unfinished, Stages, Chained
<1> QED BY <1>1, InitInv, NextInv, NextMakesProgress, PTL DEF Spec

LEMMA RoomForAll == IInv => HaveRoom
<1> SUFFICES ASSUME IInv, NEW u \in Upstreams, at[u] = "deliver" PROVE Room(StageOf(u))
  BY DEF HaveRoom
<1>1. StageOf(u) \in Stages /\ u \in Members(StageOf(u))
  BY StageOfType DEF IInv, Typed, Work, Placed
<1> QED BY <1>1, RoomLeft DEF IInv, Channels

\* If all goroutines of a chain are through and nothing is in the channel, all
\* have failed and been counted.
LEMMA SomebodyWorks == IInv /\ Busy /\ Unfinished => Pending
<1> SUFFICES ASSUME IInv, Busy, Unfinished, pc \in Stages PROVE Pending
  BY DEF Pending
<1> USE DEF IInv
<1>1. \A v \in Members(pc) : v \in Upstreams /\ StageOf(v) = pc
  BY StageOfMember DEF Typed
<1>2. CASE pc \in Chained /\ ~Concurrent(pc)
  BY <1>2 DEF Busy, Pending, Working
<1>3. CASE pc = "doh" /\ ~cfg.race
  <2>1. turn[1] \in Members(pc) /\ at[turn[1]] \in Working /\ ~Concurrent(pc)
    BY <1>3, MembersOf DEF Busy, InLine, Typed, Concurrent
  <2> QED BY <2>1 DEF Pending, Working
<1>4. CASE Concurrent(pc)
  <2>1. CASE \E u \in Members(pc) : at[u] \in Working \ {"deliver"}
    BY <2>1 DEF Pending
  <2>2. CASE \E u \in Members(pc) : at[u] = "deliver"
    BY <1>1, <2>2, RoomForAll DEF HaveRoom, Pending
  <2>3. CASE \A u \in Members(pc) : at[u] = "ended"
    <3>1. CASE pc = "doh"
      BY <1>4, <2>3, <3>1, MembersOf DEF Pending, Concurrent
    <3>2. CASE pc \in Chained
      <4> SUFFICES ASSUME chan[pc] = <<>>, ~Done(pc) PROVE FALSE
        BY <1>4, <3>2 DEF Pending
      <4>1. \A u : ~InChannel(u, pc)
        BY DEF InChannel
      <4>2. \A u \in Members(pc) : result[u] \in {"valid", "mismatched", "error"}
        BY <1>1, <2>3 DEF Typed, Work, Settled
      <4>3. Lost(pc) = Members(pc)
        BY <1>4, <2>3, <3>2, <4>1, <4>2 DEF Unfinished, Lost
      <4>4. failed[pc] \in Nat /\ failed[pc] = Cardinality(Members(pc))
            /\ failed[pc] < Cardinality(Members(pc))
        BY <1>4, <3>2, <4>3 DEF Typed, Unfinished
      <4> QED BY <4>4
    <3> QED BY <3>1, <3>2 DEF Stages, Chained
  <2>4. \A u \in Members(pc) : at[u] \in Working \cup {"ended"}
    BY <1>1, <1>4 DEF Busy, Typed, ATs, Working
  <2> QED BY <2>1, <2>2, <2>3, <2>4
<1> QED BY <1>2, <1>3, <1>4 DEF Stages, Chained, Concurrent

-----------------------------------------------------------------------------
(* Exchange is the upstream part of Engine's ServeDNS                      *)

\* An engine with the one query, which has passed the semaphore, and its only
\* configuration.
EngineConfig(c) ==
    [valid |-> TRUE, full |-> FALSE,
     polluted |-> IF c.viaDoH THEN {"name"} ELSE {},
     fallback |-> c.fallback # {}, toDoH |-> c.toDoH, probe |-> TRUE,
     files |-> {}, urls |-> {}, refresh |-> FALSE]

\* Engine calls the retry through DoH dohFallback, and goes on to its cache or to
\* the reply of SERVFAIL.
EngineState == CASE pc = "start" -> "route"
                 [] pc = "doh" -> IF cfg.viaDoH THEN "doh" ELSE "dohFallback"
                 [] pc = "answered" -> "store"
                 [] pc = "failed" -> "fail"
                 [] OTHER -> pc

EngineAnswer == IF pc = "answered" THEN {[by |-> "boot", at |-> 0]} ELSE {}

Of(x) == [q \in {"query"} |-> x]
Only(x) == [i \in {"boot"} |-> x]
Built == [c \in {"cfg", "matcher", "doh", "system", "systemFB", "prober"} |-> "boot"]

E == INSTANCE Engine WITH
       Queries <- {"query"}, Keys <- {"name"}, KeyOf <- Of("name"),
       Reloads <- {}, Boot <- "boot", None <- "nil", Configs <- { EngineConfig(c) : c \in Configs },
       MaxInflight <- 1, CacheSize <- 1,
       comp <- Built, overrideM <- "boot", conf <- Only(EngineConfig(cfg)),
       mgr <- Only([loop |-> "absent", cancelled |-> FALSE, files |-> {}, urls |-> {}]),
       sem <- 1, store <- [k \in {} |-> {}], got <- {},
       pc <- Of(EngineState), seen <- Of([om |-> "nil", cfg |-> "boot"]), snap <- Of(Built),
       ans <- Of(EngineAnswer), since <- Of({}),
       reload <- [r \in {} |-> {}], shut <- [pc |-> "idle", om |-> "nil"], epoch <- Only(0)

ImplementsEngine == [][E!QueryStep("query")]_(E!vars)

LEMMA Updated == \A x, y : [Of(x) EXCEPT !["query"] = y] = Of(y) /\ Of(x)["query"] = x
BY DEF Of

LEMMA BuiltFromOne == /\ Built["cfg"] = "boot" /\ Built["matcher"] = "boot"
                      /\ Built["systemFB"] = "boot"
                      /\ \A x : Only(x)["boot"] = x
BY DEF Built, Only

\* The second critical section.
LEMMA StartRoutes == ASSUME Start PROVE E!QueryStep("query")
<1>1. /\ pc = "start" /\ cfg' = cfg
      /\ pc' = IF cfg.viaDoH THEN "doh" ELSE "system"
  BY DEF Start, Enter
<1>2. EngineState = "route"
  BY <1>1 DEF EngineState
<1>3. EngineState' = IF cfg.viaDoH THEN "doh" ELSE "system"
  <2>1. CASE cfg.viaDoH
    BY <1>1, <2>1, Zenon DEF EngineState
  <2>2. CASE ~cfg.viaDoH
    BY <1>1, <2>2, Zenon DEF EngineState
  <2> QED BY <2>1, <2>2
<1>4. EngineAnswer = {} /\ EngineAnswer' = {}
  BY <1>1 DEF EngineAnswer
<1>5. E!ViaDoH(Built, Of("name")["query"]) <=> cfg.viaDoH
  BY Updated, BuiltFromOne DEF E!ViaDoH, EngineConfig
<1>6. E!Route("query")
  BY <1>1, <1>2, <1>3, <1>4, <1>5, Updated
     DEF E!Route, E!Goto, E!Cache!Quiet, E!Unread, Of, Built
<1> QED BY <1>1, <1>6 DEF E!QueryStep, EngineConfig

LEMMA ExchangeSteps ==
    ASSUME cfg' = cfg,
           EngineState \in {"doh", "system", "fallback", "dohFallback"},
           \/ EngineState' = E!NextUpstream("query") /\ EngineAnswer' = EngineAnswer
           \/ EngineState' = "store" /\ EngineAnswer' = {[by |-> "boot", at |-> 0]}
    PROVE  E!QueryStep("query")
<1>1. E!Exchange("query")
  <2>1. Of(EngineState)["query"] \in {"doh", "system", "fallback", "dohFallback"}
    BY Updated
  <2>2. CASE EngineState' = E!NextUpstream("query") /\ EngineAnswer' = EngineAnswer
    <3>1. Of(EngineState') = [Of(EngineState) EXCEPT !["query"] = E!NextUpstream("query")]
      BY <2>2, Updated
    <3>2. Of(EngineAnswer)' = Of(EngineAnswer) /\ Of(EngineState)' = Of(EngineState')
      BY <2>2 DEF Of
    <3> QED BY <2>1, <3>1, <3>2 DEF E!Exchange, E!Goto, E!Cache!Quiet, Of
  <2>3. CASE EngineState' = "store" /\ EngineAnswer' = {[by |-> "boot", at |-> 0]}
    <3>1. Of(EngineState') = [Of(EngineState) EXCEPT !["query"] = "store"]
      BY <2>3, Updated
    <3>2. Of(EngineAnswer') = [Of(EngineAnswer) EXCEPT !["query"] = {[by |-> "boot", at |-> 0]}]
      BY <2>3, Updated
    <3>3. Of(Built)["query"]["cfg"] = "boot"
      BY Updated, BuiltFromOne
    <3> QED BY <2>1, <3>1, <3>2, <3>3 DEF E!Exchange, E!Goto, E!Cache!Quiet, Of
  <2> QED BY <2>2, <2>3
<1> QED BY <1>1 DEF E!QueryStep, EngineConfig, Only

\* A stage that fails is followed by the one that Engine tries next.
LEMMA FailStepsOn == ASSUME IInv, cfg' = cfg, pc \in Stages, Fail PROVE E!QueryStep("query")
<1>1. /\ EngineAnswer = {}
      /\ EngineState = IF pc # "doh" THEN pc ELSE IF cfg.viaDoH THEN "doh" ELSE "dohFallback"
  BY DEF EngineAnswer, EngineState, Stages
<1>2. E!NextUpstream("query") =
          IF EngineState = "system" /\ cfg.fallback # {} THEN "fallback"
          ELSE IF EngineState \in {"system", "fallback"} /\ cfg.toDoH THEN "dohFallback" ELSE "fail"
  <2>1. Of(EngineState)["query"] = EngineState /\ Of(Built)["query"] = Built
    BY Updated, Zenon
  <2>2. /\ Only(EngineConfig(cfg))[Built["systemFB"]] = EngineConfig(cfg)
        /\ Only(EngineConfig(cfg))[Built["cfg"]] = EngineConfig(cfg)
    BY BuiltFromOne, Zenon
  <2>3. EngineConfig(cfg).fallback = (cfg.fallback # {}) /\ EngineConfig(cfg).toDoH = cfg.toDoH
    BY DEF EngineConfig
  <2> QED BY <2>1, <2>2, <2>3, Zenon DEF E!NextUpstream
<1>3. pc \in {"system", "fallback"} => ~cfg.viaDoH
  BY DEF IInv, Control, Routed, Chained
<1>4. CASE pc = "system" /\ cfg.fallback # {} /\ pc' = "fallback"
  <2>1. EngineState' = "fallback" /\ EngineAnswer' = {}
    BY <1>4 DEF EngineState, EngineAnswer
  <2> QED BY <1>1, <1>2, <1>4, <2>1, ExchangeSteps
<1>5. CASE /\ \/ pc = "system" /\ cfg.fallback = {}
              \/ pc = "fallback"
           /\ cfg.toDoH
           /\ pc' = "doh"
  <2>1. EngineState' = "dohFallback" /\ EngineAnswer' = {}
    BY <1>3, <1>5 DEF EngineState, EngineAnswer
  <2> QED BY <1>1, <1>2, <1>5, <2>1, ExchangeSteps
<1>6. CASE /\ \/ pc = "system" /\ cfg.fallback = {} /\ ~cfg.toDoH
              \/ pc = "fallback" /\ ~cfg.toDoH
              \/ pc = "doh"
           /\ pc' = "failed"
  <2>1. EngineState' = "fail" /\ EngineAnswer' = {}
    BY <1>6 DEF EngineState, EngineAnswer
  <2> QED BY <1>1, <1>2, <1>6, <2>1, ExchangeSteps
<1> QED BY <1>4, <1>5, <1>6 DEF Fail, Enter

LEMMA AnswerSteps == ASSUME cfg' = cfg, pc \in Stages, NEW u, Answer(u) PROVE E!QueryStep("query")
<1>1. EngineState \in {"doh", "system", "fallback", "dohFallback"}
  BY DEF EngineState, Stages
<1>2. pc' = "answered"
  BY DEF Answer
<1>3. EngineState' = "store" /\ EngineAnswer' = {[by |-> "boot", at |-> 0]}
  BY <1>2 DEF EngineState, EngineAnswer
<1> QED BY <1>1, <1>3, ExchangeSteps

LEMMA QuietSteps == ASSUME cfg' = cfg, pc' = pc PROVE UNCHANGED E!vars
<1>1. EngineState' = EngineState /\ EngineAnswer' = EngineAnswer
  BY Zenon DEF EngineState, EngineAnswer
<1> QED BY <1>1 DEF E!vars, E!queryVars, Of, Only, EngineConfig

LEMMA NextImplementsEngine ==
    IInv /\ [Next]_vars => [E!QueryStep("query")]_(E!vars)
<1> SUFFICES ASSUME IInv, [Next]_vars PROVE E!QueryStep("query") \/ UNCHANGED E!vars
  OBVIOUS
<1>1. CASE Start
  BY <1>1, StartRoutes
<1>2. CASE NoUpstream \/ GiveUp
  BY <1>2, FailStepsOn DEF NoUpstream, GiveUp, Stages
<1>3. CASE Return
  <2>1. PICK u \in Members(pc) : \/ Answer(u) \/ Fail
                                 \/ pc' = pc
    BY <1>3 DEF Return
  <2> QED BY <1>3, <2>1, AnswerSteps, FailStepsOn, QuietSteps DEF Return
<1>4. CASE Receive
  <2>1. \/ Answer(Head(chan[pc])) \/ Fail
        \/ pc' = pc
    BY <1>4 DEF Receive
  <2> QED BY <1>4, <2>1, AnswerSteps, FailStepsOn, QuietSteps DEF Receive, Stages
<1>5. CASE ReceiveDoH
  <2>1. Answer(Head(chan["doh"])) \/ Fail
    BY <1>5 DEF ReceiveDoH
  <2> QED BY <1>5, <2>1, AnswerSteps, FailStepsOn DEF ReceiveDoH, Stages
<1>6. ASSUME NEW u \in Upstreams,
             PlainReply(u) \/ PlainTimeout(u) \/ DoHReply(u) \/ DoHTimeout(u)
      PROVE  UNCHANGED E!vars
  BY <1>6, RequestSteps, QuietSteps DEF Asks, quiet
<1>7. ASSUME NEW u \in Upstreams, Deliver(u) PROVE UNCHANGED E!vars
  BY <1>7, QuietSteps DEF Deliver
<1>8. CASE Close
  BY <1>8, QuietSteps DEF Close
<1>9. ASSUME NEW c \in Contexts, Expire(c) PROVE UNCHANGED E!vars
  BY <1>9, QuietSteps DEF Expire
<1>10. CASE UNCHANGED vars
  BY <1>10, QuietSteps DEF vars
<1> QED BY <1>1, <1>2, <1>3, <1>4, <1>5, <1>6, <1>7, <1>8, <1>9, <1>10
     DEF Next, ServeDNS, Contexts

-----------------------------------------------------------------------------
(* The theorems                                                            *)

\* Every variable keeps its type, and there is an answer exactly when the query
\* has been answered.
THEOREM TypeCorrect == Spec => []TypeOK
<1>1. IInv => TypeOK
  BY DEF IInv, Typed, TypeOK, Control, Answered, Contexts, ATs
<1> QED BY <1>1, Invariance, PTL

\* The answer comes from the first stage that could give one, whatever the
\* strategies, chains and deadlines: a polluted name is never answered by a plain
\* upstream, nor a clean one over DoH while a plain upstream may still answer.
THEOREM OnlyDueAnswers == Spec => []AnswerIsDue
<1>1. IInv => AnswerIsDue
  BY DEF IInv, Control, Answered
<1> QED BY <1>1, Invariance, PTL

\* A query fails early only if every upstream it may be sent to has failed, for
\* chains of any length.
THEOREM EarlyFailureIsEarned == Spec => []FailureIsEarned
<1>1. IInv => FailureIsEarned
  <2> SUFFICES ASSUME IInv, pc = "failed" PROVE FailureIsEarned
    BY DEF FailureIsEarned
  <2>1. Context("system") = "query" /\ Context("doh") = "query" /\ Context("fallback") = "fallback"
    BY DEF Context
  <2>2. ctx["query"] # "expired" => ctx["fallback"] # "expired"
    BY DEF IInv, Control, Deadlines
  <2>3. /\ ~cfg.viaDoH => GivenUp("system") /\ GivenUp("fallback")
        /\ cfg.viaDoH \/ cfg.toDoH => GivenUp("doh")
    BY DEF IInv, Control, Passed
  <2>4. ASSUME ctx["query"] # "expired", ~cfg.viaDoH PROVE Refused(cfg.system \cup cfg.fallback)
    BY <2>1, <2>2, <2>3, <2>4, MembersOf DEF GivenUp, Refused
  <2>5. ASSUME ctx["query"] # "expired", cfg.viaDoH \/ cfg.toDoH PROVE Refused(DoHs)
    BY <2>1, <2>3, <2>5, MembersOf DEF GivenUp
  <2>6. ASSUME ~cfg.viaDoH, ctx["fallback"] # "expired" PROVE Refused(cfg.fallback)
    BY <2>1, <2>3, <2>6, MembersOf DEF GivenUp
  <2> QED BY <2>4, <2>5, <2>6 DEF FailureIsEarned
<1> QED BY <1>1, Invariance, PTL

\* A goroutine that has a result can always send it: it never waits for a
\* receiver, also when the query was answered long ago, for chains of any length.
THEOREM SendersHaveRoom == Spec => []HaveRoom
BY RoomForAll, Invariance, PTL

\* A query that has not ended is never stuck: an upstream is being asked, a result
\* can be taken, or the stage is over and can be left: the safety half of
\* EverythingEnds.
THEOREM NoQueryIsStuck == Spec => []Pending
BY SomebodyWorks, ProgressInvariance, PTL

\* What Engine says of the exchange with the upstreams is what they do together:
\* every step of Exchange is the step of a query in Engine, or none.
THEOREM ExchangeImplementsEngine == Spec => ImplementsEngine
<1>1. IInv /\ [Next]_vars => [E!QueryStep("query")]_(E!vars)
  BY NextImplementsEngine
<1> QED BY <1>1, Invariance, PTL DEF Spec, ImplementsEngine
==============================================================================
