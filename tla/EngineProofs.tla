---------------------------- MODULE EngineProofs ----------------------------
(***************************************************************************)
(* Safety of the query engine, for any queries, reloads, keys,             *)
(* configurations and limits.                                              *)
(***************************************************************************)
EXTENDS Engine, FiniteSetTheorems, TLAPS

\* Every step of a query leaves the rest of the engine alone.
engineVars == <<comp, overrideM, conf, mgr, reload, shut, epoch>>

\* The queries that hold a slot.
Holders == { q \in Queries : pc[q] \in Holding }

\* All components come from one configuration, the latest to be swapped in.
OneNewestConfiguration ==
    /\ \A c \in Components : comp[c] = comp["cfg"]
    /\ \A i \in Ids : epoch[i] <= Current

\* A reload that had returned when a query arrived has returned for good.
SinceReturned == \A q \in Queries : \A r \in since[q] : reload[r].pc = "done"

\* A reload that has not built its manager has no loop, and a manager becomes
\* the current one only after its swap, and only once.
Swapped(m) == m = Boot \/ reload[m].pc \in {"stop", "wait", "flush", "done", "panicked"}

OneTenure ==
    /\ \A r \in Reloads : reload[r].pc = "idle" => ~Running(r)
    /\ \A m \in Ids : overrideM = m => Swapped(m)
    /\ \A r \in Reloads, m \in Ids : reload[r].old = m => overrideM # m /\ Swapped(m)
    /\ \A m \in Ids : shut.om = m => overrideM # m /\ Swapped(m)

\* A manager that is to refresh its URLs, and that nobody has told to stop.
Refreshing(m) == conf[m].urls # {} /\ conf[m].refresh => Running(m) /\ ~mgr[m].cancelled

NewestRefresh ==
    /\ \A m \in Ids : overrideM = m => Refreshing(m)
    /\ \A r \in Reloads : reload[r].pc = "swap" => Refreshing(r)

IInv == /\ TypeOK
        /\ SlotsMatchQueries
        /\ OneNewestConfiguration
        /\ SinceReturned
        /\ RoutedByOneFreshConfiguration
        /\ NoEntrySurvivesReload
        /\ OneTenure
        /\ NoOrphanLoop
        /\ NewestRefresh

-----------------------------------------------------------------------------
(* Types                                                                   *)

Records == [loop : Loops, cancelled : BOOLEAN, files : SUBSET Keys, urls : SUBSET Keys]

ReloadStates == {"idle", "swap", "stop", "wait", "flush", "done", "failed", "panicked"}

ReloadRecords == [pc : ReloadStates, old : Ids \cup {None}]

LEMMA SetReloadType ==
    ASSUME reload \in [Reloads -> ReloadRecords], NEW r \in Reloads,
           NEW s \in ReloadStates, SetReload(r, s)
    PROVE  reload' \in [Reloads -> ReloadRecords]
  <1>1. \A x \in Reloads : reload[x] \in ReloadRecords
    OBVIOUS
  <1>2. [reload[r] EXCEPT !.pc = s] \in ReloadRecords
    BY <1>1 DEF ReloadRecords
  <1>3. reload' = [reload EXCEPT ![r] = [reload[r] EXCEPT !.pc = s]]
    BY DEF SetReload
  <1> QED
    BY <1>1, <1>2, <1>3

LEMMA CancelType ==
    ASSUME mgr \in [Ids -> Records], NEW m \in Ids, Cancel(m)
    PROVE  mgr' \in [Ids -> Records]
  <1>1. [mgr[m] EXCEPT !.cancelled = TRUE] \in Records
    BY DEF Records
  <1>2. mgr' = [mgr EXCEPT ![m] = [mgr[m] EXCEPT !.cancelled = TRUE]]
    BY DEF Cancel
  <1> QED
    BY <1>1, <1>2

\* What the uses of the cache do to its types.
LEMMA CacheTypes ==
    ASSUME TypeOK, NEW k \in Keys, NEW a \in Answers,
           Cache!Get(k) \/ Cache!Put(k, a) \/ Cache!Flush \/ Cache!Quiet
    PROVE  /\ DOMAIN store' \subseteq Keys
           /\ store' \in [DOMAIN store' -> Answers]
           /\ got' \subseteq Answers
  <1>1. CASE Cache!Get(k)
    BY <1>1 DEF Cache!Get, Cache!Forget, TypeOK
  <1>2. CASE Cache!Put(k, a)
    <2>1. PICK lost \in SUBSET (DOMAIN store \ {k}) :
             store' = [x \in (DOMAIN store \ lost) \cup {k} |-> IF x = k THEN a ELSE store[x]]
      BY <1>2 DEF Cache!Put
    <2>2. got' = {}
      BY <1>2 DEF Cache!Put
    <2> QED
      BY <2>1, <2>2 DEF TypeOK
  <1>3. CASE Cache!Flush
    BY <1>3 DEF Cache!Flush
  <1>4. CASE Cache!Quiet
    BY <1>4 DEF Cache!Quiet, TypeOK
  <1> QED
    BY <1>1, <1>2, <1>3, <1>4

LEMMA TypeInit == ConstantsAssumption /\ Init => TypeOK
  <1> SUFFICES ASSUME ConstantsAssumption, Init  PROVE TypeOK
    OBVIOUS
  <1>1. /\ comp \in [Components -> Ids]
        /\ overrideM \in Ids \cup {None}
        /\ sem \in 0 .. MaxInflight
        /\ seen \in [Queries -> [om : Ids \cup {None}, cfg : Ids]]
        /\ snap \in [Queries -> [Components -> Ids]]
    BY DEF Init, Ids, Unread, Unrouted, ConstantsAssumption
  <1>2. /\ DOMAIN store \subseteq Keys
        /\ store \in [DOMAIN store -> Answers]
        /\ got \subseteq Answers
    BY DEF Init, Cache!Init
  <1>3. conf \in [Ids -> Configs]
    BY DEF Init
  <1>4. mgr \in [Ids -> Records]
    <2>1. PICK c \in Configs, files \in SUBSET Keys :
             mgr = [i \in Ids |->
                      IF i = Boot THEN NewManager(c, files)
                      ELSE [loop |-> "absent", cancelled |-> FALSE, files |-> {}, urls |-> {}]]
      BY DEF Init
    <2>2. NewManager(c, files) \in Records
      BY DEF NewManager, Records, Loops
    <2> QED
      BY <2>1, <2>2 DEF Records, Loops
  <1>5. /\ pc \in [Queries -> {"idle"}]
        /\ ans \in [Queries -> SUBSET Answers]
        /\ since \in [Queries -> SUBSET Reloads]
        /\ epoch \in [Ids -> Nat]
    BY DEF Init
  <1>6. /\ reload \in [Reloads -> [pc : {"idle"}, old : Ids \cup {None}]]
        /\ shut \in [pc : {"idle"}, om : Ids \cup {None}]
    BY DEF Init
  <1> QED
    BY <1>1, <1>2, <1>3, <1>4, <1>5, <1>6 DEF TypeOK, Records

\* The steps of the refresh loops.
LEMMA TypeLoop ==
    ASSUME ConstantsAssumption, TypeOK, NEW m \in Ids, Loop(m)
    PROVE  TypeOK'
  <1>1. mgr' \in [Ids -> Records]
    <2>1. mgr \in [Ids -> Records] /\ conf[m].urls \subseteq Keys
      BY DEF TypeOK, Records, ConstantsAssumption, ConfigType
    <2>2. CASE Load(m)
      <3>1. PICK S \in SUBSET conf[m].urls : mgr' = [mgr EXCEPT ![m].urls = S]
        BY <2>2 DEF Load
      <3> QED
        BY <2>1, <3>1 DEF Records
    <2>4. CASE FetchEnds(m)
      <3>1. PICK l \in Loops : mgr' = [mgr EXCEPT ![m].loop = l]
        BY <2>4 DEF FetchEnds, Loops
      <3> QED
        BY <2>1, <3>1 DEF Records
    <2>3. CASE LoopTick(m) \/ LoopExit(m)
      BY <2>1, <2>3 DEF LoopTick, LoopExit, Records, Loops
    <2> QED
      BY <2>2, <2>3, <2>4 DEF Loop
  <1>2. UNCHANGED store /\ got' = {}
    BY DEF Loop, Cache!Quiet
  <1> QED
    BY <1>1, <1>2 DEF Loop, queryVars, TypeOK, Records

LEMMA TypeReload ==
    ASSUME ConstantsAssumption, TypeOK, NEW r \in Reloads, ReloadStep(r)
    PROVE  TypeOK'
  <1>a. /\ r \in Ids
        /\ mgr \in [Ids -> Records]
        /\ reload \in [Reloads -> ReloadRecords]
        /\ reload[r].old \in Ids \cup {None}
    BY DEF TypeOK, Records, Ids, ReloadRecords, ReloadStates
  <1>1. CASE ReloadBuild(r)
    <2>1. UNCHANGED store /\ got' = {}
      BY <1>1 DEF ReloadBuild, Cache!Quiet
    <2>2. conf' \in [Ids -> Configs]
      BY <1>a, <1>1 DEF ReloadBuild, TypeOK
    <2>3. \A c \in Configs : \A files \in SUBSET c.files : NewManager(c, files) \in Records
      BY DEF NewManager, Records, Loops, ConstantsAssumption, ConfigType
    <2>4. mgr' \in [Ids -> Records]
      BY <1>a, <1>1, <2>3 DEF ReloadBuild
    <2>5. reload' \in [Reloads -> ReloadRecords]
      <3>1. SetReload(r, "failed") \/ SetReload(r, "swap")
        BY <1>1 DEF ReloadBuild
      <3> QED
        BY <3>1, <1>a, SetReloadType DEF ReloadStates
    <2> QED
      BY <1>1, <2>1, <2>2, <2>4, <2>5
      DEF ReloadBuild, queryVars, TypeOK, Records, ReloadRecords, ReloadStates
  <1>2. CASE ReloadSwap(r)
    <2>1. UNCHANGED store /\ got' = {}
      BY <1>2 DEF ReloadSwap, Cache!Quiet
    <2>2. Current \in Nat
      BY DEF Current, TypeOK, Components
    <2>3. /\ comp' \in [Components -> Ids]
          /\ overrideM' \in Ids
          /\ epoch' \in [Ids -> Nat]
      BY <1>a, <1>2, <2>2 DEF ReloadSwap, TypeOK
    <2>4. reload' \in [Reloads -> ReloadRecords]
      BY <1>a, <1>2 DEF ReloadSwap, TypeOK, ReloadRecords, ReloadStates
    <2> QED
      BY <1>2, <2>1, <2>3, <2>4
      DEF ReloadSwap, queryVars, TypeOK, ReloadRecords, ReloadStates
  <1>3. CASE ReloadStop(r) \/ ReloadWait(r) \/ ReloadFlush(r)
    <2>1. /\ DOMAIN store' \subseteq Keys
          /\ store' \in [DOMAIN store' -> Answers]
          /\ got' = {}
      BY <1>3 DEF ReloadStop, ReloadWait, ReloadFlush, Cache!Quiet, Cache!Flush, TypeOK
    <2>2. mgr' \in [Ids -> Records]
      <3>1. \/ UNCHANGED mgr
            \/ reload[r].old \in Ids /\ Cancel(reload[r].old)
        BY <1>a, <1>3 DEF ReloadStop, ReloadWait, ReloadFlush
      <3> QED
        BY <3>1, <1>a, CancelType
    <2>3. reload' \in [Reloads -> ReloadRecords]
      <3>1. \E s \in {"panicked", "wait", "flush", "done"} : SetReload(r, s)
        BY <1>3 DEF ReloadStop, ReloadWait, ReloadFlush
      <3> QED
        BY <3>1, <1>a, SetReloadType DEF ReloadStates
    <2>4. UNCHANGED <<comp, overrideM, conf, sem, queryVars, shut, epoch>>
      BY <1>3 DEF ReloadStop, ReloadWait, ReloadFlush
    <2> QED
      BY <2>1, <2>2, <2>3, <2>4
      DEF queryVars, TypeOK, Records, ReloadRecords, ReloadStates
  <1> QED
    BY <1>1, <1>2, <1>3 DEF ReloadStep

LEMMA TypeShutdown ==
    ASSUME TypeOK, ShutdownStep
    PROVE  TypeOK'
  <1>1. UNCHANGED store /\ got' = {}
    BY DEF ShutdownStep, Cache!Quiet
  <1>2. CASE ShutdownTake
    BY <1>1, <1>2 DEF ShutdownStep, ShutdownTake, queryVars, TypeOK
  <1>3. CASE ShutdownStop
    <2>1. PICK m \in Ids \cup {None} : m = shut.om /\ Cancel(m)
      BY <1>3 DEF ShutdownStop, TypeOK
    <2>2. mgr' \in [Ids -> Records]
      <3>1. mgr \in [Ids -> Records]
        BY DEF TypeOK, Records
      <3>2. CASE m \in Ids
        BY <2>1, <3>1, <3>2, CancelType
      <3>3. CASE m \notin Ids
        BY <2>1, <3>1, <3>3 DEF Cancel
      <3> QED
        BY <3>2, <3>3
    <2>3. shut' \in [pc : {"wait"}, om : Ids \cup {None}] /\ UNCHANGED overrideM
      BY <1>3 DEF ShutdownStop, TypeOK
    <2> QED
      BY <1>1, <2>2, <2>3 DEF ShutdownStep, queryVars, TypeOK, Records
  <1>4. CASE ShutdownWait
    BY <1>1, <1>4 DEF ShutdownStep, ShutdownWait, queryVars, TypeOK
  <1> QED
    BY <1>2, <1>3, <1>4 DEF ShutdownStep

QueryStates == {"idle", "get", "snapshot", "lookup", "storeOverride", "acquire", "done"}
               \cup Holding

\* The queries that hold a slot are finitely many, so that counting them works.
LEMMA HoldersAreFinite ==
    ASSUME ConstantsAssumption
    PROVE  IsFiniteSet(Holders) /\ Cardinality(Holders) \in Nat
  BY FS_Subset, FS_CardinalityType DEF Holders, ConstantsAssumption

\* What a step of a query does to its control state and to the semaphore: it
\* takes a slot, gives one back, or stays on its side.
LEMMA QueryControl ==
    ASSUME ConstantsAssumption, TypeOK, NEW q \in Queries, QueryStep(q) \/ QueryArrives(q)
    PROVE  /\ \E s \in QueryStates : pc' = [pc EXCEPT ![q] = s]
           /\ \/ sem' = sem /\ (pc[q] \in Holding <=> pc'[q] \in Holding)
              \/ sem' = sem + 1 /\ pc[q] \notin Holding /\ pc'[q] \in Holding
                 /\ sem < MaxInflight
              \/ sem' = sem - 1 /\ pc[q] \in Holding /\ pc'[q] \notin Holding
  <1> USE DEF TypeOK, Goto, QueryStates, Holding, Routed
  <1>1. CASE QueryArrives(q)
    BY <1>1 DEF QueryArrives, Arrive
  <1>2. CASE Get(q) \/ Snapshot(q) \/ Lookup(q)
    BY <1>2 DEF Get, Snapshot, Lookup
  <1>3. CASE StoreOverride(q) \/ StoreUpstream(q)
    BY <1>3 DEF StoreOverride, StoreUpstream, StoreAnswer
  <1>4. CASE Acquire(q)
    BY <1>4 DEF Acquire
  <1>5. CASE Route(q)
    BY <1>5 DEF Route
  <1>6. CASE Exchange(q)
    BY <1>6 DEF Exchange, NextUpstream
  <1>7. CASE Filter(q) \/ Fail(q) \/ Release(q)
    BY <1>7 DEF Filter, Fail, Release
  <1> QED
    BY <1>1, <1>2, <1>3, <1>4, <1>5, <1>6, <1>7 DEF QueryStep

LEMMA SlotsQuery ==
    ASSUME ConstantsAssumption, TypeOK, SlotsMatchQueries, NEW q \in Queries,
           QueryStep(q) \/ QueryArrives(q)
    PROVE  SlotsMatchQueries' /\ sem' \in 0 .. MaxInflight
  <1>1. sem = Cardinality(Holders) /\ sem \in Nat /\ MaxInflight \in Nat
    BY HoldersAreFinite DEF SlotsMatchQueries, Holders, TypeOK, ConstantsAssumption
  <1>2. PICK s \in QueryStates : pc' = [pc EXCEPT ![q] = s]
    BY QueryControl
  <1>3. Holders' = { x \in Queries : pc'[x] \in Holding }
    BY DEF Holders
  <1>4. CASE sem' = sem /\ (pc[q] \in Holding <=> pc'[q] \in Holding)
    <2>1. Holders' = Holders
      BY <1>2, <1>3, <1>4 DEF Holders, TypeOK
    <2> QED
      BY <1>1, <1>4, <2>1 DEF SlotsMatchQueries, Holders, TypeOK
  <1>5. CASE /\ sem' = sem + 1 /\ pc[q] \notin Holding /\ pc'[q] \in Holding
             /\ sem < MaxInflight
    <2>1. Holders' = Holders \cup {q} /\ q \notin Holders
      BY <1>2, <1>3, <1>5 DEF Holders, TypeOK
    <2>2. Cardinality(Holders') = Cardinality(Holders) + 1
      BY <2>1, HoldersAreFinite, FS_AddElement
    <2> QED
      BY <1>1, <1>5, <2>2 DEF SlotsMatchQueries, Holders
  <1>6. CASE sem' = sem - 1 /\ pc[q] \in Holding /\ pc'[q] \notin Holding
    <2>1. Holders' = Holders \ {q} /\ q \in Holders
      BY <1>2, <1>3, <1>6 DEF Holders, TypeOK
    <2>2. Cardinality(Holders') = Cardinality(Holders) - 1
      BY <2>1, HoldersAreFinite, FS_RemoveElement
    <2>3. Cardinality(Holders') \in Nat
      BY <2>1, HoldersAreFinite, FS_Subset, FS_CardinalityType
    <2> QED
      BY <1>1, <1>6, <2>2, <2>3 DEF SlotsMatchQueries, Holders, TypeOK
  <1> QED
    BY <1>4, <1>5, <1>6, QueryControl

\* What a step of a query does to the cache.
LEMMA QueryCache ==
    ASSUME ConstantsAssumption, TypeOK, NEW q \in Queries, QueryStep(q) \/ QueryArrives(q)
    PROVE  \/ Cache!Get(KeyOf[q])
           \/ \E a \in Answers : a.at = Current /\ Cache!Put(KeyOf[q], a)
           \/ Cache!Quiet
  <1>1. CASE StoreAnswer(q)
    <2>1. PICK a \in ans[q] : Cache!Put(KeyOf[q], [a EXCEPT !.at = Current]) \/ Cache!Quiet
      BY <1>1 DEF StoreAnswer
    <2>2. a \in Answers /\ Current \in Nat
      BY <2>1 DEF TypeOK, Current, Components
    <2>3. [a EXCEPT !.at = Current] \in Answers /\ [a EXCEPT !.at = Current].at = Current
      BY <2>2 DEF Answers
    <2> QED
      BY <2>1, <2>3
  <1>2. \/ Get(q)
        \/ StoreAnswer(q)
        \/ \/ Arrive(q) \/ Snapshot(q) \/ Lookup(q) \/ Acquire(q)
           \/ Route(q) \/ Exchange(q) \/ Filter(q) \/ Fail(q) \/ Release(q)
    BY DEF QueryStep, QueryArrives, StoreOverride, StoreUpstream
  <1>3. CASE Get(q)
    <2>1. Cache!Get(KeyOf[q])
      BY <1>3 DEF Get
    <2> QED
      BY <2>1
  <1>4. CASE \/ Arrive(q) \/ Snapshot(q) \/ Lookup(q) \/ Acquire(q)
             \/ Route(q) \/ Exchange(q) \/ Filter(q) \/ Fail(q) \/ Release(q)
    <2>1. Cache!Quiet
      BY <1>4 DEF Arrive, Snapshot, Lookup, Acquire, Route, Exchange, Filter, Fail, Release
    <2> QED
      BY <2>1
  <1> QED
    BY <1>1, <1>2, <1>3, <1>4

LEMMA TypeQuery ==
    ASSUME ConstantsAssumption, TypeOK, SlotsMatchQueries, NEW q \in Queries,
           QueryStep(q) \/ QueryArrives(q)
    PROVE  TypeOK'
  <1>1. /\ DOMAIN store' \subseteq Keys
        /\ store' \in [DOMAIN store' -> Answers]
        /\ got' \subseteq Answers
    <2>1. KeyOf[q] \in Keys /\ \E a \in Answers : TRUE
      <3>1. KeyOf[q] \in Keys
        BY DEF ConstantsAssumption
      <3>2. [by |-> Boot, at |-> 0] \in Answers
        BY DEF Answers, Ids
      <3> QED
        BY <3>1, <3>2
    <2> QED
      BY <2>1, QueryCache, CacheTypes
  <1>2. sem' \in 0 .. MaxInflight /\ pc' \in [Queries -> QueryStates]
    <2>1. sem' \in 0 .. MaxInflight
      BY SlotsQuery
    <2>2. PICK s \in QueryStates : pc' = [pc EXCEPT ![q] = s]
      BY QueryControl
    <2> QED
      BY <2>1, <2>2 DEF TypeOK, QueryStates
  <1>3. UNCHANGED engineVars
    BY DEF QueryStep, QueryArrives, engineVars
  <1>4. seen' \in [Queries -> [om : Ids \cup {None}, cfg : Ids]]
    <2>1. Unread \in [om : Ids \cup {None}, cfg : Ids]
      BY DEF Unread, Ids
    <2>2. [om |-> overrideM, cfg |-> comp["cfg"]] \in [om : Ids \cup {None}, cfg : Ids]
      BY DEF TypeOK, Components
    <2>3. CASE Snapshot(q)
      BY <2>2, <2>3 DEF Snapshot, TypeOK
    <2>4. CASE Route(q)
      BY <2>1, <2>4 DEF Route, TypeOK
    <2>5. CASE UNCHANGED seen
      BY <2>5 DEF TypeOK
    <2> QED
      BY <2>3, <2>4, <2>5 DEF QueryStep, QueryArrives, Arrive, Get, Lookup, StoreOverride,
         StoreAnswer, Acquire, Exchange, Filter, StoreUpstream, Fail, Release
  <1>5. snap' \in [Queries -> [Components -> Ids]]
    <2>1. CASE Route(q)
      BY <2>1 DEF Route, TypeOK
    <2>2. CASE Release(q)
      BY <2>2 DEF Release, Unrouted, Ids, TypeOK
    <2>3. CASE UNCHANGED snap
      BY <2>3 DEF TypeOK
    <2> QED
      BY <2>1, <2>2, <2>3 DEF QueryStep, QueryArrives, Arrive, Get, Snapshot, Lookup,
         StoreOverride, StoreAnswer, Acquire, Exchange, Filter, StoreUpstream, Fail
  <1>6. ans' \in [Queries -> SUBSET Answers]
    <2>1. CASE Get(q)
      BY <2>1, <1>1 DEF Get, TypeOK
    <2>a. ASSUME NEW i \in Ids  PROVE {[by |-> i, at |-> 0]} \in SUBSET Answers
      BY DEF Answers
    <2>b. seen[q].cfg \in Ids /\ snap[q]["cfg"] \in Ids
      BY DEF TypeOK, Components
    <2>c. ASSUME NEW A \in SUBSET Answers, ans' = [ans EXCEPT ![q] = A]
          PROVE  ans' \in [Queries -> SUBSET Answers]
      BY <2>c DEF TypeOK
    <2>2. CASE Lookup(q)
      <3>1. \/ ans' = [ans EXCEPT ![q] = {[by |-> seen[q].cfg, at |-> 0]}]
            \/ UNCHANGED ans
        BY <2>2 DEF Lookup
      <3>2. CASE UNCHANGED ans
        BY <3>2 DEF TypeOK
      <3> QED
        BY <3>1, <3>2, <2>a, <2>b, <2>c
    <2>3. CASE Exchange(q)
      <3>1. \/ ans' = [ans EXCEPT ![q] = {[by |-> snap[q]["cfg"], at |-> 0]}]
            \/ UNCHANGED ans
        BY <2>3 DEF Exchange
      <3>2. CASE UNCHANGED ans
        BY <3>2 DEF TypeOK
      <3> QED
        BY <3>1, <3>2, <2>a, <2>b, <2>c
    <2>4. CASE UNCHANGED ans
      BY <2>4 DEF TypeOK
    <2> QED
      BY <2>1, <2>2, <2>3, <2>4 DEF QueryStep, QueryArrives, Arrive, Snapshot,
         StoreOverride, StoreAnswer, Acquire, Route, Filter, StoreUpstream, Fail, Release
  <1>7. since' \in [Queries -> SUBSET Reloads]
    <2>1. CASE Arrive(q)
      BY <2>1 DEF Arrive, TypeOK
    <2>2. CASE UNCHANGED since
      BY <2>2 DEF TypeOK
    <2> QED
      BY <2>1, <2>2 DEF QueryStep, QueryArrives, Get, Snapshot, Lookup, StoreOverride,
         StoreAnswer, Acquire, Route, Exchange, Filter, StoreUpstream, Fail, Release
  <1> QED
    BY <1>1, <1>2, <1>3, <1>4, <1>5, <1>6, <1>7 DEF engineVars, TypeOK, QueryStates

-----------------------------------------------------------------------------
(* Configurations                                                          *)

Configurations == /\ OneNewestConfiguration
                  /\ SinceReturned
                  /\ RoutedByOneFreshConfiguration
                  /\ NoEntrySurvivesReload

\* A step of a query: it is routed by what is current, and what it stores is of
\* the current epoch.
LEMMA ConfigurationsQuery ==
    ASSUME ConstantsAssumption, TypeOK, Configurations, NEW q \in Queries,
           QueryStep(q) \/ QueryArrives(q)
    PROVE  Configurations'
  <1> USE DEF Configurations
  <1>1. UNCHANGED engineVars
    BY DEF QueryStep, QueryArrives, engineVars
  <1>2. OneNewestConfiguration'
    BY <1>1 DEF OneNewestConfiguration, Current, engineVars
  <1>3. SinceReturned'
    <2>1. CASE Arrive(q)
      BY <1>1, <2>1 DEF Arrive, SinceReturned, engineVars, TypeOK
    <2>2. CASE UNCHANGED since
      BY <1>1, <2>2 DEF SinceReturned, engineVars
    <2> QED
      BY <2>1, <2>2 DEF QueryStep, QueryArrives, Get, Snapshot, Lookup, StoreOverride,
         StoreAnswer, Acquire, Route, Exchange, Filter, StoreUpstream, Fail, Release
  <1>4. RoutedByOneFreshConfiguration'
    <2> DEFINE Sound(x) == /\ \A c \in Components : snap[x][c] = snap[x]["cfg"]
                           /\ \A r \in since[x] : epoch[snap[x]["cfg"]] >= epoch[r]
    <2>1. CASE Route(q)
      <3>1. /\ snap' = [snap EXCEPT ![q] = comp]
            /\ UNCHANGED <<since, epoch>>
            /\ \A x \in Queries : x # q => pc'[x] = pc[x]
        BY <1>1, <2>1 DEF Route, Goto, TypeOK, engineVars
      <3>2. \A r \in since[q] : epoch[r] <= epoch[comp["cfg"]]
        BY DEF OneNewestConfiguration, Current, TypeOK, Ids
      <3>3. \A r \in since[q] : epoch[comp["cfg"]] >= epoch[r]
        BY <3>2 DEF TypeOK, Ids, Components
      <3>4. Sound(q)'
        BY <3>1, <3>3 DEF OneNewestConfiguration, TypeOK
      <3>5. \A x \in Queries : x # q /\ pc'[x] \in Routed => Sound(x)'
        BY <3>1 DEF RoutedByOneFreshConfiguration, TypeOK
      <3> QED
        BY <3>4, <3>5 DEF RoutedByOneFreshConfiguration
    <2>2. CASE Arrive(q)
      <3>1. /\ since' = [since EXCEPT ![q] = { r \in Reloads : reload[r].pc = "done" }]
            /\ UNCHANGED <<snap, epoch>>
            /\ pc'[q] \notin Routed
            /\ \A x \in Queries : x # q => pc'[x] = pc[x]
        BY <1>1, <2>2 DEF Arrive, Goto, TypeOK, engineVars, Routed
      <3> QED
        BY <3>1 DEF RoutedByOneFreshConfiguration, TypeOK
    <2>3. CASE Release(q)
      <3>1. /\ snap' = [snap EXCEPT ![q] = Unrouted]
            /\ UNCHANGED <<since, epoch>>
            /\ pc'[q] \notin Routed
            /\ \A x \in Queries : x # q => pc'[x] = pc[x]
        BY <1>1, <2>3 DEF Release, Goto, TypeOK, engineVars, Routed
      <3> QED
        BY <3>1 DEF RoutedByOneFreshConfiguration, TypeOK
    <2>4. CASE \/ Get(q) \/ Snapshot(q) \/ Lookup(q) \/ StoreOverride(q) \/ Acquire(q)
               \/ Exchange(q) \/ Filter(q) \/ StoreUpstream(q) \/ Fail(q)
      <3>1. UNCHANGED <<snap, since, epoch>>
        BY <1>1, <2>4 DEF Get, Snapshot, Lookup, StoreOverride, StoreAnswer, Acquire,
           Exchange, Filter, StoreUpstream, Fail, engineVars
      <3>2. \A x \in Queries : pc'[x] \in Routed => pc[x] \in Routed
        BY <2>4 DEF Get, Snapshot, Lookup, StoreOverride, StoreAnswer, Acquire,
           Exchange, Filter, StoreUpstream, Fail, Goto, Routed, TypeOK
      <3> QED
        BY <3>1, <3>2 DEF RoutedByOneFreshConfiguration
    <2> QED
      BY <2>1, <2>2, <2>3, <2>4 DEF QueryStep, QueryArrives
  <1>5. NoEntrySurvivesReload'
    <2>1. CASE Cache!Get(KeyOf[q]) \/ Cache!Quiet
      <3>1. /\ DOMAIN store' \subseteq DOMAIN store
            /\ \A k \in DOMAIN store' : store'[k] = store[k]
        BY <2>1 DEF Cache!Get, Cache!Forget, Cache!Quiet
      <3> QED
        BY <1>1, <3>1 DEF NoEntrySurvivesReload, engineVars
    <2>2. ASSUME NEW a \in Answers, a.at = Current, Cache!Put(KeyOf[q], a)
          PROVE  NoEntrySurvivesReload'
      <3>1. PICK lost \in SUBSET (DOMAIN store \ {KeyOf[q]}) :
               store' = [x \in (DOMAIN store \ lost) \cup {KeyOf[q]} |->
                            IF x = KeyOf[q] THEN a ELSE store[x]]
        BY <2>2 DEF Cache!Put
      <3>2. \A r \in Reloads : a.at >= epoch[r]
        <4>1. Current \in Nat /\ \A r \in Reloads : epoch[r] \in Nat /\ epoch[r] <= Current
          BY DEF OneNewestConfiguration, Current, TypeOK, Ids, Components
        <4> QED
          BY <2>2, <4>1
      <3>3. \A k \in DOMAIN store' : \/ store'[k] = a
                                     \/ k \in DOMAIN store /\ store'[k] = store[k]
        BY <3>1
      <3> QED
        BY <1>1, <3>2, <3>3 DEF NoEntrySurvivesReload, engineVars
    <2> QED
      BY <2>1, <2>2, QueryCache
  <1> QED
    BY <1>2, <1>3, <1>4, <1>5

\* A step of a reload: a swap makes its configuration the newest.
LEMMA ConfigurationsReload ==
    ASSUME ConstantsAssumption, TypeOK, Configurations, NEW r \in Reloads, ReloadStep(r)
    PROVE  Configurations'
  <1> USE DEF Configurations
  <1>1. CASE ReloadSwap(r)
    <2>1. /\ r \in Ids
          /\ Current \in Nat
          /\ epoch' = [epoch EXCEPT ![r] = Current + 1]
          /\ comp' = [c \in Components |-> r]
          /\ reload[r].pc = "swap"
          /\ reload' = [reload EXCEPT ![r] = [pc |-> "stop", old |-> overrideM]]
          /\ UNCHANGED <<store, pc, snap, since>>
      BY <1>1 DEF ReloadSwap, Cache!Quiet, queryVars, TypeOK, Ids, Current, Components
    <2>2. OneNewestConfiguration'
      <3>1. Current' = Current + 1
        BY <2>1 DEF Current, TypeOK, Components
      <3>2. \A i \in Ids : epoch'[i] = Current + 1 \/ epoch'[i] = epoch[i]
        BY <2>1 DEF TypeOK
      <3>3. \A i \in Ids : epoch[i] \in Nat /\ epoch[i] <= Current
        BY DEF OneNewestConfiguration, TypeOK
      <3>4. \A i \in Ids : epoch'[i] <= Current'
        BY <2>1, <3>1, <3>2, <3>3
      <3>5. \A c \in Components : comp'[c] = comp'["cfg"]
        BY <2>1 DEF Components
      <3> QED
        BY <3>4, <3>5 DEF OneNewestConfiguration
    <2>3. SinceReturned'
      BY <2>1 DEF SinceReturned, TypeOK
    <2>4. RoutedByOneFreshConfiguration'
      <3>1. \A q \in Queries : \A x \in since[q] : x # r /\ x \in Ids
        BY <2>1 DEF SinceReturned, TypeOK, Ids
      <3>2. \A i \in Ids : epoch[i] \in Nat /\ epoch'[i] \in Nat /\ epoch'[i] >= epoch[i]
        <4>1. epoch[r] \in Nat /\ epoch[r] <= Current
          BY <2>1 DEF OneNewestConfiguration, TypeOK
        <4> QED
          BY <2>1, <4>1 DEF TypeOK
      <3>3. \A q \in Queries : snap[q]["cfg"] \in Ids
        BY DEF TypeOK, Components
      <3>4. ASSUME NEW q \in Queries, pc[q] \in Routed, NEW x \in since[q]
            PROVE  epoch'[snap[q]["cfg"]] >= epoch'[x]
        <4>1. epoch[snap[q]["cfg"]] >= epoch[x]
          BY <3>4 DEF RoutedByOneFreshConfiguration
        <4>2. epoch'[x] = epoch[x]
          BY <2>1, <3>1, <3>4 DEF TypeOK
        <4> QED
          BY <3>1, <3>2, <3>3, <3>4, <4>1, <4>2
      <3> QED
        BY <2>1, <3>4 DEF RoutedByOneFreshConfiguration
    <2>5. NoEntrySurvivesReload'
      <3>1. \A x \in Reloads : reload'[x].pc = "done" =>
               reload[x].pc = "done" /\ epoch'[x] = epoch[x]
        BY <2>1 DEF TypeOK, Ids
      <3> QED
        BY <2>1, <3>1 DEF NoEntrySurvivesReload
    <2> QED
      BY <2>2, <2>3, <2>4, <2>5
  <1>2. CASE ReloadBuild(r) \/ ReloadStop(r) \/ ReloadWait(r)
    <2>1. /\ UNCHANGED <<comp, epoch, store, pc, snap, since>>
          /\ reload[r].pc \in {"idle", "stop", "wait"}
          /\ \E s \in {"swap", "failed", "panicked", "wait", "flush"} :
                reload' = [reload EXCEPT ![r].pc = s]
      BY <1>2 DEF ReloadBuild, ReloadStop, ReloadWait, SetReload, Cache!Quiet, queryVars
    <2>2. \A x \in Reloads : reload'[x].pc = "done" <=> reload[x].pc = "done"
      BY <2>1 DEF TypeOK
    <2>3. SinceReturned'
      BY <2>1, <2>2 DEF SinceReturned, TypeOK
    <2>4. NoEntrySurvivesReload'
      BY <2>1, <2>2 DEF NoEntrySurvivesReload
    <2> QED
      BY <2>1, <2>3, <2>4 DEF OneNewestConfiguration, Current, RoutedByOneFreshConfiguration
  <1>3. CASE ReloadFlush(r)
    <2>1. /\ UNCHANGED <<comp, epoch, pc, snap, since>>
          /\ DOMAIN store' = {}
          /\ reload' = [reload EXCEPT ![r].pc = "done"]
      BY <1>3 DEF ReloadFlush, SetReload, Cache!Flush, queryVars
    <2>2. SinceReturned'
      BY <2>1 DEF SinceReturned, TypeOK
    <2>3. NoEntrySurvivesReload'
      BY <2>1 DEF NoEntrySurvivesReload
    <2> QED
      BY <2>1, <2>2, <2>3 DEF OneNewestConfiguration, Current, RoutedByOneFreshConfiguration
  <1> QED
    BY <1>1, <1>2, <1>3 DEF ReloadStep

\* The other steps touch none of it, except that a flush empties the cache.
LEMMA ConfigurationsOther ==
    ASSUME Configurations,
           (\E m \in Ids : Loop(m)) \/ FlushCache \/ ShutdownStep \/ UNCHANGED vars
    PROVE  Configurations'
  <1>1. UNCHANGED <<comp, epoch, pc, snap, since, reload>>
    BY DEF Loop, FlushCache, ShutdownStep, vars, queryVars
  <1>2. UNCHANGED store \/ DOMAIN store' = {}
    BY DEF Loop, FlushCache, ShutdownStep, vars, Cache!Flush, Cache!Quiet
  <1> QED
    BY <1>1, <1>2 DEF Configurations, OneNewestConfiguration, Current, SinceReturned,
       RoutedByOneFreshConfiguration, NoEntrySurvivesReload

-----------------------------------------------------------------------------
(* Refresh loops                                                           *)

RefreshLoops == OneTenure /\ NoOrphanLoop /\ NewestRefresh

\* The steps that leave the managers alone.
LEMMA LoopsUntouched ==
    ASSUME RefreshLoops, UNCHANGED engineVars
    PROVE  RefreshLoops'
  BY DEF RefreshLoops, OneTenure, Swapped, Running, NoOrphanLoop, NewestRefresh, Refreshing,
         engineVars

\* A refresh loop ends by itself only when it has been told to, or has nothing
\* to refresh.
LEMMA LoopsLoop ==
    ASSUME TypeOK, RefreshLoops, NEW m \in Ids, Loop(m)
    PROVE  RefreshLoops'
  <1> USE DEF RefreshLoops
  <1>1. UNCHANGED <<overrideM, conf, reload, shut>>
    BY DEF Loop
  <1>2. \A x \in Ids : /\ Running(x)' => Running(x)
                       /\ mgr'[x].cancelled = mgr[x].cancelled
                       /\ Refreshing(x) => Refreshing(x)'
    <2>1. \A x \in Ids : x # m => mgr'[x] = mgr[x]
      <3>1. ASSUME Load(m)  PROVE \A x \in Ids : x # m => mgr'[x] = mgr[x]
        BY <3>1 DEF Load, TypeOK
      <3> QED
        BY <3>1 DEF Loop, FetchEnds, LoopTick, LoopExit, TypeOK
    <2>2. mgr'[m].cancelled = mgr[m].cancelled /\ Running(m)
      <3>1. mgr[m] \in [loop : Loops, cancelled : BOOLEAN, files : SUBSET Keys, urls : SUBSET Keys]
        BY DEF TypeOK
      <3>2. CASE Load(m)
        <4>1. PICK S \in SUBSET conf[m].urls : mgr' = [mgr EXCEPT ![m].urls = S]
          BY <3>2 DEF Load
        <4>2. mgr'[m] = [mgr[m] EXCEPT !.urls = S]
          BY <4>1 DEF TypeOK
        <4>3. mgr'[m].cancelled = mgr[m].cancelled
          BY <3>1, <4>2
        <4> QED
          BY <3>2, <4>3 DEF Load, Running
      <3>5. CASE FetchEnds(m)
        BY <3>1, <3>5 DEF FetchEnds, TypeOK, Running
      <3>3. CASE LoopTick(m)
        BY <3>1, <3>3 DEF LoopTick, TypeOK, Running
      <3>4. CASE LoopExit(m)
        BY <3>1, <3>4 DEF LoopExit, TypeOK, Running
      <3> QED
        BY <3>2, <3>3, <3>4, <3>5 DEF Loop
    <2>3. Refreshing(m) => Refreshing(m)'
      <3>1. CASE FetchEnds(m)
        <4>1. mgr'[m].loop = IF conf[m].refresh THEN "waiting" ELSE "exited"
          BY <3>1 DEF FetchEnds, TypeOK
        <4> QED
          BY <1>1, <2>2, <4>1 DEF Refreshing, Running
      <3>4. CASE Load(m)
        <4>1. mgr'[m].loop = mgr[m].loop
          BY <3>4 DEF Load, TypeOK
        <4> QED
          BY <1>1, <2>2, <4>1 DEF Refreshing, Running
      <3>2. CASE LoopTick(m)
        <4>1. mgr'[m].loop = "fetching"
          BY <3>2 DEF LoopTick, TypeOK
        <4> QED
          BY <1>1, <2>2, <4>1 DEF Refreshing, Running
      <3>3. CASE LoopExit(m)
        BY <1>1, <3>3, <2>2 DEF LoopExit, Refreshing
      <3> QED
        BY <3>1, <3>2, <3>3, <3>4 DEF Loop
    <2> QED
      BY <1>1, <2>1, <2>2, <2>3 DEF Running, Refreshing
  <1>3. OneTenure'
    BY <1>1, <1>2 DEF OneTenure, Swapped, Ids
  <1>4. NoOrphanLoop'
    BY <1>1, <1>2 DEF NoOrphanLoop
  <1>5. NewestRefresh'
    BY <1>1, <1>2 DEF NewestRefresh, TypeOK, Ids
  <1> QED
    BY <1>3, <1>4, <1>5

\* Cancelling a manager changes nothing of the others and does not end its loop
\* at once.
LEMMA CancelEffect ==
    ASSUME TypeOK, NEW m \in Ids, Cancel(m), UNCHANGED conf
    PROVE  /\ \A x \in Ids : Running(x)' <=> Running(x)
           /\ \A x \in Ids : x # m /\ Refreshing(x) => Refreshing(x)'
  <1>1. \A x \in Ids : mgr'[x].loop = mgr[x].loop /\ (x # m => mgr'[x] = mgr[x])
    BY DEF Cancel, TypeOK
  <1> QED
    BY <1>1 DEF Running, Refreshing

LEMMA LoopsReload ==
    ASSUME ConstantsAssumption, TypeOK, RefreshLoops, NEW r \in Reloads, ReloadStep(r)
    PROVE  RefreshLoops'
  <1> USE DEF RefreshLoops
  <1>a. r \in Ids /\ r # Boot /\ reload[r].old \in Ids \cup {None}
    BY DEF Ids, ConstantsAssumption, TypeOK
  <1>1. CASE ReloadBuild(r)
    <2>1. /\ reload[r].pc = "idle"
          /\ ~Running(r)
          /\ overrideM # r
          /\ UNCHANGED <<overrideM, shut>>
      BY <1>a, <1>1 DEF ReloadBuild, OneTenure, Swapped, TypeOK, Ids, ConstantsAssumption
    <2>2. /\ \A x \in Ids : x # r => mgr'[x] = mgr[x] /\ conf'[x] = conf[x]
          /\ \A x \in Reloads : x # r => reload'[x] = reload[x]
          /\ reload'[r].old = reload[r].old
      BY <1>1 DEF ReloadBuild, SetReload, TypeOK
    <2>3. \/ reload'[r].pc = "failed" /\ mgr' = mgr
          \/ reload'[r].pc = "swap" /\ Refreshing(r)'
      <3>1. CASE reload'[r].pc = "failed" /\ mgr' = mgr
        BY <3>1
      <3>2. ASSUME NEW c \in Configs, conf' = [conf EXCEPT ![r] = c], SetReload(r, "swap"),
                   NEW files \in SUBSET c.files,
                   mgr' = [mgr EXCEPT ![r] = NewManager(c, files)]
            PROVE  reload'[r].pc = "swap" /\ Refreshing(r)'
        <4>1. conf'[r] = c /\ mgr'[r] = NewManager(c, files) /\ reload'[r].pc = "swap"
          BY <1>a, <3>2 DEF SetReload, TypeOK
        <4> QED
          BY <4>1 DEF Refreshing, Running, NewManager
      <3>3. ASSUME SetReload(r, "failed")  PROVE reload'[r].pc = "failed"
        BY <3>3 DEF SetReload, TypeOK
      <3> QED
        BY <1>1, <3>1, <3>2, <3>3 DEF ReloadBuild
    <2>4. \A m \in Ids : Swapped(m) => m # r /\ Swapped(m)'
      BY <1>a, <2>1, <2>2 DEF Swapped, Ids
    <2>5. OneTenure'
      <3>1. \A x \in Reloads : reload'[x].pc = "idle" => ~Running(x)'
        BY <2>2, <2>3 DEF OneTenure, Running, Ids
      <3> QED
        BY <2>1, <2>2, <2>4, <3>1 DEF OneTenure
    <2>6. NoOrphanLoop'
      <3>1. ASSUME NEW m \in Ids, Running(m)', m # r
            PROVE  \/ overrideM = m
                   \/ m \in Reloads /\ reload'[m].pc = "swap"
                   \/ \E x \in Reloads : reload'[x].old = m /\ reload'[x].pc \in {"stop", "wait"}
                   \/ shut.om = m /\ shut.pc \in {"stop", "wait"}
        <4>1. Running(m)
          BY <2>2, <3>1 DEF Running
        <4> QED
          BY <2>1, <2>2, <3>1, <4>1 DEF NoOrphanLoop
      <3>2. Running(r)' => reload'[r].pc = "swap"
        BY <2>1, <2>3 DEF Running
      <3> QED
        BY <1>a, <2>1, <3>1, <3>2 DEF NoOrphanLoop
    <2>7. NewestRefresh'
      <3>1. \A x \in Ids : x # r /\ Refreshing(x) => Refreshing(x)'
        BY <2>2 DEF Refreshing, Running
      <3> QED
        BY <1>a, <2>1, <2>2, <2>3, <3>1 DEF NewestRefresh, TypeOK, Ids
    <2> QED
      BY <2>5, <2>6, <2>7
  <1>2. CASE ReloadSwap(r)
    <2>1. /\ reload[r].pc = "swap"
          /\ reload' = [reload EXCEPT ![r] = [pc |-> "stop", old |-> overrideM]]
          /\ overrideM' = r
          /\ UNCHANGED <<conf, mgr, shut>>
      BY <1>2 DEF ReloadSwap
    <2>2. /\ reload'[r] = [pc |-> "stop", old |-> overrideM]
          /\ \A x \in Reloads : x # r => reload'[x] = reload[x]
      BY <2>1 DEF TypeOK
    <2>3. \A m : Swapped(m) => m # r
      BY <1>a, <2>1 DEF Swapped
    <2>4. \A m \in Ids : Swapped(m) => Swapped(m)'
      BY <2>2, <2>3 DEF Swapped, Ids
    <2>5. OneTenure'
      <3>1. \A x \in Reloads : reload'[x].pc = "idle" => ~Running(x)'
        BY <2>1, <2>2 DEF OneTenure, Running
      <3>2. Swapped(r)'
        BY <2>2 DEF Swapped
      <3>3. ASSUME NEW x \in Reloads, NEW m \in Ids, reload'[x].old = m
            PROVE  m # r /\ Swapped(m)'
        <4>1. Swapped(m)
          BY <2>2, <3>3 DEF OneTenure
        <4> QED
          BY <2>3, <2>4, <4>1
      <3>4. ASSUME NEW m \in Ids, shut.om = m  PROVE m # r /\ Swapped(m)'
        <4>1. Swapped(m)
          BY <3>4 DEF OneTenure
        <4> QED
          BY <2>3, <2>4, <4>1
      <3> QED
        BY <2>1, <3>1, <3>2, <3>3, <3>4 DEF OneTenure
    <2>6. NoOrphanLoop'
      <3>1. ASSUME NEW m \in Ids, Running(m)', m # r
            PROVE  \/ \E x \in Reloads : reload'[x].old = m /\ reload'[x].pc \in {"stop", "wait"}
                   \/ m \in Reloads /\ reload'[m].pc = "swap"
                   \/ shut.om = m /\ shut.pc \in {"stop", "wait"}
        <4>1. Running(m)
          BY <2>1, <3>1 DEF Running
        <4>2. overrideM = m => reload'[r].old = m /\ reload'[r].pc = "stop"
          BY <2>2
        <4> QED
          BY <2>1, <2>2, <3>1, <4>1, <4>2 DEF NoOrphanLoop
      <3> QED
        BY <2>1, <3>1 DEF NoOrphanLoop
    <2>7. NewestRefresh'
      BY <2>1, <2>2 DEF NewestRefresh, Refreshing, Running
    <2> QED
      BY <2>5, <2>6, <2>7
  <1>3. CASE ReloadStop(r) \/ ReloadWait(r) \/ ReloadFlush(r)
    <2>1. /\ UNCHANGED <<overrideM, conf, shut>>
          /\ \E s \in {"wait", "panicked", "flush", "done"} :
                reload' = [reload EXCEPT ![r].pc = s]
          /\ reload[r].pc \in {"stop", "wait", "flush"}
      BY <1>3 DEF ReloadStop, ReloadWait, ReloadFlush, SetReload
    <2>2. /\ \A x \in Reloads : x # r => reload'[x] = reload[x]
          /\ \A x \in Reloads : reload'[x].old = reload[x].old
          /\ \A x \in Reloads : reload'[x].pc \in {"idle", "swap"} => reload'[x] = reload[x]
          /\ \A x \in Reloads : reload[x].pc \in {"idle", "swap"} => reload'[x] = reload[x]
          /\ Swapped(r)'
      BY <2>1 DEF TypeOK, Swapped
    <2>3. /\ \A x \in Ids : Running(x)' <=> Running(x)
          /\ \A x \in Ids : x # reload[r].old /\ Refreshing(x) => Refreshing(x)'
      <3>1. CASE UNCHANGED mgr
        BY <2>1, <3>1 DEF Running, Refreshing
      <3>2. CASE reload[r].old \in Ids /\ Cancel(reload[r].old)
        BY <2>1, <3>2, CancelEffect
      <3> QED
        BY <1>3, <1>a, <3>1, <3>2 DEF ReloadStop, ReloadWait, ReloadFlush
    <2>4. \A m \in Ids : Swapped(m) => Swapped(m)'
      BY <2>2 DEF Swapped, Ids
    <2>5. OneTenure'
      <3>1. \A x \in Reloads : reload'[x].pc = "idle" => ~Running(x)'
        BY <2>2, <2>3 DEF OneTenure, Ids
      <3> QED
        BY <2>1, <2>2, <2>4, <3>1 DEF OneTenure
    <2>6. NoOrphanLoop'
      <3>1. ASSUME NEW m \in Ids, Running(m), reload[r].old = m, reload[r].pc \in {"stop", "wait"}
            PROVE  reload'[r].old = m /\ reload'[r].pc = "wait"
        <4>1. m # None
          BY <3>1 DEF ConstantsAssumption
        <4>2. CASE ReloadStop(r)
          BY <3>1, <4>1, <4>2 DEF ReloadStop, SetReload, TypeOK
        <4> QED
          BY <1>3, <3>1, <4>2 DEF ReloadWait, ReloadFlush
      <3>2. ASSUME NEW m \in Ids, Running(m)'
            PROVE  \/ overrideM = m
                   \/ m \in Reloads /\ reload'[m].pc = "swap"
                   \/ \E x \in Reloads : reload'[x].old = m /\ reload'[x].pc \in {"stop", "wait"}
                   \/ shut.om = m /\ shut.pc \in {"stop", "wait"}
        <4>1. Running(m)
          BY <2>3, <3>2
        <4>2. CASE overrideM = m \/ (shut.om = m /\ shut.pc \in {"stop", "wait"})
          BY <4>2
        <4>3. CASE m \in Reloads /\ reload[m].pc = "swap"
          BY <2>2, <4>3
        <4>4. ASSUME NEW x \in Reloads, reload[x].old = m, reload[x].pc \in {"stop", "wait"}
              PROVE  \E y \in Reloads : reload'[y].old = m /\ reload'[y].pc \in {"stop", "wait"}
          <5>1. CASE x = r
            BY <4>1, <4>4, <3>1, <5>1
          <5>2. CASE x # r
            BY <4>4, <2>2, <5>2
          <5> QED
            BY <5>1, <5>2
        <4> QED
          BY <4>1, <4>2, <4>3, <4>4 DEF NoOrphanLoop
      <3> QED
        BY <2>1, <3>2 DEF NoOrphanLoop
    <2>7. NewestRefresh'
      <3>1. overrideM # None => overrideM # reload[r].old /\ overrideM \in Ids
        BY DEF OneTenure, TypeOK
      <3>2. \A x \in Reloads : reload[x].pc = "swap" =>
               x \in Ids /\ (reload[r].old # None => x # reload[r].old)
        BY DEF OneTenure, Swapped, Ids, ConstantsAssumption
      <3>3. \A x \in Reloads : x # None
        BY DEF ConstantsAssumption, Ids
      <3> QED
        BY <2>1, <2>2, <2>3, <3>1, <3>2, <3>3 DEF NewestRefresh
    <2> QED
      BY <2>5, <2>6, <2>7
  <1> QED
    BY <1>1, <1>2, <1>3 DEF ReloadStep

LEMMA LoopsShutdown ==
    ASSUME ConstantsAssumption, TypeOK, RefreshLoops, ShutdownStep
    PROVE  RefreshLoops'
  <1> USE DEF RefreshLoops
  <1>a. UNCHANGED <<conf, reload>>
    BY DEF ShutdownStep
  <1>1. CASE ShutdownTake
    <2>1. /\ shut.pc = "idle"
          /\ shut' = [pc |-> IF overrideM = None THEN "done" ELSE "stop", om |-> overrideM]
          /\ overrideM' = None
          /\ UNCHANGED mgr
      BY <1>1 DEF ShutdownTake
    <2>2. OneTenure'
      BY <1>a, <2>1 DEF OneTenure, Swapped, Running
    <2>3. NoOrphanLoop'
      <3>1. ASSUME NEW m \in Ids, overrideM = m
            PROVE  shut'.om = m /\ shut'.pc = "stop"
        BY <2>1, <3>1 DEF ConstantsAssumption
      <3> QED
        BY <1>a, <2>1, <3>1 DEF NoOrphanLoop, Running
    <2>4. NewestRefresh'
      BY <1>a, <2>1 DEF NewestRefresh, Refreshing, Running
    <2> QED
      BY <2>2, <2>3, <2>4
  <1>2. CASE ShutdownStop
    <2>1. /\ shut.pc = "stop"
          /\ shut'.pc = "wait" /\ shut'.om = shut.om
          /\ UNCHANGED overrideM
      BY <1>2 DEF ShutdownStop, TypeOK
    <2>2. /\ \A x \in Ids : Running(x)' <=> Running(x)
          /\ \A x \in Ids : x # shut.om /\ Refreshing(x) => Refreshing(x)'
      <3>1. CASE shut.om \in Ids
        BY <1>a, <1>2, <3>1, CancelEffect DEF ShutdownStop
      <3>2. CASE shut.om \notin Ids
        <4>1. UNCHANGED mgr
          BY <1>2, <3>2 DEF ShutdownStop, Cancel, TypeOK
        <4> QED
          BY <1>a, <4>1 DEF Running, Refreshing
      <3> QED
        BY <3>1, <3>2
    <2>3. OneTenure'
      BY <1>a, <2>1, <2>2 DEF OneTenure, Swapped, Ids
    <2>4. NoOrphanLoop'
      BY <1>a, <2>1, <2>2 DEF NoOrphanLoop
    <2>5. NewestRefresh'
      <3>1. overrideM # None => overrideM # shut.om /\ overrideM \in Ids
        BY DEF OneTenure, TypeOK
      <3>2. \A x \in Reloads : reload[x].pc = "swap" => x \in Ids /\ x # shut.om
        BY DEF OneTenure, Swapped, Ids, ConstantsAssumption
      <3> QED
        BY <1>a, <2>1, <2>2, <3>1, <3>2 DEF NewestRefresh
    <2> QED
      BY <2>3, <2>4, <2>5
  <1>3. CASE ShutdownWait
    <2>1. /\ ~Running(shut.om)
          /\ shut'.om = shut.om
          /\ UNCHANGED <<overrideM, mgr>>
      BY <1>3 DEF ShutdownWait, TypeOK
    <2>2. OneTenure' /\ NewestRefresh'
      BY <1>a, <2>1 DEF OneTenure, Swapped, Running, NewestRefresh, Refreshing
    <2>3. NoOrphanLoop'
      BY <1>a, <2>1 DEF NoOrphanLoop, Running
    <2> QED
      BY <2>2, <2>3
  <1> QED
    BY <1>1, <1>2, <1>3 DEF ShutdownStep

-----------------------------------------------------------------------------
(* The invariant is inductive                                              *)

LEMMA InvInit == ConstantsAssumption /\ Init => IInv
  <1> SUFFICES ASSUME ConstantsAssumption, Init  PROVE IInv
    OBVIOUS
  <1>1. TypeOK
    BY TypeInit
  <1>2. SlotsMatchQueries
    <2>1. { q \in Queries : pc[q] \in Holding } = {} /\ sem = 0
      BY DEF Init, Holding, Routed
    <2> QED
      BY <2>1, FS_EmptySet DEF SlotsMatchQueries
  <1>3. OneNewestConfiguration /\ SinceReturned /\ RoutedByOneFreshConfiguration
    BY <1>1 DEF Init, OneNewestConfiguration, Current, SinceReturned,
       RoutedByOneFreshConfiguration, Routed, Components, Ids
  <1>4. NoEntrySurvivesReload
    BY DEF Init, Cache!Init, NoEntrySurvivesReload
  <1>5. PICK c \in Configs, files \in SUBSET Keys :
           /\ conf = [i \in Ids |-> c]
           /\ mgr = [i \in Ids |->
                       IF i = Boot THEN NewManager(c, files)
                       ELSE [loop |-> "absent", cancelled |-> FALSE, files |-> {}, urls |-> {}]]
    BY DEF Init
  <1>6. /\ overrideM = Boot /\ Boot \in Ids
        /\ shut.om = None
        /\ \A r \in Reloads : reload[r].pc = "idle" /\ reload[r].old = None
    BY DEF Init, Ids
  <1>7. \A i \in Ids : i # Boot => ~Running(i)
    BY <1>5 DEF Running
  <1>8. Refreshing(Boot)
    BY <1>5, <1>6 DEF Refreshing, Running, NewManager
  <1>9. OneTenure
    BY <1>6, <1>7 DEF OneTenure, Swapped, Ids, ConstantsAssumption
  <1>10. NoOrphanLoop
    BY <1>6, <1>7 DEF NoOrphanLoop
  <1>11. NewestRefresh
    BY <1>6, <1>8 DEF NewestRefresh
  <1> QED
    BY <1>1, <1>2, <1>3, <1>4, <1>9, <1>10, <1>11 DEF IInv

LEMMA InvStep == ConstantsAssumption /\ IInv /\ [Next]_vars => IInv'
  <1> SUFFICES ASSUME ConstantsAssumption, IInv, [Next]_vars  PROVE IInv'
    OBVIOUS
  <1>a. TypeOK /\ SlotsMatchQueries /\ Configurations /\ RefreshLoops
    BY DEF IInv, Configurations, RefreshLoops
  <1>b. ASSUME TypeOK', SlotsMatchQueries', Configurations', RefreshLoops'  PROVE IInv'
    BY <1>b DEF IInv, Configurations, RefreshLoops
  <1>c. ASSUME UNCHANGED <<pc, sem>>  PROVE SlotsMatchQueries'
    BY <1>a, <1>c DEF SlotsMatchQueries
  <1>1. ASSUME NEW q \in Queries, QueryArrives(q) \/ QueryStep(q)  PROVE IInv'
    <2>1. UNCHANGED engineVars
      BY <1>1 DEF QueryStep, QueryArrives, engineVars
    <2> QED
      BY <1>1, <1>a, <1>b, <2>1, TypeQuery, SlotsQuery, ConfigurationsQuery, LoopsUntouched
  <1>2. ASSUME NEW r \in Reloads, ReloadStep(r)  PROVE IInv'
    <2>1. UNCHANGED <<pc, sem>>
      BY <1>2 DEF ReloadStep, ReloadBuild, ReloadSwap, ReloadStop, ReloadWait, ReloadFlush,
         queryVars
    <2> QED
      BY <1>2, <1>a, <1>b, <1>c, <2>1, TypeReload, ConfigurationsReload, LoopsReload
  <1>3. ASSUME NEW m \in Ids, Loop(m)  PROVE IInv'
    <2>1. UNCHANGED <<pc, sem>>
      BY <1>3 DEF Loop, queryVars
    <2> QED
      BY <1>3, <1>a, <1>b, <1>c, <2>1, TypeLoop, ConfigurationsOther, LoopsLoop
  <1>4. CASE FlushCache
    <2>1. UNCHANGED <<pc, sem>> /\ UNCHANGED engineVars
      BY <1>4 DEF FlushCache, queryVars, engineVars
    <2>2. TypeOK'
      BY <1>a, <1>4 DEF FlushCache, Cache!Flush, queryVars, TypeOK
    <2> QED
      BY <1>4, <1>a, <1>b, <1>c, <2>1, <2>2, ConfigurationsOther, LoopsUntouched
  <1>5. CASE ShutdownStep
    <2>1. UNCHANGED <<pc, sem>>
      BY <1>5 DEF ShutdownStep, queryVars
    <2> QED
      BY <1>5, <1>a, <1>b, <1>c, <2>1, TypeShutdown, ConfigurationsOther, LoopsShutdown
  <1>6. CASE UNCHANGED vars
    <2>1. UNCHANGED <<pc, sem>> /\ UNCHANGED engineVars
      BY <1>6 DEF vars, queryVars, engineVars
    <2>2. TypeOK'
      BY <1>a, <1>6 DEF vars, queryVars, TypeOK
    <2> QED
      BY <1>6, <1>a, <1>b, <1>c, <2>1, <2>2, ConfigurationsOther, LoopsUntouched
  <1> QED
    BY <1>1, <1>2, <1>3, <1>4, <1>5, <1>6 DEF Next

LEMMA Invariance == Spec => []IInv
  BY InvInit, InvStep, ConstantsAssumption, PTL DEF Spec

-----------------------------------------------------------------------------
(* The hand-over of the override managers                                  *)

Replaced(r) == reload[r].pc \in {"stop", "wait", "flush", "done", "panicked"}

\* The caller of shutdown() is past the call that cancels the fetches.
Stopped(r, m) == reload[r].old = m /\ reload[r].pc \in {"wait", "flush", "done"}

\* The nil manager comes from Shutdown, and a reload that met it panics.
NilOnlyAtShutdown ==
    /\ shut.pc = "idle" => /\ shut.om = None
                           /\ overrideM # None
                           /\ \A r \in Reloads : Replaced(r) => reload[r].old # None
    /\ shut.pc # "idle" => shut.om # None
    /\ \A r \in Reloads : ~Replaced(r) => reload[r].old = None
    /\ \A r \in Reloads : reload[r].pc = "panicked" => reload[r].old = None
    /\ \A r \in Reloads : \A m : Stopped(r, m) => m # None

\* What was taken away, the nil manager included, is current no longer, and
\* was taken by one caller.
HandedOverOnce ==
    /\ \A r \in Reloads : Replaced(r) => reload[r].old # overrideM
    /\ \A r, s \in Reloads :
          Replaced(r) /\ Replaced(s) /\ reload[r].old = reload[s].old => r = s
    /\ shut.pc # "idle" => /\ shut.om # overrideM
                           /\ \A r \in Reloads : Replaced(r) => reload[r].old # shut.om

\* A manager is told to end by the caller that took it, and by nobody else.
CancelledByItsTaker ==
    \A m \in Ids : mgr[m].cancelled <=> \/ \E r \in Reloads : Stopped(r, m)
                                        \/ shut.om = m /\ shut.pc \in {"wait", "done"}

Handovers == NilOnlyAtShutdown /\ HandedOverOnce /\ CancelledByItsTaker

LEMMA HandoversInit == ConstantsAssumption /\ Init => Handovers
  <1> SUFFICES ASSUME ConstantsAssumption, Init  PROVE Handovers
    OBVIOUS
  <1>1. /\ overrideM = Boot /\ Boot # None
        /\ shut = [pc |-> "idle", om |-> None]
        /\ \A r \in Reloads : reload[r] = [pc |-> "idle", old |-> None]
    BY DEF Init, Ids, ConstantsAssumption
  <1>2. \A m \in Ids : mgr[m].cancelled = FALSE
    BY DEF Init, NewManager
  <1> QED
    BY <1>1, <1>2 DEF Handovers, NilOnlyAtShutdown, HandedOverOnce, CancelledByItsTaker,
       Replaced, Stopped

\* The steps of queries and of the loops tell no manager to end.
LEMMA HandoversOther ==
    ASSUME TypeOK, Handovers,
           UNCHANGED engineVars \/ \E m \in Ids : Loop(m)
    PROVE  Handovers'
  <1>1. UNCHANGED <<overrideM, reload, shut>>
    BY DEF Loop, engineVars
  <1>2. \A x \in Ids : mgr'[x].cancelled = mgr[x].cancelled
    <2>1. CASE UNCHANGED engineVars
      BY <2>1 DEF engineVars
    <2>2. ASSUME NEW m \in Ids, Loop(m)  PROVE \A x \in Ids : mgr'[x].cancelled = mgr[x].cancelled
      <3>1. mgr[m] \in Records
        BY DEF TypeOK, Records
      <3>2. CASE Load(m)
        <4>1. PICK S \in SUBSET conf[m].urls : mgr' = [mgr EXCEPT ![m].urls = S]
          BY <3>2 DEF Load
        <4>2. mgr'[m] = [mgr[m] EXCEPT !.urls = S]
          BY <4>1 DEF TypeOK
        <4>3. mgr'[m].cancelled = mgr[m].cancelled
          BY <3>1, <4>2 DEF Records
        <4>4. \A x \in Ids : x # m => mgr'[x] = mgr[x]
          BY <4>1 DEF TypeOK
        <4> QED
          BY <4>3, <4>4
      <3>3. CASE FetchEnds(m) \/ LoopTick(m) \/ LoopExit(m)
        <4>1. PICK l \in Loops : mgr' = [mgr EXCEPT ![m] = [mgr[m] EXCEPT !.loop = l]]
          BY <3>3 DEF FetchEnds, LoopTick, LoopExit, Loops
        <4>2. mgr'[m] = [mgr[m] EXCEPT !.loop = l] /\ \A x \in Ids : x # m => mgr'[x] = mgr[x]
          BY <4>1 DEF TypeOK
        <4>3. mgr'[m].cancelled = mgr[m].cancelled
          BY <3>1, <4>2 DEF Records
        <4> QED
          BY <4>2, <4>3
      <3> QED
        BY <2>2, <3>2, <3>3 DEF Loop
    <2> QED
      BY <2>1, <2>2
  <1> QED
    BY <1>1, <1>2 DEF Handovers, NilOnlyAtShutdown, HandedOverOnce, CancelledByItsTaker,
       Replaced, Stopped

LEMMA HandoversReload ==
    ASSUME ConstantsAssumption, TypeOK, OneTenure, Handovers, NEW r \in Reloads, ReloadStep(r)
    PROVE  Handovers'
  <1> USE DEF Handovers
  <1>a. r \in Ids /\ r # None /\ reload[r].old \in Ids \cup {None} /\ UNCHANGED shut
    BY DEF Ids, ConstantsAssumption, TypeOK, ReloadStep, ReloadBuild, ReloadSwap, ReloadStop,
       ReloadWait, ReloadFlush
  <1>b. \A x \in Reloads : reload[x] \in ReloadRecords
    BY DEF TypeOK, ReloadRecords, ReloadStates
  <1>1. CASE ReloadBuild(r)
    <2>1. /\ reload[r].pc = "idle"
          /\ UNCHANGED overrideM
          /\ \A x \in Reloads : x # r => reload'[x] = reload[x]
          /\ reload'[r].old = reload[r].old
          /\ reload'[r].pc \in {"failed", "swap"}
          /\ \A x \in Ids : x # r => mgr'[x] = mgr[x]
          /\ mgr'[r] = mgr[r] \/ mgr'[r].cancelled = FALSE
      BY <1>a, <1>1 DEF ReloadBuild, SetReload, TypeOK, NewManager
    <2>2. ~Swapped(r)
      BY <1>a, <2>1 DEF Swapped, ConstantsAssumption
    <2>3. (\A x \in Reloads : reload[x].old # r) /\ shut.om # r
      BY <1>a, <2>2 DEF OneTenure
    <2>4. ~mgr[r].cancelled
      BY <1>a, <2>3 DEF CancelledByItsTaker, Stopped
    <2>5. /\ \A x \in Reloads : Replaced(x)' <=> Replaced(x)
          /\ \A x \in Reloads : \A m : Stopped(x, m)' <=> Stopped(x, m)
          /\ \A x \in Reloads : reload'[x].old = reload[x].old
          /\ \A x \in Reloads : reload'[x].pc = "panicked" => reload[x].pc = "panicked"
      BY <2>1 DEF Replaced, Stopped
    <2>6. \A m \in Ids : mgr'[m].cancelled <=> mgr[m].cancelled
      BY <2>1, <2>4
    <2>7. NilOnlyAtShutdown'
      BY <1>a, <2>1, <2>5 DEF NilOnlyAtShutdown
    <2>8. HandedOverOnce'
      BY <1>a, <2>1, <2>5 DEF HandedOverOnce
    <2>9. CancelledByItsTaker'
      BY <1>a, <2>5, <2>6 DEF CancelledByItsTaker
    <2> QED
      BY <2>7, <2>8, <2>9
  <1>2. CASE ReloadSwap(r)
    <2>1. /\ reload[r].pc = "swap"
          /\ overrideM' = r
          /\ UNCHANGED mgr
          /\ \A x \in Reloads : x # r => reload'[x] = reload[x]
          /\ reload'[r] = [pc |-> "stop", old |-> overrideM]
      BY <1>2 DEF ReloadSwap, TypeOK
    <2>2. ~Swapped(r) /\ ~Replaced(r)
      BY <1>a, <2>1 DEF Swapped, Replaced, ConstantsAssumption
    <2>3. (\A x \in Reloads : reload[x].old # r) /\ shut.om # r /\ overrideM # r
      BY <1>a, <2>2 DEF OneTenure
    <2>4. /\ \A x \in Reloads : x # r => (Replaced(x)' <=> Replaced(x))
          /\ Replaced(r)'
          /\ \A x \in Reloads : \A m : Stopped(x, m)' <=> Stopped(x, m)
      BY <2>1 DEF Replaced, Stopped
    <2>5. NilOnlyAtShutdown'
      BY <1>a, <2>1, <2>2, <2>4 DEF NilOnlyAtShutdown
    <2>6. HandedOverOnce'
      <3>1. \A x \in Reloads : Replaced(x)' => reload'[x].old # r
        BY <2>1, <2>3
      <3>2. \A x \in Reloads : x # r /\ Replaced(x)' => reload'[x].old # reload'[r].old
        BY <2>1, <2>4 DEF HandedOverOnce
      <3>3. \A x, y \in Reloads :
               Replaced(x)' /\ Replaced(y)' /\ reload'[x].old = reload'[y].old => x = y
        BY <2>1, <2>4, <3>2 DEF HandedOverOnce
      <3>4. shut.pc # "idle" => \A x \in Reloads : Replaced(x)' => reload'[x].old # shut.om
        BY <2>1, <2>4 DEF HandedOverOnce
      <3> QED
        BY <1>a, <2>1, <2>3, <3>1, <3>3, <3>4 DEF HandedOverOnce
    <2>7. CancelledByItsTaker'
      BY <1>a, <2>1, <2>4 DEF CancelledByItsTaker
    <2> QED
      BY <2>5, <2>6, <2>7
  <1>3. CASE ReloadStop(r) \/ ReloadWait(r) \/ ReloadFlush(r)
    <2>1. /\ UNCHANGED overrideM
          /\ \A x \in Reloads : x # r => reload'[x] = reload[x]
          /\ reload'[r].old = reload[r].old
          /\ reload[r].pc \in {"stop", "wait", "flush"}
          /\ reload'[r].pc \in {"panicked", "wait", "flush", "done"}
          /\ reload'[r].pc = "panicked" <=> reload[r].pc = "stop" /\ reload[r].old = None
      BY <1>b, <1>3 DEF ReloadStop, ReloadWait, ReloadFlush, SetReload, TypeOK
    <2>2. /\ \A x \in Reloads : Replaced(x)' <=> Replaced(x)
          /\ \A x \in Reloads : reload'[x].old = reload[x].old
          /\ \A x \in Reloads : \A m : x # r => (Stopped(x, m)' <=> Stopped(x, m))
          /\ \A m : Stopped(r, m)' <=> m = reload[r].old /\ reload'[r].pc # "panicked"
          /\ \A m : Stopped(r, m) <=> m = reload[r].old /\ reload[r].pc # "stop"
      BY <2>1 DEF Replaced, Stopped
    <2>3. NilOnlyAtShutdown'
      <3>1. \A x \in Reloads : reload'[x].pc = "panicked" => reload'[x].old = None
        BY <2>1 DEF NilOnlyAtShutdown
      <3>2. ASSUME Stopped(r, None)'  PROVE FALSE
        <4>1. reload[r].old = None /\ reload[r].pc # "stop"
          BY <2>1, <2>2, <3>2
        <4> QED
          BY <2>2, <4>1 DEF NilOnlyAtShutdown
      <3>3. \A x \in Reloads : \A m : Stopped(x, m)' => m # None
        BY <2>2, <3>2 DEF NilOnlyAtShutdown
      <3> QED
        BY <1>a, <2>1, <2>2, <3>1, <3>3 DEF NilOnlyAtShutdown
    <2>4. HandedOverOnce'
      BY <1>a, <2>1, <2>2 DEF HandedOverOnce
    <2>5. \A m \in Ids : mgr'[m].cancelled <=> mgr[m].cancelled \/ Stopped(r, m)'
      <3>1. CASE ReloadStop(r) /\ reload[r].old # None
        <4>1. mgr' = [mgr EXCEPT ![reload[r].old].cancelled = TRUE]
          BY <3>1 DEF ReloadStop, Cancel
        <4>2. \A m \in Ids : mgr'[m].cancelled <=> mgr[m].cancelled \/ m = reload[r].old
          BY <1>a, <3>1, <4>1 DEF TypeOK
        <4> QED
          BY <2>1, <2>2, <3>1, <4>2
      <3>2. CASE ReloadStop(r) /\ reload[r].old = None
        <4>1. UNCHANGED mgr /\ reload'[r].pc = "panicked"
          BY <2>1, <3>2 DEF ReloadStop
        <4> QED
          BY <2>2, <4>1
      <3>3. CASE ReloadWait(r) \/ ReloadFlush(r)
        <4>1. UNCHANGED mgr /\ \A m : Stopped(r, m)' <=> Stopped(r, m)
          BY <2>1, <2>2, <3>3 DEF ReloadWait, ReloadFlush
        <4> QED
          BY <4>1 DEF CancelledByItsTaker
      <3> QED
        BY <1>3, <3>1, <3>2, <3>3
    <2>6. \A m \in Ids : Stopped(r, m) => Stopped(r, m)'
      BY <2>1, <2>2
    <2>7. CancelledByItsTaker'
      BY <1>a, <2>2, <2>5, <2>6 DEF CancelledByItsTaker
    <2> QED
      BY <2>3, <2>4, <2>7
  <1> QED
    BY <1>1, <1>2, <1>3 DEF ReloadStep

LEMMA HandoversShutdown ==
    ASSUME ConstantsAssumption, TypeOK, OneTenure, Handovers, ShutdownStep
    PROVE  Handovers'
  <1> USE DEF Handovers
  <1>a. /\ UNCHANGED reload
        /\ \A r \in Reloads : Replaced(r)' <=> Replaced(r)
        /\ \A r \in Reloads : \A m : Stopped(r, m)' <=> Stopped(r, m)
    BY DEF ShutdownStep, Replaced, Stopped
  <1>1. CASE ShutdownTake
    <2>1. /\ shut.pc = "idle" /\ shut.om = None
          /\ overrideM # None
          /\ shut' = [pc |-> "stop", om |-> overrideM]
          /\ overrideM' = None
          /\ UNCHANGED mgr
      BY <1>1 DEF ShutdownTake, NilOnlyAtShutdown
    <2>2. NilOnlyAtShutdown'
      BY <1>a, <2>1 DEF NilOnlyAtShutdown
    <2>3. HandedOverOnce'
      BY <1>a, <2>1 DEF HandedOverOnce, NilOnlyAtShutdown
    <2>4. CancelledByItsTaker'
      BY <1>a, <2>1 DEF CancelledByItsTaker
    <2> QED
      BY <2>2, <2>3, <2>4
  <1>2. CASE ShutdownStop
    <2>1. /\ shut.pc = "stop" /\ shut.om # None /\ shut.om \in Ids
          /\ shut'.pc = "wait" /\ shut'.om = shut.om
          /\ UNCHANGED overrideM
          /\ mgr' = [mgr EXCEPT ![shut.om].cancelled = TRUE]
      BY <1>2 DEF ShutdownStop, Cancel, NilOnlyAtShutdown, TypeOK
    <2>2. \A m \in Ids : mgr'[m].cancelled <=> mgr[m].cancelled \/ m = shut.om
      BY <2>1 DEF TypeOK
    <2>3. NilOnlyAtShutdown'
      BY <1>a, <2>1 DEF NilOnlyAtShutdown
    <2>4. HandedOverOnce'
      BY <1>a, <2>1 DEF HandedOverOnce
    <2>5. CancelledByItsTaker'
      BY <1>a, <2>1, <2>2 DEF CancelledByItsTaker
    <2> QED
      BY <2>3, <2>4, <2>5
  <1>3. CASE ShutdownWait
    <2>1. /\ shut.pc = "wait"
          /\ shut'.pc = "done" /\ shut'.om = shut.om
          /\ UNCHANGED <<overrideM, mgr>>
      BY <1>3 DEF ShutdownWait, TypeOK
    <2>2. NilOnlyAtShutdown'
      BY <1>a, <2>1 DEF NilOnlyAtShutdown
    <2>3. HandedOverOnce'
      BY <1>a, <2>1 DEF HandedOverOnce
    <2>4. CancelledByItsTaker'
      BY <1>a, <2>1 DEF CancelledByItsTaker
    <2> QED
      BY <2>2, <2>3, <2>4
  <1> QED
    BY <1>1, <1>2, <1>3 DEF ShutdownStep

LEMMA HandoversInvariant == Spec => []Handovers
  <1>1. ConstantsAssumption /\ IInv /\ Handovers /\ [Next]_vars => Handovers'
    <2> SUFFICES ASSUME ConstantsAssumption, IInv, Handovers, [Next]_vars  PROVE Handovers'
      OBVIOUS
    <2>a. TypeOK /\ OneTenure
      BY DEF IInv
    <2>1. ASSUME NEW q \in Queries, QueryArrives(q) \/ QueryStep(q)  PROVE UNCHANGED engineVars
      BY <2>1 DEF QueryStep, QueryArrives, engineVars
    <2>2. FlushCache \/ UNCHANGED vars => UNCHANGED engineVars
      BY DEF FlushCache, vars, engineVars
    <2>3. ASSUME NEW r \in Reloads, ReloadStep(r)  PROVE Handovers'
      BY <2>a, <2>3, HandoversReload
    <2>4. ShutdownStep => Handovers'
      BY <2>a, HandoversShutdown
    <2> QED
      BY <2>a, <2>1, <2>2, <2>3, <2>4, HandoversOther DEF Next
  <1> QED
    BY <1>1, HandoversInit, Invariance, ConstantsAssumption, PTL DEF Spec

-----------------------------------------------------------------------------
(* The answers given after a reload                                        *)

\* What ReloadTakesEffect leaves standing.  An answer from a configuration older
\* than a reload that had returned when the query arrived comes out of the
\* cache, and was put there after that reload's swap: a query that was in flight
\* across the swap brought it back.  Neither the overrides, nor the upstreams,
\* nor an entry from before the swap give such an answer.
StaleAnswersWereInFlight ==
    \A q \in Queries : \A a \in ans[q], r \in since[q] :
        epoch[a.by] < epoch[r] => a.at >= epoch[r] /\ epoch[r] > 0

\* The configuration of the first critical section is as fresh as the one of
\* the second.
SeenIsFresh ==
    \A q \in Queries : pc[q] = "lookup" => \A r \in since[q] : epoch[seen[q].cfg] >= epoch[r]

FreshAnswers ==
    /\ \A q \in Queries : pc[q] = "idle" => ans[q] = {}
    /\ \A r \in Reloads : Replaced(r) => epoch[r] > 0
    /\ SeenIsFresh
    /\ StaleAnswersWereInFlight

LEMMA AnswersInit == ConstantsAssumption /\ Init => FreshAnswers
  BY DEF Init, FreshAnswers, SeenIsFresh, StaleAnswersWereInFlight, Replaced

LEMMA AnswersQuery ==
    ASSUME ConstantsAssumption, IInv, FreshAnswers, NEW q \in Queries,
           QueryStep(q) \/ QueryArrives(q)
    PROVE  FreshAnswers'
  <1> USE DEF FreshAnswers
  <1>a. TypeOK /\ Configurations
    BY DEF IInv, Configurations
  <1>b. UNCHANGED <<epoch, reload>>
    BY DEF QueryStep, QueryArrives
  <1>c. \A r \in Reloads : Replaced(r)' <=> Replaced(r)
    BY <1>b DEF Replaced
  <1>d. \A i \in Ids : epoch[i] \in Nat
    BY <1>a DEF TypeOK
  <1>e. /\ \A x \in Queries : since[x] \subseteq Reloads /\ ans[x] \subseteq Answers
        /\ Reloads \subseteq Ids
        /\ \A x \in Queries : seen[x].cfg \in Ids /\ snap[x]["cfg"] \in Ids
        /\ comp["cfg"] \in Ids
    BY <1>a DEF TypeOK, Ids, Components
  <1> DEFINE Sound(A, R) == \A a \in A, r \in R :
                               epoch[a.by] < epoch[r] => a.at >= epoch[r] /\ epoch[r] > 0
  \* A query that has got an answer, or not, from what it has read.
  <1>f. ASSUME NEW A, ans' = [ans EXCEPT ![q] = A], UNCHANGED since, Sound(A, since[q])
        PROVE  StaleAnswersWereInFlight'
    BY <1>a, <1>b, <1>f DEF StaleAnswersWereInFlight, TypeOK
  <1>g. ASSUME UNCHANGED <<ans, since>>  PROVE StaleAnswersWereInFlight'
    BY <1>b, <1>g DEF StaleAnswersWereInFlight
  <1>h. ASSUME UNCHANGED <<seen, since>>, \A x \in Queries : pc'[x] = "lookup" => pc[x] = "lookup"
        PROVE  SeenIsFresh'
    BY <1>b, <1>h DEF SeenIsFresh
  <1>i. ASSUME NEW i \in Ids, \A r \in since[q] : epoch[i] >= epoch[r]
        PROVE  Sound({[by |-> i, at |-> 0]}, since[q])
    <2>1. ASSUME NEW r \in since[q]  PROVE ~(epoch[i] < epoch[r])
      BY <1>d, <1>e, <1>i, <2>1
    <2> QED
      BY <2>1
  <1>1. CASE Arrive(q)
    <2>1. /\ pc[q] = "idle" /\ UNCHANGED <<ans, seen>>
          /\ \A x \in Queries : x # q => since'[x] = since[x] /\ pc'[x] = pc[x]
          /\ pc'[q] \in {"get", "done"}
      BY <1>a, <1>1 DEF Arrive, Goto, TypeOK
    <2>2. StaleAnswersWereInFlight'
      BY <1>b, <2>1 DEF StaleAnswersWereInFlight
    <2>3. SeenIsFresh'
      BY <1>b, <2>1 DEF SeenIsFresh
    <2> QED
      BY <1>b, <1>c, <2>1, <2>2, <2>3
  <1>2. CASE Get(q)
    <2>1. /\ Cache!Get(KeyOf[q])
          /\ ans' = [ans EXCEPT ![q] = got']
          /\ UNCHANGED <<seen, since>>
          /\ \E s \in {"done", "snapshot"} : pc' = [pc EXCEPT ![q] = s]
      BY <1>2 DEF Get, Goto
    <2>2. \A a \in got' : KeyOf[q] \in DOMAIN store /\ a = store[KeyOf[q]]
      BY <2>1 DEF Cache!Get, Cache!Forget
    <2>3. \A r \in since[q] : r \in Reloads /\ reload[r].pc = "done" /\ epoch[r] > 0
      BY <1>a, <1>e DEF Configurations, SinceReturned, Replaced
    <2>4. Sound(got', since[q])
      BY <1>a, <2>2, <2>3 DEF Configurations, NoEntrySurvivesReload
    <2>5. StaleAnswersWereInFlight'
      BY <1>f, <2>1, <2>4
    <2>6. SeenIsFresh'
      BY <1>a, <1>h, <2>1 DEF TypeOK
    <2>7. \A x \in Queries : pc'[x] = "idle" => ans'[x] = {}
      BY <1>a, <2>1 DEF TypeOK
    <2> QED
      BY <1>b, <1>c, <2>5, <2>6, <2>7
  <1>3. CASE Snapshot(q)
    <2>1. /\ seen' = [seen EXCEPT ![q] = [om |-> overrideM, cfg |-> comp["cfg"]]]
          /\ \E s \in {"acquire", "lookup"} : pc' = [pc EXCEPT ![q] = s]
          /\ UNCHANGED <<ans, since>>
      BY <1>3 DEF Snapshot, Goto
    <2>2. \A r \in Reloads : epoch[comp["cfg"]] >= epoch[r]
      BY <1>a, <1>d, <1>e DEF Configurations, OneNewestConfiguration, Current
    <2>3. SeenIsFresh'
      <3>1. ASSUME NEW x \in Queries, pc'[x] = "lookup", NEW r \in since[x]
            PROVE  epoch[seen'[x].cfg] >= epoch[r]
        <4>1. CASE x = q
          <5>1. seen'[q].cfg = comp["cfg"]
            BY <1>a, <2>1 DEF TypeOK
          <5> QED
            BY <1>e, <2>2, <3>1, <4>1, <5>1
        <4>2. CASE x # q
          BY <1>a, <2>1, <3>1, <4>2 DEF SeenIsFresh, TypeOK
        <4> QED
          BY <4>1, <4>2
      <3> QED
        BY <1>b, <2>1, <3>1 DEF SeenIsFresh
    <2>4. \A x \in Queries : pc'[x] = "idle" => ans'[x] = {}
      BY <1>a, <2>1 DEF TypeOK
    <2> QED
      BY <1>b, <1>c, <1>g, <2>1, <2>3, <2>4
  <1>4. CASE Lookup(q)
    <2>1. /\ pc[q] = "lookup"
          /\ \/ ans' = [ans EXCEPT ![q] = {[by |-> seen[q].cfg, at |-> 0]}]
             \/ UNCHANGED ans
          /\ \E s \in {"acquire", "storeOverride"} : pc' = [pc EXCEPT ![q] = s]
          /\ UNCHANGED <<seen, since>>
      BY <1>4 DEF Lookup, Goto
    <2>2. Sound({[by |-> seen[q].cfg, at |-> 0]}, since[q])
      BY <1>e, <1>i, <2>1 DEF SeenIsFresh
    <2>3. StaleAnswersWereInFlight'
      <3>1. CASE ans' = [ans EXCEPT ![q] = {[by |-> seen[q].cfg, at |-> 0]}]
        <4> HIDE DEF Sound
        <4> QED
          BY <1>f, <2>1, <2>2, <3>1
      <3> QED
        BY <1>g, <2>1, <3>1
    <2>4. SeenIsFresh'
      BY <1>a, <1>h, <2>1 DEF TypeOK
    <2>5. \A x \in Queries : pc'[x] = "idle" => ans'[x] = {}
      BY <1>a, <2>1 DEF TypeOK
    <2> QED
      BY <1>b, <1>c, <2>3, <2>4, <2>5
  <1>5. CASE Exchange(q)
    <2>1. /\ pc[q] \in Routed
          /\ \/ ans' = [ans EXCEPT ![q] = {[by |-> snap[q]["cfg"], at |-> 0]}]
             \/ UNCHANGED ans
          /\ \E s \in Routed : pc' = [pc EXCEPT ![q] = s]
          /\ UNCHANGED <<seen, since>>
      BY <1>5 DEF Exchange, Goto, NextUpstream, Routed
    <2>2. Sound({[by |-> snap[q]["cfg"], at |-> 0]}, since[q])
      BY <1>a, <1>e, <1>i, <2>1 DEF Configurations, RoutedByOneFreshConfiguration
    <2>3. StaleAnswersWereInFlight'
      <3>1. CASE ans' = [ans EXCEPT ![q] = {[by |-> snap[q]["cfg"], at |-> 0]}]
        <4> HIDE DEF Sound
        <4> QED
          BY <1>f, <2>1, <2>2, <3>1
      <3> QED
        BY <1>g, <2>1, <3>1
    <2>4. SeenIsFresh'
      BY <1>a, <1>h, <2>1 DEF TypeOK, Routed
    <2>5. \A x \in Queries : pc'[x] = "idle" => ans'[x] = {}
      BY <1>a, <2>1 DEF TypeOK, Routed
    <2> QED
      BY <1>b, <1>c, <2>3, <2>4, <2>5
  <1>6. CASE Route(q)
    <2>1. /\ seen' = [seen EXCEPT ![q] = Unread]
          /\ \E s \in {"doh", "system"} : pc' = [pc EXCEPT ![q] = s]
          /\ UNCHANGED <<ans, since>>
      BY <1>6 DEF Route, Goto
    <2>2. SeenIsFresh'
      BY <1>a, <1>b, <2>1 DEF SeenIsFresh, TypeOK
    <2>3. \A x \in Queries : pc'[x] = "idle" => ans'[x] = {}
      BY <1>a, <2>1 DEF TypeOK
    <2> QED
      BY <1>b, <1>c, <1>g, <2>1, <2>2, <2>3
  <1>7. CASE StoreOverride(q) \/ Acquire(q) \/ Filter(q) \/ StoreUpstream(q) \/ Fail(q) \/ Release(q)
    <2>1. /\ \E s \in {"done", "route", "store", "release"} : pc' = [pc EXCEPT ![q] = s]
          /\ UNCHANGED <<seen, ans, since>>
      BY <1>7 DEF StoreOverride, StoreAnswer, Acquire, Filter, StoreUpstream, Fail, Release, Goto
    <2>2. \A x \in Queries : pc'[x] \in {"idle", "lookup"} => pc'[x] = pc[x]
      BY <1>a, <2>1 DEF TypeOK
    <2> QED
      BY <1>b, <1>c, <1>g, <1>h, <2>1, <2>2
  <1> QED
    BY <1>1, <1>2, <1>3, <1>4, <1>5, <1>6, <1>7 DEF QueryStep, QueryArrives

LEMMA AnswersReload ==
    ASSUME ConstantsAssumption, IInv, FreshAnswers, NEW r \in Reloads, ReloadStep(r)
    PROVE  FreshAnswers'
  <1> USE DEF FreshAnswers
  <1>a. TypeOK /\ Configurations
    BY DEF IInv, Configurations
  <1>b. UNCHANGED <<pc, seen, ans, since>>
    BY DEF ReloadStep, ReloadBuild, ReloadSwap, ReloadStop, ReloadWait, ReloadFlush, queryVars
  <1>1. CASE ReloadSwap(r)
    <2>1. /\ reload[r].pc = "swap" /\ r \in Ids
          /\ epoch' = [epoch EXCEPT ![r] = Current + 1]
          /\ \A x \in Reloads : x # r => reload'[x] = reload[x]
      BY <1>a, <1>1 DEF ReloadSwap, TypeOK, Ids
    <2>2. Current \in Nat /\ \A i \in Ids : epoch[i] \in Nat /\ epoch[i] <= Current
      BY <1>a DEF Configurations, OneNewestConfiguration, TypeOK, Components, Current
    <2>3. \A i \in Ids : /\ epoch'[i] >= epoch[i] /\ epoch'[i] \in Nat
                         /\ i # r => epoch'[i] = epoch[i]
      BY <1>a, <2>1, <2>2 DEF TypeOK
    <2>4. \A q \in Queries : \A x \in since[q] : x \in Ids /\ x # r
      BY <1>a, <2>1 DEF Configurations, SinceReturned, TypeOK, Ids
    <2>5. epoch'[r] > 0
      BY <1>a, <2>1, <2>2 DEF TypeOK
    <2>6. \A x \in Reloads : Replaced(x)' => epoch'[x] > 0
      <3>1. \A x \in Reloads : x # r /\ Replaced(x)' => epoch'[x] > 0
        BY <2>1, <2>3 DEF Replaced, Ids
      <3> QED
        BY <2>5, <3>1
    <2>7. SeenIsFresh'
      <3>1. ASSUME NEW q \in Queries, pc[q] = "lookup", NEW x \in since[q]
            PROVE  epoch'[seen[q].cfg] >= epoch'[x]
        <4>1. epoch[seen[q].cfg] >= epoch[x] /\ seen[q].cfg \in Ids
          BY <1>a, <3>1 DEF SeenIsFresh, TypeOK
        <4> QED
          BY <2>2, <2>3, <2>4, <4>1
      <3> QED
        BY <1>b, <3>1 DEF SeenIsFresh
    <2>8. StaleAnswersWereInFlight'
      <3>1. ASSUME NEW q \in Queries, NEW a \in ans[q], NEW x \in since[q],
                   epoch'[a.by] < epoch'[x]
            PROVE  a.at >= epoch'[x] /\ epoch'[x] > 0
        <4>1. a.by \in Ids /\ epoch'[x] = epoch[x] /\ x \in Ids
          BY <1>a, <2>3, <2>4 DEF TypeOK, Answers
        <4>2. epoch[a.by] < epoch[x]
          BY <2>2, <2>3, <3>1, <4>1
        <4> QED
          BY <4>1, <4>2 DEF StaleAnswersWereInFlight
      <3> QED
        BY <1>b, <3>1 DEF StaleAnswersWereInFlight
    <2> QED
      BY <1>b, <2>6, <2>7, <2>8
  <1>2. CASE ReloadBuild(r) \/ ReloadStop(r) \/ ReloadWait(r) \/ ReloadFlush(r)
    <2>1. UNCHANGED epoch
      BY <1>2 DEF ReloadBuild, ReloadStop, ReloadWait, ReloadFlush
    <2>2. \A x \in Reloads : Replaced(x)' <=> Replaced(x)
      <3>1. \/ /\ reload[r].pc = "idle"
               /\ \E s \in {"failed", "swap"} : SetReload(r, s)
            \/ /\ reload[r].pc \in {"stop", "wait", "flush"}
               /\ \E s \in {"panicked", "wait", "flush", "done"} : SetReload(r, s)
        BY <1>2 DEF ReloadBuild, ReloadStop, ReloadWait, ReloadFlush
      <3>a. \A s : SetReload(r, s) => reload'[r].pc = s
        BY <1>a DEF SetReload, TypeOK
      <3>2. \/ reload[r].pc = "idle" /\ reload'[r].pc \in {"failed", "swap"}
            \/ /\ reload[r].pc \in {"stop", "wait", "flush"}
               /\ reload'[r].pc \in {"panicked", "wait", "flush", "done"}
        BY <3>1, <3>a
      <3>3. \A s : SetReload(r, s) => \A x \in Reloads : x # r => reload'[x] = reload[x]
        BY <1>a DEF SetReload, TypeOK
      <3> QED
        BY <3>1, <3>2, <3>3 DEF Replaced
    <2> QED
      BY <1>b, <2>1, <2>2 DEF SeenIsFresh, StaleAnswersWereInFlight
  <1> QED
    BY <1>1, <1>2 DEF ReloadStep

LEMMA AnswersInvariant == Spec => []FreshAnswers
  <1>1. ConstantsAssumption /\ IInv /\ FreshAnswers /\ [Next]_vars => FreshAnswers'
    <2> SUFFICES ASSUME ConstantsAssumption, IInv, FreshAnswers, [Next]_vars
                 PROVE  FreshAnswers'
      OBVIOUS
    <2>1. ASSUME UNCHANGED <<pc, seen, ans, since, epoch, reload>>  PROVE FreshAnswers'
      BY <2>1 DEF FreshAnswers, SeenIsFresh, StaleAnswersWereInFlight, Replaced
    <2>2. (\E m \in Ids : Loop(m)) \/ FlushCache \/ ShutdownStep \/ UNCHANGED vars
             => UNCHANGED <<pc, seen, ans, since, epoch, reload>>
      BY DEF Loop, FlushCache, ShutdownStep, vars, queryVars
    <2>3. ASSUME NEW q \in Queries, QueryArrives(q) \/ QueryStep(q)  PROVE FreshAnswers'
      BY <2>3, AnswersQuery
    <2>4. ASSUME NEW r \in Reloads, ReloadStep(r)  PROVE FreshAnswers'
      BY <2>4, AnswersReload
    <2> QED
      BY <2>1, <2>2, <2>3, <2>4 DEF Next
  <1> QED
    BY <1>1, AnswersInit, Invariance, ConstantsAssumption, PTL DEF Spec

-----------------------------------------------------------------------------
(* Theorems                                                                *)

\* The variables keep their types; in particular the semaphore of ServeDNS is
\* never taken beyond maxInflight, nor given back more often than taken.
THEOREM TypeCorrect == Spec => []TypeOK
  BY Invariance, PTL DEF IInv

\* The semaphore's slots are those of the queries being forwarded, so that no path
\* through ServeDNS leaks one, for any number of queries.
THEOREM SlotsDoNotLeak == Spec => []SlotsMatchQueries
  BY Invariance, PTL DEF IInv

\* ServeDNS routes a query by the components of one configuration, no older than
\* the reloads that had returned when the query arrived, for any number of reloads
\* between its two critical sections.
THEOREM RoutingIsConsistent == Spec => []RoutedByOneFreshConfiguration
  BY Invariance, PTL DEF IInv

\* When a Reload has returned, what was in the cache before its swap is gone,
\* for any number of reloads and queries at the same time.
THEOREM ReloadsClearTheCache == Spec => []NoEntrySurvivesReload
  BY Invariance, PTL DEF IInv

\* However reloads and the shutdown overlap, no override manager is dropped with
\* its refresh loop running.
THEOREM LoopsAreOwned == Spec => []NoOrphanLoop
  BY Invariance, PTL DEF IInv

\* The refresh loop of the current override manager runs as long as it is the
\* current one.
THEOREM CurrentManagerRefreshes == Spec => []RefreshStaysAlive
  <1>1. IInv => RefreshStaysAlive
    BY DEF IInv, TypeOK, NewestRefresh, Refreshing, RefreshStaysAlive
  <1> QED
    BY <1>1, Invariance, PTL

\* A Reload or Shutdown that waits for a refresh loop has told it to end, and it
\* is the only one that waits for it.
WaitersHaveCancelled ==
    /\ \A r \in Reloads : reload[r].pc = "wait" =>
          /\ reload[r].old \in Ids
          /\ mgr[reload[r].old].cancelled
          /\ shut.om # reload[r].old
          /\ \A s \in Reloads : reload[s].old = reload[r].old => s = r
    /\ shut.pc = "wait" => shut.om \in Ids /\ mgr[shut.om].cancelled

\* However reloads and the shutdown overlap, nobody waits for a loop that does not
\* know it is to end: the safety half of WaitsEnd, for any number of reloads.
THEOREM NobodyWaitsInVain == Spec => []WaitersHaveCancelled
  <1>1. IInv /\ Handovers => WaitersHaveCancelled
    <2> SUFFICES ASSUME IInv, Handovers  PROVE WaitersHaveCancelled
      OBVIOUS
    <2>1. TypeOK
      BY DEF IInv
    <2>2. ASSUME NEW r \in Reloads, reload[r].pc = "wait"
          PROVE  /\ reload[r].old \in Ids
                 /\ mgr[reload[r].old].cancelled
                 /\ shut.om # reload[r].old
                 /\ \A s \in Reloads : reload[s].old = reload[r].old => s = r
      <3>1. Replaced(r) /\ Stopped(r, reload[r].old)
        BY <2>2 DEF Replaced, Stopped
      <3>2. reload[r].old # None
        BY <3>1 DEF Handovers, NilOnlyAtShutdown
      <3>3. reload[r].old \in Ids
        BY <2>1, <3>2 DEF TypeOK
      <3>4. mgr[reload[r].old].cancelled
        BY <3>1, <3>3 DEF Handovers, CancelledByItsTaker
      <3>5. shut.om # reload[r].old
        BY <3>1, <3>2 DEF Handovers, NilOnlyAtShutdown, HandedOverOnce
      <3>6. \A s \in Reloads : reload[s].old = reload[r].old => Replaced(s)
        BY <3>2 DEF Handovers, NilOnlyAtShutdown
      <3> QED
        BY <3>1, <3>3, <3>4, <3>5, <3>6 DEF Handovers, HandedOverOnce
    <2>3. ASSUME shut.pc = "wait"  PROVE shut.om \in Ids /\ mgr[shut.om].cancelled
      <3>1. shut.om \in Ids
        BY <2>1, <2>3 DEF Handovers, NilOnlyAtShutdown, TypeOK
      <3> QED
        BY <2>3, <3>1 DEF Handovers, CancelledByItsTaker
    <2> QED
      BY <2>2, <2>3 DEF WaitersHaveCancelled
  <1> QED
    BY <1>1, Invariance, HandoversInvariant, PTL

\* The panic of a Reload on the nil manager is confined to the shutdown, and
\* happens once at most.
THEOREM PanicOnlyAtShutdown == Spec => []OnePanicAtShutdown
  <1>1. Handovers => OnePanicAtShutdown
    BY DEF Handovers, NilOnlyAtShutdown, HandedOverOnce, Replaced, OnePanicAtShutdown
  <1> QED
    BY <1>1, HandoversInvariant, PTL

\* ReloadTakesEffect does not hold; this is what does, for any number of queries
\* and reloads.
THEOREM StaleAnswersAreFromFlight == Spec => []StaleAnswersWereInFlight
  BY AnswersInvariant, PTL DEF FreshAnswers
=============================================================================
