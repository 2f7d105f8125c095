------------------------------- MODULE Engine -------------------------------
(***************************************************************************)
(* The query engine of package core: queries handled concurrently by       *)
(* ServeDNS, configuration reloads and cache flushes asked for through the *)
(* control API, the shutdown of the process, and the override managers     *)
(* with their background refresh loops.                                    *)
(*                                                                         *)
(* An action is what one goroutine does between two accesses to state that *)
(* others share: a critical section of Engine.mu, a call of the cache, a   *)
(* use of the semaphore, an exchange with an upstream.  The response cache *)
(* is the abstract LossyCache.  Statistics and logging are left out.       *)
(*                                                                         *)
(* Every configuration is identified with the call that brought it in: the *)
(* construction of the engine (Boot) or one Reload.                        *)
(***************************************************************************)
EXTENDS Naturals, FiniteSets

CONSTANTS Queries,      \* DNS queries, each handled once
          Keys,         \* their cache keys
          KeyOf,        \* KeyOf[q] is the key of query q
          Reloads,      \* calls of Reload
          Boot,         \* the configuration New was given
          None,         \* a nil pointer
          Configs,      \* the configurations that New and Reload may be given
          MaxInflight,  \* maxInflight
          CacheSize     \* cache.max_entries

Ids == Reloads \cup {Boot}

\* What the engine reads of a configuration.
ConfigType ==
    [valid    : BOOLEAN,       \* Validate and buildFrom accept it
     full     : BOOLEAN,       \* mode is "full"
     polluted : SUBSET Keys,   \* names the matcher matches
     fallback : BOOLEAN,       \* there is a public fallback chain
     toDoH    : BOOLEAN,       \* upstreams.fallback_to_doh
     probe    : BOOLEAN,       \* probe.enabled
     files    : SUBSET Keys,   \* names covered by the override files
     urls     : SUBSET Keys,   \* names the override URLs may cover
     refresh  : BOOLEAN]       \* override.refresh_interval > 0

ASSUME ConstantsAssumption ==
    /\ KeyOf \in [Queries -> Keys]
    /\ Boot \notin Reloads
    /\ None \notin Ids
    /\ IsFiniteSet(Queries)
    /\ Configs \subseteq ConfigType
    /\ MaxInflight \in Nat
    /\ CacheSize \in Nat \ {0}

VARIABLES
    comp,       \* the components of the engine, each by the call that built it
    overrideM,  \* the current override manager, or None
    conf,       \* the configuration each call was given
    mgr,        \* the override managers
    sem,        \* slots taken of the inflight semaphore
    store,      \* the response cache
    got,        \* the result of the latest cache lookup
    pc,         \* control state of each query
    seen,       \* what each query read in its first critical section
    snap,       \* the components it read in the second
    ans,        \* the answer it has obtained: {} if none
    reload,     \* control state of each Reload, and the manager it replaces
    shut,       \* control state of Shutdown, and the manager it stops
    epoch,      \* history: the order in which configurations were swapped in
    since       \* history: the reloads that had returned when q arrived

queryVars == <<pc, seen, snap, ans, since>>
vars == <<comp, overrideM, conf, mgr, sem, store, got, queryVars, reload, shut, epoch>>

Components == {"cfg", "matcher", "doh", "system", "systemFB", "prober"}

\* An answer: the configuration that produced it and, in the cache, the epoch
\* in which it was stored.
Answers == [by : Ids, at : Nat]

Cache == INSTANCE LossyCache WITH Msgs <- Answers, Capacity <- CacheSize

\* ServeDNS holds a slot of the semaphore in these states, and has read its
\* components in all but the first two.
Routed == {"doh", "system", "fallback", "dohFallback", "filter", "store", "fail"}
Holding == {"route", "release"} \cup Routed

Loops == {"absent", "fetching", "waiting", "exited"}

TypeOK ==
    /\ comp \in [Components -> Ids]
    /\ overrideM \in Ids \cup {None}
    /\ conf \in [Ids -> Configs]
    /\ mgr \in [Ids -> [loop : Loops, cancelled : BOOLEAN,
                        files : SUBSET Keys, urls : SUBSET Keys]]
    /\ sem \in 0 .. MaxInflight
    /\ DOMAIN store \subseteq Keys
    /\ store \in [DOMAIN store -> Answers]
    /\ got \subseteq Answers
    /\ pc \in [Queries -> {"idle", "get", "snapshot", "lookup", "storeOverride",
                           "acquire", "done"} \cup Holding]
    /\ seen \in [Queries -> [om : Ids \cup {None}, cfg : Ids]]
    /\ snap \in [Queries -> [Components -> Ids]]
    /\ ans \in [Queries -> SUBSET Answers]
    /\ reload \in [Reloads -> [pc : {"idle", "swap", "stop", "wait", "flush", "done",
                                     "failed", "panicked"},
                               old : Ids \cup {None}]]
    /\ shut \in [pc : {"idle", "stop", "wait", "done"}, om : Ids \cup {None}]
    /\ epoch \in [Ids -> Nat]
    /\ since \in [Queries -> SUBSET Reloads]

\* The variables of a query outside their scope.
Unread == [om |-> None, cfg |-> Boot]
Unrouted == [c \in Components |-> Boot]

-----------------------------------------------------------------------------
(* Override managers                                                       *)

\* newOverrideManager: the files are read, where they can be, and the refresh
\* loop starts with a fetch if there are URLs.
NewManager(c, files) ==
    [loop |-> IF c.urls = {} THEN "absent" ELSE "fetching",
     cancelled |-> FALSE, files |-> files, urls |-> {}]

Running(m) == mgr[m].loop \in {"fetching", "waiting"}

\* A fetch replaces the entries of each URL it could read, one after the other, and
\* keeps those of the others; queries look names up in the meantime.
Load(m) ==
    /\ mgr[m].loop = "fetching"
    /\ \E S \in SUBSET conf[m].urls : mgr' = [mgr EXCEPT ![m].urls = S]

FetchEnds(m) ==
    /\ mgr[m].loop = "fetching"
    /\ mgr' = [mgr EXCEPT ![m].loop = IF conf[m].refresh THEN "waiting" ELSE "exited"]

\* The select of the loop: when both channels are ready, either may be taken.
LoopTick(m) == /\ mgr[m].loop = "waiting"
               /\ mgr' = [mgr EXCEPT ![m].loop = "fetching"]

LoopExit(m) == /\ mgr[m].loop = "waiting"
               /\ mgr[m].cancelled
               /\ mgr' = [mgr EXCEPT ![m].loop = "exited"]

Loop(m) == /\ Load(m) \/ FetchEnds(m) \/ LoopTick(m) \/ LoopExit(m)
           /\ Cache!Quiet
           /\ UNCHANGED <<comp, overrideM, conf, sem, queryVars, reload, shut, epoch>>

Cancel(m) == mgr' = [mgr EXCEPT ![m].cancelled = TRUE]

\* overrideManager.lookup
Covered(m, k) == k \in mgr[m].files \cup mgr[m].urls

-----------------------------------------------------------------------------
(* Reload                                                                  *)

Current == epoch[comp["cfg"]]

SetReload(r, state) == reload' = [reload EXCEPT ![r].pc = state]

\* Faulty variant: the override manager is built before the configuration is
\* known to be usable.
ReloadBuildEagerly(r) ==
    /\ reload[r].pc = "idle"
    /\ \E c \in Configs, files \in SUBSET Keys :
          /\ files \subseteq c.files
          /\ conf' = [conf EXCEPT ![r] = c]
          /\ mgr' = [mgr EXCEPT ![r] = NewManager(c, files)]
          /\ SetReload(r, IF c.valid THEN "swap" ELSE "failed")
    /\ Cache!Quiet
    /\ UNCHANGED <<comp, overrideM, sem, queryVars, shut, epoch>>

\* Everything is built before anything of the engine changes; a configuration
\* that cannot be used is refused.
ReloadBuild(r) ==
    /\ reload[r].pc = "idle"
    /\ \E c \in Configs :
          /\ conf' = [conf EXCEPT ![r] = c]
          /\ \/ /\ ~c.valid
                /\ SetReload(r, "failed")
                /\ UNCHANGED mgr
             \/ /\ c.valid
                /\ \E files \in SUBSET c.files :
                      mgr' = [mgr EXCEPT ![r] = NewManager(c, files)]
                /\ SetReload(r, "swap")
    /\ Cache!Quiet
    /\ UNCHANGED <<comp, overrideM, sem, queryVars, shut, epoch>>

\* Faulty variant: an engine that was shut down gets no new manager.
ReloadSwapUnlessShut(r) ==
    /\ reload[r].pc = "swap"
    /\ reload' = [reload EXCEPT ![r] = [pc |-> "stop", old |-> overrideM]]
    /\ comp' = [c \in Components |-> r]
    /\ overrideM' = IF overrideM = None THEN None ELSE r
    /\ epoch' = [epoch EXCEPT ![r] = Current + 1]
    /\ Cache!Quiet
    /\ UNCHANGED <<conf, mgr, sem, queryVars, shut>>

ReloadSwap(r) ==
    /\ reload[r].pc = "swap"
    /\ reload' = [reload EXCEPT ![r] = [pc |-> "stop", old |-> overrideM]]
    /\ comp' = [c \in Components |-> r]
    /\ overrideM' = r
    /\ epoch' = [epoch EXCEPT ![r] = Current + 1]
    /\ Cache!Quiet
    /\ UNCHANGED <<conf, mgr, sem, queryVars, shut>>

\* Faulty variant: the new manager is cancelled instead of the old one.
ReloadStopNew(r) ==
    /\ reload[r].pc = "stop"
    /\ Cancel(r)
    /\ SetReload(r, IF reload[r].old = None THEN "panicked" ELSE "wait")
    /\ Cache!Quiet
    /\ UNCHANGED <<comp, overrideM, conf, sem, queryVars, shut, epoch>>

\* Faulty variant: waits for the loop without telling it to end.
ReloadStopQuietly(r) ==
    /\ reload[r].pc = "stop"
    /\ SetReload(r, IF reload[r].old = None THEN "panicked" ELSE "wait")
    /\ Cache!Quiet
    /\ UNCHANGED <<comp, overrideM, conf, mgr, sem, queryVars, shut, epoch>>

\* old.shutdown() cancels the fetches of the old manager.  After a Shutdown
\* there is no old manager, and the call panics on the nil pointer.
ReloadStop(r) ==
    /\ reload[r].pc = "stop"
    /\ \/ /\ reload[r].old = None
          /\ SetReload(r, "panicked")
          /\ UNCHANGED mgr
       \/ /\ reload[r].old # None
          /\ Cancel(reload[r].old)
          /\ SetReload(r, "wait")
    /\ Cache!Quiet
    /\ UNCHANGED <<comp, overrideM, conf, sem, queryVars, shut, epoch>>

ReloadWait(r) ==
    /\ reload[r].pc = "wait"
    /\ ~Running(reload[r].old)
    /\ SetReload(r, "flush")
    /\ Cache!Quiet
    /\ UNCHANGED <<comp, overrideM, conf, mgr, sem, queryVars, shut, epoch>>

\* Faulty variant: the cache is left as it is.
ReloadNoFlush(r) ==
    /\ reload[r].pc = "flush"
    /\ Cache!Quiet
    /\ SetReload(r, "done")
    /\ UNCHANGED <<comp, overrideM, conf, mgr, sem, queryVars, shut, epoch>>

ReloadFlush(r) ==
    /\ reload[r].pc = "flush"
    /\ Cache!Flush
    /\ SetReload(r, "done")
    /\ UNCHANGED <<comp, overrideM, conf, mgr, sem, queryVars, shut, epoch>>

ReloadStep(r) == \/ ReloadBuild(r)
                 \/ ReloadSwap(r)
                 \/ ReloadStop(r)
                 \/ ReloadWait(r)
                 \/ ReloadFlush(r)

\* The cache flush of the control API.
FlushCache == /\ Cache!Flush
              /\ UNCHANGED <<comp, overrideM, conf, mgr, sem, queryVars, reload, shut, epoch>>

-----------------------------------------------------------------------------
(* Shutdown                                                                *)

ShutdownTake ==
    /\ shut.pc = "idle"
    /\ shut' = [pc |-> IF overrideM = None THEN "done" ELSE "stop", om |-> overrideM]
    /\ overrideM' = None
    /\ UNCHANGED mgr

ShutdownStop == /\ shut.pc = "stop"
                /\ Cancel(shut.om)
                /\ shut' = [shut EXCEPT !.pc = "wait"]
                /\ UNCHANGED overrideM

ShutdownWait == /\ shut.pc = "wait"
                /\ ~Running(shut.om)
                /\ shut' = [shut EXCEPT !.pc = "done"]
                /\ UNCHANGED <<overrideM, mgr>>

ShutdownStep == /\ ShutdownTake \/ ShutdownStop \/ ShutdownWait
                /\ Cache!Quiet
                /\ UNCHANGED <<comp, conf, sem, queryVars, reload, epoch>>

-----------------------------------------------------------------------------
(* ServeDNS                                                                *)

Goto(q, state) == pc' = [pc EXCEPT ![q] = state]

\* A query arrives.  The listeners are down before Shutdown runs.
Arrive(q) ==
    /\ pc[q] = "idle"
    /\ shut.pc = "idle"
    /\ since' = [since EXCEPT ![q] = { r \in Reloads : reload[r].pc = "done" }]
    /\ \/ Goto(q, "get")
       \/ Goto(q, "done")       \* FORMERR: not exactly one question
    /\ Cache!Quiet
    /\ UNCHANGED <<seen, snap, ans, sem>>

Get(q) ==
    /\ pc[q] = "get"
    /\ Cache!Get(KeyOf[q])
    /\ ans' = [ans EXCEPT ![q] = got']
    /\ Goto(q, IF got' # {} THEN "done" ELSE "snapshot")
    /\ UNCHANGED <<seen, snap, since, sem>>

\* The first critical section.
Snapshot(q) ==
    /\ pc[q] = "snapshot"
    /\ seen' = [seen EXCEPT ![q] = [om |-> overrideM, cfg |-> comp["cfg"]]]
    /\ Goto(q, IF overrideM = None THEN "acquire" ELSE "lookup")
    /\ Cache!Quiet
    /\ UNCHANGED <<snap, ans, since, sem>>

\* An address of the other family does not count, so that a covered name may
\* still go on to the upstreams.
Lookup(q) ==
    /\ pc[q] = "lookup"
    /\ \/ /\ Covered(seen[q].om, KeyOf[q])
          /\ ans' = [ans EXCEPT ![q] = {[by |-> seen[q].cfg, at |-> 0]}]
          /\ Goto(q, "storeOverride")
       \/ /\ Goto(q, "acquire")
          /\ UNCHANGED ans
    /\ Cache!Quiet
    /\ UNCHANGED <<seen, snap, since, sem>>

\* cache.Put, unless the answer has no lifetime, then the reply.
StoreAnswer(q) ==
    /\ \E a \in ans[q] : Cache!Put(KeyOf[q], [a EXCEPT !.at = Current]) \/ Cache!Quiet
    /\ UNCHANGED <<seen, snap, ans, since, sem>>

StoreOverride(q) == /\ pc[q] = "storeOverride"
                    /\ StoreAnswer(q)
                    /\ Goto(q, "done")

\* Faulty variant: the limit is compared with <= instead of <.
AcquireOneMore(q) ==
    /\ pc[q] = "acquire"
    /\ sem <= MaxInflight
    /\ sem' = sem + 1
    /\ Goto(q, "route")
    /\ Cache!Quiet
    /\ UNCHANGED <<seen, snap, ans, since>>

\* SERVFAIL at once when no slot is free.
Acquire(q) ==
    /\ pc[q] = "acquire"
    /\ \/ /\ sem < MaxInflight
          /\ sem' = sem + 1
          /\ Goto(q, "route")
       \/ /\ sem = MaxInflight
          /\ Goto(q, "done")
          /\ UNCHANGED sem
    /\ Cache!Quiet
    /\ UNCHANGED <<seen, snap, ans, since>>

ViaDoH(s, k) == conf[s["cfg"]].full \/ k \in conf[s["matcher"]].polluted

\* Faulty variant: the configuration of the first critical section is kept.
RouteWithSeen(q) ==
    /\ pc[q] = "route"
    /\ snap' = [snap EXCEPT ![q] = [comp EXCEPT !["cfg"] = seen[q].cfg]]
    /\ Goto(q, IF ViaDoH(snap'[q], KeyOf[q]) THEN "doh" ELSE "system")
    /\ seen' = [seen EXCEPT ![q] = Unread]
    /\ Cache!Quiet
    /\ UNCHANGED <<ans, since, sem>>

\* The second critical section reads everything again.
Route(q) ==
    /\ pc[q] = "route"
    /\ snap' = [snap EXCEPT ![q] = comp]
    /\ Goto(q, IF ViaDoH(comp, KeyOf[q]) THEN "doh" ELSE "system")
    /\ seen' = [seen EXCEPT ![q] = Unread]
    /\ Cache!Quiet
    /\ UNCHANGED <<ans, since, sem>>

\* What is left to try after a failure of the upstreams of this state.
NextUpstream(q) ==
    IF pc[q] = "system" /\ conf[snap[q]["systemFB"]].fallback THEN "fallback"
    ELSE IF pc[q] \in {"system", "fallback"} /\ conf[snap[q]["cfg"]].toDoH
         THEN "dohFallback"
         ELSE "fail"

\* An exchange ends with a response or an error, at the latest at its timeout.
\* A successful response for a polluted name passes the probe filter.
Exchange(q) ==
    /\ pc[q] \in {"doh", "system", "fallback", "dohFallback"}
    /\ \/ /\ Goto(q, NextUpstream(q))
          /\ UNCHANGED ans
       \/ /\ ans' = [ans EXCEPT ![q] = {[by |-> snap[q]["cfg"], at |-> 0]}]
          /\ \/ Goto(q, "store")
             \/ /\ conf[snap[q]["prober"]].probe
                /\ KeyOf[q] \in conf[snap[q]["matcher"]].polluted
                /\ Goto(q, "filter")
    /\ Cache!Quiet
    /\ UNCHANGED <<seen, snap, since, sem>>

\* filterAnswerIPs waits for the probes, bounded by their timeouts.
Filter(q) == /\ pc[q] = "filter"
             /\ Goto(q, "store")
             /\ Cache!Quiet
             /\ UNCHANGED <<seen, snap, ans, since, sem>>

StoreUpstream(q) == /\ pc[q] = "store"
                    /\ StoreAnswer(q)
                    /\ Goto(q, "release")

\* Faulty variant: the error path returns without giving the slot back.
FailKeepingSlot(q) ==
    /\ pc[q] = "fail"
    /\ Goto(q, "done")
    /\ Cache!Quiet
    /\ UNCHANGED <<seen, snap, ans, since, sem>>

\* SERVFAIL
Fail(q) == /\ pc[q] = "fail"
           /\ Goto(q, "release")
           /\ Cache!Quiet
           /\ UNCHANGED <<seen, snap, ans, since, sem>>

\* The deferred receive from the semaphore.
Release(q) == /\ pc[q] = "release"
              /\ sem' = sem - 1
              /\ snap' = [snap EXCEPT ![q] = Unrouted]
              /\ Goto(q, "done")
              /\ Cache!Quiet
              /\ UNCHANGED <<seen, ans, since>>

QueryStep(q) == /\ \/ Get(q)
                   \/ Snapshot(q)
                   \/ Lookup(q)
                   \/ StoreOverride(q)
                   \/ Acquire(q)
                   \/ Route(q)
                   \/ Exchange(q)
                   \/ Filter(q)
                   \/ StoreUpstream(q)
                   \/ Fail(q)
                   \/ Release(q)
                /\ UNCHANGED <<comp, overrideM, conf, mgr, reload, shut, epoch>>

QueryArrives(q) == /\ Arrive(q)
                   /\ UNCHANGED <<comp, overrideM, conf, mgr, reload, shut, epoch>>

-----------------------------------------------------------------------------

\* New
Init ==
    /\ \E c \in Configs, files \in SUBSET Keys :
          /\ c.valid
          /\ files \subseteq c.files
          /\ conf = [i \in Ids |-> c]
          /\ mgr = [i \in Ids |->
                      IF i = Boot THEN NewManager(c, files)
                      ELSE [loop |-> "absent", cancelled |-> FALSE, files |-> {}, urls |-> {}]]
    /\ comp = [c \in Components |-> Boot]
    /\ overrideM = Boot
    /\ sem = 0
    /\ Cache!Init
    /\ pc = [q \in Queries |-> "idle"]
    /\ seen = [q \in Queries |-> Unread]
    /\ snap = [q \in Queries |-> Unrouted]
    /\ ans = [q \in Queries |-> {}]
    /\ reload = [r \in Reloads |-> [pc |-> "idle", old |-> None]]
    /\ shut = [pc |-> "idle", om |-> None]
    /\ epoch = [i \in Ids |-> 0]
    /\ since = [q \in Queries |-> {}]

Next == \/ \E q \in Queries : QueryArrives(q) \/ QueryStep(q)
        \/ \E r \in Reloads : ReloadStep(r)
        \/ \E m \in Ids : Loop(m)
        \/ FlushCache
        \/ ShutdownStep

Spec == Init /\ [][Next]_vars

\* A goroutine that can run does.  Exchanges, fetches and probes have timeouts;
\* a loop whose context is done does not lose the random choice of its select
\* forever.
Fairness ==
    /\ \A q \in Queries : WF_vars(QueryStep(q))
    /\ \A r \in Reloads : WF_vars(reload[r].pc # "idle" /\ ReloadStep(r))
    /\ \A m \in Ids : /\ WF_vars(Loop(m) /\ FetchEnds(m))
                      /\ SF_vars(Loop(m) /\ mgr'[m].loop = "exited")
    /\ WF_vars(shut.pc # "idle" /\ ShutdownStep)

FairSpec == Spec /\ Fairness

-----------------------------------------------------------------------------
(* Properties                                                              *)

\* A query is routed by the components of one configuration, however many
\* reloads land between its two critical sections, and that configuration is
\* no older than any reload that had returned when the query arrived.
RoutedByOneFreshConfiguration ==
    \A q \in Queries : pc[q] \in Routed =>
        /\ \A c \in Components : snap[q][c] = snap[q]["cfg"]
        /\ \A r \in since[q] : epoch[snap[q]["cfg"]] >= epoch[r]

\* The slots taken are those of the queries being forwarded: no path through
\* ServeDNS, errors included, keeps a slot or gives one back twice.
SlotsMatchQueries == sem = Cardinality({ q \in Queries : pc[q] \in Holding })

\* What was in the cache when a reload replaced the configuration is gone when
\* the reload returns (a query still in flight may put back what it fetched).
NoEntrySurvivesReload ==
    \A k \in DOMAIN store, r \in Reloads :
        reload[r].pc = "done" => store[k].at >= epoch[r]

\* A refresh loop that runs belongs to the current manager, to one about to
\* become current, or to one that a Reload or Shutdown is waiting for: however
\* reloads and shutdown overlap, no manager is dropped with its loop running.
NoOrphanLoop ==
    \A m \in Ids : Running(m) =>
        \/ overrideM = m
        \/ m \in Reloads /\ reload[m].pc = "swap"
        \/ \E r \in Reloads : reload[r].old = m /\ reload[r].pc \in {"stop", "wait"}
        \/ shut.om = m /\ shut.pc \in {"stop", "wait"}

\* The current manager keeps refreshing: neither a failed fetch nor the end of
\* another manager ends its loop.
RefreshStaysAlive ==
    overrideM # None /\ conf[overrideM].urls # {} /\ conf[overrideM].refresh
        => Running(overrideM)

\* Reload stops the manager it replaced without asking whether there was one.  It
\* meets a nil manager only after Shutdown has taken the last one away: before
\* that there always is one, however reloads overlap, and however many follow,
\* only one of them meets it.
OnePanicAtShutdown ==
    \A r \in Reloads : reload[r].pc = "panicked" =>
        /\ shut.pc # "idle"
        /\ \A s \in Reloads : reload[s].pc = "panicked" => s = r

\* A Reload or Shutdown that waits for a refresh loop is not left waiting: the
\* cancelled loop ends, even in the middle of a fetch.
WaitsEnd ==
    /\ \A r \in Reloads : reload[r].pc = "stop" ~> reload[r].pc \in {"done", "panicked"}
    /\ shut.pc = "stop" ~> shut.pc = "done"

\* The comment on Reload: the new routing rules take effect immediately.  An
\* answer given to a query that arrived after a reload had returned comes from
\* that configuration or a later one.
ReloadTakesEffect ==
    \A q \in Queries : pc[q] = "done" =>
        \A a \in ans[q], r \in since[q] : epoch[a.by] >= epoch[r]
=============================================================================
