# TLA+ models of true-dns

true-dns is a local DNS proxy: polluted names are resolved over DoH, the others
by the system's own servers. It takes over the system DNS settings and gives
them back when it ends. This directory holds TLA+ modules that model its
stateful parts, TLC configurations that check them on small instances, and
theorems with proofs for TLAPS. Every definition is translated from the source;
`PROJECT.json` names, for each one, the lines it stands for.

```
tlc -workers 2 -config MCEngine.cfg MCEngine     # a run
tlc -workers 2 -config MCMigration.cfg Migration # one that needs no MC module
tlapm TakeoverProofs.tla                         # the proofs of a module
```

## The system

| Component | State it keeps | Operations | What is hard |
|---|---|---|---|
| response cache `internal/cache` | LRU list and index, lifetimes | `Get`, `Put`, `Flush`, `TTLFromMsg` | two structures in step over any sequence of calls; rounding and capping of lifetimes |
| query engine `internal/core/engine.go` | configuration and what is built from it, the semaphore of queries in flight, the override manager | `ServeDNS` (one goroutine per query), `Reload`, `FlushCache`, `Shutdown` | a query reads shared fields twice and writes the cache much later; reloads overlap with queries, with each other and with the shutdown |
| override managers `internal/core/override.go` | a table, a refresh loop and its context | `newOverrideManager`, `loop`, `shutdown`, `lookup` | the owner waits for a loop that may be in the middle of a fetch |
| override table `internal/override` | per-source maps of names, error and counts | `LoadFiles`, `LoadURLs`, `Lookup` | reads that fail or are cut off half way, one time limit for all URLs of a round, an error that must not be forgotten |
| upstreams `internal/resolver` | connections only | `DoH.Exchange` (POST, GET), `Plain.Exchange` (UDP, TCP), race and failover in the engine | late answers, shared deadlines |
| prober `internal/probe` | result cache, dials in flight | `Check`, `Filter` | single flight, bounded cache |
| matcher `internal/matcher` | suffix sets | `Reset`, `Match` | pure |
| configuration `internal/config` | the file, its lock | `Load`, `Write`, `Validate`, `EnsureSchema` | migration by several processes, locks of dead ones, renames that Windows refuses |
| takeover `cmd/truedns`, `internal/platform` | per-adapter `NameServer` values on Windows, one file on Linux, the state file, the backup in memory | `run`, `setup`, `restore` | processes that die between two writes, repeated and overlapping commands, failing writes |
| listeners, control API, tray, other commands | | | start-up and shut-down windows |

How they interact: the listeners call `ServeDNS`; the control API calls
`Reload`, `FlushCache` and the shutdown of the process; `ServeDNS` calls the
cache, the override manager's table, the upstreams and the prober; `Reload`
builds all of these anew except the cache and the semaphore; building asks the
platform for the system's servers, which it takes from the state file of the
takeover if there is one, because the live settings are then the proxy itself.

The `hazards` of `PROJECT.json` list, at their lines, the ways in which this can
go wrong, each with the properties that would notice, or the reason why none does.

## The modules

| Module | Models | Role |
|---|---|---|
| `LossyCache` | what the engine relies on of a cache | abstract specification: a hit is what was last put since the last flush; entries may vanish |
| `DNSCache` | `internal/cache/cache.go` | list, index, time, TTL computation; refines `LossyCache` |
| `Engine` | `engine.go`, `core/override.go` | concurrent queries, reloads, flushes, shutdown and refresh loops over a `LossyCache` |
| `Takeover` | `cmdRun`, `cmdSetup`, `cmdRestore`, `platform.go`, `platform_windows.go`, `platform_linux.go` | concurrent processes that may die at every step |
| `Loan` | what careful use of truedns promises for the DNS settings | abstract specification: they are borrowed, noted and given back; refined by `Takeover` |
| `Exchange` | `engine.go`, `resolver/plain.go`, `resolver/doh.go` | one query on its way through the upstreams: goroutines, channels, contexts |
| `SingleFlight` | what `Check` promises its callers | abstract specification: one dial for each address, answers that are fresh, a bounded memory; refined by `Prober` |
| `Prober` | `internal/probe/probe.go` (`Check`) | concurrent calls that share dials and a bounded cache |
| `Migration` | `config/schema*.go`, `config.go`, the callers in `cmd/truedns` | concurrent processes that create, load and migrate one file |
| `OverrideTable` | `internal/override`, `core/override.go` | one goroutine that fills a table from sources that change and fail |
| `Filter`, `Matcher` | `Prober.Filter` and `core/probe.go`; `internal/matcher` | pure operators |
| `MCDNSCache`, `MCEngine`, `MCTakeover`, `MCExchange`, `MCOverrideTable` | | the constants of the runs |
| `MCProber`, `MCEngine` | | also compare `Filter` and `Matcher` with references |
| `DNSCacheProofs`, `EngineProofs`, `TakeoverProofs`, `ProberProofs`, `ExchangeProofs`, `MigrationProofs`, `OverrideProofs` | | theorems about the module of the same name, and refinements |
| `OperatorProofs` | | theorems about `Filter` and `Matcher` |

**`DNSCache`.** `lru` is the list from front to back, `index` the map, `now` a clock
in parts of a second (`Second` of them), so that the rounding of `Get` has
something to round. One action per operation: `Get` is a miss, an expired entry
or a hit; `Put` skips, replaces or inserts after the sweep of the tail. `Store`
is `Put` as the engine calls it, with `TTLFromMsg` under a limit of its own
(`CfgMaxTTLs`: after a reload it need not be the cache's). A message is its
`Truncated` bit and the records that `TTLFromMsg` tells apart. `putAt`, `limit` (the
limit a key's entry was stored under) and `newer` are history.

**`Engine`.** A configuration is named by the call that brought it in: `Boot` or
a reload. `comp[c]` says which call built component `c`, so that a query that
mixed components would show it. An action is what one goroutine does between two
accesses to shared state. `ServeDNS` is `Arrive`, `Get` (cache), `Snapshot`
(first critical section), `Lookup`, `StoreOverride`, `Acquire` (semaphore),
`Route` (second critical section), `Exchange` for each kind of upstream in the
order of the code, `Filter`, `StoreUpstream`, `Fail`, `Release` (the deferred
receive). `Reload` is `ReloadBuild`, `ReloadSwap` (under the lock), `ReloadStop`
and `ReloadWait` (the two halves of the old manager's `shutdown`), `ReloadFlush`.
An exchange ends with any outcome. A round of the refresh loop is any number of
`Load`s, each of which replaces what the URLs give, and then `FetchEnds`; queries look
names up in between, as they can in the code, which commits URL by URL. `epoch`, `since` and the fields of an answer are history.

**`Takeover`.** `dns[a]` is the `NameServer` value of adapter `a`, `file` the
state file. Every loop over the adapters is one action per adapter, in any
order, and `Die` may come between any two steps. `own` is history: what `dns`
would be if truedns had never run. `events` is history too: it records what went
wrong, and the constant `Allowed` bounds it, so that a run can say under which
use a property holds. The properties are stated over `events`, not over `Allowed`:
`Careful` use means that takeovers neither overlap nor pile up, that files and
values can be written and deleted, and that no process dies between its first
write to an adapter and the state file. A takeover may be left in place by
`--keep`, `setup`, a crash while serving, or a restore that fails or dies half
way. On Linux the one thing to take over, the drop-in of systemd-resolved or
`resolv.conf`, is the adapter `Main`. A write there may leave half a file and the
restart of the service may fail, so `SetSystemDNS` and `RestoreSystemDNS` may
return an error after they have changed the system (`SetHalf`, `RestoreHalf`). An
empty `resolv.conf` is backed up as such and then refused by the restore
(`Refused`), which is why taking one over is an event outside careful use.

**`Exchange`** opens up what is one step of `Engine`. `at[u]` is what the exchange
with upstream `u` is doing, `chan[s]` the results channel of stage `s` (system,
fallback, DoH), `ctx` the two contexts. With one address `Plain.Exchange` calls
the exchange itself; with more it starts goroutines that send to a buffered
channel or give up with the context, while the caller receives or gives up. A
DoH race sends successes only and closes its channel when all are through;
failover starts anywhere in the list (the counter `next` is shared by all
queries) and goes round once. Time is the state of a context: `Expire` may come
at any moment. Exchanges without a time limit of their own end at the deadline of
their context; all timeouts are `upstreams.timeout`, so the query's context,
which is made first, expires first. A response is valid, mismatched (to another
question) or an error. DoH refuses a mismatched one; a plain upstream does not, since
the library compares the ID only and `plain.go` never calls `ValidateAgainst`.

**`Prober`.** Two critical sections per call, `Lookup` and `Publish`, with the
dial between them. The clock is read once, before the first, and `began` keeps
that reading, because everything later uses it: the lookup, the sweep and the
age of the entry. A result is named by its dial. What `Filter` does with the
results is in the module of that name: the limit on probed addresses, the stable
sort of `prefer` (the one order of the positions that agrees with the comparison and,
where it says nothing, with the order they had), the fallback of `drop`, and how `filterAnswerIPs` takes an answer
apart and puts it together. Of two records with the same address `byIP` keeps the
last, which then stands for both.

**`Matcher`.** A name is the sequence of its labels, a pattern its kind and the name
in it. `Reset` replaces the sets, or nothing when a pattern is invalid; `Match` looks
for the whole name and for what is left of it when the loop has cut labels off. `MCEngine` takes the polluted names of
its configurations from it. The documentation says that `"*"` matches everything;
`Match` returns before it looks at `matchAll` when the name is the root.

**`Migration`.** `file` is the values on the `schema_version` lines and what the rest
is: the user's parameters, the defaults, or a part of a text. An action is one call
of the file system: `Check` and `Create`/`Encode` (the first run, which writes
the defaults without the lock), `Load`, then `EnsureSchema`: `Open` (exclusive
creation of the lock file), `Stat`, `Remove` (of a stale lock), `Read`, `MakeTemp`,
`Rename` (one attempt), `InPlace` and `Rewrite` (the fallback on Windows), `Release`,
`Reload`. A lock file has an owner and a time; a process that dies leaves
it behind, and `Init` may find one that was left long ago. On Windows a file that
is open can be neither removed nor replaced. `events` and `met` are history.

**`OverrideTable`.** The goroutine of one override manager: `Open`, `ReadLine`,
`ReadFail` or `Commit` for each source, `Refused` and `BadRequest` where it does not
get that far, `EndRound`, `Tick` and `Exit`. `spent` says that the context of the round
is over, because a server hung (`Hang`) or because of `Shutdown`. A text is a
sequence of name and address pairs; past `Limit` the reader ends it, with the line
in which that happens lost or turned into another name. `Publish` and `Falter` are
what happens outside.

## The runs

| Run | Question | Result |
|---|---|---|
| `cache` | list and index in step; LRU order; no entry served dead, or for longer than its records, the cache's cap or the one it was stored under allow; eviction takes the least recently used; refines `LossyCache` | pass |
| `engine` | a query is routed by the parts of one configuration, no older than the reloads that had returned when it arrived; semaphore slots are those of the queries in flight; what was cached before a reload is gone when it returns. `Matcher` matches what a pattern covers | pass |
| `engine_reloads` | with overlapping reloads no refresh loop is lost or killed by mistake, no reload meets a nil manager before the shutdown, and a reload or shutdown that waits for a loop ends | pass |
| `takeover` | with careful use, every changed setting can be restored at every moment, and all processes together only borrow the settings and give them back (`Loan`); a run left to finish leaves no dead proxy behind; the upstreams are never the proxy, and with careful use those the user had set; the state file is never torn | pass |
| `exchange` | a query fails before its deadlines only when every upstream it may use has failed; the answer comes from the first stage that could give one, and is validated if it is of DoH; the query and all its goroutines end | pass |
| `prober` | concurrent misses share a dial; a result is the caller's own and fresh; the cache gives up expired results first; every call returns; refines `SingleFlight`, which bounds the cache. `Filter` sorts stably, drops only what was not reached, never empties an answer and loses no record | pass |
| `migration` | the lock serializes; the file changes by whole migrations only; who loses the user's parameters; nothing is left behind; whoever gives up on the lock has been overtaken; every start ends | pass |
| `overrides` | a committed source has the entries of one whole version; the status tells what became of the round; a URL that can be read is followed | pass |
| `exchange_fallback` | "retries via DoH when the system upstream fails" | violated |
| `reload_stale` | "the new routing rules take effect immediately" | violated |
| `takeover_repeated` | "backup ... restore works after Ctrl+C or a crash", with `run` after `setup` | violated |
| `takeover_crash` | "restore works ... even after the tool exits unexpectedly" | violated |

The four violations are disagreements between a comment or the README of the
repository and the code; `findings` in `PROJECT.json` quotes both.

* `reload_stale`: a query passes `Route` before the swap, its answer arrives after
  the flush and is put in the cache; a query that arrives after the reload has
  returned is served from it. `NoEntrySurvivesReload` states what the code does
  guarantee: only queries in flight can do that.
* `takeover_repeated`: `setup`, then `run`. `run` does not look for a recorded
  takeover, so it backs up `127.0.0.1` over the original values; its restore on
  exit writes `127.0.0.1` and removes the state file. A `run` that died followed by
  another `run` is the same.
* `exchange_fallback`: the system upstreams do not respond, the context of the
  query expires, and the retry through DoH is made under that context: every
  request fails at once. It works when the system upstreams refuse quickly.
* `takeover_crash`: the process dies after the first adapter is rewritten and
  before `SaveState`.

What the passing runs had to leave out of their properties also says something of
the code:

* `exchange`: a reply of a plain upstream with the right ID and another question is
  forwarded. `exchangeAddr` (`plain.go:87-99`) never calls `ValidateAgainst`, the
  engine puts the client's question over that of the reply (`engine.go:270-271`) and
  caches it. `doh.go:26-28` and `doh.go:158-159` say that such a response must never
  be forwarded. `PlainReply` has it as an outcome, so `AnswerIsDue` demands a
  validated answer of DoH only: demanded of every answer, TLC refutes it with one
  system upstream in three steps.
* `engine_reloads`: a `Reload` that swaps after `Shutdown` has taken the manager
  calls `shutdown` on nil and panics (`engine.go:141`), and the loop of its own
  manager goes on. `OnePanicAtShutdown` says that this is the only way and happens
  once; it does not forbid it.
* `cache`: a reload changes the limit that `TTLFromMsg` applies, not the cache's own.
  A lowered `max_ttl` bounds what is stored from then on (`ServedTTL`); a raised one,
  and `max_entries`, have no effect until a restart (`engine.go:72`), although line 36
  of the README of the repository lists the cache among what can be adjusted and says
  that the configuration can be reloaded while running.
* `migration`: the branch that removes a stale lock returns to the open without a
  pause and without looking at the deadline (`schema.go:178-181`). A process that
  may not remove it never gives up, so `StartsEnd` exempts the `denied`.
* `migration`: outside Windows, two waiters that find the same stale lock may both
  remove one, the second that of the first. Both are then under the lock and stamp
  the file twice, and TOML refuses it; `Serialized` and `MigratesOnce` say when that
  cannot happen, and `KeepsUserParameters` holds even then. The defaults written on the first run, without the lock, may be
  stamped twice as well.
* `migration`: a rewrite in place that fails leaves a part of the file, and the
  clean-up removes the temporary file that had it whole (`KeepsUserParameters`).
* `overrides`: a URL that hangs starves those after it in every round, so
  `UrlsAreFollowed` exempts them; a text longer than 4 MiB is committed without what
  is beyond; and a round of URLs that succeeds forgets the error of a file.
* `takeover` on Linux: half writes and failing restarts leave the system changed
  without a record, like the crash of `takeover_crash`; and with systemd-resolved a
  proxy that reloads after the state file is gone no longer finds the servers set by
  hand, which `UpstreamsBypassProxy` exempts.

### Bounds, and why they are enough

* `cache`: three keys for two slots (the sweep, the eviction and both at once
  happen), `Second = 2` (rounding matters), a cap below the largest TTL,
  limits of queries below and above that cap, `MaxTime = 4` ticks, so that entries expire at different times.
* `engine`: two queries for one key with one slot (saturation happens, and one
  query finds what the other stored), one reload, four configurations: everything
  on, no matching name and no refresh, full mode with files only, and one that
  is refused. Keys do not interact except through eviction, which `LossyCache`
  has at any time, so one key is enough. Two reloads with queries are left to the
  theorems of `EngineProofs`.
* `engine_reloads` has two reloads and no queries: reloads, loops and the shutdown
  never wait for one and read nothing it writes.
* Symmetry is used for the queries of `engine` and the processes of `takeover`: each
  set is only quantified over, and every history variable is indexed by it
  symmetrically. No liveness property is checked with symmetry; `CarefulUseIsALoan` says
  something of each step by itself and mentions processes only symmetrically.
* `takeover`: three platforms, two processes and two adapters, one with a DHCP
  lease; adapters start with a manual value, with none, or without IP
  configuration, and may be configured or removed at any time. Two processes are
  needed for a `restore` while `run` ends. The state constraint `OneUnlessCareful`
  allows a second process at the same time only under careful use, or when just
  the state file could not be written; every event happens with one. The
  properties are theorems without it.
* `migration`: two processes, one of which may lack write permission; `Timeout = 1`,
  two attempts to rename, and `MaxTime = 2`, so that a wait may end before a lock of
  the same run becomes stale and the other way round; a lock older than the run may
  be there from the start. `Begin` leaves a wait time to end; one that
  begins later than the bound allows to end is left out of `StartsEnd`.
* `overrides`: one file and two URLs with two versions each; the second version of
  the first URL outgrows the limit of two lines, that of the other drops an address.
  A URL before and one after a failing one are enough for the order in a round.
* `Filter` and `Matcher`: lists of up to three addresses, repeated or not, with every
  limit and result; answers of up to four records; names of up to three and
  patterns of up to two labels over two, every pair of patterns.
* `exchange`: chains of no, one and two addresses, which take different paths in
  `Plain.Exchange`, two DoH upstreams, and every combination of route, strategy
  and fallback switches. Two of a kind are enough for one to be late, first or last.
* `prober`: two callers and three addresses with room for two results, so that a
  dial ends when the cache is full of live, expired or mixed entries; `TTL = 1`
  and `MaxTime = 2` ticks, so that a clock reading can be older than an entry.
* Deadlock checking is off for `Engine`, `Exchange` and `Migration`: each query,
  reload and process is served once, and in `Migration` time is bounded too.

### Fairness

`Engine!Fairness` is weak fairness of every goroutine that has something to do:
queries, reloads and a shutdown once called, the end of a fetch under way (each round
has a timeout of 15 s; upstream exchanges and probes have theirs). The refresh loop's
exit needs strong fairness: when the ticker and the cancellation are both
ready, Go's `select` picks at random, and a cancelled loop that keeps fetching
returns to that choice; it does not lose it for ever. Nothing requires a
reload, a flush or a query to be made.

`Exchange!Fairness`: goroutines run and deadlines pass (`context.WithTimeout`);
no upstream is required to answer. `Prober!Fairness`: a call that was made runs
on; its dial ends at the latest after `probe.timeout` (`net.DialTimeout`), so
`Publish` is fair.

`Migration!Fairness`: a process that is running goes on, and time passes; nothing
requires one to start, to succeed, or to die. `OverrideTable!FairSpec`: the loop
goes on. A server that does not answer uses up the context of fifteen seconds, so
`Hang` is one of its steps, and the ticker of the refresh interval is another.

## The proofs

`tlapm` checks every one of the theorems for all values of the constants that satisfy
`ConstantsAssumption`; TLC evaluates the assumption on every run.

* `DNSCacheProofs`: types, `IndexMatchesList`, `LRUOrder`, `ServedTTL` and
  `EvictsLeastRecent`. The inductive invariant `IInv` is their state part together
  with `EntryLifetime`: no entry outlives what its records and both limits, the cache's
  and the query's, allowed when it was written. `ServedTTL` alone speaks of the last reply only, and
  says nothing of the entries that later replies come from. The lemmas say what
  removing a key from a list without duplicates, or putting one in front, does to
  its range, length and order. The sweep of `Put` keeps a prefix of the list, which
  gives both the bound on its length and the LRU eviction.
  The same module has the refinement: the map from list and index to the store of
  `LossyCache` takes initial states to initial states and each step to a step of
  the abstract cache, one lemma per operation. The engine is checked over
  `LossyCache`, so what its runs show holds with the real cache in its place.
* `EngineProofs`: types and all safety properties of `Engine` but the one the code
  breaks. The slots are counted by one lemma on what a step of a query does to its
  control state (`QueryControl`). Routing needs that all components come from one
  configuration, the newest (`OneNewestConfiguration`: swaps make epochs grow), and
  that the reloads a query came after have returned for good (`SinceReturned`), so
  that their epochs no longer change. The loops need `OneTenure`: a manager
  becomes current once, after its swap, and is not the current one once it is on its
  way out; hence whoever cancels a manager never cancels the current one or one
  about to be, which is `NewestRefresh`. `Handovers` follows each manager from the
  field `overrideM` to the one call that replaced it: whoever waits for a loop has
  cancelled it and nobody else waits for it (`NobodyWaitsInVain`), and the field is nil
  only once the shutdown has begun, so that at most one `Reload` can panic on it, and
  none before (`OnePanicAtShutdown`). `ReloadTakesEffect` is false; what is left of it is
  `StaleAnswersAreFromFlight`: an answer that is older than it should be came out of the
  cache and was put there after the swap, by a query that had been under way.
* `TakeoverProofs`: types for any use, and `TakeoverIsRevertible` and
  that a restore is complete, under `Careful`, on all platforms. They are not inductive: what
  makes them so is `Core`. At most one process is between its first write and its
  state file, and then no file exists (`Exclusive`). Every backup, in a file
  or in memory, holds own values (`Faithful`), and whoever goes on has in memory
  what the state file says (`Agreement`). A changed adapter has the address of the
  proxy, or nothing where a write failed (`OnlyProxy`). A restore
  has put back what its list no longer contains (`Progress`). And `Revertible` itself.
  `Careful` is monotone: once lost it never returns, so only careful steps have to
  preserve `Core`. `NoDeadProxy` speaks of other events, so it has an invariant of
  its own, `Safe`: every changed adapter is held by a process that will put it back.
  `UpstreamsBypassProxy` rests on `Asks`, what a proxy found when it last looked.
  `CarefulUseBorrows` is the refinement of `Loan` (`CarefulUseIsALoan`): each step of each
  process is `Borrow`, `GiveBack`, `Slip`, `Forget` or `Change`, or hides. What is noted is
  what the state file says or, before there is one, what the process taking over has
  in memory. Beside `Core` it needs that a process that has not begun knows of no
  adapter (`Fresh`). That the notes survive the death of a process between its first
  write and `SaveState`, or a second takeover, is what `Careful` excludes and what the
  two runs that end in a violation show.

* `ProberProofs`: types, `SingleDial`, `ReturnsFreshResult`, `CacheBounded` and
  `EvictsExpiredFirst`. The invariant adds what the two critical sections keep
  between them: the announced dials are exactly those being made (`Announced`), a
  caller without a result waits for one of them, of its own address (`Joined`),
  and a kept result's lifetime began no later than its dial (`KeptResults`), which
  holds because the clock is read before the dial. `FreshOnceGot` extends
  `ReturnsFreshResult` to callers that have been handed a result and have not run
  since. The order of eviction needs the two clock readings compared: what is
  expired now but was live at the stale reading is older than whatever is live now.
  `NobodyWaitsInVain` is `Joined` read by a caller: another one is dialling its address.
  `CheckIsASingleFlight` is the refinement of `SingleFlight`: its dials are those announced
  in `inflight`, its memory the cache without the insertion times, its answers
  `got`. A hit is `Recall` because an entry's lifetime begins no later than its
  dial (`KeptResults`); a lookup that joins a dial, and a caller that wakes, are hidden.
  All who have joined are answered at once by `Found`, as `close(in.done)` does; a caller
  that has asked and not looked yet is left to `Recall` or to a dial of its own.

* `ExchangeProofs`: types, `AnswerIsDue`, `FailureIsEarned`. The
  invariant follows the query through the stages: those ahead are untouched
  (`Untouched`), those behind were given up because all was refused or the deadline
  had passed (`Passed`). A channel holds each of its senders once, and these have
  ended (`Sent`); the failures counted are no more than the members whose error was
  taken from it (`Counted`), which is what turns "as many failures as members"
  into "all refused". A race that is not closed has lost no success (`NoneLost`),
  and a failover has refused all in line before the one it asks (`InLine`).
  `AnswerIsDue` reads the order of the stages off `Passed`, and what is refused or
  expired stays so. `SendersHaveRoom` counts: who is about to send is not yet among those in the channel
  or taken from it, and the buffer has a place for each. `NoQueryIsStuck` needs to know
  in every stage that somebody is at work (`Busy`), and of a stage that is not over that
  not all its failures have been counted (`Unfinished`). `ExchangeImplementsEngine` maps
  a query in `Exchange` to one in `Engine`, by the stage it is in and what it has been
  answered, and shows that each of its steps is a `QueryStep` or changes nothing there:
  so what `Engine` lets an exchange do in one step is what goroutines, channels and
  contexts do in many, and no more.
* `MigrationProofs`: types, `Serialized`, `KeepsUserParameters`, `LeavesNothing`,
  `TimeoutIsEarned` and `MigratesOnce`. Serialization needs that who is under the lock
  made the lock that is there (`OwnsLock`), and that a removal was announced by a lock
  that became stale (`StaleTold`). `TimeoutIsEarned` needs `Patient`: who has seen no
  change waits for a lock that becomes stale before the wait ends.
  The parameters need that what will be written is whole (`WritesUser`), one
  migration that who is about to write has read what is still there (`WritesOnce`).
  `NewerFilesAreUntouched` holds without the lock: a file of a newer schema is refused
  by whoever reads it, so nobody who could write gets past the check (`LeavesNewer`).
  `NobodyWaitsInVain` follows the owner of the lock (`Attended`): it is at work under it,
  or dead. What keeps a process waiting is therefore somebody else at work, or a
  lock that it can remove once it is stale.
* `OverrideProofs`: types, `EntriesAreWhole`, `StatusTellsTheRound`. The invariant
  says how far a round has come (`Told`): with no failure noted all sources before
  the present one were committed, with one noted it is of one that was not.
  `TableImplementsManager` maps the goroutine to a manager of `Engine`, whose names are
  those the table has: the end of the files is `NewManager`, a commit of a URL is a
  `Load`, the end of a round `FetchEnds`; `Tick`, `Exit` and `Shutdown` are `LoopTick`,
  `LoopExit` and `Cancel`, and all else is hidden. It needs that nothing was fetched
  and nobody could shut the manager down before it was returned (`Unseen`).
* `OperatorProofs`: `Matcher` and `Filter` for lists of any length, so that the
  comparisons of `MCEngine` and `MCProber` are no longer all there is.
  `MatchesWhatIsCovered` turns "what is left from label i on" into suffixes.
  The theorems on `Filter` rest on one lemma: of a finite set with a strict total order,
  the rank of each element (how many are before it) is its place in the only
  enumeration that agrees with the order. The order of `prefer` is such a one, because
  the position decides where the comparison does not; hence `InOrder` exists, is a
  permutation, and keeps the order of what does not differ. `AnswerIsKept` counts records by type.

Only model-checked: liveness (`WaitsEnd`, `EverythingEnds`, `CallsReturn`, `StartsEnd`,
`UrlsAreFollowed`), which TLAPS does not prove. Of the first four the safety half is
proved, for any number of reloads, upstreams, callers and processes: whoever waits, waits
for something that is under way (`NobodyWaitsInVain` in three modules, and `NoQueryIsStuck`). The
refinements are proved as safety: the abstract modules' fairness is not part of them.

## What is left out, and assumed

* Statistics, logging, status output, message construction (EDNS, ECS), and the
  `Tcpip\Parameters` values that the takeover reads but never writes.
* `Takeover` assumes elevated processes, that an adapter key that exists can be
  opened, and that a value that exists can be deleted: `RestoreSystemDNS` skips
  the first and ignores the second. Nobody else rewrites a `NameServer` value
  while it is taken over. Processes share one machine, so the platform check of
  `LoadState` never fails.
* Listeners are down before `Engine.Shutdown` runs, so no query arrives after it.
* `Exchange` follows one query; queries share nothing on this path but the counter
  of failover, whose start is arbitrary here. What a response contains, and how it is
  validated, is one outcome of a request. The dial to a bootstrap address is part of
  the request.
* `Prober`: what a dial finds, which nothing in `Check` depends on, the count of dials
  and `Filter`. The monotonic clock of Go does not go back.
* `Migration`: `Validate`, which is a list of single conditions, so the user's
  parameters are valid; a `schema_version` line in a form that the regular
  expression misses; an editor at work on the file.
* `OverrideTable`: a URL listed twice, a body that ends early without an error, the
  proxy for fetching, and the counts of the status. A line is a name and an
  address; lines without either give nothing.
* `Filter`: that at most four addresses are probed at once. `Matcher`: how the text of
  a pattern is trimmed and split.

## Not modelled

* Message contents: the key of the cache, EDNS options, client subnet. A retry over
  DoH sends the message that was made for the system upstreams, with the
  client's subnet in it, where `README.md` says that it is stripped
  (`engine.go:219`); and the key of the cache is the question alone. Both are fixed by
  one line which no step changes, so a property would only repeat it.
* The listeners' address lists and their two seconds to drain, the control API's
  authentication, JSON and choice of a port, the tray's menus, `status`, `query`,
  `logs` and the like: input and output around calls that are modelled where they
  land. The tray's start is a process of `Migration`.
* Paths, version, formatting, logging.

## Plan

Built in the order of importance: the cache and its abstraction, the engine with
its override managers, the takeover (Windows, then Linux), exchanges, prober,
migration, override table, and the pure operators; then the proofs, component
by component: types and invariants, the safety halves of what must happen, and the
refinements (`DNSCache` of `LossyCache`, `Takeover` of `Loan`, `Prober` of `SingleFlight`,
`Exchange` and `OverrideTable` of `Engine`). What could come next: `Migration` as an
abstract upgrade of one file under careful use, and `Engine` itself seen from its
clients.
