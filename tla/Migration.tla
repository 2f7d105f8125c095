------------------------------ MODULE Migration ------------------------------
(***************************************************************************)
(* The configuration file and the processes that load and migrate it:      *)
(* loadConfig (run, serve), the start of the tray, and migrate, all        *)
(* through config.EnsureSchema, which works under a lock file that the     *)
(* operating system does not release when its owner dies.                  *)
(*                                                                         *)
(* An action is one call of the file system.  Nobody edits the file while  *)
(* truedns starts.                                                         *)
(***************************************************************************)
EXTENDS Integers, Sequences

CONSTANTS Procs,        \* truedns processes, each started once
          Unprivileged, \* those that may lack write permission in the directory
          Nobody,       \* the owner of what a dead process left
          None,         \* no such file; nothing loaded
          Timeout,      \* ten seconds: age of a stale lock, patience of a waiter
          Attempts,     \* attempts of retryRename
          MaxTime       \* bounds the clock

\* A file is the values on its schema_version lines, in their order, and what
\* it holds besides: the parameters of the user, the defaults, or the
\* beginning of a text that was not written to its end.
Bodies == {"user", "default", "part"}
Versions == 0 .. 2
CurrentSchemaVersion == 1
Contents == [ver : Seq(Versions), body : Bodies]

\* A lock file is known by who made it, and when.
Locks == [by : Procs \cup {Nobody}, at : Int]

ASSUME ConstantsAssumption ==
    /\ Unprivileged \subseteq Procs
    /\ Nobody \notin Procs
    /\ None \notin Contents \cup Locks \cup Bodies
    /\ Timeout \in Nat \ {0}
    /\ Attempts \in Nat \ {0}
    /\ MaxTime \in Nat

Truncated == [ver |-> <<>>, body |-> "part"]
DefaultConfig == [ver |-> <<CurrentSchemaVersion>>, body |-> "default"]

VARIABLES
    file,       \* the configuration file, or None
    lock,       \* the lock file, or None
    tmp,        \* the temporary files, by owner
    handles,    \* processes that have the file at its path open for writing
    now,        \* time
    pc,         \* control state of each process
    cfg,        \* the body of the configuration it has loaded, or None
    data,       \* what it read under the lock and will write
    tries,      \* attempts of retryRename made
    deadline,   \* deadline of withConfigLock
    result,     \* what EnsureSchema is about to return, or that it timed out
    windows,    \* the operating system
    denied,     \* the processes that lack write permission
    events,     \* history: see Events
    met         \* history: processes that waited while another made or removed the lock

locals == <<pc, cfg, data, tries, deadline, result>>
vars == <<file, lock, tmp, handles, now, locals, windows, denied, events, met>>

Events ==
    {"stale",     \* a lock became older than Timeout
     "bootstrap", \* the default configuration was written
     "inplace",   \* the file was rewritten in place
     "broken"}    \* a rewrite in place ended half way

Waiting == {"open", "stat", "remove"}
Writing == {"rename", "inplace", "rewrite"}
Locked == {"read", "temp", "release"} \cup Writing

TypeOK ==
    /\ file \in Contents \cup {None}
    /\ lock \in Locks \cup {None}
    /\ tmp \subseteq Procs \cup {Nobody}
    /\ handles \subseteq Procs
    /\ now \in 0 .. MaxTime
    /\ pc \in [Procs -> {"idle", "done", "check", "create", "encode", "load", "reload"}
                        \cup Waiting \cup Locked]
    /\ cfg \in [Procs -> Bodies \cup {None}]
    /\ data \in [Procs -> Contents]
    /\ tries \in [Procs -> 0 .. Attempts]
    /\ deadline \in [Procs -> Nat]
    /\ result \in [Procs -> {"none", "current", "migrated", "newer", "failed", "timeout"}]
    /\ windows \in BOOLEAN
    /\ denied \subseteq Unprivileged
    /\ events \subseteq Events
    /\ met \subseteq Procs

Goto(p, state) == pc' = [pc EXCEPT ![p] = state]

Return(p, r) == result' = [result EXCEPT ![p] = r]

-----------------------------------------------------------------------------
(* Contents                                                                *)

detectSchemaVersion(c) == IF c.ver = <<>> THEN 0 ELSE c.ver[1]

\* migrateV0toV1: the first line that says 0 is rewritten; without one a stamp
\* is put in front, whatever other lines there are.
Zeros(c) == { i \in DOMAIN c.ver : c.ver[i] = 0 }
Stamped(c) ==
    [c EXCEPT !.ver =
        IF Zeros(c) = {} THEN <<CurrentSchemaVersion>> \o @
        ELSE [@ EXCEPT ![CHOOSE i \in Zeros(c) : \A j \in Zeros(c) : i <= j]
                       = CurrentSchemaVersion]]

\* Load: TOML refuses a key that is assigned twice, and a text that was cut off
\* may or may not be valid.  Parameters that are not there have their defaults.
Loadable(c) == Len(c.ver) <= 1

-----------------------------------------------------------------------------
(* loadConfig                                                              *)

\* withConfigLock is called.
Wait(p) == /\ deadline' = [deadline EXCEPT ![p] = now + Timeout]
           /\ Goto(p, "open")
           /\ met' = met \ {p}

\* The bound on time leaves a wait that begins at once the time to end.
Begin(p) ==
    /\ pc[p] = "idle"
    /\ now + Timeout < MaxTime
    /\ Goto(p, "check")
    /\ UNCHANGED <<file, lock, tmp, handles, cfg, data, tries, deadline, result, events, met>>

\* os.Stat; nobody removes the file later.  Without it run, serve and the like
\* create it, unless --config names another file.  migrate does not load it.
Check(p) ==
    /\ pc[p] = "check"
    /\ \/ file = None /\ Goto(p, "done") /\ UNCHANGED <<deadline, met>>
       \/ file = None /\ Goto(p, "create") /\ UNCHANGED <<deadline, met>>
       \/ file # None /\ Goto(p, "load") /\ UNCHANGED <<deadline, met>>
       \/ file # None /\ Wait(p)
    /\ UNCHANGED <<file, lock, tmp, handles, cfg, data, tries, result, events>>

\* config.Write: os.Create truncates a file that was made meanwhile.  Without
\* the file run goes on with the built-in defaults.
Create(p) ==
    /\ pc[p] = "create"
    /\ cfg' = [cfg EXCEPT ![p] = "default"]
    /\ \/ /\ p \notin denied
          /\ file' = Truncated
          /\ handles' = handles \cup {p}
          /\ events' = events \cup {"bootstrap"}
          /\ Goto(p, "encode")
       \/ /\ Goto(p, "done")
          /\ UNCHANGED <<file, handles, events>>
    /\ UNCHANGED <<lock, tmp, data, tries, deadline, result, met>>

\* What was opened is written, which may no longer be the file at the path.
Encode(p) ==
    /\ pc[p] = "encode"
    /\ file' \in IF p \in handles THEN {DefaultConfig, Truncated} ELSE {file}
    /\ handles' = handles \ {p}
    /\ Goto(p, "done")
    /\ UNCHANGED <<lock, tmp, cfg, data, tries, deadline, result, events, met>>

\* config.Load; run ends when the configuration does not load.
Load(p) ==
    /\ pc[p] = "load"
    /\ \/ /\ Loadable(file)
          /\ cfg' = [cfg EXCEPT ![p] = file.body]
          /\ Wait(p)
       \/ /\ ~Loadable(file) \/ file.body = "part"
          /\ Goto(p, "done")
          /\ UNCHANGED <<cfg, deadline, met>>
    /\ UNCHANGED <<file, lock, tmp, handles, data, tries, result, events>>

\* What was loaded is replaced after a migration, if it loads again.
Reload(p) ==
    /\ pc[p] = "reload"
    /\ \/ /\ Loadable(file)
          /\ cfg' = [cfg EXCEPT ![p] = file.body]
       \/ /\ ~Loadable(file) \/ file.body = "part"
          /\ UNCHANGED cfg
    /\ Goto(p, "done")
    /\ UNCHANGED <<file, lock, tmp, handles, data, tries, deadline, result,
                   events, met>>

-----------------------------------------------------------------------------
(* withConfigLock                                                          *)

\* The others that wait may notice what p does to the lock.
Seen(p) == met' = met \cup { q \in Procs \ {p} : pc[q] \in Waiting }

\* Faulty variant: without O_EXCL.
OpenShared(p) ==
    /\ pc[p] = "open"
    /\ lock' = [by |-> p, at |-> now]
    /\ Goto(p, "read")
    /\ deadline' = [deadline EXCEPT ![p] = 0]
    /\ Seen(p)
    /\ UNCHANGED <<file, tmp, handles, cfg, data, tries, result, events>>

\* O_CREATE | O_EXCL: an existing file is reported as such, whoever asks.
Open(p) ==
    /\ pc[p] = "open"
    /\ \/ /\ lock # None
          /\ Goto(p, "stat")
          /\ UNCHANGED <<lock, deadline, met>>
       \/ /\ lock = None /\ p \in denied
          /\ Goto(p, "done")
          /\ deadline' = [deadline EXCEPT ![p] = 0]
          /\ UNCHANGED <<lock, met>>
       \/ /\ lock = None /\ p \notin denied
          /\ lock' = [by |-> p, at |-> now]
          /\ Goto(p, "read")
          /\ deadline' = [deadline EXCEPT ![p] = 0]
          /\ Seen(p)
    /\ UNCHANGED <<file, tmp, handles, cfg, data, tries, result, events>>

Stale == lock # None /\ now - lock.at > Timeout

\* Faulty variant: the deadline passes before a lock becomes stale.
StatImpatient(p) ==
    /\ pc[p] = "stat"
    /\ \/ Stale /\ Goto(p, "remove") /\ UNCHANGED result
       \/ ~Stale /\ now < deadline[p] /\ Goto(p, "open") /\ UNCHANGED result
       \/ ~Stale /\ now >= deadline[p] /\ Goto(p, "done") /\ Return(p, "timeout")
    /\ UNCHANGED <<file, lock, tmp, handles, cfg, data, tries, deadline, events, met>>

\* Of a lock that has gone meanwhile nothing is known.  The deadline is not
\* consulted while the lock is stale.
Stat(p) ==
    /\ pc[p] = "stat"
    /\ \/ Stale /\ Goto(p, "remove") /\ UNCHANGED result
       \/ ~Stale /\ now <= deadline[p] /\ Goto(p, "open") /\ UNCHANGED result
       \/ ~Stale /\ now > deadline[p] /\ Goto(p, "done") /\ Return(p, "timeout")
    /\ UNCHANGED <<file, lock, tmp, handles, cfg, data, tries, deadline, events, met>>

\* Faulty variant: the lock file is opened so that others may remove it.
RemovableShared(p) == p \notin denied

\* Faulty variant: nobody removes the lock of another.
RemovableOwn(p) == p \notin denied /\ lock # None /\ lock.by = p

\* os.Remove takes the name, whatever file has it by now.  Windows does not
\* remove a file that another process has open, as its owner has the lock.
Removable(p) ==
    /\ p \notin denied
    /\ windows /\ lock # None => lock.by \in {p, Nobody}

\* The result of os.Remove is ignored.
Remove(p) ==
    /\ pc[p] = "remove"
    /\ lock' = IF Removable(p) THEN None ELSE lock
    /\ Seen(p)
    /\ Goto(p, "open")
    /\ UNCHANGED <<file, tmp, handles, cfg, data, tries, deadline, result, events>>

\* The deferred removal of the lock, and the return to loadConfig, or to migrate.
Release(p) ==
    /\ pc[p] = "release"
    /\ lock' = IF Removable(p) THEN None ELSE lock
    /\ Seen(p)
    /\ data' = [data EXCEPT ![p] = Truncated]
    /\ \/ Goto(p, "done")
       \/ result[p] = "migrated" /\ Goto(p, "reload")
    /\ Return(p, "none")
    /\ UNCHANGED <<file, tmp, handles, cfg, tries, deadline, events>>

-----------------------------------------------------------------------------
(* ensureSchemaLocked, migrateV0toV1, atomicWrite                          *)

\* The version decides what is done.
Read(p) ==
    /\ pc[p] = "read"
    /\ LET v == detectSchemaVersion(file)
       IN  \/ /\ v < CurrentSchemaVersion
              /\ Goto(p, "temp")
              /\ UNCHANGED result
           \/ /\ v = CurrentSchemaVersion
              /\ Return(p, "current")
              /\ Goto(p, "release")
           \/ /\ v > CurrentSchemaVersion
              /\ Return(p, "newer")
              /\ Goto(p, "release")
    /\ UNCHANGED <<file, lock, tmp, handles, cfg, data, tries, deadline, events, met>>

\* atomicWrite fails after it has removed its temporary file.
CleanUp(p, r) == /\ tmp' = tmp \ {p}
                 /\ tries' = [tries EXCEPT ![p] = 0]
                 /\ Return(p, r)
                 /\ Goto(p, "release")

\* migrateV0toV1 reads the file again; the result goes to a temporary file,
\* which is created, written, given its mode and closed.
MakeTemp(p) ==
    /\ pc[p] = "temp"
    /\ \/ /\ data' = [data EXCEPT ![p] = Stamped(file)]
          /\ tmp' = tmp \cup {p}
          /\ Goto(p, "rename")
          /\ UNCHANGED <<tries, result>>
       \/ /\ CleanUp(p, "failed")
          /\ UNCHANGED data
    /\ UNCHANGED <<file, lock, handles, cfg, deadline, events, met>>

\* Faulty variant: one attempt too many.
RenameOneMore(p) ==
    /\ pc[p] = "rename"
    /\ tries' = [tries EXCEPT ![p] = @ + 1]
    /\ Goto(p, IF tries'[p] <= Attempts THEN "rename" ELSE "inplace")
    /\ UNCHANGED <<file, tmp, handles, result, lock, cfg, data, deadline, events, met>>

\* One attempt.  Windows does not replace a file that someone has open.
Rename(p) ==
    /\ pc[p] = "rename"
    /\ \/ /\ windows => handles = {}
          /\ file' = data[p]
          /\ handles' = {}
          /\ CleanUp(p, "migrated")
       \/ /\ tries' = [tries EXCEPT ![p] = @ + 1]
          /\ Goto(p, IF tries'[p] < Attempts THEN "rename" ELSE "inplace")
          /\ UNCHANGED <<file, tmp, handles, result>>
    /\ UNCHANGED <<lock, cfg, data, deadline, events, met>>

\* Faulty variant: the fallback is taken everywhere.
InPlaceAlways(p) ==
    /\ pc[p] = "inplace"
    /\ file' = Truncated
    /\ handles' = handles \cup {p}
    /\ events' = events \cup {"inplace"}
    /\ Goto(p, "rewrite")
    /\ UNCHANGED <<lock, tmp, cfg, data, tries, deadline, result, met>>

\* inPlaceReplace truncates the file, on Windows only, where it may fail too.
InPlace(p) ==
    /\ pc[p] = "inplace"
    /\ \/ /\ windows
          /\ file' = Truncated
          /\ handles' = handles \cup {p}
          /\ events' = events \cup {"inplace"}
          /\ Goto(p, "rewrite")
          /\ UNCHANGED <<tmp, tries, result>>
       \/ /\ CleanUp(p, "failed")
          /\ UNCHANGED <<file, handles, events>>
    /\ UNCHANGED <<lock, cfg, data, deadline, met>>

\* Faulty variant: an early return keeps the temporary file.
RewriteKeepingTemp(p) ==
    /\ pc[p] = "rewrite"
    /\ file' = data[p]
    /\ handles' = handles \ {p}
    /\ Return(p, "migrated")
    /\ Goto(p, "release")
    /\ UNCHANGED <<lock, tmp, cfg, data, tries, deadline, events, met>>

\* The write, which may end half way, and the sync, which may fail.
Rewrite(p) ==
    /\ pc[p] = "rewrite"
    /\ handles' = handles \ {p}
    /\ \/ /\ file' = data[p]
          /\ CleanUp(p, "migrated") \/ CleanUp(p, "failed")
          /\ UNCHANGED events
       \/ /\ file' \in {Truncated, [data[p] EXCEPT !.body = "part"]}
          /\ CleanUp(p, "failed")
          /\ events' = events \cup {"broken"}
    /\ UNCHANGED <<lock, cfg, data, deadline, met>>

-----------------------------------------------------------------------------

\* The process is killed, or the power fails; files stay.
Die(p) ==
    /\ pc[p] \notin {"idle", "done"}
    /\ Goto(p, "done")
    /\ tries' = [tries EXCEPT ![p] = 0]
    /\ Return(p, "none")
    /\ cfg' = [cfg EXCEPT ![p] = None]
    /\ data' = [data EXCEPT ![p] = Truncated]
    /\ lock' = IF lock # None /\ lock.by = p THEN [lock EXCEPT !.by = Nobody] ELSE lock
    /\ tmp' = IF p \in tmp THEN (tmp \ {p}) \cup {Nobody} ELSE tmp
    /\ handles' = handles \ {p}
    /\ events' = events \cup (IF pc[p] = "rewrite" THEN {"broken"} ELSE {})
    /\ deadline' = [deadline EXCEPT ![p] = 0]
    /\ UNCHANGED <<file, met>>

Tick ==
    /\ now < MaxTime
    /\ now' = now + 1
    /\ lock' = lock
    /\ events' = IF Stale' THEN events \cup {"stale"} ELSE events
    /\ UNCHANGED <<file, tmp, handles, locals, met>>

\* There may be a lock that an earlier process left long ago.
Init ==
    /\ file \in {None} \cup [ver : {<<>>, <<0>>, <<1>>, <<2>>}, body : {"user"}]
    /\ lock \in {None} \cup [by : {Nobody}, at : {-Timeout - 1}]
    /\ tmp = {}
    /\ handles = {}
    /\ now = 0
    /\ pc = [p \in Procs |-> "idle"]
    /\ cfg = [p \in Procs |-> None]
    /\ data = [p \in Procs |-> Truncated]
    /\ tries = [p \in Procs |-> 0]
    /\ deadline = [p \in Procs |-> 0]
    /\ result = [p \in Procs |-> "none"]
    /\ windows \in BOOLEAN
    /\ denied \in SUBSET Unprivileged
    /\ events = IF Stale THEN {"stale"} ELSE {}
    /\ met = {}

EnsureSchema(p) == \/ Open(p) \/ Stat(p) \/ Remove(p) \/ Release(p)
                   \/ Read(p) \/ MakeTemp(p)
                   \/ Rename(p) \/ InPlace(p) \/ Rewrite(p)

Step(p) == /\ \/ Check(p) \/ Create(p) \/ Encode(p) \/ Load(p) \/ Reload(p)
              \/ EnsureSchema(p)
           /\ UNCHANGED <<now, windows, denied>>

Next == \/ \E p \in Procs : Step(p)
        \/ \E p \in Procs : (Begin(p) \/ Die(p)) /\ UNCHANGED <<now, windows, denied>>
        \/ Tick /\ UNCHANGED <<windows, denied>>

Spec == Init /\ [][Next]_vars

\* A process that runs goes on, and time passes.
Fairness == /\ \A p \in Procs : WF_vars(Step(p))
            /\ WF_vars(Tick /\ UNCHANGED <<windows, denied>>)

FairSpec == Spec /\ Fairness

-----------------------------------------------------------------------------
(* Properties                                                              *)

\* No lock became stale: what a process left when it died went unnoticed, and
\* none held the lock for longer than Timeout.
Prompt == "stale" \notin events

\* The comment on EnsureSchema: the lock serializes concurrent migrations.  On
\* Windows it always does, since a live owner's lock cannot be removed; elsewhere
\* as long as no lock becomes stale: two waiters that find the same stale lock
\* may both enter, the second having removed the lock of the first.
Serialized ==
    windows \/ Prompt =>
        \A p, q \in Procs : pc[p] \in Locked /\ pc[q] \in Locked => p = q

\* The parameters of the user are never lost, whoever dies, fails or enters the
\* lock twice, except by a rewrite in place, on Windows, between its truncation
\* and its end or after it ended half way; what a process loads is whole as
\* long as there was none, although Load does not take the lock.
KeepsUserParameters ==
    "bootstrap" \notin events =>
        /\ file # None /\ file.body # "user" =>
              windows /\ ("broken" \in events \/ \E p \in Procs : pc[p] = "rewrite")
        /\ \A p \in Procs : cfg[p] = "part" => "inplace" \in events

\* Only dead processes leave anything behind: however EnsureSchema ends, its
\* temporary file is gone, and a lock in the name of a live process is in use.
LeavesNothing ==
    /\ \A p \in tmp : p = Nobody \/ pc[p] \in Writing
    /\ lock # None => lock.by = Nobody \/ pc[lock.by] \in Locked

\* A lock that was left behind delays a start, and never makes it fail alone:
\* who gives up has waited while another process made the lock or removed it.
TimeoutIsEarned ==
    \A p \in Procs : result[p] = "timeout" => p \in met

\* Every change of the file is one whole migration of a legacy file, and nothing
\* is stamped twice, as long as the lock serializes, nobody rewrites in place
\* and nobody writes the default file, which is done without the lock.
MigratesOnce ==
    [][ (windows \/ Prompt') /\ events' \cap {"bootstrap", "inplace"} = {} =>
            \/ file' = file
            \/ detectSchemaVersion(file) = 0 /\ file' = Stamped(file) ]_vars

\* Every start ends, unless the process may not remove a stale lock: the branch
\* that removes it returns to the open without looking at the deadline.
\* A wait whose deadline is beyond the bound on time is left out.
StartsEnd ==
    \A p \in Procs : p \notin denied /\ pc[p] # "idle" ~>
        pc[p] = "done" \/ deadline[p] >= MaxTime
=============================================================================
