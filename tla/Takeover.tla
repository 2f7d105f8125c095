------------------------------ MODULE Takeover ------------------------------
(***************************************************************************)
(* The takeover of the system DNS by the commands run, setup and restore   *)
(* (cmd/truedns) through package platform: NameServer values written       *)
(* adapter by adapter on Windows, one file on Linux; the backup of the     *)
(* former values in the state file, the deferred restore of run, and what  *)
(* happens when a process dies or a write fails in between.                *)
(*                                                                         *)
(* On Linux the file is the adapter Main, and there is no other one: the   *)
(* drop-in of systemd-resolved, Unset when there is none, or resolv.conf,  *)
(* Unset when it is empty and Unconfigured when there is none.             *)
(*                                                                         *)
(* Every process is elevated; without privileges every command stops       *)
(* before it changes anything.                                             *)
(***************************************************************************)
CONSTANTS Procs,        \* truedns processes; a finished one may be started again
          Adapters,     \* subkeys of Tcpip\Parameters\Interfaces
          Main,         \* what is written on Linux
          Servers,      \* addresses of DNS servers other than the proxy
          Static,       \* Static \subseteq Servers: what users set by hand
          Lease,        \* Lease[a]: the DhcpNameServer value of adapter a; the
                        \* servers systemd-resolved lists in resolv.conf
          Defaults,     \* DefaultFallbackServers
          Loopback,     \* 127.0.0.1
          Unset,        \* no NameServer value: DHCP applies
          Unconfigured, \* no IP configuration at all, see adapterActive
          Gone,         \* the adapter was removed
          None,         \* no state file
          Torn,         \* a state file written in part
          Allowed       \* the events that may happen: bounds the misuse explored

Values == Static \cup {Loopback, Unset, Unconfigured, Gone}

\* What a TakeoverState holds: the former value of each adapter touched.
Backups == UNION { [A -> Values] : A \in SUBSET Adapters }

ASSUME ConstantsAssumption ==
    /\ Main \in Adapters
    /\ Static \subseteq Servers
    /\ Lease \in [Adapters -> SUBSET Servers]
    /\ Defaults \in (SUBSET Servers) \ {{}}
    /\ {Loopback, Unset, Unconfigured, Gone} \cap Servers = {}
    /\ Loopback \notin {Unset, Unconfigured, Gone}
    /\ Gone \notin {Unset, Unconfigured}
    /\ Unset # Unconfigured
    /\ None \notin Backups

Commands == {"run", "run --keep", "setup", "setup --force", "restore"}

Empty == [a \in {} |-> Unset]

Platforms == {"windows", "resolved", "resolv.conf"}

VARIABLES
    platform,   \* windows, or the manager of DNS on Linux
    dns,        \* the NameServer value of each adapter
    file,       \* the state file
    pc,         \* control state of each process
    cmd,        \* the command it executes
    backup,     \* the takeover state it holds in memory
    todo,       \* the adapters left in its loop over the adapters
    upstreams,  \* the system upstreams of its engine
    own,        \* history: what dns would be without truedns
    events      \* history: what went wrong or was asked for, see below

locals == <<pc, cmd, backup, todo, upstreams>>
vars == <<platform, dns, file, locals, own, events>>

Events ==
    {"overlap",   \* a takeover began while another process was executing
     "retaken",   \* run or setup --force took over what was already taken over
     "crash",     \* a process died with a takeover it had not yet saved
     "unsaved",   \* SaveState failed
     "half",      \* SetSystemDNS failed after it had changed an adapter
     "empty",     \* an empty resolv.conf was taken over
     "kept",      \* a value could not be deleted, which is ignored
     "torn",      \* a restore wrote half a file while, or after, another restored
     "left"}      \* the takeover was left in place: setup, --keep, a process
                  \* that died or a restore that failed

TypeOK ==
    /\ platform \in Platforms
    /\ dns \in [Adapters -> Values]
    /\ file \in Backups \cup {None}
    /\ pc \in [Procs -> {"idle", "config", "check", "load", "set", "save", "start",
                         "serving", "restore", "clear"}]
    /\ cmd \in [Procs -> Commands]
    /\ backup \in [Procs -> Backups]
    /\ todo \in [Procs -> SUBSET Adapters]
    /\ upstreams \in [Procs -> SUBSET Servers]
    /\ own \in [Adapters -> Values \ {Loopback}]
    /\ events \subseteq Events

Idle(p) == pc[p] = "idle"

Goto(p, state) == pc' = [pc EXCEPT ![p] = state]

\* The process ends; nothing of its memory is left.
End(p) == /\ Goto(p, "idle")
          /\ cmd' = [cmd EXCEPT ![p] = "restore"]
          /\ backup' = [backup EXCEPT ![p] = Empty]
          /\ todo' = [todo EXCEPT ![p] = {}]
          /\ upstreams' = [upstreams EXCEPT ![p] = {}]

Remember(S) == /\ events' = events \cup S
               /\ events' \subseteq Allowed

-----------------------------------------------------------------------------
(* DiscoverSystemDNS                                                       *)

\* What normalizeAddrs keeps of the addresses of a set of NameServer values.
Usable(addresses) == addresses \cap Servers

LiveServers == Usable({ dns[a] : a \in Adapters }
                      \cup UNION { Lease[a] : a \in { b \in Adapters :
                                       dns[b] \notin {Gone, Unconfigured} } })

RecordedServers ==
    IF file = None THEN {}
    ELSE Usable({ file[a] : a \in DOMAIN file } \cup UNION { Lease[a] : a \in DOMAIN file })

\* Faulty variant: the saved state is not consulted.
DiscoverLive == IF LiveServers # {} THEN LiveServers ELSE Defaults

\* What is found of the recorded values and the live ones: on Windows one or the
\* other.  On Linux the file resolv.conf is read, or in place of it what it was,
\* if that is not empty, and the servers of a recorded drop-in are added.
Found ==
    CASE platform = "windows" ->
             IF RecordedServers # {} THEN RecordedServers ELSE LiveServers
      [] platform = "resolv.conf" ->
             Usable({IF file # None /\ file[Main] # Unset THEN file[Main] ELSE dns[Main]})
      [] platform = "resolved" ->
             Usable(Lease[Main] \cup IF file # None THEN {file[Main]} ELSE {})

\* Else the defaults.
Discover == IF Found # {} THEN Found ELSE Defaults

-----------------------------------------------------------------------------
(* Commands                                                                *)

Begin(p) ==
    /\ Idle(p)
    /\ \E c \in Commands :
          /\ cmd' = [cmd EXCEPT ![p] = c]
          /\ \/ c \in {"run", "run --keep"} /\ Goto(p, "config")
             \/ c \in {"setup", "setup --force"} /\ Goto(p, "check")
             \/ c = "restore" /\ Goto(p, "load")
    /\ UNCHANGED <<dns, file, backup, todo, upstreams, own, events>>

TakenOver == file # None \/ \E a \in Adapters : dns[a] = Loopback

\* SetSystemDNS is called: it will visit every adapter.
StartTakeover(p) ==
    /\ Goto(p, "set")
    /\ todo' = [todo EXCEPT ![p] = Adapters]
    /\ Remember((IF cmd[p] # "setup" /\ TakenOver THEN {"retaken"} ELSE {})
                \cup (IF \E q \in Procs \ {p} : ~Idle(q) THEN {"overlap"} ELSE {}))
    /\ UNCHANGED <<dns, file, cmd, backup, upstreams, own>>

GiveUp(p) == End(p) /\ UNCHANGED <<dns, file, own, events>>

\* run loads the configuration before it touches the system.
LoadConfig(p) == /\ pc[p] = "config"
                 /\ StartTakeover(p) \/ GiveUp(p)

\* setup refuses when a takeover is recorded, unless forced.
CheckState(p) ==
    /\ pc[p] = "check"
    /\ \/ /\ file = None \/ cmd[p] = "setup --force"
          /\ StartTakeover(p)
       \/ /\ file # None /\ cmd[p] = "setup"
          /\ GiveUp(p)

\* On Linux a write may leave half a file, which says nothing, and what follows
\* it, the restart of the service, may fail: the command ends, nothing is undone.
SetHalf(p, a) ==
    /\ platform # "windows"
    /\ dns' \in { [dns EXCEPT ![a] = v] : v \in {Loopback, Unset} }
    /\ End(p)
    /\ Remember({"half"})

\* One adapter of SetSystemDNS: adapters that cannot be opened or have no IP
\* configuration are skipped; a failed write ends the command.
SetOne(p) ==
    /\ pc[p] = "set"
    /\ \E a \in todo[p] :
          \/ /\ dns[a] \in {Gone, Unconfigured}
             /\ todo' = [todo EXCEPT ![p] = @ \ {a}]
             /\ UNCHANGED <<dns, pc, cmd, backup, upstreams, events>>
          \/ /\ dns[a] \notin {Gone, Unconfigured}
             /\ dns' = [dns EXCEPT ![a] = Loopback]
             /\ backup' = [backup EXCEPT ![p] =
                   [x \in DOMAIN @ \cup {a} |-> IF x = a THEN dns[a] ELSE @[x]]]
             /\ todo' = [todo EXCEPT ![p] = @ \ {a}]
             /\ Remember(IF platform = "resolv.conf" /\ dns[a] = Unset THEN {"empty"} ELSE {})
             /\ UNCHANGED <<pc, cmd, upstreams>>
          \/ /\ dns[a] \notin {Gone, Unconfigured}
             /\ End(p)
             /\ Remember(IF backup[p] # Empty THEN {"half"} ELSE {})
             /\ UNCHANGED dns
          \/ dns[a] \notin {Gone, Unconfigured} /\ SetHalf(p, a)
    /\ UNCHANGED <<file, own>>

\* SetSystemDNS returns: an error if no adapter was touched.
SetDone(p) ==
    /\ pc[p] = "set"
    /\ todo[p] = {}
    /\ \/ backup[p] = Empty /\ GiveUp(p)
       \/ /\ backup[p] # Empty
          /\ Goto(p, "save")
          /\ UNCHANGED <<dns, file, cmd, backup, todo, upstreams, own, events>>

\* What follows SaveState: setup is done, run goes on to start the proxy.
AfterSave(p, saved) ==
    LET failure == IF saved THEN {} ELSE {"unsaved"}
        run == cmd[p] \in {"run", "run --keep"}
    IN  \/ /\ run
           /\ Goto(p, "start")
           /\ Remember(failure)
           /\ UNCHANGED <<cmd, backup, todo, upstreams>>
        \/ /\ ~run
           /\ End(p)
           /\ Remember(failure \cup {"left"})

\* Faulty variant: the state file is written in place, so that a process that
\* dies here leaves a part of it.
SaveInPlace(p) ==
    /\ pc[p] = "save"
    /\ \/ file' = backup[p] /\ AfterSave(p, TRUE)
       \/ file' = Torn /\ End(p) /\ Remember({"crash", "left"})
    /\ UNCHANGED <<dns, own>>

\* The state is written to a temporary file that is then renamed.  When that
\* fails run only warns, and setup reports an error.
Save(p) ==
    /\ pc[p] = "save"
    /\ \/ file' = backup[p] /\ AfterSave(p, TRUE)
       \/ UNCHANGED file /\ AfterSave(p, FALSE)
    /\ UNCHANGED <<dns, own>>

\* The deferred function of run.
DeferredRestore(p) ==
    \/ /\ cmd[p] = "run --keep"
       /\ End(p)
       /\ Remember({"left"})
    \/ /\ cmd[p] = "run"
       /\ Goto(p, "restore")
       /\ todo' = [todo EXCEPT ![p] = DOMAIN backup[p]]
       /\ UNCHANGED <<cmd, backup, upstreams, events>>

\* Faulty variant: the error return of startProxy comes before the defer.
StartNoRestore(p) ==
    /\ pc[p] = "start"
    /\ \/ /\ \A q \in Procs : pc[q] # "serving"
          /\ upstreams' = [upstreams EXCEPT ![p] = Discover]
          /\ Goto(p, "serving")
          /\ UNCHANGED <<cmd, backup, todo>>
       \/ End(p)
    /\ UNCHANGED <<dns, file, own, events>>

\* startProxy and Serve: the engine is built and the listeners are opened,
\* unless either fails.  The port has one owner.
Start(p) ==
    /\ pc[p] = "start"
    /\ \/ /\ \A q \in Procs : pc[q] # "serving"
          /\ upstreams' = [upstreams EXCEPT ![p] = Discover]
          /\ Goto(p, "serving")
          /\ UNCHANGED <<cmd, backup, todo, events>>
       \/ DeferredRestore(p)
    /\ UNCHANGED <<dns, file, own>>

\* A configuration reload discovers the system upstreams again.
Reload(p) == /\ pc[p] = "serving"
             /\ upstreams' = [upstreams EXCEPT ![p] = Discover]
             /\ UNCHANGED <<dns, file, pc, cmd, backup, todo, own, events>>

\* Ctrl+C, the control API or a fatal listener error.
Stop(p) == /\ pc[p] = "serving"
           /\ DeferredRestore(p)
           /\ UNCHANGED <<dns, file, own>>

\* restore: the state file is read into memory.
Load(p) ==
    /\ pc[p] = "load"
    /\ \/ file = None /\ GiveUp(p)
       \/ /\ file # None
          /\ backup' = [backup EXCEPT ![p] = file]
          /\ todo' = [todo EXCEPT ![p] = DOMAIN file]
          /\ Goto(p, "restore")
          /\ UNCHANGED <<dns, file, cmd, upstreams, own, events>>

\* Faulty variant: a value that had been set by hand is deleted like the others.
RestoreOneUnset(p) ==
    /\ pc[p] = "restore"
    /\ \E a \in todo[p] :
          /\ todo' = [todo EXCEPT ![p] = @ \ {a}]
          /\ dns' = [dns EXCEPT ![a] = IF @ = Gone THEN Gone ELSE Unset]
    /\ UNCHANGED <<file, pc, cmd, backup, upstreams, own, events>>

\* Faulty variant: the state file is removed before all is restored.
RestoreOneClearing(p) ==
    /\ pc[p] = "restore"
    /\ \E a \in todo[p] :
          /\ todo' = [todo EXCEPT ![p] = @ \ {a}]
          /\ dns' = [dns EXCEPT ![a] = IF @ = Gone THEN Gone ELSE backup[p][a]]
    /\ file' = None
    /\ UNCHANGED <<pc, cmd, backup, upstreams, own, events>>

\* An empty resolv.conf is refused.
Refused(p, a) == platform = "resolv.conf" /\ backup[p][a] = Unset

\* The error of a deletion is ignored.
KeepOne(p, a) ==
    /\ backup[p][a] = Unset
    /\ ~Refused(p, a)
    /\ todo' = [todo EXCEPT ![p] = @ \ {a}]
    /\ Remember({"kept"})
    /\ UNCHANGED <<dns, pc, cmd, backup, upstreams>>

\* On Linux the restart of the service may fail after the file was restored, and
\* a write may leave half a file.
RestoreHalf(p, a) ==
    /\ platform # "windows"
    /\ ~Refused(p, a)
    /\ dns' \in { [dns EXCEPT ![a] = v] : v \in {backup[p][a], Unset} }
    /\ End(p)
    /\ LET other == file = None \/ \E q \in Procs \ {p} : pc[q] \in {"restore", "clear"}
       IN  Remember({"left"} \cup IF other THEN {"torn"} ELSE {})

\* One adapter of RestoreSystemDNS: a removed one is skipped, and a failed write
\* ends the command with the state file in place.
RestoreOne(p) ==
    /\ pc[p] = "restore"
    /\ \E a \in todo[p] :
          \/ /\ ~Refused(p, a)
             /\ todo' = [todo EXCEPT ![p] = @ \ {a}]
             /\ dns' = [dns EXCEPT ![a] = IF @ = Gone THEN Gone ELSE backup[p][a]]
             /\ UNCHANGED <<pc, cmd, backup, upstreams, events>>
          \/ /\ dns[a] # Gone
             /\ backup[p][a] # Unset \/ Refused(p, a)
             /\ End(p)
             /\ Remember({"left"})
             /\ UNCHANGED dns
          \/ dns[a] # Gone /\ (KeepOne(p, a) \/ RestoreHalf(p, a))
    /\ UNCHANGED <<file, own>>

RestoreDone(p) ==
    /\ pc[p] = "restore"
    /\ todo[p] = {}
    /\ Goto(p, "clear")
    /\ UNCHANGED <<dns, file, cmd, backup, todo, upstreams, own, events>>

\* ClearState; that it failed is ignored.
Clear(p) == /\ pc[p] = "clear"
            /\ file' = None \/ UNCHANGED file
            /\ End(p)
            /\ UNCHANGED <<dns, own, events>>

\* The process is killed, or the power fails.
Die(p) == /\ ~Idle(p)
          /\ End(p)
          /\ Remember({"left"} \cup IF pc[p] \in {"set", "save"} /\ backup[p] # Empty
                                    THEN {"crash"} ELSE {})
          /\ UNCHANGED <<dns, file, own>>

-----------------------------------------------------------------------------
(* The system around truedns                                               *)

Configure(a) == /\ platform = "windows"
                /\ dns[a] = Unconfigured
                /\ dns' = [dns EXCEPT ![a] = Unset]
                /\ own' = [own EXCEPT ![a] = Unset]
                /\ UNCHANGED <<file, locals, events>>

Remove(a) == /\ platform = "windows"
             /\ dns[a] # Gone
             /\ dns' = [dns EXCEPT ![a] = Gone]
             /\ own' = [own EXCEPT ![a] = Gone]
             /\ UNCHANGED <<file, locals, events>>

-----------------------------------------------------------------------------

\* There may be no drop-in directory, but systemd-resolved can always be configured.
InitialValues ==
    CASE platform = "windows" -> [Adapters -> Static \cup {Unset, Unconfigured}]
      [] platform = "resolved" ->
             { d \in [Adapters -> Static \cup {Unset, Gone}] :
                   \A a \in Adapters : d[a] = Gone <=> a # Main }
      [] platform = "resolv.conf" ->
             { d \in [Adapters -> Static \cup {Unset, Unconfigured, Gone}] :
                   \A a \in Adapters : d[a] = Gone <=> a # Main }

Init == /\ platform \in Platforms
        /\ dns \in InitialValues
        /\ file = None
        /\ pc = [p \in Procs |-> "idle"]
        /\ cmd = [p \in Procs |-> "restore"]
        /\ backup = [p \in Procs |-> Empty]
        /\ todo = [p \in Procs |-> {}]
        /\ upstreams = [p \in Procs |-> {}]
        /\ own = dns
        /\ events = {}

Next == /\ \/ \E p \in Procs : \/ Begin(p)
                               \/ LoadConfig(p)
                               \/ CheckState(p)
                               \/ SetOne(p)
                               \/ SetDone(p)
                               \/ Save(p)
                               \/ Start(p)
                               \/ Reload(p)
                               \/ Stop(p)
                               \/ Load(p)
                               \/ RestoreOne(p)
                               \/ RestoreDone(p)
                               \/ Clear(p)
                               \/ Die(p)
           \/ \E a \in Adapters : Configure(a) \/ Remove(a)
        /\ UNCHANGED platform

Spec == Init /\ [][Next]_vars

-----------------------------------------------------------------------------
(* Properties                                                              *)

Recorded(backups, a) == a \in DOMAIN backups /\ backups[a] = own[a]

\* An adapter that does not have its own value is one whose value is recorded
\* in the state file, or will be, by a process that is still taking over.
Revertible ==
    \A a \in Adapters : dns[a] # own[a] =>
        \/ file # None /\ Recorded(file, a)
        \/ \E p \in Procs : pc[p] \in {"set", "save"} /\ Recorded(backup[p], a)

\* Careful use: takeovers do not overlap or pile up, the state file can be
\* written, and no process dies between its first write and the state file.
Careful == events \subseteq {"left"}

\* With careful use the user can always get the former DNS settings back with
\* restore, whenever a process dies or a restore fails half way, and also when
\* a restore command and the end of run restore at the same time.
TakeoverIsRevertible == Careful => Revertible

\* The adapters whose own values are known: to the state file or, before there is
\* one, to a process that is taking over.
Noted == IF file # None THEN DOMAIN file
         ELSE UNION { DOMAIN backup[p] : p \in { q \in Procs : pc[q] \in {"set", "save"} } }

Lender == INSTANCE Loan WITH Proxy <- Loopback, Nothing <- Unset, noted <- Noted

\* With careful use all processes together do, step by step, nothing but borrow the
\* settings: an adapter is pointed at the proxy only while it has its own value, gets
\* back that one, and the last note of it goes only when everything is back.
CarefulUseIsALoan == Lender!Init /\ [][Careful' => Lender!Next]_(Lender!vars)

\* A run that is left to finish never leaves the system pointing at a proxy
\* that is no longer there, whatever made it end: a configuration that cannot
\* be loaded, a proxy that does not start, Ctrl+C; the state file is not needed.
NoDeadProxy == events \subseteq {"unsaved"} /\ (\A p \in Procs : Idle(p)) => dns = own

\* The proxy never has itself as an upstream, whatever state file it finds; with
\* careful use it asks the servers that the adapters were set to by hand, and
\* that a drop-in of systemd-resolved names as long as the state file is there.
UpstreamsBypassProxy ==
    \A p \in Procs : pc[p] = "serving" =>
        /\ upstreams[p] # {}
        /\ Loopback \notin upstreams[p]
        /\ Careful /\ (platform = "resolved" => file # None) =>
               \A a \in DOMAIN backup[p] : own[a] \in Static => own[a] \in upstreams[p]

\* README: the original configuration is backed up to the state file, and
\* restore works after Ctrl+C or a crash; here also when run, or setup --force,
\* follows a takeover that is still in place.
SurvivesRepetition == events \subseteq {"left", "retaken"} => Revertible

\* The comment on TakeoverState: restore works even after the tool exits
\* unexpectedly, here between the first write to an adapter and SaveState.
SurvivesCrash == events \subseteq {"left", "crash"} => Revertible
=============================================================================
