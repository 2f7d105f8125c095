--------------------------- MODULE TakeoverProofs ---------------------------
(***************************************************************************)
(* With careful use of truedns the system DNS can always be put back, for  *)
(* any number of processes, adapters and servers, wherever a process dies. *)
(***************************************************************************)
EXTENDS Takeover, TLAPS

\* A process that changes adapters without a state file is alone with commands
\* that have not begun to do anything.
Exclusive ==
    \A p \in Procs : pc[p] \in {"set", "save"} =>
        /\ file = None
        /\ \A q \in Procs \ {p} : pc[q] \in {"idle", "config", "check", "load"}

\* A backup holds, of adapters that are still there, their own values.
OwnValues(b) ==
    \A a \in DOMAIN b : /\ b[a] \in Static \cup {Unset}
                        /\ own[a] \in {b[a], Gone}

Faithful == /\ file # None => OwnValues(file)
            /\ \A p \in Procs : OwnValues(backup[p])

\* A process that goes on after a takeover, or restores one, has in memory what
\* the state file says, if there still is one.
Agreement ==
    \A p \in Procs :
        pc[p] \in {"start", "serving", "restore", "clear"} /\ file # None => backup[p] = file

\* An adapter only ever has its own value or, while it is there, the proxy, or
\* nothing, where a write has failed.
Changed(a) == dns[a] # own[a]

OnlyProxy == \A a \in Adapters : Changed(a) => dns[a] \in {Loopback, Unset} /\ own[a] # Gone

\* What each process has still to do about the adapters that are changed.
Progress ==
    \A p \in Procs : \A a \in Adapters :
        /\ pc[p] = "set" /\ a \in todo[p] => ~Changed(a)
        /\ pc[p] \in {"start", "serving"} /\ Changed(a) => a \in DOMAIN backup[p]
        /\ pc[p] = "restore" /\ Changed(a) => a \in todo[p] /\ a \in DOMAIN backup[p]
        /\ pc[p] = "clear" => ~Changed(a)

Core == Exclusive /\ Faithful /\ Agreement /\ OnlyProxy /\ Progress /\ Revertible

\* A restore visits adapters of its backup; setup does not load a configuration.
Control == \A p \in Procs :
              /\ pc[p] = "restore" => todo[p] \subseteq DOMAIN backup[p]
              /\ pc[p] = "config" => cmd[p] # "setup"

Typed == TypeOK /\ Control

IInv == Typed /\ (Careful => Core)

-----------------------------------------------------------------------------
(* Types                                                                   *)

LEMMA BackupTypes ==
    \A b : b \in Backups <=> DOMAIN b \subseteq Adapters /\ b \in [DOMAIN b -> Values]
BY DEF Backups

LEMMA EmptyType == Empty \in Backups /\ DOMAIN Empty = {}
BY DEF Empty, Backups

LocalTypes ==
    /\ pc \in [Procs -> {"idle", "config", "check", "load", "set", "save", "start",
                         "serving", "restore", "clear"}]
    /\ cmd \in [Procs -> Commands]
    /\ backup \in [Procs -> Backups]
    /\ todo \in [Procs -> SUBSET Adapters]
    /\ upstreams \in [Procs -> SUBSET Servers]
    /\ events \subseteq Events
    /\ Control

LEMMA EndTypes ==
    ASSUME Typed, NEW p \in Procs, End(p), events' \subseteq Events PROVE LocalTypes'
BY EmptyType DEF Typed, TypeOK, Control, End, Goto, LocalTypes, Commands

LEMMA FoundType == platform \in Platforms => Found \in SUBSET Servers
<1>1. CASE platform = "windows"
  BY <1>1 DEF Found, RecordedServers, LiveServers, Usable
<1>2. CASE platform = "resolved"
  BY <1>2 DEF Found, Usable
<1>3. CASE platform = "resolv.conf"
  BY <1>3 DEF Found, Usable
<1> QED BY <1>1, <1>2, <1>3 DEF Platforms

LEMMA DiscoverType == platform \in Platforms => Discover \in SUBSET Servers
BY FoundType, ConstantsAssumption DEF Discover

LEMMA InitialValuesType ==
    platform \in Platforms =>
        InitialValues \subseteq [Adapters -> Static \cup {Unset, Unconfigured, Gone}]
<1>1. CASE platform = "windows"
  BY <1>1 DEF InitialValues
<1>2. CASE platform = "resolved"
  BY <1>2 DEF InitialValues
<1>3. CASE platform = "resolv.conf"
  BY <1>3 DEF InitialValues
<1> QED BY <1>1, <1>2, <1>3 DEF Platforms

LEMMA InitTypes == Init => Typed
<1> SUFFICES ASSUME Init PROVE Typed
  OBVIOUS
<1>1. dns \in [Adapters -> Static \cup {Unset, Unconfigured, Gone}]
  BY InitialValuesType DEF Init
<1>2. dns \in [Adapters -> Values] /\ own \in [Adapters -> Values \ {Loopback}]
  BY <1>1, ConstantsAssumption DEF Init, Values
<1> QED BY <1>2, EmptyType DEF Init, Typed, TypeOK, Control, Commands, Events

LEMMA BeginTypes ==
    ASSUME Typed, UNCHANGED platform, NEW p \in Procs, Begin(p) PROVE Typed'
BY DEF Typed, TypeOK, Control, Begin, Goto, Commands

LEMMA StartTakeoverTypes ==
    ASSUME Typed, UNCHANGED platform, NEW p \in Procs, StartTakeover(p) PROVE Typed'
BY DEF Typed, TypeOK, Control, StartTakeover, Goto, Remember, Events

LEMMA GiveUpTypes ==
    ASSUME Typed, UNCHANGED platform, NEW p \in Procs, GiveUp(p) PROVE Typed'
BY EndTypes DEF Typed, TypeOK, GiveUp, LocalTypes

LEMMA DeferredRestoreTypes ==
    ASSUME Typed, NEW p \in Procs, DeferredRestore(p) PROVE LocalTypes'
<1>1. CASE End(p) /\ Remember({"left"})
  BY <1>1, EndTypes DEF Remember, Events, Typed, TypeOK
<1>2. CASE /\ Goto(p, "restore")
           /\ todo' = [todo EXCEPT ![p] = DOMAIN backup[p]]
           /\ UNCHANGED <<cmd, backup, upstreams, events>>
  BY <1>2, BackupTypes DEF Typed, TypeOK, Control, LocalTypes, Goto
<1> QED BY <1>1, <1>2 DEF DeferredRestore

LEMMA SaveTypes ==
    ASSUME Typed, UNCHANGED platform, NEW p \in Procs, Save(p) PROVE Typed'
<1>1. PICK saved \in BOOLEAN : AfterSave(p, saved)
  BY DEF Save
<1>2. file' \in Backups \cup {None} /\ UNCHANGED <<dns, own>>
  BY DEF Save, Typed, TypeOK
<1>3. events' \subseteq Events
  BY <1>1 DEF AfterSave, Remember, Typed, TypeOK, Events
<1>4. LocalTypes'
  <2>1. CASE Goto(p, "start") /\ UNCHANGED <<cmd, backup, todo, upstreams>>
    BY <2>1, <1>3 DEF Goto, Typed, TypeOK, Control, LocalTypes
  <2>2. CASE End(p)
    BY <2>2, <1>3, EndTypes
  <2> QED BY <1>1, <2>1, <2>2 DEF AfterSave
<1> QED BY <1>2, <1>4 DEF Typed, TypeOK, LocalTypes

LEMMA SetHalfTypes ==
    ASSUME Typed, UNCHANGED <<platform, file, own>>, NEW p \in Procs, NEW a \in Adapters,
           SetHalf(p, a)
    PROVE  Typed'
<1>1. dns' \in [Adapters -> Values]
  BY DEF SetHalf, Typed, TypeOK, Values
<1>2. LocalTypes'
  BY EndTypes DEF SetHalf, Remember, Events, Typed, TypeOK
<1> QED BY <1>1, <1>2 DEF Typed, TypeOK, LocalTypes

LEMMA SetOneTypes ==
    ASSUME Typed, UNCHANGED platform, NEW p \in Procs, SetOne(p) PROVE Typed'
<1>1. PICK a \in todo[p] :
        \/ /\ todo' = [todo EXCEPT ![p] = @ \ {a}]
           /\ UNCHANGED <<dns, pc, cmd, backup, upstreams, events>>
        \/ /\ dns' = [dns EXCEPT ![a] = Loopback]
           /\ backup' = [backup EXCEPT ![p] =
                 [x \in DOMAIN @ \cup {a} |-> IF x = a THEN dns[a] ELSE @[x]]]
           /\ todo' = [todo EXCEPT ![p] = @ \ {a}]
           /\ Remember(IF platform = "resolv.conf" /\ dns[a] = Unset THEN {"empty"} ELSE {})
           /\ UNCHANGED <<pc, cmd, upstreams>>
        \/ /\ End(p)
           /\ Remember(IF backup[p] # Empty THEN {"half"} ELSE {})
           /\ UNCHANGED dns
        \/ SetHalf(p, a)
  BY DEF SetOne
<1>2. a \in Adapters /\ pc[p] = "set" /\ UNCHANGED <<file, own>>
  BY DEF SetOne, Typed, TypeOK
<1>3. [x \in DOMAIN backup[p] \cup {a} |-> IF x = a THEN dns[a] ELSE backup[p][x]]
        \in Backups
  BY <1>2, BackupTypes DEF Typed, TypeOK
<1>4. CASE /\ todo' = [todo EXCEPT ![p] = @ \ {a}]
           /\ UNCHANGED <<dns, pc, cmd, backup, upstreams, events>>
  BY <1>2, <1>4 DEF Typed, TypeOK, Control
<1>5. CASE /\ dns' = [dns EXCEPT ![a] = Loopback]
           /\ backup' = [backup EXCEPT ![p] =
                 [x \in DOMAIN @ \cup {a} |-> IF x = a THEN dns[a] ELSE @[x]]]
           /\ todo' = [todo EXCEPT ![p] = @ \ {a}]
           /\ Remember(IF platform = "resolv.conf" /\ dns[a] = Unset THEN {"empty"} ELSE {})
           /\ UNCHANGED <<pc, cmd, upstreams>>
  <2>1. events' \subseteq Events
    BY <1>5 DEF Remember, Events, Typed, TypeOK
  <2> QED BY <1>2, <1>3, <1>5, <2>1 DEF Typed, TypeOK, Control, Values
<1>6. CASE /\ End(p)
           /\ Remember(IF backup[p] # Empty THEN {"half"} ELSE {})
           /\ UNCHANGED dns
  BY <1>2, <1>6, EndTypes DEF Typed, TypeOK, LocalTypes, Remember, Events
<1>7. CASE SetHalf(p, a)
  BY <1>2, <1>7, SetHalfTypes
<1> QED BY <1>1, <1>4, <1>5, <1>6, <1>7

LEMMA RestoreHalfTypes ==
    ASSUME Typed, UNCHANGED <<platform, file, own>>, NEW p \in Procs, NEW a \in Adapters,
           backup[p][a] \in Values, RestoreHalf(p, a)
    PROVE  Typed'
<1>1. dns' \in [Adapters -> Values]
  BY DEF RestoreHalf, Typed, TypeOK, Values
<1>2. events' \subseteq Events
  BY DEF RestoreHalf, Remember, Events, Typed, TypeOK
<1>3. LocalTypes'
  BY <1>2, EndTypes DEF RestoreHalf
<1> QED BY <1>1, <1>3 DEF Typed, TypeOK, LocalTypes

LEMMA RestoreOneTypes ==
    ASSUME Typed, UNCHANGED platform, NEW p \in Procs, RestoreOne(p) PROVE Typed'
<1>1. PICK a \in todo[p] :
        \/ /\ todo' = [todo EXCEPT ![p] = @ \ {a}]
           /\ dns' = [dns EXCEPT ![a] = IF @ = Gone THEN Gone ELSE backup[p][a]]
           /\ UNCHANGED <<pc, cmd, backup, upstreams, events>>
        \/ End(p) /\ Remember({"left"}) /\ UNCHANGED dns
        \/ KeepOne(p, a)
        \/ RestoreHalf(p, a)
  BY DEF RestoreOne
<1>2. a \in Adapters /\ a \in DOMAIN backup[p] /\ UNCHANGED <<file, own>>
  BY DEF RestoreOne, Typed, TypeOK, Control
<1>3. backup[p][a] \in Values
  BY <1>2, BackupTypes DEF Typed, TypeOK
<1>4. CASE /\ todo' = [todo EXCEPT ![p] = @ \ {a}]
           /\ dns' = [dns EXCEPT ![a] = IF @ = Gone THEN Gone ELSE backup[p][a]]
           /\ UNCHANGED <<pc, cmd, backup, upstreams, events>>
  BY <1>2, <1>3, <1>4 DEF Typed, TypeOK, Control, Values
<1>5. CASE End(p) /\ Remember({"left"}) /\ UNCHANGED dns
  BY <1>2, <1>5, EndTypes DEF Typed, TypeOK, LocalTypes, Remember, Events
<1>6. CASE KeepOne(p, a)
  BY <1>2, <1>6 DEF KeepOne, Remember, Events, Typed, TypeOK, Control
<1>7. CASE RestoreHalf(p, a)
  BY <1>2, <1>3, <1>7, RestoreHalfTypes
<1> QED BY <1>1, <1>4, <1>5, <1>6, <1>7

LEMMA NextTypes == ASSUME Typed, [Next]_vars PROVE Typed'
<1>1. CASE UNCHANGED vars
  BY <1>1 DEF vars, locals, Typed, TypeOK, Control
<1>2. ASSUME UNCHANGED platform, NEW p \in Procs, LoadConfig(p) \/ CheckState(p) PROVE Typed'
  BY <1>2, StartTakeoverTypes, GiveUpTypes DEF LoadConfig, CheckState
<1>3. ASSUME UNCHANGED platform, NEW p \in Procs, SetDone(p) PROVE Typed'
  BY <1>3, GiveUpTypes DEF SetDone, Goto, Typed, TypeOK, Control
<1>4. ASSUME UNCHANGED platform, NEW p \in Procs, Start(p) PROVE Typed'
  <2>1. CASE /\ upstreams' = [upstreams EXCEPT ![p] = Discover]
             /\ Goto(p, "serving")
             /\ UNCHANGED <<cmd, backup, todo, events>>
    BY <1>4, <2>1, DiscoverType DEF Start, Goto, Typed, TypeOK, Control
  <2>2. CASE DeferredRestore(p)
    BY <1>4, <2>2, DeferredRestoreTypes DEF Start, Typed, TypeOK, LocalTypes
  <2> QED BY <1>4, <2>1, <2>2 DEF Start
<1>5. ASSUME UNCHANGED platform, NEW p \in Procs, Reload(p) PROVE Typed'
  BY <1>5, DiscoverType DEF Reload, Typed, TypeOK, Control
<1>6. ASSUME UNCHANGED platform, NEW p \in Procs, Stop(p) PROVE Typed'
  BY <1>6, DeferredRestoreTypes DEF Stop, Typed, TypeOK, LocalTypes
<1>7. ASSUME UNCHANGED platform, NEW p \in Procs, Load(p) PROVE Typed'
  <2>1. CASE file # None /\ ~GiveUp(p)
    <3>1. file \in Backups /\ DOMAIN file \subseteq Adapters
      BY <2>1, BackupTypes DEF Typed, TypeOK
    <3> QED BY <1>7, <2>1, <3>1 DEF Load, Goto, Typed, TypeOK, Control
  <2> QED BY <1>7, <2>1, GiveUpTypes DEF Load
<1>8. ASSUME UNCHANGED platform, NEW p \in Procs, RestoreDone(p) PROVE Typed'
  BY <1>8 DEF RestoreDone, Goto, Typed, TypeOK, Control
<1>9. ASSUME UNCHANGED platform, NEW p \in Procs, Clear(p) PROVE Typed'
  BY <1>9, EndTypes DEF Clear, Typed, TypeOK, LocalTypes
<1>10. ASSUME UNCHANGED platform, NEW p \in Procs, Die(p) PROVE Typed'
  BY <1>10, EndTypes DEF Die, Remember, Events, Typed, TypeOK, LocalTypes
<1>11. ASSUME UNCHANGED platform, NEW a \in Adapters, Configure(a) \/ Remove(a) PROVE Typed'
  BY <1>11, ConstantsAssumption DEF Configure, Remove, locals, Typed, TypeOK, Control, Values
<1> QED
  BY <1>1, <1>2, <1>3, <1>4, <1>5, <1>6, <1>7, <1>8, <1>9, <1>10, <1>11,
     BeginTypes, SetOneTypes, SaveTypes, RestoreOneTypes DEF Next

-----------------------------------------------------------------------------
(* Careful use                                                             *)

\* A process that is taking over is the only one that can record a change.
LEMMA TakingOverRecords ==
    ASSUME Core, NEW p \in Procs, pc[p] \in {"set", "save"},
           NEW a \in Adapters, Changed(a)
    PROVE  Recorded(backup[p], a)
BY DEF Core, Exclusive, Revertible, Changed

\* Otherwise the state file records every change.
LEMMA FileRecords ==
    ASSUME Core, \A p \in Procs : pc[p] \notin {"set", "save"},
           NEW a \in Adapters, Changed(a)
    PROVE  file # None /\ Recorded(file, a)
BY DEF Core, Revertible, Changed

LEMMA InitCore == Init => Core
BY ConstantsAssumption, EmptyType
   DEF Init, Core, Exclusive, Faithful, Agreement, OwnValues, OnlyProxy, Progress, Revertible, Changed

\* A process may end at any time, unless it alone knows what it has changed.
LEMMA EndCore ==
    ASSUME Typed, Core, NEW p \in Procs, End(p), UNCHANGED <<dns, file, own>>,
           pc[p] \notin {"set", "save"} \/ backup[p] = Empty
    PROVE  Core'
<1>1. /\ pc' = [pc EXCEPT ![p] = "idle"]
      /\ backup' = [backup EXCEPT ![p] = Empty]
      /\ todo' = [todo EXCEPT ![p] = {}]
  BY DEF End, Goto
<1>2. \A q \in Procs : q # p => pc'[q] = pc[q] /\ backup'[q] = backup[q] /\ todo'[q] = todo[q]
  BY <1>1 DEF Typed, TypeOK
<1>3. pc'[p] = "idle" /\ backup'[p] = Empty
  BY <1>1 DEF Typed, TypeOK
<1>4. Exclusive'
  BY <1>2, <1>3 DEF Core, Exclusive
<1>5. Faithful'
  BY <1>2, <1>3, EmptyType DEF Core, Faithful, OwnValues
<1>6. OnlyProxy' /\ Progress'
  BY <1>2, <1>3 DEF Core, OnlyProxy, Progress, Changed
<1>8. Agreement'
  BY <1>2, <1>3 DEF Core, Agreement
<1>7. Revertible'
  <2> SUFFICES ASSUME NEW a \in Adapters, Changed(a)
               PROVE  \/ file # None /\ Recorded(file, a)
                      \/ \E q \in Procs : pc'[q] \in {"set", "save"} /\ Recorded(backup'[q], a)
    BY DEF Revertible, Changed, Recorded
  <2>1. CASE file # None /\ Recorded(file, a)
    BY <2>1
  <2>2. ASSUME NEW q \in Procs, pc[q] \in {"set", "save"}, Recorded(backup[q], a)
        PROVE  pc'[q] \in {"set", "save"} /\ Recorded(backup'[q], a)
    <3>1. q # p
      BY <2>2, EmptyType DEF Recorded
    <3> QED BY <3>1, <2>2, <1>2 DEF Recorded
  <2> QED BY <2>1, <2>2 DEF Core, Revertible, Changed
<1> QED BY <1>4, <1>5, <1>6, <1>7, <1>8 DEF Core

LEMMA GiveUpCore ==
    ASSUME Typed, Core, NEW p \in Procs, GiveUp(p),
           pc[p] \notin {"set", "save"} \/ backup[p] = Empty
    PROVE  Core'
BY EndCore DEF GiveUp

\* A careful takeover begins when every adapter has its own value.
LEMMA StartTakeoverCore ==
    ASSUME Typed, Core, NEW p \in Procs, StartTakeover(p), Careful',
           pc[p] \in {"config", "check"}, cmd[p] = "setup" => file = None
    PROVE  Core'
<1>1. /\ pc' = [pc EXCEPT ![p] = "set"]
      /\ UNCHANGED <<dns, file, backup, own>>
      /\ \A q \in Procs : q # p => todo'[q] = todo[q]
  BY DEF StartTakeover, Goto, Typed, TypeOK
<1>2. /\ cmd[p] # "setup" => ~TakenOver
      /\ \A q \in Procs \ {p} : Idle(q)
  BY DEF StartTakeover, Remember, Careful
<1>3. file = None
  BY <1>2 DEF TakenOver
<1>4. \A q \in Procs : pc[q] \notin {"set", "save"}
  BY <1>2 DEF Idle
<1>5. \A a \in Adapters : ~Changed(a)
  BY <1>3, <1>4, FileRecords
<1>6. pc'[p] = "set" /\ \A q \in Procs : q # p => pc'[q] = "idle"
  BY <1>1, <1>2 DEF Idle, Typed, TypeOK
<1>7. Exclusive'
  BY <1>1, <1>3, <1>6 DEF Exclusive
<1>8. Faithful'
  BY <1>1 DEF Core, Faithful, OwnValues
<1>10. Agreement'
  BY <1>1, <1>3 DEF Agreement
<1>9. OnlyProxy' /\ Progress' /\ Revertible'
  BY <1>1, <1>5, <1>6 DEF OnlyProxy, Progress, Revertible, Changed
<1> QED BY <1>7, <1>8, <1>9, <1>10 DEF Core

\* Steps that only change what a process is about to do.
LEMMA BeginCore == ASSUME Typed, Core, NEW p \in Procs, Begin(p) PROVE Core'
<1>1. /\ pc[p] = "idle" /\ pc'[p] \in {"config", "check", "load"}
      /\ \A q \in Procs : q # p => pc'[q] = pc[q]
      /\ UNCHANGED <<dns, file, backup, todo, own>>
  BY DEF Begin, Idle, Goto, Typed, TypeOK
<1>2. Exclusive'
  BY <1>1 DEF Core, Exclusive
<1>3. Faithful' /\ OnlyProxy' /\ Progress'
  BY <1>1 DEF Core, Faithful, OwnValues, OnlyProxy, Progress, Changed
<1>5. Agreement'
  BY <1>1 DEF Core, Agreement
<1>4. Revertible'
  BY <1>1 DEF Core, Revertible, Recorded
<1> QED BY <1>2, <1>3, <1>4, <1>5 DEF Core

LEMMA SetDoneCore == ASSUME Typed, Core, NEW p \in Procs, SetDone(p) PROVE Core'
<1>1. CASE backup[p] = Empty /\ GiveUp(p)
  BY <1>1, GiveUpCore
<1>2. CASE Goto(p, "save") /\ UNCHANGED <<dns, file, cmd, backup, todo, upstreams, own, events>>
  <2>1. /\ pc[p] = "set" /\ pc'[p] = "save"
        /\ \A q \in Procs : q # p => pc'[q] = pc[q]
        /\ UNCHANGED <<dns, file, backup, todo, own>>
    BY <1>2 DEF SetDone, Goto, Typed, TypeOK
  <2>2. Exclusive'
    BY <2>1 DEF Core, Exclusive
  <2>3. Faithful' /\ OnlyProxy' /\ Progress'
    BY <2>1 DEF Core, Faithful, OwnValues, OnlyProxy, Progress, Changed
  <2>5. Agreement'
    BY <2>1 DEF Core, Agreement
  <2>4. Revertible'
    BY <2>1 DEF Core, Revertible, Recorded
  <2> QED BY <2>2, <2>3, <2>4, <2>5 DEF Core
<1> QED BY <1>1, <1>2 DEF SetDone

LEMMA ReloadCore == ASSUME Typed, Core, NEW p \in Procs, Reload(p) PROVE Core'
<1>1. UNCHANGED <<dns, file, pc, backup, todo, own>>
  BY DEF Reload
<1> QED BY <1>1 DEF Core, Exclusive, Faithful, Agreement, OwnValues, OnlyProxy, Progress, Revertible,
                    Changed, Recorded

\* Taking over an adapter records its own value first.
LEMMA SetOneCore ==
    ASSUME Typed, Core, NEW p \in Procs, SetOne(p), Careful' PROVE Core'
<1>1. pc[p] = "set" /\ UNCHANGED <<file, own>>
  BY DEF SetOne
<1>2. PICK a \in todo[p] :
        \/ /\ todo' = [todo EXCEPT ![p] = @ \ {a}]
           /\ UNCHANGED <<dns, pc, cmd, backup, upstreams, events>>
        \/ /\ dns[a] \notin {Gone, Unconfigured}
           /\ dns' = [dns EXCEPT ![a] = Loopback]
           /\ backup' = [backup EXCEPT ![p] =
                 [x \in DOMAIN @ \cup {a} |-> IF x = a THEN dns[a] ELSE @[x]]]
           /\ todo' = [todo EXCEPT ![p] = @ \ {a}]
           /\ UNCHANGED <<pc, cmd, upstreams>>
        \/ /\ End(p)
           /\ Remember(IF backup[p] # Empty THEN {"half"} ELSE {})
           /\ UNCHANGED dns
        \/ SetHalf(p, a)
  BY DEF SetOne
<1>3. CASE /\ todo' = [todo EXCEPT ![p] = @ \ {a}]
           /\ UNCHANGED <<dns, pc, cmd, backup, upstreams, events>>
  <2>1. todo'[p] \subseteq todo[p] /\ \A q \in Procs : q # p => todo'[q] = todo[q]
    BY <1>3 DEF Typed, TypeOK
  <2>2. Progress'
    BY <1>1, <1>3, <2>1 DEF Core, Progress, Changed
  <2> QED BY <1>1, <1>3, <2>2 DEF Core, Exclusive, Faithful, Agreement, OwnValues, OnlyProxy, Revertible,
                                  Changed, Recorded
<1>4. CASE /\ End(p)
           /\ Remember(IF backup[p] # Empty THEN {"half"} ELSE {})
           /\ UNCHANGED dns
  <2>1. backup[p] = Empty
    BY <1>4 DEF Remember, Careful
  <2> QED BY <1>1, <1>4, <2>1, EndCore
<1>5. CASE /\ dns[a] \notin {Gone, Unconfigured}
           /\ dns' = [dns EXCEPT ![a] = Loopback]
           /\ backup' = [backup EXCEPT ![p] =
                 [x \in DOMAIN @ \cup {a} |-> IF x = a THEN dns[a] ELSE @[x]]]
           /\ todo' = [todo EXCEPT ![p] = @ \ {a}]
           /\ UNCHANGED <<pc, cmd, upstreams>>
  <2>1. a \in Adapters /\ ~Changed(a)
    BY <1>1 DEF Core, Progress, Typed, TypeOK
  <2>2. own[a] \in Static \cup {Unset} /\ own[a] # Gone
    BY <1>5, <2>1 DEF Changed, Typed, TypeOK, Values
  <2>3. /\ dns'[a] = Loopback /\ \A x \in Adapters : x # a => dns'[x] = dns[x]
        /\ DOMAIN backup'[p] = DOMAIN backup[p] \cup {a}
        /\ backup'[p][a] = own[a]
        /\ \A x \in DOMAIN backup[p] : x # a => backup'[p][x] = backup[p][x]
        /\ todo'[p] = todo[p] \ {a}
        /\ \A q \in Procs : q # p => backup'[q] = backup[q] /\ todo'[q] = todo[q]
    BY <1>5, <2>1 DEF Changed, Typed, TypeOK
  <2>4. Exclusive'
    BY <1>1, <1>5 DEF Core, Exclusive
  <2>5. Faithful'
    BY <1>1, <2>2, <2>3 DEF Core, Faithful, OwnValues
  <2>9. Agreement'
    BY <1>1, <1>5 DEF Core, Exclusive, Agreement
  <2>6. OnlyProxy'
    BY <1>1, <2>2, <2>3 DEF Core, OnlyProxy, Changed
  <2>7. Progress'
    <3>1. \A q \in Procs : q # p => pc'[q] \in {"idle", "config", "check", "load"}
      BY <1>1, <1>5 DEF Core, Exclusive
    <3>2. pc'[p] = "set" /\ \A x \in todo'[p] : x \in Adapters => ~Changed(x)'
      BY <1>1, <1>5, <2>3 DEF Core, Progress, Changed
    <3> QED BY <3>1, <3>2 DEF Progress
  <2>8. Revertible'
    <3> SUFFICES ASSUME NEW x \in Adapters, dns'[x] # own'[x]
                 PROVE  pc'[p] \in {"set", "save"} /\ Recorded(backup[p], x)'
      BY DEF Revertible
    <3>1. CASE x = a
      BY <1>1, <1>5, <2>3, <3>1 DEF Recorded
    <3>2. CASE x # a
      <4>1. Recorded(backup[p], x)
        BY <1>1, <2>3, <3>2, TakingOverRecords DEF Changed
      <4> QED BY <1>1, <1>5, <2>3, <3>2, <4>1 DEF Recorded
    <3> QED BY <3>1, <3>2
  <2> QED BY <2>4, <2>5, <2>6, <2>7, <2>8, <2>9 DEF Core
<1>6. ~SetHalf(p, a)
  BY DEF SetHalf, Remember, Careful
<1> QED BY <1>2, <1>3, <1>4, <1>5, <1>6

\* Once the state file holds the takeover, so does every change.
LEMMA SaveCore == ASSUME Typed, Core, NEW p \in Procs, Save(p), Careful' PROVE Core'
<1>1. file' = backup[p] /\ AfterSave(p, TRUE)
  <2>1. AfterSave(p, FALSE) => "unsaved" \in events'
    BY DEF AfterSave, Remember
  <2>2. "unsaved" \notin events'
    BY DEF Careful
  <2> QED BY <2>1, <2>2 DEF Save
<1>2. pc[p] = "save" /\ UNCHANGED <<dns, own>>
  BY DEF Save
<1>3. /\ pc'[p] \in {"start", "idle"}
      /\ pc'[p] = "start" => backup'[p] = backup[p]
      /\ pc'[p] = "idle" => backup'[p] = Empty
      /\ \A q \in Procs : q # p => pc'[q] = pc[q] /\ backup'[q] = backup[q]
    BY <1>1 DEF AfterSave, Goto, End, Typed, TypeOK
<1>4. \A q \in Procs : q # p => pc[q] \in {"idle", "config", "check", "load"}
  BY <1>2 DEF Core, Exclusive
<1>5. \A a \in Adapters : Changed(a) => Recorded(backup[p], a)
  BY <1>2, TakingOverRecords
<1>6. file' # None
  BY <1>1, ConstantsAssumption DEF Typed, TypeOK
<1>7. Exclusive'
  BY <1>3, <1>4 DEF Exclusive
<1>8. Faithful'
  BY <1>1, <1>2, <1>3, EmptyType DEF Core, Faithful, OwnValues
<1>9. OnlyProxy'
  BY <1>2 DEF Core, OnlyProxy, Changed
<1>10. Progress'
  BY <1>2, <1>3, <1>4, <1>5 DEF Progress, Changed, Recorded
<1>12. Agreement'
  BY <1>1, <1>3, <1>4 DEF Agreement
<1>11. Revertible'
  BY <1>1, <1>2, <1>5, <1>6 DEF Revertible, Changed, Recorded
<1> QED BY <1>7, <1>8, <1>9, <1>10, <1>11, <1>12 DEF Core

LEMMA DeferredRestoreCore ==
    ASSUME Typed, Core, NEW p \in Procs, DeferredRestore(p), UNCHANGED <<dns, file, own>>,
           pc[p] \in {"start", "serving"}
    PROVE  Core'
<1>1. CASE End(p)
  BY <1>1, EndCore
<1>2. CASE /\ Goto(p, "restore")
           /\ todo' = [todo EXCEPT ![p] = DOMAIN backup[p]]
           /\ UNCHANGED <<cmd, backup, upstreams, events>>
  <2>1. /\ pc'[p] = "restore" /\ todo'[p] = DOMAIN backup[p]
        /\ \A q \in Procs : q # p => pc'[q] = pc[q] /\ todo'[q] = todo[q]
    BY <1>2 DEF Goto, Typed, TypeOK
  <2>2. Exclusive'
    BY <2>1 DEF Core, Exclusive
  <2>3. Faithful' /\ OnlyProxy' /\ Progress'
    BY <1>2, <2>1 DEF Core, Faithful, OwnValues, OnlyProxy, Progress, Changed
  <2>5. Agreement'
    BY <1>2, <2>1 DEF Core, Agreement
  <2>4. Revertible'
    BY <1>2, <2>1 DEF Core, Revertible, Recorded
  <2> QED BY <2>2, <2>3, <2>4, <2>5 DEF Core
<1> QED BY <1>1, <1>2 DEF DeferredRestore

LEMMA StartCore == ASSUME Typed, Core, NEW p \in Procs, Start(p) PROVE Core'
<1>1. CASE DeferredRestore(p)
  BY <1>1, DeferredRestoreCore DEF Start
<1>2. CASE Goto(p, "serving") /\ UNCHANGED <<cmd, backup, todo, events>>
  <2>1. /\ pc[p] = "start" /\ pc'[p] = "serving"
        /\ \A q \in Procs : q # p => pc'[q] = pc[q]
        /\ UNCHANGED <<dns, file, backup, todo, own>>
    BY <1>2 DEF Start, Goto, Typed, TypeOK
  <2>2. Exclusive'
    BY <2>1 DEF Core, Exclusive
  <2>3. Faithful' /\ OnlyProxy' /\ Progress'
    BY <2>1 DEF Core, Faithful, OwnValues, OnlyProxy, Progress, Changed
  <2>5. Agreement'
    BY <2>1 DEF Core, Agreement
  <2>4. Revertible'
    BY <2>1 DEF Core, Revertible, Recorded
  <2> QED BY <2>2, <2>3, <2>4, <2>5 DEF Core
<1> QED BY <1>1, <1>2 DEF Start

\* What restore reads covers every change: nobody is taking over, or there would
\* be no file.
LEMMA LoadCore == ASSUME Typed, Core, NEW p \in Procs, Load(p) PROVE Core'
<1>1. CASE GiveUp(p)
  BY <1>1, GiveUpCore DEF Load
<1>2. CASE /\ file # None
           /\ backup' = [backup EXCEPT ![p] = file]
           /\ todo' = [todo EXCEPT ![p] = DOMAIN file]
           /\ Goto(p, "restore")
           /\ UNCHANGED <<dns, file, cmd, upstreams, own, events>>
  <2>1. /\ pc[p] = "load" /\ pc'[p] = "restore"
        /\ backup'[p] = file /\ todo'[p] = DOMAIN file
        /\ \A q \in Procs : q # p => /\ pc'[q] = pc[q]
                                     /\ backup'[q] = backup[q]
                                     /\ todo'[q] = todo[q]
    BY <1>2 DEF Load, Goto, Typed, TypeOK
  <2>2. \A q \in Procs : pc[q] \notin {"set", "save"}
    BY <1>2 DEF Core, Exclusive
  <2>3. \A a \in Adapters : Changed(a) => Recorded(file, a)
    BY <2>2, FileRecords
  <2>4. Exclusive'
    BY <2>1, <2>2 DEF Exclusive
  <2>5. Faithful' /\ OnlyProxy'
    BY <1>2, <2>1 DEF Core, Faithful, OwnValues, OnlyProxy, Changed
  <2>6. Progress'
    BY <1>2, <2>1, <2>3 DEF Core, Progress, Changed, Recorded
  <2>8. Agreement'
    BY <1>2, <2>1 DEF Core, Agreement
  <2>7. Revertible'
    BY <1>2, <2>3 DEF Revertible, Changed, Recorded
  <2> QED BY <2>4, <2>5, <2>6, <2>7, <2>8 DEF Core
<1> QED BY <1>1, <1>2 DEF Load

\* Half a file is no harm as long as the state file is there and no other process
\* believes that the adapter was restored.
LEMMA RestoreHalfCore ==
    ASSUME Typed, Core, NEW p \in Procs, pc[p] = "restore", NEW a \in todo[p],
           dns[a] # Gone, RestoreHalf(p, a), UNCHANGED <<file, own>>, Careful'
    PROVE  Core'
<1>1. /\ a \in Adapters /\ a \in DOMAIN backup[p]
  BY DEF Typed, TypeOK, Control
<1>2. /\ file # None
      /\ \A q \in Procs \ {p} : pc[q] \notin {"restore", "clear"}
  BY DEF RestoreHalf, Remember, Careful
<1>3. /\ pc'[p] = "idle" /\ backup'[p] = Empty
      /\ \A q \in Procs : q # p => pc'[q] = pc[q] /\ backup'[q] = backup[q]
  BY DEF RestoreHalf, End, Goto, Typed, TypeOK
<1>4. backup[p] = file
  BY <1>2 DEF Core, Agreement
<1>5. /\ dns'[a] \in {backup[p][a], Unset}
      /\ \A x \in Adapters : x # a => dns'[x] = dns[x]
  BY <1>1 DEF RestoreHalf, Typed, TypeOK
<1>6. own[a] = backup[p][a] /\ own[a] # Gone
  <2>1. own[a] \in {backup[p][a], Gone}
    BY <1>1 DEF Core, Faithful, OwnValues
  <2>2. own[a] = Gone => dns[a] = Gone
    BY <1>1 DEF Core, OnlyProxy, Changed
  <2> QED BY <2>1, <2>2
<1>7. \A q \in Procs : pc[q] \notin {"set", "save"}
  BY <1>2 DEF Core, Exclusive
<1>8. \A x \in Adapters : Changed(x) => Recorded(file, x)
  BY <1>7, FileRecords
<1>9. Exclusive'
  BY <1>3, <1>7 DEF Exclusive
<1>10. Faithful'
  BY <1>3, EmptyType DEF Core, Faithful, OwnValues
<1>11. Agreement'
  BY <1>3 DEF Core, Agreement
<1>12. OnlyProxy'
  BY <1>5, <1>6 DEF Core, OnlyProxy, Changed
<1>13. Progress'
  <2> SUFFICES ASSUME NEW q \in Procs, NEW x \in Adapters,
                      pc'[q] \in {"start", "serving"}, Changed(x)'
               PROVE  x \in DOMAIN backup'[q]
    BY <1>2, <1>3, <1>7 DEF Progress
  <2>1. q # p /\ backup'[q] = file
    BY <1>2, <1>3 DEF Core, Agreement
  <2>2. x # a => Changed(x)
    BY <1>5 DEF Changed
  <2> QED BY <1>1, <1>4, <1>8, <2>1, <2>2 DEF Recorded
<1>14. Revertible'
  <2> SUFFICES ASSUME NEW x \in Adapters, Changed(x)' PROVE file # None /\ Recorded(file, x)
    BY DEF Revertible, Changed, Recorded
  <2>1. CASE x = a
    BY <1>1, <1>2, <1>4, <1>6, <2>1 DEF Recorded
  <2>2. CASE x # a
    BY <1>2, <1>5, <1>8, <2>2 DEF Changed
  <2> QED BY <2>1, <2>2
<1> QED BY <1>9, <1>10, <1>11, <1>12, <1>13, <1>14 DEF Core

\* A restore gives an adapter its own value, also while another one is restoring.
LEMMA RestoreOneCore ==
    ASSUME Typed, Core, NEW p \in Procs, RestoreOne(p), Careful' PROVE Core'
<1>1. pc[p] = "restore" /\ UNCHANGED <<file, own>>
  BY DEF RestoreOne
<1>2. PICK a \in todo[p] :
        \/ /\ todo' = [todo EXCEPT ![p] = @ \ {a}]
           /\ dns' = [dns EXCEPT ![a] = IF @ = Gone THEN Gone ELSE backup[p][a]]
           /\ UNCHANGED <<pc, cmd, backup, upstreams, events>>
        \/ End(p) /\ UNCHANGED dns
        \/ KeepOne(p, a)
        \/ dns[a] # Gone /\ RestoreHalf(p, a)
  BY DEF RestoreOne
<1>3. CASE End(p) /\ UNCHANGED dns
  BY <1>1, <1>3, EndCore
<1>4. CASE /\ todo' = [todo EXCEPT ![p] = @ \ {a}]
           /\ dns' = [dns EXCEPT ![a] = IF @ = Gone THEN Gone ELSE backup[p][a]]
           /\ UNCHANGED <<pc, cmd, backup, upstreams, events>>
  <2>1. a \in Adapters /\ a \in DOMAIN backup[p]
    BY <1>1 DEF Typed, TypeOK, Control
  <2>2. \A x \in Adapters : x # a => dns'[x] = dns[x]
    BY <1>4 DEF Typed, TypeOK
  <2>3. ~Changed(a)'
    <3>1. own[a] \in {backup[p][a], Gone} /\ (own[a] = Gone => dns[a] = Gone)
      BY <2>1 DEF Core, Faithful, OwnValues, OnlyProxy, Changed
    <3>2. dns[a] = Gone => own[a] = Gone
      BY <2>1, ConstantsAssumption DEF Core, OnlyProxy, Changed
    <3>3. dns'[a] = IF dns[a] = Gone THEN Gone ELSE backup[p][a]
      BY <1>4, <2>1 DEF Typed, TypeOK
    <3> QED BY <1>1, <3>1, <3>2, <3>3 DEF Changed
  <2>4. \A x \in Adapters : Changed(x)' => Changed(x) /\ x # a /\ dns'[x] = dns[x]
    BY <1>1, <2>2, <2>3 DEF Changed
  <2>5. /\ todo'[p] = todo[p] \ {a}
        /\ \A q \in Procs : q # p => todo'[q] = todo[q]
    BY <1>4 DEF Typed, TypeOK
  <2>6. Exclusive' /\ Faithful'
    BY <1>1, <1>4 DEF Core, Exclusive, Faithful, OwnValues
  <2>10. Agreement'
    BY <1>1, <1>4 DEF Core, Agreement
  <2>7. OnlyProxy'
    BY <1>1, <2>4 DEF Core, OnlyProxy
  <2>8. Progress'
    BY <1>1, <1>4, <2>4, <2>5 DEF Core, Progress
  <2>9. Revertible'
    BY <1>1, <1>4, <2>4 DEF Core, Revertible, Changed, Recorded
  <2> QED BY <2>6, <2>7, <2>8, <2>9, <2>10 DEF Core
<1>5. ~KeepOne(p, a)
  BY DEF KeepOne, Remember, Careful
<1>6. CASE dns[a] # Gone /\ RestoreHalf(p, a)
  BY <1>1, <1>6, RestoreHalfCore
<1> QED BY <1>2, <1>3, <1>4, <1>5, <1>6

LEMMA RestoreDoneCore == ASSUME Typed, Core, NEW p \in Procs, RestoreDone(p) PROVE Core'
<1>1. /\ pc[p] = "restore" /\ todo[p] = {} /\ pc'[p] = "clear"
      /\ \A q \in Procs : q # p => pc'[q] = pc[q]
      /\ UNCHANGED <<dns, file, backup, todo, own>>
  BY DEF RestoreDone, Goto, Typed, TypeOK
<1>2. Exclusive'
  BY <1>1 DEF Core, Exclusive
<1>3. Faithful' /\ OnlyProxy' /\ Progress'
  BY <1>1 DEF Core, Faithful, OwnValues, OnlyProxy, Progress, Changed
<1>5. Agreement'
  BY <1>1 DEF Core, Agreement
<1>4. Revertible'
  BY <1>1 DEF Core, Revertible, Recorded
<1> QED BY <1>2, <1>3, <1>4, <1>5 DEF Core

\* When the state file is removed there is nothing left to undo.
LEMMA ClearCore == ASSUME Typed, Core, NEW p \in Procs, Clear(p) PROVE Core'
<1>1. /\ pc[p] = "clear" /\ End(p) /\ UNCHANGED <<dns, own>>
      /\ file' = None \/ UNCHANGED file
  BY DEF Clear
<1>2. CASE UNCHANGED file
  BY <1>1, <1>2, EndCore
<1>3. CASE file' = None
  <2>1. \A a \in Adapters : ~Changed(a)
    BY <1>1 DEF Core, Progress
  <2>2. /\ pc'[p] = "idle" /\ backup'[p] = Empty
        /\ \A q \in Procs : q # p => pc'[q] = pc[q] /\ backup'[q] = backup[q] /\ todo'[q] = todo[q]
    BY <1>1 DEF End, Goto, Typed, TypeOK
  <2>3. Exclusive'
    BY <1>3, <2>2 DEF Core, Exclusive
  <2>4. Faithful'
    BY <1>1, <1>3, <2>2, EmptyType DEF Core, Faithful, OwnValues
  <2>6. Agreement'
    BY <1>3 DEF Agreement
  <2>5. OnlyProxy' /\ Progress' /\ Revertible'
    BY <1>1, <2>1, <2>2 DEF Core, OnlyProxy, Progress, Revertible, Changed
  <2> QED BY <2>3, <2>4, <2>5, <2>6 DEF Core
<1> QED BY <1>1, <1>2, <1>3

LEMMA DieCore == ASSUME Typed, Core, NEW p \in Procs, Die(p), Careful' PROVE Core'
<1>1. ~(pc[p] \in {"set", "save"} /\ backup[p] # Empty)
  BY DEF Die, Remember, Careful
<1> QED BY <1>1, EndCore DEF Die

LEMMA ConfigureCore == ASSUME Typed, Core, NEW a \in Adapters, Configure(a) PROVE Core'
<1>1. /\ dns[a] = Unconfigured /\ dns'[a] = Unset /\ own'[a] = Unset
      /\ \A x \in Adapters : x # a => dns'[x] = dns[x] /\ own'[x] = own[x]
      /\ UNCHANGED <<file, pc, backup, todo>>
  BY DEF Configure, locals, Typed, TypeOK
<1>2. own[a] = Unconfigured
  BY <1>1, ConstantsAssumption DEF Core, OnlyProxy, Changed
<1>3. \A x \in Adapters : Changed(x)' => Changed(x) /\ x # a
  BY <1>1 DEF Changed
<1>4. ASSUME NEW b \in Backups, OwnValues(b) PROVE OwnValues(b)' /\ a \notin DOMAIN b
  <2>1. DOMAIN b \subseteq Adapters
    BY BackupTypes
  <2>2. a \notin DOMAIN b
    BY <1>2, <1>4, ConstantsAssumption DEF OwnValues
  <2> QED BY <1>1, <1>4, <2>1, <2>2 DEF OwnValues
<1>5. Faithful'
  BY <1>1, <1>4 DEF Core, Faithful, Typed, TypeOK
<1>6. Exclusive' /\ Agreement' /\ OnlyProxy' /\ Progress'
  BY <1>1, <1>3 DEF Core, Exclusive, Agreement, OnlyProxy, Progress
<1>7. Revertible'
  BY <1>1, <1>3 DEF Core, Revertible, Changed, Recorded
<1> QED BY <1>5, <1>6, <1>7 DEF Core

LEMMA RemoveCore == ASSUME Typed, Core, NEW a \in Adapters, Remove(a) PROVE Core'
<1>1. /\ dns'[a] = Gone /\ own'[a] = Gone
      /\ \A x \in Adapters : x # a => dns'[x] = dns[x] /\ own'[x] = own[x]
      /\ UNCHANGED <<file, pc, backup, todo>>
  BY DEF Remove, locals, Typed, TypeOK
<1>2. \A x \in Adapters : Changed(x)' => Changed(x) /\ x # a
  BY <1>1 DEF Changed
<1>3. ASSUME NEW b \in Backups, OwnValues(b) PROVE OwnValues(b)'
  <2>1. DOMAIN b \subseteq Adapters
    BY BackupTypes
  <2> QED BY <1>1, <1>3, <2>1 DEF OwnValues
<1>4. Faithful'
  BY <1>1, <1>3 DEF Core, Faithful, Typed, TypeOK
<1>5. Exclusive' /\ Agreement' /\ OnlyProxy' /\ Progress'
  BY <1>1, <1>2 DEF Core, Exclusive, Agreement, OnlyProxy, Progress
<1>6. Revertible'
  BY <1>1, <1>2 DEF Core, Revertible, Changed, Recorded
<1> QED BY <1>4, <1>5, <1>6 DEF Core

\* Events are never forgotten.
LEMMA EventsStay == ASSUME [Next]_vars PROVE events \subseteq events'
<1>1. ASSUME NEW p \in Procs, Begin(p) \/ LoadConfig(p) \/ CheckState(p) \/ SetDone(p)
      PROVE  events \subseteq events'
  BY <1>1 DEF Begin, LoadConfig, CheckState, SetDone, StartTakeover, GiveUp, Remember
<1>2. ASSUME NEW p \in Procs, SetOne(p) \/ RestoreOne(p)
      PROVE  events \subseteq events'
  BY <1>2 DEF SetOne, SetHalf, RestoreOne, KeepOne, RestoreHalf, Remember
<1>3. ASSUME NEW p \in Procs, Save(p) \/ Start(p) \/ Stop(p)
      PROVE  events \subseteq events'
  BY <1>3 DEF Save, AfterSave, Start, Stop, DeferredRestore, Remember
<1>4. ASSUME NEW p \in Procs, Reload(p) \/ Load(p) \/ RestoreDone(p) \/ Clear(p) \/ Die(p)
      PROVE  events \subseteq events'
  BY <1>4 DEF Reload, Load, RestoreDone, Clear, Die, GiveUp, Remember
<1>5. ASSUME NEW a \in Adapters, Configure(a) \/ Remove(a)
      PROVE  events \subseteq events'
  BY <1>5 DEF Configure, Remove
<1>6. CASE UNCHANGED vars
  BY <1>6 DEF vars
<1> QED BY <1>1, <1>2, <1>3, <1>4, <1>5, <1>6 DEF Next

LEMMA NextCore == ASSUME Typed, Core, [Next]_vars, Careful' PROVE Core'
<1>1. CASE UNCHANGED vars
  BY <1>1 DEF vars, locals, Core, Exclusive, Faithful, Agreement, OwnValues, OnlyProxy, Progress,
              Revertible, Changed, Recorded
<1>2. ASSUME NEW p \in Procs, LoadConfig(p) PROVE Core'
  <2>1. pc[p] = "config" /\ cmd[p] # "setup" /\ (StartTakeover(p) \/ GiveUp(p))
    BY <1>2 DEF LoadConfig, Typed, Control
  <2> QED BY <2>1, GiveUpCore, StartTakeoverCore
<1>3. ASSUME NEW p \in Procs, CheckState(p) PROVE Core'
  <2>1. /\ pc[p] = "check"
        /\ \/ StartTakeover(p) /\ (cmd[p] = "setup" => file = None)
           \/ GiveUp(p)
    BY <1>3 DEF CheckState
  <2> QED BY <2>1, GiveUpCore, StartTakeoverCore
<1>4. ASSUME NEW p \in Procs, Stop(p) PROVE Core'
  BY <1>4, DeferredRestoreCore DEF Stop
<1> QED
  BY <1>1, <1>2, <1>3, <1>4, BeginCore, SetOneCore, SetDoneCore, SaveCore, StartCore,
     ReloadCore, LoadCore, RestoreOneCore, RestoreDoneCore, ClearCore, DieCore,
     ConfigureCore, RemoveCore
  DEF Next

-----------------------------------------------------------------------------
(* A run that is left to finish                                            *)

\* Nothing happened but that a state file could not be written.
Smooth == events \subseteq {"unsaved"}

\* What p has in memory and will still put back.
Holds(p, a) == /\ a \in DOMAIN backup[p]
               /\ \/ pc[p] \in {"set", "save", "start", "serving"}
                  \/ pc[p] = "restore" /\ a \in todo[p]

Held == \A a \in Adapters : Changed(a) => \E p \in Procs : Holds(p, a)

Untouched == \A p \in Procs : \A a \in Adapters :
                 pc[p] = "set" /\ a \in todo[p] => ~Changed(a)

Safe == Exclusive /\ Faithful /\ OnlyProxy /\ Untouched /\ Held

LEMMA InitSafe == Init => Safe
BY ConstantsAssumption, EmptyType
   DEF Init, Safe, Exclusive, Faithful, OwnValues, OnlyProxy, Untouched, Held, Changed

\* A step of one process that changes no adapter and keeps hold of what it held.
LEMMA LocalStepSafe ==
    ASSUME Typed, Safe, NEW p \in Procs, UNCHANGED <<dns, own>>,
           \A q \in Procs : q # p => pc'[q] = pc[q] /\ backup'[q] = backup[q] /\ todo'[q] = todo[q],
           OwnValues(backup'[p]),
           \/ file' \in {file, None}
           \/ file' = backup[p] /\ pc[p] = "save" /\ pc'[p] \notin {"set", "save"},
           pc'[p] \in {"set", "save"} => pc[p] \in {"set", "save"},
           pc'[p] \in {"idle", "config", "check", "load"} \/ file # None
               \/ pc[p] \in {"set", "save", "start", "serving", "restore"},
           pc'[p] = "set" => pc[p] = "set" /\ todo'[p] \subseteq todo[p],
           \A a \in Adapters : Changed(a) /\ Holds(p, a) => Holds(p, a)'
    PROVE  Safe'
<1>1. Exclusive'
  BY DEF Safe, Exclusive
<1>2. Faithful'
  BY DEF Safe, Faithful, OwnValues
<1>3. OnlyProxy' /\ Untouched'
  BY DEF Safe, OnlyProxy, Untouched, Changed
<1>4. Held'
  <2> SUFFICES ASSUME NEW a \in Adapters, Changed(a) PROVE \E q \in Procs : Holds(q, a)'
    BY DEF Held, Changed
  <2>1. PICK q \in Procs : Holds(q, a)
    BY DEF Safe, Held
  <2>2. Holds(q, a)'
    <3>1. CASE q = p
      BY <2>1, <3>1
    <3>2. CASE q # p
      BY <2>1, <3>2 DEF Holds
    <3> QED BY <3>1, <3>2
  <2> QED BY <2>2
<1> QED BY <1>1, <1>2, <1>3, <1>4 DEF Safe

LEMMA EndSafe ==
    ASSUME Typed, Safe, NEW p \in Procs, End(p), UNCHANGED <<dns, own>>,
           file' \in {file, None},
           \A a \in Adapters : Changed(a) => ~Holds(p, a)
    PROVE  Safe'
<1>1. /\ pc'[p] = "idle" /\ backup'[p] = Empty
      /\ \A q \in Procs : q # p => pc'[q] = pc[q] /\ backup'[q] = backup[q] /\ todo'[q] = todo[q]
  BY DEF End, Goto, Typed, TypeOK
<1>2. OwnValues(backup'[p])
  BY <1>1, EmptyType DEF OwnValues
<1> QED BY <1>1, <1>2, LocalStepSafe

\* A process that has changed nothing gives up.
LEMMA GiveUpSafe ==
    ASSUME Typed, Safe, NEW p \in Procs, GiveUp(p),
           pc[p] \in {"config", "check", "load"} \/ backup[p] = Empty
    PROVE  Safe'
<1>1. \A a \in Adapters : ~Holds(p, a)
  BY EmptyType DEF Holds
<1> QED BY <1>1, EndSafe DEF GiveUp

LEMMA StartTakeoverSafe ==
    ASSUME Typed, Safe, NEW p \in Procs, StartTakeover(p), Smooth',
           pc[p] \in {"config", "check"}, cmd[p] = "setup" => file = None
    PROVE  Safe'
<1>1. /\ pc' = [pc EXCEPT ![p] = "set"]
      /\ UNCHANGED <<dns, file, backup, own>>
      /\ \A q \in Procs : q # p => todo'[q] = todo[q]
  BY DEF StartTakeover, Goto, Typed, TypeOK
<1>2. /\ cmd[p] # "setup" => ~TakenOver
      /\ \A q \in Procs \ {p} : Idle(q)
  BY DEF StartTakeover, Remember, Smooth
<1>3. file = None
  BY <1>2 DEF TakenOver
<1>4. \A a \in Adapters : ~Changed(a)
  BY <1>2 DEF Safe, Held, Holds, Idle
<1>5. pc'[p] = "set" /\ \A q \in Procs : q # p => pc'[q] = "idle"
  BY <1>1, <1>2 DEF Idle, Typed, TypeOK
<1>6. Exclusive'
  BY <1>1, <1>3, <1>5 DEF Exclusive
<1>7. Faithful'
  BY <1>1 DEF Safe, Faithful, OwnValues
<1>8. OnlyProxy' /\ Untouched' /\ Held'
  BY <1>1, <1>4 DEF OnlyProxy, Untouched, Held, Changed
<1> QED BY <1>6, <1>7, <1>8 DEF Safe

LEMMA SetOneSafe ==
    ASSUME Typed, Safe, NEW p \in Procs, SetOne(p), Smooth' PROVE Safe'
<1>1. pc[p] = "set" /\ UNCHANGED <<file, own>>
  BY DEF SetOne
<1>2. PICK a \in todo[p] :
        \/ /\ todo' = [todo EXCEPT ![p] = @ \ {a}]
           /\ UNCHANGED <<dns, pc, cmd, backup, upstreams, events>>
        \/ /\ dns[a] \notin {Gone, Unconfigured}
           /\ dns' = [dns EXCEPT ![a] = Loopback]
           /\ backup' = [backup EXCEPT ![p] =
                 [x \in DOMAIN @ \cup {a} |-> IF x = a THEN dns[a] ELSE @[x]]]
           /\ todo' = [todo EXCEPT ![p] = @ \ {a}]
           /\ UNCHANGED <<pc, cmd, upstreams>>
        \/ /\ End(p)
           /\ Remember(IF backup[p] # Empty THEN {"half"} ELSE {})
           /\ UNCHANGED dns
        \/ SetHalf(p, a)
  BY DEF SetOne
<1>3. CASE /\ todo' = [todo EXCEPT ![p] = @ \ {a}]
           /\ UNCHANGED <<dns, pc, cmd, backup, upstreams, events>>
  <2>1. todo'[p] \subseteq todo[p] /\ \A q \in Procs : q # p => todo'[q] = todo[q]
    BY <1>3 DEF Typed, TypeOK
  <2>2. OwnValues(backup'[p])
    BY <1>3 DEF Safe, Faithful
  <2>3. \A x \in Adapters : Holds(p, x) => Holds(p, x)'
    BY <1>1, <1>3 DEF Holds
  <2> QED BY <1>1, <1>3, <2>1, <2>2, <2>3, LocalStepSafe
<1>4. CASE /\ End(p)
           /\ Remember(IF backup[p] # Empty THEN {"half"} ELSE {})
           /\ UNCHANGED dns
  <2>1. backup[p] = Empty
    BY <1>4 DEF Remember, Smooth
  <2>2. \A x \in Adapters : ~Holds(p, x)
    BY <2>1, EmptyType DEF Holds
  <2> QED BY <1>1, <1>4, <2>2, EndSafe
<1>5. CASE /\ dns[a] \notin {Gone, Unconfigured}
           /\ dns' = [dns EXCEPT ![a] = Loopback]
           /\ backup' = [backup EXCEPT ![p] =
                 [x \in DOMAIN @ \cup {a} |-> IF x = a THEN dns[a] ELSE @[x]]]
           /\ todo' = [todo EXCEPT ![p] = @ \ {a}]
           /\ UNCHANGED <<pc, cmd, upstreams>>
  <2>1. a \in Adapters /\ ~Changed(a)
    BY <1>1 DEF Safe, Untouched, Typed, TypeOK
  <2>2. own[a] \in Static \cup {Unset} /\ own[a] # Gone
    BY <1>5, <2>1 DEF Changed, Typed, TypeOK, Values
  <2>3. /\ dns'[a] = Loopback /\ \A x \in Adapters : x # a => dns'[x] = dns[x]
        /\ DOMAIN backup'[p] = DOMAIN backup[p] \cup {a}
        /\ backup'[p][a] = own[a]
        /\ \A x \in DOMAIN backup[p] : x # a => backup'[p][x] = backup[p][x]
        /\ todo'[p] = todo[p] \ {a}
        /\ \A q \in Procs : q # p => backup'[q] = backup[q] /\ todo'[q] = todo[q]
    BY <1>5, <2>1 DEF Changed, Typed, TypeOK
  <2>4. Exclusive'
    BY <1>1, <1>5 DEF Safe, Exclusive
  <2>5. Faithful'
    BY <1>1, <2>2, <2>3 DEF Safe, Faithful, OwnValues
  <2>6. OnlyProxy'
    BY <1>1, <2>2, <2>3 DEF Safe, OnlyProxy, Changed
  <2>7. Untouched'
    <3>1. \A q \in Procs : q # p => pc'[q] \in {"idle", "config", "check", "load"}
      BY <1>1, <1>5 DEF Safe, Exclusive
    <3>2. \A x \in todo'[p] : x \in Adapters => ~Changed(x)'
      BY <1>1, <1>5, <2>3 DEF Safe, Untouched, Changed
    <3> QED BY <3>1, <3>2 DEF Untouched
  <2>8. Held'
    <3> SUFFICES ASSUME NEW x \in Adapters, Changed(x)' PROVE \E q \in Procs : Holds(q, x)'
      BY DEF Held
    <3>1. CASE x = a
      BY <1>1, <1>5, <2>3, <3>1 DEF Holds
    <3>2. CASE x # a
      <4>1. PICK q \in Procs : Holds(q, x)
        BY <1>1, <2>3, <3>2 DEF Changed, Safe, Held
      <4>2. Holds(q, x)'
        BY <1>1, <1>5, <2>3, <4>1 DEF Holds
      <4> QED BY <4>2
    <3> QED BY <3>1, <3>2
  <2> QED BY <2>4, <2>5, <2>6, <2>7, <2>8 DEF Safe
<1>6. ~SetHalf(p, a)
  BY DEF SetHalf, Remember, Smooth
<1> QED BY <1>2, <1>3, <1>4, <1>5, <1>6

LEMMA SetDoneSafe == ASSUME Typed, Safe, NEW p \in Procs, SetDone(p) PROVE Safe'
<1>1. CASE backup[p] = Empty /\ GiveUp(p)
  BY <1>1, GiveUpSafe
<1>2. CASE Goto(p, "save") /\ UNCHANGED <<dns, file, cmd, backup, todo, upstreams, own, events>>
  <2>1. /\ pc[p] = "set" /\ pc'[p] = "save"
        /\ \A q \in Procs : q # p => pc'[q] = pc[q]
    BY <1>2 DEF SetDone, Goto, Typed, TypeOK
  <2>2. OwnValues(backup'[p])
    BY <1>2 DEF Safe, Faithful
  <2>3. \A a \in Adapters : Holds(p, a) => Holds(p, a)'
    BY <1>2, <2>1 DEF Holds
  <2> QED BY <1>2, <2>1, <2>2, <2>3, LocalStepSafe
<1> QED BY <1>1, <1>2 DEF SetDone

\* setup leaves what it took over; run goes on, with a state file or without.
LEMMA SaveSafe == ASSUME Typed, Safe, NEW p \in Procs, Save(p), Smooth' PROVE Safe'
<1>1. /\ pc[p] = "save" /\ UNCHANGED <<dns, own>>
      /\ file' \in {file, backup[p]}
      /\ \E saved \in BOOLEAN : AfterSave(p, saved)
  BY DEF Save
<1>2. Goto(p, "start") /\ UNCHANGED <<cmd, backup, todo, upstreams>>
  BY <1>1 DEF AfterSave, Remember, Smooth
<1>3. pc'[p] = "start" /\ \A q \in Procs : q # p => pc'[q] = pc[q]
  BY <1>2 DEF Goto, Typed, TypeOK
<1>4. OwnValues(backup'[p])
  BY <1>2 DEF Safe, Faithful
<1>5. \A a \in Adapters : Holds(p, a) => Holds(p, a)'
  BY <1>2, <1>3 DEF Holds
<1> QED BY <1>1, <1>2, <1>3, <1>4, <1>5, LocalStepSafe

LEMMA DeferredRestoreSafe ==
    ASSUME Typed, Safe, NEW p \in Procs, DeferredRestore(p), UNCHANGED <<dns, file, own>>,
           pc[p] \in {"start", "serving"}, Smooth'
    PROVE  Safe'
<1>1. /\ Goto(p, "restore")
      /\ todo' = [todo EXCEPT ![p] = DOMAIN backup[p]]
      /\ UNCHANGED <<cmd, backup, upstreams, events>>
  BY DEF DeferredRestore, Remember, Smooth
<1>2. /\ pc'[p] = "restore" /\ todo'[p] = DOMAIN backup[p]
      /\ \A q \in Procs : q # p => pc'[q] = pc[q] /\ todo'[q] = todo[q]
  BY <1>1 DEF Goto, Typed, TypeOK
<1>3. OwnValues(backup'[p])
  BY <1>1 DEF Safe, Faithful
<1>4. \A a \in Adapters : Holds(p, a) => Holds(p, a)'
  BY <1>1, <1>2 DEF Holds
<1> QED BY <1>1, <1>2, <1>3, <1>4, LocalStepSafe

LEMMA StartSafe == ASSUME Typed, Safe, NEW p \in Procs, Start(p), Smooth' PROVE Safe'
<1>1. CASE DeferredRestore(p)
  BY <1>1, DeferredRestoreSafe DEF Start
<1>2. CASE Goto(p, "serving") /\ UNCHANGED <<cmd, backup, todo, events>>
  <2>1. /\ pc[p] = "start" /\ pc'[p] = "serving"
        /\ \A q \in Procs : q # p => pc'[q] = pc[q]
        /\ UNCHANGED <<dns, file, backup, todo, own>>
    BY <1>2 DEF Start, Goto, Typed, TypeOK
  <2>2. OwnValues(backup'[p])
    BY <1>2 DEF Safe, Faithful
  <2>3. \A a \in Adapters : Holds(p, a) => Holds(p, a)'
    BY <2>1 DEF Holds
  <2> QED BY <2>1, <2>2, <2>3, LocalStepSafe
<1> QED BY <1>1, <1>2 DEF Start

LEMMA LoadSafe == ASSUME Typed, Safe, NEW p \in Procs, Load(p) PROVE Safe'
<1>1. CASE GiveUp(p)
  BY <1>1, GiveUpSafe DEF Load
<1>2. CASE /\ file # None
           /\ backup' = [backup EXCEPT ![p] = file]
           /\ todo' = [todo EXCEPT ![p] = DOMAIN file]
           /\ Goto(p, "restore")
           /\ UNCHANGED <<dns, file, cmd, upstreams, own, events>>
  <2>1. /\ pc[p] = "load" /\ pc'[p] = "restore"
        /\ backup'[p] = file
        /\ \A q \in Procs : q # p => /\ pc'[q] = pc[q]
                                     /\ backup'[q] = backup[q]
                                     /\ todo'[q] = todo[q]
    BY <1>2 DEF Load, Goto, Typed, TypeOK
  <2>2. OwnValues(backup'[p])
    BY <1>2, <2>1 DEF Safe, Faithful
  <2>3. \A a \in Adapters : ~Holds(p, a)
    BY <2>1 DEF Holds
  <2> QED BY <1>2, <2>1, <2>2, <2>3, LocalStepSafe
<1> QED BY <1>1, <1>2 DEF Load

LEMMA RestoreOneSafe ==
    ASSUME Typed, Safe, NEW p \in Procs, RestoreOne(p), Smooth' PROVE Safe'
<1>1. pc[p] = "restore" /\ UNCHANGED <<file, own>>
  BY DEF RestoreOne
<1>2. PICK a \in todo[p] :
        /\ todo' = [todo EXCEPT ![p] = @ \ {a}]
        /\ dns' = [dns EXCEPT ![a] = IF @ = Gone THEN Gone ELSE backup[p][a]]
        /\ UNCHANGED <<pc, cmd, backup, upstreams, events>>
  BY DEF RestoreOne, KeepOne, RestoreHalf, Remember, Smooth
<1>3. a \in Adapters /\ a \in DOMAIN backup[p]
  BY <1>1 DEF Typed, TypeOK, Control
<1>4. \A x \in Adapters : x # a => dns'[x] = dns[x]
  BY <1>2 DEF Typed, TypeOK
<1>5. ~Changed(a)'
  <2>1. own[a] \in {backup[p][a], Gone} /\ (own[a] = Gone => dns[a] = Gone)
    BY <1>3 DEF Safe, Faithful, OwnValues, OnlyProxy, Changed
  <2>2. dns[a] = Gone => own[a] = Gone
    BY <1>3, ConstantsAssumption DEF Safe, OnlyProxy, Changed
  <2>3. dns'[a] = IF dns[a] = Gone THEN Gone ELSE backup[p][a]
    BY <1>2, <1>3 DEF Typed, TypeOK
  <2> QED BY <1>1, <2>1, <2>2, <2>3 DEF Changed
<1>6. \A x \in Adapters : Changed(x)' => Changed(x) /\ x # a /\ dns'[x] = dns[x]
  BY <1>1, <1>4, <1>5 DEF Changed
<1>7. /\ todo'[p] = todo[p] \ {a}
      /\ \A q \in Procs : q # p => todo'[q] = todo[q]
  BY <1>2 DEF Typed, TypeOK
<1>8. Exclusive' /\ Faithful'
  BY <1>1, <1>2 DEF Safe, Exclusive, Faithful, OwnValues
<1>9. OnlyProxy' /\ Untouched'
  BY <1>1, <1>2, <1>6, <1>7 DEF Safe, OnlyProxy, Untouched
<1>10. Held'
  <2> SUFFICES ASSUME NEW x \in Adapters, Changed(x)' PROVE \E q \in Procs : Holds(q, x)'
    BY DEF Held
  <2>1. PICK q \in Procs : Holds(q, x)
    BY <1>6 DEF Safe, Held
  <2>2. Holds(q, x)'
    BY <1>2, <1>6, <1>7, <2>1 DEF Holds
  <2> QED BY <2>2
<1> QED BY <1>8, <1>9, <1>10 DEF Safe

LEMMA RestoreDoneSafe == ASSUME Typed, Safe, NEW p \in Procs, RestoreDone(p) PROVE Safe'
<1>1. /\ pc[p] = "restore" /\ todo[p] = {} /\ pc'[p] = "clear"
      /\ \A q \in Procs : q # p => pc'[q] = pc[q]
      /\ UNCHANGED <<dns, file, backup, todo, own>>
  BY DEF RestoreDone, Goto, Typed, TypeOK
<1>2. OwnValues(backup'[p])
  BY <1>1 DEF Safe, Faithful
<1>3. \A a \in Adapters : ~Holds(p, a)
  BY <1>1 DEF Holds
<1> QED BY <1>1, <1>2, <1>3, LocalStepSafe

LEMMA AdapterStepSafe ==
    ASSUME Typed, Safe, NEW a \in Adapters, Configure(a) \/ Remove(a) PROVE Safe'
<1>1. /\ own'[a] = dns'[a] /\ own'[a] \in {Unset, Gone}
      /\ own'[a] = Unset => dns[a] = Unconfigured
      /\ \A x \in Adapters : x # a => dns'[x] = dns[x] /\ own'[x] = own[x]
      /\ UNCHANGED <<file, pc, backup, todo>>
  BY ConstantsAssumption DEF Configure, Remove, locals, Typed, TypeOK
<1>2. own'[a] = Unset => own[a] = Unconfigured
  BY <1>1, ConstantsAssumption DEF Safe, OnlyProxy, Changed
<1>3. \A x \in Adapters : Changed(x)' => Changed(x) /\ x # a
  BY <1>1 DEF Changed
<1>4. ASSUME NEW b \in Backups, OwnValues(b) PROVE OwnValues(b)'
  <2>1. DOMAIN b \subseteq Adapters
    BY BackupTypes
  <2>2. a \in DOMAIN b => own'[a] = Gone
    BY <1>1, <1>2, <1>4, ConstantsAssumption DEF OwnValues
  <2> QED BY <1>1, <1>4, <2>1, <2>2 DEF OwnValues
<1>5. Faithful'
  BY <1>1, <1>4 DEF Safe, Faithful, Typed, TypeOK
<1>6. Exclusive' /\ OnlyProxy' /\ Untouched'
  BY <1>1, <1>3 DEF Safe, Exclusive, OnlyProxy, Untouched, Changed
<1>7. Held'
  BY <1>1, <1>3 DEF Safe, Held, Holds
<1> QED BY <1>5, <1>6, <1>7 DEF Safe

LEMMA NextSafe == ASSUME Typed, Safe, [Next]_vars, Smooth' PROVE Safe'
<1>1. CASE UNCHANGED vars
  BY <1>1 DEF vars, locals, Safe, Exclusive, Faithful, OwnValues, OnlyProxy, Untouched, Held,
              Holds, Changed
<1>2. ASSUME NEW p \in Procs, Begin(p) PROVE Safe'
  <2>1. /\ pc[p] = "idle" /\ pc'[p] \in {"config", "check", "load"}
        /\ \A q \in Procs : q # p => pc'[q] = pc[q]
        /\ UNCHANGED <<dns, file, backup, todo, own>>
    BY <1>2 DEF Begin, Idle, Goto, Typed, TypeOK
  <2>2. OwnValues(backup'[p]) /\ \A a \in Adapters : ~Holds(p, a)
    BY <2>1 DEF Safe, Faithful, Holds
  <2> QED BY <2>1, <2>2, LocalStepSafe
<1>3. ASSUME NEW p \in Procs, LoadConfig(p) PROVE Safe'
  <2>1. pc[p] = "config" /\ cmd[p] # "setup" /\ (StartTakeover(p) \/ GiveUp(p))
    BY <1>3 DEF LoadConfig, Typed, Control
  <2> QED BY <2>1, GiveUpSafe, StartTakeoverSafe
<1>4. ASSUME NEW p \in Procs, CheckState(p) PROVE Safe'
  <2>1. /\ pc[p] = "check"
        /\ \/ StartTakeover(p) /\ (cmd[p] = "setup" => file = None)
           \/ GiveUp(p)
    BY <1>4 DEF CheckState
  <2> QED BY <2>1, GiveUpSafe, StartTakeoverSafe
<1>5. ASSUME NEW p \in Procs, Reload(p) PROVE Safe'
  <2>1. UNCHANGED <<dns, file, pc, backup, todo, own>>
    BY <1>5 DEF Reload
  <2> QED BY <2>1 DEF Safe, Exclusive, Faithful, OwnValues, OnlyProxy, Untouched, Held, Holds,
                      Changed
<1>6. ASSUME NEW p \in Procs, Stop(p) PROVE Safe'
  BY <1>6, DeferredRestoreSafe DEF Stop
<1>7. ASSUME NEW p \in Procs, Clear(p) PROVE Safe'
  BY <1>7, EndSafe DEF Clear, Holds
<1>8. ASSUME NEW p \in Procs, Die(p) PROVE FALSE
  BY <1>8 DEF Die, Remember, Smooth
<1> QED
  BY <1>1, <1>2, <1>3, <1>4, <1>5, <1>6, <1>7, <1>8, SetOneSafe, SetDoneSafe, SaveSafe, StartSafe,
     LoadSafe, RestoreOneSafe, RestoreDoneSafe, AdapterStepSafe
  DEF Next

-----------------------------------------------------------------------------
(* Discovery                                                               *)

\* On Linux there is only Main.
OnlyMain == platform # "windows" => \A a \in Adapters \ {Main} : own[a] = Gone

AsksOwnServers(p) ==
    (platform = "resolved" => file # None) =>
        \A a \in DOMAIN backup[p] : own[a] \in Static => own[a] \in upstreams[p]

Asks == \A p \in Procs : pc[p] = "serving" =>
            /\ upstreams[p] # {}
            /\ Careful => AsksOwnServers(p)

LEMMA DiscoverNonempty == Discover # {}
BY ConstantsAssumption DEF Discover

LEMMA InitOnlyMain == Init => OnlyMain
<1> SUFFICES ASSUME Init, platform # "windows", NEW a \in Adapters \ {Main} PROVE own[a] = Gone
  BY DEF OnlyMain
<1>1. CASE platform = "resolved"
  BY <1>1 DEF Init, InitialValues
<1>2. CASE platform = "resolv.conf"
  BY <1>2 DEF Init, InitialValues
<1> QED BY <1>1, <1>2 DEF Init, Platforms

\* An address that an adapter was given by hand is found in the state file, or,
\* when that is gone, on the adapter.
LEMMA FindsOwnServers ==
    ASSUME Typed, Core, OnlyMain, NEW p \in Procs, pc[p] \in {"start", "serving"},
           platform = "resolved" => file # None,
           NEW a \in DOMAIN backup[p], own[a] \in Static
    PROVE  own[a] \in Discover
<1>1. a \in Adapters /\ own[a] # Gone /\ own[a] # Unset /\ own[a] \in Servers
  BY BackupTypes, ConstantsAssumption DEF Typed, TypeOK
<1>2. file # None => a \in DOMAIN file /\ file[a] = own[a]
  BY <1>1 DEF Core, Agreement, Faithful, OwnValues
<1>3. file = None => dns[a] = own[a]
  <2>1. \A q \in Procs : pc[q] \notin {"set", "save"}
    BY DEF Core, Exclusive
  <2> QED BY <1>1, <2>1, FileRecords DEF Changed
<1>4. own[a] \in Found
  <2>1. CASE platform = "windows"
    <3>1. file # None => own[a] \in RecordedServers
      BY <1>1, <1>2 DEF RecordedServers, Usable
    <3>2. file = None => own[a] \in LiveServers /\ RecordedServers = {}
      BY <1>1, <1>3 DEF RecordedServers, LiveServers, Usable
    <3> QED BY <2>1, <3>1, <3>2 DEF Found
  <2>2. CASE platform = "resolv.conf"
    <3>1. a = Main
      BY <1>1, <2>2 DEF OnlyMain
    <3>2. Found = Usable({IF file # None /\ file[Main] # Unset THEN file[Main] ELSE dns[Main]})
      BY <2>2 DEF Found
    <3> QED BY <1>1, <1>2, <1>3, <3>1, <3>2 DEF Usable
  <2>3. CASE platform = "resolved"
    <3>1. a = Main
      BY <1>1, <2>3 DEF OnlyMain
    <3>2. Found = Usable(Lease[Main] \cup {file[Main]})
      BY <2>3 DEF Found
    <3> QED BY <1>1, <1>2, <2>3, <3>1, <3>2 DEF Usable
  <2> QED BY <2>1, <2>2, <2>3 DEF Typed, TypeOK, Platforms
<1> QED BY <1>4 DEF Discover

LEMMA DiscoveryAsks ==
    ASSUME Typed, Careful => Core, OnlyMain, NEW p \in Procs, Start(p) \/ Reload(p),
           pc'[p] = "serving", UNCHANGED platform
    PROVE  upstreams'[p] # {} /\ (Careful' => AsksOwnServers(p)')
<1>1. /\ pc[p] \in {"start", "serving"}
      /\ upstreams'[p] = Discover
      /\ UNCHANGED <<dns, file, backup, own, events>>
  BY DEF Start, Reload, DeferredRestore, End, Goto, Typed, TypeOK
<1>2. Careful' => AsksOwnServers(p)'
  BY <1>1, FindsOwnServers DEF AsksOwnServers, Careful
<1> QED BY <1>1, <1>2, DiscoverNonempty

\* Otherwise a process that serves keeps what it has.
LEMMA ServingKeeps ==
    ASSUME Typed, [Next]_vars, NEW p \in Procs, pc'[p] = "serving", ~Start(p), ~Reload(p)
    PROVE  pc[p] = "serving" /\ UNCHANGED <<backup[p], upstreams[p]>>
<1>1. CASE UNCHANGED vars
  BY <1>1 DEF vars, locals
<1>2. ASSUME NEW q \in Procs,
             \/ Begin(q) \/ LoadConfig(q) \/ CheckState(q) \/ SetDone(q) \/ Stop(q)
             \/ Load(q) \/ RestoreDone(q) \/ Clear(q) \/ Die(q)
      PROVE  pc[p] = "serving" /\ UNCHANGED <<backup[p], upstreams[p]>>
  BY <1>2 DEF Begin, LoadConfig, CheckState, SetDone, Stop, Load, RestoreDone, Clear, Die,
              StartTakeover, GiveUp, DeferredRestore, End, Goto, Typed, TypeOK
<1>3. ASSUME NEW q \in Procs, SetOne(q)
      PROVE  pc[p] = "serving" /\ UNCHANGED <<backup[p], upstreams[p]>>
  BY <1>3 DEF SetOne, SetHalf, End, Goto, Typed, TypeOK
<1>4. ASSUME NEW q \in Procs, Save(q)
      PROVE  pc[p] = "serving" /\ UNCHANGED <<backup[p], upstreams[p]>>
  BY <1>4 DEF Save, AfterSave, End, Goto, Typed, TypeOK
<1>5. ASSUME NEW q \in Procs, RestoreOne(q)
      PROVE  pc[p] = "serving" /\ UNCHANGED <<backup[p], upstreams[p]>>
  BY <1>5 DEF RestoreOne, KeepOne, RestoreHalf, End, Goto, Typed, TypeOK
<1>6. ASSUME NEW q \in Procs, q # p, Start(q) \/ Reload(q)
      PROVE  pc[p] = "serving" /\ UNCHANGED <<backup[p], upstreams[p]>>
  BY <1>6 DEF Start, Reload, DeferredRestore, End, Goto, Typed, TypeOK
<1>7. ASSUME NEW a \in Adapters, Configure(a) \/ Remove(a)
      PROVE  pc[p] = "serving" /\ UNCHANGED <<backup[p], upstreams[p]>>
  BY <1>7 DEF Configure, Remove, locals
<1> QED BY <1>1, <1>2, <1>3, <1>4, <1>5, <1>6, <1>7 DEF Next

\* Only the system changes what an adapter would be, and only a process that saves
\* makes a state file.
LEMMA OwnAndFile ==
    ASSUME [Next]_vars
    PROVE  /\ \/ own' = own
              \/ platform = "windows" /\ \E a \in Adapters, v \in {Unset, Gone} :
                                            own' = [own EXCEPT ![a] = v]
           /\ file' \in {file, None} \/ \E q \in Procs : pc[q] = "save"
<1>1. CASE UNCHANGED vars
  BY <1>1 DEF vars
<1>2. ASSUME NEW p \in Procs,
             \/ Begin(p) \/ LoadConfig(p) \/ CheckState(p) \/ SetOne(p) \/ SetDone(p)
             \/ Start(p) \/ Reload(p) \/ Stop(p) \/ Load(p) \/ RestoreOne(p)
             \/ RestoreDone(p) \/ Clear(p) \/ Die(p)
      PROVE  own' = own /\ file' \in {file, None}
  BY <1>2 DEF Begin, LoadConfig, CheckState, SetOne, SetDone, Start, Reload, Stop, Load,
              RestoreOne, RestoreDone, Clear, Die, StartTakeover, GiveUp
<1>3. ASSUME NEW p \in Procs, Save(p) PROVE own' = own /\ pc[p] = "save"
  BY <1>3 DEF Save
<1>4. ASSUME NEW a \in Adapters, Configure(a) \/ Remove(a)
      PROVE  /\ platform = "windows" /\ file' = file
             /\ \E v \in {Unset, Gone} : own' = [own EXCEPT ![a] = v]
  BY <1>4 DEF Configure, Remove
<1> QED BY <1>1, <1>2, <1>3, <1>4 DEF Next

LEMMA NextAsks ==
    ASSUME Typed, Careful => Core, OnlyMain, Asks, [Next]_vars PROVE OnlyMain' /\ Asks'
<1>1. UNCHANGED platform
  BY DEF Next, vars
<1>2. OnlyMain'
  BY <1>1, OwnAndFile DEF OnlyMain
<1>3. ASSUME NEW p \in Procs, pc'[p] = "serving"
      PROVE  upstreams'[p] # {} /\ (Careful' => AsksOwnServers(p)')
  <2>1. CASE Start(p) \/ Reload(p)
    BY <1>1, <1>3, <2>1, DiscoveryAsks
  <2>2. CASE ~Start(p) /\ ~Reload(p)
    <3>1. pc[p] = "serving" /\ UNCHANGED <<backup[p], upstreams[p]>>
      BY <1>3, <2>2, ServingKeeps
    <3>2. ASSUME Careful', platform = "resolved" => file' # None,
                 NEW a \in DOMAIN backup[p], own'[a] \in Static
          PROVE  own'[a] \in upstreams[p]
      <4>1. Careful
        BY <3>2, EventsStay DEF Careful
      <4>2. \A q \in Procs : pc[q] # "save"
        BY <3>1, <4>1 DEF Core, Exclusive
      <4>3. platform = "resolved" => file # None
        BY <3>2, <4>2, OwnAndFile
      <4>4. a \in Adapters
        BY BackupTypes DEF Typed, TypeOK
      <4>5. own'[a] = own[a]
        BY <3>2, <4>4, OwnAndFile, ConstantsAssumption DEF Typed, TypeOK
      <4> QED BY <3>1, <3>2, <4>1, <4>3, <4>5 DEF Asks, AsksOwnServers
    <3> QED BY <1>1, <3>1, <3>2 DEF Asks, AsksOwnServers
  <2> QED BY <2>1, <2>2
<1> QED BY <1>2, <1>3 DEF Asks

-----------------------------------------------------------------------------
(* Borrowing and giving back                                               *)

\* A process that has not begun with its command knows of no adapter.
Fresh == \A p \in Procs :
             pc[p] \in {"idle", "config", "check", "load"} => backup[p] = Empty

LEMMA EndFresh == ASSUME Typed, Fresh, NEW p \in Procs, End(p) PROVE Fresh'
BY DEF Typed, TypeOK, Fresh, End, Goto

\* Steps of one process that do not end it and give it no backup, or go on with it.
LEMMA GoFresh ==
    ASSUME Typed, Fresh, NEW p \in Procs, NEW state, Goto(p, state),
           \/ pc[p] \in {"idle", "config", "check", "load"} /\ UNCHANGED backup
           \/ /\ state \notin {"idle", "config", "check", "load"}
              /\ \A q \in Procs : q # p => backup'[q] = backup[q]
    PROVE  Fresh'
BY DEF Typed, TypeOK, Fresh, Goto

LEMMA NextFresh == ASSUME Typed, Fresh, [Next]_vars PROVE Fresh'
<1>1. CASE UNCHANGED <<pc, backup>>
  BY <1>1 DEF Fresh
<1>2. ASSUME NEW p \in Procs, Begin(p) PROVE Fresh'
  <2>1. PICK state \in {"config", "check", "load"} : Goto(p, state)
    BY <1>2 DEF Begin
  <2> QED BY <1>2, <2>1, GoFresh DEF Begin, Idle
<1>3. ASSUME NEW p \in Procs, LoadConfig(p) \/ CheckState(p) PROVE Fresh'
  <2>1. /\ pc[p] \in {"config", "check"}
        /\ End(p) \/ (Goto(p, "set") /\ UNCHANGED backup)
    BY <1>3 DEF LoadConfig, CheckState, StartTakeover, GiveUp
  <2> QED BY <2>1, EndFresh, GoFresh
<1>4. ASSUME NEW p \in Procs, SetOne(p) PROVE Fresh'
  <2>1. pc[p] = "set"
    BY <1>4 DEF SetOne
  <2>2. \/ End(p)
        \/ UNCHANGED pc /\ \A q \in Procs : q # p => backup'[q] = backup[q]
    BY <1>4 DEF SetOne, SetHalf, Typed, TypeOK
  <2> QED BY <2>1, <2>2, EndFresh DEF Fresh
<1>5. ASSUME NEW p \in Procs, SetDone(p) \/ Save(p) \/ Start(p) \/ Stop(p) PROVE Fresh'
  <2>1. \/ End(p)
        \/ \E state \in {"save", "start", "serving", "restore"} :
              Goto(p, state) /\ UNCHANGED backup
    BY <1>5 DEF SetDone, GiveUp, Save, AfterSave, Start, Stop, DeferredRestore
  <2>2. CASE End(p)
    BY <2>2, EndFresh
  <2>3. ASSUME NEW state \in {"save", "start", "serving", "restore"},
               Goto(p, state), UNCHANGED backup
        PROVE  Fresh'
    BY <2>3, GoFresh
  <2> QED BY <2>1, <2>2, <2>3
<1>6. ASSUME NEW p \in Procs, Load(p) PROVE Fresh'
  <2>1. CASE GiveUp(p)
    BY <2>1, EndFresh DEF GiveUp
  <2>2. CASE backup' = [backup EXCEPT ![p] = file] /\ Goto(p, "restore")
    <3>1. \A q \in Procs : q # p => backup'[q] = backup[q]
      BY <2>2 DEF Typed, TypeOK
    <3> QED BY <2>2, <3>1, GoFresh
  <2> QED BY <1>6, <2>1, <2>2 DEF Load
<1>7. ASSUME NEW p \in Procs, RestoreOne(p) PROVE Fresh'
  <2>1. End(p) \/ UNCHANGED <<pc, backup>>
    BY <1>7 DEF RestoreOne, KeepOne, RestoreHalf
  <2> QED BY <1>1, <2>1, EndFresh
<1>8. ASSUME NEW p \in Procs, RestoreDone(p) PROVE Fresh'
  BY <1>8, GoFresh DEF RestoreDone
<1>9. ASSUME NEW p \in Procs, Clear(p) \/ Die(p) PROVE Fresh'
  BY <1>9, EndFresh DEF Clear, Die
<1> QED
  BY <1>1, <1>2, <1>3, <1>4, <1>5, <1>6, <1>7, <1>8, <1>9
  DEF Next, vars, locals, Reload, Configure, Remove

\* What p alone knows.
Takes(p) == IF pc[p] \in {"set", "save"} THEN DOMAIN backup[p] ELSE {}

LEMMA NotedByProcs ==
    /\ file = None => Noted = UNION { Takes(p) : p \in Procs }
    /\ file' = None => Noted' = UNION { Takes(p)' : p \in Procs }
<1>1. \A a : (\E p \in Procs : a \in Takes(p))
             <=> \E p \in Procs : pc[p] \in {"set", "save"} /\ a \in DOMAIN backup[p]
  BY DEF Takes
<1>2. \A a : (\E p \in Procs : a \in Takes(p)')
             <=> \E p \in Procs : pc'[p] \in {"set", "save"} /\ a \in DOMAIN backup'[p]
  BY DEF Takes
<1>3. ASSUME file = None PROVE Noted = UNION { Takes(p) : p \in Procs }
  BY <1>1, <1>3 DEF Noted
<1>4. ASSUME file' = None PROVE Noted' = UNION { Takes(p)' : p \in Procs }
  BY <1>2, <1>4 DEF Noted
<1> QED BY <1>3, <1>4

LEMMA NotedStays ==
    ASSUME UNCHANGED file, \A p \in Procs : Takes(p)' = Takes(p)
    PROVE  Noted' = Noted
<1>1. CASE file = None
  <2>1. \A a : a \in Noted <=> \E p \in Procs : a \in Takes(p)
    BY <1>1, NotedByProcs
  <2>2. \A a : a \in Noted' <=> \E p \in Procs : a \in Takes(p)'
    BY <1>1, NotedByProcs
  <2> QED BY <2>1, <2>2
<1>2. CASE file # None
  BY <1>2 DEF Noted
<1> QED BY <1>1, <1>2

\* Nothing is lent out or given back.
Rests == UNCHANGED <<dns, own>> /\ Noted' = Noted

\* A process ends that knows nothing the state file does not know.
LEMMA EndNoted ==
    ASSUME Typed, NEW p \in Procs, End(p), UNCHANGED file,
           pc[p] \notin {"set", "save"} \/ backup[p] = Empty
    PROVE  Noted' = Noted
<1>1. /\ pc'[p] = "idle"
      /\ \A q \in Procs : q # p => pc'[q] = pc[q] /\ backup'[q] = backup[q]
  BY DEF End, Goto, Typed, TypeOK
<1>2. Takes(p)' = {} /\ Takes(p) = {}
  BY <1>1, EmptyType DEF Takes
<1>3. \A q \in Procs : Takes(q)' = Takes(q)
  BY <1>1, <1>2 DEF Takes
<1> QED BY <1>3, NotedStays

\* Steps from one state outside a takeover to another.
LEMMA GoNoted ==
    ASSUME Typed, NEW p \in Procs, NEW state, Goto(p, state), UNCHANGED <<file, backup>>,
           \/ pc[p] \notin {"set", "save"} /\ (state \in {"set", "save"} => backup[p] = Empty)
           \/ pc[p] = "set" /\ state = "save"
    PROVE  Noted' = Noted
<1>1. /\ pc'[p] = state
      /\ \A q \in Procs : q # p => pc'[q] = pc[q]
  BY DEF Goto, Typed, TypeOK
<1>2. Takes(p)' = Takes(p)
  BY <1>1, EmptyType DEF Takes
<1>3. \A q \in Procs : Takes(q)' = Takes(q)
  BY <1>1, <1>2 DEF Takes
<1> QED BY <1>3, NotedStays

LEMMA BeginRests == ASSUME Typed, NEW p \in Procs, Begin(p) PROVE Rests
<1>1. PICK state \in {"config", "check", "load"} : Goto(p, state)
  BY DEF Begin
<1>2. pc[p] = "idle" /\ UNCHANGED <<dns, own, file, backup>>
  BY DEF Begin, Idle
<1> QED BY <1>1, <1>2, GoNoted DEF Rests

LEMMA TakeoverStartsRests ==
    ASSUME Typed, Fresh, NEW p \in Procs, LoadConfig(p) \/ CheckState(p)
    PROVE  Rests
<1>1. /\ pc[p] \in {"config", "check"} /\ backup[p] = Empty
      /\ StartTakeover(p) \/ GiveUp(p)
  BY DEF LoadConfig, CheckState, Fresh
<1>2. CASE StartTakeover(p)
  <2>1. Goto(p, "set") /\ UNCHANGED <<dns, own, file, backup>>
    BY <1>2 DEF StartTakeover
  <2> QED BY <1>1, <2>1, GoNoted DEF Rests
<1>3. CASE GiveUp(p)
  BY <1>1, <1>3, EndNoted DEF GiveUp, Rests
<1> QED BY <1>1, <1>2, <1>3

LEMMA SetDoneRests == ASSUME Typed, NEW p \in Procs, SetDone(p) PROVE Rests
<1>1. CASE backup[p] = Empty /\ GiveUp(p)
  BY <1>1, EndNoted DEF GiveUp, Rests
<1>2. CASE Goto(p, "save") /\ UNCHANGED <<dns, file, cmd, backup, todo, upstreams, own, events>>
  <2>1. pc[p] = "set"
    BY DEF SetDone
  <2> QED BY <1>2, <2>1, GoNoted DEF Rests
<1> QED BY <1>1, <1>2 DEF SetDone

LEMMA DeferredRestoreRests ==
    ASSUME Typed, NEW p \in Procs, DeferredRestore(p), UNCHANGED <<dns, file, own>>,
           pc[p] \in {"start", "serving"}
    PROVE  Rests
<1>1. CASE End(p)
  BY <1>1, EndNoted DEF Rests
<1>2. CASE Goto(p, "restore") /\ UNCHANGED backup
  BY <1>2, GoNoted DEF Rests
<1> QED BY <1>1, <1>2 DEF DeferredRestore

LEMMA StartRests == ASSUME Typed, NEW p \in Procs, Start(p) PROVE Rests
<1>1. pc[p] = "start" /\ UNCHANGED <<dns, file, own>>
  BY DEF Start
<1>2. CASE DeferredRestore(p)
  BY <1>1, <1>2, DeferredRestoreRests
<1>3. CASE Goto(p, "serving") /\ UNCHANGED backup
  BY <1>1, <1>3, GoNoted DEF Rests
<1> QED BY <1>2, <1>3 DEF Start

LEMMA LoadRests == ASSUME Typed, NEW p \in Procs, Load(p) PROVE Rests
<1>1. CASE GiveUp(p)
  BY <1>1, EndNoted DEF Load, GiveUp, Rests
<1>2. CASE file # None /\ UNCHANGED <<dns, own, file>>
  BY <1>2 DEF Noted, Rests
<1> QED BY <1>1, <1>2 DEF Load

\* The state file takes over what its writer knows: there is no other one.
LEMMA SaveRests ==
    ASSUME Typed, Core, NEW p \in Procs, Save(p), Careful' PROVE Rests
<1>1. file' = backup[p]
  <2>1. AfterSave(p, FALSE) => "unsaved" \in events'
    BY DEF AfterSave, Remember
  <2>2. "unsaved" \notin events'
    BY DEF Careful
  <2> QED BY <2>1, <2>2 DEF Save
<1>2. /\ pc[p] = "save" /\ file = None
      /\ \A q \in Procs \ {p} : pc[q] \notin {"set", "save"}
  BY DEF Save, Core, Exclusive
<1>3. file' # None
  BY <1>1, ConstantsAssumption DEF Typed, TypeOK
<1>4. \A a : a \in UNION { Takes(q) : q \in Procs } <=> a \in DOMAIN backup[p]
  BY <1>2 DEF Takes
<1>5. Noted = DOMAIN backup[p]
  BY <1>2, <1>4, NotedByProcs
<1>6. Noted' = DOMAIN backup[p]
  BY <1>1, <1>3 DEF Noted
<1> QED BY <1>5, <1>6 DEF Save, Rests

\* Each adapter is noted with the step that points it at the proxy.
LEMMA SetOneBorrows ==
    ASSUME Typed, Core, NEW p \in Procs, SetOne(p), Careful'
    PROVE  (\E a \in Adapters : Lender!Borrow(a)) \/ Rests
<1>1. pc[p] = "set" /\ UNCHANGED <<file, own>> /\ file = None
  BY DEF SetOne, Core, Exclusive
<1>2. PICK a \in todo[p] :
        \/ UNCHANGED <<dns, pc, backup>>
        \/ /\ dns' = [dns EXCEPT ![a] = Loopback]
           /\ backup' = [backup EXCEPT ![p] =
                 [x \in DOMAIN @ \cup {a} |-> IF x = a THEN dns[a] ELSE @[x]]]
           /\ UNCHANGED pc
        \/ /\ End(p)
           /\ Remember(IF backup[p] # Empty THEN {"half"} ELSE {})
           /\ UNCHANGED dns
        \/ SetHalf(p, a)
  BY DEF SetOne
<1>3. CASE UNCHANGED <<dns, pc, backup>>
  BY <1>1, <1>3, NotedStays DEF Takes, Rests
<1>4. CASE /\ dns' = [dns EXCEPT ![a] = Loopback]
           /\ backup' = [backup EXCEPT ![p] =
                 [x \in DOMAIN @ \cup {a} |-> IF x = a THEN dns[a] ELSE @[x]]]
           /\ UNCHANGED pc
  <2>1. a \in Adapters /\ dns[a] = own[a]
    BY <1>1 DEF Core, Progress, Changed, Typed, TypeOK
  <2>2. /\ DOMAIN backup'[p] = DOMAIN backup[p] \cup {a}
        /\ \A q \in Procs : q # p => backup'[q] = backup[q]
    BY <1>4 DEF Typed, TypeOK
  <2>3. /\ Takes(p)' = Takes(p) \cup {a}
        /\ \A q \in Procs : q # p => Takes(q)' = Takes(q)
    BY <1>1, <1>4, <2>2 DEF Takes
  <2>4. \A x : x \in Noted <=> \E q \in Procs : x \in Takes(q)
    BY <1>1, NotedByProcs
  <2>5. \A x : x \in Noted' <=> \E q \in Procs : x \in Takes(q)'
    BY <1>1, NotedByProcs
  <2>6. Noted' = Noted \cup {a}
    BY <2>3, <2>4, <2>5
  <2>7. Lender!Borrow(a)
    BY <1>1, <1>4, <2>1, <2>6 DEF Lender!Borrow
  <2> QED BY <2>1, <2>7
<1>5. CASE /\ End(p)
           /\ Remember(IF backup[p] # Empty THEN {"half"} ELSE {})
           /\ UNCHANGED dns
  <2>1. backup[p] = Empty
    BY <1>5 DEF Remember, Careful
  <2> QED BY <1>1, <1>5, <2>1, EndNoted DEF Rests
<1>6. ~SetHalf(p, a)
  BY DEF SetHalf, Remember, Careful
<1> QED BY <1>2, <1>3, <1>4, <1>5, <1>6

\* What a restore has in memory is the adapter's own value, and still noted if the
\* adapter does not have it.
LEMMA RestoresOwn ==
    ASSUME Typed, Core, NEW p \in Procs, pc[p] = "restore", NEW a \in todo[p], dns[a] # Gone
    PROVE  /\ a \in Adapters /\ backup[p][a] = own[a]
           /\ Changed(a) \/ file # None => a \in Noted
<1>1. a \in Adapters /\ a \in DOMAIN backup[p]
  BY DEF Typed, TypeOK, Control
<1>2. own[a] # Gone
  BY <1>1 DEF Core, OnlyProxy, Changed
<1>3. backup[p][a] = own[a]
  BY <1>1, <1>2 DEF Core, Faithful, OwnValues
<1>4. \A q \in Procs : pc[q] \notin {"set", "save"}
  BY DEF Core, Exclusive
<1>5. Changed(a) => file # None
  BY <1>1, <1>4, FileRecords
<1>6. file # None => a \in Noted
  BY <1>1 DEF Core, Agreement, Noted
<1> QED BY <1>1, <1>3, <1>5, <1>6

LEMMA RestoreOneGivesBack ==
    ASSUME Typed, Core, NEW p \in Procs, RestoreOne(p), Careful'
    PROVE  (\E a \in Adapters : Lender!GiveBack(a) \/ Lender!Slip(a)) \/ Rests
<1>1. pc[p] = "restore" /\ UNCHANGED <<file, own>>
  BY DEF RestoreOne
<1>2. PICK a \in todo[p] :
        \/ /\ dns' = [dns EXCEPT ![a] = IF @ = Gone THEN Gone ELSE backup[p][a]]
           /\ UNCHANGED <<pc, backup>>
        \/ End(p) /\ UNCHANGED dns
        \/ KeepOne(p, a)
        \/ dns[a] # Gone /\ RestoreHalf(p, a)
  BY DEF RestoreOne
<1>3. a \in Adapters
  BY <1>1 DEF Typed, TypeOK
<1>4. CASE End(p) /\ UNCHANGED dns
  BY <1>1, <1>4, EndNoted DEF Rests
<1>5. ~KeepOne(p, a)
  BY DEF KeepOne, Remember, Careful
<1>6. CASE /\ dns' = [dns EXCEPT ![a] = IF @ = Gone THEN Gone ELSE backup[p][a]]
           /\ UNCHANGED <<pc, backup>>
  <2>1. Noted' = Noted
    BY <1>1, <1>6, NotedStays DEF Takes
  <2>2. CASE dns[a] = Gone \/ ~Changed(a)
    <3>1. dns[a] # Gone => backup[p][a] = dns[a]
      BY <1>1, <2>2, RestoresOwn DEF Changed
    <3>2. dns' = dns
      BY <1>3, <1>6, <3>1 DEF Typed, TypeOK
    <3> QED BY <1>1, <2>1, <3>2 DEF Rests
  <2>3. CASE dns[a] # Gone /\ Changed(a)
    <3>1. backup[p][a] = own[a] /\ a \in Noted
      BY <1>1, <2>3, RestoresOwn
    <3>2. dns' = [dns EXCEPT ![a] = own[a]]
      BY <1>6, <2>3, <3>1
    <3> QED BY <1>1, <1>3, <2>1, <3>1, <3>2 DEF Lender!GiveBack
  <2> QED BY <2>2, <2>3
<1>7. CASE dns[a] # Gone /\ RestoreHalf(p, a)
  <2>1. file # None
    BY <1>7 DEF RestoreHalf, Remember, Careful
  <2>2. backup[p][a] = own[a] /\ a \in Noted
    BY <1>1, <1>7, <2>1, RestoresOwn
  <2>3. Noted' = Noted
    BY <1>1, <1>7, EndNoted DEF RestoreHalf
  <2>4. dns' = [dns EXCEPT ![a] = own[a]] \/ dns' = [dns EXCEPT ![a] = Unset]
    BY <1>7, <2>2 DEF RestoreHalf
  <2> QED BY <1>1, <1>3, <2>2, <2>3, <2>4 DEF Lender!GiveBack, Lender!Slip
<1> QED BY <1>2, <1>4, <1>5, <1>6, <1>7

LEMMA ClearForgets ==
    ASSUME Typed, Core, NEW p \in Procs, Clear(p) PROVE Lender!Forget \/ Rests
<1>1. pc[p] = "clear" /\ End(p) /\ UNCHANGED <<dns, own>>
  BY DEF Clear
<1>2. CASE UNCHANGED file
  BY <1>1, <1>2, EndNoted DEF Rests
<1>3. CASE file' = None
  <2>1. \A a \in Adapters : dns[a] = own[a]
    BY <1>1 DEF Core, Progress, Changed
  <2>2. dns = own
    BY <2>1 DEF Typed, TypeOK
  <2>3. \A q \in Procs : pc'[q] \notin {"set", "save"}
    BY <1>1 DEF Core, Exclusive, End, Goto, Typed, TypeOK
  <2>4. \A q \in Procs : Takes(q)' = {}
    BY <2>3 DEF Takes
  <2>5. Noted' = {}
    BY <1>3, <2>4, NotedByProcs
  <2> QED BY <1>1, <2>2, <2>5 DEF Lender!Forget
<1> QED BY <1>2, <1>3 DEF Clear

LEMMA DieRests == ASSUME Typed, NEW p \in Procs, Die(p), Careful' PROVE Rests
<1>1. ~(pc[p] \in {"set", "save"} /\ backup[p] # Empty)
  BY DEF Die, Remember, Careful
<1> QED BY <1>1, EndNoted DEF Die, Rests

\* An adapter that is set up or removed had its own value, or loses it for good.
LEMMA AdapterChanges ==
    ASSUME Typed, NEW a \in Adapters, Configure(a) \/ Remove(a)
    PROVE  \E v \in Values : Lender!Change(a, v)
<1>1. PICK v \in {Unset, Gone} : dns' = [dns EXCEPT ![a] = v] /\ own' = [own EXCEPT ![a] = v]
  BY DEF Configure, Remove
<1>2. UNCHANGED <<file, pc, backup>>
  BY DEF Configure, Remove, locals
<1>3. Noted' = Noted
  BY <1>2, NotedStays DEF Takes
<1>4. v \in Values
  BY DEF Values
<1> QED BY <1>1, <1>3, <1>4 DEF Lender!Change

LEMMA NextLends ==
    ASSUME Typed, Core, Fresh, [Next]_vars, Careful'
    PROVE  [Lender!Next]_(Lender!vars)
<1>1. Rests => UNCHANGED Lender!vars
  BY DEF Rests, Lender!vars
<1>2. CASE UNCHANGED vars
  BY <1>1, <1>2, NotedStays DEF vars, locals, Takes, Rests
<1>3. ASSUME NEW p \in Procs, Begin(p) \/ LoadConfig(p) \/ CheckState(p) \/ SetDone(p)
      PROVE  Rests
  BY <1>3, BeginRests, TakeoverStartsRests, SetDoneRests
<1>4. ASSUME NEW p \in Procs, SetOne(p) PROVE Lender!Next \/ Rests
  BY <1>4, SetOneBorrows DEF Lender!Next
<1>5. ASSUME NEW p \in Procs, Save(p) \/ Start(p) \/ Load(p) \/ Die(p) PROVE Rests
  BY <1>5, SaveRests, StartRests, LoadRests, DieRests
<1>6. ASSUME NEW p \in Procs, Reload(p) \/ RestoreDone(p) PROVE Rests
  <2>1. UNCHANGED <<dns, own, file, backup>>
    BY <1>6 DEF Reload, RestoreDone
  <2>2. CASE Reload(p)
    BY <2>1, <2>2, NotedStays DEF Reload, Takes, Rests
  <2>3. CASE RestoreDone(p)
    BY <2>1, <2>3, GoNoted DEF RestoreDone, Rests
  <2> QED BY <1>6, <2>2, <2>3
<1>7. ASSUME NEW p \in Procs, Stop(p) PROVE Rests
  BY <1>7, DeferredRestoreRests DEF Stop
<1>8. ASSUME NEW p \in Procs, RestoreOne(p) PROVE Lender!Next \/ Rests
  BY <1>8, RestoreOneGivesBack DEF Lender!Next
<1>9. ASSUME NEW p \in Procs, Clear(p) PROVE Lender!Next \/ Rests
  BY <1>9, ClearForgets DEF Lender!Next
<1>10. ASSUME NEW a \in Adapters, Configure(a) \/ Remove(a) PROVE Lender!Next
  BY <1>10, AdapterChanges DEF Lender!Next
<1>11. Lender!Next \/ Rests \/ UNCHANGED Lender!vars
  BY <1>1, <1>2, <1>3, <1>4, <1>5, <1>6, <1>7, <1>8, <1>9, <1>10 DEF Next
<1> QED BY <1>1, <1>11

-----------------------------------------------------------------------------

\* Whatever is written to the state file, by whichever process and wherever one
\* dies, is a whole takeover state, and adapters hold values that truedns or
\* their users give them.
THEOREM TypeCorrect == Spec => []TypeOK
<1>1. Spec => []Typed
  BY InitTypes, NextTypes, PTL DEF Spec
<1>2. Typed => TypeOK
  BY DEF Typed
<1> QED BY <1>1, <1>2, PTL

LEMMA Invariance == Spec => []IInv
<1>1. Init => IInv
  BY InitTypes, InitCore DEF IInv
<1>2. IInv /\ [Next]_vars => IInv'
  BY NextTypes, NextCore, EventsStay DEF IInv, Careful
<1> QED BY <1>1, <1>2, PTL DEF Spec

\* With careful use, restore can always bring back every adapter's own value.
THEOREM CarefulUseIsRevertible == Spec => []TakeoverIsRevertible
<1>1. IInv => TakeoverIsRevertible
  BY DEF IInv, Core, TakeoverIsRevertible
<1> QED BY <1>1, Invariance, PTL

\* With careful use, every adapter has its own value again when the end of run,
\* or restore, is about to remove the state file.
RestoreIsComplete == Careful => \A p \in Procs : pc[p] = "clear" => dns = own

\* With careful use, the state file is removed only when all is as it was.
THEOREM CarefulRestoreIsComplete == Spec => []RestoreIsComplete
<1>1. IInv => RestoreIsComplete
  <2> SUFFICES ASSUME Typed, Core, NEW p \in Procs, pc[p] = "clear" PROVE dns = own
    BY DEF IInv, RestoreIsComplete
  <2>1. \A a \in Adapters : dns[a] = own[a]
    BY DEF Core, Progress, Changed
  <2> QED BY <2>1 DEF Typed, TypeOK
<1> QED BY <1>1, Invariance, PTL

\* A run that is left to finish leaves no adapter pointing at a proxy that is gone,
\* also when the state file could not be written and whatever else is executed.
THEOREM FinishedRunLeavesNoDeadProxy == Spec => []NoDeadProxy
<1> DEFINE I == Typed /\ (Smooth => Safe)
<1>1. Init => I
  BY InitTypes, InitSafe
<1>2. I /\ [Next]_vars => I'
  BY NextTypes, NextSafe, EventsStay DEF Smooth
<1>3. I => NoDeadProxy
  <2> SUFFICES ASSUME Typed, Safe, \A p \in Procs : Idle(p) PROVE dns = own
    BY DEF NoDeadProxy, Smooth
  <2>1. \A a \in Adapters : dns[a] = own[a]
    BY DEF Safe, Held, Holds, Idle, Changed
  <2> QED BY <2>1 DEF Typed, TypeOK
<1> QED BY <1>1, <1>2, <1>3, PTL DEF Spec

\* The proxy never forwards to itself, whatever state file it finds, and with careful
\* use it asks the servers that the adapters were set to by hand.
THEOREM ProxyIsBypassed == Spec => []UpstreamsBypassProxy
<1> DEFINE I == IInv /\ OnlyMain /\ Asks
<1>1. Init => I
  BY InitTypes, InitCore, InitOnlyMain DEF IInv, Asks, Init
<1>2. I /\ [Next]_vars => I'
  BY NextTypes, NextCore, NextAsks, EventsStay DEF IInv, Careful
<1>3. I => UpstreamsBypassProxy
  BY ConstantsAssumption
     DEF IInv, Asks, AsksOwnServers, UpstreamsBypassProxy, Typed, TypeOK
<1> QED BY <1>1, <1>2, <1>3, PTL DEF Spec

\* As long as it is used with care, truedns as a whole, its commands, processes that
\* die, memory and state file together, borrows the settings and gives them back.
THEOREM CarefulUseBorrows == Spec => CarefulUseIsALoan
<1>1. Init => Fresh /\ Lender!Init
  <2> SUFFICES ASSUME Init PROVE Fresh /\ Lender!Init
    OBVIOUS
  <2>1. file = None /\ dns = own /\ \A p \in Procs : pc[p] = "idle" /\ backup[p] = Empty
    BY DEF Init
  <2>2. \A p \in Procs : Takes(p) = {}
    BY <2>1 DEF Takes
  <2>3. Noted = {}
    BY <2>1, <2>2, NotedByProcs
  <2> QED BY <2>1, <2>3 DEF Fresh, Lender!Init
<1>2. IInv => Typed
  BY DEF IInv
<1>3. Typed /\ Fresh /\ [Next]_vars => Fresh'
  BY NextFresh
<1>4. Spec => []Fresh
  BY <1>1, <1>2, <1>3, Invariance, PTL DEF Spec
<1>5. IInv /\ Fresh /\ [Next]_vars => [Careful' => Lender!Next]_(Lender!vars)
  <2> SUFFICES ASSUME IInv, Fresh, [Next]_vars, Careful'
               PROVE  [Lender!Next]_(Lender!vars)
    OBVIOUS
  <2>1. Careful
    BY EventsStay DEF Careful
  <2> QED BY <2>1, NextLends DEF IInv
<1> QED BY <1>1, <1>4, <1>5, Invariance, PTL DEF Spec, CarefulUseIsALoan
=============================================================================
