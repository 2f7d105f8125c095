--------------------------- MODULE MigrationProofs ---------------------------
(***************************************************************************)
(* What the lock of the configuration file serializes, and what a start    *)
(* leaves behind, for any number of processes, any patience and any number *)
(* of attempts.                                                            *)
(***************************************************************************)
EXTENDS Migration, SequenceTheorems, TLAPS

\* The attempts of a rename that goes on.
Counted == \A p \in Procs : /\ pc[p] \notin Writing => tries[p] = 0
                            /\ pc[p] = "rename" => tries[p] < Attempts

\* Past the first check there is a file, and nobody is privileged for nothing.
Placed == \A p \in Procs :
    /\ pc[p] \in {"load", "reload", "encode"} \cup Waiting \cup Locked => file # None
    /\ pc[p] \in Locked => p \notin denied
    /\ pc[p] = "encode" => "bootstrap" \in events
    /\ pc[p] = "rewrite" => windows /\ "inplace" \in events
    /\ "broken" \in events => "inplace" \in events

Typed == TypeOK /\ Counted /\ Placed

\* A lock that became stale was noticed as such before anybody removes it.
StaleTold ==
    /\ Stale => "stale" \in events
    /\ \A p \in Procs : pc[p] = "remove" => "stale" \in events

\* The strengthening of Serialized: who is under the lock has made the lock that
\* is there.
OwnsLock ==
    windows \/ Prompt => \A p \in Procs : pc[p] \in Locked => lock # None /\ lock.by = p

\* Who waits and has seen no change of the lock waits for one that is older than
\* its wait, or for none.
Patient ==
    /\ lock # None => lock.at <= now
    /\ \A p \in Procs :
          /\ pc[p] \in Waiting /\ p \notin met /\ lock # None => lock.at + Timeout <= deadline[p]
          /\ pc[p] = "stat" /\ p \notin met => lock # None
          /\ result[p] = "timeout" => pc[p] = "done"

\* What is going to be written is whole.
WritesUser ==
    "bootstrap" \notin events =>
        \A p \in Procs : pc[p] \in Writing =>
            data[p].body = "user" \/ (windows /\ "broken" \in events)

Calm == (windows \/ Prompt) /\ events \cap {"bootstrap", "inplace"} = {}

\* Who is about to migrate has read what is there.
WritesOnce ==
    Calm => \A p \in Procs :
        /\ pc[p] \in {"temp"} \cup Writing => detectSchemaVersion(file) = 0
        /\ pc[p] \in Writing => data[p] = Stamped(file)

IInv == /\ Typed /\ StaleTold /\ OwnsLock
        /\ LeavesNothing
        /\ Patient /\ TimeoutIsEarned
        /\ WritesUser /\ KeepsUserParameters
        /\ WritesOnce

States == {"idle", "done", "check", "create", "encode", "load", "reload"} \cup Waiting \cup Locked
Results == {"none", "current", "migrated", "newer", "failed", "timeout"}

-----------------------------------------------------------------------------
(* Types                                                                   *)

LEMMA ContentTypes ==
    /\ Truncated \in Contents /\ Truncated.body = "part"
    /\ DefaultConfig \in Contents
<1>1. <<>> \in Seq(Versions) /\ <<1>> \in Seq(Versions)
  BY DEF Versions
<1> QED BY <1>1 DEF Truncated, DefaultConfig, Contents, Bodies, CurrentSchemaVersion

LEMMA StampedType ==
    ASSUME NEW c \in Contents
    PROVE  Stamped(c) \in Contents /\ Stamped(c).body = c.body
<1>1. c.ver \in Seq(Versions) /\ 1 \in Versions
  BY DEF Contents, Versions
<1>2. <<1>> \o c.ver \in Seq(Versions)
  BY <1>1
<1>3. ASSUME NEW i PROVE [c.ver EXCEPT ![i] = 1] \in Seq(Versions)
  <2>1. CASE i \in 1 .. Len(c.ver)
    BY <1>1, <2>1, ExceptSeq
  <2>2. CASE i \notin 1 .. Len(c.ver)
    <3>1. DOMAIN c.ver = 1 .. Len(c.ver)
      BY <1>1
    <3>2. [c.ver EXCEPT ![i] = 1] = [j \in DOMAIN c.ver |-> c.ver[j]]
      BY <2>2, <3>1
    <3>3. c.ver = [j \in DOMAIN c.ver |-> c.ver[j]]
      BY <1>1
    <3>4. [c.ver EXCEPT ![i] = 1] = c.ver
      BY <3>2, <3>3, Zenon
    <3> QED BY <1>1, <3>4, Zenon
  <2> QED BY <2>1, <2>2
<1>4. ASSUME NEW v \in Seq(Versions)
      PROVE  [c EXCEPT !.ver = v] \in Contents /\ [c EXCEPT !.ver = v].body = c.body
  BY <1>4 DEF Contents
<1> DEFINE first == CHOOSE i \in Zeros(c) : \A j \in Zeros(c) : i <= j
           stamped == IF Zeros(c) = {} THEN <<1>> \o c.ver ELSE [c.ver EXCEPT ![first] = 1]
<1>5. Stamped(c) = [c EXCEPT !.ver = stamped]
  BY DEF Stamped, CurrentSchemaVersion
<1>6. [c.ver EXCEPT ![first] = 1] \in Seq(Versions)
  <2> HIDE DEF first
  <2> QED BY <1>3
<1>7. stamped \in Seq(Versions)
  <2> HIDE DEF first
  <2> QED BY <1>2, <1>6
<1> HIDE DEF stamped
<1> QED BY <1>4, <1>5, <1>7

LEMMA GotoType ==
    ASSUME TypeOK, NEW p \in Procs, NEW state \in States, Goto(p, state)
    PROVE  pc' \in [Procs -> States] /\ pc'[p] = state
           /\ \A q \in Procs : q # p => pc'[q] = pc[q]
BY DEF TypeOK, Goto, States

LEMMA InitTypes == Init => Typed
<1> SUFFICES ASSUME Init PROVE Typed
  OBVIOUS
<1>1. file \in Contents \cup {None}
  <2>1. {<<>>, <<0>>, <<1>>, <<2>>} \subseteq Seq(Versions)
    BY DEF Versions
  <2> QED BY <2>1 DEF Init, Contents, Bodies
<1>2. lock \in Locks \cup {None}
  BY ConstantsAssumption DEF Init, Locks
<1>3. /\ tmp = {} /\ handles = {} /\ met = {} /\ now \in 0 .. MaxTime
      /\ events \subseteq Events /\ "broken" \notin events
  BY ConstantsAssumption DEF Init, Events
<1>4. pc \in [Procs -> States] /\ \A p \in Procs : pc[p] = "idle"
  BY DEF Init, States
<1>5. cfg \in [Procs -> Bodies \cup {None}] /\ data \in [Procs -> Contents]
  BY ContentTypes DEF Init
<1>6. /\ tries \in [Procs -> 0 .. Attempts] /\ \A p \in Procs : tries[p] = 0
      /\ deadline \in [Procs -> Nat] /\ result \in [Procs -> Results]
  BY ConstantsAssumption DEF Init, Results
<1>7. windows \in BOOLEAN
  BY DEF Init
<1>8. denied \subseteq Unprivileged
  BY DEF Init
<1>9. TypeOK
  BY <1>1, <1>2, <1>3, <1>4, <1>5, <1>6, <1>7, <1>8 DEF TypeOK, States, Results
<1> QED BY <1>3, <1>4, <1>6, <1>9 DEF Typed, Counted, Placed, Waiting, Locked, Writing

\* What CleanUp leaves.
LEMMA CleanUpTypes ==
    ASSUME Typed, NEW p \in Procs, NEW r \in Results, CleanUp(p, r)
    PROVE  /\ tmp' = tmp \ {p}
           /\ tries' \in [Procs -> 0 .. Attempts] /\ tries'[p] = 0
           /\ \A q \in Procs : q # p => tries'[q] = tries[q]
           /\ result' \in [Procs -> Results] /\ result'[p] = r
           /\ pc' \in [Procs -> States] /\ pc'[p] = "release"
           /\ \A q \in Procs : q # p => pc'[q] = pc[q] /\ result'[q] = result[q]
<1>1. "release" \in States
  BY DEF States, Locked
<1> QED BY <1>1, GotoType, ConstantsAssumption DEF CleanUp, Return, Typed, TypeOK, Results

\* A step that moves one process on: its counters and places follow.
LEMMA MovePlaced ==
    ASSUME Typed, NEW p \in Procs, pc' \in [Procs -> States],
           \A q \in Procs : q # p => pc'[q] = pc[q] /\ tries'[q] = tries[q],
           file # None => file' # None,
           denied' = denied, windows' = windows, events \subseteq events',
           "broken" \in events' => "inplace" \in events',
           /\ pc'[p] \notin Writing => tries'[p] = 0
           /\ pc'[p] = "rename" => tries'[p] < Attempts,
           /\ pc'[p] \in {"load", "reload", "encode"} \cup Waiting \cup Locked => file' # None
           /\ pc'[p] \in Locked => p \notin denied
           /\ pc'[p] = "encode" => "bootstrap" \in events'
           /\ pc'[p] = "rewrite" => windows /\ "inplace" \in events'
    PROVE  Counted' /\ Placed'
<1>1. Counted'
  BY DEF Typed, Counted
<1>2. ASSUME NEW q \in Procs PROVE
        /\ pc'[q] \in {"load", "reload", "encode"} \cup Waiting \cup Locked => file' # None
        /\ pc'[q] \in Locked => q \notin denied
        /\ pc'[q] = "encode" => "bootstrap" \in events'
        /\ pc'[q] = "rewrite" => windows /\ "inplace" \in events'
  BY <1>2 DEF Typed, Placed
<1> QED BY <1>1, <1>2 DEF Placed

LEMMA StateSets ==
    /\ {"idle", "done", "check", "create", "encode", "load", "reload"} \subseteq States
    /\ Waiting \subseteq States /\ Locked \subseteq States /\ Writing \subseteq Locked
    /\ Waiting = {"open", "stat", "remove"} /\ Writing = {"rename", "inplace", "rewrite"}
    /\ Locked = {"read", "temp", "release", "rename", "inplace", "rewrite"}
BY DEF States, Waiting, Locked, Writing

LEMMA WaitTypes ==
    ASSUME TypeOK, NEW p \in Procs, Wait(p)
    PROVE  /\ deadline' \in [Procs -> Nat] /\ met' \subseteq Procs
           /\ pc' \in [Procs -> States] /\ pc'[p] = "open"
           /\ \A q \in Procs : q # p => pc'[q] = pc[q]
<1>1. now + Timeout \in Nat
  BY ConstantsAssumption DEF TypeOK
<1> QED BY <1>1, GotoType, StateSets DEF Wait, TypeOK

LEMMA BeginTyped ==
    ASSUME Typed, NEW p \in Procs, Begin(p), UNCHANGED <<now, windows, denied>>
    PROVE  Typed'
<1>1. pc' \in [Procs -> States] /\ pc'[p] = "check" /\ \A q \in Procs : q # p => pc'[q] = pc[q]
  BY GotoType, StateSets DEF Begin, Typed
<1>2. TypeOK'
  BY <1>1 DEF Begin, Typed, TypeOK, States
<1>3. tries[p] = 0
  BY StateSets DEF Begin, Typed, Counted
<1> QED BY <1>1, <1>2, <1>3, MovePlaced, StateSets DEF Begin, Typed, Placed

LEMMA CheckTyped ==
    ASSUME Typed, NEW p \in Procs, Check(p), UNCHANGED <<now, windows, denied>>
    PROVE  Typed'
<1>1. tries[p] = 0 /\ tries' = tries
  BY StateSets DEF Check, Typed, Counted
<1>2. CASE Wait(p) /\ file # None
  <2>1. TypeOK'
    BY <1>2, WaitTypes DEF Check, Typed, TypeOK, States
  <2> QED BY <1>1, <1>2, <2>1, WaitTypes, MovePlaced, StateSets DEF Check, Typed, Placed
<1>3. ASSUME NEW state \in {"done", "create", "load"}, Goto(p, state), UNCHANGED <<deadline, met>>,
             state = "load" => file # None
      PROVE  Typed'
  <2>1. pc' \in [Procs -> States] /\ pc'[p] = state /\ \A q \in Procs : q # p => pc'[q] = pc[q]
    BY <1>3, GotoType, StateSets DEF Typed
  <2>2. TypeOK'
    BY <1>3, <2>1 DEF Check, Typed, TypeOK, States
  <2> QED BY <1>1, <1>3, <2>1, <2>2, MovePlaced, StateSets DEF Check, Typed, Placed
<1> QED BY <1>2, <1>3 DEF Check

LEMMA CreateTyped ==
    ASSUME Typed, NEW p \in Procs, Create(p), UNCHANGED <<now, windows, denied>>
    PROVE  Typed'
<1>1. tries[p] = 0 /\ tries' = tries /\ cfg' \in [Procs -> Bodies \cup {None}]
  BY StateSets DEF Create, Typed, TypeOK, Counted, Bodies
<1>2. CASE Goto(p, "encode") /\ file' = Truncated /\ handles' = handles \cup {p}
           /\ events' = events \cup {"bootstrap"}
  <2>1. pc' \in [Procs -> States] /\ pc'[p] = "encode" /\ \A q \in Procs : q # p => pc'[q] = pc[q]
    BY <1>2, GotoType, StateSets DEF Typed
  <2>2. file' \in Contents /\ file' # None
    BY <1>2, ContentTypes, ConstantsAssumption
  <2>3. TypeOK'
    BY <1>1, <1>2, <2>1, <2>2 DEF Create, Typed, TypeOK, States, Events
  <2> QED BY <1>1, <1>2, <2>1, <2>2, <2>3, MovePlaced, StateSets DEF Create, Typed, Placed
<1>3. CASE Goto(p, "done") /\ UNCHANGED <<file, handles, events>>
  <2>1. pc' \in [Procs -> States] /\ pc'[p] = "done" /\ \A q \in Procs : q # p => pc'[q] = pc[q]
    BY <1>3, GotoType, StateSets DEF Typed
  <2>2. TypeOK'
    BY <1>1, <1>3, <2>1 DEF Create, Typed, TypeOK, States
  <2> QED BY <1>1, <1>3, <2>1, <2>2, MovePlaced, StateSets DEF Create, Typed, Placed
<1> QED BY <1>2, <1>3 DEF Create

LEMMA EncodeTyped ==
    ASSUME Typed, NEW p \in Procs, Encode(p), UNCHANGED <<now, windows, denied>>
    PROVE  Typed'
<1>1. tries[p] = 0 /\ tries' = tries
  BY StateSets DEF Encode, Typed, Counted
<1>2. pc' \in [Procs -> States] /\ pc'[p] = "done" /\ \A q \in Procs : q # p => pc'[q] = pc[q]
  BY GotoType, StateSets DEF Encode, Typed
<1>3. file' \in Contents /\ file' # None
  <2>1. file \in Contents
    BY StateSets DEF Encode, Typed, Placed, TypeOK
  <2> QED BY <2>1, ContentTypes, ConstantsAssumption DEF Encode
<1>4. TypeOK'
  BY <1>2, <1>3 DEF Encode, Typed, TypeOK, States
<1> QED BY <1>1, <1>2, <1>3, <1>4, MovePlaced, StateSets DEF Encode, Typed, Placed

LEMMA LoadTyped ==
    ASSUME Typed, NEW p \in Procs, Load(p), UNCHANGED <<now, windows, denied>>
    PROVE  Typed'
<1>1. tries[p] = 0 /\ tries' = tries
  BY StateSets DEF Load, Typed, Counted
<1>2. file \in Contents /\ file # None
  BY StateSets DEF Load, Typed, Placed, TypeOK
<1>3. CASE Wait(p) /\ cfg' = [cfg EXCEPT ![p] = file.body]
  <2>1. cfg' \in [Procs -> Bodies \cup {None}]
    BY <1>2, <1>3 DEF Typed, TypeOK, Contents
  <2>2. TypeOK'
    BY <1>3, <2>1, WaitTypes DEF Load, Typed, TypeOK, States
  <2> QED BY <1>1, <1>2, <1>3, <2>2, WaitTypes, MovePlaced, StateSets DEF Load, Typed, Placed
<1>4. CASE Goto(p, "done") /\ UNCHANGED <<cfg, deadline, met>>
  <2>1. pc' \in [Procs -> States] /\ pc'[p] = "done" /\ \A q \in Procs : q # p => pc'[q] = pc[q]
    BY <1>4, GotoType, StateSets DEF Typed
  <2>2. TypeOK'
    BY <1>4, <2>1 DEF Load, Typed, TypeOK, States
  <2> QED BY <1>1, <1>4, <2>1, <2>2, MovePlaced, StateSets DEF Load, Typed, Placed
<1> QED BY <1>3, <1>4 DEF Load

LEMMA ReloadTyped ==
    ASSUME Typed, NEW p \in Procs, Reload(p), UNCHANGED <<now, windows, denied>>
    PROVE  Typed'
<1>1. tries[p] = 0 /\ tries' = tries
  BY StateSets DEF Reload, Typed, Counted
<1>2. file \in Contents /\ file # None
  BY StateSets DEF Reload, Typed, Placed, TypeOK
<1>3. pc' \in [Procs -> States] /\ pc'[p] = "done" /\ \A q \in Procs : q # p => pc'[q] = pc[q]
  BY GotoType, StateSets DEF Reload, Typed
<1>4. cfg' \in [Procs -> Bodies \cup {None}]
  BY <1>2 DEF Reload, Typed, TypeOK, Contents
<1>5. TypeOK'
  BY <1>3, <1>4 DEF Reload, Typed, TypeOK, States
<1> QED BY <1>1, <1>3, <1>5, MovePlaced, StateSets DEF Reload, Typed, Placed

\* Going on in withConfigLock, with a lock that is one.
LEMMA OpenTyped ==
    ASSUME Typed, NEW p \in Procs, Open(p), UNCHANGED <<now, windows, denied>>
    PROVE  Typed'
<1>1. tries[p] = 0 /\ tries' = tries /\ file # None
  BY StateSets DEF Open, Typed, Counted, Placed
<1>2. lock' \in Locks \cup {None} /\ met' \subseteq Procs /\ deadline' \in [Procs -> Nat]
  BY DEF Open, Seen, Typed, TypeOK, Locks
<1>3. PICK state \in {"stat", "done", "read"} : Goto(p, state) /\ (state = "read" => p \notin denied)
  BY DEF Open
<1>4. pc' \in [Procs -> States] /\ pc'[p] = state /\ \A q \in Procs : q # p => pc'[q] = pc[q]
  BY <1>3, GotoType, StateSets DEF Typed
<1>5. TypeOK'
  BY <1>2, <1>4 DEF Open, Typed, TypeOK, States
<1> QED BY <1>1, <1>3, <1>4, <1>5, MovePlaced, StateSets DEF Open, Typed, Placed

LEMMA StatTyped ==
    ASSUME Typed, NEW p \in Procs, Stat(p), UNCHANGED <<now, windows, denied>>
    PROVE  Typed'
<1>1. tries[p] = 0 /\ tries' = tries /\ file # None
  BY StateSets DEF Stat, Typed, Counted, Placed
<1>2. result' \in [Procs -> Results]
  BY DEF Stat, Return, Typed, TypeOK, Results
<1>3. PICK state \in {"remove", "open", "done"} : Goto(p, state)
  BY DEF Stat
<1>4. pc' \in [Procs -> States] /\ pc'[p] = state /\ \A q \in Procs : q # p => pc'[q] = pc[q]
  BY <1>3, GotoType, StateSets DEF Typed
<1>5. TypeOK'
  BY <1>2, <1>4 DEF Stat, Typed, TypeOK, States, Results
<1> QED BY <1>1, <1>3, <1>4, <1>5, MovePlaced, StateSets DEF Stat, Typed, Placed

LEMMA RemoveTyped ==
    ASSUME Typed, NEW p \in Procs, Remove(p), UNCHANGED <<now, windows, denied>>
    PROVE  Typed'
<1>1. tries[p] = 0 /\ tries' = tries /\ file # None
  BY StateSets DEF Remove, Typed, Counted, Placed
<1>2. lock' \in Locks \cup {None} /\ met' \subseteq Procs
  BY DEF Remove, Seen, Typed, TypeOK
<1>3. pc' \in [Procs -> States] /\ pc'[p] = "open" /\ \A q \in Procs : q # p => pc'[q] = pc[q]
  BY GotoType, StateSets DEF Remove, Typed
<1>4. TypeOK'
  BY <1>2, <1>3 DEF Remove, Typed, TypeOK, States
<1> QED BY <1>1, <1>3, <1>4, MovePlaced, StateSets DEF Remove, Typed, Placed

LEMMA ReleaseTyped ==
    ASSUME Typed, NEW p \in Procs, Release(p), UNCHANGED <<now, windows, denied>>
    PROVE  Typed'
<1>1. tries[p] = 0 /\ tries' = tries /\ file # None
  BY StateSets DEF Release, Typed, Counted, Placed
<1>2. lock' \in Locks \cup {None} /\ met' \subseteq Procs
  BY DEF Release, Seen, Typed, TypeOK
<1>3. data' \in [Procs -> Contents] /\ result' \in [Procs -> Results]
  BY ContentTypes DEF Release, Return, Typed, TypeOK, Results
<1>4. PICK state \in {"done", "reload"} : Goto(p, state)
  BY DEF Release
<1>5. pc' \in [Procs -> States] /\ pc'[p] = state /\ \A q \in Procs : q # p => pc'[q] = pc[q]
  BY <1>4, GotoType, StateSets DEF Typed
<1>6. TypeOK'
  BY <1>2, <1>3, <1>5 DEF Release, Typed, TypeOK, States, Results
<1> QED BY <1>1, <1>4, <1>5, <1>6, MovePlaced, StateSets DEF Release, Typed, Placed

LEMMA ReadTyped ==
    ASSUME Typed, NEW p \in Procs, Read(p), UNCHANGED <<now, windows, denied>>
    PROVE  Typed'
<1>1. tries[p] = 0 /\ tries' = tries /\ file # None /\ p \notin denied
  BY StateSets DEF Read, Typed, Counted, Placed
<1>2. result' \in [Procs -> Results]
  BY DEF Read, Return, Typed, TypeOK, Results
<1>3. PICK state \in {"temp", "release"} : Goto(p, state)
  BY DEF Read
<1>4. pc' \in [Procs -> States] /\ pc'[p] = state /\ \A q \in Procs : q # p => pc'[q] = pc[q]
  BY <1>3, GotoType, StateSets DEF Typed
<1>5. TypeOK'
  BY <1>2, <1>4 DEF Read, Typed, TypeOK, States, Results
<1> QED BY <1>1, <1>3, <1>4, <1>5, MovePlaced, StateSets DEF Read, Typed, Placed

LEMMA MakeTempTyped ==
    ASSUME Typed, NEW p \in Procs, MakeTemp(p), UNCHANGED <<now, windows, denied>>
    PROVE  Typed'
<1>1. tries[p] = 0 /\ file # None /\ file \in Contents /\ p \notin denied
  BY StateSets DEF MakeTemp, Typed, Counted, Placed, TypeOK
<1>2. CASE CleanUp(p, "failed") /\ UNCHANGED data
  <2>1. "failed" \in Results
    BY DEF Results
  <2>2. TypeOK'
    BY <1>2, <2>1, CleanUpTypes DEF MakeTemp, Typed, TypeOK, States, Results
  <2> QED BY <1>1, <1>2, <2>1, <2>2, CleanUpTypes, MovePlaced, StateSets DEF MakeTemp, Typed, Placed
<1>3. CASE Goto(p, "rename") /\ UNCHANGED <<tries, result>> /\ tmp' = tmp \cup {p}
           /\ data' = [data EXCEPT ![p] = Stamped(file)]
  <2>1. pc' \in [Procs -> States] /\ pc'[p] = "rename" /\ \A q \in Procs : q # p => pc'[q] = pc[q]
    BY <1>3, GotoType, StateSets DEF Typed
  <2>2. data' \in [Procs -> Contents]
    BY <1>1, <1>3, StampedType DEF Typed, TypeOK
  <2>3. TypeOK'
    BY <1>3, <2>1, <2>2 DEF MakeTemp, Typed, TypeOK, States
  <2> QED BY <1>1, <1>3, <2>1, <2>3, MovePlaced, StateSets, ConstantsAssumption DEF MakeTemp, Typed, Placed
<1> QED BY <1>2, <1>3 DEF MakeTemp

LEMMA RenameTyped ==
    ASSUME Typed, NEW p \in Procs, Rename(p), UNCHANGED <<now, windows, denied>>
    PROVE  Typed'
<1>1. tries[p] \in 0 .. Attempts /\ tries[p] < Attempts /\ file # None /\ p \notin denied /\ data[p] \in Contents
  BY StateSets DEF Rename, Typed, Counted, Placed, TypeOK
<1>2. CASE CleanUp(p, "migrated") /\ file' = data[p] /\ handles' = {}
  <2>1. "migrated" \in Results
    BY DEF Results
  <2>2. TypeOK' /\ file' # None
    BY <1>1, <1>2, <2>1, CleanUpTypes, ConstantsAssumption DEF Rename, Typed, TypeOK, States, Results
  <2> QED BY <1>1, <1>2, <2>1, <2>2, CleanUpTypes, MovePlaced, StateSets DEF Rename, Typed, Placed
<1>3. CASE tries' = [tries EXCEPT ![p] = @ + 1] /\ UNCHANGED <<file, tmp, handles, result>>
           /\ Goto(p, IF tries'[p] < Attempts THEN "rename" ELSE "inplace")
  <2>1. tries[p] + 1 \in 0 .. Attempts
    BY <1>1, ConstantsAssumption
  <2>2. tries' \in [Procs -> 0 .. Attempts] /\ \A q \in Procs : q # p => tries'[q] = tries[q]
    BY <1>3, <2>1 DEF Typed, TypeOK
  <2>3. PICK state \in {"rename", "inplace"} : Goto(p, state) /\ (state = "rename" => tries'[p] < Attempts)
    BY <1>3
  <2>4. pc' \in [Procs -> States] /\ pc'[p] = state /\ \A q \in Procs : q # p => pc'[q] = pc[q]
    BY <2>3, GotoType, StateSets DEF Typed
  <2>5. TypeOK'
    BY <1>3, <2>2, <2>4 DEF Rename, Typed, TypeOK, States
  <2> QED BY <1>1, <1>3, <2>2, <2>3, <2>4, <2>5, MovePlaced, StateSets DEF Rename, Typed, Placed
<1> QED BY <1>2, <1>3 DEF Rename

LEMMA InPlaceTyped ==
    ASSUME Typed, NEW p \in Procs, InPlace(p), UNCHANGED <<now, windows, denied>>
    PROVE  Typed'
<1>1. file # None /\ p \notin denied
  BY StateSets DEF InPlace, Typed, Placed
<1>2. CASE CleanUp(p, "failed") /\ UNCHANGED <<file, handles, events>>
  <2>1. "failed" \in Results
    BY DEF Results
  <2>2. TypeOK'
    BY <1>2, <2>1, CleanUpTypes DEF InPlace, Typed, TypeOK, States, Results
  <2> QED BY <1>1, <1>2, <2>1, <2>2, CleanUpTypes, MovePlaced, StateSets DEF InPlace, Typed, Placed
<1>3. CASE Goto(p, "rewrite") /\ UNCHANGED <<tmp, tries, result>> /\ windows /\ file' = Truncated
           /\ handles' = handles \cup {p} /\ events' = events \cup {"inplace"}
  <2>1. pc' \in [Procs -> States] /\ pc'[p] = "rewrite" /\ \A q \in Procs : q # p => pc'[q] = pc[q]
    BY <1>3, GotoType, StateSets DEF Typed
  <2>2. file' \in Contents /\ file' # None
    BY <1>3, ContentTypes, ConstantsAssumption
  <2>3. TypeOK'
    BY <1>3, <2>1, <2>2 DEF InPlace, Typed, TypeOK, States, Events
  <2> QED BY <1>1, <1>3, <2>1, <2>2, <2>3, MovePlaced, StateSets DEF InPlace, Typed, Placed
<1> QED BY <1>2, <1>3 DEF InPlace

LEMMA RewriteTyped ==
    ASSUME Typed, NEW p \in Procs, Rewrite(p), UNCHANGED <<now, windows, denied>>
    PROVE  Typed'
<1>1. file # None /\ p \notin denied /\ data[p] \in Contents /\ "inplace" \in events
  BY StateSets DEF Rewrite, Typed, Placed, TypeOK
<1>2. file' \in Contents /\ file' # None
  <2>1. [data[p] EXCEPT !.body = "part"] \in Contents
    BY <1>1 DEF Contents, Bodies
  <2> QED BY <1>1, <2>1, ContentTypes, ConstantsAssumption DEF Rewrite
<1>3. PICK r \in {"migrated", "failed"} : CleanUp(p, r)
  BY DEF Rewrite
<1>4. r \in Results
  BY DEF Results
<1>5. events' \subseteq Events /\ events \subseteq events' /\ handles' \subseteq Procs
  BY DEF Rewrite, Typed, TypeOK, Events
<1>6. TypeOK'
  BY <1>2, <1>3, <1>4, <1>5, CleanUpTypes DEF Rewrite, Typed, TypeOK, States, Results
<1> QED BY <1>1, <1>2, <1>3, <1>4, <1>5, <1>6, CleanUpTypes, MovePlaced, StateSets DEF Rewrite, Typed, Placed

LEMMA DieTyped ==
    ASSUME Typed, NEW p \in Procs, Die(p), UNCHANGED <<now, windows, denied>>
    PROVE  Typed'
<1>1. pc' \in [Procs -> States] /\ pc'[p] = "done" /\ \A q \in Procs : q # p => pc'[q] = pc[q]
  BY GotoType, StateSets DEF Die, Typed
<1>2. lock' \in Locks \cup {None}
  BY DEF Die, Typed, TypeOK, Locks
<1>3. /\ tries' \in [Procs -> 0 .. Attempts] /\ tries'[p] = 0 /\ deadline' \in [Procs -> Nat]
      /\ \A q \in Procs : q # p => tries'[q] = tries[q]
  BY ConstantsAssumption DEF Die, Typed, TypeOK
<1>4. cfg' \in [Procs -> Bodies \cup {None}] /\ data' \in [Procs -> Contents]
  BY ContentTypes DEF Die, Typed, TypeOK
<1>5. result' \in [Procs -> Results]
  BY DEF Die, Return, Typed, TypeOK, Results
<1>6. events' \subseteq Events /\ events \subseteq events' /\ ("broken" \in events' => "inplace" \in events')
  BY DEF Die, Typed, TypeOK, Events, Placed
<1>7. TypeOK'
  BY <1>1, <1>2, <1>3, <1>4, <1>5, <1>6 DEF Die, Typed, TypeOK, States, Results
<1> QED BY <1>1, <1>3, <1>6, <1>7, MovePlaced, StateSets DEF Die, Typed, Placed

LEMMA TickTyped ==
    ASSUME Typed, Tick, UNCHANGED <<windows, denied>>
    PROVE  Typed'
<1>1. now' \in 0 .. MaxTime
  BY ConstantsAssumption DEF Tick, Typed, TypeOK
<1>2. events' \subseteq Events /\ events \subseteq events' /\ ("broken" \in events' => "broken" \in events)
  BY DEF Tick, Typed, TypeOK, Events
<1>3. TypeOK'
  BY <1>1, <1>2 DEF Tick, locals, Typed, TypeOK
<1>4. Counted'
  BY DEF Tick, locals, Typed, Counted
<1>5. Placed'
  BY <1>2 DEF Tick, locals, Typed, Placed
<1> QED BY <1>3, <1>4, <1>5 DEF Typed

\* What a process does by itself.
Act(p) == Begin(p) \/ Die(p) \/ Check(p) \/ Create(p) \/ Encode(p) \/ Load(p) \/ Reload(p)
          \/ EnsureSchema(p)

LEMMA NextActs ==
    ASSUME [Next]_vars
    PROVE  \/ \E p \in Procs : Act(p) /\ UNCHANGED <<now, windows, denied>>
           \/ Tick /\ UNCHANGED <<windows, denied>>
           \/ UNCHANGED vars
BY DEF Next, Step, Act

LEMMA NextTyped == ASSUME Typed, [Next]_vars PROVE Typed'
<1>1. ASSUME NEW p \in Procs, Act(p), UNCHANGED <<now, windows, denied>> PROVE Typed'
  BY <1>1, BeginTyped, DieTyped, CheckTyped, CreateTyped, EncodeTyped, LoadTyped, ReloadTyped,
     OpenTyped, StatTyped, RemoveTyped, ReleaseTyped, ReadTyped, MakeTempTyped, RenameTyped,
     InPlaceTyped, RewriteTyped
  DEF Act, EnsureSchema
<1>2. CASE UNCHANGED vars
  BY <1>2 DEF vars, locals, Typed, TypeOK, Counted, Placed
<1> QED BY <1>1, <1>2, NextActs, TickTyped

-----------------------------------------------------------------------------
(* What a step of one process leaves alone                                 *)

LEMMA Locality ==
    ASSUME TypeOK, NEW p \in Procs, Act(p)
    PROVE  \A q \in Procs : q # p => /\ pc'[q] = pc[q] /\ cfg'[q] = cfg[q] /\ data'[q] = data[q]
                                     /\ deadline'[q] = deadline[q] /\ result'[q] = result[q]
<1> SUFFICES ASSUME NEW q \in Procs, q # p
             PROVE  /\ pc'[q] = pc[q] /\ cfg'[q] = cfg[q] /\ data'[q] = data[q]
                    /\ deadline'[q] = deadline[q] /\ result'[q] = result[q]
  OBVIOUS
<1>1. pc'[q] = pc[q]
  BY DEF Act, EnsureSchema, TypeOK, Goto, Wait, CleanUp, Begin, Die, Check, Create, Encode, Load,
         Reload, Open, Stat, Remove, Release, Read, MakeTemp, Rename, InPlace, Rewrite
<1>2. cfg'[q] = cfg[q]
  BY DEF Act, EnsureSchema, TypeOK, Begin, Die, Check, Create, Encode, Load,
         Reload, Open, Stat, Remove, Release, Read, MakeTemp, Rename, InPlace, Rewrite
<1>3. data'[q] = data[q]
  BY DEF Act, EnsureSchema, TypeOK, Begin, Die, Check, Create, Encode, Load,
         Reload, Open, Stat, Remove, Release, Read, MakeTemp, Rename, InPlace, Rewrite
<1>4. deadline'[q] = deadline[q]
  BY DEF Act, EnsureSchema, TypeOK, Wait, Begin, Die, Check, Create, Encode, Load,
         Reload, Open, Stat, Remove, Release, Read, MakeTemp, Rename, InPlace, Rewrite
<1>5. result'[q] = result[q]
  BY DEF Act, EnsureSchema, TypeOK, Return, CleanUp, Begin, Die, Check, Create, Encode, Load,
         Reload, Open, Stat, Remove, Release, Read, MakeTemp, Rename, InPlace, Rewrite
<1> QED BY <1>1, <1>2, <1>3, <1>4, <1>5

\* The ways into and out of the lock.
Enters(p) == /\ pc[p] = "open" /\ lock = None /\ p \notin denied
             /\ lock' = [by |-> p, at |-> now] /\ pc'[p] = "read" /\ Seen(p)
Removes(p) == /\ pc[p] \in {"remove", "release"}
              /\ lock' = IF Removable(p) THEN None ELSE lock
              /\ Seen(p)
              /\ pc[p] = "remove" => pc'[p] = "open"
              /\ pc[p] = "release" => pc'[p] \notin Locked \cup Waiting
Leaves(p) == /\ lock' = IF lock # None /\ lock.by = p THEN [lock EXCEPT !.by = Nobody] ELSE lock
             /\ pc'[p] = "done" /\ met' = met
             /\ events \subseteq events'
Passes(p) == /\ lock' = lock
             /\ pc'[p] \in Locked <=> pc[p] \in Locked
             /\ pc'[p] = "remove" => Stale

LEMMA LockSteps ==
    ASSUME TypeOK, NEW p \in Procs, Act(p)
    PROVE  /\ events \subseteq events'
           /\ Enters(p) \/ Removes(p) \/ Leaves(p) \/ Passes(p)
<1>0. pc \in [Procs -> States]
  BY DEF TypeOK, States
<1>1. events \subseteq events'
  BY DEF Act, EnsureSchema, Begin, Die, Check, Create, Encode, Load,
         Reload, Open, Stat, Remove, Release, Read, MakeTemp, Rename, InPlace, Rewrite
<1>2. CASE Open(p)
  <2>1. CASE lock # None
    BY <1>0, <1>2, <2>1, StateSets DEF Open, Goto, Passes
  <2>2. CASE lock = None /\ p \in denied
    BY <1>0, <1>2, <2>2, StateSets DEF Open, Goto, Passes
  <2>3. CASE lock = None /\ p \notin denied
    BY <1>0, <1>2, <2>3 DEF Open, Goto, Enters
  <2> QED BY <1>1, <2>1, <2>2, <2>3
<1>3. CASE Remove(p) \/ Release(p)
  BY <1>0, <1>1, <1>3, StateSets DEF Remove, Release, Goto, Removes
<1>4. CASE Die(p)
  BY <1>0, <1>1, <1>4 DEF Die, Goto, Leaves
<1>5. CASE Stat(p)
  BY <1>0, <1>1, <1>5, StateSets DEF Stat, Goto, Passes
<1>6. CASE Begin(p) \/ Check(p) \/ Create(p) \/ Encode(p) \/ Load(p) \/ Reload(p)
  BY <1>0, <1>1, <1>6, StateSets DEF Begin, Check, Create, Encode, Load, Reload, Wait, Goto, Passes
<1>7. CASE Read(p) \/ MakeTemp(p) \/ InPlace(p) \/ Rewrite(p)
  BY <1>0, <1>1, <1>7, StateSets DEF Read, MakeTemp, InPlace, Rewrite, CleanUp, Goto, Passes
<1>8. CASE Rename(p)
  BY <1>0, <1>1, <1>8, StateSets DEF Rename, CleanUp, Goto, Passes
<1> QED BY <1>2, <1>3, <1>4, <1>5, <1>6, <1>7, <1>8 DEF Act, EnsureSchema

-----------------------------------------------------------------------------
(* The lock                                                                *)

LEMMA StaleToldStays ==
    ASSUME Typed, StaleTold, [Next]_vars
    PROVE  StaleTold'
<1>1. ASSUME NEW p \in Procs, Act(p), UNCHANGED <<now, windows, denied>> PROVE StaleTold'
  <2>1. events \subseteq events' /\ (Enters(p) \/ Removes(p) \/ Leaves(p) \/ Passes(p))
    BY <1>1, LockSteps DEF Typed
  <2>2. \A q \in Procs : q # p => pc'[q] = pc[q]
    BY <1>1, Locality DEF Typed
  <2>3. now \in Int /\ Timeout > 0 /\ Timeout \in Int /\ lock \in Locks \cup {None}
    BY ConstantsAssumption DEF Typed, TypeOK
  <2>4. pc'[p] = "remove" => Stale
    BY <2>1, StateSets DEF Enters, Removes, Leaves, Passes
  <2>5. Stale' => Stale
    BY <1>1, <2>1, <2>3 DEF Stale, Enters, Removes, Leaves, Passes, Locks
  <2> QED BY <2>1, <2>2, <2>4, <2>5 DEF StaleTold
<1>2. CASE Tick
  BY <1>2 DEF Tick, locals, StaleTold
<1>3. CASE UNCHANGED vars
  BY <1>3 DEF vars, locals, StaleTold, Stale
<1> QED BY <1>1, <1>2, <1>3, NextActs

LEMMA OwnsLockStays ==
    ASSUME Typed, StaleTold, OwnsLock, [Next]_vars
    PROVE  OwnsLock'
<1>1. ASSUME NEW p \in Procs, Act(p), UNCHANGED <<now, windows, denied>>, windows \/ Prompt',
             NEW q \in Procs, pc'[q] \in Locked
      PROVE  lock' # None /\ lock'.by = q
  <2>1. events \subseteq events' /\ (Enters(p) \/ Removes(p) \/ Leaves(p) \/ Passes(p))
    BY <1>1, LockSteps DEF Typed
  <2>2. \A r \in Procs : r # p => pc'[r] = pc[r]
    BY <1>1, Locality DEF Typed
  <2>3. windows \/ Prompt
    BY <1>1, <2>1 DEF Prompt
  <2>4. CASE Enters(p)
    <3>1. p = q
      BY <1>1, <2>2, <2>3, <2>4 DEF OwnsLock, Enters
    <3>2. lock' \in Locks
      BY <2>4 DEF Enters, Locks, Typed, TypeOK
    <3> QED BY <2>4, <3>1, <3>2, ConstantsAssumption DEF Enters
  <2>5. CASE Removes(p)
    <3>1. p # q /\ pc[q] \in Locked
      BY <1>1, <2>2, <2>5, StateSets DEF Removes
    <3>2. lock # None /\ lock.by = q
      BY <2>3, <3>1 DEF OwnsLock
    <3>3. pc[p] = "remove"
      BY <2>3, <2>5, <3>1, <3>2, StateSets DEF OwnsLock, Removes
    <3>4. windows /\ q # Nobody
      BY <1>1, <2>1, <3>3, ConstantsAssumption DEF StaleTold, Prompt
    <3> QED BY <2>5, <3>1, <3>2, <3>4 DEF Removes, Removable
  <2>6. CASE Leaves(p)
    <3>1. p # q /\ pc[q] \in Locked
      BY <1>1, <2>2, <2>6, StateSets DEF Leaves
    <3> QED BY <2>3, <2>6, <3>1 DEF OwnsLock, Leaves
  <2>7. CASE Passes(p)
    BY <1>1, <2>2, <2>3, <2>7 DEF OwnsLock, Passes
  <2> QED BY <2>1, <2>4, <2>5, <2>6, <2>7
<1>2. CASE Tick /\ UNCHANGED <<windows, denied>>
  BY <1>2 DEF Tick, locals, OwnsLock, Prompt
<1>3. CASE UNCHANGED vars
  BY <1>3 DEF vars, locals, OwnsLock, Prompt
<1>4. ASSUME NEW p \in Procs, Act(p), UNCHANGED <<now, windows, denied>> PROVE OwnsLock'
  BY <1>1, <1>4 DEF OwnsLock
<1> QED BY <1>2, <1>3, <1>4, NextActs

\* Who is under the lock is alone there, under the same conditions.
LEMMA Alone == OwnsLock => Serialized
BY DEF OwnsLock, Serialized

\* A lock belongs to one who is at work under it, or to nobody.
Attended ==
    lock # None => \/ lock.by = Nobody
                   \/ lock.by \in Procs /\ pc[lock.by] \in Locked

LEMMA AttendedStays ==
    ASSUME Typed, Attended, [Next]_vars
    PROVE  Attended'
<1>1. ASSUME NEW p \in Procs, Act(p), UNCHANGED <<now, windows, denied>> PROVE Attended'
  <2>1. Enters(p) \/ Removes(p) \/ Leaves(p) \/ Passes(p)
    BY <1>1, LockSteps DEF Typed
  <2>2. \A r \in Procs : r # p => pc'[r] = pc[r]
    BY <1>1, Locality DEF Typed
  <2>3. lock \in Locks \cup {None}
    BY DEF Typed, TypeOK
  <2>4. CASE Enters(p)
    BY <2>4, StateSets DEF Enters, Attended
  <2>5. CASE Removes(p)
    <3>1. CASE Removable(p)
      BY <2>5, <3>1 DEF Removes, Attended
    <3>2. CASE ~Removable(p)
      <4>1. lock' = lock
        BY <2>5, <3>2 DEF Removes
      <4>2. pc[p] = "release" => p \notin denied
        BY StateSets DEF Typed, Placed
      <4>3. pc[p] = "release" => lock.by # p
        BY <3>2, <4>2 DEF Removable
      <4>4. lock # None => lock.by # p \/ lock.by = Nobody
        BY <2>5, <4>3, StateSets DEF Removes, Attended
      <4> QED BY <2>2, <4>1, <4>4 DEF Attended
    <3> QED BY <3>1, <3>2
  <2>6. CASE Leaves(p)
    <3>1. CASE lock # None /\ lock.by = p
      <4>1. lock'.by = Nobody
        BY <2>3, <2>6, <3>1 DEF Leaves, Locks
      <4> QED BY <4>1 DEF Attended
    <3>2. CASE ~(lock # None /\ lock.by = p)
      BY <2>2, <2>6, <3>2 DEF Leaves, Attended
    <3> QED BY <3>1, <3>2
  <2>7. CASE Passes(p)
    BY <2>2, <2>7 DEF Passes, Attended
  <2> QED BY <2>1, <2>4, <2>5, <2>6, <2>7
<1>2. CASE Tick
  BY <1>2 DEF Tick, locals, Attended
<1>3. CASE UNCHANGED vars
  BY <1>3 DEF vars, locals, Attended
<1> QED BY <1>1, <1>2, <1>3, NextActs

-----------------------------------------------------------------------------
(* What is left behind                                                     *)

LEMMA TempSteps ==
    ASSUME Typed, LeavesNothing, NEW p \in Procs, Act(p)
    PROVE  /\ tmp' \subseteq tmp \cup {p, Nobody}
           /\ p \in tmp' => pc'[p] \in Writing
<1>0. pc \in [Procs -> States] /\ p # Nobody /\ (p \in tmp => pc[p] \in Writing)
  BY ConstantsAssumption DEF Typed, TypeOK, States, LeavesNothing
<1>1. CASE MakeTemp(p) \/ Rename(p) \/ InPlace(p) \/ Rewrite(p)
  BY <1>0, <1>1, StateSets DEF MakeTemp, Rename, InPlace, Rewrite, CleanUp, Goto
<1>2. CASE Die(p)
  BY <1>0, <1>2 DEF Die
<1>3. CASE Begin(p) \/ Check(p) \/ Create(p) \/ Encode(p) \/ Load(p) \/ Reload(p)
           \/ Open(p) \/ Stat(p) \/ Remove(p) \/ Release(p) \/ Read(p)
  <2>1. tmp' = tmp /\ pc[p] \notin Writing
    BY <1>3, StateSets DEF Begin, Check, Create, Encode, Load, Reload, Open, Stat, Remove, Release, Read
  <2> QED BY <1>0, <2>1
<1> QED BY <1>1, <1>2, <1>3 DEF Act, EnsureSchema

LEMMA LeavesNothingStays ==
    ASSUME Typed, LeavesNothing, [Next]_vars
    PROVE  LeavesNothing'
<1>1. ASSUME NEW p \in Procs, Act(p), UNCHANGED <<now, windows, denied>> PROVE LeavesNothing'
  <2>1. Enters(p) \/ Removes(p) \/ Leaves(p) \/ Passes(p)
    BY <1>1, LockSteps DEF Typed
  <2>2. \A q \in Procs : q # p => pc'[q] = pc[q]
    BY <1>1, Locality DEF Typed
  <2>3. \A q \in tmp' : q = Nobody \/ pc'[q] \in Writing
    <3> SUFFICES ASSUME NEW q \in tmp', q # Nobody PROVE pc'[q] \in Writing
      OBVIOUS
    <3>1. CASE q = p
      BY <1>1, <3>1, TempSteps
    <3>2. CASE q # p
      <4>1. q \in tmp /\ q \in Procs
        BY <1>1, <3>2, TempSteps DEF Typed, TypeOK
      <4> QED BY <2>2, <3>2, <4>1 DEF LeavesNothing
    <3> QED BY <3>1, <3>2
  <2>4. ASSUME lock' # None, lock'.by # Nobody PROVE pc'[lock'.by] \in Locked
    <3>0. lock \in Locks \cup {None} /\ (lock # None => lock.by \in Procs \cup {Nobody})
      BY DEF Typed, TypeOK, Locks
    <3>1. CASE Enters(p)
      BY <3>1, StateSets DEF Enters
    <3>2. CASE Removes(p)
      <4>1. lock' = lock /\ lock.by \in Procs /\ pc[lock.by] \in Locked /\ ~Removable(p)
        BY <2>4, <3>0, <3>2 DEF Removes, LeavesNothing
      <4>2. lock.by # p
        <5> SUFFICES ASSUME lock.by = p PROVE FALSE
          OBVIOUS
        <5>1. p \notin denied
          BY <4>1 DEF Typed, Placed
        <5> QED BY <4>1, <5>1 DEF Removable
      <4> QED BY <2>2, <4>1, <4>2
    <3>3. CASE Leaves(p)
      <4>1. lock' = lock /\ lock.by \in Procs /\ lock.by # p
        BY <2>4, <3>0, <3>3 DEF Leaves, Locks
      <4> QED BY <2>2, <2>4, <4>1 DEF LeavesNothing
    <3>4. CASE Passes(p)
      BY <2>2, <2>4, <3>0, <3>4 DEF Passes, LeavesNothing
    <3> QED BY <2>1, <3>1, <3>2, <3>3, <3>4
  <2> QED BY <2>3, <2>4 DEF LeavesNothing
<1>2. CASE Tick
  BY <1>2 DEF Tick, locals, LeavesNothing
<1>3. CASE UNCHANGED vars
  BY <1>3 DEF vars, locals, LeavesNothing
<1> QED BY <1>1, <1>2, <1>3, NextActs

-----------------------------------------------------------------------------
(* Patience                                                                *)

\* How a process may come to wait, or go on waiting, and what it then knows.
LEMMA WaitSteps ==
    ASSUME Typed, Patient, TimeoutIsEarned, NEW p \in Procs, Act(p), UNCHANGED now
    PROVE  /\ pc'[p] \in Waiting /\ p \notin met' /\ lock' # None =>
                  /\ lock.at + Timeout <= deadline'[p] /\ lock # None /\ lock'.at = lock.at
           /\ pc'[p] = "stat" /\ p \notin met' => lock' # None
           /\ result'[p] = "timeout" => pc'[p] = "done" /\ p \in met'
<1>0. /\ pc \in [Procs -> States] /\ deadline \in [Procs -> Nat] /\ result \in [Procs -> Results]
      /\ met \subseteq Procs /\ now \in Nat /\ Timeout \in Nat /\ lock \in Locks \cup {None}
  BY ConstantsAssumption DEF Typed, TypeOK, States, Results
<1>1. /\ pc[p] \in Waiting /\ p \notin met /\ lock # None => lock.at + Timeout <= deadline[p]
      /\ pc[p] = "stat" /\ p \notin met => lock # None
      /\ result[p] = "timeout" => pc[p] = "done" /\ p \in met
      /\ lock # None => lock.at <= now
      /\ lock # None => lock.at \in Int
  BY <1>0 DEF Patient, TimeoutIsEarned, Locks
<1>2. CASE Begin(p) \/ Create(p) \/ Encode(p) \/ Reload(p)
  <2>1. pc[p] # "done" /\ result' = result /\ pc'[p] \in {"check", "encode", "done"}
    BY <1>0, <1>2 DEF Begin, Create, Encode, Reload, Goto
  <2> QED BY <1>1, <2>1, StateSets
<1>3. CASE Check(p) \/ Load(p)
  <2>1. pc[p] # "done" /\ result' = result /\ lock' = lock
        /\ (pc'[p] \in {"done", "create", "load"} \/ Wait(p))
    BY <1>0, <1>3 DEF Check, Load, Goto
  <2>2. CASE Wait(p)
    <3>1. pc'[p] = "open" /\ deadline'[p] = now + Timeout
      BY <1>0, <2>2 DEF Wait, Goto
    <3> QED BY <1>0, <1>1, <2>1, <3>1
  <2>3. CASE pc'[p] \in {"done", "create", "load"}
    BY <1>1, <2>1, <2>3, StateSets
  <2> QED BY <2>1, <2>2, <2>3
<1>4. CASE Open(p)
  <2>1. pc[p] = "open" /\ result' = result
    BY <1>4 DEF Open
  <2>2. CASE lock # None
    <3>1. pc'[p] = "stat" /\ UNCHANGED <<lock, deadline, met>>
      BY <1>0, <1>4, <2>2 DEF Open, Goto
    <3> QED BY <1>1, <2>1, <2>2, <3>1, StateSets
  <2>3. CASE lock = None
    <3>1. pc'[p] \in {"done", "read"}
      BY <1>0, <1>4, <2>3 DEF Open, Goto
    <3> QED BY <1>1, <2>1, <3>1, StateSets
  <2> QED BY <2>2, <2>3
<1>5. CASE Stat(p)
  <2>1. pc[p] = "stat" /\ UNCHANGED <<lock, deadline, met>>
    BY <1>5 DEF Stat
  <2>2. CASE result' = result /\ pc'[p] \in {"remove", "open"}
    BY <1>1, <2>1, <2>2, StateSets
  <2>3. CASE ~Stale /\ now > deadline[p] /\ pc'[p] = "done"
    <3>1. p \in met
      <4> SUFFICES ASSUME p \notin met PROVE FALSE
        OBVIOUS
      <4>1. lock # None /\ lock.at + Timeout <= deadline[p] /\ deadline[p] \in Int
        BY <1>0, <1>1, <2>1, StateSets
      <4>2. ~(now - lock.at > Timeout)
        BY <2>3, <4>1 DEF Stale
      <4> QED BY <1>0, <1>1, <2>3, <4>1, <4>2
    <3> QED BY <2>1, <2>3, <3>1, StateSets
  <2> QED BY <1>0, <1>5, <2>2, <2>3 DEF Stat, Goto
<1>6. CASE Remove(p)
  <2>1. pc[p] = "remove" /\ pc'[p] = "open" /\ UNCHANGED <<deadline, result>>
        /\ (lock' = None \/ lock' = lock) /\ met \subseteq met'
    BY <1>0, <1>6 DEF Remove, Goto, Seen
  <2> QED BY <1>1, <2>1, StateSets
<1>7. CASE Release(p) \/ Die(p)
  <2>1. pc'[p] \in {"done", "reload"} /\ result'[p] = "none"
    BY <1>0, <1>7 DEF Release, Die, Goto, Return
  <2> QED BY <2>1, StateSets
<1>8. CASE Read(p)
  <2>1. pc'[p] \in {"temp", "release"} /\ result'[p] # "timeout"
    BY <1>0, <1>1, <1>8 DEF Read, Goto, Return
  <2> QED BY <2>1, StateSets
<1>9. CASE MakeTemp(p) \/ Rename(p) \/ InPlace(p) \/ Rewrite(p)
  <2>1. pc'[p] \in Locked
    BY <1>0, <1>9, StateSets DEF MakeTemp, Rename, InPlace, Rewrite, CleanUp, Goto
  <2>2. result'[p] # "timeout"
    BY <1>0, <1>1, <1>9 DEF MakeTemp, Rename, InPlace, Rewrite, CleanUp, Return
  <2> QED BY <2>1, <2>2, StateSets
<1> QED BY <1>2, <1>3, <1>4, <1>5, <1>6, <1>7, <1>8, <1>9 DEF Act, EnsureSchema

\* Whoever makes or removes the lock is seen by those that wait.
LEMMA OthersSee ==
    ASSUME Typed, NEW p \in Procs, Act(p), NEW q \in Procs, q # p, pc[q] \in Waiting
    PROVE  q \in met' \/ (q \notin met /\ (lock' # None => lock # None /\ lock'.at = lock.at)
                                      /\ (lock # None => lock' # None))
<1>1. CASE Enters(p) \/ Removes(p)
  BY <1>1 DEF Enters, Removes, Seen
<1>2. CASE Leaves(p)
  <2>1. lock' = lock \/ (lock # None /\ lock' = [lock EXCEPT !.by = Nobody])
    BY <1>2 DEF Leaves
  <2>2. lock # None => lock' # None /\ lock'.at = lock.at
    BY <2>1, ConstantsAssumption DEF Typed, TypeOK, Locks
  <2> QED BY <1>2, <2>1, <2>2 DEF Leaves
<1>3. CASE Passes(p)
  <2>1. q \in met => q \in met'
    BY DEF Act, EnsureSchema, Wait, Seen, Begin, Die, Check, Create, Encode, Load,
         Reload, Open, Stat, Remove, Release, Read, MakeTemp, Rename, InPlace, Rewrite
  <2> QED BY <1>3, <2>1 DEF Passes
<1> QED BY <1>1, <1>2, <1>3, LockSteps DEF Typed

LEMMA PatientStays ==
    ASSUME Typed, Patient, TimeoutIsEarned, [Next]_vars
    PROVE  Patient' /\ TimeoutIsEarned'
<1>1. ASSUME NEW p \in Procs, Act(p), UNCHANGED <<now, windows, denied>>
      PROVE  Patient' /\ TimeoutIsEarned'
  <2>1. Enters(p) \/ Removes(p) \/ Leaves(p) \/ Passes(p)
    BY <1>1, LockSteps DEF Typed
  <2>2. lock' # None => lock'.at <= now'
    <3>1. now \in Int /\ lock \in Locks \cup {None}
      BY DEF Typed, TypeOK
    <3> QED BY <1>1, <2>1, <3>1 DEF Enters, Removes, Leaves, Passes, Locks, Patient
  <2>3. ASSUME NEW q \in Procs
        PROVE  /\ pc'[q] \in Waiting /\ q \notin met' /\ lock' # None => lock'.at + Timeout <= deadline'[q]
               /\ pc'[q] = "stat" /\ q \notin met' => lock' # None
               /\ result'[q] = "timeout" => pc'[q] = "done" /\ q \in met'
    <3>1. CASE q = p
      BY <1>1, <3>1, WaitSteps
    <3>2. CASE q # p
      <4>1. pc'[q] = pc[q] /\ deadline'[q] = deadline[q] /\ result'[q] = result[q]
        BY <1>1, <3>2, Locality DEF Typed
      <4>2. q \in met => q \in met'
        BY <1>1, <3>2 DEF Act, EnsureSchema, Wait, Seen, Begin, Die, Check, Create, Encode, Load,
           Reload, Open, Stat, Remove, Release, Read, MakeTemp, Rename, InPlace, Rewrite
      <4>3. CASE pc[q] \in Waiting
        BY <1>1, <3>2, <4>1, <4>2, <4>3, OthersSee, StateSets DEF Patient, TimeoutIsEarned
      <4>4. CASE pc[q] \notin Waiting
        BY <4>1, <4>2, <4>4, StateSets DEF Patient, TimeoutIsEarned
      <4> QED BY <4>3, <4>4
    <3> QED BY <3>1, <3>2
  <2> QED BY <2>2, <2>3 DEF Patient, TimeoutIsEarned
<1>2. CASE Tick
  <2>1. now \in Int /\ lock \in Locks \cup {None} /\ now' = now + 1
    BY <1>2 DEF Tick, Typed, TypeOK
  <2> QED BY <1>2, <2>1 DEF Tick, locals, Patient, TimeoutIsEarned, Locks
<1>3. CASE UNCHANGED vars
  BY <1>3 DEF vars, locals, Patient, TimeoutIsEarned
<1> QED BY <1>1, <1>2, <1>3, NextActs

-----------------------------------------------------------------------------
(* The parameters of the user                                              *)

\* What a step makes of the file.
LEMMA FileSteps ==
    ASSUME Typed, NEW p \in Procs, Act(p)
    PROVE  \/ file' = file /\ (pc[p] = "rewrite" => "broken" \in events')
           \/ "bootstrap" \in events'
           \/ Rename(p) /\ file' = data[p]
           \/ InPlace(p) /\ windows /\ pc'[p] = "rewrite" /\ "inplace" \in events'
           \/ Rewrite(p) /\ (file' = data[p] \/ "broken" \in events')
<1>0. pc \in [Procs -> States]
  BY DEF Typed, TypeOK, States
<1>1. CASE Create(p)
  BY <1>1 DEF Create
<1>2. CASE Encode(p)
  BY <1>2 DEF Encode, Typed, Placed
<1>3. CASE Rename(p)
  BY <1>3 DEF Rename
<1>4. CASE InPlace(p)
  BY <1>0, <1>4 DEF InPlace, Goto
<1>5. CASE Rewrite(p)
  BY <1>5 DEF Rewrite
<1>6. CASE Die(p)
  BY <1>6 DEF Die
<1>7. CASE Begin(p) \/ Check(p) \/ Load(p) \/ Reload(p) \/ Open(p) \/ Stat(p) \/ Remove(p)
           \/ Release(p) \/ Read(p) \/ MakeTemp(p)
  BY <1>7 DEF Begin, Check, Load, Reload, Open, Stat, Remove, Release, Read, MakeTemp
<1> QED BY <1>1, <1>2, <1>3, <1>4, <1>5, <1>6, <1>7 DEF Act, EnsureSchema

\* How a process comes to write, and to go on writing.
LEMMA WritingSteps ==
    ASSUME Typed, NEW p \in Procs, Act(p)
    PROVE  /\ pc'[p] \in Writing =>
                 \/ pc[p] = "temp" /\ file' = file /\ data'[p] = Stamped(file)
                 \/ pc[p] \in Writing /\ data'[p] = data[p] /\ (file' = file \/ "inplace" \in events')
           /\ pc'[p] = "temp" => /\ file' = file /\ file # None
                                 /\ detectSchemaVersion(file) < CurrentSchemaVersion
<1>0. pc \in [Procs -> States] /\ data \in [Procs -> Contents]
  BY DEF Typed, TypeOK, States
<1>1. CASE MakeTemp(p)
  BY <1>0, <1>1, StateSets DEF MakeTemp, CleanUp, Goto
<1>2. CASE Rename(p) \/ InPlace(p)
  BY <1>0, <1>2, StateSets DEF Rename, InPlace, CleanUp, Goto
<1>3. CASE Rewrite(p)
  BY <1>0, <1>3, StateSets DEF Rewrite, CleanUp, Goto
<1>4. CASE Read(p)
  BY <1>0, <1>4, StateSets DEF Read, Goto, Typed, Placed
<1>5. CASE Begin(p) \/ Die(p) \/ Check(p) \/ Create(p) \/ Encode(p) \/ Load(p) \/ Reload(p)
  BY <1>0, <1>5, StateSets DEF Begin, Die, Check, Create, Encode, Load, Reload, Wait, Goto
<1>6. CASE Open(p) \/ Stat(p) \/ Remove(p) \/ Release(p)
  BY <1>0, <1>6, StateSets DEF Open, Stat, Remove, Release, Goto
<1> QED BY <1>1, <1>2, <1>3, <1>4, <1>5, <1>6 DEF Act, EnsureSchema

\* What a process loads, it finds in the file.
LEMMA LoadSteps ==
    ASSUME Typed, NEW p \in Procs, Act(p)
    PROVE  cfg'[p] = "part" => cfg[p] = "part" \/ (file \in Contents /\ file.body = "part")
<1>0. cfg \in [Procs -> Bodies \cup {None}] /\ None # "part"
  BY ConstantsAssumption DEF Typed, TypeOK, Bodies
<1>1. CASE Load(p) \/ Reload(p)
  <2>1. file \in Contents
    BY <1>1, StateSets DEF Load, Reload, Typed, TypeOK, Placed
  <2> QED BY <1>0, <1>1, <2>1 DEF Load, Reload
<1>2. CASE Die(p) \/ Create(p)
  BY <1>0, <1>2 DEF Die, Create
<1>3. CASE Begin(p) \/ Check(p) \/ Encode(p) \/ Open(p) \/ Stat(p) \/ Remove(p) \/ Release(p)
           \/ Read(p) \/ MakeTemp(p) \/ Rename(p) \/ InPlace(p) \/ Rewrite(p)
  BY <1>3 DEF Begin, Check, Encode, Open, Stat, Remove, Release, Read, MakeTemp, Rename, InPlace, Rewrite
<1> QED BY <1>1, <1>2, <1>3 DEF Act, EnsureSchema

LEMMA UserStays ==
    ASSUME Typed, OwnsLock, WritesUser, KeepsUserParameters, [Next]_vars
    PROVE  WritesUser' /\ KeepsUserParameters'
<1>1. ASSUME NEW p \in Procs, Act(p), UNCHANGED <<now, windows, denied>>, "bootstrap" \notin events'
      PROVE  /\ \A q \in Procs : pc'[q] \in Writing => data'[q].body = "user" \/ (windows /\ "broken" \in events')
             /\ file' # None /\ file'.body # "user" =>
                    windows /\ ("broken" \in events' \/ \E q \in Procs : pc'[q] = "rewrite")
             /\ \A q \in Procs : cfg'[q] = "part" => "inplace" \in events'
  <2>1. events \subseteq events' /\ "bootstrap" \notin events
    BY <1>1, LockSteps DEF Typed
  <2>2. \A q \in Procs : q # p => pc'[q] = pc[q] /\ data'[q] = data[q] /\ cfg'[q] = cfg[q]
    BY <1>1, Locality DEF Typed
  <2>3. \A q \in Procs : pc[q] \in Writing => data[q].body = "user" \/ (windows /\ "broken" \in events)
    BY <2>1 DEF WritesUser
  <2>4. file # None /\ file.body # "user" =>
                    windows /\ ("broken" \in events \/ \E q \in Procs : pc[q] = "rewrite")
    BY <2>1 DEF KeepsUserParameters
  <2>5. \A q \in Procs : pc'[q] \in Writing => data'[q].body = "user" \/ (windows /\ "broken" \in events')
    <3>1. CASE pc'[p] \in Writing /\ pc[p] = "temp" /\ data'[p] = Stamped(file)
      <4>1. file # None /\ file \in Contents /\ data'[p].body = file.body
        BY <3>1, StampedType, StateSets DEF Typed, Placed, TypeOK
      <4>2. ASSUME NEW q \in Procs, pc[q] = "rewrite", windows PROVE FALSE
        BY <3>1, <4>2, StateSets DEF OwnsLock
      <4> QED BY <2>1, <2>2, <2>3, <2>4, <4>1, <4>2
    <3>2. CASE pc'[p] \in Writing => pc[p] \in Writing /\ data'[p] = data[p]
      BY <2>1, <2>2, <2>3, <3>2
    <3> QED BY <1>1, <3>1, <3>2, WritingSteps
  <2>6. file' # None /\ file'.body # "user" =>
                    windows /\ ("broken" \in events' \/ \E q \in Procs : pc'[q] = "rewrite")
    <3>1. CASE file' = file /\ (pc[p] = "rewrite" => "broken" \in events')
      BY <2>1, <2>2, <2>4, <3>1
    <3>2. CASE Rename(p) /\ file' = data[p]
      BY <2>1, <2>3, <3>2, StateSets DEF Rename
    <3>3. CASE InPlace(p) /\ windows /\ pc'[p] = "rewrite"
      BY <3>3
    <3>4. CASE Rewrite(p) /\ (file' = data[p] \/ "broken" \in events')
      <4>1. pc[p] = "rewrite" /\ windows
        BY <3>4 DEF Rewrite, Typed, Placed
      <4> QED BY <2>1, <2>3, <3>4, <4>1, StateSets
    <3> QED BY <1>1, <3>1, <3>2, <3>3, <3>4, FileSteps
  <2>7. \A q \in Procs : cfg'[q] = "part" => "inplace" \in events'
    <3>1. \A q \in Procs : cfg[q] = "part" => "inplace" \in events
      BY <2>1 DEF KeepsUserParameters
    <3>2. file \in Contents /\ file.body = "part" => "inplace" \in events
      BY <2>4, ConstantsAssumption DEF Typed, Placed
    <3>3. cfg'[p] = "part" => "inplace" \in events
      BY <1>1, <3>1, <3>2, LoadSteps
    <3> QED BY <2>1, <2>2, <3>1, <3>3
  <2> QED BY <2>5, <2>6, <2>7
<1>2. ASSUME NEW p \in Procs, Act(p), UNCHANGED <<now, windows, denied>>
      PROVE  WritesUser' /\ KeepsUserParameters'
  BY <1>1, <1>2 DEF WritesUser, KeepsUserParameters
<1>3. CASE Tick /\ UNCHANGED <<windows, denied>>
  BY <1>3 DEF Tick, locals, WritesUser, KeepsUserParameters
<1>4. CASE UNCHANGED vars
  BY <1>4 DEF vars, locals, WritesUser, KeepsUserParameters
<1> QED BY <1>2, <1>3, <1>4, NextActs

-----------------------------------------------------------------------------
(* One migration                                                           *)

\* While things are calm only the owner of the lock changes the file.
LEMMA CalmSteps ==
    ASSUME Typed, OwnsLock, NEW p \in Procs, Act(p), UNCHANGED windows, Calm'
    PROVE  /\ Calm
           /\ file' = file \/ (pc[p] = "rename" /\ pc'[p] = "release" /\ file' = data[p])
           /\ \A q \in Procs : q # p /\ pc[q] \in Locked => file' = file
<1>1. Calm /\ "inplace" \notin events' /\ "inplace" \notin events /\ "bootstrap" \notin events'
  BY LockSteps DEF Calm, Prompt, Typed
<1>2. pc[p] # "rewrite"
  BY <1>1 DEF Typed, Placed
<1>3. file' = file \/ (Rename(p) /\ file' = data[p])
  BY <1>1, <1>2, FileSteps DEF Rewrite
<1>4. Rename(p) => pc[p] = "rename" /\ (pc'[p] = "release" \/ file' = file)
  BY DEF Rename, CleanUp, Goto, Typed, TypeOK
<1>5. ASSUME NEW q \in Procs, q # p, pc[q] \in Locked PROVE file' = file
  BY <1>1, <1>3, <1>4, <1>5, StateSets DEF OwnsLock, Calm
<1> QED BY <1>1, <1>3, <1>4, <1>5

LEMMA OnceStays ==
    ASSUME Typed, OwnsLock, WritesOnce, [Next]_vars
    PROVE  WritesOnce'
<1>1. ASSUME NEW p \in Procs, Act(p), UNCHANGED <<now, windows, denied>>, Calm',
             NEW q \in Procs, pc'[q] \in {"temp"} \cup Writing
      PROVE  /\ detectSchemaVersion(file') = 0
             /\ pc'[q] \in Writing => data'[q] = Stamped(file')
  <2>1. Calm /\ (file' = file \/ (pc[p] = "rename" /\ pc'[p] = "release" /\ file' = data[p]))
    BY <1>1, CalmSteps
  <2>2. CASE q = p
    <3>1. CASE pc'[p] = "temp"
      <4>1. file' = file /\ detectSchemaVersion(file) < 1 /\ file \in Contents
        BY <1>1, <3>1, WritingSteps DEF CurrentSchemaVersion, Typed, TypeOK
      <4>2. detectSchemaVersion(file) \in 0 .. 2
        BY <4>1 DEF detectSchemaVersion, Contents, Versions
      <4> QED BY <2>2, <3>1, <4>1, <4>2, StateSets
    <3>2. CASE pc'[p] \in Writing
      <4>1. file' = file
        BY <2>1, <3>2, StateSets
      <4>2. \/ pc[p] = "temp" /\ data'[p] = Stamped(file)
            \/ pc[p] \in Writing /\ data'[p] = data[p]
        BY <1>1, <3>2, WritingSteps
      <4> QED BY <2>1, <2>2, <4>1, <4>2 DEF WritesOnce
    <3> QED BY <1>1, <2>2, <3>1, <3>2
  <2>3. CASE q # p
    <3>1. pc'[q] = pc[q] /\ data'[q] = data[q]
      BY <1>1, <2>3, Locality DEF Typed
    <3>2. file' = file
      BY <1>1, <2>3, <3>1, CalmSteps, StateSets
    <3> QED BY <1>1, <2>1, <3>1, <3>2 DEF WritesOnce
  <2> QED BY <2>2, <2>3
<1>2. ASSUME NEW p \in Procs, Act(p), UNCHANGED <<now, windows, denied>> PROVE WritesOnce'
  BY <1>1, <1>2 DEF WritesOnce, detectSchemaVersion, Stamped, Zeros
<1>3. CASE Tick /\ UNCHANGED <<windows, denied>>
  BY <1>3 DEF Tick, locals, WritesOnce, Calm, Prompt
<1>4. CASE UNCHANGED vars
  BY <1>4 DEF vars, locals, WritesOnce, Calm, Prompt
<1> QED BY <1>2, <1>3, <1>4, NextActs

-----------------------------------------------------------------------------

(* A file of a newer version                                               *)

Newer == file # None /\ detectSchemaVersion(file) > CurrentSchemaVersion

\* Nobody is about to write where there is a newer file, and nobody writes one.
LeavesNewer ==
    /\ Newer => \A p \in Procs : pc[p] \notin {"create", "encode", "temp"} \cup Writing
    /\ \A p \in Procs : pc[p] \in Writing => detectSchemaVersion(data[p]) <= CurrentSchemaVersion

\* No step writes to a file of a newer build, whoever starts together, and also
\* where the lock does not serialize.
NewerIsUntouched == [][Newer => file' = file]_vars

LEMMA StampedVersion ==
    ASSUME NEW c \in Contents, detectSchemaVersion(c) <= 1
    PROVE  detectSchemaVersion(Stamped(c)) <= 1
<1> DEFINE first == CHOOSE i \in Zeros(c) : \A j \in Zeros(c) : i <= j
           stamped == IF Zeros(c) = {} THEN <<1>> \o c.ver ELSE [c.ver EXCEPT ![first] = 1]
<1>1. c.ver \in Seq(Versions) /\ Stamped(c) = [c EXCEPT !.ver = stamped]
  BY DEF Contents, Stamped, CurrentSchemaVersion
<1>2. Stamped(c).ver = stamped
  <2> HIDE DEF stamped
  <2> QED BY <1>1 DEF Contents
<1>3. CASE Zeros(c) = {}
  <2>1. stamped # <<>> /\ stamped[1] = 1
    BY <1>1, <1>3
  <2> QED BY <1>2, <2>1 DEF detectSchemaVersion
<1>4. CASE Zeros(c) # {}
  <2>1. 1 \in DOMAIN c.ver /\ c.ver # <<>> /\ DOMAIN c.ver = 1 .. Len(c.ver)
    <3>1. DOMAIN c.ver = 1 .. Len(c.ver) /\ Len(c.ver) \in Nat
      BY <1>1
    <3>2. PICK i : i \in DOMAIN c.ver
      BY <1>4 DEF Zeros
    <3>3. 1 \in DOMAIN c.ver
      BY <3>1, <3>2
    <3>4. c.ver # <<>>
      <4>1. Len(<<>>) = 0 /\ Len(c.ver) # 0
        BY <3>1, <3>2
      <4> QED BY <4>1, Zenon
    <3> QED BY <3>1, <3>3, <3>4
  <2>2. c.ver[1] <= 1
    BY <2>1 DEF detectSchemaVersion
  <2>3. stamped = [c.ver EXCEPT ![first] = 1]
    BY <1>4
  <2> HIDE DEF first, stamped
  <2>4. stamped[1] = 1 \/ stamped[1] = c.ver[1]
    BY <2>1, <2>3
  <2>5. stamped # <<>>
    <3>1. DOMAIN stamped = DOMAIN c.ver
      BY <2>3
    <3> QED BY <2>1, <3>1
  <2> QED BY <1>2, <2>2, <2>4, <2>5 DEF detectSchemaVersion
<1> QED BY <1>3, <1>4

\* What is written is old, and written by who is about to.
LEMMA WrittenVersions ==
    ASSUME Typed, NEW p \in Procs, Act(p), file' # file,
           pc[p] \in Writing => detectSchemaVersion(data[p]) <= 1
    PROVE  /\ pc[p] \in {"create", "encode"} \cup Writing
           /\ file' # None => detectSchemaVersion(file') <= 1
<1>1. detectSchemaVersion(Truncated) = 0 /\ detectSchemaVersion(DefaultConfig) = 1
  BY DEF detectSchemaVersion, Truncated, DefaultConfig, CurrentSchemaVersion
<1>2. CASE Create(p) \/ Encode(p)
  BY <1>1, <1>2 DEF Create, Encode
<1>3. CASE Rename(p) \/ InPlace(p)
  BY <1>1, <1>3, StateSets DEF Rename, InPlace
<1>4. CASE Rewrite(p)
  <2>1. data[p] \in Contents /\ pc[p] \in Writing
    BY <1>4, StateSets DEF Rewrite, Typed, TypeOK
  <2>2. [data[p] EXCEPT !.body = "part"].ver = data[p].ver
    BY <2>1 DEF Contents
  <2>3. detectSchemaVersion([data[p] EXCEPT !.body = "part"]) <= 1
    BY <2>1, <2>2 DEF detectSchemaVersion
  <2>4. file' \in {data[p], Truncated, [data[p] EXCEPT !.body = "part"]}
    BY <1>4 DEF Rewrite
  <2> QED BY <1>1, <2>1, <2>3, <2>4
<1>5. CASE Begin(p) \/ Die(p) \/ Check(p) \/ Load(p) \/ Reload(p) \/ Open(p) \/ Stat(p) \/ Remove(p)
           \/ Release(p) \/ Read(p) \/ MakeTemp(p)
  BY <1>5 DEF Begin, Die, Check, Load, Reload, Open, Stat, Remove, Release, Read, MakeTemp
<1> QED BY <1>2, <1>3, <1>4, <1>5 DEF Act, EnsureSchema

\* A process comes to create the file only where there is none.
LEMMA CreatingSteps ==
    ASSUME Typed, NEW p \in Procs, Act(p)
    PROVE  /\ pc'[p] = "create" => file = None /\ file' = file
           /\ pc'[p] = "encode" => pc[p] = "create"
<1>0. pc \in [Procs -> States]
  BY DEF Typed, TypeOK, States
<1>1. CASE Check(p) \/ Create(p)
  BY <1>0, <1>1 DEF Check, Create, Wait, Goto
<1>2. CASE Begin(p) \/ Die(p) \/ Encode(p) \/ Load(p) \/ Reload(p) \/ Open(p)
  BY <1>0, <1>2 DEF Begin, Die, Encode, Load, Reload, Open, Wait, Goto
<1>3. CASE Stat(p) \/ Remove(p) \/ Release(p) \/ Read(p) \/ MakeTemp(p)
  BY <1>0, <1>3 DEF Stat, Remove, Release, Read, MakeTemp, CleanUp, Goto
<1>4. CASE Rename(p) \/ InPlace(p) \/ Rewrite(p)
  BY <1>0, <1>4 DEF Rename, InPlace, Rewrite, CleanUp, Goto
<1> QED BY <1>1, <1>2, <1>3, <1>4 DEF Act, EnsureSchema

LEMMA VersionType == \A c \in Contents : detectSchemaVersion(c) \in 0 .. 2
BY DEF detectSchemaVersion, Contents, Versions

LEMMA NewerStays ==
    ASSUME Typed, LeavesNewer, [Next]_vars
    PROVE  LeavesNewer' /\ (Newer => file' = file)
<1> DEFINE Writers == {"create", "encode", "temp"} \cup Writing
<1>1. CurrentSchemaVersion = 1
  BY DEF CurrentSchemaVersion
<1>2. ASSUME NEW p \in Procs, Act(p) PROVE LeavesNewer' /\ (Newer => file' = file)
  <2>1. \A q \in Procs : q # p => pc'[q] = pc[q] /\ data'[q] = data[q]
    BY <1>2, Locality DEF Typed
  <2>2. /\ pc[p] \in Writing => detectSchemaVersion(data[p]) <= 1
        /\ Newer => \A q \in Procs : pc[q] \notin Writers
    BY <1>1, Zenon DEF LeavesNewer
  <2>3. file' # file => pc[p] \in Writers /\ (file' # None => detectSchemaVersion(file') <= 1)
    BY <1>2, <2>2, WrittenVersions
  <2>4. Newer => file' = file
    BY <2>2, <2>3
  <2>5. file' # file => ~Newer'
    <3>1. file' # None => detectSchemaVersion(file') \in Int
      <4>1. file' # None => file' \in Contents
        BY NextTyped DEF Typed, TypeOK
      <4> QED BY <4>1, VersionType
    <3> QED BY <1>1, <2>3, <3>1 DEF Newer
  <2>6. Newer' => Newer
    BY <2>5 DEF Newer
  <2>7. Newer' => pc'[p] \notin Writers
    <3> SUFFICES ASSUME Newer', pc'[p] \in Writers PROVE FALSE
      OBVIOUS
    <3>1. Newer /\ file' = file /\ file \in Contents /\ file # None
      BY <2>4, <2>6 DEF Newer, Typed, TypeOK
    <3>2. pc[p] \notin Writers
      BY <2>2, <3>1
    <3>3. pc'[p] # "create" /\ pc'[p] # "encode"
      BY <1>2, <3>1, <3>2, CreatingSteps
    <3>4. pc'[p] = "temp"
      BY <1>2, <3>2, <3>3, WritingSteps
    <3>5. detectSchemaVersion(file) < 1 /\ detectSchemaVersion(file) > 1
      BY <1>1, <1>2, <3>1, <3>4, WritingSteps DEF Newer
    <3> QED BY <3>1, <3>5, VersionType
  <2>8. pc'[p] \in Writing => detectSchemaVersion(data'[p]) <= 1
    <3>1. CASE pc[p] \in Writing /\ data'[p] = data[p]
      BY <2>2, <3>1
    <3>2. CASE pc[p] = "temp" /\ data'[p] = Stamped(file)
      <4>1. ~Newer /\ file # None /\ file \in Contents
        BY <2>2, <3>2, StateSets DEF Typed, TypeOK, Placed
      <4>2. detectSchemaVersion(file) <= 1
        BY <1>1, <4>1, VersionType DEF Newer
      <4> QED BY <3>2, <4>1, <4>2, StampedVersion
    <3> QED BY <1>2, <3>1, <3>2, WritingSteps
  <2>9. \A q \in Procs : pc'[q] \in Writing => detectSchemaVersion(data'[q]) <= CurrentSchemaVersion
    BY <1>1, <2>1, <2>8 DEF LeavesNewer
  <2>10. Newer' => \A q \in Procs : pc'[q] \notin Writers
    BY <2>1, <2>2, <2>6, <2>7
  <2> QED BY <1>1, <2>4, <2>9, <2>10 DEF LeavesNewer, CurrentSchemaVersion
<1>3. CASE UNCHANGED <<file, pc, data>>
  BY <1>3 DEF LeavesNewer, Newer, detectSchemaVersion
<1> QED BY <1>2, <1>3, NextActs DEF Tick, vars, locals

-----------------------------------------------------------------------------
(* The theorems                                                            *)

LEMMA InitInv == Init => IInv
<1> SUFFICES ASSUME Init PROVE IInv
  OBVIOUS
<1>1. /\ \A p \in Procs : pc[p] = "idle" /\ result[p] = "none" /\ cfg[p] = None
      /\ tmp = {} /\ now = 0 /\ (lock # None => lock.by = Nobody /\ lock.at = -Timeout - 1)
      /\ (Stale => "stale" \in events)
      /\ (file # None => file.body = "user")
  BY DEF Init
<1>2. StaleTold /\ OwnsLock /\ WritesUser /\ WritesOnce
  BY <1>1, StateSets DEF StaleTold, OwnsLock, WritesUser, WritesOnce
<1>3. LeavesNothing
  BY <1>1 DEF LeavesNothing
<1>4. Patient /\ TimeoutIsEarned
  BY <1>1, StateSets, ConstantsAssumption DEF Patient, TimeoutIsEarned
<1>5. None # "part"
  BY ConstantsAssumption DEF Bodies
<1>6. KeepsUserParameters
  BY <1>1, <1>5 DEF KeepsUserParameters
<1> QED BY <1>2, <1>3, <1>4, <1>6, InitTypes DEF IInv

LEMMA NextInv == IInv /\ [Next]_vars => IInv'
BY NextTyped, StaleToldStays, OwnsLockStays, LeavesNothingStays, PatientStays, UserStays, OnceStays
DEF IInv

LEMMA Invariance == Spec => []IInv
BY InitInv, NextInv, PTL DEF Spec

\* The files, the lock and the control state of every process keep their types.
THEOREM TypeCorrect == Spec => []TypeOK
<1>1. IInv => TypeOK
  BY DEF IInv, Typed
<1> QED BY <1>1, Invariance, PTL

\* The lock of EnsureSchema serializes any number of processes, on Windows always
\* and elsewhere as long as no lock becomes stale.
THEOREM LockSerializes == Spec => []Serialized
<1>1. IInv => Serialized
  BY Alone DEF IInv
<1> QED BY <1>1, Invariance, PTL

\* Nothing but a rewrite in place that did not end loses what the user has written.
THEOREM ParametersAreKept == Spec => []KeepsUserParameters
<1>1. IInv => KeepsUserParameters
  BY DEF IInv
<1> QED BY <1>1, Invariance, PTL

\* EnsureSchema leaves no temporary file and no lock, however it ends.
THEOREM NothingIsLeft == Spec => []LeavesNothing
<1>1. IInv => LeavesNothing
  BY DEF IInv
<1> QED BY <1>1, Invariance, PTL

\* withConfigLock gives up on a live contender only, whatever the dead left.
THEOREM TimeoutsAreEarned == Spec => []TimeoutIsEarned
<1>1. IInv => TimeoutIsEarned
  BY DEF IInv
<1> QED BY <1>1, Invariance, PTL

\* A legacy file is stamped once, whoever starts together.
THEOREM FileMigratesOnce == Spec => MigratesOnce
<1>1. ASSUME IInv, [Next]_vars, windows \/ Prompt', events' \cap {"bootstrap", "inplace"} = {}
      PROVE  file' = file \/ (detectSchemaVersion(file) = 0 /\ file' = Stamped(file))
  <2>1. ASSUME NEW p \in Procs, Act(p), UNCHANGED <<now, windows, denied>>
        PROVE  file' = file \/ (detectSchemaVersion(file) = 0 /\ file' = Stamped(file))
    <3>1. Calm'
      BY <1>1, <2>1 DEF Calm
    <3>2. Calm /\ (file' = file \/ (pc[p] = "rename" /\ file' = data[p]))
      BY <1>1, <2>1, <3>1, CalmSteps DEF IInv
    <3> QED BY <1>1, <3>2, StateSets DEF IInv, WritesOnce
  <2>2. CASE Tick \/ UNCHANGED vars
    BY <2>2 DEF Tick, vars
  <2> QED BY <1>1, <2>1, <2>2, NextActs
<1>2. IInv /\ [Next]_vars =>
        [ (windows \/ Prompt') /\ events' \cap {"bootstrap", "inplace"} = {} =>
            \/ file' = file
            \/ detectSchemaVersion(file) = 0 /\ file' = Stamped(file) ]_vars
  BY <1>1
<1> QED BY <1>2, Invariance, PTL DEF Spec, MigratesOnce

\* "Refuse to run with unknown fields": a file that a newer build has written is
\* never changed, by any number of processes and whatever dies or fails, also
\* where two of them are under the lock at once.
THEOREM NewerFilesAreUntouched == Spec => NewerIsUntouched
<1>1. Init => LeavesNewer
  BY StateSets DEF Init, LeavesNewer
<1>2. Spec => [](IInv /\ LeavesNewer)
  BY <1>1, InitInv, NextInv, NewerStays, PTL DEF Spec, IInv
<1>3. IInv /\ LeavesNewer /\ [Next]_vars => [Newer => file' = file]_vars
  BY NewerStays DEF IInv
<1> QED BY <1>2, <1>3, PTL DEF Spec, NewerIsUntouched

\* Whoever withConfigLock keeps waiting, and may remove a file, waits for another
\* process that is at work under the lock it made, or meets one that died with its
\* owner and that it can remove itself.
LocksGiveWay ==
    \A p \in Procs \ denied : pc[p] \in Waiting /\ lock # None =>
        \/ \E q \in Procs \ {p} : lock.by = q /\ pc[q] \in Locked
        \/ lock.by = Nobody /\ Removable(p)

\* No process waits for a lock that nobody is left to remove, whoever died with it
\* or had it taken away: the safety half of StartsEnd.
THEOREM NobodyWaitsInVain == Spec => []LocksGiveWay
<1>1. Init => Attended
  BY DEF Init, Attended
<1>2. Spec => [](IInv /\ Attended)
  BY <1>1, InitInv, NextInv, AttendedStays, PTL DEF Spec, IInv
<1>3. IInv /\ Attended => LocksGiveWay
  BY StateSets DEF IInv, Typed, TypeOK, Attended, LocksGiveWay, Removable
<1> QED BY <1>2, <1>3, PTL
==============================================================================
