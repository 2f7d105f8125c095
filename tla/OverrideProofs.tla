--------------------------- MODULE OverrideProofs ----------------------------
(***************************************************************************)
(* What the override table holds is whole, and its status tells what became *)
(* of the last round, for any number of files, URLs, versions and names.    *)
(***************************************************************************)
EXTENDS OverrideTable, TLAPS

\* What is read of a source is a version that it has published.
Published == body # None => Loading /\ body.of <= version[Source]

\* How far a round has come.
Told ==
    /\ phase = "files" /\ failed = None =>
          \A i \in DOMAIN FileList : i < next => FileList[i] \in loaded
    /\ phase = "urls" /\ failed = None =>
          \A i \in DOMAIN UrlList : i < next => UrlList[i] \in fresh
    /\ phase = "urls" /\ failed # None =>
          \E i \in DOMAIN UrlList : i < next /\ failed = UrlList[i] /\ failed \notin fresh
    /\ phase = "urls" => \A i \in DOMAIN UrlList : UrlList[i] \in fresh => i < next
    /\ phase \in {"urls", "wait"} => UrlList # <<>>
    /\ phase = "wait" => next = 1 /\ failed = None

Typed == TypeOK /\ Published

IInv == Typed /\ EntriesAreWhole /\ Told /\ StatusTellsTheRound

-----------------------------------------------------------------------------
(* Types                                                                   *)

LEMMA SourceType ==
    ASSUME TypeOK, Loading
    PROVE  /\ next \in DOMAIN List
           /\ Source \in Sources
           /\ Source \in IF phase = "files" THEN Files ELSE Urls
BY ConstantsAssumption DEF TypeOK, Loading, List, Source, Sources, Files, Urls, Elements

LEMMA ParseType == ASSUME NEW lines PROVE Parse(lines) \in Tables /\ Parse(lines) # None
<1>1. Parse(lines) \in Tables
  BY DEF Parse, Tables
<1>2. None \notin Tables
  BY ConstantsAssumption
<1> QED BY <1>1, <1>2

LEMMA ContinueTypes ==
    ASSUME TypeOK, Loading, NEW err \in BOOLEAN, Continue(err)
    PROVE  next' \in Nat \ {0} /\ failed' \in Sources \cup {None} /\ body' = None
BY SourceType DEF Continue, TypeOK

LEMMA InitTypes == Init => Typed
<1> SUFFICES ASSUME Init PROVE Typed
  OBVIOUS
<1>1. version \in [Sources -> 1 .. MaxVersion]
  BY ConstantsAssumption DEF Init
<1>2. health \in [Sources -> Healths]
  BY DEF Init, Healths
<1>3. table \in [Sources -> Tables \cup {None}]
  BY DEF Init
<1>4. /\ lastError = None /\ failed = None /\ body = None /\ next \in Nat \ {0}
      /\ phase = "files" /\ loaded = {} /\ fresh = {}
  BY DEF Init
<1>5. refresh \in BOOLEAN /\ spent \in BOOLEAN /\ cancelled \in BOOLEAN
  BY DEF Init
<1>6. /\ lastError \in Sources \cup {None} /\ failed \in Sources \cup {None}
      /\ body \in Bodies \cup {None} /\ phase \in {"files", "urls", "wait", "ended"}
      /\ loaded \subseteq Sources /\ fresh \subseteq loaded
  BY <1>4
<1>7. TypeOK
  BY <1>1, <1>2, <1>3, <1>4, <1>5, <1>6 DEF TypeOK
<1> QED BY <1>4, <1>7 DEF Typed, Published

LEMMA NextTypes == ASSUME Typed, [Next]_vars PROVE Typed'
<1>1. CASE UNCHANGED vars
  BY <1>1 DEF vars, world, Typed, TypeOK, Published, Loading, List, Source
<1>2. CASE Open
  BY <1>2, SourceType DEF Open, world, Typed, TypeOK, Published, Loading, List, Source, Bodies
<1>3. CASE BadRequest
  BY <1>3, SourceType, ContinueTypes DEF BadRequest, Fail, world, Typed, TypeOK, Published
<1>4. CASE Refused
  BY <1>4, SourceType, ContinueTypes DEF Refused, Fail, world, Typed, TypeOK, Published
<1>5. CASE Hang
  BY <1>5 DEF Hang, world, Typed, TypeOK, Published, Loading, List, Source
<1>6. CASE ReadLine
  <2>1. body' \in Bodies /\ body'.of = body.of
    BY <1>6 DEF ReadLine, Unread, Typed, TypeOK, Bodies
  <2> QED BY <1>6, <2>1 DEF ReadLine, Unread, world, Typed, TypeOK, Published, Loading, List, Source
<1>7. CASE ReadFail
  BY <1>7, SourceType, ContinueTypes DEF ReadFail, Unread, Fail, world, Typed, TypeOK, Published
<1>8. CASE Commit
  <2>1. Loading /\ Source \in Sources
    BY <1>8, SourceType DEF Commit, Unread, Typed
  <2>2. next' \in Nat \ {0} /\ failed' \in Sources \cup {None} /\ body' = None
    BY <1>8, <2>1, ContinueTypes DEF Commit, Typed
  <2>3. table' \in [Sources -> Tables \cup {None}]
    <3>1. PICK lines \in LetThrough(TextRead) : table' = [table EXCEPT ![Source] = Parse(lines)]
      BY <1>8 DEF Commit
    <3>2. Parse(lines) \in Tables
      BY ParseType
    <3> QED BY <3>1, <3>2 DEF Typed, TypeOK
  <2> QED BY <1>8, <2>1, <2>2, <2>3 DEF Commit, world, Typed, TypeOK, Published
<1>9. CASE EndRound
  <2>1. body = None
    BY <1>9 DEF EndRound, Typed, Published, Loading, TypeOK, List
  <2> QED BY <1>9, <2>1 DEF EndRound, world, Typed, TypeOK, Published
<1>10. CASE Tick \/ Exit
  BY <1>10 DEF Tick, Exit, world, Typed, TypeOK, Published, Loading
<1>11. CASE Shutdown
  BY <1>11 DEF Shutdown, world, Typed, TypeOK, Published, Loading, List, Source
<1>12. ASSUME NEW s \in Sources, Publish(s) PROVE Typed'
  <2>1. version' \in [Sources -> 1 .. MaxVersion]
    <3>1. version[s] \in 1 .. MaxVersion /\ version[s] < MaxVersion /\ MaxVersion \in Nat
      BY <1>12, ConstantsAssumption DEF Publish, Typed, TypeOK
    <3>3. version[s] + 1 \in 1 .. MaxVersion
      BY <3>1
    <3>2. version \in [Sources -> 1 .. MaxVersion] /\ version' = [version EXCEPT ![s] = version[s] + 1]
      BY <1>12 DEF Publish, Typed, TypeOK
    <3> QED BY <3>2, <3>3
  <2>2. \A t \in Sources : version[t] <= version'[t]
    <3>1. \A t \in Sources : version[t] \in Int /\ version'[t] = IF t = s THEN version[t] + 1 ELSE version[t]
      BY <1>12, ConstantsAssumption DEF Publish, Typed, TypeOK
    <3> QED BY <3>1
  <2>3. Published'
    <3>1. SUFFICES ASSUME body # None PROVE Loading /\ body.of <= version'[Source]
      BY <1>12 DEF Publish, Published, Loading, List, Source
    <3>2. Loading /\ body.of <= version[Source] /\ Source \in Sources
      BY <3>1, SourceType DEF Typed, Published
    <3>3. body.of \in Int
      BY <3>1 DEF Typed, TypeOK, Bodies
    <3>4. version[Source] \in Int /\ version'[Source] \in Int /\ version[Source] <= version'[Source]
      BY <3>2, <2>1, <2>2, ConstantsAssumption DEF Typed, TypeOK
    <3> QED BY <3>2, <3>3, <3>4
  <2> QED BY <1>12, <2>1, <2>3 DEF Publish, Typed, TypeOK
<1>13. ASSUME NEW s \in Sources, Falter(s) PROVE Typed'
  <2>1. health' \in [Sources -> Healths]
    BY <1>13 DEF Falter, Typed, TypeOK, Healths
  <2> QED BY <1>13, <2>1 DEF Falter, Typed, TypeOK, Published, Loading, List, Source
<1> QED
  BY <1>1, <1>2, <1>3, <1>4, <1>5, <1>6, <1>7, <1>8, <1>9, <1>10, <1>11, <1>12, <1>13
  DEF Next, Step

-----------------------------------------------------------------------------
(* Entries                                                                 *)

\* What is committed has every line of the text, or of what the limit lets through.
LEMMA LetThroughWhole ==
    ASSUME NEW s \in Sources, NEW v \in 1 .. MaxVersion, NEW lines \in LetThrough(Text[s][v]),
           s \in Files <=> phase = "files"
    PROVE  IF s \in Files \/ Len(Text[s][v]) <= Limit
           THEN lines = Text[s][v]
           ELSE \A n \in Names :
                   Parse(SubSeq(Text[s][v], 1, Limit))[n] \subseteq Parse(lines)[n]
<1> DEFINE text == Text[s][v]
           cut == SubSeq(text, 1, Limit)
<1>1. text \in Seq(Line) /\ Limit \in Nat
  BY ConstantsAssumption
<1>2. CASE s \in Files \/ Len(text) <= Limit
  BY <1>2 DEF LetThrough
<1>3. CASE ~(s \in Files \/ Len(text) <= Limit)
  <2>1. lines = cut \/ \E n \in Names : lines = Append(cut, <<n, text[Limit + 1][2]>>)
    BY <1>3 DEF LetThrough
  <2>2. cut \in Seq(Line)
    BY <1>1, <1>3
  <2>3. Elements(cut) \subseteq Elements(lines)
    <3>1. ASSUME NEW x, lines = Append(cut, x) PROVE Elements(cut) \subseteq Elements(lines)
      <4>1. \A i \in DOMAIN cut : i \in DOMAIN lines /\ lines[i] = cut[i]
        BY <2>2, <3>1
      <4> QED BY <4>1 DEF Elements
    <3> QED BY <2>1, <3>1
  <2> QED BY <1>3, <2>3 DEF Parse
<1> QED BY <1>2, <1>3

LEMMA WholeStays ==
    ASSUME TypeOK, EntriesAreWhole, UNCHANGED <<table, loaded>>,
           \A s \in Sources : version[s] <= version'[s], version' \in [Sources -> 1 .. MaxVersion]
    PROVE  EntriesAreWhole'
<1> SUFFICES ASSUME NEW s \in loaded
             PROVE  \E v \in 1 .. version'[s] :
                      IF s \in Files \/ Len(Text[s][v]) <= Limit
                      THEN table[s] = Parse(Text[s][v])
                      ELSE /\ table[s] # None
                           /\ \A n \in Names :
                                 Parse(SubSeq(Text[s][v], 1, Limit))[n] \subseteq table[s][n]
  BY DEF EntriesAreWhole
<1>1. s \in Sources /\ 1 .. version[s] \subseteq 1 .. version'[s]
  BY ConstantsAssumption DEF TypeOK
<1> QED BY <1>1 DEF EntriesAreWhole

LEMMA CommitWhole == ASSUME Typed, EntriesAreWhole, Commit PROVE EntriesAreWhole'
<1>1. /\ Source \in Sources /\ body \in Bodies /\ body.of \in 1 .. version[Source]
      /\ Source \in Files <=> phase = "files"
  <2>1. Loading /\ body # None /\ TypeOK /\ Published
    BY DEF Commit, Unread, Typed
  <2>2. Source \in Sources /\ Source \in IF phase = "files" THEN Files ELSE Urls
    BY <2>1, SourceType
  <2>3. Source \in Files <=> phase = "files"
    BY <2>2, ConstantsAssumption
  <2>4. body \in Bodies
    BY <2>1 DEF TypeOK
  <2>5. body.of \in 1 .. MaxVersion /\ body.of <= version[Source] /\ version[Source] \in 1 .. MaxVersion
    BY <2>1, <2>2, <2>4 DEF TypeOK, Published, Bodies
  <2>6. body.of \in 1 .. version[Source]
    BY <2>5, ConstantsAssumption
  <2> QED BY <2>2, <2>3, <2>4, <2>6
<1>2. PICK lines \in LetThrough(TextRead) : table' = [table EXCEPT ![Source] = Parse(lines)]
  BY DEF Commit
<1>3. table'[Source] = Parse(lines)
  BY <1>1, <1>2 DEF Typed, TypeOK
<1>4. IF Source \in Files \/ Len(Text[Source][body.of]) <= Limit
      THEN lines = Text[Source][body.of]
      ELSE \A n \in Names :
              Parse(SubSeq(Text[Source][body.of], 1, Limit))[n] \subseteq Parse(lines)[n]
  BY <1>1, <1>2, LetThroughWhole DEF TextRead, Bodies
<1> SUFFICES ASSUME NEW s \in loaded'
             PROVE  \E v \in 1 .. version[s] :
                      IF s \in Files \/ Len(Text[s][v]) <= Limit
                      THEN table'[s] = Parse(Text[s][v])
                      ELSE /\ table'[s] # None
                           /\ \A n \in Names :
                                 Parse(SubSeq(Text[s][v], 1, Limit))[n] \subseteq table'[s][n]
  BY DEF EntriesAreWhole, Commit, world
<1>5. CASE s = Source
  BY <1>1, <1>3, <1>4, <1>5, ParseType
<1>6. CASE s # Source
  <2>1. s \in loaded /\ s \in Sources
    BY <1>6 DEF Commit, Typed, TypeOK
  <2>2. table'[s] = table[s]
    BY <1>2, <1>6, <2>1 DEF Typed, TypeOK
  <2> QED BY <2>1, <2>2 DEF EntriesAreWhole
<1> QED BY <1>5, <1>6

LEMMA NextWhole == ASSUME Typed, EntriesAreWhole, [Next]_vars PROVE EntriesAreWhole'
<1>1. CASE Commit
  BY <1>1, CommitWhole
<1>2. CASE ~Commit
  <2>1. UNCHANGED <<table, loaded>>
    BY <1>2 DEF Next, Step, vars, Open, BadRequest, Refused, Hang, ReadLine, ReadFail, EndRound,
                Tick, Exit, Shutdown, Publish, Falter
  <2>2. \A s \in Sources : version[s] <= version'[s]
    <3>1. \/ version' = version
          \/ \E s \in Sources : version' = [version EXCEPT ![s] = version[s] + 1]
      BY DEF Next, Step, vars, world, Open, BadRequest, Refused, Hang, ReadLine, ReadFail, Commit,
             EndRound, Tick, Exit, Shutdown, Publish, Falter
    <3>2. version \in [Sources -> Int]
      BY ConstantsAssumption DEF Typed, TypeOK
    <3>3. CASE version' = version
      BY <3>2, <3>3
    <3>4. ASSUME NEW s \in Sources, version' = [version EXCEPT ![s] = version[s] + 1]
          PROVE  \A t \in Sources : version[t] <= version'[t]
      <4> TAKE t \in Sources
      <4>1. version[t] \in Int /\ version'[t] = IF t = s THEN version[s] + 1 ELSE version[t]
        BY <3>2, <3>4
      <4> QED BY <4>1
    <3> QED BY <3>1, <3>3, <3>4
  <2>3. version' \in [Sources -> 1 .. MaxVersion]
    BY NextTypes DEF Typed, TypeOK
  <2> QED BY <2>1, <2>2, <2>3, WholeStays DEF Typed
<1> QED BY <1>1, <1>2

-----------------------------------------------------------------------------
(* Errors                                                                  *)

\* What has been dealt with keeps its place in the list.
LEMMA FailTold ==
    ASSUME Typed, Told, Loading, Continue(TRUE), UNCHANGED <<phase, loaded, fresh>>
    PROVE  Told'
<1>1. next \in DOMAIN List /\ next \in Nat /\ next' = next + 1 /\ failed' = List[next] /\ failed' # None
  BY SourceType, ConstantsAssumption DEF Continue, Source, Typed, TypeOK
<1>2. phase = "urls" => List = UrlList /\ UrlList[next] \notin fresh
  BY <1>1 DEF List, Told
<1>3. \A i \in DOMAIN UrlList : i \in Nat
  BY ConstantsAssumption
<1>4. phase \in {"files", "urls"}
  BY DEF Loading
<1>5. CASE phase = "files"
  BY <1>1, <1>5 DEF Told
<1>6. CASE phase = "urls"
  <2>1. \E i \in DOMAIN UrlList : i < next' /\ failed' = UrlList[i] /\ failed' \notin fresh'
    BY <1>1, <1>2, <1>6
  <2>2. \A i \in DOMAIN UrlList : UrlList[i] \in fresh' => i < next'
    BY <1>1, <1>3, <1>6 DEF Told
  <2>3. UrlList # <<>>
    BY <1>6 DEF Told
  <2> QED BY <1>1, <1>6, <2>1, <2>2, <2>3 DEF Told
<1> QED BY <1>4, <1>5, <1>6

LEMMA CommitTold == ASSUME Typed, Told, Commit PROVE Told'
<1>1. /\ next \in DOMAIN List /\ next \in Nat /\ next' = next + 1 /\ failed' = failed
      /\ UNCHANGED phase
      /\ loaded' = loaded \cup {List[next]} /\ fresh' = fresh \cup {List[next]}
  BY SourceType DEF Commit, Unread, Continue, Source, Typed, TypeOK
<1>2. phase = "files" => List = FileList
  BY DEF List
<1>3. phase = "urls" => List = UrlList
  BY DEF List
<1>4. \A i \in DOMAIN UrlList \cup DOMAIN FileList : i \in Nat
  BY ConstantsAssumption
<1>5. \A i, j \in DOMAIN UrlList : UrlList[i] = UrlList[j] => i = j
  BY ConstantsAssumption
<1>6. phase \in {"files", "urls"}
  BY DEF Commit, Unread, Loading
<1>7. CASE phase = "files"
  <2>1. failed' = None => \A i \in DOMAIN FileList : i < next' => FileList[i] \in loaded'
    <3> SUFFICES ASSUME failed = None, NEW i \in DOMAIN FileList, i < next + 1
                 PROVE  FileList[i] \in loaded \cup {FileList[next]}
      BY <1>1, <1>2, <1>7
    <3>1. i < next => FileList[i] \in loaded
      BY <1>7 DEF Told
    <3> QED BY <1>1, <1>4, <3>1
  <2> QED BY <1>1, <1>7, <2>1 DEF Told
<1>8. CASE phase = "urls"
  <2>1. failed' = None => \A i \in DOMAIN UrlList : i < next' => UrlList[i] \in fresh'
    <3> SUFFICES ASSUME failed = None, NEW i \in DOMAIN UrlList, i < next + 1
                 PROVE  UrlList[i] \in fresh \cup {UrlList[next]}
      BY <1>1, <1>3, <1>8
    <3>1. i < next => UrlList[i] \in fresh
      BY <1>8 DEF Told
    <3> QED BY <1>1, <1>4, <3>1
  <2>2. failed' # None =>
           \E i \in DOMAIN UrlList : i < next' /\ failed' = UrlList[i] /\ failed' \notin fresh'
    <3> SUFFICES ASSUME failed # None
                 PROVE  \E i \in DOMAIN UrlList :
                           i < next + 1 /\ failed = UrlList[i] /\ failed \notin fresh \cup {UrlList[next]}
      BY <1>1, <1>3, <1>8
    <3>1. PICK i \in DOMAIN UrlList : i < next /\ failed = UrlList[i] /\ failed \notin fresh
      BY <1>8 DEF Told
    <3> QED BY <1>1, <1>3, <1>4, <1>5, <1>8, <3>1
  <2>3. \A i \in DOMAIN UrlList : UrlList[i] \in fresh' => i < next'
    <3> SUFFICES ASSUME NEW i \in DOMAIN UrlList, UrlList[i] \in fresh \cup {UrlList[next]}
                 PROVE  i < next + 1
      BY <1>1, <1>3, <1>8
    <3>1. UrlList[i] \in fresh => i < next
      BY <1>8 DEF Told
    <3> QED BY <1>1, <1>3, <1>4, <1>5, <1>8, <3>1
  <2>4. UrlList # <<>>
    BY <1>8 DEF Told
  <2> QED BY <1>1, <1>8, <2>1, <2>2, <2>3, <2>4 DEF Told
<1> QED BY <1>6, <1>7, <1>8

LEMMA NextTold ==
    ASSUME Typed, Told, StatusTellsTheRound, [Next]_vars
    PROVE  Told' /\ StatusTellsTheRound'
<1>1. CASE UNCHANGED <<lastError, phase, next, failed, loaded, fresh>>
  BY <1>1 DEF Told, StatusTellsTheRound
<1>2. CASE BadRequest \/ ReadFail
  <2>1. Loading /\ Continue(TRUE) /\ UNCHANGED <<phase, loaded, fresh>> /\ lastError' = Source
    BY <1>2 DEF BadRequest, ReadFail, Unread, Fail
  <2>2. Source # None
    BY <2>1, SourceType, ConstantsAssumption DEF Typed
  <2> QED BY <2>1, <2>2, FailTold DEF Loading, StatusTellsTheRound
<1>3. CASE Refused
  BY <1>3, FailTold DEF Refused, Fail, Loading, StatusTellsTheRound
<1>4. CASE Commit
  <2>1. phase \in {"files", "urls"} /\ UNCHANGED <<phase, lastError>> /\ loaded \subseteq loaded'
    BY <1>4 DEF Commit, Unread, Loading
  <2> QED BY <1>4, <2>1, CommitTold DEF StatusTellsTheRound
<1>5. CASE EndRound
  <2>1. /\ phase \in {"files", "urls"} /\ next > Len(List) /\ lastError' = failed
        /\ next' = 1 /\ failed' = None /\ UNCHANGED loaded
    BY <1>5 DEF EndRound
  <2>2. /\ FileList \in Seq(Files) /\ UrlList \in Seq(Urls)
        /\ Files = Elements(FileList) /\ Urls = Elements(UrlList)
    BY ConstantsAssumption DEF Files, Urls
  <2>3. CASE phase = "files"
    <3>1. failed = None => Files \subseteq loaded
      BY <2>1, <2>2, <2>3 DEF Told, List, Elements, Typed, TypeOK
    <3>2. phase' \in {"urls", "ended"} /\ (phase' = "urls" => fresh' = {})
          /\ (phase' = "ended" => UrlList = <<>>)
      BY <1>5, <2>3 DEF EndRound
    <3>3. Told'
      <4>1. \A i \in DOMAIN UrlList : ~(i < 1)
        BY ConstantsAssumption
      <4>2. phase' = "urls" => UrlList # <<>>
        BY <1>5, <2>3 DEF EndRound
      <4> QED BY <2>1, <3>2, <4>1, <4>2 DEF Told
    <3> QED BY <2>1, <3>1, <3>2, <3>3 DEF StatusTellsTheRound
  <2>4. CASE phase = "urls"
    <3>1. failed = None => Urls \subseteq fresh
      BY <2>1, <2>2, <2>4 DEF Told, List, Elements, Typed, TypeOK
    <3>2. failed # None => failed \in Urls \ fresh
      BY <2>2, <2>4 DEF Told, Elements
    <3>3. phase' \in {"wait", "ended"} /\ fresh' = fresh
      BY <1>5, <2>4 DEF EndRound
    <3>4. UrlList # <<>>
      BY <2>4 DEF Told
    <3>5. fresh \subseteq loaded
      BY DEF Typed, TypeOK
    <3> QED BY <2>1, <3>1, <3>2, <3>3, <3>4, <3>5 DEF Told, StatusTellsTheRound
  <2> QED BY <2>1, <2>3, <2>4
<1>6. CASE Tick \/ Exit
  <2>1. \A i \in DOMAIN UrlList : ~(i < 1)
    BY ConstantsAssumption
  <2>2. next = 1 /\ failed = None /\ UrlList # <<>> /\ phase = "wait"
        /\ UNCHANGED <<next, failed, lastError, loaded>>
    BY <1>6 DEF Tick, Exit, Told
  <2>3. CASE Tick
    BY <2>1, <2>2, <2>3 DEF Tick, Told, StatusTellsTheRound
  <2>4. CASE Exit
    BY <2>1, <2>2, <2>4 DEF Exit, Told, StatusTellsTheRound
  <2> QED BY <1>6, <2>3, <2>4
<1> QED
  BY <1>1, <1>2, <1>3, <1>4, <1>5, <1>6
  DEF Next, Step, vars, Open, Hang, ReadLine, Shutdown, Publish, Falter

-----------------------------------------------------------------------------

LEMMA Invariance == Spec => []IInv
<1>1. Init => IInv
  <2> SUFFICES ASSUME Init PROVE IInv
    OBVIOUS
  <2>1. phase = "files" /\ next = 1 /\ loaded = {} /\ fresh = {}
    BY DEF Init
  <2>2. EntriesAreWhole
    BY <2>1 DEF EntriesAreWhole
  <2>3. \A i \in DOMAIN FileList : ~(i < next)
    BY <2>1, ConstantsAssumption
  <2>4. Told /\ StatusTellsTheRound
    BY <2>1, <2>3 DEF Told, StatusTellsTheRound
  <2> QED BY <2>2, <2>4, InitTypes DEF IInv
<1>2. IInv /\ [Next]_vars => IInv'
  BY NextTypes, NextWhole, NextTold DEF IInv
<1> QED BY <1>1, <1>2, PTL DEF Spec

\* The table, its status and the control state of the loop keep their types.
THEOREM TypeCorrect == Spec => []TypeOK
<1>1. IInv => TypeOK
  BY DEF IInv, Typed
<1> QED BY <1>1, Invariance, PTL

\* Whatever fails in the middle of a read, and whatever is published meanwhile, a
\* source that was committed has all the entries of one of its versions.
THEOREM CommittedEntriesAreWhole == Spec => []EntriesAreWhole
<1>1. IInv => EntriesAreWhole
  BY DEF IInv
<1> QED BY <1>1, Invariance, PTL

\* An error is told between two rounds if and only if a URL was not read in the last.
THEOREM ErrorsAreTold == Spec => []StatusTellsTheRound
<1>1. IInv => StatusTellsTheRound
  BY DEF IInv
<1> QED BY <1>1, Invariance, PTL

-----------------------------------------------------------------------------
(* The manager, as Engine has it: the names it answers, and where its loop is. *)

Given(S) == { n \in Names : \E s \in S : table[s] # None /\ table[s][n] # {} }

LoopState == IF phase = "files" \/ UrlList = <<>> THEN "absent"
             ELSE IF phase = "urls" THEN "fetching"
             ELSE IF phase = "wait" THEN "waiting"
             ELSE "exited"

\* Nobody has the manager before newOverrideManager returns it.
Manager == [loop |-> LoopState, cancelled |-> cancelled,
            files |-> IF phase = "files" THEN {} ELSE Given(Files),
            urls |-> Given(Urls)]

EngineConfig(r) == [valid |-> TRUE, full |-> TRUE, polluted |-> {}, fallback |-> FALSE,
                    toDoH |-> FALSE, probe |-> FALSE, files |-> Names,
                    urls |-> IF UrlList = <<>> THEN {} ELSE Names, refresh |-> r]

Only(x) == [i \in {"boot"} |-> x]

\* The engine with this one manager, and no query, no reload and no shutdown yet.
E == INSTANCE Engine WITH
       Queries <- {}, Keys <- Names, KeyOf <- [q \in {} |-> q],
       Reloads <- {}, Boot <- "boot", None <- "nil", Configs <- { EngineConfig(r) : r \in BOOLEAN },
       MaxInflight <- 1, CacheSize <- 1,
       comp <- [c \in {"cfg", "matcher", "doh", "system", "systemFB", "prober"} |-> "boot"],
       overrideM <- "boot", conf <- Only(EngineConfig(refresh)), mgr <- Only(Manager),
       sem <- 0, store <- [k \in {} |-> {}], got <- {},
       pc <- [q \in {} |-> q], seen <- [q \in {} |-> q], snap <- [q \in {} |-> q],
       ans <- [q \in {} |-> q], since <- [q \in {} |-> q],
       reload <- [r \in {} |-> r], shut <- [pc |-> "idle", om |-> "nil"], epoch <- Only(0)

\* newOverrideManager returns.
Created ==
    /\ phase = "files"
    /\ \E files \in SUBSET EngineConfig(refresh).files :
          Only(Manager)' = [Only(Manager) EXCEPT !["boot"] = E!NewManager(EngineConfig(refresh), files)]

ManagerStep == Created \/ E!Loop("boot") \/ E!Cancel("boot")

\* The goroutine and its table do nothing that Engine's managers do not.
ImplementsManager == [][ManagerStep]_Manager

\* Until it is returned, no URL was fetched and nobody could shut it down.
Unseen == phase = "files" => ~cancelled /\ \A u \in Urls : table[u] = None

LEMMA OnlyIs == \A x, y : /\ Only(x)["boot"] = x
                          /\ [Only(x) EXCEPT !["boot"] = y] = Only(y)
BY DEF Only

\* A commit changes what its own source gives.
LEMMA CommitsOne ==
    ASSUME Typed, Commit
    PROVE  \A s \in Sources : s # Source => table'[s] = table[s]
<1>1. PICK lines \in LetThrough(TextRead) : table' = [table EXCEPT ![Source] = Parse(lines)]
  BY DEF Commit
<1> QED BY <1>1 DEF Typed, TypeOK

LEMMA CommitsWhere ==
    ASSUME Typed, Commit
    PROVE  /\ phase = "files" => \A u \in Urls : table'[u] = table[u]
           /\ phase = "urls" => \A f \in Files : table'[f] = table[f]
           /\ phase \in {"files", "urls"} /\ UNCHANGED <<phase, cancelled, refresh>>
<1>1. Loading
  BY DEF Commit, Unread
<1>2. Source \in IF phase = "files" THEN Files ELSE Urls
  BY <1>1, SourceType DEF Typed
<1>3. Files \subseteq Sources /\ Urls \subseteq Sources /\ Files \cap Urls = {}
  BY ConstantsAssumption DEF Sources
<1>4. phase \in {"files", "urls"} /\ UNCHANGED <<phase, cancelled, refresh>>
  BY <1>1 DEF Commit, Loading
<1> QED BY <1>2, <1>3, <1>4, CommitsOne

LEMMA NextUnseen == ASSUME Typed, Unseen, [Next]_vars PROVE Unseen'
<1>1. CASE Commit
  BY <1>1, CommitsWhere DEF Unseen
<1>2. CASE UNCHANGED <<table, cancelled>> /\ (phase' = "files" => phase = "files")
  BY <1>2 DEF Unseen
<1>3. CASE Shutdown
  BY <1>3 DEF Shutdown, Unseen
<1> QED
  BY <1>1, <1>2, <1>3
  DEF Next, Step, vars, Open, BadRequest, Refused, Hang, ReadLine, ReadFail, EndRound, Tick,
      Exit, Publish, Falter

\* What the manager answers depends on the table alone.
LEMMA GivenStays ==
    ASSUME NEW S, \A s \in S : table'[s] = table[s]
    PROVE  Given(S)' = Given(S)
BY DEF Given

\* The steps within a round, which only commits let others see.
LEMMA StepHidden ==
    ASSUME UNCHANGED <<table, phase, cancelled>>
    PROVE  UNCHANGED Manager
BY DEF Manager, LoopState, Given

\* What the loop does leaves all else of the engine alone.
LEMMA LoopOf ==
    ASSUME UNCHANGED refresh,
           \/ E!Load("boot") \/ E!FetchEnds("boot") \/ E!LoopTick("boot") \/ E!LoopExit("boot")
    PROVE  E!Loop("boot")
BY DEF E!Loop, E!Cache!Quiet, E!queryVars, Only, EngineConfig

LEMMA CommitLoads ==
    ASSUME Typed, Told, Commit
    PROVE  ManagerStep \/ UNCHANGED Manager
<1>1. CASE phase = "files"
  <2>1. UNCHANGED <<phase, cancelled>> /\ Given(Urls)' = Given(Urls)
    BY <1>1, CommitsWhere, GivenStays
  <2> QED BY <1>1, <2>1 DEF Manager, LoopState
<1>2. CASE phase = "urls"
  <2>1. UNCHANGED <<phase, cancelled, refresh>> /\ Given(Files)' = Given(Files)
    BY <1>2, CommitsWhere, GivenStays
  <2>2. UrlList # <<>>
    BY <1>2 DEF Told
  <2>3. Manager.loop = "fetching" /\ Manager' = [Manager EXCEPT !.urls = Given(Urls)']
    BY <1>2, <2>1, <2>2 DEF Manager, LoopState
  <2>4. Given(Urls)' \subseteq EngineConfig(refresh).urls
    BY <2>2 DEF Given, EngineConfig
  <2>5. E!Load("boot")
    BY <2>3, <2>4, OnlyIs DEF E!Load
  <2> QED BY <2>1, <2>5, LoopOf DEF ManagerStep
<1> QED BY <1>1, <1>2, CommitsWhere

LEMMA EndRoundEnds ==
    ASSUME Typed, Told, Unseen, EndRound
    PROVE  ManagerStep
<1>1. /\ UNCHANGED <<table, cancelled, refresh>>
      /\ Given(Files)' = Given(Files) /\ Given(Urls)' = Given(Urls)
  BY DEF EndRound, Given
<1>2. CASE phase = "files"
  <2>1. phase' = IF UrlList = <<>> THEN "ended" ELSE "urls"
    BY <1>2 DEF EndRound
  <2>2. Given(Urls) = {} /\ cancelled = FALSE
    BY <1>2 DEF Unseen, Given, Typed, TypeOK
  <2>3. (EngineConfig(refresh).urls = {}) <=> (UrlList = <<>>)
    BY ConstantsAssumption DEF EngineConfig
  <2>4. Manager' = [loop |-> LoopState', cancelled |-> FALSE, files |-> Given(Files), urls |-> {}]
    BY <1>1, <2>1, <2>2 DEF Manager
  <2>5. LoopState' = IF EngineConfig(refresh).urls = {} THEN "absent" ELSE "fetching"
    BY <2>1, <2>3 DEF LoopState
  <2>6. Manager' = E!NewManager(EngineConfig(refresh), Given(Files))
    BY <2>4, <2>5 DEF E!NewManager
  <2>7. Given(Files) \in SUBSET EngineConfig(refresh).files
    BY DEF Given, EngineConfig
  <2>8. Only(Manager)' = Only(Manager')
    BY DEF Only
  <2>9. Only(Manager') = [Only(Manager) EXCEPT !["boot"] = E!NewManager(EngineConfig(refresh), Given(Files))]
    BY <2>6, OnlyIs
  <2> QED BY <1>2, <2>7, <2>8, <2>9 DEF ManagerStep, Created
<1>3. CASE phase = "urls"
  <2>1. UrlList # <<>>
    BY <1>3 DEF Told
  <2>2. phase' = IF refresh THEN "wait" ELSE "ended"
    BY <1>3, <2>1 DEF EndRound
  <2>3. Manager.loop = "fetching"
    BY <1>3, <2>1 DEF Manager, LoopState
  <2>4. LoopState' = IF refresh THEN "waiting" ELSE "exited"
    BY <2>1, <2>2 DEF LoopState
  <2>5. Manager' = [Manager EXCEPT !.loop = IF refresh THEN "waiting" ELSE "exited"]
    BY <1>1, <1>3, <2>2, <2>4 DEF Manager
  <2>6. E!FetchEnds("boot")
    BY <2>3, <2>5, OnlyIs DEF E!FetchEnds, EngineConfig
  <2> QED BY <1>1, <2>6, LoopOf DEF ManagerStep
<1> QED BY <1>2, <1>3 DEF EndRound

LEMMA WaitEnds ==
    ASSUME Told, Tick \/ Exit
    PROVE  ManagerStep
<1>1. /\ UNCHANGED <<table, cancelled, refresh>>
      /\ Given(Files)' = Given(Files) /\ Given(Urls)' = Given(Urls)
  BY DEF Tick, Exit, Given
<1>2. phase = "wait" /\ UrlList # <<>>
  BY DEF Tick, Exit, Told
<1>3. Manager.loop = "waiting" /\ Manager.cancelled = cancelled
  BY <1>2 DEF Manager, LoopState
<1>4. CASE Tick
  <2>1. Manager' = [Manager EXCEPT !.loop = "fetching"]
    BY <1>1, <1>2, <1>4 DEF Tick, Manager, LoopState
  <2>3. Only(Manager)' = [Only(Manager) EXCEPT !["boot"].loop = "fetching"]
    BY <2>1, OnlyIs DEF Only
  <2>4. Only(Manager)["boot"].loop = "waiting"
    BY <1>3, OnlyIs
  <2>2. E!LoopTick("boot")
    BY <2>3, <2>4 DEF E!LoopTick
  <2> QED BY <1>1, <2>2, LoopOf DEF ManagerStep
<1>5. CASE Exit
  <2>7. phase' = "ended"
    BY <1>5 DEF Exit
  <2>1. Manager' = [Manager EXCEPT !.loop = "exited"]
    BY <1>1, <1>2, <2>7 DEF Manager, LoopState
  <2>2. cancelled
    BY <1>5 DEF Exit
  <2>4. Only(Manager)' = [Only(Manager) EXCEPT !["boot"].loop = "exited"]
    BY <2>1, OnlyIs DEF Only
  <2>5. Only(Manager)["boot"].loop = "waiting"
    BY <1>3, OnlyIs
  <2>6. Only(Manager)["boot"].cancelled
    BY <1>3, <2>2, OnlyIs, Zenon
  <2>3. E!LoopExit("boot")
    BY <2>4, <2>5, <2>6 DEF E!LoopExit
  <2> QED BY <1>1, <2>3, LoopOf DEF ManagerStep
<1> QED BY <1>4, <1>5

LEMMA ShutdownCancels == ASSUME Shutdown PROVE ManagerStep
<1>1. phase # "files" /\ cancelled' = TRUE /\ UNCHANGED <<table, phase>>
  BY DEF Shutdown
<1>2. Given(Files)' = Given(Files) /\ Given(Urls)' = Given(Urls) /\ LoopState' = LoopState
  BY <1>1 DEF Given, LoopState
<1>3. Manager' = [Manager EXCEPT !.cancelled = TRUE]
  <2> DEFINE Set(e) == [Manager EXCEPT !.cancelled = e]
             Record(e) == [loop |-> LoopState, cancelled |-> e,
                           files |-> Given(Files), urls |-> Given(Urls)]
  <2>1. Manager' = Record(TRUE)
    <3>1. Manager' = [loop |-> LoopState', cancelled |-> cancelled',
                      files |-> IF phase' = "files" THEN {} ELSE Given(Files)',
                      urls |-> Given(Urls)']
      BY Zenon DEF Manager
    <3>2. (IF phase' = "files" THEN {} ELSE Given(Files)') = Given(Files)
      BY <1>1, <1>2
    <3> QED BY <1>1, <1>2, <3>1, <3>2, Zenon
  <2>2. \A e : Set(e) = Record(e)
    BY <1>1 DEF Manager
  <2> HIDE DEF Set, Record
  <2>3. Manager' = Set(TRUE)
    BY <2>1, <2>2, Zenon
  <2> QED BY <2>3 DEF Set
<1>4. E!Cancel("boot")
  BY <1>3, OnlyIs DEF E!Cancel
<1> QED BY <1>4 DEF ManagerStep

\* A query finds a name in the table exactly if Engine says it is covered.
LEMMA LookupsAgree ==
    phase # "files" => \A n \in Names : Lookup(n) # {} <=> E!Covered("boot", n)
<1> SUFFICES ASSUME phase # "files", NEW n \in Names
             PROVE  Lookup(n) # {} <=> E!Covered("boot", n)
  OBVIOUS
<1>1. Lookup(n) # {} <=> \E s \in Sources : table[s] # None /\ table[s][n] # {}
  BY DEF Lookup
<1>2. E!Covered("boot", n) <=> n \in Given(Files) \cup Given(Urls)
  BY OnlyIs DEF E!Covered, Manager
<1> QED BY <1>1, <1>2 DEF Given, Sources

\* The goroutine that fills the table is a refresh loop of Engine: it is created with
\* the names of the files that could be read and goes on exactly as the managers of
\* the query engine do, each commit of a URL being one of their loads; what a round
\* reads, fails at or hangs on in between stays hidden.
THEOREM TableImplementsManager == Spec => ImplementsManager
<1>1. Init => Unseen
  BY DEF Init, Unseen, Sources
<1>2. Typed /\ Unseen /\ [Next]_vars => Unseen'
  BY NextUnseen
<1>3. IInv => Typed /\ Told
  BY DEF IInv
<1>4. Spec => []Unseen
  BY <1>1, <1>2, <1>3, Invariance, PTL DEF Spec
<1>5. ASSUME Typed, Told, Unseen, [Next]_vars
      PROVE  [ManagerStep]_Manager
  <2>1. CASE Commit
    BY <1>5, <2>1, CommitLoads
  <2>2. CASE EndRound
    BY <1>5, <2>2, EndRoundEnds
  <2>3. CASE Tick \/ Exit
    BY <1>5, <2>3, WaitEnds
  <2>4. CASE Shutdown
    BY <2>4, ShutdownCancels
  <2>5. CASE UNCHANGED <<table, phase, cancelled>>
    BY <2>5, StepHidden
  <2> QED
    BY <1>5, <2>1, <2>2, <2>3, <2>4, <2>5
    DEF Next, Step, vars, Open, BadRequest, Refused, Hang, ReadLine, ReadFail, Publish, Falter
<1> QED BY <1>3, <1>4, <1>5, Invariance, PTL DEF Spec, ImplementsManager
=============================================================================
