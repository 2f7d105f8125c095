---------------------------- MODULE OverrideTable ----------------------------
(***************************************************************************)
(* The table of override addresses (internal/override) and the goroutine   *)
(* that fills it (the loop of internal/core/override.go): files are loaded *)
(* once, before anybody sees the table; URLs are fetched again and again,  *)
(* one after the other, under one context of fifteen seconds for a round.  *)
(*                                                                         *)
(* Queries look names up at any time, so every state is one they may see.  *)
(* Engine has the same loops without what they load.                       *)
(***************************************************************************)
EXTENDS Integers, Sequences, FiniteSets

CONSTANTS FileList,   \* override.files, in their order
          UrlList,    \* override.urls
          BadUrls,    \* those of which perhaps no request can be made
          Names, Ips,
          MaxVersion, \* bounds how often a source changes
          Text,       \* the lines of each version of a source
          Limit,      \* lines in 4 MiB
          None

Elements(list) == { list[i] : i \in DOMAIN list }
Files == Elements(FileList)
Urls == Elements(UrlList)
Sources == Files \cup Urls
Line == Names \X Ips
Tables == [Names -> SUBSET Ips]

\* A URL that is listed twice, which would be fetched twice, is left out.
ASSUME ConstantsAssumption ==
    /\ FileList \in Seq(Files) /\ UrlList \in Seq(Urls)
    /\ \A i, j \in DOMAIN UrlList : UrlList[i] = UrlList[j] => i = j
    /\ Files \cap Urls = {}
    /\ Names # {}
    /\ None \notin Sources \cup Tables
    /\ BadUrls \subseteq Urls
    /\ MaxVersion \in Nat \ {0}
    /\ Text \in [Sources -> [1 .. MaxVersion -> Seq(Line)]]
    /\ Limit \in Nat

VARIABLES
    version,    \* the version each source has now
    health,     \* whether it can be read
    table,      \* the addresses each source gives to each name, or None
    lastError,  \* Meta.LastError: the source it speaks of, or None
    phase,      \* files, urls (a round), wait (for the ticker), ended
    next,       \* index of the source that is loaded now
    body,       \* what has been read of it, or None
    failed,     \* lastErr of LoadFiles and LoadURLs
    spent,      \* the context of the round is over
    cancelled,  \* shutdown was called
    refresh,    \* refresh_interval > 0
    loaded,     \* history: the sources that were committed
    fresh       \* history: those that were in the round that runs or ran last

world == <<version, health>>
vars == <<world, table, lastError, phase, next, body, failed, spent, cancelled,
          refresh, loaded, fresh>>

\* Of a bad URL no request can be made; one that hangs does not answer.
Healths == {"ok", "fails", "hangs", "bad"}
Bodies == [of : 1 .. MaxVersion, lines : Nat]

TypeOK ==
    /\ version \in [Sources -> 1 .. MaxVersion]
    /\ health \in [Sources -> Healths]
    /\ table \in [Sources -> Tables \cup {None}]
    /\ lastError \in Sources \cup {None}
    /\ phase \in {"files", "urls", "wait", "ended"}
    /\ next \in Nat \ {0}
    /\ body \in Bodies \cup {None}
    /\ failed \in Sources \cup {None}
    /\ spent \in BOOLEAN
    /\ cancelled \in BOOLEAN
    /\ refresh \in BOOLEAN
    /\ loaded \subseteq Sources
    /\ fresh \subseteq loaded

-----------------------------------------------------------------------------
(* Table                                                                   *)

\* loadSource: comments, lines without a name or with a bad address give nothing.
Parse(lines) == [n \in Names |-> { ip \in Ips : <<n, ip>> \in Elements(lines) }]

Lookup(n) == UNION { table[s][n] : s \in { t \in Sources : table[t] # None } }

List == IF phase = "files" THEN FileList ELSE UrlList
Loading == phase \in {"files", "urls"} /\ next <= Len(List)
Source == List[next]

\* Faulty variant: keeps the index in place of the source.
ContinueIndex(err) == /\ next' = next + 1
                      /\ failed' = IF err THEN next ELSE failed
                      /\ body' = None

\* The next source, after this one failed or not.
Continue(err) == /\ next' = next + 1
                 /\ failed' = IF err THEN Source ELSE failed
                 /\ body' = None

\* Faulty variant: the first failure ends the round.
FailAndReturn == /\ next' = Len(List) + 1
                 /\ failed' = Source
                 /\ body' = None

\* What fails leaves the entries of its source alone.
Fail == Continue(TRUE)

\* openFile, or the response to the request.
Open ==
    /\ Loading /\ body = None
    /\ health[Source] = "ok"
    /\ ~spent
    /\ body' = [of |-> version[Source], lines |-> 0]
    /\ UNCHANGED <<world, table, lastError, phase, next, failed, spent, cancelled,
                   refresh, loaded, fresh>>

\* NewRequestWithContext fails, which is told at once.
BadRequest ==
    /\ Loading /\ body = None
    /\ health[Source] = "bad"
    /\ lastError' = Source
    /\ Fail
    /\ UNCHANGED <<world, table, phase, spent, cancelled, refresh, loaded, fresh>>

\* Faulty variant: a status other than 200 is skipped without a word.
RefusedSilently ==
    /\ Loading /\ body = None
    /\ health[Source] = "fails" \/ (spent /\ health[Source] # "bad")
    /\ Continue(FALSE)
    /\ UNCHANGED <<world, table, lastError, phase, spent, cancelled, refresh,
                   loaded, fresh>>

\* The file cannot be opened; no response, a status other than 200, or a context
\* that is over before the request is sent.
Refused ==
    /\ Loading /\ body = None
    /\ health[Source] = "fails" \/ (spent /\ health[Source] # "bad")
    /\ Fail
    /\ UNCHANGED <<world, table, lastError, phase, spent, cancelled, refresh,
                   loaded, fresh>>

\* A server that does not answer, or does not go on, uses up the context of the
\* whole round, which has the same fifteen seconds as the client.
Hang ==
    /\ phase = "urls" /\ ~spent
    /\ Loading
    /\ health[Source] = "hangs"
    /\ spent' = TRUE
    /\ UNCHANGED <<world, table, lastError, phase, next, body, failed, cancelled,
                   refresh, loaded, fresh>>

Unread == Loading /\ body # None
TextRead == Text[Source][body.of]
Bound == IF phase = "files" THEN Len(TextRead) ELSE Limit

\* The scanner; data that has arrived is read whatever became of the context.
ReadLine ==
    /\ Unread
    /\ body.lines < Len(TextRead) /\ body.lines < Bound
    /\ health[Source] = "ok" \/ phase = "files"
    /\ body' = [body EXCEPT !.lines = @ + 1]
    /\ UNCHANGED <<world, table, lastError, phase, next, failed, spent, cancelled,
                   refresh, loaded, fresh>>

\* Faulty variant: what was read replaces the entries all the same.
ReadFailCommitted ==
    /\ Unread
    /\ health[Source] = "fails" \/ spent
    /\ table' = [table EXCEPT ![Source] = Parse(SubSeq(TextRead, 1, body.lines))]
    /\ loaded' = loaded \cup {Source}
    /\ lastError' = Source
    /\ Fail
    /\ UNCHANGED <<world, phase, spent, cancelled, refresh, fresh>>

\* The scanner ends with an error, which loadSource tells at once.
ReadFail ==
    /\ Unread
    /\ health[Source] = "fails" \/ spent
    /\ lastError' = Source
    /\ Fail
    /\ UNCHANGED <<world, table, phase, spent, cancelled, refresh, loaded, fresh>>

\* What LimitReader lets through of a text: the line it cuts may be useless, or
\* still have an address and the beginning of a name, which may be another name.
LetThrough(text) ==
    LET cut == SubSeq(text, 1, Limit)
    IN  IF phase = "files" \/ Len(text) <= Limit THEN {text}
        ELSE {cut} \cup { Append(cut, <<n, text[Limit + 1][2]>>) : n \in Names }

\* A body that the limit ended is a complete one.
Commit ==
    /\ Unread
    /\ body.lines = Len(TextRead) \/ body.lines = Bound
    /\ \E lines \in LetThrough(TextRead) :
          table' = [table EXCEPT ![Source] = Parse(lines)]
    /\ loaded' = loaded \cup {Source}
    /\ fresh' = fresh \cup {Source}
    /\ Continue(FALSE)
    /\ UNCHANGED <<world, lastError, phase, spent, cancelled, refresh>>

-----------------------------------------------------------------------------
(* overrideManager                                                         *)

\* clearError or recordError, and what comes after: the first round if there
\* are URLs, the ticker if there is an interval.
EndRound ==
    /\ phase \in {"files", "urls"} /\ next > Len(List)
    /\ lastError' = failed
    /\ \/ phase = "files" /\ UrlList # <<>> /\ phase' = "urls" /\ fresh' = {}
       \/ phase = "urls" /\ refresh /\ phase' = "wait" /\ UNCHANGED fresh
       \/ /\ (phase = "urls" /\ ~refresh) \/ UrlList = <<>>
          /\ phase' = "ended"
          /\ UNCHANGED fresh
    /\ next' = 1
    /\ failed' = None
    /\ spent' = cancelled
    /\ UNCHANGED <<world, table, body, cancelled, refresh, loaded>>

Tick ==
    /\ phase = "wait"
    /\ phase' = "urls"
    /\ fresh' = {}
    /\ spent' = cancelled
    /\ UNCHANGED <<world, table, lastError, next, body, failed, cancelled, refresh,
                   loaded>>

Exit ==
    /\ phase = "wait" /\ cancelled
    /\ phase' = "ended"
    /\ UNCHANGED <<world, table, lastError, next, body, failed, spent, cancelled,
                   refresh, loaded, fresh>>

\* shutdown ends the context of the round too; its fetches may have ended before.
Shutdown ==
    /\ phase # "files" /\ ~cancelled
    /\ cancelled' = TRUE
    /\ spent' = TRUE
    /\ UNCHANGED <<world, table, lastError, phase, next, body, failed, refresh,
                   loaded, fresh>>

-----------------------------------------------------------------------------

\* A source is published anew, or its server changes its ways.
Publish(s) ==
    /\ version[s] < MaxVersion
    /\ version' = [version EXCEPT ![s] = @ + 1]
    /\ UNCHANGED <<health, table, lastError, phase, next, body, failed, spent,
                   cancelled, refresh, loaded, fresh>>

Falter(s) ==
    /\ health[s] # "bad"
    /\ \/ s \in Urls /\ \E h \in Healths \ {"bad"} : health' = [health EXCEPT ![s] = h]
       \/ s \in Files /\ phase = "files" /\ health' = [health EXCEPT ![s] = "fails"]
    /\ UNCHANGED <<version, table, lastError, phase, next, body, failed, spent,
                   cancelled, refresh, loaded, fresh>>

Init ==
    /\ version = [s \in Sources |-> 1]
    /\ \E bad \in SUBSET BadUrls :
          health = [s \in Sources |-> IF s \in bad THEN "bad" ELSE "ok"]
    /\ table = [s \in Sources |-> None]
    /\ lastError = None
    /\ phase = "files"
    /\ next = 1
    /\ body = None
    /\ failed = None
    /\ spent = FALSE
    /\ cancelled = FALSE
    /\ refresh \in BOOLEAN
    /\ loaded = {}
    /\ fresh = {}

Step == \/ Open \/ BadRequest \/ Refused \/ Hang \/ ReadLine \/ ReadFail \/ Commit
        \/ EndRound \/ Tick \/ Exit

Next == \/ Step
        \/ Shutdown
        \/ \E s \in Sources : Publish(s) \/ Falter(s)

Spec == Init /\ [][Next]_vars

\* The goroutine goes on, the ticker ticks, and a request ends at the latest
\* with its context.
FairSpec == Spec /\ WF_vars(Step)

-----------------------------------------------------------------------------
(* Properties                                                              *)

\* "A partial parse must not replace the previous (complete) entries": once a
\* source was committed, at any time, in the middle of a round too, the table has
\* for it exactly what one of its versions says, nothing of an earlier one and
\* no gap, or, of a version longer than the limit, all that is within the limit.
EntriesAreWhole ==
    \A s \in loaded :
        \E v \in 1 .. version[s] :
            IF s \in Files \/ Len(Text[s][v]) <= Limit
            THEN table[s] = Parse(Text[s][v])
            ELSE /\ table[s] # None
                 /\ \A n \in Names :
                       Parse(SubSeq(Text[s][v], 1, Limit))[n] \subseteq table[s][n]

\* What status tells between two rounds is what became of the last one: no error
\* if and only if every URL was read and committed in it, else a URL that was not.
\* An error that the files left is told until a round succeeds, and no longer.
StatusTellsTheRound ==
    /\ phase \in {"wait", "ended"} /\ UrlList # <<>> =>
          IF lastError = None THEN Urls \subseteq fresh
          ELSE lastError \in Urls \ fresh
    /\ phase # "files" /\ lastError = None =>
          Files \subseteq loaded \/ (UrlList # <<>> /\ Urls \subseteq loaded)

\* A URL that can be read again is followed again, whatever other URLs do, unless
\* one before it does not answer, which uses up the time of the whole round.
UrlsAreFollowed ==
    \A k \in DOMAIN UrlList :
        LET u == UrlList[k]
        IN  (\A v \in 1 .. MaxVersion : Len(Text[u][v]) <= Limit) =>
            (<>[](/\ refresh /\ ~cancelled
                  /\ health[u] = "ok"
                  /\ \A j \in 1 .. k - 1 : health[UrlList[j]] # "hangs")
             => <>[](table[u] = Parse(Text[u][version[u]])))
=============================================================================
