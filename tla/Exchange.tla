------------------------------ MODULE Exchange ------------------------------
(***************************************************************************)
(* One query on its way through the upstreams: the choices of ServeDNS     *)
(* between the DoH upstreams, the system servers, the public fallback      *)
(* chain and the retry through DoH, with the goroutines, channels and      *)
(* contexts of Plain.Exchange, DoH.Exchange and exchangeDoH.               *)
(*                                                                         *)
(* Time is the state of a context.  All timeouts of a configuration are    *)
(* the same, so that no operation lasts longer than the context it runs    *)
(* under, and the context that was made first expires first.               *)
(***************************************************************************)
EXTENDS Naturals, Sequences, FiniteSets

CONSTANTS Addresses,  \* addresses of plain upstreams
          DoH,        \* the DoH upstreams, in the order of the configuration
          Configs,    \* the configurations considered
          None        \* no upstream

DoHs == { DoH[i] : i \in DOMAIN DoH }
Upstreams == Addresses \cup DoHs

\* What the forwarding of a query depends on.
ConfigType ==
    [viaDoH   : BOOLEAN,            \* full mode, or a polluted name
     toDoH    : BOOLEAN,            \* upstreams.fallback_to_doh
     race     : BOOLEAN,            \* strategy "race", not "failover"
     system   : SUBSET Addresses,   \* the system upstreams
     fallback : SUBSET Addresses]   \* the public fallback chain

\* Validate demands a DoH upstream; buildFrom takes the system upstreams out of
\* the fallback chain.
ASSUME ConstantsAssumption ==
    /\ DoH \in Seq(DoHs) \ {<<>>}
    /\ \A i, j \in DOMAIN DoH : DoH[i] = DoH[j] => i = j
    /\ IsFiniteSet(Addresses)
    /\ Addresses \cap DoHs = {}
    /\ None \notin Upstreams
    /\ Configs \subseteq ConfigType
    /\ \A c \in Configs : c.system \cap c.fallback = {}

VARIABLES cfg,     \* the configuration
          pc,      \* where ServeDNS is
          ctx,     \* the contexts of the query and of its fallback chain
          at,      \* what each upstream's exchange is doing
          result,  \* what it ended with
          chan,    \* the results channels, each with the upstreams that sent
          closed,  \* the DoH channel is closed
          failed,  \* the errors Plain.Exchange has counted, per channel
          turn,    \* failover: the upstreams left to try, the current one first
          answer   \* the upstream whose response is the answer, or None

vars == <<cfg, pc, ctx, at, result, chan, closed, failed, turn, answer>>

Stages == {"system", "fallback", "doh"}

Members(s) == CASE s = "system" -> cfg.system
                [] s = "fallback" -> cfg.fallback
                [] s = "doh" -> DoHs

StageOf(u) == CASE u \in cfg.fallback -> "fallback"
                [] u \in DoHs -> "doh"
                [] OTHER -> "system"

TypeOK ==
    /\ cfg \in Configs
    /\ pc \in {"start", "answered", "failed"} \cup Stages
    /\ ctx \in [{"query", "fallback"} -> {"none", "live", "cancelled", "expired"}]
    /\ at \in [Upstreams -> {"idle", "udp", "tcp", "post", "get", "deliver", "ended"}]
    /\ result \in [Upstreams -> {"none", "valid", "mismatched", "error"}]
    /\ chan \in [Stages -> Seq(Upstreams)]
    /\ closed \in BOOLEAN
    /\ failed \in [Stages -> Nat]
    /\ turn \in Seq(DoHs)
    /\ answer \in Upstreams \cup {None}
    /\ pc = "answered" <=> answer # None

\* Plain.Exchange with one address, and failover, call the exchange themselves.
Concurrent(s) == IF s = "doh" THEN cfg.race ELSE Cardinality(Members(s)) > 1

Context(s) == IF s = "fallback" THEN "fallback" ELSE "query"
Live(u) == ctx[Context(StageOf(u))] = "live"
Expired(u) == ctx[Context(StageOf(u))] = "expired"
Done(s) == ctx[Context(s)] \in {"cancelled", "expired"}

-----------------------------------------------------------------------------
(* The exchange with one upstream                                          *)

Goes(u, state) == /\ at' = [at EXCEPT ![u] = state]
                  /\ UNCHANGED result

Ends(u, r) == /\ at' = [at EXCEPT ![u] = "deliver"]
              /\ result' = [result EXCEPT ![u] = r]

quiet == <<cfg, pc, ctx, chan, closed, failed, turn, answer>>

\* exchangeAddr: a truncated reply is asked for again over TCP.  The library
\* ends an exchange at the deadline of its context, not when it is cancelled.  It
\* refuses a reply with another ID, but nobody compares the question: a reply to
\* another one is a success.
PlainReply(u) ==
    /\ at[u] \in {"udp", "tcp"}
    /\ ~Expired(u)
    /\ \/ Ends(u, "valid")
       \/ Ends(u, "mismatched")
       \/ Ends(u, "error")
       \/ at[u] = "udp" /\ Goes(u, "tcp")
    /\ UNCHANGED quiet

PlainTimeout(u) == /\ at[u] \in {"udp", "tcp"}
                   /\ Expired(u)
                   /\ Ends(u, "error")
                   /\ UNCHANGED quiet

\* Faulty variant: the response to the GET form is not validated.
DoHReplyUnchecked(u) ==
    /\ at[u] \in {"post", "get"}
    /\ Live(u)
    /\ \/ Ends(u, "valid")
       \/ Ends(u, IF at[u] = "get" THEN "mismatched" ELSE "error")
       \/ at[u] = "post" /\ Goes(u, "get")
       \/ at[u] = "get" /\ Ends(u, "error")
    /\ UNCHANGED quiet

\* DoH.Exchange: POST, and GET if it failed with time left.  A response that
\* does not answer the query is an error at once.
DoHReply(u) ==
    /\ at[u] \in {"post", "get"}
    /\ Live(u)
    /\ \/ Ends(u, "valid")
       \/ Ends(u, "error")                     \* ValidateAgainst
       \/ at[u] = "post" /\ Goes(u, "get")
       \/ at[u] = "get" /\ Ends(u, "error")
    /\ UNCHANGED quiet

DoHTimeout(u) == /\ at[u] \in {"post", "get"}
                 /\ ~Live(u)
                 /\ Ends(u, "error")
                 /\ UNCHANGED quiet

-----------------------------------------------------------------------------
(* The goroutines of a concurrent exchange deliver their results           *)

Send(u) == chan' = [chan EXCEPT ![StageOf(u)] = Append(@, u)]

Room(s) == Len(chan[s]) < Cardinality(Members(s))

\* Faulty variant: one place in the channel, and a send that waits for it.
DeliverPlainBlocking(u) ==
    /\ StageOf(u) # "doh"
    /\ Len(chan[StageOf(u)]) < 1
    /\ Send(u)

\* The result, success or not, unless the context is done.
DeliverPlain(u) ==
    /\ StageOf(u) # "doh"
    /\ \/ Room(StageOf(u)) /\ Send(u)
       \/ Done(StageOf(u)) /\ UNCHANGED chan

\* Only a success is sent, and only if there is room for it.
DeliverDoH(u) ==
    /\ StageOf(u) = "doh"
    /\ IF result[u] # "error" /\ Room("doh") THEN Send(u) ELSE UNCHANGED chan

Deliver(u) ==
    /\ at[u] = "deliver"
    /\ Concurrent(StageOf(u))
    /\ DeliverPlain(u) \/ DeliverDoH(u)
    /\ Goes(u, "ended")
    /\ UNCHANGED <<cfg, pc, ctx, closed, failed, turn, answer>>

\* wg.Wait, then close.
Close ==
    /\ cfg.race
    /\ ~closed
    /\ \A u \in DoHs : at[u] = "ended"
    /\ closed' = TRUE
    /\ UNCHANGED <<cfg, pc, ctx, at, result, chan, failed, turn, answer>>

-----------------------------------------------------------------------------
(* ServeDNS                                                                *)

First(s) == IF s = "doh" THEN "post" ELSE "udp"

Begin(s, S) == at' = [u \in Upstreams |-> IF u \in S THEN First(s) ELSE at[u]]

\* The upstreams in the order of a failover that starts with the i-th.
Rotation(i) == [j \in DOMAIN DoH |-> DoH[1 + ((i + j - 2) % Len(DoH))]]

\* A stage begins: all its exchanges at once or the first of them.
Enter(s, contexts) ==
    /\ pc' = s
    /\ ctx' = contexts
    /\ \/ /\ s = "doh" /\ ~cfg.race
          /\ \E i \in DOMAIN DoH :
                /\ turn' = Rotation(i)
                /\ Begin(s, {DoH[i]})
       \/ /\ s # "doh" \/ cfg.race
          /\ Begin(s, Members(s))
          /\ UNCHANGED turn

\* Cancelling does nothing to a context that has expired.
Cancelled(c) == [c EXCEPT !["query"] = IF @ = "live" THEN "cancelled" ELSE @]

Start == /\ pc = "start"
         /\ Enter(IF cfg.viaDoH THEN "doh" ELSE "system", [ctx EXCEPT !["query"] = "live"])
         /\ UNCHANGED <<cfg, result, chan, closed, failed, answer>>

\* The contexts when a stage is over: fcancel is called after the fallback chain.
After(s) == IF s = "fallback" /\ ctx[s] = "live" THEN [ctx EXCEPT ![s] = "cancelled"] ELSE ctx

Answer(u) == /\ pc' = "answered"
             /\ answer' = u
             /\ ctx' = Cancelled(After(pc))
             /\ UNCHANGED <<at, turn>>

\* The stage ends with an error.
Fail ==
    /\ \/ /\ pc = "system" /\ cfg.fallback # {}
          /\ Enter("fallback", [ctx EXCEPT !["fallback"] = "live"])
       \/ /\ \/ pc = "system" /\ cfg.fallback = {}
             \/ pc = "fallback"
          /\ cfg.toDoH
          /\ Enter("doh", After(pc))
       \/ /\ \/ pc = "system" /\ cfg.fallback = {} /\ ~cfg.toDoH
             \/ pc = "fallback" /\ ~cfg.toDoH
             \/ pc = "doh"
          /\ pc' = "failed"
          /\ ctx' = Cancelled(After(pc))
          /\ UNCHANGED <<at, turn>>
    /\ UNCHANGED answer

\* No upstream in the stage.
NoUpstream == /\ pc \in Stages
              /\ Members(pc) = {}
              /\ Fail
              /\ UNCHANGED <<cfg, result, chan, closed, failed>>

\* A single exchange has ended, in the query's own goroutine.
Return ==
    /\ pc \in Stages
    /\ ~Concurrent(pc)
    /\ \E u \in Members(pc) :
          /\ at[u] = "deliver"
          /\ IF result[u] # "error"
             THEN Answer(u)
             ELSE IF pc = "doh" /\ Len(turn) > 1
             THEN /\ turn' = Tail(turn)
                  /\ at' = [at EXCEPT ![u] = "ended", ![turn[2]] = "post"]
                  /\ UNCHANGED <<pc, ctx, answer>>
             ELSE Fail
    /\ UNCHANGED <<cfg, result, chan, closed, failed>>

\* Faulty variant: the first result decides, whatever it is.
ReceiveOnce ==
    /\ pc \in {"system", "fallback"}
    /\ chan[pc] # <<>>
    /\ chan' = [chan EXCEPT ![pc] = Tail(@)]
    /\ IF result[Head(chan[pc])] # "error" THEN Answer(Head(chan[pc])) ELSE Fail
    /\ UNCHANGED <<cfg, result, closed, failed>>

\* The loop of Plain.Exchange: the first success, or an error when every
\* address has failed.
Receive ==
    /\ pc \in {"system", "fallback"}
    /\ chan[pc] # <<>>
    /\ chan' = [chan EXCEPT ![pc] = Tail(@)]
    /\ \/ /\ result[Head(chan[pc])] # "error"
          /\ Answer(Head(chan[pc]))
          /\ UNCHANGED failed
       \/ /\ result[Head(chan[pc])] = "error"
          /\ failed' = [failed EXCEPT ![pc] = @ + 1]
          /\ IF failed'[pc] = Cardinality(Members(pc))
             THEN Fail
             ELSE UNCHANGED <<pc, ctx, at, turn, answer>>
    /\ UNCHANGED <<cfg, result, closed>>

\* The other branch of its select.
GiveUp ==
    /\ pc \in {"system", "fallback"}
    /\ Concurrent(pc)
    /\ Done(pc)
    /\ Fail
    /\ UNCHANGED <<cfg, result, chan, closed, failed>>

\* Faulty variant: what the receive returns is taken for a response.
ReceiveDoHAny ==
    /\ pc = "doh"
    /\ cfg.race
    /\ \/ /\ chan["doh"] # <<>>
          /\ chan' = [chan EXCEPT !["doh"] = Tail(@)]
          /\ Answer(Head(chan["doh"]))
       \/ /\ chan["doh"] = <<>>
          /\ closed
          /\ Answer(None)
          /\ UNCHANGED chan
    /\ UNCHANGED <<cfg, result, closed, failed>>

\* The receive of a race: a success, or nothing once the channel is closed.
ReceiveDoH ==
    /\ pc = "doh"
    /\ cfg.race
    /\ \/ /\ chan["doh"] # <<>>
          /\ chan' = [chan EXCEPT !["doh"] = Tail(@)]
          /\ Answer(Head(chan["doh"]))
       \/ /\ chan["doh"] = <<>>
          /\ closed
          /\ Fail
          /\ UNCHANGED chan
    /\ UNCHANGED <<cfg, result, closed, failed>>

ServeDNS == Start \/ NoUpstream \/ Return \/ Receive \/ GiveUp \/ ReceiveDoH

-----------------------------------------------------------------------------

\* A deadline passes; the one of the query is the earlier one.
Expire(c) ==
    /\ ctx[c] \in {"live", "cancelled"}
    /\ c = "fallback" => ctx["query"] = "expired"
    /\ ctx' = [ctx EXCEPT ![c] = "expired"]
    /\ UNCHANGED <<cfg, pc, at, result, chan, closed, failed, turn, answer>>

Init == /\ cfg \in Configs
        /\ pc = "start"
        /\ ctx = [c \in {"query", "fallback"} |-> "none"]
        /\ at = [u \in Upstreams |-> "idle"]
        /\ result = [u \in Upstreams |-> "none"]
        /\ chan = [s \in Stages |-> <<>>]
        /\ closed = FALSE
        /\ failed = [s \in Stages |-> 0]
        /\ turn = <<>>
        /\ answer = None

Next == \/ ServeDNS
        \/ \E u \in Upstreams : \/ PlainReply(u)
                                \/ PlainTimeout(u)
                                \/ DoHReply(u)
                                \/ DoHTimeout(u)
                                \/ Deliver(u)
        \/ Close
        \/ \E c \in {"query", "fallback"} : Expire(c)

\* Goroutines run and time passes; no upstream has to answer.
Fairness ==
    /\ WF_vars(ServeDNS)
    /\ WF_vars(Close)
    /\ \A u \in Upstreams : WF_vars(PlainTimeout(u) \/ DoHTimeout(u) \/ Deliver(u))
    /\ \A c \in {"query", "fallback"} : WF_vars(Expire(c))

Spec == Init /\ [][Next]_vars /\ Fairness

-----------------------------------------------------------------------------
(* Properties                                                              *)

Refused(S) == \A u \in S : result[u] = "error"

\* A query fails before its deadline only when every upstream it may be sent to
\* has failed, and the fallback chain, which has a deadline of its own, is given
\* up before it only when all of it failed: no success is lost between the
\* goroutines, the channels and the stages.
FailureIsEarned ==
    pc = "failed" =>
        /\ ctx["query"] # "expired" =>
              /\ ~cfg.viaDoH => Refused(cfg.system \cup cfg.fallback)
              /\ cfg.viaDoH \/ cfg.toDoH => Refused(DoHs)
        /\ ~cfg.viaDoH /\ ctx["fallback"] # "expired" => Refused(cfg.fallback)

\* The answer comes from the first stage that could give one, and a DoH answer
\* has been validated.  A polluted name is never answered by a plain upstream; the
\* fallback chain answers when the system servers have refused or the time of the
\* query was up, and DoH, for a name that is not polluted, only when every plain
\* upstream has refused.  A plain answer may be one to another question.
AnswerIsDue ==
    pc = "answered" =>
        /\ result[answer] \in {"valid", "mismatched"}
        /\ cfg.viaDoH => answer \in DoHs
        /\ answer \in cfg.fallback => Refused(cfg.system) \/ ctx["query"] = "expired"
        /\ answer \in DoHs => /\ result[answer] = "valid"
                              /\ \/ cfg.viaDoH
                                 \/ cfg.toDoH /\ Refused(cfg.system \cup cfg.fallback)

\* The query ends, and no goroutine is left behind: each one ends too, whoever
\* stopped listening to it.
EverythingEnds ==
    /\ <>(pc \in {"answered", "failed"})
    /\ \A u \in Upstreams :
          [](at[u] # "idle" /\ Concurrent(StageOf(u)) => <>(at[u] = "ended"))

\* The comment on FallbackToDoH: it retries via DoH when the system upstream
\* fails.  The retry has time to be answered, whatever the failure was.
FallbackReachesDoH ==
    [][pc # "doh" /\ pc' = "doh" => ctx'["query"] = "live"]_vars
=============================================================================
