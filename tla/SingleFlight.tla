---------------------------- MODULE SingleFlight ----------------------------
(***************************************************************************)
(* What the reachability prober promises those who call Check: each        *)
(* address is dialled by one of them at a time, the result goes to callers *)
(* that asked for it before it was there, and to later ones only as long   *)
(* as it is fresh.  Mutex, insertion times, expiry and the order of        *)
(* eviction do not appear.                                                 *)
(*                                                                         *)
(* Prober implements this specification.                                   *)
(***************************************************************************)
EXTENDS Naturals, FiniteSets

CONSTANTS Callers, IPs,
          Limit,    \* results retained at most
          TTL,      \* how long a result is fresh from the beginning of its dial
          MaxTime,  \* bound on the clock
          None      \* no address, no answer

VARIABLES now,
          dials,   \* when the dial under way began, for the addresses that have one
          kept,    \* the results retained, by address
          asks,    \* the address each caller asks for
          since,   \* when it asked
          answer   \* what it has been answered

vars == <<now, dials, kept, asks, since, answer>>

Init == /\ now = 0
        /\ dials = [a \in {} |-> None]
        /\ kept = [a \in {} |-> None]
        /\ asks = [c \in Callers |-> None]
        /\ since = [c \in Callers |-> 0]
        /\ answer = [c \in Callers |-> None]

Asking(a) == { c \in Callers : asks[c] = a /\ answer[c] = None }

Ask(c, a) == /\ asks[c] = None
             /\ asks' = [asks EXCEPT ![c] = a]
             /\ since' = [since EXCEPT ![c] = now]
             /\ UNCHANGED <<now, dials, kept, answer>>

\* Nobody dials an address that is being dialled, or without being asked.
Dial(a) == /\ a \notin DOMAIN dials
           /\ Asking(a) # {}
           /\ dials' = [b \in DOMAIN dials \cup {a} |-> IF b = a THEN now ELSE dials[b]]
           /\ UNCHANGED <<now, kept, asks, since, answer>>

\* Others are given up for a new result only when no more fit.
Retain(a, r) ==
    \E lost \in SUBSET (DOMAIN kept \ {a}) :
        /\ lost # {} => a \notin DOMAIN kept /\ Cardinality(DOMAIN kept) = Limit
        /\ kept' = [b \in (DOMAIN kept \ lost) \cup {a} |-> IF b = a THEN r ELSE kept[b]]
        /\ Cardinality(DOMAIN kept') <= Limit

\* A dial ends, and its result answers some of those who ask by now.
Found(a) == /\ a \in DOMAIN dials
            /\ dials' = [b \in DOMAIN dials \ {a} |-> dials[b]]
            /\ LET r == [ip |-> a, from |-> dials[a], known |-> now]
               IN  /\ IF TTL = 0 THEN UNCHANGED kept ELSE Retain(a, r)
                   /\ \E S \in (SUBSET Asking(a)) \ {{}} :
                         answer' = [c \in Callers |-> IF c \in S THEN r ELSE answer[c]]
            /\ UNCHANGED <<now, asks, since>>

Recall(c) == /\ answer[c] = None
             /\ asks[c] \in DOMAIN kept
             /\ since[c] < kept[asks[c]].from + TTL
             /\ answer' = [answer EXCEPT ![c] = kept[asks[c]]]
             /\ UNCHANGED <<now, dials, kept, asks, since>>

Done(c) == /\ answer[c] # None
           /\ asks' = [asks EXCEPT ![c] = None]
           /\ since' = [since EXCEPT ![c] = 0]
           /\ answer' = [answer EXCEPT ![c] = None]
           /\ UNCHANGED <<now, dials, kept>>

Tick == /\ now < MaxTime
        /\ now' = now + 1
        /\ UNCHANGED <<dials, kept, asks, since, answer>>

Next == \/ \E c \in Callers : Recall(c) \/ Done(c) \/ \E a \in IPs : Ask(c, a)
        \/ \E a \in IPs : Dial(a) \/ Found(a)
        \/ Tick

Spec == Init /\ [][Next]_vars
=============================================================================
