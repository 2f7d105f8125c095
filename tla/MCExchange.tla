----------------------------- MODULE MCExchange -----------------------------
(* Small instances of Exchange: chains of no upstream, of one, which is      *)
(* called directly, and of two, which run concurrently.                      *)
EXTENDS Exchange

CONSTANTS s1, s2, f1, f2, d1, d2

MCDoH == <<d1, d2>>

Chains == {<<{s1, s2}, {f1}>>, <<{s1}, {f1, f2}>>, <<{s1, s2}, {}>>, <<{}, {f1}>>}

AllConfigs == { [viaDoH |-> v, toDoH |-> t, race |-> r, system |-> c[1], fallback |-> c[2]] :
                   v, t, r \in BOOLEAN, c \in Chains }
=============================================================================
