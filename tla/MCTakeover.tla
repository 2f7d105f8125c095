----------------------------- MODULE MCTakeover -----------------------------
(* Small instances of Takeover.                                              *)
EXTENDS Takeover, TLC

CONSTANTS p1, p2, a1, a2, manual, leased, public

\* The first adapter has a lease, the second has none.
MCLease == [a \in Adapters |-> IF a = a1 THEN {leased} ELSE {}]

\* Beyond careful use, one process at a time.
OneUnlessCareful ==
    \/ events \subseteq {"left", "unsaved"}
    \/ \E p \in Procs : \A q \in Procs \ {p} : Idle(q)

SymmetricProcs == Permutations({p1, p2})
=============================================================================
