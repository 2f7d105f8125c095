------------------------------- MODULE Matcher -------------------------------
(***************************************************************************)
(* The matcher of package matcher: which names the list of polluted        *)
(* domains stands for.                                                     *)
(*                                                                         *)
(* A name is the sequence of its labels, in lower case and without the dot *)
(* at its end; no label is empty, and the root is <<>>.  A pattern is its  *)
(* kind, as Reset reads it, and the name in it.                            *)
(***************************************************************************)
EXTENDS Naturals, SequencesExt

Kinds == {"all", "wildcard", "plain", "invalid"}

\* The matcher that New starts from.
Nothing == [roots |-> {}, wildcard |-> {}, matchAll |-> FALSE]

Named(patterns, kind) == { p.name : p \in { x \in patterns : x.kind = kind } }

\* One invalid pattern, and nothing is replaced.
Reset(m, patterns) ==
    IF Named(patterns, "invalid") # {} THEN m
    ELSE [roots |-> Named(patterns, "plain"),
          wildcard |-> Named(patterns, "wildcard"),
          matchAll |-> Named(patterns, "all") # {}]

\* What is left of a name from its i-th label on.
From(name, i) == SubSeq(name, i, Len(name))

\* The whole name among the roots, or, in one of the rounds of the loop, what is
\* left of it when labels are cut off in front among the roots or wildcards.
Match(m, name) ==
    /\ name # <<>>
    /\ \/ m.matchAll
       \/ name \in m.roots
       \/ \E i \in 2 .. Len(name) : From(name, i) \in m.roots \cup m.wildcard

-----------------------------------------------------------------------------
(* What the documentation of the package promises                          *)

\* "matches github.com and every subdomain", "strict subdomains only",
\* "matches everything".
Covers(p, name) == CASE p.kind = "plain" -> p.name # <<>> /\ IsSuffix(p.name, name)
                     [] p.kind = "wildcard" -> p.name # <<>> /\ IsStrictSuffix(p.name, name)
                     [] p.kind = "all" -> TRUE
                     [] OTHER -> FALSE

Valid(patterns) == \A p \in patterns : p.kind # "invalid"
=============================================================================
