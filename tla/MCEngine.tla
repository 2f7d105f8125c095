------------------------------ MODULE MCEngine ------------------------------
(* Small instances of Engine, whose polluted names are those that Matcher      *)
(* finds, and Matcher against what its documentation says.                   *)
EXTENDS Engine, Matcher, SequencesExt

CONSTANTS q1, q2, r1, r2, k1

MCKeyOf == [q \in Queries |-> k1]

\* The patterns plain and wildcard, for the parent of the name and the name.
Parent == [kind |-> "plain", name |-> <<"b">>]
Below == [kind |-> "wildcard", name |-> <<"a", "b">>]

NameOf == [k \in {k1} |-> <<"a", "b">>]

Polluted(patterns) == { k \in {k1} : Match(Reset(Nothing, patterns), NameOf[k]) }

Names == BoundedSeq({"a", "b"}, 3)

Patterns == [kind : Kinds, name : BoundedSeq({"a", "b"}, 2)]

\* A name other than the root is matched by the last valid list of patterns when
\* one of them covers it.
ASSUME MatchesWhatIsCovered ==
    \A ps \in { {p, q} : p, q \in Patterns }, old \in {Nothing, Reset(Nothing, {Parent})} :
        LET m == Reset(old, ps)
        IN  IF ~Valid(ps) THEN m = old
            ELSE \A name \in Names :
                    Match(m, name) <=> name # <<>> /\ \E p \in ps : Covers(p, name)

\* Everything on: polluted name with probing, fallbacks, files and URLs that
\* keep refreshing.
Full == [valid |-> TRUE, full |-> FALSE, polluted |-> Polluted({Parent}), fallback |-> TRUE,
         toDoH |-> TRUE, probe |-> TRUE, files |-> {}, urls |-> {k1}, refresh |-> TRUE]
\* The name goes to the system upstreams and their fallbacks; URLs fetched once.
Plain == [Full EXCEPT !.polluted = Polluted({Below}), !.refresh = FALSE]
\* Full mode with override files only.
FilesOnly == [Full EXCEPT !.full = TRUE, !.polluted = Polluted({}), !.files = {k1}, !.urls = {}]
Invalid == [Full EXCEPT !.valid = FALSE]

AllConfigs == {Full, Plain, FilesOnly, Invalid}
LoopConfigs == {Full, Plain, Invalid}
LiveConfigs == {Full, Plain}

\* Queries differ only in their name.
SymmetricQueries == Permutations({q1, q2})
=============================================================================
