--------------------------- MODULE MCOverrideTable ---------------------------
(* A small instance of OverrideTable.                                        *)
EXTENDS OverrideTable

CONSTANTS f1, u1, u2, a, b, x, y

MCFileList == <<f1>>
MCUrlList == <<u1, u2>>

\* The second version of u1 outgrows the limit; that of u2 drops an address of a.
MCText ==
    [s \in {f1, u1, u2} |->
        CASE s = f1 -> [v \in 1 .. 2 |-> <<<<a, x>>>>]
          [] s = u2 -> <<<<<<a, x>>, <<a, y>>>>, <<<<a, y>>, <<b, y>>>>>>
          [] s = u1 -> <<<<<<b, x>>>>, <<<<b, x>>, <<b, y>>, <<a, x>>>>>>]
=============================================================================
