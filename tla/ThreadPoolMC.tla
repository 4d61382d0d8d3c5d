---------------------------- MODULE ThreadPoolMC ----------------------------
(***************************************************************************)
(* Instances of ThreadPool for TLC.                                        *)
(***************************************************************************)
EXTENDS ThreadPool

CONSTANTS c1, c2, r1, r2, a

MCRoots == {r1, r2}
MCTask  == MCRoots \cup {a}

\* r1 posts a child when it runs; the others post nothing.
MCChildren == [k \in MCTask |-> IF k = r1 THEN <<a>> ELSE << >>]
=============================================================================
