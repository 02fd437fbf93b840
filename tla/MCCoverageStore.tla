--------------------------- MODULE MCCoverageStore ---------------------------
(* Two holdings of each of two eras with a pointer, one of an era without,   *)
(* two byte strings, and dates that collide as well as differ.  The store    *)
(* tells holdings of one era and byte strings apart only by equality.        *)
EXTENDS CoverageStore, TLC

CONSTANTS n1, n2, i1, i2, a1, f, g

MCIds == {n1, n2, i1, i2, a1}
MCEraOf == [i \in MCIds |-> IF i \in {n1, n2} THEN "nowcast"
                            ELSE IF i \in {i1, i2} THEN "instance"
                            ELSE "analysis"]
MCFields == {f, g}
MCSymmetry == Permutations({n1, n2}) \cup Permutations({i1, i2})
                \cup Permutations(MCFields)
=============================================================================
