------------------------------ MODULE MCPlayer ------------------------------
(* Small instances of Player: five requests for three tracks, two of them   *)
(* uploads of the same song.                                                *)
EXTENDS PlayerProperties

CONSTANTS e1, e2, e3, e4, e5, a, b, c, x, y

MCIdOf == [e \in Entries |-> CASE e \in {e1, e5} -> a [] e = e2 -> b [] OTHER -> c]

MCTitleOf == [e \in Entries |-> IF MCIdOf[e] = a THEN x ELSE IF MCIdOf[e] = b THEN x ELSE y]

ThreadSymmetry == Permutations(Threads)
=============================================================================
