--------------------------- MODULE MCAutoplayLane ---------------------------
(* Titles that name at most two of eight languages in one script, or none in    *)
(* two scripts.                                                                *)
EXTENDS AutoplayLane

Named == UNION {kSubset(k, {"bhojpuri", "hindi", "punjabi", "tamil", "urdu", "persian",
                            "marathi", "sinhala"}) : k \in 0 .. 2}
Scripts == UNION {kSubset(k, {"devanagari", "gurmukhi", "tamil", "arabic", "sinhala"})
                    : k \in 0 .. 2}

Songs  == [named : Named, scripts : {s \in Scripts : Cardinality(s) <= 1},
           bad : {FALSE}, length : {200}]
          \cup [named : {{}}, scripts : Scripts, bad : {FALSE}, length : {200}]
Others == [named : {{}, {"tamil"}}, scripts : {{}}, bad : BOOLEAN,
           length : {0, 44, 45, 600, 601, 900}]

MCTracks == Songs \cup Others
=============================================================================
