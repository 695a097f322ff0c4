---------------------------- MODULE MCStreaming ----------------------------
(***************************************************************************)
(* StreamingRuntime with a model of three shards, the first of which is    *)
(* one segment or two.                                                     *)
(***************************************************************************)
EXTENDS StreamingRuntime

CONSTANTS Fine, Coarse

\* The first shard is cut in two or not at all.
MCUnits ==
    [l \in Layouts |-> IF l = Fine THEN <<"1a", "1b", "2", "3">> ELSE <<"1a", "2", "3">>]
MCUnitBytes ==
    [l \in Layouts |-> IF l = Fine
       THEN [id \in Range(MCUnits[l]) |-> CASE id = "1a" -> {1, 2} [] id = "1b" -> {3}
                                            [] id = "2" -> {4, 5} [] OTHER -> {6}]
       ELSE [id \in Range(MCUnits[l]) |-> CASE id = "1a" -> {1, 2, 3} [] id = "2" -> {4, 5}
                                            [] OTHER -> {6}]]
MCHotTarget == [l \in Layouts |-> IF l = Fine THEN 4 ELSE 6]
MCWarmTarget == [l \in Layouts |-> IF l = Fine THEN 2 ELSE 3]
=============================================================================
