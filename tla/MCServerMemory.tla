--------------------------- MODULE MCServerMemory ---------------------------
(***************************************************************************)
(* ServerMemory with two response keys and two sessions (MCLocalServices   *)
(* has a session that is asked for another model, and a run without one);  *)
(* and with one attention weight in each of two layers.                    *)
(***************************************************************************)
EXTENDS ServerMemory, TLC

CONSTANTS k1, k2, s1, s2, a1, b1

MCRequests ==
    {[key |-> k1, session |-> s1, model |-> TRUE],
     [key |-> k2, session |-> s2, model |-> FALSE]}

MCOrder == <<a1, b1>>
MCLayers == [w \in Weights |-> IF w = a1 THEN 0 ELSE 1]
MCBytes == [w \in Weights |-> 1]

\* Threads of one kind differ in nothing but their names.
Symmetry == Permutations(Runs) \cup Permutations(Changers) \cup Permutations(Decoders)
=============================================================================
