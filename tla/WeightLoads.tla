----------------------------- MODULE WeightLoads -----------------------------
(***************************************************************************)
(* How a weight gets from the files into a decode: the files and what the  *)
(* loader remembers of them, the packed weights kept in memory, and the    *)
(* converted tensors kept over them.  What one hands to the next is the    *)
(* answer of a load, and each of them takes any answer, so it is enough to *)
(* let each of them move by itself.  (The attention weights of an FP8      *)
(* model have a cache, and decodes and workers, of their own.)             *)
(***************************************************************************)
EXTENDS TensorResidency, PackedCache, WeightSources

VARIABLE kind    \* the one that moves

loadVars == <<kind, vars, pVars, bVars>>

\* Where no files are read, it does not matter which there are.
LoadInit ==
    /\ Init /\ PInit /\ BInit
    /\ kind \in {"converted", "packed", "files"}
    /\ kind = "files" \/ \A f \in Artifacts : stored[f] = 0

LoadNext ==
    /\ UNCHANGED kind
    /\ \/ kind = "converted" /\ Next /\ UNCHANGED <<pVars, bVars>>
       \/ kind = "packed" /\ PNext /\ UNCHANGED <<vars, bVars>>
       \/ kind = "files" /\ BNext /\ UNCHANGED <<vars, pVars>>

LoadSpec == LoadInit /\ [][LoadNext]_loadVars

-----------------------------------------------------------------------------
TypesOK == TypeOK /\ PTypeOK /\ BTypeOK
=============================================================================
