---------------------------- MODULE MCWeightLoads ----------------------------
(***************************************************************************)
(* WeightLoads with the tensors of MCTensorResidency; three packed         *)
(* weights, one of them always kept; and in the files a weight that a pack *)
(* may hold beside one that a conversion turns into Q4.                    *)
(***************************************************************************)
EXTENDS MCTensorResidency, WeightLoads

CONSTANTS p1, p2, p3, n1, n2

MCPackBytes == [k \in Packs |-> IF k = p3 THEN 2 ELSE 1]

\* The second revision of the shard has a longer header and moves the second weight.
MCBases == [r \in Revisions |-> 8 + r]
MCOffsets == [n \in WeightNames |-> [r \in Revisions |-> IF n = n1 THEN 0 ELSE 2 + r]]
=============================================================================
