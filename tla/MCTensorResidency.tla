-------------------------- MODULE MCTensorResidency --------------------------
(* A small model: a pinned norm, two dense tensors of which one is too late  *)
(* in the stack for the low-memory policy, two experts of layer 0 and one of *)
(* layer 1, and two policies between which the free memory decides.        *)
EXTENDS TensorResidency, TLC

CONSTANTS norm, attn, late, e00, e01, e10

MCTensors == {norm, attn, late, e00, e01, e10}

MCSize == [t \in MCTensors |-> IF t = norm THEN 1 ELSE 2]

MCLayer == [t \in MCTensors |-> CASE t = norm -> -1
                                  [] t \in {attn, e00, e01} -> 0
                                  [] OTHER -> 1]

MCExpert == [t \in MCTensors |-> CASE t = e01 -> 1
                                   [] t \in {e00, e10} -> 0
                                   [] OTHER -> -1]

MCPinned == {norm}

Standard == [enabled |-> TRUE, max |-> 4, maxTensor |-> 2, small |-> 1, front |-> 2,
             expertMax |-> 6, cap |-> 1]
LowMemory == [Standard EXCEPT !.max = 2, !.front = 1, !.expertMax = 4, !.cap = 0]

MCPolicies == {Standard, LowMemory}

MCBatches == {{norm, attn}, {late}, {e00, e01}, {e10}}

\* Threads are alike.
ThreadSymmetry == Permutations(Threads)
=============================================================================
