---------------------------- MODULE ServerMemory ----------------------------
(***************************************************************************)
(* What outlives a request in the process of the web server, besides the   *)
(* rows of a session and the weights that WeightLoads has: the warm runner,  *)
(* behind one lock from end to end; the responses and prefixes, behind a   *)
(* lock for each lookup and store, and the environment behind none; and    *)
(* the attention weights of an FP8 model, behind none.  A run may use all  *)
(* three, but none reads what another keeps, so it is enough to let each   *)
(* of them move by itself.  (A stop of the warm runner clears the          *)
(* responses and the prefixes: ChatCaches models that as StopClears.)      *)
(***************************************************************************)
EXTENDS WarmRunner, ChatCaches, FP8AttentionCache

VARIABLE mover    \* the one that moves

memoryVars == <<mover, vars, cVars, wVars>>

\* Where the warm runner does not move, its mode does not matter, nor the policy of
\* the attention weights where they do not.
MemoryInit ==
    /\ Init /\ CInit /\ WInit
    /\ mover \in {"runner", "caches", "weights"}
    /\ mover = "runner" \/ primeMode = "prefill"
    /\ mover = "weights" \/ prefixOnly

MemoryNext ==
    /\ UNCHANGED mover
    /\ \/ mover = "runner" /\ Next /\ UNCHANGED <<cVars, wVars>>
       \/ mover = "caches" /\ CNext /\ UNCHANGED <<vars, wVars>>
       \/ mover = "weights" /\ WNext /\ UNCHANGED <<vars, cVars>>

MemorySpec == MemoryInit /\ [][MemoryNext]_memoryVars
=============================================================================
