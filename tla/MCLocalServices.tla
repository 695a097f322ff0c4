--------------------------- MODULE MCLocalServices ---------------------------
(***************************************************************************)
(* LocalServices with one key and one session, which runs of two models    *)
(* use, and a run without a session (MCServerMemory has more of both); a   *)
(* download of two files, one of which a second revision makes shorter;    *)
(* and the model that MCStreaming streams.                                 *)
(***************************************************************************)
EXTENDS LocalServices, MCStreaming

CONSTANTS k1, s1, d1, d2

MCRequests == {[key |-> k1, session |-> s1, model |-> TRUE],
               [key |-> k1, session |-> s1, model |-> FALSE],
               [key |-> k1, session |-> Nothing, model |-> TRUE]}

MCFileOrder == <<d1, d2>>
MCLengths == [v \in {0, 1} |-> [f \in Files |-> IF f = d1 THEN 3 - 2 * v ELSE 2]]
=============================================================================
