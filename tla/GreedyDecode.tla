---------------------------- MODULE GreedyDecode ----------------------------
(***************************************************************************)
(* What every generator of core/runtime promises, however it drafts,       *)
(* verifies and caches: an answer grows only by the tokens the verifier    *)
(* itself would choose one at a time, and it is reported ready only when   *)
(* it is complete.                                                         *)
(***************************************************************************)
EXTENDS Integers, Sequences

CONSTANTS Token,        \* the vocabulary
          Eos,          \* the tokens that end an answer
          Prompts,      \* the prompts that are asked
          MaxNew,       \* bound on the tokens asked for
          Greedy(_)     \* the verifier's choice after a sequence of tokens

VARIABLES prompt,       \* the prompt being answered
          wanted,       \* the number of tokens asked for
          answer,       \* the tokens produced so far
          status        \* "idle", "running", "ready" or "blocked"

vars == <<prompt, wanted, answer, status>>

\* Each token of a, from the one after the first n, is the verifier's own choice.
FollowsGreedy(p, a, n) ==
    \A i \in n + 1 .. Len(a) : a[i] = Greedy(p \o SubSeq(a, 1, i - 1))

EndsWell(a, w) == Len(a) >= w \/ \E i \in 1 .. Len(a) : a[i] \in Eos

Init == /\ prompt \in Prompts
        /\ wanted \in 0 .. MaxNew
        /\ answer = <<>>
        /\ status = "idle"

Begin == /\ status # "running"
         /\ prompt' \in Prompts
         /\ wanted' \in 0 .. MaxNew
         /\ answer' = <<>>
         /\ status' = "running"

\* Some greedy tokens are added, and the answer may be finished or given up.
Extend == /\ status = "running"
          /\ Len(answer') >= Len(answer)
          /\ SubSeq(answer', 1, Len(answer)) = answer
          /\ FollowsGreedy(prompt, answer', Len(answer))
          /\ status' \in {"running", "ready", "blocked"}
          /\ status' = "ready" => EndsWell(answer', wanted)
          /\ UNCHANGED <<prompt, wanted>>

Next == Begin \/ Extend

Spec == Init /\ [][Next]_vars
=============================================================================
