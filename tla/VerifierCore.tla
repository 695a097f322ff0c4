---------------------------- MODULE VerifierCore ----------------------------
(***************************************************************************)
(* The state the speculative and FP8 generators share and the forward      *)
(* passes they make.  A KV cache is a sequence of rows, one per token;     *)
(* a row remembers the position it was rotated to, so a row computed at    *)
(* the wrong offset is another row.  The verifier is the operator Argmax:  *)
(* the token it prefers after attending to a sequence of rows.             *)
(***************************************************************************)
EXTENDS Integers, Sequences, FiniteSets

CONSTANTS Token,        \* the vocabulary
          Eos,          \* end-of-sequence tokens
          Prompts,      \* the prompts that are asked
          MaxNew,       \* bound on the tokens a request asks for
          MaxRequests,  \* bound on the requests of one process
          MaxEntries,   \* PCKETLM_FP8_PREFILL_CACHE_ENTRIES
          Requests,     \* the requests that are made
          NoToken,      \* next_token_id is None
          Argmax(_)     \* the verifier's choice after a sequence of rows

ASSUME TokenAssumption == /\ Eos \subseteq Token
                          /\ NoToken \notin Token
                          /\ Prompts \subseteq Seq(Token) \ {<<>>}
ASSUME BoundAssumption == /\ MaxNew \in Nat \ {0}
                          /\ MaxRequests \in Nat
                          /\ MaxEntries \in Nat

\* A request: its generator, the prompt, the tokens wanted, and the generator's
\* settings.  Sessions and loops that draft refuse to start for no token or no
\* candidate, and the probes choose none.
Generators == {"stateful", "stateless", "cached", "plain", "mtp", "paged",
               "probe", "remote"}
RequestSet ==
    [gen : Generators, prompt : Prompts, max : 0 .. MaxNew, k : Nat \ {0},
     native : BOOLEAN, tree : BOOLEAN, depth : Nat \ {0}, trim : BOOLEAN,
     passes : Nat, prefill : BOOLEAN, final : BOOLEAN, window : Nat, budget : Nat]
ASSUME RequestAssumption ==
    /\ Requests # {}
    /\ \A r \in Requests :
          /\ r \in RequestSet
          /\ r.gen \in {"stateful", "stateless", "cached", "mtp"} => r.max > 0
          /\ r.gen \in {"probe", "remote"} => r.max = 0

VARIABLES req,        \* the request being answered
          pc,         \* where its generator is; "idle" between requests
          status,     \* "idle", "running", "ready" or "blocked"
          generated,  \* the tokens of the answer
          committed,  \* tokens the session has committed
          kv,         \* committed KV rows
          nextToken,  \* the verifier's choice after the committed tokens
          drafts,     \* the candidate rows of this verification
          ver,        \* the verifier's ids, one list per candidate row
          tent,       \* tentative KV rows, one list per candidate row
          native,     \* the native KV sessions of a session: [on, rows]
          position,   \* forward steps of a plain loop, passes of an MTP loop
          prefills,   \* the prompt prefill cache, oldest entry first
          fault,      \* some forward pass or proposal of this request failed
          served      \* requests begun

vars == <<req, pc, status, generated, committed, kv, nextToken, drafts, ver,
          tent, native, position, prefills, fault, served>>

session == <<committed, kv, nextToken, native>>

Least(a, b) == IF a < b THEN a ELSE b

(***************************************************************************)
(* Forward passes.                                                         *)
(***************************************************************************)
\* KV rows of tokens that start at position off.
Rows(tokens, off) ==
    [i \in 1 .. Len(tokens) |-> [token |-> tokens[i], position |-> off + i - 1]]

\* The verifier's choice after each of tokens, run at off over past rows.
Predicted(past, off, tokens) ==
    [i \in 1 .. Len(tokens) |->
        Argmax(past \o Rows(SubSeq(tokens, 1, i), off))]

\* What the verifier chooses when it runs the tokens alone from the start.
Greedy(tokens) == Argmax(Rows(tokens, 0))

\* A tensor slice [:n] along the sequence.
Keep(rows, n) == SubSeq(rows, 1, Least(n, Len(rows)))

\* How many candidates agree with the verifier's ids, from the first one.
Agreed(cands, ids) ==
    Cardinality({n \in 1 .. Least(Len(cands), Len(ids)) :
                    \A i \in 1 .. n : cands[i] = ids[i]})

\* Sequences over S of at most n elements.
UpTo(S, n) == UNION {[1 .. m -> S] : m \in 0 .. n}

(***************************************************************************)
(* The life of a request.                                                  *)
(***************************************************************************)
Remaining == req.max - Len(generated)

NoSession == [on |-> FALSE, rows |-> <<>>]

CoreInit ==
    /\ req = CHOOSE r \in Requests : TRUE
    /\ pc = "idle" /\ status = "idle"
    /\ generated = <<>> /\ committed = <<>> /\ kv = <<>>
    /\ nextToken = NoToken
    /\ drafts = <<>> /\ ver = <<>> /\ tent = <<>>
    /\ native = NoSession
    /\ position = 0 /\ prefills = <<>> /\ fault = FALSE
    /\ served = 0

\* A call of a generator: its locals are fresh, only the prefill cache stays.
\* The stateful generator starts its session with the prompt committed.
Begin(gens, first) ==
    /\ pc = "idle" /\ served < MaxRequests
    /\ req' \in {r \in Requests : r.gen \in gens}
    /\ pc' = first /\ status' = "running"
    /\ committed' = IF req'.gen = "stateful" THEN req'.prompt ELSE <<>>
    /\ generated' = <<>> /\ kv' = <<>> /\ nextToken' = NoToken
    /\ drafts' = <<>> /\ ver' = <<>> /\ tent' = <<>>
    /\ native' = NoSession /\ position' = 0 /\ fault' = FALSE
    /\ served' = served + 1
    /\ UNCHANGED prefills

\* Leave the generator; the answer counts as ready or not.
Leave(result) == pc' = "idle" /\ status' = result

\* A forward pass, a proposal or a conversion reports blockers: the loop ends.
GiveUp == /\ fault' = TRUE
          /\ Leave("blocked")
          /\ UNCHANGED <<req, generated, committed, kv, nextToken, drafts, ver,
                         tent, native, position, prefills, served>>
=============================================================================
