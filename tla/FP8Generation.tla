---------------------------- MODULE FP8Generation ----------------------------
(***************************************************************************)
(* Generation over the DeepSeek FP8 verifier: the prompt prefill cache,    *)
(* the plain decode loop, and the speculative loop over a cached verifier  *)
(* session (fp8_source.py and the FP8 half of speculative.py).             *)
(***************************************************************************)
EXTENDS VerifierCore

(***************************************************************************)
(* The prefill cache.  The key names the prompt and whether the pass chose *)
(* a token after it; an entry is a copy, so no later pass can change it.   *)
(***************************************************************************)
PrefillKey(tokens, tail) == <<tokens, tail>>

Cached(key) == {i \in 1 .. Len(prefills) : prefills[i].key = key}

PrefillEntry(tokens, tail) ==
    [key  |-> PrefillKey(tokens, tail),
     kv   |-> Rows(tokens, 0),
     next |-> IF tail THEN Greedy(tokens) ELSE NoToken]

Without(i) == SubSeq(prefills, 1, i - 1) \o SubSeq(prefills, i + 1, Len(prefills))

\* A hit moves the entry to the young end.
Touched(i) == Append(Without(i), prefills[i])

\* Mutant: entries are evicted only once there are too many.
StoredOverLimit(entry) ==
    Append(IF Len(prefills) > MaxEntries THEN Tail(prefills) ELSE prefills, entry)

\* A store first evicts the oldest entries down to room for one more, then
\* writes the entry; an entry of the same key that is left is overwritten in place.
Stored(entry) ==
    LET room == SubSeq(prefills,
                       1 + (IF Len(prefills) >= MaxEntries
                              THEN Len(prefills) - MaxEntries + 1 ELSE 0),
                       Len(prefills))
        same == {i \in 1 .. Len(room) : room[i].key = entry.key}
    IN  IF MaxEntries = 0 THEN prefills
        ELSE IF same = {} THEN Append(room, entry)
        ELSE [i \in 1 .. Len(room) |-> IF i \in same THEN entry ELSE room[i]]

\* Take the entry of the prompt, or run the prompt and store what it gave.
PrefillWithCache(tail) ==
    LET key == PrefillKey(req.prompt, tail)
        new == PrefillEntry(req.prompt, tail)
    IN  IF MaxEntries > 0 /\ Cached(key) # {}
          THEN LET i == CHOOSE i \in Cached(key) : TRUE
               IN  /\ kv' = prefills[i].kv
                   /\ nextToken' = prefills[i].next
                   /\ prefills' = Touched(i)
          ELSE /\ kv' = new.kv
               /\ nextToken' = new.next
               /\ prefills' = Stored(new)

\* Mutant: what a failed pass has run is stored all the same.
PrefillFailsStoring(tail) ==
    /\ Cached(PrefillKey(req.prompt, tail)) = {}
    /\ fault' = TRUE
    /\ Leave("blocked")
    /\ prefills' = Stored([PrefillEntry(req.prompt, tail) EXCEPT !.kv = <<>>])
    /\ UNCHANGED <<req, generated, committed, kv, nextToken, drafts, ver, tent,
                   native, position, served>>

\* A miss whose pass reports blockers stores nothing.
PrefillFails(tail) ==
    /\ MaxEntries = 0 \/ Cached(PrefillKey(req.prompt, tail)) = {}
    /\ GiveUp

-----------------------------------------------------------------------------
(***************************************************************************)
(* run_fp8_decode_loop: one token at a time.                               *)
(***************************************************************************)
\* Whether a request that wants no token runs its prompt: the tail is skipped.
WantsTail == req.max > 0

\* The prompt in one pass, when it has more than one token and it is enabled.
PlainPrefill ==
    /\ pc = "prefill" /\ req.gen = "plain"
    /\ IF Len(req.prompt) > 1 /\ req.prefill
         THEN PrefillWithCache(WantsTail) /\ position' = Len(req.prompt)
         ELSE UNCHANGED <<kv, nextToken, prefills, position>>
    /\ pc' = "step"
    /\ UNCHANGED <<req, status, generated, committed, drafts, ver, tent,
                   native, fault, served>>

PlainPrefillFails ==
    /\ pc = "prefill" /\ req.gen = "plain"
    /\ Len(req.prompt) > 1 /\ req.prefill
    /\ PrefillFails(WantsTail)

MorePositions == position < Len(req.prompt) + req.max

\* run_fp8_single_token_forward at the loop's position, over the loop's caches.
ForwardToken(token, tail) ==
    /\ kv' = kv \o Rows(<<token>>, position)
    /\ nextToken' = IF tail THEN Predicted(kv, position, <<token>>)[1]
                            ELSE nextToken
    /\ position' = position + 1

\* A prompt token; only the last one needs the tail.
PromptStep ==
    /\ pc = "step" /\ req.gen = "plain" /\ position < Len(req.prompt)
    /\ ForwardToken(req.prompt[position + 1],
                    position + 1 = Len(req.prompt) /\ WantsTail)
    /\ UNCHANGED <<req, pc, status, generated, committed, drafts, ver, tent,
                   native, prefills, fault, served>>

\* The chosen token joins the answer.  An end token stops the loop, and the
\* last token is not run unless the final cache is wanted.
GenerateStep ==
    /\ pc = "step" /\ req.gen = "plain"
    /\ MorePositions /\ position >= Len(req.prompt)
    /\ IF nextToken = NoToken
         THEN Leave("blocked") /\ UNCHANGED <<generated, kv, nextToken, position>>
         ELSE
         /\ generated' = Append(generated, nextToken)
         /\ LET more == Len(generated') < req.max
            IN  IF nextToken \in Eos
                  THEN /\ position' = position + 1 /\ Leave("ready")
                       /\ UNCHANGED <<kv, nextToken>>
                ELSE IF more \/ req.final
                  THEN ForwardToken(nextToken, more) /\ UNCHANGED <<pc, status>>
                  ELSE /\ position' = position + 1
                       /\ UNCHANGED <<pc, status, kv, nextToken>>
    /\ UNCHANGED <<req, committed, drafts, ver, tent, native, prefills, fault,
                   served>>

\* A failing forward of a generated token: the token is already in the answer.
StepFails ==
    /\ pc = "step" /\ req.gen = "plain" /\ MorePositions
    /\ fault' = TRUE /\ Leave("blocked")
    /\ \/ position < Len(req.prompt) /\ UNCHANGED generated
       \/ /\ position >= Len(req.prompt)
          /\ nextToken \in Token \ Eos
          /\ Len(generated) + 1 < req.max \/ req.final
          /\ generated' = Append(generated, nextToken)
    /\ UNCHANGED <<req, committed, kv, nextToken, drafts, ver, tent, native,
                   position, prefills, served>>

PlainDone ==
    /\ pc = "step" /\ req.gen = "plain" /\ ~MorePositions
    /\ Leave("ready")
    /\ UNCHANGED <<req, generated, committed, kv, nextToken, drafts, ver, tent,
                   native, position, prefills, fault, served>>

-----------------------------------------------------------------------------
(***************************************************************************)
(* FP8CachedVerifierSession and fp8_speculative_generate.                  *)
(***************************************************************************)
CommittedCount == Len(req.prompt) + Len(committed)

\* The session runs the prompt once and keeps its KV and first choice.
OpenSession ==
    /\ pc = "prefill" /\ req.gen = "cached"
    /\ kv' = Rows(req.prompt, 0)
    /\ nextToken' = Greedy(req.prompt)
    /\ pc' = "propose"
    /\ UNCHANGED <<req, status, generated, committed, drafts, ver, tent, native,
                   position, prefills, fault, served>>

OpenSessionFails == pc = "prefill" /\ req.gen = "cached" /\ GiveUp

\* The rows a proposal can become: the first candidate is always the verifier's
\* own next token, proposals that repeat it are dropped, and the row is filled up
\* with its last token.  A proposal that is not ready is used for the tokens it has.
ForceFirst(next, k) ==
    {c \in [1 .. k -> Token] :
        \E m \in 1 .. k : /\ c[1] = next
                          /\ \A i \in 2 .. m : c[i] # next
                          /\ \A i \in m .. k : c[i] = c[m]}

ProposeCached ==
    /\ pc = "propose" /\ req.gen = "cached"
    /\ \E c \in ForceFirst(nextToken, Least(req.k, Remaining)) : drafts' = <<c>>
    /\ pc' = "verify"
    /\ UNCHANGED <<req, status, generated, committed, kv, nextToken, ver, tent,
                   native, position, prefills, fault, served>>

VerifyCached ==
    /\ pc = "verify" /\ req.gen = "cached"
    /\ ver' = <<<<nextToken>> \o Predicted(kv, CommittedCount, drafts[1])>>
    /\ tent' = <<kv \o Rows(drafts[1], CommittedCount)>>
    /\ pc' = "accept"
    /\ UNCHANGED <<req, status, generated, committed, kv, nextToken, drafts,
                   native, position, prefills, fault, served>>

VerifyCachedFails == pc = "verify" /\ req.gen = "cached" /\ GiveUp

\* Mutant: the rows of rejected candidates stay in the cache.
AcceptPrefixKeepingRows(n) ==
    /\ committed' = committed \o SubSeq(drafts[1], 1, n)
    /\ kv' = tent[1]
    /\ nextToken' = IF n < Len(ver[1]) THEN ver[1][n + 1] ELSE nextToken
    /\ drafts' = <<>> /\ ver' = <<>> /\ tent' = <<>>

\* accept_prefix(n).
AcceptPrefix(n) ==
    /\ committed' = committed \o SubSeq(drafts[1], 1, n)
    /\ kv' = Keep(tent[1], CommittedCount + n)
    /\ nextToken' = IF n < Len(ver[1]) THEN ver[1][n + 1] ELSE nextToken
    /\ drafts' = <<>> /\ ver' = <<>> /\ tent' = <<>>

\* Mutant: the corrected token of the last pass is answered again.
NonePending == 0

\* The corrected token of the last pass is in the answer and not in the
\* session: the first accepted candidates only catch the session up.
Pending == Len(generated) - Len(committed)

AcceptCached ==
    /\ pc = "accept" /\ req.gen = "cached"
    /\ LET n     == Least(Agreed(drafts[1], ver[1]), Pending + Remaining)
           shown == generated \o SubSeq(drafts[1], Pending + 1, n)
       IN  /\ AcceptPrefix(n)
           /\ IF Len(shown) >= req.max
                THEN generated' = shown /\ Leave("ready")
                ELSE /\ generated' = Append(shown, ver[1][n + 1])
                     /\ IF Len(shown) + 1 >= req.max
                          THEN Leave("ready")
                          ELSE pc' = "propose" /\ UNCHANGED status
    /\ UNCHANGED <<req, native, position, prefills, fault, served>>

FP8Step ==
    \/ Begin({"plain", "cached"}, "prefill")
    \/ PlainPrefill \/ PlainPrefillFails
    \/ PromptStep \/ GenerateStep \/ StepFails \/ PlainDone
    \/ OpenSession \/ OpenSessionFails
    \/ ProposeCached \/ VerifyCached \/ VerifyCachedFails \/ AcceptCached
=============================================================================
