------------------------- MODULE SpeculativeSession -------------------------
(***************************************************************************)
(* Speculative generation with the layer-bridge verifier: the session of   *)
(* speculative.py that keeps committed KV between verifications, the       *)
(* generator that drives it, and the generator that verifies every batch   *)
(* from the whole prompt.                                                  *)
(***************************************************************************)
EXTENDS VerifierCore

\* propose_candidates is ready only with exactly as many ids as were asked for.
Propose ==
    /\ pc = "propose" /\ req.gen \in {"stateful", "stateless"}
    /\ \E c \in [1 .. Least(req.k, Remaining) -> Token] : drafts' = <<c>>
    /\ pc' = "verify"
    /\ UNCHANGED <<req, status, generated, committed, kv, nextToken, ver, tent,
                   native, position, prefills, fault, served>>

ProposeFails ==
    pc = "propose" /\ req.gen \in {"stateful", "stateless"} /\ GiveUp

-----------------------------------------------------------------------------
(***************************************************************************)
(* SpeculativeSession.                                                     *)
(***************************************************************************)
\* verify_initial_candidates: prompt and candidates in one pass.  The session
\* keeps no KV until the commit.
VerifyInitialCandidates ==
    /\ pc = "verify" /\ req.gen = "stateful" /\ nextToken = NoToken
    /\ LET input == req.prompt \o drafts[1]
           ids   == SubSeq(Predicted(<<>>, 0, input),
                           Len(req.prompt), Len(input))
       IN  /\ ver' = <<ids>>
           /\ nextToken' = ids[1]
           /\ tent' = <<[kv |-> Rows(input, 0), native |-> NoSession]>>
    /\ committed' = req.prompt /\ kv' = <<>> /\ native' = NoSession
    /\ pc' = "accept"
    /\ UNCHANGED <<req, status, generated, drafts, position, prefills, fault,
                   served>>

\* A single token goes through the native attention of a layer when it is
\* built: over the session's native rows, or over a native copy of its KV.
\* Its rows are then kept by the native session only.  Any other pass reads
\* and extends the Python KV and leaves the native session out.
StackOver(tokens) ==
    IF req.native /\ Len(tokens) = 1
    THEN LET past == IF native.on THEN native.rows ELSE kv
         IN  [ids  |-> Predicted(past, Len(past), tokens),
              tent |-> [kv |-> <<>>,
                        native |-> [on |-> TRUE,
                                    rows |-> past \o Rows(tokens, Len(past))]]]
    ELSE [ids  |-> Predicted(kv, Len(committed), tokens),
          tent |-> [kv |-> kv \o Rows(tokens, Len(committed)),
                    native |-> NoSession]]

\* verify_candidates: the committed KV and the candidates.
VerifyCandidates ==
    /\ pc = "verify" /\ req.gen = "stateful" /\ nextToken # NoToken
    /\ ver' = <<<<nextToken>> \o StackOver(drafts[1]).ids>>
    /\ tent' = <<StackOver(drafts[1]).tent>>
    /\ pc' = "accept"
    /\ UNCHANGED <<req, status, generated, committed, kv, nextToken, native,
                   drafts, position, prefills, fault, served>>

\* Blockers of a session stay; the generator stops at the first ones.
VerifyFails ==
    pc = "verify" /\ req.gen \in {"stateful", "stateless"} /\ GiveUp

\* Mutant: the next token is the last one accepted.
CommitNextTooEarly(n, tokens, ids, t) ==
    /\ kv' = Keep(t.kv, Len(committed) + n)
    /\ native' = t.native
    /\ committed' = committed \o SubSeq(tokens, 1, n)
    /\ nextToken' = IF n > 0 THEN ids[n] ELSE nextToken

\* commit(n) of tokens that were verified into t with ids: Python rows are
\* cut to the committed length, native rows are committed, and the next
\* token is the verifier's choice after the last accepted one.
Commit(n, tokens, ids, t) ==
    /\ kv' = Keep(t.kv, Len(committed) + n)
    /\ native' = IF t.native.on
                   THEN [on |-> TRUE,
                         rows |-> Keep(t.native.rows,
                                       Len(t.native.rows) - Len(tokens) + n)]
                   ELSE NoSession
    /\ committed' = committed \o SubSeq(tokens, 1, n)
    /\ nextToken' = IF n < Len(ids) THEN ids[n + 1] ELSE nextToken

\* rollback: nothing tentative is left.
Rollback == drafts' = <<>> /\ ver' = <<>> /\ tent' = <<>>

\* The generator takes the agreeing prefix and commits it.  The first
\* disagreement is replaced by the verifier's own token, to be appended.
AcceptStateful ==
    /\ pc = "accept" /\ req.gen = "stateful"
    /\ LET n   == Agreed(drafts[1], ver[1])
           new == SubSeq(drafts[1], 1, n)
       IN  /\ Commit(n, drafts[1], ver[1], tent[1])
           /\ IF Len(generated) + n >= req.max
                THEN generated' = generated \o new /\ Leave("ready")
              ELSE IF n < Len(drafts[1])
                THEN /\ generated' = Append(generated \o new, ver[1][n + 1])
                     /\ pc' = "append" /\ UNCHANGED status
                ELSE /\ generated' = generated \o new
                     /\ pc' = "propose" /\ UNCHANGED status
    /\ Rollback
    /\ UNCHANGED <<req, position, prefills, fault, served>>

\* append_token: the corrected token is verified alone and committed.
AppendToken ==
    /\ pc = "append" /\ req.gen = "stateful"
    /\ LET token == <<generated[Len(generated)]>>
           pass  == StackOver(token)
       IN  Commit(1, token, <<nextToken>> \o pass.ids, pass.tent)
    /\ IF Len(generated) >= req.max THEN Leave("ready")
                                    ELSE pc' = "propose" /\ UNCHANGED status
    /\ Rollback
    /\ UNCHANGED <<req, generated, position, prefills, fault, served>>

AppendFails == pc = "append" /\ req.gen = "stateful" /\ GiveUp

-----------------------------------------------------------------------------
(***************************************************************************)
(* speculative_generate with a verifier of its own: no state but the text. *)
(***************************************************************************)
\* verify_candidates_once and its FP8 form: one pass over everything.
VerifyOnce(tokens, cands) ==
    SubSeq(Predicted(<<>>, 0, tokens \o cands),
           Len(tokens), Len(tokens) + Len(cands))

\* verify_fp8_candidates_cached_once: a prefill, then a continuation over it.
VerifyCachedOnce(tokens, cands) ==
    <<Greedy(tokens)>> \o Predicted(Rows(tokens, 0), Len(tokens), cands)

VerifyStateless ==
    /\ pc = "verify" /\ req.gen = "stateless"
    /\ \/ ver' = <<VerifyOnce(req.prompt \o generated, drafts[1])>>
       \/ ver' = <<VerifyCachedOnce(req.prompt \o generated, drafts[1])>>
    /\ pc' = "accept"
    /\ UNCHANGED <<req, status, generated, committed, kv, nextToken, drafts,
                   tent, native, position, prefills, fault, served>>

\* Mutant: a rejected candidate is not replaced by the verifier's token.
AcceptStatelessNoCorrection ==
    /\ pc = "accept" /\ req.gen = "stateless"
    /\ generated' = generated \o SubSeq(drafts[1], 1, Agreed(drafts[1], ver[1]))
    /\ IF Len(generated') >= req.max THEN Leave("ready")
                                     ELSE pc' = "propose" /\ UNCHANGED status
    /\ Rollback
    /\ UNCHANGED <<req, committed, kv, nextToken, native, position, prefills,
                   fault, served>>

\* The agreeing prefix and one token of the verifier, if there is room.
AcceptStateless ==
    /\ pc = "accept" /\ req.gen = "stateless"
    /\ LET n     == Agreed(drafts[1], ver[1])
           taken == SubSeq(drafts[1], 1, n)
           extra == n < Len(drafts[1]) \/ Len(generated) + n < req.max
       IN  generated' = generated \o
              Keep(IF extra THEN Append(taken, ver[1][n + 1]) ELSE taken,
                   Remaining)
    /\ IF Len(generated') >= req.max THEN Leave("ready")
                                     ELSE pc' = "propose" /\ UNCHANGED status
    /\ Rollback
    /\ UNCHANGED <<req, committed, kv, nextToken, native, position, prefills,
                   fault, served>>

SessionStep ==
    \/ Begin({"stateful", "stateless"}, "propose")
    \/ Propose \/ ProposeFails
    \/ VerifyInitialCandidates \/ VerifyCandidates \/ VerifyFails
    \/ AcceptStateful \/ AppendToken \/ AppendFails
    \/ VerifyStateless \/ AcceptStateless
=============================================================================
