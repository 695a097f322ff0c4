-------------------------- MODULE FP8MtpGeneration --------------------------
(***************************************************************************)
(* Batched multi-token prediction over the FP8 verifier (fp8_source.py):   *)
(* the MTP head drafts one row of candidates or a tree of rows of one      *)
(* length, one verifier pass checks them all, and the KV of the accepted   *)
(* prefix of the best row is kept.                                         *)
(***************************************************************************)
EXTENDS FP8Generation

\* The answer a user sees ends before the first end token.
Visible(tokens) ==
    LET ends == {i \in 1 .. Len(tokens) : tokens[i] \in Eos}
        stop == {n \in 0 .. Len(tokens) : \A i \in ends : n < i}
    IN  SubSeq(tokens, 1, CHOOSE n \in stop : \A m \in stop : m <= n)

StoppedByEos(tokens) == \E i \in 1 .. Len(tokens) : tokens[i] \in Eos

Enough(tokens) == StoppedByEos(tokens) \/ Len(Visible(tokens)) >= req.max

RemainingVisible == req.max - Len(Visible(generated))

\* A prompt is taken from the prefill cache or run.
MtpPrefill ==
    /\ pc = "prefill" /\ req.gen = "mtp"
    /\ PrefillWithCache(TRUE)
    /\ IF nextToken' = NoToken THEN Leave("blocked")
                               ELSE pc' = "draft" /\ UNCHANGED status
    /\ UNCHANGED <<req, generated, committed, drafts, ver, tent, native,
                   position, fault, served>>

MtpPrefillFails ==
    pc = "prefill" /\ req.gen = "mtp" /\ PrefillFails(TRUE)

\* The warm-up runs the prompt again and stores it under the same key.
WarmPrefill ==
    /\ pc = "idle" /\ served < MaxRequests
    /\ \E r \in Requests : /\ r.gen = "mtp"
                           /\ prefills' = Stored(PrefillEntry(r.prompt, TRUE))
    /\ served' = served + 1
    /\ UNCHANGED <<req, pc, status, generated, committed, kv, nextToken, drafts,
                   ver, tent, native, position, fault>>

\* The passes are over: enough was produced, or the bound on passes was met.
MtpDone ==
    /\ pc = "draft" /\ req.gen = "mtp"
    /\ Enough(generated) \/ position >= req.passes
    /\ Leave(IF Enough(generated) THEN "ready" ELSE "blocked")
    /\ UNCHANGED <<req, generated, committed, kv, nextToken, drafts, ver, tent,
                   native, position, prefills, fault, served>>

DraftStarts == /\ pc = "draft" /\ req.gen = "mtp"
               /\ ~Enough(generated) /\ position < req.passes

\* Linear drafting: the first candidate is forced to the verifier's token, and
\* a forced one ends the row; so does an end token, and the k-th candidate.
LinearRow(c) ==
    /\ Len(c) \in 1 .. req.k
    /\ c[1] = nextToken
    /\ \A i \in 1 .. Len(c) - 1 : c[i] \notin Eos
    /\ Len(c) = req.k \/ Len(c) = 1 \/ c[Len(c)] \in Eos

DraftLinear ==
    /\ DraftStarts /\ ~req.tree
    /\ \E c \in UpTo(Token, req.k) : LinearRow(c) /\ drafts' = <<c>>
    /\ pc' = "verify"
    /\ UNCHANGED <<req, status, generated, committed, kv, nextToken, ver, tent,
                   native, position, prefills, fault, served>>

\* Mutant: the depth of the tree ignores what is still to be shown.
FullTreeDepth == req.depth

\* A pass drafts no deeper than what is still to be shown, and all of it
\* when a continuation has at most six tokens to go.
TreeDepth == IF Visible(generated) # <<>> /\ RemainingVisible \in 2 .. 6
               THEN RemainingVisible
               ELSE Least(req.depth, RemainingVisible)

\* Every row starts with the verifier's token and repeats an end token.
TreeRow(c) == /\ c[1] = nextToken
              /\ \A i \in 1 .. Len(c) - 1 : c[i] \in Eos => c[i + 1] = c[i]

\* At most two rows of one length, the better scored first; one forced token
\* when the MTP head does not rank the verifier's token at all.
DraftTree ==
    /\ DraftStarts /\ req.tree
    /\ \/ drafts' = <<<<nextToken>>>>
       \/ \E n \in 1 .. 2 :
            \E rows \in [1 .. n -> {c \in [1 .. TreeDepth -> Token] : TreeRow(c)}] :
                (n = 2 => rows[1] # rows[2]) /\ drafts' = rows
    /\ pc' = "verify"
    /\ UNCHANGED <<req, status, generated, committed, kv, nextToken, ver, tent,
                   native, position, prefills, fault, served>>

\* A draft step below the root fails: the rows found so far are filled up with
\* their last token and still verified, and the request will end after it.
DraftTreeCut ==
    /\ DraftStarts /\ req.tree /\ TreeDepth > 1
    /\ \E m \in 1 .. TreeDepth - 1 :
         \E c \in {c \in [1 .. TreeDepth -> Token] : TreeRow(c)} :
             /\ \A i \in m .. TreeDepth : c[i] = c[m]
             /\ drafts' = <<c>>
    /\ fault' = TRUE
    /\ pc' = "verify"
    /\ UNCHANGED <<req, status, generated, committed, kv, nextToken, ver, tent,
                   native, position, prefills, served>>

\* The last row position is left out of the pass when the drafts reach what
\* is still to be shown and the terminal trim is enabled.
Trimmed == /\ req.tree /\ req.trim
           /\ TreeDepth >= RemainingVisible
           /\ Len(drafts[1]) > 1

StartPos == Len(req.prompt) + Len(generated)

VerifyMtp ==
    /\ pc = "verify" /\ req.gen = "mtp"
    /\ LET run(c) == IF Trimmed THEN SubSeq(c, 1, Len(c) - 1) ELSE c
       IN  /\ ver' = [b \in 1 .. Len(drafts) |->
                        <<nextToken>> \o Predicted(kv, StartPos, run(drafts[b]))]
           /\ tent' = [b \in 1 .. Len(drafts) |->
                        kv \o Rows(run(drafts[b]), StartPos)]
    /\ pc' = "accept"
    /\ UNCHANGED <<req, status, generated, committed, kv, nextToken, drafts,
                   native, position, prefills, fault, served>>

\* A draft step or the verifier reports blockers, and the request ends.
MtpFails ==
    /\ \/ pc = "draft" /\ DraftStarts
       \/ pc = "verify" /\ req.gen = "mtp"
    /\ GiveUp

\* The row with the longest accepted prefix; of equals, the better scored one.
BestRow ==
    CHOOSE b \in 1 .. Len(drafts) :
        \A o \in 1 .. Len(drafts) :
            \/ Agreed(drafts[o], ver[o]) < Agreed(drafts[b], ver[b])
            \/ Agreed(drafts[o], ver[o]) = Agreed(drafts[b], ver[b]) /\ b <= o

\* Mutant: the token after a row accepted to its end is always added.
AlwaysFinishesWith(tokens, tail) == TRUE

\* The token after a row accepted to its end is added too when it ends the
\* answer: an end token, or the last one to be shown.
FinishesWith(tokens, tail) ==
    \/ tail \in Eos
    \/ /\ Len(Visible(Append(tokens, tail))) >= req.max
       /\ Len(Visible(tokens)) < req.max

CommitRow(b, n) ==
    LET taken == generated \o SubSeq(drafts[b], 1, n)
        ids   == ver[b]
        tail  == n = Len(drafts[b]) /\ n < Len(ids)
    IN  /\ kv' = Keep(tent[b], Len(req.prompt) + Len(taken))
        /\ nextToken' = IF n < Len(ids) THEN ids[n + 1] ELSE nextToken
        /\ generated' = IF tail /\ FinishesWith(taken, ids[n + 1])
                          THEN Append(taken, ids[n + 1]) ELSE taken

\* A pass that accepts nothing is reported; a pass over drafts that were cut
\* short keeps what it accepted and reports the failed draft.
AcceptMtp ==
    /\ pc = "accept" /\ req.gen = "mtp"
    /\ LET b == BestRow
           n == Agreed(drafts[b], ver[b])
       IN  IF n = 0 THEN UNCHANGED <<kv, nextToken, generated>>
                         /\ Leave("blocked")
           ELSE /\ CommitRow(b, n)
                /\ IF fault THEN Leave("blocked")
                   ELSE IF StoppedByEos(generated') THEN Leave("ready")
                   ELSE pc' = "draft" /\ UNCHANGED status
    /\ position' = position + 1
    /\ drafts' = <<>> /\ ver' = <<>> /\ tent' = <<>>
    /\ UNCHANGED <<req, committed, native, prefills, fault, served>>

MtpStep ==
    \/ Begin({"mtp"}, "prefill")
    \/ MtpPrefill \/ MtpPrefillFails \/ WarmPrefill
    \/ DraftLinear \/ DraftTree \/ DraftTreeCut \/ VerifyMtp \/ MtpFails
    \/ AcceptMtp \/ MtpDone
=============================================================================
