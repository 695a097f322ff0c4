-------------------------- MODULE SpeculativeDecode --------------------------
(***************************************************************************)
(* The generators of one process side by side: requests come one after     *)
(* another, each to one generator, and share the prefill cache.            *)
(***************************************************************************)
EXTENDS SpeculativeSession, FP8MtpGeneration, DeepSeekPager

allVars == <<vars, pager>>

Init == CoreInit /\ pager = NoPager

Next == \/ (SessionStep \/ FP8Step \/ MtpStep) /\ UNCHANGED pager
        \/ PagerStep

\* A generator is one thread of one process; it goes on until it returns.
Fairness == WF_allVars(Next)

Spec == Init /\ [][Next]_allVars /\ Fairness

-----------------------------------------------------------------------------
RowSet == [token : Token, position : Nat]

TypeOK ==
    /\ req \in Requests
    /\ pc \in {"idle", "prefill", "propose", "draft", "verify", "accept",
               "append", "step", "token", "page", "run", "trim", "ahead", "tail"}
    /\ status \in {"idle", "running", "ready", "blocked"}
    /\ generated \in Seq(Token) /\ committed \in Seq(Token)
    /\ kv \in Seq(RowSet)
    /\ nextToken \in Token \cup {NoToken}
    /\ \A b \in 1 .. Len(drafts) : drafts[b] \in Seq(Token)
    /\ \A b \in 1 .. Len(ver) : ver[b] \in Seq(Token)
    /\ native \in [on : BOOLEAN, rows : Seq(RowSet)]
    /\ position \in Nat /\ served \in 0 .. MaxRequests /\ fault \in BOOLEAN
    /\ Len(prefills) <= MaxEntries
    /\ DOMAIN pager.layers \subseteq Executed /\ pager.pending \subseteq Executed
    /\ pager.at \in Executed /\ pager.ahead \in 0 .. LayerCount
    /\ pager.last \in 0 .. LayerCount

\* A native session takes single tokens and the Python KV takes longer rows;
\* they do not know each other's rows, so a session stays exact only if it
\* never mixes them.
Calm == req.native => req.k = 1

\* What the session or loop has run, when it waits for its next step.
Context == CASE req.gen = "stateful" -> committed
             [] req.gen = "stateless" -> <<>>
             [] req.gen = "cached"   -> req.prompt \o committed
             [] req.gen = "mtp"      -> req.prompt \o generated
             [] OTHER -> SubSeq(req.prompt \o generated, 1, position)

Waiting == pc \in {"propose", "draft", "append", "step", "token"}

\* Every token of every answer, whatever was drafted, rejected, corrected,
\* pending or restored from a cache, is the verifier's own greedy choice.
AnswerIsGreedy ==
    Calm => \A i \in 1 .. Len(generated) :
               generated[i] = Greedy(req.prompt \o SubSeq(generated, 1, i - 1))

\* "Verify K candidates against committed KV without re-running the prompt":
\* the ids a stateful verification returns are the verifier's choices after
\* the committed tokens and the candidates before each position.
VerifiesAgainstCommitted ==
    (req.gen = "stateful" /\ pc = "accept") =>
        \A i \in 1 .. Len(ver[1]) :
            ver[1][i] = Greedy(committed \o SubSeq(drafts[1], 1, i - 1))

\* Between verifications the KV a loop reads next holds exactly the rows of the
\* tokens it stands for: no rejected row is left and no accepted one missing.
\* (A stateful session without a first verification has no KV yet; an MTP loop
\* whose last pass finished the answer will not read its KV again.)
KvMatchesContext ==
    (Calm /\ Waiting /\ ~native.on /\ ~(req.gen = "stateful" /\ nextToken = NoToken)
          /\ ~(req.gen = "mtp" /\ Enough(generated))
          /\ ~(req.gen = "plain" /\ ~MorePositions))
        => kv = Rows(Context, 0)

\* While a session decodes natively its native rows are its committed tokens.
NativeMatchesCommitted ==
    (Calm /\ native.on) => native.rows = Rows(committed, 0) /\ kv = <<>>

\* An answer in the making differs from what is committed by one token at most.
OnePending ==
    /\ (req.gen = "stateful" /\ status = "running")
         => req.prompt \o generated =
              committed \o (IF pc = "append" THEN <<generated[Len(generated)]>> ELSE <<>>)
    /\ (req.gen = "cached" /\ status = "running")
         => \/ generated = committed
            \/ generated = Append(committed, nextToken)

\* A prefill entry is what its prompt alone gives, whatever ran since it was stored.
PrefillEntriesExact ==
    \A i \in 1 .. Len(prefills) :
        \E p \in Prompts, t \in BOOLEAN : prefills[i] = PrefillEntry(p, t)

\* What is kept from pass to pass is of one context (K/V rows, native rows, what is
\* committed and the answer in the making), and what is kept from request to request
\* of its prompt.
CachesMatch ==
    KvMatchesContext /\ NativeMatchesCommitted /\ OnePending /\ PrefillEntriesExact

\* The token a loop will force or compare first is the choice after its context.
NextTokenIsGreedy ==
    (Calm /\ Waiting /\ nextToken # NoToken
          /\ ~(req.gen = "mtp" /\ Enough(generated))
          /\ ~(req.gen = "plain" /\ (position < Len(req.prompt) \/ ~MorePositions)))
        => nextToken = Greedy(Context)

\* A ready answer is complete and not longer than it was asked to be, unless a
\* linear MTP row, which is not cut to the tokens still wanted, ran past the end.
ReadyIsComplete ==
    status = "ready" =>
        /\ Len(generated) >= req.max \/ (req.gen \in {"mtp", "plain"} /\ StoppedByEos(generated))
        /\ req.gen # "mtp" => Len(generated) <= req.max
        /\ req.gen = "mtp" => Len(Visible(generated)) <= req.max + (IF req.tree THEN 0 ELSE req.k - 1)

\* A request is refused only because a pass or a proposal failed, or because an
\* MTP loop used up its passes: never for a state the generator put itself in.
BlockedByFault ==
    (Calm /\ status = "blocked") =>
        (fault \/ (req.gen = "mtp" /\ position >= req.passes))

EndsAsItShould == ReadyIsComplete /\ BlockedByFault

\* Every request ends.
RequestsEnd == (status = "running") ~> (status # "running")

\* Whatever was evicted, prefetched or taken ahead: the order of use lists each
\* resident layer once; after a layer ran, what is resident fits the budget or is
\* that layer alone; and a layer is on its way only while it is not resident and
\* the pass has yet to come to it, so no prefetched layer is left behind.
PagerSound ==
    Paging =>
        /\ \A l \in DOMAIN pager.layers :
              Cardinality({i \in 1 .. Len(pager.lru) : pager.lru[i] = l}) = 1
        /\ Len(pager.lru) = Cardinality(DOMAIN pager.layers)
        /\ pc \in {"ahead", "tail", "token", "page"} =>
              \/ ResidentBytes(pager.layers) <= req.budget
              \/ DOMAIN pager.layers \subseteq {pager.last}
        /\ pager.pending \cap DOMAIN pager.layers = {}
        /\ \A l \in pager.pending : l > pager.at \/ (l = pager.at /\ pc = "page")
        /\ pc = "token" => pager.pending = {}

-----------------------------------------------------------------------------
\* The generators implement greedy decoding.
Promise == INSTANCE GreedyDecode WITH
    prompt <- req.prompt, wanted <- req.max, answer <- generated

\* (MTP requests with no passes left are blocked answers of the promise.)
ImplementsGreedy == Promise!Spec
=============================================================================
