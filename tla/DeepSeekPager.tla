--------------------------- MODULE DeepSeekPager ---------------------------
(***************************************************************************)
(* Decoding a DeepSeek model whose layers do not fit in memory: each pass  *)
(* pages its layers in and out of a budget of bytes, least recently used   *)
(* first (deepseek_gpu_residency.py, and the pager without futures of      *)
(* deepseek_remote_gpu.py).  A layer grows while it is used: the weights   *)
(* of an expert it chose stay until the whole layer is released.           *)
(***************************************************************************)
EXTENDS VerifierCore, OrderLists, SequencesExt

CONSTANTS LayerCount,   \* the executed layers are 1 .. LayerCount
          DenseLayers,  \* layers below first_k_dense_replace
          Experts,      \* the routed experts of a layer
          BaseBytes,    \* attention, norms and router of a layer
          PartBytes     \* an expert, an expert's slice of a stack, or a dense MLP

ASSUME LayerAssumption == /\ LayerCount \in Nat \ {0}
                          /\ DenseLayers \subseteq 1 .. LayerCount
                          /\ BaseBytes \in Nat /\ PartBytes \in Nat

VARIABLE pager   \* the pager of this request and where its pass is

Executed == 1 .. LayerCount

\* at: the layer of this pass; ahead: remote layers fetched after it;
\* last: the layer the last enforce_budget protected, 0 before the first.
NoPager == [layers |-> <<>>, lru |-> <<>>, pending |-> {}, at |-> 1, ahead |-> 0,
            last |-> 0]

PagedKinds == {"paged", "probe", "remote"}

Paging == req.gen \in PagedKinds

(***************************************************************************)
(* The pager: layers by index, an order of use, futures of prefetches.     *)
(***************************************************************************)
FreshLayer == [loaded |-> {}, chosen |-> {}, dense |-> FALSE]

LayerBytes(r) ==
    BaseBytes + PartBytes * (Cardinality(r.loaded) + Cardinality(r.chosen)
                             + (IF r.dense THEN 1 ELSE 0))

ResidentBytes(layers) ==
    SumFunction([l \in DOMAIN layers |-> LayerBytes(layers[l])])

\* Mutant: only a layer that has been used before is moved to the young end.
TouchKnown(p, l) ==
    IF Lists(p.lru, l)
      THEN [p EXCEPT !.lru = PutLast(p.lru, {l}, l)]
      ELSE p

Touch(p, l) == [p EXCEPT !.lru = PutLast(p.lru, {l}, l)]

\* A hit, a finished prefetch, or a load of its own.
Got(p, l) ==
    Touch(IF l \in DOMAIN p.layers THEN p
          ELSE [p EXCEPT !.layers = [k \in DOMAIN p.layers \cup {l} |->
                                        IF k = l THEN FreshLayer ELSE p.layers[k]],
                         !.pending = p.pending \ {l}],
          l)

\* Only layers that are neither resident nor on their way are loaded ahead.
Prefetched(p) ==
    LET window == {l \in Executed : p.at < l /\ l <= p.at + req.window}
    IN  [p EXCEPT !.pending = p.pending \cup (window \ DOMAIN p.layers)]

WithoutLayers(p, gone) ==
    [p EXCEPT !.layers = Restrict(p.layers, DOMAIN p.layers \ gone),
              !.lru = WithoutAll(p.lru, gone)]

\* enforce_budget: the oldest layers go, but not the protected one, until the
\* others fit or none is left.
Enforced(p, protected) ==
    LET old       == WithoutAll(p.lru, {protected})
        after(n)  == WithoutLayers(p, {old[i] : i \in 1 .. n})
        enough(n) == ResidentBytes(after(n).layers) <= req.budget \/ n = Len(old)
        least     == CHOOSE n \in 0 .. Len(old) :
                        enough(n) /\ \A m \in 0 .. n - 1 : ~enough(m)
    IN  [after(least) EXCEPT !.last = protected]

-----------------------------------------------------------------------------
(***************************************************************************)
(* A request: run_local_deepseek_paged_decode_loop ("paged"), the local    *)
(* probe of one token ("probe") and the remote one ("remote").             *)
(***************************************************************************)
coreRest == <<req, committed, drafts, ver, tent, native, prefills, served>>

BeginPaged == Begin(PagedKinds, "token") /\ pager' = NoPager

\* The token of the next position: of the prompt, or the choice of the last tail.
TakeToken ==
    /\ Paging /\ pc = "token"
    /\ IF req.gen = "paged" /\ position >= Len(req.prompt) + req.max
         THEN Leave("ready") /\ pager' = NoPager /\ UNCHANGED generated
       ELSE IF position >= Len(req.prompt) /\ nextToken = NoToken
         THEN Leave("blocked") /\ pager' = NoPager /\ UNCHANGED generated
         ELSE /\ generated' = IF position < Len(req.prompt) THEN generated
                              ELSE Append(generated, nextToken)
              /\ pager' = [pager EXCEPT !.at = 1]
              /\ pc' = "page" /\ UNCHANGED status
    /\ UNCHANGED <<coreRest, kv, nextToken, position, fault>>

\* The local loops send the layers of their window ahead before they take one.
PageLayer ==
    /\ Paging /\ pc = "page"
    /\ pager' = Got(IF req.gen = "remote" THEN pager ELSE Prefetched(pager), pager.at)
    /\ pc' = "run"
    /\ UNCHANGED <<coreRest, status, generated, kv, nextToken, position, fault>>

\* Experts that were loaded once stay among the weights; the stacks hold the
\* chosen ones.  A dense layer loads its MLP on its first pass.
Ran(r, chosen) ==
    IF chosen = {} THEN [r EXCEPT !.dense = TRUE]
    ELSE [r EXCEPT !.loaded = r.loaded \cup chosen, !.chosen = chosen]

\* The forward pass of the layer; kv stands for the cache of every layer, and
\* takes its row with the last one.
RunLayer ==
    /\ Paging /\ pc = "run"
    /\ \E chosen \in IF pager.at \in DenseLayers THEN {{}} ELSE {{e} : e \in Experts} :
          pager' = [pager EXCEPT !.layers[pager.at] = Ran(@, chosen)]
    /\ kv' = IF pager.at < LayerCount THEN kv
             ELSE kv \o Rows(<<(req.prompt \o generated)[position + 1]>>, position)
    /\ pc' = "trim"
    /\ UNCHANGED <<coreRest, status, generated, nextToken, position, fault>>

TrimLayers ==
    /\ Paging /\ pc = "trim"
    /\ pager' = Enforced(pager, pager.at)
    /\ pc' = "ahead"
    /\ UNCHANGED <<coreRest, status, generated, kv, nextToken, position, fault>>

MoreAhead == /\ req.gen = "remote" /\ pager.ahead < req.window
             /\ pager.at + pager.ahead < LayerCount

\* The remote probe takes the layers of its window itself, and each one may
\* push out what was taken before it.
TakeAhead ==
    /\ Paging /\ pc = "ahead" /\ MoreAhead
    /\ pager' = [Enforced(Got(pager, pager.at + pager.ahead + 1), pager.at)
                    EXCEPT !.ahead = pager.ahead + 1]
    /\ UNCHANGED <<coreRest, pc, status, generated, kv, nextToken, position, fault>>

NextLayer ==
    /\ Paging /\ pc = "ahead" /\ ~MoreAhead
    /\ IF pager.at < LayerCount
         THEN pager' = [pager EXCEPT !.at = pager.at + 1, !.ahead = 0] /\ pc' = "page"
         ELSE UNCHANGED pager /\ pc' = "tail"
    /\ UNCHANGED <<coreRest, status, generated, kv, nextToken, position, fault>>

NeedTail == position >= Len(req.prompt) - 1

\* The end of a position.  A probe is one position and chooses no token that is used.
FinishPosition ==
    /\ Paging /\ pc = "tail"
    /\ IF req.gen = "paged"
         THEN /\ nextToken' = IF NeedTail THEN Argmax(kv) ELSE nextToken
              /\ position' = position + 1
              /\ pc' = "token" /\ UNCHANGED <<status, pager>>
         ELSE Leave("ready") /\ pager' = NoPager /\ UNCHANGED <<nextToken, position>>
    /\ UNCHANGED <<coreRest, generated, kv, fault>>

\* A load, a prefetched load, a forward pass or the tail raises: the pager is
\* closed and the result is a failure.  Taking a resident layer cannot raise.
PagedFails ==
    /\ Paging
    /\ \/ pc = "page" /\ (pager.at = 1 \/ pager.at \notin DOMAIN pager.layers)
       \/ pc = "run"
       \/ pc = "ahead" /\ MoreAhead
       \/ pc = "tail" /\ (req.gen = "paged" => NeedTail)
    /\ fault' = TRUE /\ Leave("blocked") /\ pager' = NoPager
    /\ UNCHANGED <<coreRest, generated, kv, nextToken, position>>

PagerStep ==
    \/ BeginPaged \/ TakeToken \/ PageLayer \/ RunLayer \/ TrimLayers
    \/ TakeAhead \/ NextLayer \/ FinishPosition \/ PagedFails
=============================================================================
