------------------------- MODULE FP8AttentionCache -------------------------
(***************************************************************************)
(* The cache of dequantized attention weights (fp8_source.py).  Every      *)
(* decode of the server has a thread of its own, and nothing keeps two of  *)
(* them apart.  A decode sends the weights of the next layer ahead to a    *)
(* pool of workers, and workers and decodes store what they load.  Only    *)
(* the table of futures has a lock: the order of use and the count of      *)
(* bytes are changed as they are found, between any two calls of another   *)
(* thread.                                                                 *)
(***************************************************************************)
EXTENDS Integers, Sequences, FiniteSets, OrderLists, SequencesExt

CONSTANTS Weights,        \* the attention weights, as keys of the cache
          WeightOrder,    \* the order in which a pass asks for them
          LayerOfWeight,  \* the layer of each
          WeightBytes,    \* the dequantized size of each
          PinnedWeights,  \* PCKETLM_FP8_ATTENTION_WEIGHT_CACHE_PIN
          WeightMax,      \* PCKETLM_FP8_ATTENTION_WEIGHT_CACHE_MB
          Decoders,       \* the threads that decode: of chat jobs and requests
          Workers,        \* the threads of the prefetch executor; none: no prefetch
          MaxCalls        \* bound on the passes and clears together

CacheThreads == Workers \cup Decoders

ASSUME WeightAssumption ==
    /\ WeightOrder \in Seq(Weights) /\ WeightOrder # <<>> /\ Once(WeightOrder)
    /\ ToSet(WeightOrder) = Weights /\ WeightBytes \in [Weights -> Nat \ {0}]
    /\ PinnedWeights \subseteq Weights /\ WeightMax \in Nat \ {0}
    /\ Decoders \cap Workers = {} /\ Decoders # {} /\ IsFiniteSet(CacheThreads)

VARIABLES held,        \* the keys of the cache, least recently used first
          heldBytes,   \* _FP8_ATTENTION_WEIGHT_CACHE_BYTES
          tasks,       \* what was submitted to the executor, each with its answer
          begun,       \* how many of them a worker has taken
          futures,     \* _FP8_ATTENTION_PREFETCH_FUTURES: of a key, its task
          thread,      \* where each thread is, and what it works on
          clearStep,   \* what a clear that has begun does next
          prefixOnly,  \* the cache policy: keep the first weights, evict none
          calls,       \* passes and clears begun
          lostBytes,   \* an update of the count of bytes was overwritten
          storedTwice, \* a weight was stored that was held already
          overlapped,  \* a decode began while another one was under way
          clearedAmid  \* a clear ended while a decode or a task was under way

wVars == <<held, heldBytes, tasks, begun, futures, thread, clearStep, prefixOnly,
           calls, lostBytes, storedTwice, overlapped, clearedAmid>>
wBooks == <<clearStep, prefixOnly, calls, overlapped, clearedAmid>>
wCounts == <<heldBytes, lostBytes, storedTwice>>

AtRest == [pc |-> "idle", key |-> WeightOrder[1], victim |-> WeightOrder[1],
           seen |-> 0, nth |-> 1, task |-> 0, blocked |-> FALSE]

WInit ==
    /\ held = <<>> /\ heldBytes = 0 /\ futures = <<>> /\ tasks = <<>> /\ begun = 0
    /\ thread = [t \in CacheThreads |-> AtRest] /\ clearStep = "no"
    /\ prefixOnly \in BOOLEAN /\ calls = 0
    /\ lostBytes = FALSE /\ storedTwice = FALSE
    /\ overlapped = FALSE /\ clearedAmid = FALSE

In(key) == Lists(held, key)
Less(key) == WithoutAll(held, {key})

At(t, label) == thread[t].pc = label
To(t, label) == thread' = [thread EXCEPT ![t].pc = label]

-----------------------------------------------------------------------------
(***************************************************************************)
(* The end of a lookup.                                                    *)
(***************************************************************************)
\* A decoder goes on to its next weight; a worker answers its task.
Settle(t, outcome) ==
    IF t \in Decoders
      THEN /\ thread' = IF outcome = "raised" THEN [thread EXCEPT ![t] = AtRest]
                        ELSE [thread EXCEPT ![t].pc = "next", ![t].nth = @ + 1,
                                            ![t].blocked = @ \/ outcome = "blocked"]
           /\ UNCHANGED tasks
      ELSE /\ thread' = [thread EXCEPT ![t] = AtRest]
           /\ tasks' = [tasks EXCEPT ![thread[t].task].answer = outcome]

(***************************************************************************)
(* A pass of a decoder.                                                    *)
(***************************************************************************)
StartPass(d) ==
    /\ At(d, "idle") /\ calls < MaxCalls
    /\ To(d, "next") /\ calls' = calls + 1
    /\ overlapped' = (overlapped \/ \E e \in Decoders \ {d} : ~At(e, "idle"))
    /\ UNCHANGED <<held, wCounts, tasks, begun, futures, clearStep, prefixOnly, clearedAmid>>

NewLayer(n) == n = 1 \/ LayerOfWeight[WeightOrder[n]] # LayerOfWeight[WeightOrder[n - 1]]

\* Mutant: weights that were sent for already are sent for again.
WantedAheadAgain(n) ==
    {k \in Weights : /\ NewLayer(n) /\ Workers # {} /\ ~In(k)
                     /\ LayerOfWeight[k] = LayerOfWeight[WeightOrder[n]] + 1}

\* The weights of the next layer that are neither held nor sent for.
WantedAhead(n) ==
    {k \in Weights : /\ NewLayer(n) /\ Workers # {}
                     /\ LayerOfWeight[k] = LayerOfWeight[WeightOrder[n]] + 1
                     /\ ~In(k) /\ k \notin DOMAIN futures}

\* One task for each, in the order in which the pass asks for them.
TasksFor(keys) ==
    LET order == WithoutAll(WeightOrder, Weights \ keys)
    IN  [i \in 1 .. Len(order) |-> [key |-> order[i], answer |-> "pending"]]

\* Under the lock: a task for each, and in the table the place of that task.
SendAhead(keys) ==
    /\ tasks' = tasks \o TasksFor(keys)
    /\ futures' = [k \in keys \cup DOMAIN futures |->
                      IF k \in keys
                        THEN CHOOSE i \in Len(tasks) + 1 .. Len(tasks') : tasks'[i].key = k
                        ELSE futures[k]]

\* A layer whose weights were blocked ends the pass; a layer that begins sends
\* the weights of the next one to the workers.
NextWeight(d) ==
    LET n == thread[d].nth
    IN  /\ At(d, "next")
        /\ IF n > Len(WeightOrder) \/ (NewLayer(n) /\ thread[d].blocked)
             THEN thread' = [thread EXCEPT ![d] = AtRest] /\ UNCHANGED <<futures, tasks>>
             ELSE /\ thread' = [thread EXCEPT ![d].pc = "get", ![d].key = WeightOrder[n]]
                  /\ SendAhead(WantedAhead(n))
        /\ UNCHANGED <<held, wCounts, begun, wBooks>>

GetWeight(d) ==
    /\ At(d, "get")
    /\ To(d, IF In(thread[d].key) THEN "touch" ELSE "look")
    /\ UNCHANGED <<held, wCounts, tasks, begun, futures, wBooks>>

\* move_to_end raises if another thread evicted the key since it was found.  The
\* future of a key that was found is left where it is.
TouchWeight(d) ==
    LET key == thread[d].key
    IN  /\ At(d, "touch")
        /\ held' = IF In(key) THEN PutLast(held, {key}, key) ELSE held
        /\ Settle(d, IF In(key) THEN "done" ELSE "raised")
        /\ UNCHANGED <<wCounts, begun, futures, wBooks>>

\* The decoder keeps the future it finds, whatever becomes of the table.
LookForFuture(d) ==
    LET key == thread[d].key
    IN  /\ At(d, "look")
        /\ thread' = IF key \in DOMAIN futures
                       THEN [thread EXCEPT ![d].pc = "await", ![d].task = futures[key]]
                       ELSE [thread EXCEPT ![d].pc = "load"]
        /\ UNCHANGED <<held, wCounts, tasks, begun, futures, wBooks>>

\* It takes the key out of the table once there is an answer, and whatever future
\* the key has by then; it loads the weight itself only if the worker could not.
AwaitFuture(d) ==
    LET answer == tasks[thread[d].task].answer
    IN  /\ At(d, "await") /\ answer # "pending"
        /\ futures' = Restrict(futures, DOMAIN futures \ {thread[d].key})
        /\ IF answer = "blocked" THEN To(d, "load") /\ UNCHANGED tasks
                                 ELSE Settle(d, answer)
        /\ UNCHANGED <<held, wCounts, begun, wBooks>>

(***************************************************************************)
(* clear_fp8_attention_weight_cache, in another thread and at any time: it *)
(* empties the cache, sets the count to nothing and forgets the futures.   *)
(* Tasks that wait or run go on without a future and store all the same.   *)
(***************************************************************************)
ClearWeights ==
    /\ clearStep = "no" /\ calls < MaxCalls
    /\ held' = <<>> /\ clearStep' = "count" /\ calls' = calls + 1
    /\ UNCHANGED <<wCounts, tasks, begun, futures, thread, prefixOnly, overlapped, clearedAmid>>

Subtracting == {t \in CacheThreads : thread[t].pc \in {"read", "write"}}

ClearCount ==
    /\ clearStep = "count"
    /\ heldBytes' = 0 /\ clearStep' = "futures"
    /\ lostBytes' = (lostBytes \/ held # <<>> \/ Subtracting # {})
    /\ UNCHANGED <<held, storedTwice, tasks, begun, futures, thread, prefixOnly, calls,
                   overlapped, clearedAmid>>

ClearFutures ==
    /\ clearStep = "futures"
    /\ futures' = <<>> /\ clearStep' = "no"
    /\ clearedAmid' = (\/ clearedAmid \/ begun < Len(tasks)
                       \/ \E t \in CacheThreads : ~At(t, "idle"))
    /\ UNCHANGED <<held, wCounts, tasks, begun, thread, prefixOnly, calls, overlapped>>

-----------------------------------------------------------------------------
(***************************************************************************)
(* Loading and storing, by a decoder or a worker.                          *)
(***************************************************************************)
\* The executor starts its tasks in the order in which they came.
TakeTask(t) ==
    /\ t \in Workers /\ At(t, "idle") /\ begun < Len(tasks)
    /\ begun' = begun + 1
    /\ thread' = [thread EXCEPT ![t].pc = "load", ![t].task = begun',
                                ![t].key = tasks[begun'].key]
    /\ UNCHANGED <<held, wCounts, tasks, futures, wBooks>>

\* A weight that cannot be read is an answer too, and is not stored.
LoadWeight(t) ==
    /\ At(t, "load")
    /\ \/ To(t, "store") /\ UNCHANGED tasks
       \/ Settle(t, "blocked")
    /\ UNCHANGED <<held, wCounts, begun, futures, wBooks>>

Exceeds(t) == heldBytes + WeightBytes[thread[t].key] > WeightMax

\* What is too large, or would push others out under the prefix policy, is not stored.
AdmitWeight(t) ==
    LET key == thread[t].key
    IN  /\ At(t, "store")
        /\ IF \/ WeightBytes[key] > WeightMax
              \/ key \notin PinnedWeights /\ prefixOnly /\ Exceeds(t)
             THEN Settle(t, "done")
             ELSE To(t, "room") /\ UNCHANGED tasks
        /\ UNCHANGED <<held, wCounts, begun, futures, wBooks>>

\* The oldest entry that may go: a pinned weight does not push out another.
Victims(key) == WithoutAll(held, IF key \in PinnedWeights THEN PinnedWeights ELSE {})

MakeRoom(t) ==
    /\ At(t, "room")
    /\ IF held = <<>> \/ ~Exceeds(t)
         THEN To(t, "put") /\ UNCHANGED tasks
       ELSE IF Victims(thread[t].key) = <<>>
         THEN Settle(t, "done")
         ELSE /\ thread' = [thread EXCEPT ![t].pc = "evict",
                                          ![t].victim = Victims(thread[t].key)[1]]
              /\ UNCHANGED tasks
    /\ UNCHANGED <<held, wCounts, begun, futures, wBooks>>

\* Mutant: what is evicted is not subtracted.
EvictUncounted(t) ==
    /\ At(t, "evict")
    /\ held' = Less(thread[t].victim)
    /\ IF In(thread[t].victim) THEN To(t, "room") /\ UNCHANGED tasks
                               ELSE Settle(t, "raised")
    /\ UNCHANGED <<wCounts, begun, futures, wBooks>>

\* The delete raises if another thread was first.
EvictWeight(t) ==
    /\ At(t, "evict")
    /\ held' = Less(thread[t].victim)
    /\ IF In(thread[t].victim)
         THEN To(t, "read") /\ UNCHANGED tasks
         ELSE Settle(t, "raised")
    /\ UNCHANGED <<wCounts, begun, futures, wBooks>>

\* The count is read, the size of the victim computed, and the count written.
ReadCount(t) ==
    /\ At(t, "read")
    /\ thread' = [thread EXCEPT ![t].pc = "write", ![t].seen = heldBytes]
    /\ UNCHANGED <<held, wCounts, tasks, begun, futures, wBooks>>

WriteCount(t) ==
    /\ At(t, "write")
    /\ heldBytes' = thread[t].seen - WeightBytes[thread[t].victim]
    /\ lostBytes' = (lostBytes \/ heldBytes # thread[t].seen)
    /\ To(t, "room")
    /\ UNCHANGED <<held, storedTwice, tasks, begun, futures, wBooks>>

\* The size is added whether or not the key was there.
PutWeight(t) ==
    /\ At(t, "put")
    /\ held' = IF In(thread[t].key) THEN held
                ELSE PutLast(held, {thread[t].key}, thread[t].key)
    /\ heldBytes' = heldBytes + WeightBytes[thread[t].key]
    /\ storedTwice' = (storedTwice \/ In(thread[t].key))
    /\ Settle(t, "done")
    /\ UNCHANGED <<begun, futures, lostBytes, wBooks>>

WNext ==
    \/ \E d \in Decoders :
          \/ StartPass(d) \/ NextWeight(d) \/ GetWeight(d) \/ TouchWeight(d)
          \/ LookForFuture(d) \/ AwaitFuture(d)
    \/ \E t \in CacheThreads :
          \/ TakeTask(t) \/ LoadWeight(t) \/ AdmitWeight(t) \/ MakeRoom(t)
          \/ EvictWeight(t) \/ ReadCount(t) \/ WriteCount(t) \/ PutWeight(t)
    \/ ClearWeights \/ ClearCount \/ ClearFutures

WSpec == WInit /\ [][WNext]_wVars

-----------------------------------------------------------------------------
Working(t) == thread[t].pc \in {"load", "store", "room", "evict", "read", "write", "put"}

\* A weight someone loads or stores is not held, and nobody else loads it.
LoadedOnce ==
    \A t \in CacheThreads : Working(t) =>
        /\ ~In(thread[t].key)
        /\ \A u \in CacheThreads \ {t} : Working(u) => thread[u].key # thread[t].key

\* What is in memory: what is held and what was evicted and is not yet subtracted.
HeldSize == TotalOf(ToSet(held), WeightBytes)
LeavingSize == TotalOf(Subtracting, [t \in CacheThreads |-> WeightBytes[thread[t].victim]])

\* The weights that are held are over the limit by no more than one weight for
\* every thread but one: each adds one to what another has just found to fit.
HeldWithin ==
    \E k \in Weights : /\ \A o \in Weights : WeightBytes[o] <= WeightBytes[k]
                       /\ HeldSize <= WeightMax + WeightBytes[k] * (Cardinality(CacheThreads) - 1)

\* The cache that no lock protects, under several decodes, their workers and
\* clears.  Decodes that come one after another load no weight twice at once and
\* store none twice, unless a clear fell among them.  Decodes that overlap may:
\* the bytes of a weight stored twice are counted twice and never subtracted.  Even
\* then the count is never below what is held, so the memory stays within its
\* limit up to what the threads store at the same time; and the count is exact as
\* long as no weight was stored twice.  What breaks the count for good is only an
\* update that was overwritten: by the subtraction of an eviction, or by a clear.
AttentionCacheSound ==
    /\ overlapped \/ clearedAmid \/ (LoadedOnce /\ ~storedTwice)
    /\ \/ lostBytes
       \/ /\ heldBytes >= HeldSize + LeavingSize /\ HeldWithin
          /\ storedTwice \/ clearStep = "count" \/ heldBytes = HeldSize + LeavingSize
=============================================================================
