--------------------------- MODULE TensorResidency ---------------------------
(***************************************************************************)
(* The cache of converted tensors of                                       *)
(* src/src/pcketlm/core/runtime/tensor_residency.py.                       *)
(*                                                                         *)
(* A load looks its tensors up under _cache_lock, reads the missing ones   *)
(* from disk without it, and stores them one by one under the lock again,  *)
(* with the policy it computed when it began.  Other loads, other policies *)
(* and clears fall in between.  Each section under the lock is one action. *)
(*                                                                         *)
(* Which of several equally evictable tensors goes (insertion order,       *)
(* activation scores) is left open.  _residency_step is 0 for good, since  *)
(* no code of the program advances it, so no tensor is ever older than the *)
(* sticky window and the first pass over dense victims selects none.       *)
(***************************************************************************)
EXTENDS Integers, FiniteSets, OrderLists

CONSTANTS
  Threads,   \* threads that load tensors: requests and layer prefetches
  Tensors,   \* cache keys
  Size,      \* Size[t]: bytes of the resident form
  Layer,     \* Layer[t]: entry.layer_index, -1 if it has none
  Expert,    \* Expert[t]: entry.expert_index, -1 for a dense tensor
  Pinned,    \* _is_always_resident_entry: routers and norms
  Policies,  \* the policies TensorResidencyPolicy.from_environment may return
  Batches    \* the tensor sets a load may ask for

ASSUME ConstantsAssumption ==
  /\ IsFiniteSet(Tensors) /\ Policies # {}
  /\ Size \in [Tensors -> Nat \ {0}]
  /\ Layer \in [Tensors -> Nat \cup {-1}] /\ Expert \in [Tensors -> Nat \cup {-1}]
  /\ \A t \in Tensors : Expert[t] >= 0 => Layer[t] >= 0
  /\ Pinned \subseteq {t \in Tensors : Expert[t] = -1}
  /\ Policies \subseteq [enabled : BOOLEAN, max : Nat, maxTensor : Nat, small : Nat,
                         front : Nat, expertMax : Nat, cap : Nat]
  /\ Batches \subseteq (SUBSET Tensors) \ {{}}

VARIABLES
  resident,     \* the keys of _resident_tensors
  bytes,        \* _resident_bytes
  expertBytes,  \* _resident_expert_bytes
  current,      \* _current_step_experts
  loader        \* what each thread is loading

vars == <<resident, bytes, expertBytes, current, loader>>

Experts == {t \in Tensors : Expert[t] >= 0}
Dense == Tensors \ Experts
ExpertKey(t) == <<Layer[t], Expert[t]>>
ExpertKeys(S) == {ExpertKey(t) : t \in S \cap Experts}
\* A byte is a tensor and an offset in it.
Bytes(S) == TotalOf(S, Size)
InLayer(S, l) == {t \in S \cap Experts : Layer[t] = l}

Idle == [at |-> "idle", todo |-> {}, missing |-> {}, policy |-> CHOOSE p \in Policies : TRUE]

TypeOK ==
  /\ resident \subseteq Tensors
  /\ bytes \in 0..Bytes(Tensors) /\ expertBytes \in 0..Bytes(Experts)
  /\ current \subseteq ExpertKeys(Tensors)
  /\ loader \in [Threads -> [at : {"idle", "looking", "storing"}, todo : SUBSET Tensors,
                             missing : SUBSET Tensors, policy : Policies]]

Init ==
  /\ resident = {} /\ bytes = 0 /\ expertBytes = 0
  /\ current = {}
  /\ loader = [th \in Threads |-> Idle]

-----------------------------------------------------------------------------
(* What fits, and what has to go                                           *)

\* _is_cacheable, and the size test at the head of _store_resident_tensor.
Storable(t, p) ==
  /\ p.enabled
  /\ IF t \in Experts
       THEN Size[t] <= p.expertMax
       ELSE /\ Size[t] <= p.max
            /\ Size[t] <= p.small \/ (Layer[t] < p.front /\ Size[t] <= p.maxTensor)

\* What a loop may evict whose goal the evictions in Enough reach, taking the
\* tensors of `first` before those of `last`; it gives up when neither is left.
Evictions(first, last, Enough) ==
  {E \in SUBSET (first \cup last) :
     /\ E \cap last # {} => first \subseteq E
     /\ E \in Enough \/ E = first \cup last
     /\ E # {} => \E v \in E : /\ v \in last \/ E \cap last = {}
                               /\ E \ {v} \notin Enough}

Idling(S) == {t \in S : ExpertKey(t) \notin current}

\* Mutant: the room for the new tensor itself is not counted.
DenseVictimsForgettingNew(S, t, p) ==
  LET pool == (S \cap Dense) \ Pinned IN
  Evictions(pool, {}, {E \in SUBSET pool : Bytes((S \ E) \cap Dense) <= p.max})

\* Mutant: experts of the current step are not spared.
ExpertVictimsAnyStep(S, t, p) ==
  LET pool == S \cap Experts IN
  Evictions(pool, {}, {E \in SUBSET pool : Bytes(pool \ E) + Size[t] <= p.expertMax})

\* Pinned tensors stay.
DenseVictims(S, t, p) ==
  LET pool == (S \cap Dense) \ Pinned IN
  Evictions(pool, {}, {E \in SUBSET pool : Bytes((S \ E) \cap Dense) + Size[t] <= p.max})

\* Experts of the current step go last.
ExpertVictims(S, t, p) ==
  LET pool == S \cap Experts IN
  Evictions(Idling(pool), pool \ Idling(pool),
            {E \in SUBSET pool : Bytes(pool \ E) + Size[t] <= p.expertMax})

\* _enforce_expert_layer_cap; the tensor just stored may be the victim.
LayerVictims(S, t, p) ==
  LET pool == InLayer(S, Layer[t]) IN
  Evictions(Idling(pool), pool \ Idling(pool),
            {E \in SUBSET pool : p.cap = 0 \/ Cardinality(ExpertKeys(pool \ E)) <= p.cap})

-----------------------------------------------------------------------------
(* Loads                                                                   *)

\* A load begins: its policy is computed from the environment and the free
\* memory of the moment; the router has recorded the experts it has chosen, and
\* may load others ahead of need.
BeginLoad(th, batch, chosen, p) ==
  /\ loader[th].at = "idle"
  /\ loader' = [loader EXCEPT ![th] = [Idle EXCEPT !.at = "looking", !.todo = batch,
                                                   !.policy = p]]
  /\ chosen \subseteq batch \cap Experts
  /\ chosen = {} => batch \cap Experts = {}
  /\ current' = current \cup ExpertKeys(chosen)
  /\ UNCHANGED <<resident, bytes, expertBytes>>

LookUp(th, t) ==
  /\ loader[th].at = "looking" /\ t \in loader[th].todo
  /\ loader' = [loader EXCEPT
       ![th].todo = @ \ {t},
       ![th].missing = IF loader[th].policy.enabled /\ t \in resident THEN @ ELSE @ \cup {t}]
  /\ UNCHANGED <<resident, bytes, expertBytes, current>>

\* load_tensors_by_name, without the lock; a tensor that is not ready is
\* returned as it is and never stored.
ReadMissing(th) ==
  /\ loader[th].at = "looking" /\ loader[th].todo = {}
  /\ \E ready \in SUBSET loader[th].missing :
       loader' = [loader EXCEPT ![th] =
         IF ready = {} THEN Idle
         ELSE [Idle EXCEPT !.at = "storing", !.todo = ready, !.policy = loader[th].policy]]
  /\ UNCHANGED <<resident, bytes, expertBytes, current>>

Done(th, t) ==
  loader' = [loader EXCEPT ![th] = IF loader[th].todo = {t} THEN Idle
                                   ELSE [loader[th] EXCEPT !.todo = @ \ {t}]]

\* Mutant: the copy another load has stored meanwhile is not subtracted.
StoreTensorOverCopy(th, t) ==
  LET p == loader[th].policy
      rest == resident \ {t} IN
  /\ loader[th].at = "storing" /\ t \in loader[th].todo
  /\ Storable(t, p)
  /\ \/ /\ t \in Dense
        /\ \E out \in DenseVictims(rest, t, p) :
             /\ resident' = (rest \ out) \cup {t}
             /\ bytes' = bytes - Bytes(out) + Size[t]
        /\ UNCHANGED expertBytes
     \/ /\ t \in Experts
        /\ \E out \in ExpertVictims(rest, t, p) :
             /\ resident' = (rest \ out) \cup {t}
             /\ bytes' = bytes - Bytes(out) + Size[t]
             /\ expertBytes' = expertBytes - Bytes(out) + Size[t]
  /\ Done(th, t)
  /\ UNCHANGED current

\* _store_resident_tensor.  Another load may have stored the same key since it
\* was looked up: the old copy goes first.
StoreTensor(th, t) ==
  LET p == loader[th].policy
      rest == resident \ {t}
      replaced == resident \cap {t} IN
  /\ loader[th].at = "storing" /\ t \in loader[th].todo
  /\ Storable(t, p)
  /\ \/ /\ t \in Dense
        /\ \E out \in DenseVictims(rest, t, p) :
             /\ resident' = (rest \ out) \cup {t}
             /\ bytes' = bytes - Bytes(replaced) - Bytes(out) + Size[t]
        /\ UNCHANGED expertBytes
     \/ /\ t \in Experts
        /\ \E out \in ExpertVictims(rest, t, p) :
             LET kept == (rest \ out) \cup {t} IN
             \E over \in LayerVictims(kept, t, p) :
               LET freed == Bytes(replaced) + Bytes(out) + Bytes(over) IN
               /\ resident' = kept \ over
               /\ bytes' = bytes - freed + Size[t]
               /\ expertBytes' = expertBytes - freed + Size[t]
  /\ Done(th, t)
  /\ UNCHANGED current

SkipTensor(th, t) ==
  /\ loader[th].at = "storing" /\ t \in loader[th].todo
  /\ ~Storable(t, loader[th].policy)
  /\ Done(th, t)
  /\ UNCHANGED <<resident, bytes, expertBytes, current>>

\* Mutant: a clear drops the tensors and keeps their byte counts.
ClearTensorsOnly ==
  /\ resident # {} \/ current # {}
  /\ resident' = {} /\ current' = {}
  /\ UNCHANGED <<bytes, expertBytes, loader>>

\* clear_tensor_residency_cache and clear_dequantized_tensor_residency_cache: a
\* settings change, the end of the last warm runner, low memory.
ClearCache ==
  /\ resident # {} \/ current # {}
  /\ resident' = {} /\ bytes' = 0 /\ expertBytes' = 0
  /\ current' = {}
  /\ UNCHANGED loader

Begin ==
  \E th \in Threads, batch \in Batches, p \in Policies, chosen \in SUBSET Experts :
    BeginLoad(th, batch, chosen, p)

Proceed ==
  \/ ClearCache
  \/ \E th \in Threads :
       \/ ReadMissing(th)
       \/ \E t \in Tensors : LookUp(th, t) \/ StoreTensor(th, t) \/ SkipTensor(th, t)

Next == Begin \/ Proceed

Spec == Init /\ [][Next]_vars

-----------------------------------------------------------------------------
(* Properties                                                              *)

\* The byte counters, kept by additions and subtractions scattered over
\* stores, replacements, evictions and clears, are the sums they stand for;
\* the expert budget is enforced on a counter, so a drift would break it.
TotalsExact ==
  /\ bytes = Bytes(resident)
  /\ expertBytes = Bytes(resident \cap Experts)

\* The step in which thread th stores tensor t.
Stores(th, t) ==
  /\ loader[th].at = "storing" /\ t \in loader[th].todo
  /\ Storable(t, loader[th].policy)
  /\ t \notin loader'[th].todo

\* However old the policy of a load is by the time it stores, the store leaves
\* the cache within that policy: only pinned tensors may push the dense bytes
\* over the budget, the experts never exceed theirs, nor a layer its cap.
BudgetHolds ==
  [][\A th \in Threads, t \in Tensors : Stores(th, t) =>
       LET p == loader[th].policy IN
       IF t \in Dense
         THEN \/ Bytes(resident' \cap Dense) <= p.max
              \/ (resident' \cap Dense) \ {t} \subseteq Pinned
         ELSE /\ Bytes(resident' \cap Experts) <= p.expertMax
              /\ \/ p.cap = 0
                 \/ Cardinality(ExpertKeys(InLayer(resident', Layer[t]))) <= p.cap]_vars

\* A store evicts an expert of the current step only when no idle one could go
\* in its place: none is left in its layer, nor in any other when the budget
\* and not the layer's cap was at stake, but the tensor just stored.  A dense
\* store evicts no expert at all.
StepExpertsStay ==
  [][\A th \in Threads, t \in Tensors : Stores(th, t) =>
       \A v \in (resident \cap Experts) \ resident' :
         /\ t \in Experts
         /\ ExpertKey(v) \in current =>
              /\ Idling(InLayer(resident', Layer[v])) \subseteq {t}
              /\ Layer[v] # Layer[t] => Idling(resident' \cap Experts) \subseteq {t}]_vars

\* What a store evicts: enough for the budgets, and experts of the step last.
EvictionsFollowPolicy == BudgetHolds /\ StepExpertsStay
=============================================================================
