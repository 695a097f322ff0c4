-------------------------- MODULE WeightLoads_proofs --------------------------
(***************************************************************************)
(* Proofs about the loading of weights, for any tensors, weights, sizes,   *)
(* policies and threads: the cache of converted tensors, the files, the    *)
(* packed weights, and the attention weights.                              *)
(***************************************************************************)
EXTENDS WeightLoads, FP8AttentionCache, OrderLists_proofs

-----------------------------------------------------------------------------
(* Bytes add up                                                            *)

LEMMA Tensor ==
  /\ IsFiniteSet(Tensors)
  /\ \A t \in Tensors : Size[t] \in Nat /\ Size[t] >= 1
  /\ Experts \subseteq Tensors /\ Dense \subseteq Tensors
  /\ \A t \in Tensors : t \in Experts <=> t \notin Dense
  BY ConstantsAssumption DEF Experts, Dense

LEMMA TensorSets ==
  ASSUME NEW S \in SUBSET Tensors
  PROVE  IsFiniteSet(S) /\ Sizes(S, Size)
<1>1. IsFiniteSet(S)
  BY Tensor, FS_Subset
<1> QED BY <1>1, Tensor DEF Sizes

LEMMA BytesType == ASSUME NEW S \in SUBSET Tensors PROVE Bytes(S) \in Nat
  BY TensorSets, TotalType DEF Bytes

LEMMA BytesLess ==
  ASSUME NEW S \in SUBSET Tensors, NEW T \in SUBSET S
  PROVE  /\ Bytes(S \ T) = Bytes(S) - Bytes(T)
         /\ Bytes(T) <= Bytes(S)
<1>1. IsFiniteSet(S) /\ Sizes(S, Size)
  BY TensorSets
<1> QED BY <1>1, TotalLess DEF Bytes

LEMMA BytesWith ==
  ASSUME NEW S \in SUBSET Tensors, NEW t \in Tensors, t \notin S
  PROVE  Bytes(S \cup {t}) = Bytes(S) + Size[t]
<1>1. IsFiniteSet(S) /\ Sizes(S, Size) /\ Size[t] \in Nat
  BY TensorSets, Tensor
<1> QED BY <1>1, TotalWith DEF Bytes

\* What a replacement makes of the bytes of a set of tensors.
LEMMA BytesSwap ==
  ASSUME NEW S \in SUBSET Tensors, NEW t \in Tensors, NEW out \in SUBSET (S \ {t})
  PROVE  /\ Bytes(((S \ {t}) \ out) \cup {t}) = Bytes(S) - Bytes(S \cap {t}) - Bytes(out) + Size[t]
         /\ Bytes(S) \in Nat /\ Bytes(S \cap {t}) \in Nat /\ Bytes(out) \in Nat
<1>1. /\ S \ {t} \in SUBSET Tensors /\ (S \ {t}) \ out \in SUBSET Tensors
      /\ S \cap {t} \in SUBSET S /\ t \notin (S \ {t}) \ out /\ S \ (S \cap {t}) = S \ {t}
      /\ S \cap {t} \in SUBSET Tensors /\ out \in SUBSET Tensors
  OBVIOUS
<1>2. Bytes(((S \ {t}) \ out) \cup {t}) = Bytes((S \ {t}) \ out) + Size[t]
  BY <1>1, BytesWith
<1>3. Bytes((S \ {t}) \ out) = Bytes(S \ {t}) - Bytes(out)
  BY <1>1, BytesLess
<1>4. Bytes(S \ (S \cap {t})) = Bytes(S) - Bytes(S \cap {t})
  BY <1>1, BytesLess
<1>5. Bytes(S) \in Nat /\ Bytes(S \cap {t}) \in Nat /\ Bytes(out) \in Nat
  BY <1>1, BytesType
<1> QED BY <1>1, <1>2, <1>3, <1>4, <1>5

-----------------------------------------------------------------------------
(* What is evicted                                                         *)

LEMMA DenseVictimsFacts ==
  ASSUME NEW S, NEW t, NEW p, NEW out \in DenseVictims(S, t, p)
  PROVE  /\ out \subseteq S \cap Dense
         /\ \/ Bytes((S \ out) \cap Dense) + Size[t] <= p.max
            \/ (S \ out) \cap Dense \subseteq Pinned
  BY DEF DenseVictims, Evictions

LEMMA ExpertVictimsFacts ==
  ASSUME NEW S, NEW t, NEW p, NEW out \in ExpertVictims(S, t, p)
  PROVE  /\ out \subseteq S \cap Experts
         /\ \/ Bytes((S \cap Experts) \ out) + Size[t] <= p.expertMax
            \/ S \cap Experts \subseteq out
         /\ \A v \in out : ExpertKey(v) \in current => Idling(S \cap Experts) \subseteq out
  BY DEF ExpertVictims, Evictions, Idling

LEMMA LayerVictimsFacts ==
  ASSUME NEW S, NEW t, NEW p, NEW over \in LayerVictims(S, t, p)
  PROVE  /\ over \subseteq InLayer(S, Layer[t])
         /\ \/ p.cap = 0
            \/ Cardinality(ExpertKeys(InLayer(S, Layer[t]) \ over)) <= p.cap
            \/ InLayer(S, Layer[t]) \subseteq over
         /\ \A v \in over : ExpertKey(v) \in current =>
                              Idling(InLayer(S, Layer[t])) \subseteq over
  BY DEF LayerVictims, Evictions, Idling

-----------------------------------------------------------------------------
(* The counts and the types of the converted tensors                       *)

LoaderRecords ==
  [at : {"idle", "looking", "storing"}, todo : SUBSET Tensors,
   missing : SUBSET Tensors, policy : Policies]

ResidencyInv ==
  /\ resident \subseteq Tensors
  /\ TotalsExact
  /\ current \subseteq ExpertKeys(Tensors)
  /\ loader \in [Threads -> LoaderRecords]

LEMMA IdleFacts == Idle \in LoaderRecords /\ Idle.todo = {}
<1>1. (CHOOSE p \in Policies : TRUE) \in Policies
  BY ConstantsAssumption
<1> QED BY <1>1 DEF Idle, LoaderRecords

LEMMA ResidencyInit == Init => ResidencyInv
<1>1. Bytes({}) = 0 /\ {} \cap Experts = {}
  BY TotalOfNone DEF Bytes
<1>2. Bytes({}) = 0
  BY <1>1 DEF Bytes
<1> QED BY <1>1, <1>2, IdleFacts DEF Init, ResidencyInv, TotalsExact

LEMMA ResidencyTypes == ResidencyInv => TypeOK
<1> SUFFICES ASSUME ResidencyInv PROVE TypeOK
  OBVIOUS
<1>1. /\ Tensors \in SUBSET Tensors /\ resident \in SUBSET Tensors /\ Experts \in SUBSET Tensors
      /\ resident \cap Experts \in SUBSET Experts /\ resident \cap Experts \in SUBSET Tensors
  BY Tensor DEF ResidencyInv
<1>2. /\ Bytes(resident) <= Bytes(Tensors) /\ Bytes(resident \cap Experts) <= Bytes(Experts)
      /\ Bytes(resident) \in Nat /\ Bytes(Tensors) \in Nat
      /\ Bytes(resident \cap Experts) \in Nat /\ Bytes(Experts) \in Nat
  BY <1>1, BytesLess, BytesType
<1>3. bytes \in 0..Bytes(Tensors) /\ expertBytes \in 0..Bytes(Experts)
  BY <1>2 DEF ResidencyInv, TotalsExact
<1> QED BY <1>3 DEF ResidencyInv, TypeOK, LoaderRecords

LEMMA DoneFacts ==
  ASSUME loader \in [Threads -> LoaderRecords], NEW th \in Threads, NEW t \in Tensors, Done(th, t)
  PROVE  /\ loader' \in [Threads -> LoaderRecords]
         /\ \A k \in Threads \ {th} : loader'[k] = loader[k]
         /\ loader'[th].todo = loader[th].todo \ {t}
<1>1. loader[th] \in LoaderRecords
  OBVIOUS
<1>2. CASE loader[th].todo = {t}
  <2>1. loader' = [loader EXCEPT ![th] = Idle]
    BY <1>2 DEF Done
  <2> QED BY <1>2, <2>1, IdleFacts
<1>3. CASE loader[th].todo # {t}
  <2> DEFINE r == [loader[th] EXCEPT !.todo = @ \ {t}]
  <2>1. r \in LoaderRecords /\ r.todo = loader[th].todo \ {t}
    BY <1>1 DEF LoaderRecords
  <2>2. loader' = [loader EXCEPT ![th] = r]
    BY <1>3 DEF Done
  <2> HIDE DEF r
  <2> QED BY <2>1, <2>2
<1> QED BY <1>2, <1>3

\* A store of a dense tensor.
LEMMA DenseStoreFacts ==
  ASSUME ResidencyInv, NEW th \in Threads, NEW t \in Dense, StoreTensor(th, t)
  PROVE  /\ ResidencyInv' /\ current' = current
         /\ LET p == loader[th].policy IN
            \/ Bytes(resident' \cap Dense) <= p.max
            \/ (resident' \cap Dense) \ {t} \subseteq Pinned
         /\ resident \cap Experts \subseteq resident'
<1> DEFINE p == loader[th].policy
           rest == resident \ {t}
<1>1. PICK out \in DenseVictims(rest, t, p) :
        /\ resident' = (rest \ out) \cup {t}
        /\ bytes' = bytes - Bytes(resident \cap {t}) - Bytes(out) + Size[t]
        /\ expertBytes' = expertBytes
  BY DEF StoreTensor, Dense
<1>2. /\ out \subseteq rest \cap Dense
      /\ \/ Bytes((rest \ out) \cap Dense) + Size[t] <= p.max
         \/ (rest \ out) \cap Dense \subseteq Pinned
  <2> HIDE DEF p, rest
  <2> QED BY DenseVictimsFacts
<1>3. t \in Tensors /\ t \notin Experts /\ resident \in SUBSET Tensors /\ out \in SUBSET (resident \ {t})
  BY <1>2, Tensor DEF ResidencyInv
<1>4. Bytes(resident') = bytes'
  <2>1. /\ Bytes(((resident \ {t}) \ out) \cup {t}) =
             Bytes(resident) - Bytes(resident \cap {t}) - Bytes(out) + Size[t]
        /\ bytes = Bytes(resident)
    BY <1>3, BytesSwap DEF ResidencyInv, TotalsExact
  <2> QED BY <1>1, <2>1
<1>5. resident' \cap Experts = resident \cap Experts
  BY <1>1, <1>2, <1>3, Tensor
<1>6. TotalsExact'
  <2>1. Bytes(resident' \cap Experts) = expertBytes'
    BY <1>1, <1>5 DEF ResidencyInv, TotalsExact
  <2> QED BY <1>4, <2>1 DEF TotalsExact, Bytes
<1>7. \/ Bytes(resident' \cap Dense) <= p.max
      \/ (resident' \cap Dense) \ {t} \subseteq Pinned
  <2>1. CASE Bytes((rest \ out) \cap Dense) + Size[t] <= p.max
    <3>1. /\ (rest \ out) \cap Dense \in SUBSET Tensors /\ t \notin (rest \ out) \cap Dense
          /\ resident' \cap Dense = ((rest \ out) \cap Dense) \cup {t}
      BY <1>1, <1>3
    <3>2. Bytes(resident' \cap Dense) = Bytes((rest \ out) \cap Dense) + Size[t]
      BY <1>3, <3>1, BytesWith
    <3> QED BY <2>1, <3>2
  <2>2. CASE (rest \ out) \cap Dense \subseteq Pinned
    BY <1>1, <2>2
  <2> QED BY <1>2, <2>1, <2>2
<1>8. loader' \in [Threads -> LoaderRecords] /\ current' = current
  BY <1>3, DoneFacts DEF StoreTensor, ResidencyInv
<1>9. resident' \subseteq Tensors
  BY <1>1, <1>3
<1> QED BY <1>5, <1>6, <1>7, <1>8, <1>9 DEF ResidencyInv

\* A store of an expert.
LEMMA ExpertStoreFacts ==
  ASSUME ResidencyInv, NEW th \in Threads, NEW t \in Experts, StoreTensor(th, t)
  PROVE  /\ ResidencyInv' /\ current' = current
         /\ LET p == loader[th].policy IN
            /\ Bytes(resident' \cap Experts) <= p.expertMax
            /\ \/ p.cap = 0
               \/ Cardinality(ExpertKeys(InLayer(resident', Layer[t]))) <= p.cap
         /\ \A v \in (resident \cap Experts) \ resident' : ExpertKey(v) \in current =>
              /\ Idling(InLayer(resident', Layer[v])) \subseteq {t}
              /\ Layer[v] # Layer[t] => Idling(resident' \cap Experts) \subseteq {t}
<1> DEFINE p == loader[th].policy
           rest == resident \ {t}
<1>1. t \in Tensors /\ t \in Experts /\ t \notin Dense /\ resident \in SUBSET Tensors
  BY Tensor DEF ResidencyInv
<1>2. PICK out \in ExpertVictims(rest, t, p) :
        LET kept == (rest \ out) \cup {t} IN
        \E over \in LayerVictims(kept, t, p) :
          LET freed == Bytes(resident \cap {t}) + Bytes(out) + Bytes(over) IN
          /\ resident' = kept \ over
          /\ bytes' = bytes - freed + Size[t]
          /\ expertBytes' = expertBytes - freed + Size[t]
  BY <1>1 DEF StoreTensor
<1> DEFINE kept == (rest \ out) \cup {t}
<1>3. PICK over \in LayerVictims(kept, t, p) :
        /\ resident' = kept \ over
        /\ bytes' = bytes - (Bytes(resident \cap {t}) + Bytes(out) + Bytes(over)) + Size[t]
        /\ expertBytes' = expertBytes - (Bytes(resident \cap {t}) + Bytes(out) + Bytes(over)) + Size[t]
  BY <1>2
<1>4. /\ out \subseteq rest \cap Experts
      /\ \/ Bytes((rest \cap Experts) \ out) + Size[t] <= p.expertMax
         \/ rest \cap Experts \subseteq out
      /\ \A v \in out : ExpertKey(v) \in current => Idling(rest \cap Experts) \subseteq out
  <2> HIDE DEF p, rest
  <2> QED BY ExpertVictimsFacts
<1>5. /\ over \subseteq InLayer(kept, Layer[t])
      /\ \/ p.cap = 0
         \/ Cardinality(ExpertKeys(InLayer(kept, Layer[t]) \ over)) <= p.cap
         \/ InLayer(kept, Layer[t]) \subseteq over
      /\ \A v \in over : ExpertKey(v) \in current => Idling(InLayer(kept, Layer[t])) \subseteq over
  <2> HIDE DEF p, kept
  <2> QED BY LayerVictimsFacts
<1>6. /\ kept \in SUBSET Tensors /\ kept \cap Experts \in SUBSET Tensors
      /\ over \in SUBSET kept /\ over \in SUBSET (kept \cap Experts) /\ over \in SUBSET Tensors
      /\ resident' \cap Experts = (kept \cap Experts) \ over
      /\ out \in SUBSET (resident \ {t}) /\ out \in SUBSET ((resident \cap Experts) \ {t})
      /\ resident \cap Experts \in SUBSET Tensors
      /\ kept \cap Experts = (((resident \cap Experts) \ {t}) \ out) \cup {t}
      /\ (resident \cap Experts) \cap {t} = resident \cap {t}
  BY <1>1, <1>3, <1>4, <1>5, Tensor DEF InLayer
<1>7. /\ Bytes(kept) = Bytes(resident) - Bytes(resident \cap {t}) - Bytes(out) + Size[t]
      /\ Bytes(kept \cap Experts) = Bytes(resident \cap Experts)
                                      - Bytes(resident \cap {t}) - Bytes(out) + Size[t]
      /\ Bytes(kept \ over) = Bytes(kept) - Bytes(over)
      /\ Bytes((kept \cap Experts) \ over) = Bytes(kept \cap Experts) - Bytes(over)
  <2>1. /\ Bytes(((resident \ {t}) \ out) \cup {t}) =
             Bytes(resident) - Bytes(resident \cap {t}) - Bytes(out) + Size[t]
    BY <1>1, <1>6, BytesSwap
  <2>2. Bytes((((resident \cap Experts) \ {t}) \ out) \cup {t}) =
          Bytes(resident \cap Experts) - Bytes((resident \cap Experts) \cap {t})
            - Bytes(out) + Size[t]
    BY <1>1, <1>6, BytesSwap
  <2>3. /\ Bytes(kept \ over) = Bytes(kept) - Bytes(over)
        /\ Bytes((kept \cap Experts) \ over) = Bytes(kept \cap Experts) - Bytes(over)
    BY <1>6, BytesLess
  <2> QED BY <1>6, <2>1, <2>2, <2>3
<1>8. /\ Bytes(kept) \in Nat /\ Bytes(kept \cap Experts) \in Nat /\ Bytes(over) \in Nat
      /\ Bytes(out) \in Nat /\ Bytes(resident \cap {t}) \in Nat /\ Bytes(resident) \in Nat
      /\ Bytes(resident \cap Experts) \in Nat /\ Size[t] \in Nat
  <2>1. resident \cap {t} \in SUBSET Tensors /\ out \in SUBSET Tensors
    BY <1>1, <1>6
  <2> QED BY <1>1, <1>6, <2>1, BytesType, Tensor
<1>9. TotalsExact'
  <2>1. bytes = Bytes(resident) /\ expertBytes = Bytes(resident \cap Experts)
    BY DEF ResidencyInv, TotalsExact
  <2>2. bytes' = Bytes(kept \ over)
    BY <1>3, <1>7, <1>8, <2>1
  <2>3. expertBytes' = Bytes((kept \cap Experts) \ over)
    BY <1>3, <1>7, <1>8, <2>1
  <2> QED BY <1>3, <1>6, <2>2, <2>3 DEF TotalsExact, Bytes
<1>10. loader' \in [Threads -> LoaderRecords] /\ current' = current /\ Storable(t, p)
  BY <1>1, DoneFacts DEF StoreTensor, ResidencyInv
<1>11. Bytes(kept \cap Experts) <= p.expertMax
  <2>1. CASE Bytes((rest \cap Experts) \ out) + Size[t] <= p.expertMax
    <3>1. /\ (rest \cap Experts) \ out \in SUBSET Tensors /\ t \notin (rest \cap Experts) \ out
          /\ kept \cap Experts = ((rest \cap Experts) \ out) \cup {t}
      BY <1>1
    <3>2. Bytes(kept \cap Experts) = Bytes((rest \cap Experts) \ out) + Size[t]
      BY <1>1, <3>1, BytesWith
    <3> QED BY <2>1, <3>2
  <2>2. CASE rest \cap Experts \subseteq out
    <3>1. kept \cap Experts = {t} /\ Size[t] <= p.expertMax
      BY <1>1, <1>10, <2>2 DEF Storable
    <3> QED BY <1>1, <3>1, BytesOfOne, Tensor DEF Bytes
  <2> QED BY <1>4, <2>1, <2>2
<1>12. Bytes(resident' \cap Experts) <= p.expertMax
  <2>1. p.expertMax \in Nat
    BY ConstantsAssumption DEF ResidencyInv, LoaderRecords
  <2>2. Bytes(resident' \cap Experts) = Bytes(kept \cap Experts) - Bytes(over)
    BY <1>6, <1>7
  <2> QED BY <1>8, <1>11, <2>1, <2>2
<1>13. InLayer(resident', Layer[t]) = InLayer(kept, Layer[t]) \ over
  BY <1>3 DEF InLayer
<1>14. \/ p.cap = 0
       \/ Cardinality(ExpertKeys(InLayer(resident', Layer[t]))) <= p.cap
  <2>1. CASE InLayer(kept, Layer[t]) \subseteq over
    <3>1. InLayer(resident', Layer[t]) = {}
      BY <1>13, <2>1
    <3>2. ExpertKeys({}) = {} /\ Cardinality({}) = 0
      BY FS_EmptySet DEF ExpertKeys
    <3>3. p.cap \in Nat
      BY ConstantsAssumption DEF ResidencyInv, LoaderRecords
    <3> QED BY <3>1, <3>2, <3>3
  <2> QED BY <1>5, <1>13, <2>1
<1>15. ASSUME NEW v \in (resident \cap Experts) \ resident', ExpertKey(v) \in current
       PROVE  /\ Idling(InLayer(resident', Layer[v])) \subseteq {t}
              /\ Layer[v] # Layer[t] => Idling(resident' \cap Experts) \subseteq {t}
  <2>1. v \in over \/ v \in out
    BY <1>1, <1>3, <1>15
  <2>2. CASE v \in out
    <3>1. Idling(rest \cap Experts) \subseteq out
      BY <1>4, <1>15, <2>2
    <3>2. Idling(resident' \cap Experts) \subseteq {t}
      BY <1>3, <3>1 DEF Idling
    <3> QED BY <3>2 DEF Idling, InLayer
  <2>3. CASE v \in over
    <3>1. Idling(InLayer(kept, Layer[t])) \subseteq over /\ Layer[v] = Layer[t]
      BY <1>5, <1>15, <2>3 DEF InLayer
    <3> QED BY <1>13, <3>1 DEF Idling
  <2> QED BY <2>1, <2>2, <2>3
<1>16. resident' \subseteq Tensors
  BY <1>3, <1>6
<1> QED BY <1>9, <1>10, <1>12, <1>14, <1>15, <1>16 DEF ResidencyInv

\* The lookups and the reads keep the types, and store nothing.
LEMMA ReadFacts ==
  ASSUME ResidencyInv, NEW th \in Threads,
         \/ \E batch \in Batches, p \in Policies, chosen \in SUBSET Experts :
              BeginLoad(th, batch, chosen, p)
         \/ \E t \in Tensors : LookUp(th, t)
         \/ ReadMissing(th)
  PROVE  /\ ResidencyInv' /\ UNCHANGED <<resident, bytes, expertBytes>>
         /\ loader[th].at # "storing"
         /\ \A k \in Threads \ {th} : loader'[k] = loader[k]
<1>1. loader \in [Threads -> LoaderRecords] /\ loader[th] \in LoaderRecords
      /\ Idle \in LoaderRecords
  BY IdleFacts DEF ResidencyInv
<1>2. /\ UNCHANGED <<resident, bytes, expertBytes>> /\ loader[th].at # "storing"
      /\ \A k \in Threads \ {th} : loader'[k] = loader[k]
  BY <1>1 DEF BeginLoad, LookUp, ReadMissing
<1>3. TotalsExact'
  BY <1>2 DEF ResidencyInv, TotalsExact, Bytes
<1>4. loader' \in [Threads -> LoaderRecords] /\ current' \subseteq ExpertKeys(Tensors)
  <2>1. ASSUME NEW batch \in Batches, NEW p \in Policies, NEW chosen \in SUBSET Experts,
               BeginLoad(th, batch, chosen, p)
        PROVE  loader' \in [Threads -> LoaderRecords] /\ current' \subseteq ExpertKeys(Tensors)
    <3>1. [Idle EXCEPT !.at = "looking", !.todo = batch, !.policy = p] \in LoaderRecords
      BY <1>1, ConstantsAssumption DEF LoaderRecords
    <3>2. loader' \in [Threads -> LoaderRecords]
      BY <1>1, <2>1, <3>1 DEF BeginLoad
    <3>3. ExpertKeys(chosen) \subseteq ExpertKeys(Tensors)
      BY Tensor DEF ExpertKeys
    <3> QED BY <2>1, <3>2, <3>3 DEF BeginLoad, ResidencyInv
  <2>2. ASSUME NEW t \in Tensors, LookUp(th, t)
        PROVE  loader' \in [Threads -> LoaderRecords] /\ current' = current
    <3> DEFINE missing == IF loader[th].policy.enabled /\ t \in resident THEN loader[th].missing
                          ELSE loader[th].missing \cup {t}
               r == [loader[th] EXCEPT !.todo = @ \ {t}, !.missing = missing]
    <3>1. missing \in SUBSET Tensors
      BY <1>1 DEF LoaderRecords
    <3> HIDE DEF missing
    <3>2. r \in LoaderRecords
      BY <1>1, <3>1 DEF LoaderRecords
    <3>3. loader' = [loader EXCEPT ![th] = r] /\ current' = current
      BY <1>1, <2>2 DEF LookUp, missing
    <3> HIDE DEF r
    <3> QED BY <1>1, <3>2, <3>3
  <2>3. ASSUME ReadMissing(th)
        PROVE  loader' \in [Threads -> LoaderRecords] /\ current' = current
    <3>1. PICK ready \in SUBSET loader[th].missing :
            loader' = [loader EXCEPT ![th] =
              IF ready = {} THEN Idle
              ELSE [Idle EXCEPT !.at = "storing", !.todo = ready, !.policy = loader[th].policy]]
      BY <2>3 DEF ReadMissing
    <3>2. [Idle EXCEPT !.at = "storing", !.todo = ready, !.policy = loader[th].policy]
            \in LoaderRecords
      BY <1>1 DEF LoaderRecords
    <3> QED BY <1>1, <2>3, <3>1, <3>2 DEF ReadMissing
  <2> QED BY <2>1, <2>2, <2>3 DEF ResidencyInv
<1> QED BY <1>2, <1>3, <1>4 DEF ResidencyInv

LEMMA SkipFacts ==
  ASSUME ResidencyInv, NEW th \in Threads, NEW t \in Tensors, SkipTensor(th, t)
  PROVE  ResidencyInv'
<1>1. loader' \in [Threads -> LoaderRecords] /\ UNCHANGED <<resident, bytes, expertBytes, current>>
  BY DoneFacts DEF SkipTensor, ResidencyInv
<1> QED BY <1>1 DEF ResidencyInv, TotalsExact, Bytes

LEMMA ClearFacts == ASSUME ResidencyInv, ClearCache PROVE ResidencyInv' /\ loader' = loader
<1>1. /\ resident' = {} /\ bytes' = 0 /\ expertBytes' = 0 /\ current' = {} /\ loader' = loader
  BY DEF ClearCache
<1>2. Bytes({}) = 0 /\ {} \cap Experts = {}
  BY TotalOfNone DEF Bytes
<1>3. Bytes({}) = 0
  BY <1>2 DEF Bytes
<1> QED BY <1>1, <1>2, <1>3 DEF ResidencyInv, TotalsExact, Bytes

LEMMA ResidencyStep == ResidencyInv /\ [Next]_vars => ResidencyInv'
<1> SUFFICES ASSUME ResidencyInv, [Next]_vars PROVE ResidencyInv'
  OBVIOUS
<1>1. CASE UNCHANGED vars
  BY <1>1 DEF vars, ResidencyInv, TotalsExact, Bytes
<1>2. CASE ClearCache
  BY <1>2, ClearFacts
<1>3. ASSUME NEW th \in Threads,
             \/ \E batch \in Batches, p \in Policies, chosen \in SUBSET Experts :
                  BeginLoad(th, batch, chosen, p)
             \/ \E t \in Tensors : LookUp(th, t)
             \/ ReadMissing(th)
      PROVE  ResidencyInv'
  BY <1>3, ReadFacts
<1>4. ASSUME NEW th \in Threads, NEW t \in Tensors, StoreTensor(th, t) PROVE ResidencyInv'
  BY <1>4, DenseStoreFacts, ExpertStoreFacts, Tensor
<1>5. ASSUME NEW th \in Threads, NEW t \in Tensors, SkipTensor(th, t) PROVE ResidencyInv'
  BY <1>5, SkipFacts
<1> QED BY <1>1, <1>2, <1>3, <1>4, <1>5 DEF Next, Begin, Proceed

\* Only the store of a tensor takes it from the ones to be stored.
LEMMA StoresStore ==
  ASSUME ResidencyInv, [Next]_vars, NEW th \in Threads, NEW t \in Tensors, Stores(th, t)
  PROVE  StoreTensor(th, t)
<1>1. loader[th].at = "storing" /\ t \in loader[th].todo /\ t \notin loader'[th].todo
      /\ Storable(t, loader[th].policy)
  BY DEF Stores
<1>2. loader \in [Threads -> LoaderRecords]
  BY DEF ResidencyInv
<1>3. ~UNCHANGED vars /\ ~ClearCache
  BY <1>1 DEF vars, ClearCache
<1>4. ASSUME NEW k \in Threads,
             \/ \E batch \in Batches, p \in Policies, chosen \in SUBSET Experts :
                  BeginLoad(k, batch, chosen, p)
             \/ \E x \in Tensors : LookUp(k, x)
             \/ ReadMissing(k)
      PROVE  FALSE
  <2>1. loader[k].at # "storing" /\ \A q \in Threads \ {k} : loader'[q] = loader[q]
    BY <1>4, ReadFacts
  <2> QED BY <1>1, <2>1
<1>5. ASSUME NEW k \in Threads, NEW x \in Tensors, StoreTensor(k, x) \/ SkipTensor(k, x)
      PROVE  k = th /\ x = t
  <2>1. Done(k, x)
    BY <1>5 DEF StoreTensor, SkipTensor
  <2>2. /\ \A q \in Threads \ {k} : loader'[q] = loader[q]
        /\ loader'[k].todo = loader[k].todo \ {x}
    BY <1>2, <2>1, DoneFacts
  <2> QED BY <1>1, <2>2
<1>6. ~SkipTensor(th, t)
  BY <1>1 DEF SkipTensor
<1> QED BY <1>3, <1>4, <1>5, <1>6 DEF Next, Begin, Proceed

-----------------------------------------------------------------------------
(* The converted tensors move by themselves or not at all                  *)

LEMMA LoadStep == [LoadNext]_loadVars => [Next]_vars
  BY DEF LoadNext, loadVars, vars

LEMMA ResidencyInvariance == LoadSpec => []ResidencyInv
<1>1. LoadInit => ResidencyInv
  BY ResidencyInit DEF LoadInit
<1> QED BY <1>1, LoadStep, ResidencyStep, PTL DEF LoadSpec

\* The cache, its counters and what each thread loads have their types: no
\* counter is ever negative, or more than all tensors together.
THEOREM TypeCorrect == LoadSpec => []TypeOK
  BY ResidencyInvariance, ResidencyTypes, PTL

\* However loads, evictions, replacements and clears fall between each other,
\* _resident_bytes and _resident_expert_bytes are the sums over what is resident.
THEOREM CountersExact == LoadSpec => []TotalsExact
<1>1. ResidencyInv => TotalsExact
  BY DEF ResidencyInv
<1> QED BY <1>1, ResidencyInvariance, PTL

\* Whatever was stored between the lookup of a load and its store, the store ends
\* within the budgets of the policy the load began with.
THEOREM StoresWithinBudget == LoadSpec => BudgetHolds
<1>1. ResidencyInv /\ [Next]_vars =>
        [\A th \in Threads, t \in Tensors : Stores(th, t) =>
           LET p == loader[th].policy IN
           IF t \in Dense
             THEN \/ Bytes(resident' \cap Dense) <= p.max
                  \/ (resident' \cap Dense) \ {t} \subseteq Pinned
             ELSE /\ Bytes(resident' \cap Experts) <= p.expertMax
                  /\ \/ p.cap = 0
                     \/ Cardinality(ExpertKeys(InLayer(resident', Layer[t]))) <= p.cap]_vars
  <2> SUFFICES ASSUME ResidencyInv, [Next]_vars,
                      NEW th \in Threads, NEW t \in Tensors, Stores(th, t)
               PROVE  LET p == loader[th].policy IN
                      IF t \in Dense
                        THEN \/ Bytes(resident' \cap Dense) <= p.max
                             \/ (resident' \cap Dense) \ {t} \subseteq Pinned
                        ELSE /\ Bytes(resident' \cap Experts) <= p.expertMax
                             /\ \/ p.cap = 0
                                \/ Cardinality(ExpertKeys(InLayer(resident', Layer[t]))) <= p.cap
    OBVIOUS
  <2>1. StoreTensor(th, t)
    BY StoresStore
  <2>2. CASE t \in Dense
    BY <2>1, <2>2, DenseStoreFacts
  <2>3. CASE t \notin Dense
    <3>1. t \in Experts
      BY <2>3, Tensor
    <3> QED BY <2>1, <2>3, <3>1, ExpertStoreFacts
  <2> QED BY <2>2, <2>3
<1> QED BY <1>1, LoadStep, ResidencyInvariance, PTL DEF LoadSpec, BudgetHolds

\* An expert of the running step makes room only when no idle expert can: the
\* idle ones of its layer, or all of them, have gone.
THEOREM StepExpertsLast == LoadSpec => StepExpertsStay
<1>1. ResidencyInv /\ [Next]_vars =>
        [\A th \in Threads, t \in Tensors : Stores(th, t) =>
           \A v \in (resident \cap Experts) \ resident' :
             /\ t \in Experts
             /\ ExpertKey(v) \in current =>
                  /\ Idling(InLayer(resident', Layer[v])) \subseteq {t}
                  /\ Layer[v] # Layer[t] => Idling(resident' \cap Experts) \subseteq {t}]_vars
  <2> SUFFICES ASSUME ResidencyInv, [Next]_vars,
                      NEW th \in Threads, NEW t \in Tensors, Stores(th, t),
                      NEW v \in (resident \cap Experts) \ resident'
               PROVE  /\ t \in Experts
                      /\ ExpertKey(v) \in current =>
                           /\ Idling(InLayer(resident', Layer[v])) \subseteq {t}
                           /\ Layer[v] # Layer[t] => Idling(resident' \cap Experts) \subseteq {t}
    OBVIOUS
  <2>1. StoreTensor(th, t)
    BY StoresStore
  <2>2. t \in Experts
    BY <2>1, DenseStoreFacts, Tensor
  <2> QED BY <2>1, <2>2, ExpertStoreFacts
<1> QED BY <1>1, LoadStep, ResidencyInvariance, PTL DEF LoadSpec, StepExpertsStay

\* Both hold of what every store evicts, however old the policy of its load.
THEOREM EvictionsByPolicy == LoadSpec => EvictionsFollowPolicy
BY StoresWithinBudget, StepExpertsLast DEF EvictionsFollowPolicy

-----------------------------------------------------------------------------
(* The files: the inductive invariant                                      *)

\* What a file, a load and the memory of the server may hold.
Contents == Revisions \cup {NoArtifact, HalfWritten}
CodeKeys == Nat \X Nat
CodeHeld == [key : CodeKeys, codes : Contents]
HandleHeld == [open : BOOLEAN, rev : Revisions]
BaseHeld == [base : Nat]
RawKeys == WeightNames \X Nat \X Nat
ByteHeld == [base : Nat, key : RawKeys]
CodeValues == [from : {"q4"}, codes : Contents, scales : Contents, doubt : BOOLEAN]
ShardValues == [from : {"shard"}, rev : Revisions, inPlace : BOOLEAN, doubt : BOOLEAN]
OtherValues == [from : {"pack"}, rev : Contents] \cup [from : {"none"}, of : {"q4", "pack", "shard"}]
PullPoints == {"idle", "choose", "read", "codes", "scales", "handle", "key", "bytes",
               "again", "done"}
Sources == {"q4", "pack", "shard"}
HeldSet == {<<>>} \cup CodeHeld \cup HandleHeld \cup BaseHeld \cup ByteHeld
GotSet == {Unknown} \cup CodeValues \cup ShardValues \cup OtherValues
PullSet ==
    [at : PullPoints, name : WeightNames \cup {Unknown}, entry : Revisions, from : Sources,
     held : HeldSet, got : GotSet, upset : BOOLEAN]
RecalledSet ==
    [q4 : {Unknown} \cup [stamp : Nat, ready : BOOLEAN], pack : {Unknown} \cup BOOLEAN,
     paths : {Unknown} \cup CodeKeys]
WriterSet == [todo : Seq(Artifacts \ {"shard"}), rev : Revisions, half : BOOLEAN]

DiskOK ==
    /\ stored \in [Artifacts -> Contents] /\ stored["shard"] \in Revisions
    /\ stamp \in [Stamped -> Nat]
    /\ writer \in WriterSet /\ (writer.half => writer.todo # <<>>)
    /\ jobs \in 0 .. MaxJobs /\ pulls \in 0 .. MaxPulls

NotAfter(key) == key[1] <= stamp["codes"] /\ key[2] <= stamp["scales"]

\* The Q4 manifest that is remembered is the one on disk unless its stamp tells.
RecalledOK ==
    /\ recalled \in RecalledSet
    /\ recalled.q4 # Unknown =>
          /\ recalled.q4.stamp <= stamp["q4"]
          /\ recalled.q4.stamp = stamp["q4"] => (recalled.q4.ready <=> Whole("q4"))
    /\ recalled.paths # Unknown => NotAfter(recalled.paths)

\* Codes that are kept under the stamps of now are those of now.
CodesOK ==
    \A e \in codeCache :
        /\ e.key \in CodeKeys /\ NotAfter(e.key) /\ e.value \in CodeValues
        /\ ~e.value.doubt =>
              /\ e.value.codes = e.value.scales
              /\ e.key = <<stamp["codes"], stamp["scales"]>> => e.value.codes = stored["codes"]

RawOK ==
    \A e \in rawCache :
        /\ e.key \in RawKeys /\ e.key[2] <= stamp["shard"] /\ e.value \in ShardValues
        /\ ~e.value.doubt /\ e.key[2] = stamp["shard"] =>
              e.value.inPlace /\ e.value.rev = stored["shard"]

\* No codes are in memory but those on disk.
AllCurrent == \A e \in codeCache : e.value.doubt \/ e.value.codes = stored["codes"]

Shaped(p) ==
    /\ p \in PullSet
    /\ p.at \notin {"idle", "done"} => p.name \in WeightNames
    /\ p.at \in {"codes", "scales"} =>
          p.from = "q4" /\ p.held \in CodeHeld /\ NotAfter(p.held.key)
    /\ p.at = "handle" => p.from = "shard" /\ p.held \in HandleHeld
    /\ p.at = "key" => p.from = "shard" /\ p.held \in BaseHeld
    /\ p.at = "bytes" => p.from = "shard" /\ p.held \in ByteHeld /\ p.held.key[2] <= stamp["shard"]
    /\ p.at = "again" => p.from = "shard"
    /\ p.at = "done" => ~p.upset

\* What a load knows of the files is so as long as none was written.
Knows(p) ==
    /\ p.name \in Quantized => (p.from = "q4" <=> Whole("q4"))
    /\ p.at \in {"codes", "scales"} => recalled.paths = p.held.key \/ AllCurrent
    /\ p.at = "scales" => p.held.codes = stored["codes"]
    /\ p.at = "handle" => p.held.rev = stored["shard"]
    /\ p.at \in {"key", "bytes"} => p.held.base = BaseOf[stored["shard"]]
    /\ p.at = "bytes" => p.held.key[2] = stamp["shard"]

Undisturbed(p) == p.at \notin {"idle", "choose", "done"} /\ ~p.upset => Knows(p)

Answered(p) == p.at = "done" => GotWhatIsThere(p.got) /\ FromTheRightPlace(p.name, p.got)

LoadOK(p) == Shaped(p) /\ Undisturbed(p) /\ Answered(p)

SourceInv ==
    /\ DiskOK /\ RecalledOK /\ CodesOK /\ RawOK
    /\ DOMAIN pull = Pulls /\ \A l \in Pulls : LoadOK(pull[l])
-----------------------------------------------------------------------------
(* A step of one load, and what it leaves to the others                    *)

LEMMA RevisionFacts ==
  /\ 0 \in Revisions /\ 1 \in Revisions /\ Revisions \subseteq Contents
  /\ NoArtifact \in Contents /\ HalfWritten \in Contents
  BY DEF Revisions, Contents

LEMMA UnloadedFacts ==
  /\ Unloaded \in PullSet /\ Unloaded.at = "idle" /\ Unloaded.upset = FALSE
  BY RevisionFacts DEF Unloaded, PullSet, PullPoints, Sources, HeldSet, GotSet

LEMMA UnloadedOK ==
  ASSUME NEW m, pull'[m] = Unloaded
  PROVE  LoadOK(pull[m])'
  BY UnloadedFacts DEF LoadOK, Shaped, Undisturbed, Answered

LEMMA PullFields ==
  ASSUME NEW p \in PullSet
  PROVE  /\ p.at \in PullPoints /\ p.name \in WeightNames \cup {Unknown}
         /\ p.entry \in Revisions /\ p.from \in Sources
         /\ p.held \in HeldSet /\ p.got \in GotSet /\ p.upset \in BOOLEAN
  BY DEF PullSet

LEMMA GetsFields ==
  ASSUME NEW p \in PullSet, NEW v \in GotSet
  PROVE  LET q == [p EXCEPT !.at = "done", !.held = <<>>, !.got = v] IN
         /\ q \in PullSet /\ q.at = "done" /\ q.got = v
         /\ q.name = p.name /\ q.upset = p.upset
  <1>1. "done" \in PullPoints /\ <<>> \in HeldSet
    BY DEF PullPoints, HeldSet
  <1> QED BY <1>1 DEF PullSet

LEMMA UpsetFields ==
  ASSUME NEW p \in PullSet
  PROVE  LET q == [p EXCEPT !.upset = TRUE] IN
         /\ q \in PullSet /\ q.at = p.at /\ q.held = p.held
         /\ q.name = p.name /\ q.from = p.from /\ q.upset = TRUE
  BY DEF PullSet

LEMMA NowFacts ==
  ASSUME NEW l \in Pulls, NEW r, Now(l, r)
  PROVE  /\ DOMAIN pull' = Pulls /\ pull'[l] = r
         /\ \A m \in Pulls \ {l} :
               pull'[m] = IF pull[m].at = "done" THEN Unloaded ELSE pull[m]
  BY DEF Now

\* What is remembered of Q4 stamps stays, or no codes are in memory that are not
\* on disk.
PathsKept ==
    \/ AllCurrent'
    \/ /\ \A k \in CodeKeys : recalled.paths = k => recalled'.paths = k
       /\ AllCurrent => AllCurrent'

LEMMA LoadKeeps ==
  ASSUME SourceInv, UNCHANGED <<stored, stamp>>, PathsKept,
         NEW m \in Pulls, pull'[m] = pull[m], pull[m].at # "done"
  PROVE  LoadOK(pull[m])'
<1>1. LoadOK(pull[m])
  BY DEF SourceInv
<1>2. Shaped(pull[m])' /\ Answered(pull[m])'
  BY <1>1 DEF LoadOK, Shaped, Answered, NotAfter
<1>3. Undisturbed(pull[m])'
  <2> SUFFICES ASSUME pull[m].at \notin {"idle", "choose", "done"}, ~pull[m].upset
               PROVE  Knows(pull[m])'
    BY DEF Undisturbed
  <2>1. Knows(pull[m])
    BY <1>1 DEF LoadOK, Undisturbed
  <2>2. pull[m].at \in {"codes", "scales"} => recalled'.paths = pull[m].held.key \/ AllCurrent'
    <3> SUFFICES ASSUME pull[m].at \in {"codes", "scales"}, ~AllCurrent'
                 PROVE  recalled'.paths = pull[m].held.key
      OBVIOUS
    <3>1. pull[m].held.key \in CodeKeys
      BY <1>1 DEF LoadOK, Shaped, CodeHeld
    <3> QED BY <2>1, <3>1 DEF Knows, PathsKept
  <2> QED BY <2>1, <2>2 DEF Knows, Whole
<1> QED BY <1>2, <1>3 DEF LoadOK

LEMMA DoneKeeps ==
  ASSUME SourceInv, UNCHANGED <<stored, stamp>>, recalled'.paths \in {recalled.paths, Unknown},
         NEW m \in Pulls, pull'[m] = pull[m], pull[m].at = "done"
  PROVE  LoadOK(pull[m])'
<1>1. LoadOK(pull[m])
  BY DEF SourceInv
<1>2. Shaped(pull[m])' /\ Undisturbed(pull[m])'
  BY <1>1 DEF LoadOK, Shaped, Undisturbed
<1>3. Answered(pull[m])'
  <2>1. GotWhatIsThere(pull[m].got) /\ FromTheRightPlace(pull[m].name, pull[m].got)
    BY <1>1 DEF LoadOK, Answered
  <2>2. <<stamp["codes"], stamp["scales"]>> # Unknown
    <3>1. stamp["codes"] \in Nat /\ stamp["scales"] \in Nat
      BY DEF SourceInv, DiskOK, Stamped
    <3> QED BY <3>1, SourceAssumption
  <2>3. GotWhatIsThere(pull[m].got)'
    BY <2>1, <2>2 DEF GotWhatIsThere
  <2>4. FromTheRightPlace(pull[m].name, pull[m].got)'
    BY <2>1 DEF FromTheRightPlace, Whole
  <2> QED BY <2>3, <2>4 DEF Answered
<1> QED BY <1>2, <1>3 DEF LoadOK

LEMMA NowKeeps ==
  ASSUME SourceInv, UNCHANGED <<stored, stamp>>, PathsKept,
         NEW l \in Pulls, NEW r, Now(l, r), LoadOK(pull[l])'
  PROVE  DOMAIN pull' = Pulls /\ \A m \in Pulls : LoadOK(pull[m])'
<1>1. ASSUME NEW m \in Pulls, m # l PROVE LoadOK(pull[m])'
  <2>1. pull'[m] = IF pull[m].at = "done" THEN Unloaded ELSE pull[m]
    BY <1>1, NowFacts
  <2> QED BY <2>1, UnloadedOK, LoadKeeps
<1> QED BY <1>1, NowFacts

\* A load that goes on.
LEMMA GoesKeeps ==
  ASSUME SourceInv, UNCHANGED <<stored, stamp>>, PathsKept,
         NEW l \in Pulls, NEW a \in PullPoints \ {"idle", "done"}, NEW h \in HeldSet,
         pull'[l] = [pull[l] EXCEPT !.at = a, !.held = h],
         pull[l].at \notin {"idle", "choose", "done"},
         a \in {"codes", "scales"} => h \in CodeHeld /\ NotAfter(h.key)' /\ pull[l].from = "q4",
         a \in {"handle", "key", "bytes", "again"} => pull[l].from = "shard",
         a = "handle" => h \in HandleHeld,
         a = "key" => h \in BaseHeld,
         a = "bytes" => h \in ByteHeld /\ h.key[2] <= stamp["shard"],
         ~pull[l].upset =>
            /\ a \in {"codes", "scales"} => recalled'.paths = h.key \/ AllCurrent'
            /\ a = "scales" => h.codes = stored["codes"]
            /\ a = "handle" => h.rev = stored["shard"]
            /\ a \in {"key", "bytes"} => h.base = BaseOf[stored["shard"]]
            /\ a = "bytes" => h.key[2] = stamp["shard"]
  PROVE  LoadOK(pull[l])'
<1>1. LoadOK(pull[l]) /\ pull[l] \in PullSet
  BY DEF SourceInv, LoadOK, Shaped
<1>2. /\ pull'[l] \in PullSet /\ pull'[l].at = a /\ pull'[l].held = h
      /\ pull'[l].name = pull[l].name /\ pull'[l].from = pull[l].from
      /\ pull'[l].upset = pull[l].upset
  BY <1>1 DEF PullSet
<1>3. Shaped(pull[l])'
  BY <1>1, <1>2 DEF LoadOK, Shaped
<1>4. Undisturbed(pull[l])'
  <2>1. ~pull[l].upset /\ pull[l].name \in Quantized => (pull[l].from = "q4" <=> Whole("q4"))
    BY <1>1 DEF LoadOK, Undisturbed, Knows
  <2> QED BY <1>2, <2>1 DEF Undisturbed, Knows, Whole
<1>5. Answered(pull[l])'
  BY <1>2 DEF Answered
<1> QED BY <1>3, <1>4, <1>5 DEF LoadOK

\* A load that comes to its end.
LEMMA GetsKeeps ==
  ASSUME SourceInv, UNCHANGED <<stored, stamp>>, PathsKept,
         NEW l \in Pulls, NEW v \in GotSet, Gets(l, v),
         ~pull[l].upset => GotWhatIsThere(v)' /\ FromTheRightPlace(pull[l].name, v)
  PROVE  DOMAIN pull' = Pulls /\ \A m \in Pulls : LoadOK(pull[m])'
<1>1. CASE pull[l].upset
  <2>1. Now(l, Unloaded)
    BY <1>1 DEF Gets
  <2>2. LoadOK(pull[l])'
    BY <2>1, NowFacts, UnloadedOK
  <2> QED BY <2>1, <2>2, NowKeeps
<1>2. CASE ~pull[l].upset
  <2> DEFINE q == [pull[l] EXCEPT !.at = "done", !.held = <<>>, !.got = v]
  <2>1. Now(l, q)
    BY <1>2 DEF Gets
  <2>2. pull[l] \in PullSet
    BY DEF SourceInv, LoadOK, Shaped
  <2>3. /\ q \in PullSet /\ q.at = "done" /\ q.got = v
        /\ q.name = pull[l].name /\ q.upset = pull[l].upset
    BY <2>2, GetsFields
  <2>4. pull'[l] = q
    BY <2>1, NowFacts
  <2> HIDE DEF q
  <2>5. Shaped(pull[l])' /\ Undisturbed(pull[l])'
    BY <1>2, <2>3, <2>4 DEF Shaped, Undisturbed
  <2>6. FromTheRightPlace(pull[l].name, v)'
    BY <1>2, <2>3, <2>4 DEF FromTheRightPlace, Whole
  <2>7. Answered(pull[l])'
    BY <1>2, <2>3, <2>4, <2>6 DEF Answered
  <2>8. LoadOK(pull[l])'
    BY <2>5, <2>7 DEF LoadOK
  <2> QED BY <2>1, <2>8, NowKeeps
<1> QED BY <1>1, <1>2

-----------------------------------------------------------------------------
(* What is remembered                                                      *)

LEMMA MemoKeeps ==
  ASSUME SourceInv, UNCHANGED <<stored, stamp>>
  PROVE  /\ UNCHANGED recalled => RecalledOK'
         /\ codeCache' \subseteq codeCache => CodesOK' /\ (AllCurrent => AllCurrent')
         /\ rawCache' \subseteq rawCache => RawOK'
<1>1. UNCHANGED recalled => RecalledOK'
  BY DEF SourceInv, RecalledOK, NotAfter, Whole
<1>2. codeCache' \subseteq codeCache => CodesOK' /\ (AllCurrent => AllCurrent')
  BY DEF SourceInv, CodesOK, NotAfter, AllCurrent
<1>3. rawCache' \subseteq rawCache => RawOK'
  BY DEF SourceInv, RawOK
<1> QED BY <1>1, <1>2, <1>3

LEMMA DiskKeeps ==
  ASSUME SourceInv, UNCHANGED diskVars
  PROVE  pulls' \in 0 .. MaxPulls => DiskOK'
  BY DEF SourceInv, DiskOK, diskVars

\* Loads leave the files alone, and most of them what is remembered as well.
LEMMA QuietKeeps ==
  ASSUME SourceInv, UNCHANGED diskVars, UNCHANGED memoVars, pulls' \in 0 .. MaxPulls,
         DOMAIN pull' = Pulls, \A m \in Pulls : LoadOK(pull[m])'
  PROVE  SourceInv'
<1>1. UNCHANGED <<stored, stamp, recalled, codeCache, rawCache>>
  BY DEF diskVars, memoVars
<1>2. RecalledOK' /\ CodesOK' /\ RawOK'
  BY <1>1, MemoKeeps
<1> QED BY <1>2, DiskKeeps DEF SourceInv

LEMMA SamePaths ==
  ASSUME SourceInv, UNCHANGED <<stored, stamp>>, UNCHANGED recalled, UNCHANGED codeCache
  PROVE  PathsKept
  BY DEF PathsKept, AllCurrent

LEMMA PullsCounted == SourceInv => pulls \in 0 .. MaxPulls
  BY DEF SourceInv, DiskOK

-----------------------------------------------------------------------------
(* What changes a file                                                     *)

LEMMA StampGrows ==
  ASSUME SourceInv, NEW f \in Artifacts, NEW c \in Contents, Rewrite(f, c)
  PROVE  /\ stamp' \in [Stamped -> Nat]
         /\ \A g \in Stamped : /\ stamp'[g] = IF g = f THEN stamp[g] + 1 ELSE stamp[g]
                               /\ stamp[g] \in Nat
         /\ stored' \in [Artifacts -> Contents]
         /\ \A g \in Artifacts : stored'[g] = IF g = f THEN c ELSE stored[g]
<1>1. stamp \in [Stamped -> Nat] /\ stored \in [Artifacts -> Contents]
  BY DEF SourceInv, DiskOK
<1>2. \A g \in Stamped : stamp[g] \in Nat /\ stamp[g] + 1 \in Nat
  BY <1>1
<1>3. stamp' = [g \in Stamped |-> IF g = f THEN stamp[g] + 1 ELSE stamp[g]]
  BY DEF Rewrite
<1>4. stored' = [stored EXCEPT ![f] = c]
  BY DEF Rewrite
<1> QED BY <1>1, <1>2, <1>3, <1>4

LEMMA RewriteKeeps ==
  ASSUME SourceInv, NEW f \in Artifacts, NEW c \in Contents, Rewrite(f, c)
  PROVE  /\ RecalledOK' /\ CodesOK' /\ RawOK'
         /\ DOMAIN pull' = Pulls /\ \A l \in Pulls : LoadOK(pull[l])'
<1> DEFINE grown(g) == \/ stamp'[g] = stamp[g] + 1
                       \/ stamp'[g] = stamp[g] /\ stored'[g] = stored[g]
<1>1. /\ UNCHANGED <<recalled, codeCache, rawCache>>
      /\ pull' = [l \in Pulls |-> IF pull[l].at \in {"idle", "done"} THEN Unloaded
                                  ELSE [pull[l] EXCEPT !.upset = TRUE]]
  BY DEF Rewrite, memoVars
<1>2. \A g \in {"shard", "codes", "scales", "q4"} : grown(g) /\ stamp[g] \in Nat
  <2>1. ASSUME NEW g \in {"shard", "codes", "scales", "q4"}
        PROVE  grown(g) /\ stamp[g] \in Nat
    <3>1. g \in Stamped /\ g \in Artifacts
      BY DEF Stamped, Artifacts
    <3>2. stamp'[g] = (IF g = f THEN stamp[g] + 1 ELSE stamp[g]) /\ stamp[g] \in Nat
      BY <3>1, StampGrows
    <3>3. stored'[g] = IF g = f THEN c ELSE stored[g]
      BY <3>1, StampGrows
    <3> QED BY <3>2, <3>3
  <2> QED BY <2>1
<1> HIDE DEF grown
<1>3. \A key \in CodeKeys : NotAfter(key) =>
         /\ NotAfter(key)'
         /\ key = <<stamp'["codes"], stamp'["scales"]>> =>
               key = <<stamp["codes"], stamp["scales"]>> /\ stored'["codes"] = stored["codes"]
  <2> SUFFICES ASSUME NEW key \in CodeKeys, NotAfter(key)
               PROVE  /\ NotAfter(key)'
                      /\ key = <<stamp'["codes"], stamp'["scales"]>> =>
                           /\ key = <<stamp["codes"], stamp["scales"]>>
                           /\ stored'["codes"] = stored["codes"]
    OBVIOUS
  <2>1. key[1] \in Nat /\ key[2] \in Nat /\ key = <<key[1], key[2]>>
    BY DEF CodeKeys
  <2>2. grown("codes") /\ grown("scales") /\ stamp["codes"] \in Nat /\ stamp["scales"] \in Nat
    BY <1>2
  <2>3. key[1] <= stamp["codes"] /\ key[2] <= stamp["scales"]
    BY DEF NotAfter
  <2>4. key[1] <= stamp'["codes"] /\ key[2] <= stamp'["scales"]
    BY <2>1, <2>2, <2>3 DEF grown
  <2>5. ASSUME key = <<stamp'["codes"], stamp'["scales"]>>
        PROVE  /\ key = <<stamp["codes"], stamp["scales"]>>
               /\ stored'["codes"] = stored["codes"]
    <3>1. key[1] = stamp'["codes"] /\ key[2] = stamp'["scales"]
      BY <2>5
    <3>2. key[1] = stamp["codes"] /\ key[2] = stamp["scales"] /\ stored'["codes"] = stored["codes"]
      BY <3>1, <2>1, <2>2, <2>3 DEF grown
    <3> QED BY <3>2, <2>1
  <2> QED BY <2>4, <2>5 DEF NotAfter
<1>4. \A n \in Nat : n <= stamp["shard"] =>
         /\ n <= stamp'["shard"]
         /\ n = stamp'["shard"] => n = stamp["shard"] /\ stored'["shard"] = stored["shard"]
  BY <1>2 DEF grown
<1>5. RecalledOK'
  <2>1. RecalledOK
    BY DEF SourceInv
  <2>2. recalled.paths # Unknown => NotAfter(recalled.paths)'
    <3> SUFFICES ASSUME recalled.paths # Unknown PROVE NotAfter(recalled.paths)'
      OBVIOUS
    <3>1. recalled.paths \in CodeKeys /\ NotAfter(recalled.paths)
      BY <2>1 DEF RecalledOK, RecalledSet
    <3>2. PICK k \in CodeKeys : k = recalled.paths
      BY <3>1
    <3>3. NotAfter(k)'
      BY <3>1, <3>2, <1>3
    <3> QED BY <1>1, <3>2, <3>3 DEF NotAfter
  <2>3. recalled.q4 # Unknown =>
          /\ recalled.q4.stamp <= stamp'["q4"]
          /\ recalled.q4.stamp = stamp'["q4"] => (recalled.q4.ready <=> stored'["q4"] \in Revisions)
    <3> SUFFICES ASSUME recalled.q4 # Unknown
                 PROVE  /\ recalled.q4.stamp <= stamp'["q4"]
                        /\ recalled.q4.stamp = stamp'["q4"] =>
                              (recalled.q4.ready <=> stored'["q4"] \in Revisions)
      OBVIOUS
    <3>1. recalled.q4.stamp \in Nat /\ recalled.q4.stamp <= stamp["q4"]
          /\ (recalled.q4.stamp = stamp["q4"] => (recalled.q4.ready <=> stored["q4"] \in Revisions))
      BY <2>1 DEF RecalledOK, RecalledSet, Whole
    <3>2. grown("q4") /\ stamp["q4"] \in Nat
      BY <1>2
    <3> QED BY <3>1, <3>2 DEF grown
  <2> QED BY <1>1, <2>1, <2>2, <2>3 DEF RecalledOK, NotAfter, Whole
<1>6. CodesOK'
  <2> SUFFICES ASSUME NEW e \in codeCache
               PROVE  /\ e.key \in CodeKeys /\ NotAfter(e.key)' /\ e.value \in CodeValues
                      /\ ~e.value.doubt =>
                           /\ e.value.codes = e.value.scales
                           /\ e.key = <<stamp'["codes"], stamp'["scales"]>> =>
                                 e.value.codes = stored'["codes"]
    BY <1>1 DEF CodesOK, NotAfter
  <2> QED BY <1>3 DEF SourceInv, CodesOK
<1>7. RawOK'
  <2>1. \A e \in rawCache : e.key[2] \in Nat
    BY DEF SourceInv, RawOK, RawKeys
  <2> QED BY <1>1, <1>4, <2>1 DEF SourceInv, RawOK
<1>8. ASSUME NEW l \in Pulls PROVE LoadOK(pull[l])'
  <2>1. CASE pull[l].at \in {"idle", "done"}
    BY <1>1, <2>1, UnloadedOK
  <2>2. CASE pull[l].at \notin {"idle", "done"}
    <3>1. LoadOK(pull[l]) /\ pull[l] \in PullSet
      BY DEF SourceInv, LoadOK, Shaped
    <3>2. /\ pull'[l] \in PullSet /\ pull'[l].at = pull[l].at /\ pull'[l].held = pull[l].held
          /\ pull'[l].name = pull[l].name /\ pull'[l].from = pull[l].from
          /\ pull'[l].upset = TRUE
      <4> DEFINE q == [pull[l] EXCEPT !.upset = TRUE]
      <4>1. /\ q \in PullSet /\ q.at = pull[l].at /\ q.held = pull[l].held
            /\ q.name = pull[l].name /\ q.from = pull[l].from /\ q.upset = TRUE
        BY <3>1, UpsetFields
      <4>2. pull'[l] = q
        BY <1>1, <2>2
      <4> HIDE DEF q
      <4> QED BY <4>1, <4>2
    <3>3. pull[l].at \in {"codes", "scales"} => NotAfter(pull[l].held.key)'
      <4> SUFFICES ASSUME pull[l].at \in {"codes", "scales"} PROVE NotAfter(pull[l].held.key)'
        OBVIOUS
      <4>1. pull[l].held.key \in CodeKeys /\ NotAfter(pull[l].held.key)
        BY <3>1 DEF LoadOK, Shaped, CodeHeld
      <4>2. NotAfter(pull[l].held.key)' <=>
              pull'[l].held.key[1] <= stamp'["codes"] /\ pull'[l].held.key[2] <= stamp'["scales"]
        BY DEF NotAfter
      <4>3. PICK k \in CodeKeys : k = pull[l].held.key
        BY <4>1
      <4>4. NotAfter(k)'
        BY <4>1, <4>3, <1>3
      <4> QED BY <3>2, <4>3, <4>4 DEF NotAfter
    <3>4. pull[l].at = "bytes" => pull[l].held.key[2] <= stamp'["shard"]
      <4> SUFFICES ASSUME pull[l].at = "bytes" PROVE pull[l].held.key[2] <= stamp'["shard"]
        OBVIOUS
      <4>1. pull[l].held.key[2] \in Nat /\ pull[l].held.key[2] <= stamp["shard"]
        BY <3>1 DEF LoadOK, Shaped, ByteHeld, RawKeys
      <4> QED BY <4>1, <1>4
    <3>5. Shaped(pull[l])'
      BY <2>2, <3>1, <3>2, <3>3, <3>4 DEF LoadOK, Shaped, NotAfter
    <3>6. Undisturbed(pull[l])' /\ Answered(pull[l])'
      BY <2>2, <3>2 DEF Undisturbed, Answered
    <3> QED BY <3>5, <3>6 DEF LoadOK
  <2> QED BY <2>1, <2>2
<1> QED BY <1>1, <1>5, <1>6, <1>7, <1>8

-----------------------------------------------------------------------------
(* The jobs that write files, and clears                                   *)

\* Who leaves the loads and the files alone.
LEMMA IdleKeeps ==
  ASSUME SourceInv, UNCHANGED <<stored, stamp>>, UNCHANGED pull, PathsKept,
         recalled'.paths \in {recalled.paths, Unknown}
  PROVE  DOMAIN pull' = Pulls /\ \A l \in Pulls : LoadOK(pull[l])'
<1>1. DOMAIN pull' = Pulls
  BY DEF SourceInv
<1> QED BY <1>1, LoadKeeps, DoneKeeps

LEMMA JobStarts ==
  ASSUME SourceInv, NEW todo \in Seq(Artifacts \ {"shard"}), StartJobOf(todo)
  PROVE  SourceInv'
<1>1. UNCHANGED <<stored, stamp, recalled, codeCache, rawCache, pull, pulls>>
  BY DEF StartJobOf, memoVars
<1>2. PathsKept
  BY <1>1, SamePaths
<1>3. DOMAIN pull' = Pulls /\ \A l \in Pulls : LoadOK(pull[l])'
  BY <1>1, <1>2, IdleKeeps
<1>4. RecalledOK' /\ CodesOK' /\ RawOK'
  BY <1>1, MemoKeeps
<1>5. DiskOK'
  <2>1. writer' \in WriterSet /\ writer'.half = FALSE
    BY DEF StartJobOf, WriterSet, SourceInv, DiskOK
  <2>2. jobs' \in 0 .. MaxJobs
    BY SourceAssumption DEF StartJobOf, NewJob, SourceInv, DiskOK
  <2> QED BY <1>1, <2>1, <2>2 DEF SourceInv, DiskOK
<1> QED BY <1>3, <1>4, <1>5 DEF SourceInv

LEMMA JobsKeep ==
  ASSUME SourceInv, BuildCatalog \/ ConvertAnew \/ BuildPack
  PROVE  SourceInv'
<1>1. {"catalog", "codes", "scales", "q4", "packed", "pack"} \subseteq Artifacts \ {"shard"}
  BY DEF Artifacts
<1>2. /\ <<"catalog">> \in Seq(Artifacts \ {"shard"})
      /\ <<"codes", "scales", "q4">> \in Seq(Artifacts \ {"shard"})
      /\ <<"packed", "pack">> \in Seq(Artifacts \ {"shard"})
  BY <1>1
<1> QED BY <1>2, JobStarts DEF BuildCatalog, ConvertAnew, BuildPack

LEMMA ReplaceKeeps ==
  ASSUME SourceInv, ReplaceShard
  PROVE  SourceInv'
<1>1. "shard" \in Artifacts /\ 1 \in Contents /\ 1 \in Revisions
  BY RevisionFacts DEF Artifacts
<1>2. Rewrite("shard", 1) /\ UNCHANGED <<writer, pulls>>
  BY DEF ReplaceShard, Rewrite
<1>3. jobs' \in 0 .. MaxJobs
  BY SourceAssumption DEF ReplaceShard, NewJob, SourceInv, DiskOK
<1>4. /\ stamp' \in [Stamped -> Nat] /\ stored' \in [Artifacts -> Contents]
      /\ stored'["shard"] = 1
  BY <1>1, <1>2, StampGrows
<1>5. DiskOK'
  BY <1>1, <1>2, <1>3, <1>4 DEF SourceInv, DiskOK
<1> QED BY <1>1, <1>2, <1>5, RewriteKeeps DEF SourceInv

\* The file a job is at is not the shard.
LEMMA FileWritten ==
  ASSUME SourceInv, NEW c \in Contents, writer.todo # <<>>, Rewrite(Head(writer.todo), c),
         writer' \in WriterSet, writer'.half => writer'.todo # <<>>, UNCHANGED jobs
  PROVE  SourceInv'
<1>1. Head(writer.todo) \in Artifacts \ {"shard"}
  BY DEF SourceInv, DiskOK, WriterSet
<1>2. PICK f \in Artifacts \ {"shard"} : f = Head(writer.todo)
  BY <1>1
<1>3. Rewrite(f, c) /\ UNCHANGED pulls /\ "shard" \in Artifacts
  BY <1>2 DEF Rewrite, Artifacts
<1>4. /\ stamp' \in [Stamped -> Nat] /\ stored' \in [Artifacts -> Contents]
      /\ stored'["shard"] = stored["shard"]
  BY <1>2, <1>3, StampGrows
<1>5. DiskOK'
  BY <1>3, <1>4 DEF SourceInv, DiskOK
<1> QED BY <1>3, <1>5, RewriteKeeps DEF SourceInv

LEMMA WritesKeep ==
  ASSUME SourceInv, OpenFile \/ FillFile
  PROVE  SourceInv'
<1>1. writer \in WriterSet /\ (writer.half => writer.todo # <<>>)
  BY DEF SourceInv, DiskOK
<1>2. CASE OpenFile
  <2>1. writer' \in WriterSet /\ writer'.todo = writer.todo
    BY <1>1, <1>2 DEF OpenFile, WriterSet
  <2> QED BY <1>2, <2>1, RevisionFacts, FileWritten DEF OpenFile
<1>3. CASE FillFile
  <2>1. NoWriter \in WriterSet /\ NoWriter.half = FALSE
    <3>1. <<>> \in Seq(Artifacts \ {"shard"})
      OBVIOUS
    <3> QED BY <3>1, RevisionFacts DEF NoWriter, WriterSet
  <2>2. writer.todo # <<>> /\ writer.rev \in Contents
    BY <1>1, <1>3, RevisionFacts DEF FillFile, WriterSet
  <2>3. writer' \in WriterSet /\ writer'.half = FALSE
    <3>1. CASE Len(writer.todo) = 1
      BY <1>3, <2>1, <3>1 DEF FillFile
    <3>2. CASE Len(writer.todo) # 1
      <4>1. writer' = [writer EXCEPT !.half = FALSE, !.todo = Tail(writer.todo)]
        BY <1>3, <3>2 DEF FillFile
      <4>2. Tail(writer.todo) \in Seq(Artifacts \ {"shard"})
        BY <1>1, <2>2 DEF WriterSet
      <4> QED BY <1>1, <4>1, <4>2 DEF WriterSet
    <3> QED BY <3>1, <3>2
  <2> QED BY <1>3, <2>2, <2>3, FileWritten DEF FillFile
<1> QED BY <1>2, <1>3

LEMMA DyingKeeps ==
  ASSUME SourceInv, JobDies
  PROVE  SourceInv'
<1>1. /\ UNCHANGED <<stored, stamp, recalled, codeCache, rawCache, jobs, pull, pulls>>
      /\ writer' = NoWriter
  BY DEF JobDies, memoVars
<1>2. DOMAIN pull' = Pulls /\ \A l \in Pulls : LoadOK(pull[l])'
  BY <1>1, SamePaths, IdleKeeps
<1>3. RecalledOK' /\ CodesOK' /\ RawOK'
  BY <1>1, MemoKeeps
<1>4. NoWriter \in WriterSet /\ NoWriter.half = FALSE
  <2>1. <<>> \in Seq(Artifacts \ {"shard"})
    OBVIOUS
  <2> QED BY <2>1, RevisionFacts DEF NoWriter, WriterSet
<1> QED BY <1>1, <1>2, <1>3, <1>4 DEF SourceInv, DiskOK

LEMMA ClearsKeep ==
  ASSUME SourceInv, ClearWeightsInMemory
  PROVE  SourceInv'
<1>1. /\ UNCHANGED <<stored, stamp, writer, pull, pulls>> /\ codeCache' = {} /\ rawCache' = {}
      /\ recalled' = [recalled EXCEPT !.paths = Unknown]
  BY DEF ClearWeightsInMemory
<1>2. recalled' \in RecalledSet /\ recalled'.q4 = recalled.q4 /\ recalled'.paths = Unknown
  BY <1>1 DEF SourceInv, RecalledOK, RecalledSet
<1>3. PathsKept
  BY <1>1 DEF PathsKept, AllCurrent
<1>4. DOMAIN pull' = Pulls /\ \A l \in Pulls : LoadOK(pull[l])'
  BY <1>1, <1>2, <1>3, IdleKeeps
<1>5. RecalledOK'
  BY <1>1, <1>2 DEF SourceInv, RecalledOK, Whole
<1>6. CodesOK' /\ RawOK'
  BY <1>1, MemoKeeps
<1>7. jobs' \in 0 .. MaxJobs
  BY SourceAssumption DEF ClearWeightsInMemory, SourceInv, DiskOK
<1> QED BY <1>1, <1>4, <1>5, <1>6, <1>7 DEF SourceInv, DiskOK

LEMMA HandlesKeep ==
  ASSUME SourceInv, ClearHandles
  PROVE  SourceInv'
<1>1. /\ UNCHANGED <<stored, stamp, writer, jobs, codeCache, rawCache, pulls>>
      /\ recalled' = [recalled EXCEPT !.pack = Unknown]
      /\ pull' = [l \in Pulls |-> IF pull[l].at = "handle"
                                    THEN [pull[l] EXCEPT !.held.open = FALSE] ELSE pull[l]]
  BY DEF ClearHandles, diskVars
<1>2. recalled' \in RecalledSet /\ recalled'.q4 = recalled.q4 /\ recalled'.paths = recalled.paths
  BY <1>1 DEF SourceInv, RecalledOK, RecalledSet
<1>3. PathsKept
  BY <1>1, <1>2 DEF PathsKept, AllCurrent
<1>4. ASSUME NEW l \in Pulls PROVE LoadOK(pull[l])'
  <2>1. CASE pull[l].at # "handle"
    BY <1>1, <1>2, <1>3, <2>1, LoadKeeps, DoneKeeps
  <2>2. CASE pull[l].at = "handle"
    <3>1. LoadOK(pull[l]) /\ pull[l] \in PullSet /\ pull[l].held \in HandleHeld
      BY <2>2 DEF SourceInv, LoadOK, Shaped
    <3>2. PICK h : h = [pull[l].held EXCEPT !.open = FALSE]
      OBVIOUS
    <3>3. h \in HandleHeld /\ h.rev = pull[l].held.rev
      BY <3>1, <3>2 DEF HandleHeld
    <3>4. pull'[l] = [pull[l] EXCEPT !.at = "handle", !.held = h]
      BY <1>1, <2>2, <3>1, <3>2 DEF PullSet
    <3>5. "handle" \in PullPoints \ {"idle", "done"} /\ h \in HeldSet
      BY <3>3 DEF PullPoints, HeldSet
    <3>6. pull[l].from = "shard" /\ (~pull[l].upset => h.rev = stored["shard"])
      BY <2>2, <3>1, <3>3 DEF LoadOK, Shaped, Undisturbed, Knows
    <3> QED BY <1>1, <1>3, <2>2, <3>3, <3>4, <3>5, <3>6, GoesKeeps
  <2> QED BY <2>1, <2>2
<1>5. RecalledOK'
  BY <1>1, <1>2 DEF SourceInv, RecalledOK, Whole, NotAfter
<1>6. CodesOK' /\ RawOK'
  BY <1>1, MemoKeeps
<1> QED BY <1>1, <1>4, <1>5, <1>6 DEF SourceInv, DiskOK

-----------------------------------------------------------------------------
(* The loads                                                               *)

\* A load that leaves files and memory alone and goes on, or ends.
LEMMA QuietGoes ==
  ASSUME SourceInv, UNCHANGED <<diskVars, memoVars, pulls>>,
         NEW l \in Pulls, NEW r, Now(l, r), LoadOK(pull[l])'
  PROVE  SourceInv'
<1>1. UNCHANGED <<stored, stamp, recalled, codeCache>> /\ UNCHANGED diskVars /\ UNCHANGED memoVars
      /\ pulls' \in 0 .. MaxPulls
  BY DEF diskVars, memoVars, SourceInv, DiskOK
<1>2. PathsKept
  BY <1>1, SamePaths
<1> QED BY <1>1, <1>2, NowKeeps, QuietKeeps

LEMMA QuietGets ==
  ASSUME SourceInv, UNCHANGED <<diskVars, memoVars, pulls>>,
         NEW l \in Pulls, NEW v \in GotSet, Gets(l, v),
         ~pull[l].upset => GotWhatIsThere(v) /\ FromTheRightPlace(pull[l].name, v)
  PROVE  SourceInv'
<1>1. UNCHANGED <<stored, stamp, recalled, codeCache>> /\ UNCHANGED diskVars /\ UNCHANGED memoVars
      /\ pulls' \in 0 .. MaxPulls
  BY DEF diskVars, memoVars, SourceInv, DiskOK
<1>2. PathsKept
  BY <1>1, SamePaths
<1>3. GotWhatIsThere(v) => GotWhatIsThere(v)'
  BY <1>1 DEF GotWhatIsThere
<1>4. DOMAIN pull' = Pulls /\ \A m \in Pulls : LoadOK(pull[m])'
  BY <1>1, <1>2, <1>3, GetsKeeps
<1> QED BY <1>1, <1>4, QuietKeeps

\* Where a load reads from is where the weight belongs, while nothing is written.
LEMMA AtWork ==
  ASSUME SourceInv, NEW l \in Pulls, pull[l].at \notin {"idle", "choose", "done"}
  PROVE  /\ LoadOK(pull[l]) /\ pull[l] \in PullSet /\ pull[l].name \in WeightNames
         /\ pull[l].from \in Sources /\ pull[l].entry \in Revisions
         /\ ~pull[l].upset => Knows(pull[l])
  BY PullFields DEF SourceInv, LoadOK, Shaped, Undisturbed

LEMMA FailureIsRight ==
  ASSUME SourceInv, NEW l \in Pulls, pull[l].at \notin {"idle", "choose", "done"},
         NEW v, v = [from |-> "none", of |-> pull[l].from],
         ~pull[l].upset =>
            \/ pull[l].from = "q4" /\ ~(Whole("codes") /\ Whole("scales"))
            \/ pull[l].from = "pack" /\ ~Whole("packed")
            \/ pull[l].from = "shard"
  PROVE  /\ v \in GotSet
         /\ ~pull[l].upset => GotWhatIsThere(v) /\ FromTheRightPlace(pull[l].name, v)
<1>1. v \in GotSet /\ v.from = "none" /\ v.of = pull[l].from
  <2>1. pull[l].from \in {"q4", "pack", "shard"}
    BY AtWork DEF Sources
  <2>2. v \in [from : {"none"}, of : {"q4", "pack", "shard"}]
    BY <2>1
  <2> QED BY <2>2 DEF GotSet, OtherValues
<1> QED BY <1>1, AtWork DEF Knows, GotWhatIsThere, FromTheRightPlace

LEMMA BeginKeeps ==
  ASSUME SourceInv, NEW l \in Pulls, NEW n \in WeightNames, BeginPull(l, n)
  PROVE  SourceInv'
<1>1. /\ UNCHANGED <<stored, stamp, recalled, codeCache>> /\ UNCHANGED diskVars
      /\ UNCHANGED memoVars
      /\ pulls' \in 0 .. MaxPulls
  BY SourceAssumption DEF BeginPull, diskVars, memoVars, SourceInv, DiskOK, Pulls
<1>2. PathsKept
  BY <1>1, SamePaths
<1>3. PICK r : /\ Now(l, r)
               /\ \/ r = Unloaded
                  \/ /\ Whole("catalog")
                     /\ r = [Unloaded EXCEPT !.at = "choose", !.name = n, !.entry = stored["catalog"]]
  BY DEF BeginPull
<1>4. pull'[l] = r
  BY <1>3, NowFacts
<1>5. LoadOK(pull[l])'
  <2>1. CASE r = Unloaded
    BY <1>4, <2>1, UnloadedOK
  <2>2. CASE Whole("catalog")
             /\ r = [Unloaded EXCEPT !.at = "choose", !.name = n, !.entry = stored["catalog"]]
    <3>1. r \in PullSet /\ r.at = "choose" /\ r.name = n /\ r.upset = FALSE
      <4>1. stored["catalog"] \in Revisions /\ "choose" \in PullPoints
        BY <2>2 DEF Whole, PullPoints
      <4> QED BY <2>2, <4>1, UnloadedFacts DEF PullSet
    <3> QED BY <1>4, <3>1 DEF LoadOK, Shaped, Undisturbed, Answered
  <2> QED BY <1>3, <2>1, <2>2
<1>6. DOMAIN pull' = Pulls /\ \A m \in Pulls : LoadOK(pull[m])'
  BY <1>1, <1>2, <1>3, <1>5, NowKeeps
<1> QED BY <1>1, <1>6, QuietKeeps

LEMMA RecallFacts ==
  ASSUME SourceInv
  PROVE  /\ RecallQ4 \in [stamp : Nat, ready : BOOLEAN]
         /\ RecallQ4.stamp = stamp["q4"] /\ (RecallQ4.ready <=> Whole("q4"))
         /\ RecallPack \in BOOLEAN
<1>1. recalled \in RecalledSet /\ stamp["q4"] \in Nat
  BY DEF SourceInv, RecalledOK, DiskOK, Stamped
<1>0. RecallPack \in BOOLEAN
  BY <1>1 DEF RecallPack, RecalledSet, Whole
<1>2. CASE recalled.q4 # Unknown /\ recalled.q4.stamp = stamp["q4"]
  <2>1. RecallQ4 = recalled.q4 /\ recalled.q4 \in [stamp : Nat, ready : BOOLEAN]
    BY <1>1, <1>2 DEF RecallQ4, RecalledSet
  <2>2. recalled.q4.ready <=> Whole("q4")
    BY <1>2 DEF SourceInv, RecalledOK
  <2> QED BY <1>0, <1>1, <1>2, <2>1, <2>2
<1>3. CASE ~(recalled.q4 # Unknown /\ recalled.q4.stamp = stamp["q4"])
  <2>1. RecallQ4 = [stamp |-> stamp["q4"], ready |-> Whole("q4")]
    BY <1>3 DEF RecallQ4
  <2>2. Whole("q4") \in BOOLEAN
    BY DEF Whole
  <2>3. PICK w \in BOOLEAN : w = Whole("q4")
    BY <2>2
  <2>4. RecallQ4 = [stamp |-> stamp["q4"], ready |-> w]
    BY <2>1, <2>3
  <2> QED BY <1>0, <1>1, <2>3, <2>4
<1> QED BY <1>2, <1>3

LEMMA ChooseKeeps ==
  ASSUME SourceInv, NEW l \in Pulls, ChooseSource(l)
  PROVE  SourceInv'
<1> DEFINE fromQ4 == RecallQ4.ready /\ pull[l].name \in Quantized
<1>1. PICK src : /\ src = IF fromQ4 THEN "q4"
                          ELSE IF pull[l].name \in Packable /\ RecallPack THEN "pack" ELSE "shard"
                 /\ Now(l, [pull[l] EXCEPT !.at = "read", !.from = src])
  BY DEF ChooseSource
<1>2. PICK pk : /\ pk \in {recalled.pack, RecallPack}
                /\ recalled' = [recalled EXCEPT !.q4 = RecallQ4, !.pack = pk]
  BY DEF ChooseSource
<1>3. /\ UNCHANGED <<stored, stamp, writer, jobs, codeCache, rawCache, pulls>>
      /\ pull[l].at = "choose"
  BY DEF ChooseSource, diskVars
<1>4. /\ recalled' \in RecalledSet /\ recalled'.q4 = RecallQ4
      /\ recalled'.paths = recalled.paths
  <2>1. recalled \in RecalledSet
    BY DEF SourceInv, RecalledOK
  <2> QED BY <1>2, <2>1, RecallFacts DEF RecalledSet
<1>5. PathsKept
  BY <1>3, <1>4 DEF PathsKept, AllCurrent
<1>6. RecalledOK'
  BY <1>3, <1>4, RecallFacts DEF SourceInv, RecalledOK, NotAfter, Whole
<1>7. CodesOK' /\ RawOK'
  BY <1>3, MemoKeeps
<1>8. LoadOK(pull[l]) /\ pull[l] \in PullSet /\ pull[l].name \in WeightNames
  BY <1>3 DEF SourceInv, LoadOK, Shaped
<1>9. src \in Sources /\ (pull[l].name \in Quantized => (src = "q4" <=> Whole("q4")))
  BY <1>1, RecallFacts DEF Sources
<1> HIDE DEF fromQ4
<1>10. /\ pull'[l] \in PullSet /\ pull'[l].at = "read" /\ pull'[l].from = src
       /\ pull'[l].name = pull[l].name
  <2>1. pull'[l] = [pull[l] EXCEPT !.at = "read", !.from = src]
    BY <1>1, NowFacts
  <2>2. "read" \in PullPoints
    BY DEF PullPoints
  <2> QED BY <1>8, <1>9, <2>1, <2>2 DEF PullSet
<1>11. LoadOK(pull[l])'
  BY <1>3, <1>8, <1>9, <1>10 DEF LoadOK, Shaped, Undisturbed, Knows, Answered, Whole
<1>12. DOMAIN pull' = Pulls /\ \A m \in Pulls : LoadOK(pull[m])'
  BY <1>1, <1>3, <1>5, <1>11, NowKeeps
<1>13. DiskOK'
  BY <1>3 DEF SourceInv, DiskOK
<1> QED BY <1>6, <1>7, <1>12, <1>13 DEF SourceInv

LEMMA PathFacts ==
  ASSUME SourceInv
  PROVE  /\ PathStamps \in CodeKeys /\ NotAfter(PathStamps)
         /\ recalled.paths \in CodeKeys => PathStamps = recalled.paths
<1>1. /\ recalled.paths \in {Unknown} \cup CodeKeys
      /\ recalled.paths # Unknown => NotAfter(recalled.paths)
      /\ stamp["codes"] \in Nat /\ stamp["scales"] \in Nat
  BY DEF SourceInv, RecalledOK, RecalledSet, DiskOK, Stamped
<1>2. Unknown \notin CodeKeys
  BY SourceAssumption DEF CodeKeys
<1>3. CASE recalled.paths # Unknown
  BY <1>1, <1>3 DEF PathStamps
<1>4. CASE recalled.paths = Unknown
  <2>1. PathStamps = <<stamp["codes"], stamp["scales"]>>
    BY <1>4 DEF PathStamps
  <2> QED BY <1>1, <1>2, <1>4, <2>1 DEF CodeKeys, NotAfter
<1> QED BY <1>3, <1>4

\* An answer from the Q4 artifact.
LEMMA CodesGot ==
  ASSUME SourceInv, UNCHANGED <<stored, stamp>>, NEW l \in Pulls,
         pull[l].at \notin {"idle", "choose", "done"}, pull[l].from = "q4",
         NEW v \in CodeValues,
         ~pull[l].upset /\ ~v.doubt =>
            /\ v.codes = v.scales
            /\ recalled'.paths = <<stamp["codes"], stamp["scales"]>> => v.codes = stored["codes"]
  PROVE  /\ v \in GotSet
         /\ ~pull[l].upset => GotWhatIsThere(v)' /\ FromTheRightPlace(pull[l].name, v)
<1>1. v \in GotSet /\ v.from = "q4"
  BY DEF GotSet, CodeValues
<1>2. ~pull[l].upset => GotWhatIsThere(v)'
  BY <1>1 DEF GotWhatIsThere
<1>3. ~pull[l].upset => FromTheRightPlace(pull[l].name, v)
  BY <1>1, AtWork DEF FromTheRightPlace, Knows
<1> QED BY <1>1, <1>2, <1>3

LEMMA LookUpCodesKeeps ==
  ASSUME SourceInv, NEW l \in Pulls, LookUpCodes(l)
  PROVE  SourceInv'
<1>1. /\ UNCHANGED <<stored, stamp, writer, jobs, codeCache, rawCache, pulls>>
      /\ pull[l].at = "read" /\ pull[l].from = "q4"
      /\ recalled' = [recalled EXCEPT !.paths = PathStamps]
  BY DEF LookUpCodes, diskVars, Reads
<1>2. PICK k \in CodeKeys : k = PathStamps /\ NotAfter(k)
  BY PathFacts
<1>3. recalled' \in RecalledSet /\ recalled'.q4 = recalled.q4 /\ recalled'.paths = k
  BY <1>1, <1>2 DEF SourceInv, RecalledOK, RecalledSet
<1>4. PathsKept
  BY <1>1, <1>2, <1>3, PathFacts DEF PathsKept, AllCurrent
<1>5. RecalledOK'
  BY <1>1, <1>2, <1>3 DEF SourceInv, RecalledOK, NotAfter, Whole
<1>6. CodesOK' /\ RawOK'
  BY <1>1, MemoKeeps
<1>7. DOMAIN pull' = Pulls /\ \A m \in Pulls : LoadOK(pull[m])'
  <2>1. CASE \E e \in codeCache : e.key = PathStamps /\ Gets(l, e.value)
    <3>1. PICK e \in codeCache : e.key = k /\ Gets(l, e.value)
      BY <1>2, <2>1
    <3>2. PICK v \in CodeValues :
             /\ v = e.value
             /\ ~v.doubt =>
                  /\ v.codes = v.scales
                  /\ k = <<stamp["codes"], stamp["scales"]>> => v.codes = stored["codes"]
      BY <3>1 DEF SourceInv, CodesOK
    <3>3. /\ v \in GotSet
          /\ ~pull[l].upset => GotWhatIsThere(v)' /\ FromTheRightPlace(pull[l].name, v)
      BY <1>1, <1>3, <3>2, CodesGot
    <3> QED BY <1>1, <1>4, <3>1, <3>2, <3>3, GetsKeeps
  <2>2. CASE Goes(l, "codes", [key |-> PathStamps, codes |-> NoArtifact])
    <3>1. PICK h : h = [key |-> k, codes |-> NoArtifact]
      OBVIOUS
    <3>2. h \in CodeHeld /\ h.key = k /\ h \in HeldSet
      BY <3>1, RevisionFacts DEF CodeHeld, HeldSet
    <3>3. Now(l, [pull[l] EXCEPT !.at = "codes", !.held = h])
      BY <1>2, <2>2, <3>1 DEF Goes
    <3>4. pull'[l] = [pull[l] EXCEPT !.at = "codes", !.held = h]
      BY <3>3, NowFacts
    <3>5. "codes" \in PullPoints \ {"idle", "done"} /\ NotAfter(k)'
      BY <1>1, <1>2 DEF PullPoints, NotAfter
    <3>6. LoadOK(pull[l])'
      <4>1. NotAfter(h.key)'
        BY <3>2, <3>5
      <4>2. UNCHANGED <<stored, stamp>> /\ recalled'.paths = h.key
        BY <1>1, <1>3, <3>2
      <4>3. "codes" # "scales" /\ "codes" \notin {"handle", "key", "bytes", "again"}
        OBVIOUS
      <4> QED BY <1>1, <1>4, <3>2, <3>4, <3>5, <4>1, <4>2, <4>3, GoesKeeps
    <3> QED BY <1>1, <1>4, <3>3, <3>6, NowKeeps
  <2> QED BY <2>1, <2>2 DEF LookUpCodes
<1>8. DiskOK'
  BY <1>1 DEF SourceInv, DiskOK
<1> QED BY <1>5, <1>6, <1>7, <1>8 DEF SourceInv

LEMMA FailsKeeps ==
  ASSUME SourceInv, UNCHANGED <<diskVars, memoVars, pulls>>, NEW l \in Pulls,
         pull[l].at \notin {"idle", "choose", "done"}, ReadFails(l),
         ~pull[l].upset =>
            \/ pull[l].from = "q4" /\ ~(Whole("codes") /\ Whole("scales"))
            \/ pull[l].from = "pack" /\ ~Whole("packed")
            \/ pull[l].from = "shard"
  PROVE  SourceInv'
<1>1. PICK v : v = [from |-> "none", of |-> pull[l].from]
  OBVIOUS
<1>2. Gets(l, v)
  BY <1>1 DEF ReadFails
<1>3. /\ v \in GotSet
      /\ ~pull[l].upset => GotWhatIsThere(v) /\ FromTheRightPlace(pull[l].name, v)
  BY <1>1, FailureIsRight
<1> QED BY <1>2, <1>3, QuietGets

LEMMA ReadCodesKeeps ==
  ASSUME SourceInv, NEW l \in Pulls, ReadCodes(l)
  PROVE  SourceInv'
<1>1. UNCHANGED <<diskVars, memoVars, pulls>> /\ pull[l].at = "codes"
  BY DEF ReadCodes
<1>2. LoadOK(pull[l]) /\ pull[l] \in PullSet /\ pull[l].from = "q4"
      /\ pull[l].held \in CodeHeld /\ NotAfter(pull[l].held.key)
      /\ (~pull[l].upset => Knows(pull[l]))
  BY <1>1, AtWork DEF LoadOK, Shaped
<1>3. CASE ~(Whole("codes") /\ Whole("scales"))
  <2>1. ReadFails(l)
    BY <1>3 DEF ReadCodes
  <2> QED BY <1>1, <1>2, <1>3, <2>1, FailsKeeps
<1>4. CASE Whole("codes") /\ Whole("scales")
  <2>1. PICK h : h = [pull[l].held EXCEPT !.codes = stored["codes"]]
    OBVIOUS
  <2>2. h \in CodeHeld /\ h.key = pull[l].held.key /\ h.codes = stored["codes"]
    <3>1. stored["codes"] \in Contents
      BY DEF SourceInv, DiskOK, Artifacts
    <3> QED BY <1>2, <2>1, <3>1 DEF CodeHeld
  <2>3. Now(l, [pull[l] EXCEPT !.at = "scales", !.held = h])
    BY <1>4, <2>1 DEF ReadCodes, Goes
  <2>4. pull'[l] = [pull[l] EXCEPT !.at = "scales", !.held = h]
    BY <2>3, NowFacts
  <2>5. "scales" \in PullPoints \ {"idle", "done"} /\ h \in HeldSet
    BY <2>2 DEF PullPoints, HeldSet
  <2>6. /\ UNCHANGED <<stored, stamp, recalled, codeCache>>
    BY <1>1 DEF diskVars, memoVars
  <2>7. PathsKept
    BY <2>6, SamePaths
  <2>8. NotAfter(h.key)'
    BY <1>2, <2>2, <2>6 DEF NotAfter
  <2>9. ~pull[l].upset => recalled'.paths = h.key \/ AllCurrent'
    BY <1>1, <1>2, <2>2, <2>6 DEF Knows, AllCurrent
  <2>10. LoadOK(pull[l])'
    BY <1>1, <1>2, <2>2, <2>4, <2>5, <2>6, <2>7, <2>8, <2>9, GoesKeeps
  <2> QED BY <1>1, <2>3, <2>10, QuietGoes
<1> QED BY <1>3, <1>4

LEMMA ReadScalesKeeps ==
  ASSUME SourceInv, NEW l \in Pulls, ReadScales(l)
  PROVE  SourceInv'
<1> DEFINE key == pull[l].held.key
           fresh == [from |-> "q4", codes |-> pull[l].held.codes, scales |-> stored["scales"],
                     doubt |-> pull[l].upset \/ stored["codes"] # stored["scales"]]
<1>1. /\ UNCHANGED <<stored, stamp, writer, jobs, recalled, rawCache, clearing, pulls>>
      /\ pull[l].at = "scales"
  BY DEF ReadScales, diskVars
<1>2. LoadOK(pull[l]) /\ pull[l] \in PullSet /\ pull[l].from = "q4"
      /\ pull[l].held \in CodeHeld /\ NotAfter(key)
      /\ (~pull[l].upset => Knows(pull[l]))
  BY <1>1, AtWork DEF LoadOK, Shaped
<1>3. CASE ~Whole("scales") /\ ReadFails(l) /\ UNCHANGED codeCache
  <2>1. UNCHANGED <<diskVars, memoVars, pulls>>
    BY <1>1, <1>3 DEF diskVars, memoVars
  <2> QED BY <1>1, <1>2, <1>3, <2>1, FailsKeeps
<1>4. CASE UNCHANGED codeCache /\ \E e \in codeCache : e.key = key /\ Gets(l, e.value)
  <2>1. PICK e \in codeCache : e.key = key /\ Gets(l, e.value)
    BY <1>4
  <2>2. PICK v \in CodeValues :
           /\ v = e.value
           /\ ~v.doubt =>
                /\ v.codes = v.scales
                /\ key = <<stamp["codes"], stamp["scales"]>> => v.codes = stored["codes"]
    BY <2>1 DEF SourceInv, CodesOK
  <2>3. ~pull[l].upset => recalled.paths = key \/ AllCurrent
    BY <1>1, <1>2 DEF Knows
  <2>4. ~pull[l].upset /\ ~v.doubt =>
           /\ v.codes = v.scales
           /\ recalled'.paths = <<stamp["codes"], stamp["scales"]>> => v.codes = stored["codes"]
    BY <1>1, <2>1, <2>2, <2>3 DEF AllCurrent
  <2>5. /\ v \in GotSet
        /\ ~pull[l].upset => GotWhatIsThere(v)' /\ FromTheRightPlace(pull[l].name, v)
    BY <1>1, <1>2, <2>4, CodesGot
  <2>6. PathsKept
    BY <1>1, <1>4, SamePaths
  <2>7. DOMAIN pull' = Pulls /\ \A m \in Pulls : LoadOK(pull[m])'
    BY <1>1, <2>1, <2>2, <2>5, <2>6, GetsKeeps
  <2>8. UNCHANGED <<diskVars, memoVars, pulls>> /\ pulls' \in 0 .. MaxPulls
    BY <1>1, <1>4, PullsCounted DEF diskVars, memoVars
  <2> QED BY <2>7, <2>8, QuietKeeps
<1>5. CASE /\ Gets(l, fresh)
           /\ codeCache' \in {codeCache, codeCache \cup
                  {[name |-> pull[l].name, key |-> key, value |-> fresh]}}
  <2>1. PICK v : v = fresh
    OBVIOUS
  <2>2. /\ v \in CodeValues
        /\ ~v.doubt => /\ ~pull[l].upset /\ v.codes = v.scales
                       /\ v.codes = stored["codes"]
    <3>1. pull[l].held.codes \in Contents /\ stored["scales"] \in Contents
          /\ pull[l].upset \in BOOLEAN
      BY <1>2, PullFields DEF SourceInv, DiskOK, Artifacts, CodeHeld
    <3>2. PICK d \in BOOLEAN : d <=> (pull[l].upset \/ stored["codes"] # stored["scales"])
      OBVIOUS
    <3>3. v = [from |-> "q4", codes |-> pull[l].held.codes, scales |-> stored["scales"],
               doubt |-> d]
      BY <2>1, <3>1, <3>2
    <3>4. v \in CodeValues /\ v.codes = pull[l].held.codes /\ v.scales = stored["scales"]
          /\ v.doubt = d
      BY <3>1, <3>2, <3>3 DEF CodeValues
    <3>5. ~pull[l].upset => pull[l].held.codes = stored["codes"]
      BY <1>1, <1>2 DEF Knows
    <3> QED BY <3>2, <3>4, <3>5
  <2> HIDE DEF fresh
  <2>3. \A e \in codeCache' : e \in codeCache \/ (e.key = key /\ e.value = v)
    BY <1>5, <2>1
  <2>4. PathsKept
    <3>1. AllCurrent => AllCurrent'
      BY <1>1, <2>2, <2>3 DEF AllCurrent
    <3> QED BY <1>1, <3>1 DEF PathsKept
  <2>5. CodesOK'
    <3>1. key \in CodeKeys
      BY <1>2 DEF CodeHeld
    <3> QED BY <1>1, <1>2, <2>2, <2>3, <3>1 DEF SourceInv, CodesOK, NotAfter
  <2>6. /\ v \in GotSet
        /\ ~pull[l].upset => GotWhatIsThere(v)' /\ FromTheRightPlace(pull[l].name, v)
    BY <1>1, <1>2, <2>2, CodesGot
  <2>7. DOMAIN pull' = Pulls /\ \A m \in Pulls : LoadOK(pull[m])'
    BY <1>1, <1>5, <2>1, <2>4, <2>6, GetsKeeps
  <2>8. RecalledOK' /\ RawOK' /\ DiskOK'
    BY <1>1, MemoKeeps DEF SourceInv, DiskOK
  <2> QED BY <2>5, <2>7, <2>8 DEF SourceInv
<1> QED BY <1>3, <1>4, <1>5 DEF ReadScales

\* An answer from the shard.
LEMMA ShardGot ==
  ASSUME SourceInv, NEW l \in Pulls,
         pull[l].at \notin {"idle", "choose", "done"}, pull[l].from = "shard",
         NEW v \in ShardValues,
         ~pull[l].upset /\ ~v.doubt => v.inPlace /\ v.rev = stored["shard"]
  PROVE  /\ v \in GotSet
         /\ ~pull[l].upset => GotWhatIsThere(v) /\ FromTheRightPlace(pull[l].name, v)
<1>1. v \in GotSet /\ v.from = "shard"
  BY DEF GotSet, ShardValues
<1>2. ~pull[l].upset => GotWhatIsThere(v)
  BY <1>1 DEF GotWhatIsThere
<1>3. ~pull[l].upset => FromTheRightPlace(pull[l].name, v)
  BY <1>1, AtWork DEF FromTheRightPlace, Knows
<1> QED BY <1>1, <1>2, <1>3

LEMMA ByNameFacts ==
  ASSUME NEW rev \in Revisions
  PROVE  /\ ByName(rev) \in ShardValues /\ ByName(rev).inPlace = TRUE
         /\ ByName(rev).rev = rev
  BY DEF ByName, ShardValues

LEMMA ReadPackedKeeps ==
  ASSUME SourceInv, NEW l \in Pulls, ReadPacked(l)
  PROVE  SourceInv'
<1>1. /\ UNCHANGED <<diskVars, memoVars, pulls>>
      /\ pull[l].at = "read" /\ pull[l].from = "pack"
  BY DEF ReadPacked, Reads
<1>2. CASE ~Whole("packed") /\ ReadFails(l)
  BY <1>1, <1>2, FailsKeeps
<1>3. CASE Gets(l, [from |-> "pack", rev |-> stored["packed"]])
  <2>1. PICK v : v = [from |-> "pack", rev |-> stored["packed"]]
    OBVIOUS
  <2>2. v \in GotSet /\ v.from = "pack" /\ v.rev = stored["packed"]
    <3>1. stored["packed"] \in Contents
      BY DEF SourceInv, DiskOK, Artifacts
    <3>2. v \in [from : {"pack"}, rev : Contents]
      BY <2>1, <3>1
    <3> QED BY <2>1, <3>2 DEF GotSet, OtherValues
  <2>3. ~pull[l].upset => GotWhatIsThere(v) /\ FromTheRightPlace(pull[l].name, v)
    BY <1>1, <2>2, AtWork DEF GotWhatIsThere, FromTheRightPlace, Knows
  <2>4. Gets(l, v)
    BY <1>3, <2>1
  <2> QED BY <1>1, <2>2, <2>3, <2>4, QuietGets
<1> QED BY <1>2, <1>3 DEF ReadPacked

LEMMA ShardStored == SourceInv => stored["shard"] \in Revisions
  BY DEF SourceInv, DiskOK

LEMMA ReadScopedKeeps ==
  ASSUME SourceInv, NEW l \in Pulls, ReadScoped(l)
  PROVE  SourceInv'
<1>1. UNCHANGED <<diskVars, memoVars, pulls>> /\ Gets(l, ByName(stored["shard"]))
  BY DEF ReadScoped
<1>2. pull[l].at \in {"read", "again"} /\ pull[l].from = "shard"
  BY DEF ReadScoped, Reads, SourceInv, LoadOK, Shaped
<1>3. PICK v \in ShardValues : /\ v = ByName(stored["shard"])
                               /\ v.inPlace /\ v.rev = stored["shard"]
  BY ShardStored, ByNameFacts
<1>4. /\ v \in GotSet
      /\ ~pull[l].upset => GotWhatIsThere(v) /\ FromTheRightPlace(pull[l].name, v)
  BY <1>2, <1>3, ShardGot
<1> QED BY <1>1, <1>3, <1>4, QuietGets

LEMMA ReadKeptKeeps ==
  ASSUME SourceInv, NEW l \in Pulls, ReadKept(l)
  PROVE  SourceInv'
<1>1. UNCHANGED <<diskVars, memoVars, pulls>> /\ pull[l].at = "handle"
  BY DEF ReadKept
<1>2. pull[l].from = "shard" /\ pull[l].held \in HandleHeld
      /\ (~pull[l].upset => pull[l].held.rev = stored["shard"])
  BY <1>1, AtWork DEF LoadOK, Shaped, Knows
<1>3. CASE pull[l].held.open
  <2>1. PICK v \in ShardValues : /\ v = ByName(pull[l].held.rev)
                                 /\ v.inPlace /\ v.rev = pull[l].held.rev
    BY <1>2, ByNameFacts DEF HandleHeld
  <2>2. Gets(l, v)
    BY <1>3, <2>1 DEF ReadKept
  <2>3. /\ v \in GotSet
        /\ ~pull[l].upset => GotWhatIsThere(v) /\ FromTheRightPlace(pull[l].name, v)
    BY <1>1, <1>2, <2>1, ShardGot
  <2> QED BY <1>1, <2>2, <2>3, QuietGets
<1>4. CASE ~pull[l].held.open
  <2>1. ReadFails(l)
    BY <1>4 DEF ReadKept
  <2> QED BY <1>1, <1>2, <2>1, FailsKeeps
<1> QED BY <1>3, <1>4

\* A load from the shard that goes on, and what it then holds.
LEMMA ShardGoes ==
  ASSUME SourceInv, UNCHANGED <<diskVars, memoVars, pulls>>, NEW l \in Pulls,
         NEW a \in {"handle", "key", "bytes", "again"}, NEW h \in HeldSet, Goes(l, a, h),
         pull[l].at \notin {"idle", "choose", "done"}, pull[l].from = "shard",
         a = "handle" => h \in HandleHeld,
         a = "key" => h \in BaseHeld,
         a = "bytes" => h \in ByteHeld /\ h.key[2] <= stamp["shard"],
         ~pull[l].upset =>
            /\ a = "handle" => h.rev = stored["shard"]
            /\ a \in {"key", "bytes"} => h.base = BaseOf[stored["shard"]]
            /\ a = "bytes" => h.key[2] = stamp["shard"]
  PROVE  SourceInv'
<1>1. Now(l, [pull[l] EXCEPT !.at = a, !.held = h])
  BY DEF Goes
<1>2. pull'[l] = [pull[l] EXCEPT !.at = a, !.held = h]
  BY <1>1, NowFacts
<1>3. a \in PullPoints \ {"idle", "done"} /\ a \notin {"codes", "scales"}
  BY DEF PullPoints
<1>4. UNCHANGED <<stored, stamp, recalled, codeCache>>
  BY DEF diskVars, memoVars
<1>5. PathsKept
  BY <1>4, SamePaths
<1>6. LoadOK(pull[l])'
  BY <1>2, <1>3, <1>4, <1>5, GoesKeeps
<1> QED BY <1>1, <1>6, QuietGoes

LEMMA OpenKeptKeeps ==
  ASSUME SourceInv, NEW l \in Pulls, OpenKept(l)
  PROVE  SourceInv'
<1>1. /\ UNCHANGED <<diskVars, memoVars, pulls>>
      /\ pull[l].at = "read" /\ pull[l].from = "shard"
  BY DEF OpenKept, Reads
<1>2. PICK h : h = [open |-> TRUE, rev |-> stored["shard"]]
  OBVIOUS
<1>3. h \in HandleHeld /\ h \in HeldSet /\ h.rev = stored["shard"]
  BY <1>2, ShardStored DEF HandleHeld, HeldSet
<1>4. Goes(l, "handle", h)
  BY <1>2 DEF OpenKept
<1> QED BY <1>1, <1>3, <1>4, ShardGoes

LEMMA BaseFacts ==
  ASSUME SourceInv
  PROVE  BaseOf[stored["shard"]] \in Nat /\ stamp["shard"] \in Nat
  BY ShardStored, SourceAssumption DEF SourceInv, DiskOK, Stamped

LEMMA ReadBaseKeeps ==
  ASSUME SourceInv, NEW l \in Pulls, ReadBase(l)
  PROVE  SourceInv'
<1>1. /\ UNCHANGED <<diskVars, memoVars, pulls>>
      /\ pull[l].at = "read" /\ pull[l].from = "shard"
  BY DEF ReadBase, Reads
<1>2. PICK h : h = [base |-> BaseOf[stored["shard"]]]
  OBVIOUS
<1>3. h \in BaseHeld /\ h \in HeldSet /\ h.base = BaseOf[stored["shard"]]
  BY <1>2, BaseFacts DEF BaseHeld, HeldSet
<1>4. Goes(l, "key", h)
  BY <1>2 DEF ReadBase
<1> QED BY <1>1, <1>3, <1>4, ShardGoes

LEMMA BytesFailKeeps ==
  ASSUME SourceInv, NEW l \in Pulls, BytesFail(l)
  PROVE  SourceInv'
<1>1. /\ UNCHANGED <<diskVars, memoVars, pulls>>
      /\ pull[l].at \in {"key", "bytes"} /\ Goes(l, "again", <<>>)
  BY DEF BytesFail
<1>2. pull[l].from = "shard" /\ <<>> \in HeldSet
  BY <1>1 DEF SourceInv, LoadOK, Shaped, HeldSet
<1> QED BY <1>1, <1>2, ShardGoes

LEMMA RawKeyFacts ==
  ASSUME SourceInv, NEW l \in Pulls, pull[l].at = "key"
  PROVE  RawKey(l) \in RawKeys /\ RawKey(l)[2] = stamp["shard"]
<1>1. pull[l].name \in WeightNames /\ pull[l].entry \in Revisions
  BY AtWork
<1>2. OffsetOf[pull[l].name][pull[l].entry] \in Nat
  BY <1>1, SourceAssumption
<1> QED BY <1>1, <1>2, BaseFacts DEF RawKey, RawKeys

LEMMA LookUpRawKeeps ==
  ASSUME SourceInv, NEW l \in Pulls, LookUpRaw(l)
  PROVE  SourceInv'
<1>1. UNCHANGED <<diskVars, memoVars, pulls>> /\ pull[l].at = "key"
  BY DEF LookUpRaw
<1>2. pull[l].from = "shard" /\ pull[l].held \in BaseHeld
      /\ (~pull[l].upset => pull[l].held.base = BaseOf[stored["shard"]])
  BY <1>1, AtWork DEF LoadOK, Shaped, Knows
<1>3. PICK k \in RawKeys : k = RawKey(l) /\ k[2] = stamp["shard"]
  BY <1>1, RawKeyFacts
<1>4. CASE \E e \in rawCache : e.key = RawKey(l) /\ Gets(l, e.value)
  <2>1. PICK e \in rawCache : e.key = k /\ Gets(l, e.value)
    BY <1>3, <1>4
  <2>2. PICK v \in ShardValues : /\ v = e.value
                                 /\ ~v.doubt => v.inPlace /\ v.rev = stored["shard"]
    BY <1>3, <2>1 DEF SourceInv, RawOK
  <2>3. /\ v \in GotSet
        /\ ~pull[l].upset => GotWhatIsThere(v) /\ FromTheRightPlace(pull[l].name, v)
    BY <1>1, <1>2, <2>2, ShardGot
  <2> QED BY <1>1, <2>1, <2>2, <2>3, QuietGets
<1>5. CASE Goes(l, "bytes", [base |-> pull[l].held.base, key |-> RawKey(l)])
  <2>1. PICK h : h = [base |-> pull[l].held.base, key |-> k]
    OBVIOUS
  <2>2. h \in ByteHeld /\ h.key = k /\ h.base = pull[l].held.base
    BY <1>2, <2>1 DEF BaseHeld, ByteHeld
  <2>3. h \in HeldSet /\ h.key[2] = stamp["shard"] /\ h.key[2] <= stamp["shard"]
    BY <1>3, <2>2, BaseFacts DEF HeldSet
  <2>4. Goes(l, "bytes", h)
    BY <1>3, <1>5, <2>1
  <2> QED BY <1>1, <1>2, <2>2, <2>3, <2>4, ShardGoes
<1> QED BY <1>4, <1>5 DEF LookUpRaw

LEMMA ReadBytesKeeps ==
  ASSUME SourceInv, NEW l \in Pulls, ReadBytes(l)
  PROVE  SourceInv'
<1> DEFINE rev == stored["shard"]
           key == pull[l].held.key
           place == /\ pull[l].held.base = BaseOf[rev]
                    /\ OffsetOf[pull[l].name][pull[l].entry] = OffsetOf[pull[l].name][rev]
           unsure == pull[l].upset \/ pull[l].entry # rev
           fresh == [from |-> "shard", rev |-> rev, inPlace |-> place, doubt |-> unsure]
<1>1. /\ UNCHANGED <<stored, stamp, writer, jobs, recalled, codeCache, clearing, pulls>>
      /\ pull[l].at = "bytes"
  BY DEF ReadBytes, diskVars
<1>2. pull[l].from = "shard" /\ pull[l].held \in ByteHeld /\ key[2] <= stamp["shard"]
      /\ (~pull[l].upset => pull[l].held.base = BaseOf[rev] /\ key[2] = stamp["shard"])
  BY <1>1, AtWork DEF LoadOK, Shaped, Knows
<1>3. CASE UNCHANGED rawCache /\ \E e \in rawCache : e.key = key /\ Gets(l, e.value)
  <2>1. PICK e \in rawCache : e.key = key /\ Gets(l, e.value)
    BY <1>3
  <2>2. PICK v \in ShardValues :
           /\ v = e.value
           /\ ~v.doubt /\ key[2] = stamp["shard"] => v.inPlace /\ v.rev = stored["shard"]
    BY <2>1 DEF SourceInv, RawOK
  <2>3. /\ v \in GotSet
        /\ ~pull[l].upset => GotWhatIsThere(v) /\ FromTheRightPlace(pull[l].name, v)
    BY <1>1, <1>2, <2>2, ShardGot
  <2>4. UNCHANGED <<diskVars, memoVars, pulls>>
    BY <1>1, <1>3 DEF diskVars, memoVars
  <2> QED BY <2>1, <2>2, <2>3, <2>4, QuietGets
<1>4. CASE /\ Gets(l, fresh)
           /\ rawCache' \in {rawCache, rawCache \cup {[key |-> key, value |-> fresh]}}
  <2>1. PICK v : v = fresh
    OBVIOUS
  <2>2. PICK p \in BOOLEAN, d \in BOOLEAN : (p <=> place) /\ (d <=> unsure)
    <3>1. place \in BOOLEAN /\ unsure \in BOOLEAN
      BY <1>1, AtWork, PullFields
    <3> QED BY <3>1
  <2>3. v = [from |-> "shard", rev |-> rev, inPlace |-> p, doubt |-> d]
    <3>1. place \in BOOLEAN /\ unsure \in BOOLEAN
      BY <1>1, AtWork, PullFields
    <3> QED BY <2>1, <2>2, <3>1
  <2>4. ~d => ~pull[l].upset /\ p
    BY <1>2, <2>2
  <2> HIDE DEF fresh, place, unsure
  <2>5. /\ v \in ShardValues
        /\ ~v.doubt => v.inPlace /\ v.rev = stored["shard"]
    BY <2>3, <2>4, ShardStored DEF ShardValues
  <2>6. /\ v \in GotSet
        /\ ~pull[l].upset => GotWhatIsThere(v) /\ FromTheRightPlace(pull[l].name, v)
    BY <1>1, <1>2, <2>5, ShardGot
  <2>7. UNCHANGED <<stored, stamp, recalled, codeCache>> /\ PathsKept
    BY <1>1, SamePaths
  <2>8. GotWhatIsThere(v) => GotWhatIsThere(v)'
    BY <2>7 DEF GotWhatIsThere
  <2>9. DOMAIN pull' = Pulls /\ \A m \in Pulls : LoadOK(pull[m])'
    BY <1>4, <2>1, <2>6, <2>7, <2>8, GetsKeeps
  <2>10. RawOK'
    <3>1. \A e \in rawCache' : e \in rawCache \/ (e.key = key /\ e.value = v)
      BY <1>4, <2>1
    <3>2. key \in RawKeys
      BY <1>2 DEF ByteHeld
    <3> QED BY <1>1, <1>2, <2>5, <3>1, <3>2 DEF SourceInv, RawOK
  <2>11. RecalledOK' /\ CodesOK' /\ DiskOK'
    BY <1>1, MemoKeeps DEF SourceInv, DiskOK
  <2> QED BY <2>9, <2>10, <2>11 DEF SourceInv
<1> QED BY <1>3, <1>4 DEF ReadBytes

-----------------------------------------------------------------------------
LEMMA SourceInit == BInit => SourceInv
<1> SUFFICES ASSUME BInit PROVE SourceInv
  OBVIOUS
<1>1. DiskOK
  <2>1. stored \in [Artifacts -> Contents] /\ stored["shard"] \in Revisions
    BY RevisionFacts DEF BInit, Artifacts
  <2>2. NoWriter \in WriterSet /\ NoWriter.half = FALSE
    <3>1. <<>> \in Seq(Artifacts \ {"shard"})
      OBVIOUS
    <3> QED BY <3>1, RevisionFacts DEF NoWriter, WriterSet
  <2> QED BY <2>1, <2>2, SourceAssumption DEF BInit, DiskOK
<1>2. RecalledOK
  BY DEF BInit, RecalledOK, RecalledSet
<1>3. CodesOK /\ RawOK
  BY DEF BInit, CodesOK, RawOK
<1>4. \A l \in Pulls : LoadOK(pull[l])
  BY UnloadedFacts DEF BInit, LoadOK, Shaped, Undisturbed, Answered
<1> QED BY <1>1, <1>2, <1>3, <1>4 DEF BInit, SourceInv

LEMMA SourceStep ==
  ASSUME SourceInv, [BNext]_bVars
  PROVE  SourceInv'
<1>1. CASE UNCHANGED bVars
  <2>1. /\ UNCHANGED <<stored, stamp, writer, recalled, codeCache, rawCache>>
        /\ UNCHANGED <<clearing, pull, jobs, pulls>>
    BY <1>1 DEF bVars
  <2>2. DOMAIN pull' = Pulls /\ \A l \in Pulls : LoadOK(pull[l])'
    BY <2>1, SamePaths, IdleKeeps
  <2>3. RecalledOK' /\ CodesOK' /\ RawOK' /\ DiskOK'
    BY <2>1, MemoKeeps DEF SourceInv, DiskOK
  <2> QED BY <2>2, <2>3 DEF SourceInv
<1>2. CASE \E l \in Pulls :
              \/ \E n \in WeightNames : BeginPull(l, n)
              \/ ChooseSource(l) \/ LookUpCodes(l) \/ ReadCodes(l) \/ ReadScales(l)
              \/ ReadPacked(l) \/ ReadScoped(l) \/ OpenKept(l) \/ ReadKept(l)
              \/ ReadBase(l) \/ LookUpRaw(l) \/ ReadBytes(l) \/ BytesFail(l)
  BY <1>2, BeginKeeps, ChooseKeeps, LookUpCodesKeeps, ReadCodesKeeps, ReadScalesKeeps,
     ReadPackedKeeps, ReadScopedKeeps, OpenKeptKeeps, ReadKeptKeeps, ReadBaseKeeps,
     LookUpRawKeeps, ReadBytesKeeps, BytesFailKeeps
<1> QED BY <1>1, <1>2, ReplaceKeeps, JobsKeep, WritesKeep, DyingKeeps, ClearsKeep, HandlesKeep
        DEF BNext

LEMMA SourcesFollow == SourceInv => BTypeOK /\ LoadsSound
<1> SUFFICES ASSUME SourceInv PROVE BTypeOK /\ LoadsSound
  OBVIOUS
<1>1. LoadsSound
  BY DEF SourceInv, LoadOK, Answered, LoadsSound
<1>2. \A l \in Pulls : /\ pull[l].at \in PullPoints /\ pull[l].entry \in Revisions
                       /\ pull[l].name \in WeightNames \cup {Unknown}
                       /\ pull[l].at = "done" => ~pull[l].upset
  BY PullFields DEF SourceInv, LoadOK, Shaped
<1>3. /\ \A f \in Artifacts : stored[f] \in Revisions \cup {NoArtifact, HalfWritten}
      /\ jobs \in 0 .. MaxJobs /\ pulls \in 0 .. MaxPulls
  BY DEF SourceInv, DiskOK, Contents
<1> QED BY <1>1, <1>2, <1>3 DEF BTypeOK, PullPoints

-----------------------------------------------------------------------------
(* The theorems                                                            *)

LEMMA SourceLoadStep == [LoadNext]_loadVars => [BNext]_bVars
  BY DEF LoadNext, loadVars, bVars

LEMMA SourceInvariance == LoadSpec => []SourceInv
<1>1. LoadInit => SourceInv
  BY SourceInit DEF LoadInit
<1>2. SourceInv /\ [LoadNext]_loadVars => SourceInv'
  BY SourceLoadStep, SourceStep
<1> QED BY <1>1, <1>2, PTL DEF LoadSpec

\* A load that no writer, replacement or cleared cache overtook answers with what
\* the files hold when it ends, from the copy it should take, whatever the other
\* loads remembered before it (tensor_loader.py, transformer_layer.py).
THEOREM LoadsAreSound == LoadSpec => []LoadsSound
<1>1. SourceInv => LoadsSound
  BY SourcesFollow
<1> QED BY <1>1, SourceInvariance, PTL

\* The files, the loads and what the server remembers of them have their types.
THEOREM FilesTyped == LoadSpec => []BTypeOK
<1>1. SourceInv => BTypeOK
  BY SourcesFollow
<1> QED BY <1>1, SourceInvariance, PTL

-----------------------------------------------------------------------------
(***************************************************************************)
(* What is in a list, as a set.                                            *)
(***************************************************************************)
LEMMA InList == ASSUME NEW S, NEW s \in Seq(S), NEW x PROVE x \in ToSet(s) <=> Lists(s, x)
  BY DEF ToSet, Lists

LEMMA ListedSet ==
  ASSUME NEW S, NEW s \in Seq(S)
  PROVE  /\ ToSet(s) \in SUBSET S /\ IsFiniteSet(ToSet(s))
         /\ \A x : x \in ToSet(s) <=> Lists(s, x)
<1>1. /\ DOMAIN s = 1 .. Len(s) /\ Len(s) \in Nat /\ s \in [1 .. Len(s) -> S]
  BY LenProperties
<1>2. PICK L \in Nat : L = Len(s)
  BY <1>1
<1>3. IsFiniteSet(1 .. L)
  <2>1. L \in Int /\ 1 \in Int
    OBVIOUS
  <2> QED BY <2>1, FS_Interval, Zenon
<1>4. s \in Surjection(1 .. L, ToSet(s))
  BY <1>1, <1>2 DEF Surjection, ToSet
<1>5. IsFiniteSet(ToSet(s))
  BY <1>3, <1>4, FS_Surjection
<1>6. ToSet(s) \in SUBSET S
  BY <1>1 DEF ToSet
<1> QED BY <1>5, <1>6, InList

-----------------------------------------------------------------------------
(***************************************************************************)
(* The packed weights.                                                     *)
(***************************************************************************)
PackLoads == {NoLoad} \cup [at : {"read", "store"}, key : Packs, budget : Budgets]

\* Of what may go, nothing or one weight is in a cache over every budget.
OverByOne == (\A b \in Budgets : packedBytes > b) =>
                \E k : ToSet(packed) \ AlwaysKept \subseteq {k}

PackInv ==
  /\ packed \in Seq(Packs) /\ Once(packed) /\ packedBytes = BytesOf(ToSet(packed))
  /\ load \in [Loaders -> PackLoads] /\ loads \in 0 .. MaxLoads
  /\ OverByOne

LEMMA PackSizes == ASSUME NEW S \in SUBSET Packs PROVE Sizes(S, PackBytes)
  BY PackAssumption DEF Sizes

LEMMA PackedCounted ==
  ASSUME PackInv
  PROVE  /\ ToSet(packed) \in SUBSET Packs /\ IsFiniteSet(ToSet(packed))
         /\ \A x : x \in ToSet(packed) <=> Lists(packed, x)
         /\ Sizes(ToSet(packed), PackBytes) /\ packedBytes \in Nat
<1>1. /\ ToSet(packed) \in SUBSET Packs /\ IsFiniteSet(ToSet(packed))
      /\ \A x : x \in ToSet(packed) <=> Lists(packed, x)
  BY ListedSet DEF PackInv
<1>2. Sizes(ToSet(packed), PackBytes)
  BY <1>1, PackSizes
<1>3. packedBytes \in Nat
  BY <1>1, <1>2, TotalType DEF PackInv, BytesOf
<1> QED BY <1>1, <1>2, <1>3

\* Weights that are always kept stay; what goes makes room, or is all that may go.
LEMMA VictimFacts ==
  ASSUME PackInv, NEW key \in Packs, NEW budget \in Budgets,
         NEW gone, gone = PackVictims(key, budget)
  PROVE  /\ gone \in SUBSET (ToSet(packed) \ AlwaysKept)
         /\ \/ packedBytes - BytesOf(gone) + PackBytes[key] <= budget
            \/ gone = ToSet(packed) \ AlwaysKept
<1>1. PICK may : may = WithoutAll(packed, AlwaysKept)
  OBVIOUS
<1>2. /\ may \in Seq(Packs) /\ Len(may) \in Nat
      /\ \A x : Lists(may, x) <=> x \notin AlwaysKept /\ Lists(packed, x)
  <2>1. packed \in Seq(Packs)
    BY DEF PackInv
  <2> QED BY <1>1, <2>1, WithoutAllFacts
<1>3. PICK L \in Nat : L = Len(may)
  BY <1>2
<1> DEFINE first(n) == {may[i] : i \in 1 .. n}
           fits(n) == packedBytes - BytesOf(first(n)) + PackBytes[key] <= budget
           least == CHOOSE n \in 0 .. Len(may) : /\ fits(n) \/ n = Len(may)
                                                 /\ \A m \in 0 .. n - 1 : ~fits(m)
           T == {n \in 0 .. L : fits(n) \/ n = L}
<1>4. gone = first(least)
  BY <1>1 DEF PackVictims
<1>5. \E n \in 0 .. Len(may) : (fits(n) \/ n = Len(may)) /\ \A m \in 0 .. n - 1 : ~fits(m)
  <2> HIDE DEF fits
  <2>1. T \in SUBSET (0 .. L) /\ L \in T
    BY <1>3
  <2>2. PICK n \in T : \A m \in 0 .. n - 1 : m \notin T
    <3> HIDE DEF T
    <3> QED BY <1>3, <2>1, LeastOf
  <2> QED BY <1>3, <2>2
<1>6. least \in 0 .. L /\ (fits(least) \/ least = L)
  <2> HIDE DEF fits
  <2> QED BY <1>3, <1>5
<1>7. first(L) = ToSet(packed) \ AlwaysKept
  <2>1. \A x : x \in first(L) <=> Lists(may, x)
    BY <1>3 DEF Lists
  <2>2. \A x : x \in ToSet(packed) <=> Lists(packed, x)
    BY PackedCounted
  <2> HIDE DEF first
  <2> QED BY <1>2, <2>1, <2>2
<1>8. first(least) \subseteq first(L)
  <2> HIDE DEF least
  <2> QED BY <1>6
<1> HIDE DEF first, least
<1>9. gone = first(L) \/ packedBytes - BytesOf(gone) + PackBytes[key] <= budget
  BY <1>4, <1>6
<1> QED BY <1>4, <1>7, <1>8, <1>9

\* A weight put at the end, for others that go or none.
LEMMA PackPut ==
  ASSUME PackInv, NEW gone, NEW key \in Packs,
         NEW new, new = PutLast(packed, gone \cup {key}, key)
  PROVE  /\ new \in Seq(Packs) /\ Once(new)
         /\ ToSet(new) = (ToSet(packed) \ gone) \cup {key}
<1>1. PICK out : out = gone \cup {key}
  OBVIOUS
<1>2. packed \in Seq(Packs) /\ Once(packed) /\ key \in out /\ new = PutLast(packed, out, key)
  BY <1>1 DEF PackInv
<1>3. /\ new \in Seq(Packs) /\ Once(new)
      /\ \A y : Lists(new, y) <=> y = key \/ (y \notin out /\ Lists(packed, y))
  BY <1>2, PutLastFacts
<1>4. /\ \A x : x \in ToSet(new) <=> Lists(new, x)
      /\ \A x : x \in ToSet(packed) <=> Lists(packed, x)
  BY <1>2, <1>3, InList
<1> QED BY <1>1, <1>3, <1>4

LEMMA UseKeeps ==
  ASSUME PackInv, NEW key \in ToSet(packed), packed' = Used(packed, key),
         packedBytes' = packedBytes
  PROVE  /\ packed' \in Seq(Packs) /\ Once(packed') /\ packedBytes' = BytesOf(ToSet(packed'))
         /\ OverByOne'
<1>1. PICK new, none : new = packed' /\ none = {}
  OBVIOUS
<1>2. key \in Packs /\ none \cup {key} = {key}
  BY <1>1, PackedCounted
<1>3. new = PutLast(packed, none \cup {key}, key)
  BY <1>1, <1>2 DEF Used
<1>4. /\ new \in Seq(Packs) /\ Once(new)
      /\ ToSet(new) = (ToSet(packed) \ none) \cup {key}
  BY <1>2, <1>3, PackPut
<1>5. ToSet(new) = ToSet(packed)
  BY <1>1, <1>4
<1> QED BY <1>1, <1>4, <1>5 DEF PackInv, OverByOne

LEMMA InsertKeeps ==
  ASSUME PackInv, NEW key \in Packs, key \notin ToSet(packed), NEW budget \in Budgets,
         Insert(key, budget)
  PROVE  /\ packed' \in Seq(Packs) /\ Once(packed') /\ packedBytes' = BytesOf(ToSet(packed'))
         /\ OverByOne'
<1>1. PICK new, gone : new = packed' /\ gone = PackVictims(key, budget)
  OBVIOUS
<1>2. /\ new = PutLast(packed, gone \cup {key}, key)
      /\ packedBytes' = packedBytes - BytesOf(gone) + PackBytes[key]
  BY <1>1 DEF Insert
<1>3. /\ gone \in SUBSET (ToSet(packed) \ AlwaysKept)
      /\ \/ packedBytes - BytesOf(gone) + PackBytes[key] <= budget
         \/ gone = ToSet(packed) \ AlwaysKept
  BY <1>1, VictimFacts
<1>4. /\ new \in Seq(Packs) /\ Once(new)
      /\ ToSet(new) = (ToSet(packed) \ gone) \cup {key}
  BY <1>2, PackPut
<1>5. PICK S : S = ToSet(packed)
  OBVIOUS
<1>6. /\ S \in SUBSET Packs /\ IsFiniteSet(S) /\ Sizes(S, PackBytes)
      /\ PackBytes[key] \in Nat /\ packedBytes = TotalOf(S, PackBytes)
  BY <1>5, PackedCounted, PackAssumption DEF PackInv, BytesOf
<1>7. /\ TotalOf(S \ gone, PackBytes) = TotalOf(S, PackBytes) - TotalOf(gone, PackBytes)
      /\ IsFiniteSet(S \ gone)
  <2>1. gone \in SUBSET S /\ S \ gone \in SUBSET S
    BY <1>3, <1>5
  <2> QED BY <1>6, <2>1, TotalLess, FS_Subset
<1>8. TotalOf((S \ gone) \cup {key}, PackBytes) = TotalOf(S \ gone, PackBytes) + PackBytes[key]
  <2>1. PICK R : R = S \ gone
    OBVIOUS
  <2>2. key \notin R /\ Sizes(R, PackBytes) /\ IsFiniteSet(R)
    BY <1>5, <1>6, <1>7, <2>1, PackSizes DEF Sizes
  <2>3. TotalOf(R \cup {key}, PackBytes) = TotalOf(R, PackBytes) + PackBytes[key]
    BY <1>6, <2>2, TotalWith
  <2> QED BY <2>1, <2>3
<1>9. packedBytes' = BytesOf(ToSet(new))
  BY <1>2, <1>4, <1>5, <1>6, <1>7, <1>8 DEF BytesOf
<1>10. OverByOne'
  <2> SUFFICES ASSUME \A b \in Budgets : packedBytes' > b
               PROVE  \E k : ToSet(new) \ AlwaysKept \subseteq {k}
    BY <1>1 DEF OverByOne
  <2>1. packedBytes' \in Int /\ budget \in Int /\ packedBytes' > budget
    <3>1. TotalOf((S \ gone) \cup {key}, PackBytes) \in Nat
      <4>1. PICK R : R = (S \ gone) \cup {key}
        OBVIOUS
      <4>2. IsFiniteSet(R) /\ Sizes(R, PackBytes)
        <5>1. R \in SUBSET Packs
          BY <1>6, <4>1
        <5>2. IsFiniteSet({key})
          BY FS_Singleton
        <5>3. IsFiniteSet(R)
          BY <1>7, <4>1, <5>2, FS_Union, Zenon
        <5> QED BY <5>1, <5>3, PackSizes
      <4> QED BY <4>1, <4>2, TotalType
    <3>2. packedBytes' \in Nat
      BY <1>4, <1>5, <1>9, <3>1 DEF BytesOf
    <3> QED BY <3>2, PackAssumption
  <2>2. gone = ToSet(packed) \ AlwaysKept
    BY <1>2, <1>3, <2>1
  <2>3. ToSet(new) \ AlwaysKept \subseteq {key}
    BY <1>4, <2>2
  <2> QED BY <2>3
<1> QED BY <1>1, <1>4, <1>9, <1>10

LEMMA PackInit == PInit => PackInv
<1> SUFFICES ASSUME PInit PROVE PackInv
  OBVIOUS
<1>1. packed = <<>> /\ packedBytes = 0 /\ loads = 0 /\ load = [t \in Loaders |-> NoLoad]
  BY DEF PInit
<1>2. ToSet(packed) = {} /\ Once(packed) /\ packed \in Seq(Packs)
  BY <1>1 DEF ToSet, Once
<1>3. packedBytes = BytesOf(ToSet(packed))
  BY <1>1, <1>2, TotalOfNone DEF BytesOf
<1> QED BY <1>1, <1>2, <1>3, PackAssumption DEF PackInv, PackLoads, OverByOne

LEMMA PackStep == PackInv /\ [PNext]_pVars => PackInv'
<1> SUFFICES ASSUME PackInv, [PNext]_pVars PROVE PackInv'
  OBVIOUS
<1> USE DEF PackInv
<1>1. MaxLoads \in Nat /\ NoLoad.at = "idle"
  BY PackAssumption DEF NoLoad
<1>2. ASSUME NEW t \in Loaders, NEW key \in Packs, NEW budget \in Budgets,
             LookupPack(t, key, budget)
      PROVE  PackInv'
  <2>1. loads' \in 0 .. MaxLoads
    BY <1>1, <1>2 DEF LookupPack
  <2>2. CASE key \in ToSet(packed)
    <3>1. packed' = Used(packed, key) /\ load' = load /\ packedBytes' = packedBytes
      BY <1>2, <2>2 DEF LookupPack
    <3> QED BY <2>1, <2>2, <3>1, UseKeeps
  <2>3. CASE key \notin ToSet(packed)
    <3>1. /\ load' = [load EXCEPT ![t] = [at |-> "read", key |-> key, budget |-> budget]]
          /\ packed' = packed /\ packedBytes' = packedBytes
      BY <1>2, <2>3 DEF LookupPack
    <3>2. load' \in [Loaders -> PackLoads]
      BY <3>1 DEF PackLoads
    <3> QED BY <2>1, <3>1, <3>2 DEF OverByOne
  <2> QED BY <2>2, <2>3
<1>3. ASSUME NEW t \in Loaders, ReadPack(t) PROVE PackInv'
  <2>1. load[t] \in [at : {"read", "store"}, key : Packs, budget : Budgets]
    BY <1>1, <1>3 DEF ReadPack, PackLoads
  <2>2. load' \in [Loaders -> PackLoads]
    BY <1>3, <2>1 DEF ReadPack, PackLoads
  <2> QED BY <1>3, <2>2 DEF ReadPack, OverByOne
<1>4. ASSUME NEW t \in Loaders, StorePack(t) PROVE PackInv'
  <2>1. PICK key, budget : key = load[t].key /\ budget = load[t].budget
    OBVIOUS
  <2>2. load[t] \in [at : {"read", "store"}, key : Packs, budget : Budgets]
    BY <1>1, <1>4 DEF StorePack, PackLoads
  <2>3. key \in Packs /\ budget \in Budgets
    BY <2>1, <2>2
  <2>4. load' \in [Loaders -> PackLoads] /\ loads' = loads
    BY <1>4 DEF StorePack, PackLoads
  <2>5. \/ key \in ToSet(packed) /\ packed' = Used(packed, key) /\ packedBytes' = packedBytes
        \/ packed' = packed /\ packedBytes' = packedBytes
        \/ key \notin ToSet(packed) /\ Insert(key, budget)
    BY <1>4, <2>1 DEF StorePack
  <2>6. CASE key \in ToSet(packed) /\ packed' = Used(packed, key) /\ packedBytes' = packedBytes
    BY <2>4, <2>6, UseKeeps
  <2>7. CASE packed' = packed /\ packedBytes' = packedBytes
    BY <2>4, <2>7 DEF OverByOne
  <2>8. CASE key \notin ToSet(packed) /\ Insert(key, budget)
    BY <2>3, <2>4, <2>8, InsertKeeps
  <2> QED BY <2>5, <2>6, <2>7, <2>8
<1>5. CASE ClearPacks
  <2>1. packed' = <<>> /\ packedBytes' = 0 /\ loads' \in 0 .. MaxLoads /\ load' = load
    BY <1>1, <1>5 DEF ClearPacks
  <2>2. ToSet(packed') = {} /\ Once(packed') /\ packed' \in Seq(Packs)
    BY <2>1 DEF ToSet, Once
  <2>3. packedBytes' = BytesOf(ToSet(packed'))
    BY <2>1, <2>2, TotalOfNone DEF BytesOf
  <2> QED BY <2>1, <2>2, <2>3 DEF OverByOne
<1>6. CASE UNCHANGED pVars
  BY <1>6 DEF pVars, OverByOne
<1> QED BY <1>2, <1>3, <1>4, <1>5, <1>6 DEF PNext

LEMMA PackFollows == PackInv => PTypeOK /\ PackedCacheSound
<1> SUFFICES ASSUME PackInv PROVE PTypeOK /\ PackedCacheSound
  OBVIOUS
<1>1. PTypeOK
  BY PackedCounted DEF PackInv, PTypeOK, PackLoads, NoLoad
<1>2. ASSUME \A b \in Budgets : packedBytes > b
      PROVE  Cardinality(ToSet(packed) \ AlwaysKept) <= 1
  <2>1. PICK k, R : R = ToSet(packed) \ AlwaysKept /\ R \subseteq {k}
    BY <1>2 DEF PackInv, OverByOne
  <2>2. IsFiniteSet({k}) /\ Cardinality({k}) = 1 /\ R \in SUBSET {k}
    BY <2>1, FS_Singleton
  <2>3. Cardinality(R) <= Cardinality({k})
    BY <2>2, FS_Subset
  <2> QED BY <2>1, <2>2, <2>3
<1> QED BY <1>1, <1>2 DEF PackInv, PackedCacheSound

-----------------------------------------------------------------------------
(***************************************************************************)
(* The attention weights.                                                  *)
(***************************************************************************)
Waiting == {"idle", "next", "get", "touch", "look", "await"}
WorkStages == {"load", "store", "room", "evict", "read", "write", "put"}
WorkerStages == {"idle"} \cup WorkStages

ThreadRecords ==
  [pc : Waiting \cup WorkStages, key : Weights, victim : Weights, seen : Int,
   nth : Nat \ {0}, task : Nat, blocked : BOOLEAN]

Answers == {"pending", "done", "blocked", "raised"}
Tasks == [key : Weights, answer : Answers]
Places == 1 .. Len(tasks)

AttentionTypes ==
  /\ held \in Seq(Weights) /\ heldBytes \in Int
  /\ tasks \in Seq(Tasks) /\ begun \in 0 .. Len(tasks)
  /\ DOMAIN futures \subseteq Weights /\ \A k \in DOMAIN futures : futures[k] \in Places
  /\ thread \in [CacheThreads -> ThreadRecords]
  /\ \A t \in Workers : thread[t].pc \in WorkerStages
  /\ \A d \in Decoders : At(d, "await") => thread[d].task \in Places

\* A worker has a task of its own that it has still to answer, and a task that was
\* taken and has no answer has its worker.
TasksTaken ==
  /\ \A t \in Workers : Working(t) =>
        /\ thread[t].task \in 1 .. begun /\ tasks[thread[t].task].answer = "pending"
        /\ tasks[thread[t].task].key = thread[t].key
  /\ \A t, u \in Workers : Working(t) /\ Working(u) /\ thread[t].task = thread[u].task => t = u
  /\ \A i \in Places : i > begun => tasks[i].answer = "pending"
  /\ \A i \in 1 .. begun : tasks[i].answer = "pending" =>
        \E t \in Workers : Working(t) /\ thread[t].task = i
  /\ \A k \in DOMAIN futures : tasks[futures[k]].key = k

\* Decodes one after another: a task still to answer has the future of its key, what
\* has no good answer is not held, and a decoder loads only what has no future.
OneByOne ==
  /\ \A i \in Places : tasks[i].answer = "pending" =>
        tasks[i].key \in DOMAIN futures /\ futures[tasks[i].key] = i
  /\ \A k \in DOMAIN futures : tasks[futures[k]].answer \in {"pending", "blocked"} => ~In(k)
  /\ \A d \in Decoders :
        /\ Working(d) => thread[d].key \notin DOMAIN futures /\ ~In(thread[d].key)
        /\ At(d, "look") /\ In(thread[d].key) => thread[d].key \in DOMAIN futures
        /\ At(d, "await") => /\ thread[d].key \in DOMAIN futures
                             /\ futures[thread[d].key] = thread[d].task
  /\ \A d, e \in Decoders : d # e => At(d, "idle") \/ At(e, "idle")

\* What makes room is not larger than the cache.
Admitted ==
  \A t \in CacheThreads : thread[t].pc \in {"room", "evict", "read", "write", "put"} =>
                             WeightBytes[thread[t].key] <= WeightMax

\* The bytes that threads have still to subtract, and those that are to come.
Leavers(th) == {t \in CacheThreads : th[t].pc \in {"read", "write"}}
Comers(th) == {t \in CacheThreads : th[t].pc = "put"}
VictimBytes(th) == [t \in CacheThreads |-> WeightBytes[th[t].victim]]
KeyBytes(th) == [t \in CacheThreads |-> WeightBytes[th[t].key]]
Leaving(th) == TotalOf(Leavers(th), VictimBytes(th))
Coming(th) == TotalOf(Comers(th), KeyBytes(th))

Largest == CHOOSE b \in Nat : /\ \E k \in Weights : WeightBytes[k] = b
                              /\ \A k \in Weights : WeightBytes[k] <= b
Others == Cardinality(CacheThreads) - 1

\* The count n of the weights in a list, with l bytes to subtract and c to come.
CountedAs(n, order, l, c, exact) ==
  /\ n >= TotalOf(ToSet(order), WeightBytes) + l
  /\ TotalOf(ToSet(order), WeightBytes) + c <= WeightMax + Largest * Others
  /\ exact => n = TotalOf(ToSet(order), WeightBytes) + l

Exact == ~storedTwice /\ clearStep # "count"
Counted == CountedAs(heldBytes, held, Leaving(thread), Coming(thread), Exact)

AttentionInv ==
  /\ AttentionTypes /\ Admitted /\ TasksTaken
  /\ ~overlapped /\ ~clearedAmid => OneByOne /\ ~storedTwice
  /\ ~lostBytes => Counted

-----------------------------------------------------------------------------
LEMMA WeightFacts ==
  /\ IsFiniteSet(Weights) /\ IsFiniteSet(CacheThreads) /\ Others \in Nat
  /\ Cardinality(CacheThreads) \in Nat /\ Cardinality(CacheThreads) >= 1
  /\ \A t \in CacheThreads : t \in Decoders <=> t \notin Workers
  /\ Decoders \subseteq CacheThreads /\ Workers \subseteq CacheThreads
  /\ \A d \in Decoders : d \notin Workers
  /\ \A k \in Weights : WeightBytes[k] \in Nat /\ WeightBytes[k] >= 1
  /\ WeightMax \in Nat /\ Len(WeightOrder) \in Nat /\ Len(WeightOrder) >= 1
  /\ \A i \in 1 .. Len(WeightOrder) : WeightOrder[i] \in Weights
  /\ \A k \in Weights : Lists(WeightOrder, k)
<1>1. PICK d : d \in CacheThreads
  BY WeightAssumption DEF CacheThreads
<1>2. Cardinality(CacheThreads) \in Nat /\ Cardinality(CacheThreads) >= 1
  <2>1. Cardinality(CacheThreads) \in Nat
    BY WeightAssumption, FS_CardinalityType
  <2>2. Cardinality(CacheThreads) # 0
    BY <1>1, WeightAssumption, FS_EmptySet
  <2> QED BY <2>1, <2>2
<1>3. Len(WeightOrder) \in Nat /\ Len(WeightOrder) >= 1
  BY WeightAssumption, EmptySeq, LenProperties
<1>4. \A i \in 1 .. Len(WeightOrder) : WeightOrder[i] \in Weights
  BY WeightAssumption, ElementOfSeq
<1>5. IsFiniteSet(Weights) /\ \A k \in Weights : Lists(WeightOrder, k)
  BY WeightAssumption, ListedSet
<1>6. /\ \A t \in CacheThreads : t \in Decoders <=> t \notin Workers
      /\ Decoders \subseteq CacheThreads /\ Workers \subseteq CacheThreads
      /\ \A e \in Decoders : e \notin Workers
  BY WeightAssumption DEF CacheThreads
<1>7. Others \in Nat
  BY <1>2 DEF Others
<1>8. /\ \A k \in Weights : WeightBytes[k] \in Nat /\ WeightBytes[k] >= 1
      /\ WeightMax \in Nat /\ IsFiniteSet(CacheThreads)
  BY WeightAssumption
<1> QED BY <1>2, <1>3, <1>4, <1>5, <1>6, <1>7, <1>8

LEMMA AtRestFacts == AtRest \in ThreadRecords /\ AtRest.pc = "idle"
<1>1. WeightOrder[1] \in Weights
  BY WeightFacts
<1> QED BY <1>1 DEF AtRest, ThreadRecords, Waiting

\* A largest weight: there are finitely many.
LEMMA LargestFacts ==
  /\ Largest \in Nat /\ \E k \in Weights : WeightBytes[k] = Largest
  /\ \A k \in Weights : WeightBytes[k] <= Largest
<1> DEFINE above(k) == {o \in Weights : WeightBytes[o] > WeightBytes[k]}
           All == {above(k) : k \in Weights}
<1>1. IsWellFoundedOn(StrictSubsetOrdering(Weights), FiniteSubsetsOf(Weights))
  BY FS_StrictSubsetOrderingWellFounded
<1>2. FiniteSubsetsOf(Weights) = SUBSET Weights
  BY WeightFacts, FS_FiniteSubsetsOfFinite
<1>3. All \subseteq SUBSET Weights /\ All # {}
  <2>1. WeightOrder[1] \in Weights
    BY WeightFacts
  <2> QED BY <2>1
<1>4. PICK T \in All : \A U \in All : <<U, T>> \notin StrictSubsetOrdering(Weights)
  <2> HIDE DEF All
  <2> QED BY <1>1, <1>2, <1>3, WFMin
<1>5. PICK k \in Weights : T = above(k)
  BY <1>4
<1>6. ASSUME NEW o \in Weights PROVE WeightBytes[o] <= WeightBytes[k]
  <2>1. WeightBytes[o] \in Nat /\ WeightBytes[k] \in Nat
    BY WeightFacts
  <2>2. SUFFICES ASSUME WeightBytes[o] > WeightBytes[k] PROVE FALSE
    BY <2>1
  <2>3. above(o) \subseteq above(k) /\ o \in above(k) /\ o \notin above(o)
    BY <2>1, <2>2, WeightFacts
  <2>4. above(o) \in All /\ <<above(o), T>> \in StrictSubsetOrdering(Weights)
    BY <1>5, <2>3 DEF StrictSubsetOrdering
  <2> QED BY <1>4, <2>4
<1>7. WeightBytes[k] \in Nat
  BY WeightFacts
<1> QED BY <1>6, <1>7 DEF Largest

-----------------------------------------------------------------------------
(***************************************************************************)
(* Counting the bytes of threads.                                          *)
(***************************************************************************)
LEMMA ThreadSets ==
  ASSUME NEW th \in [CacheThreads -> ThreadRecords]
  PROVE  /\ IsFiniteSet(CacheThreads)
         /\ Leavers(th) \in SUBSET CacheThreads /\ Comers(th) \in SUBSET CacheThreads
         /\ IsFiniteSet(Leavers(th)) /\ IsFiniteSet(Comers(th))
         /\ \A u \in CacheThreads : /\ VictimBytes(th)[u] = WeightBytes[th[u].victim]
                                    /\ VictimBytes(th)[u] \in Nat
                                    /\ KeyBytes(th)[u] = WeightBytes[th[u].key]
                                    /\ KeyBytes(th)[u] \in Nat
         /\ Sizes(Leavers(th), VictimBytes(th)) /\ Sizes(Comers(th), KeyBytes(th))
         /\ Leaving(th) \in Nat /\ Coming(th) \in Nat
<1>1. IsFiniteSet(CacheThreads)
  BY WeightFacts
<1>2. Leavers(th) \in SUBSET CacheThreads /\ Comers(th) \in SUBSET CacheThreads
  BY DEF Leavers, Comers
<1>3. IsFiniteSet(Leavers(th)) /\ IsFiniteSet(Comers(th))
  BY <1>1, <1>2, FS_Subset
<1>4. \A u \in CacheThreads : /\ VictimBytes(th)[u] = WeightBytes[th[u].victim]
                              /\ VictimBytes(th)[u] \in Nat
                              /\ KeyBytes(th)[u] = WeightBytes[th[u].key]
                              /\ KeyBytes(th)[u] \in Nat
  BY WeightFacts DEF VictimBytes, KeyBytes, ThreadRecords
<1>5. Sizes(Leavers(th), VictimBytes(th)) /\ Sizes(Comers(th), KeyBytes(th))
  BY <1>2, <1>4 DEF Sizes
<1>6. Leaving(th) \in Nat /\ Coming(th) \in Nat
  BY <1>3, <1>5, TotalType DEF Leaving, Coming
<1> QED BY <1>1, <1>2, <1>3, <1>4, <1>5, <1>6

\* The total with and without one element.
LEMMA TotalApart ==
  ASSUME NEW S, IsFiniteSet(S), NEW size, Sizes(S, size), NEW x, NEW n,
         n = IF x \in S THEN size[x] ELSE 0
  PROVE  TotalOf(S, size) = TotalOf(S \ {x}, size) + n /\ TotalOf(S \ {x}, size) \in Nat /\ n \in Nat
<1>1. CASE x \in S
  <2>1. /\ TotalOf(S \ {x}, size) = TotalOf(S, size) - size[x]
        /\ TotalOf(S, size) \in Nat /\ TotalOf(S \ {x}, size) \in Nat
    BY <1>1, TotalWithout
  <2>2. size[x] \in Nat /\ n = size[x]
    BY <1>1 DEF Sizes
  <2> QED BY <2>1, <2>2
<1>2. CASE x \notin S
  <2>1. S \ {x} = S /\ n = 0
    BY <1>2
  <2>2. TotalOf(S, size) \in Nat
    BY TotalType
  <2> QED BY <2>1, <2>2
<1> QED BY <1>1, <1>2

OwnLeaving(r) == IF r.pc \in {"read", "write"} THEN WeightBytes[r.victim] ELSE 0
OwnComing(r) == IF r.pc = "put" THEN WeightBytes[r.key] ELSE 0

\* The totals without one thread.
LEMMA TotalsApart ==
  ASSUME NEW th \in [CacheThreads -> ThreadRecords], NEW t \in CacheThreads
  PROVE  /\ Leaving(th) = TotalOf(Leavers(th) \ {t}, VictimBytes(th)) + OwnLeaving(th[t])
         /\ Coming(th) = TotalOf(Comers(th) \ {t}, KeyBytes(th)) + OwnComing(th[t])
         /\ TotalOf(Leavers(th) \ {t}, VictimBytes(th)) \in Nat
         /\ TotalOf(Comers(th) \ {t}, KeyBytes(th)) \in Nat
         /\ OwnLeaving(th[t]) \in Nat /\ OwnComing(th[t]) \in Nat
<1>1. /\ IsFiniteSet(Leavers(th)) /\ IsFiniteSet(Comers(th))
      /\ Sizes(Leavers(th), VictimBytes(th)) /\ Sizes(Comers(th), KeyBytes(th))
  BY ThreadSets
<1>2. PICK L, C, v, k, m, n :
         /\ L = Leavers(th) /\ C = Comers(th) /\ v = VictimBytes(th) /\ k = KeyBytes(th)
         /\ m = OwnLeaving(th[t]) /\ n = OwnComing(th[t])
  OBVIOUS
<1>3. m = IF t \in L THEN v[t] ELSE 0
  BY <1>2 DEF OwnLeaving, Leavers, VictimBytes
<1>4. n = IF t \in C THEN k[t] ELSE 0
  BY <1>2 DEF OwnComing, Comers, KeyBytes
<1>5. TotalOf(L, v) = TotalOf(L \ {t}, v) + m /\ TotalOf(L \ {t}, v) \in Nat /\ m \in Nat
  BY <1>1, <1>2, <1>3, TotalApart
<1>6. TotalOf(C, k) = TotalOf(C \ {t}, k) + n /\ TotalOf(C \ {t}, k) \in Nat /\ n \in Nat
  BY <1>1, <1>2, <1>4, TotalApart
<1> QED BY <1>2, <1>5, <1>6 DEF Leaving, Coming

\* When one thread moves, the totals change by what is its own.
LEMMA CountMoves ==
  ASSUME NEW th \in [CacheThreads -> ThreadRecords], NEW t \in CacheThreads,
         NEW r \in ThreadRecords, NEW next, next = [th EXCEPT ![t] = r]
  PROVE  /\ Leaving(next) = Leaving(th) - OwnLeaving(th[t]) + OwnLeaving(r)
         /\ Coming(next) = Coming(th) - OwnComing(th[t]) + OwnComing(r)
         /\ Leaving(th) \in Nat /\ Coming(th) \in Nat
         /\ OwnLeaving(th[t]) \in Nat /\ OwnLeaving(r) \in Nat
         /\ OwnComing(th[t]) \in Nat /\ OwnComing(r) \in Nat
<1>1. /\ next \in [CacheThreads -> ThreadRecords] /\ next[t] = r
      /\ \A u \in CacheThreads \ {t} : next[u] = th[u]
  OBVIOUS
<1>2. /\ Leavers(next) \ {t} = Leavers(th) \ {t} /\ Comers(next) \ {t} = Comers(th) \ {t}
  BY <1>1 DEF Leavers, Comers
<1>3. /\ TotalOf(Leavers(th) \ {t}, VictimBytes(next)) = TotalOf(Leavers(th) \ {t}, VictimBytes(th))
      /\ TotalOf(Comers(th) \ {t}, KeyBytes(next)) = TotalOf(Comers(th) \ {t}, KeyBytes(th))
  <2>1. /\ \A u \in Leavers(th) \ {t} : VictimBytes(next)[u] = VictimBytes(th)[u]
        /\ \A u \in Comers(th) \ {t} : KeyBytes(next)[u] = KeyBytes(th)[u]
    BY <1>1 DEF Leavers, Comers, VictimBytes, KeyBytes
  <2> QED BY <2>1, TotalSame
<1>4. /\ Leaving(th) = TotalOf(Leavers(th) \ {t}, VictimBytes(th)) + OwnLeaving(th[t])
      /\ Coming(th) = TotalOf(Comers(th) \ {t}, KeyBytes(th)) + OwnComing(th[t])
      /\ TotalOf(Leavers(th) \ {t}, VictimBytes(th)) \in Nat
      /\ TotalOf(Comers(th) \ {t}, KeyBytes(th)) \in Nat
      /\ OwnLeaving(th[t]) \in Nat /\ OwnComing(th[t]) \in Nat
  BY TotalsApart
<1>5. /\ Leaving(next) = TotalOf(Leavers(next) \ {t}, VictimBytes(next)) + OwnLeaving(r)
      /\ Coming(next) = TotalOf(Comers(next) \ {t}, KeyBytes(next)) + OwnComing(r)
      /\ OwnLeaving(r) \in Nat /\ OwnComing(r) \in Nat
  BY <1>1, TotalsApart
<1>6. PICK a, b : /\ a = TotalOf(Leavers(th) \ {t}, VictimBytes(th))
                  /\ b = TotalOf(Comers(th) \ {t}, KeyBytes(th))
  OBVIOUS
<1>7. Leaving(next) = a + OwnLeaving(r) /\ Coming(next) = b + OwnComing(r)
  BY <1>2, <1>3, <1>5, <1>6
<1>8. /\ Leaving(th) = a + OwnLeaving(th[t]) /\ Coming(th) = b + OwnComing(th[t])
      /\ a \in Nat /\ b \in Nat
  BY <1>4, <1>6
<1> QED BY <1>4, <1>5, <1>7, <1>8

\* What all threads but one have to subtract or to add.
LEMMA OthersBound ==
  ASSUME NEW th \in [CacheThreads -> ThreadRecords], NEW t \in CacheThreads,
         th[t].pc \notin {"read", "write", "put"}
  PROVE  /\ Leaving(th) + Coming(th) <= Largest * Others
         /\ Leaving(th) \in Nat /\ Coming(th) \in Nat
         /\ Largest * Others \in Nat
<1>1. PICK L, C, O : L = Leavers(th) /\ C = Comers(th) /\ O = CacheThreads \ {t}
  OBVIOUS
<1>2. PICK size : size = [u \in CacheThreads |-> IF u \in L THEN VictimBytes(th)[u]
                                                           ELSE KeyBytes(th)[u]]
  OBVIOUS
<1>3. L \in SUBSET O /\ C \in SUBSET O /\ L \cap C = {} /\ O \subseteq CacheThreads
  BY <1>1 DEF Leavers, Comers
<1>4. /\ IsFiniteSet(CacheThreads) /\ IsFiniteSet(L) /\ IsFiniteSet(C)
      /\ Sizes(L, VictimBytes(th)) /\ Sizes(C, KeyBytes(th))
      /\ Leaving(th) \in Nat /\ Coming(th) \in Nat
  BY <1>1, ThreadSets
<1>5. /\ \A u \in L : size[u] = VictimBytes(th)[u]
      /\ \A u \in C : size[u] = KeyBytes(th)[u]
  BY <1>2, <1>3
<1>6. TotalOf(L, size) = Leaving(th) /\ TotalOf(C, size) = Coming(th)
  BY <1>1, <1>5, TotalSame DEF Leaving, Coming
<1>7. Sizes(L, size) /\ Sizes(C, size)
  BY <1>4, <1>5 DEF Sizes
<1>8. TotalOf(L \cup C, size) = TotalOf(L, size) + TotalOf(C, size)
  BY <1>3, <1>4, <1>7, TotalAdds
<1>9. IsFiniteSet(O) /\ Cardinality(O) = Others
  <2>1. /\ IsFiniteSet(CacheThreads \ {t})
        /\ Cardinality(CacheThreads \ {t}) = Cardinality(CacheThreads) - 1
    BY <1>4, FS_RemoveElement
  <2> QED BY <1>1, <2>1 DEF Others
<1>10. PICK U : U = L \cup C
  OBVIOUS
<1>11. /\ U \in SUBSET O /\ Sizes(U, size) /\ Largest \in Nat
       /\ \A u \in U : size[u] <= Largest
  <2>1. \A u \in CacheThreads : /\ VictimBytes(th)[u] <= Largest
                                /\ KeyBytes(th)[u] <= Largest
    BY LargestFacts DEF VictimBytes, KeyBytes, ThreadRecords
  <2>2. \A u \in U : size[u] <= Largest
    BY <1>3, <1>5, <1>10, <2>1
  <2> QED BY <1>3, <1>7, <1>10, <2>2, LargestFacts DEF Sizes
<1>12. TotalOf(U, size) <= Largest * Cardinality(O)
  BY <1>9, <1>11, TotalBound
<1>13. Largest * Others \in Nat
  BY <1>11, WeightFacts
<1> QED BY <1>4, <1>6, <1>8, <1>9, <1>10, <1>12, <1>13

-----------------------------------------------------------------------------
(***************************************************************************)
(* One thread moves.                                                       *)
(***************************************************************************)
Outcomes == {"done", "blocked", "raised"}

\* A thread that goes on with its weight.
LEMMA ToFacts ==
  ASSUME AttentionTypes, NEW t \in CacheThreads, NEW label \in Waiting \cup WorkStages, To(t, label)
  PROVE  \E r \in ThreadRecords :
            /\ thread' = [thread EXCEPT ![t] = r] /\ r.pc = label
            /\ r.key = thread[t].key /\ r.victim = thread[t].victim
            /\ r.task = thread[t].task
<1>1. thread[t] \in ThreadRecords /\ thread' = [thread EXCEPT ![t].pc = label]
  BY DEF AttentionTypes, To
<1>2. PICK r : r = [thread[t] EXCEPT !.pc = label]
  OBVIOUS
<1>3. /\ r \in ThreadRecords /\ r.pc = label /\ r.key = thread[t].key
      /\ r.victim = thread[t].victim /\ r.task = thread[t].task
  BY <1>1, <1>2 DEF ThreadRecords
<1>4. thread' = [thread EXCEPT ![t] = r]
  BY <1>1, <1>2
<1> QED BY <1>3, <1>4

\* The types after a thread has moved.
LEMMA MoveTypes ==
  ASSUME AttentionTypes, NEW t \in CacheThreads, NEW r \in ThreadRecords,
         thread' = [thread EXCEPT ![t] = r], t \in Workers => r.pc \in WorkerStages
  PROVE  /\ thread' \in [CacheThreads -> ThreadRecords]
         /\ \A u \in Workers : thread'[u].pc \in WorkerStages
         /\ thread'[t] = r /\ \A u \in CacheThreads \ {t} : thread'[u] = thread[u]
  BY WeightFacts DEF AttentionTypes

\* The answers of tasks may change, but no key, and none is added.
SameTasks ==
  /\ tasks' \in Seq(Tasks) /\ Len(tasks') = Len(tasks)
  /\ \A i \in Places : tasks'[i].key = tasks[i].key

LEMMA TasksStay == ASSUME AttentionTypes, tasks' = tasks PROVE SameTasks
  BY DEF SameTasks, AttentionTypes

LEMMA TypesStay ==
  ASSUME AttentionTypes, NEW t \in CacheThreads, NEW r \in ThreadRecords,
         thread' = [thread EXCEPT ![t] = r], t \in Workers => r.pc \in WorkerStages,
         t \in Decoders /\ r.pc = "await" => r.task \in Places,
         held' \in Seq(Weights), heldBytes' \in Int, SameTasks, begun' \in 0 .. Len(tasks),
         DOMAIN futures' \subseteq DOMAIN futures, \A k \in DOMAIN futures' : futures'[k] = futures[k]
  PROVE  AttentionTypes'
<1>1. /\ thread' \in [CacheThreads -> ThreadRecords]
      /\ \A u \in Workers : thread'[u].pc \in WorkerStages
      /\ thread'[t] = r /\ \A u \in CacheThreads \ {t} : thread'[u] = thread[u]
  BY MoveTypes
<1>2. \A d \in Decoders : At(d, "await")' => thread'[d].task \in Places
  BY <1>1, WeightFacts DEF At, AttentionTypes
<1>3. tasks' \in Seq(Tasks) /\ begun' \in 0 .. Len(tasks') /\ Places' = Places
  BY DEF SameTasks, Places
<1>4. DOMAIN futures' \subseteq Weights /\ \A k \in DOMAIN futures' : futures'[k] \in Places
  BY DEF AttentionTypes
<1> QED BY <1>1, <1>2, <1>3, <1>4 DEF AttentionTypes

LEMMA AdmittedKeeps ==
  ASSUME AttentionTypes, Admitted, NEW t \in CacheThreads, NEW r \in ThreadRecords,
         thread' = [thread EXCEPT ![t] = r],
         r.pc \in {"room", "evict", "read", "write", "put"} => WeightBytes[r.key] <= WeightMax
  PROVE  Admitted'
<1>1. /\ thread'[t] = r /\ \A u \in CacheThreads \ {t} : thread'[u] = thread[u]
  BY DEF AttentionTypes
<1> QED BY <1>1 DEF Admitted

\* A thread that is done with its weight: a worker answers its task.
Settled(t, r, outcome) ==
  /\ thread' = [thread EXCEPT ![t] = r] /\ r.pc \in {"idle", "next"}
  /\ t \in Workers => /\ r.pc = "idle"
                      /\ tasks' = [tasks EXCEPT ![thread[t].task].answer = outcome]
  /\ t \in Decoders => tasks' = tasks

LEMMA SettleFacts ==
  ASSUME AttentionTypes, NEW t \in CacheThreads, NEW outcome \in Outcomes, Settle(t, outcome)
  PROVE  \E r \in ThreadRecords : Settled(t, r, outcome)
<1>1. thread[t] \in ThreadRecords
  BY DEF AttentionTypes
<1>2. CASE t \in Decoders /\ outcome # "raised"
  <2>1. PICK r : r = [thread[t] EXCEPT !.pc = "next", !.nth = @ + 1,
                                       !.blocked = @ \/ outcome = "blocked"]
    OBVIOUS
  <2>2. r \in ThreadRecords /\ r.pc = "next"
    <3>1. PICK n, b : n = thread[t].nth + 1 /\ b = (thread[t].blocked \/ outcome = "blocked")
      OBVIOUS
    <3>2. n \in Nat \ {0} /\ thread[t].nth \in Nat \ {0}
      BY <1>1, <3>1 DEF ThreadRecords
    <3>3. b \in BOOLEAN
      BY <3>1
    <3>4. r = [thread[t] EXCEPT !.pc = "next", !.nth = n, !.blocked = b]
      BY <2>1, <3>1, Zenon
    <3> QED BY <1>1, <3>2, <3>3, <3>4 DEF ThreadRecords, Waiting
  <2>3. thread' = [thread EXCEPT ![t] = r] /\ tasks' = tasks
    BY <1>2, <2>1 DEF Settle
  <2>4. Settled(t, r, outcome)
    BY <1>2, <2>2, <2>3, WeightFacts DEF Settled
  <2> QED BY <2>2, <2>4
<1>3. CASE t \in Decoders /\ outcome = "raised"
  <2>1. thread' = [thread EXCEPT ![t] = AtRest] /\ tasks' = tasks
    BY <1>3 DEF Settle
  <2>2. Settled(t, AtRest, outcome)
    BY <1>3, <2>1, AtRestFacts, WeightFacts DEF Settled
  <2> QED BY <2>2, AtRestFacts
<1>4. CASE t \notin Decoders
  <2>1. /\ thread' = [thread EXCEPT ![t] = AtRest]
        /\ tasks' = [tasks EXCEPT ![thread[t].task].answer = outcome]
    BY <1>4 DEF Settle
  <2>2. Settled(t, AtRest, outcome)
    BY <1>4, <2>1, AtRestFacts DEF Settled
  <2> QED BY <2>2, AtRestFacts
<1> QED BY <1>2, <1>3, <1>4

\* What the tasks are after an answer.
LEMMA AnswerFacts ==
  ASSUME AttentionTypes, TasksTaken, NEW t \in CacheThreads, Working(t), NEW r,
         NEW outcome \in Outcomes, Settled(t, r, outcome)
  PROVE  /\ SameTasks
         /\ \A i \in Places : t \in Decoders \/ i # thread[t].task => tasks'[i] = tasks[i]
         /\ t \in Workers => /\ thread[t].task \in Places /\ thread[t].task <= begun
                             /\ tasks'[thread[t].task].answer = outcome
<1>1. CASE t \in Decoders
  <2>1. tasks' = tasks /\ t \notin Workers
    BY <1>1, WeightFacts DEF Settled
  <2> QED BY <1>1, <2>1, TasksStay
<1>2. CASE t \notin Decoders
  <2>1. t \in Workers
    BY <1>2, WeightFacts
  <2>2. PICK i, T : i = thread[t].task /\ T = tasks
    OBVIOUS
  <2>3. /\ i \in 1 .. begun /\ T \in Seq(Tasks) /\ begun \in 0 .. Len(T) /\ Len(T) \in Nat
    BY <2>1, <2>2, LenProperties DEF TasksTaken, AttentionTypes
  <2>4. i \in 1 .. Len(T)
    BY <2>3
  <2>5. PICK a : a = [T[i] EXCEPT !.answer = outcome]
    OBVIOUS
  <2>6. T[i] \in Tasks
    BY <2>3, <2>4, ElementOfSeq
  <2>7. a \in Tasks /\ a.answer = outcome /\ a.key = T[i].key
    BY <2>5, <2>6 DEF Tasks, Answers, Outcomes
  <2>8. PICK new : new = tasks'
    OBVIOUS
  <2>9. new = [T EXCEPT ![i] = a]
    BY <2>1, <2>2, <2>5, <2>8 DEF Settled
  <2>10. new \in Seq(Tasks) /\ Len(new) = Len(T)
    BY <2>3, <2>4, <2>7, <2>9
  <2>11. new[i] = a /\ \A j \in 1 .. Len(T) : j # i => new[j] = T[j]
    BY <2>3, <2>4, <2>9
  <2> QED BY <1>2, <2>2, <2>3, <2>4, <2>7, <2>8, <2>10, <2>11 DEF SameTasks, Places
<1> QED BY <1>1, <1>2

-----------------------------------------------------------------------------
(***************************************************************************)
(* The tasks, when a thread goes on or is done.                            *)
(***************************************************************************)
LEMMA GoesOnTasks ==
  ASSUME AttentionTypes, TasksTaken, NEW t \in CacheThreads, Working(t), NEW r \in ThreadRecords,
         thread' = [thread EXCEPT ![t] = r], r.pc \in WorkStages,
         r.key = thread[t].key, r.task = thread[t].task,
         tasks' = tasks, begun' = begun, futures' = futures
  PROVE  /\ TasksTaken'
         /\ OneByOne /\ (\A k : In(k)' => In(k)) => OneByOne'
<1>1. /\ thread'[t] = r /\ \A u \in CacheThreads \ {t} : thread'[u] = thread[u]
  BY DEF AttentionTypes
<1>2. /\ \A u \in CacheThreads : /\ thread'[u].key = thread[u].key
                                 /\ thread'[u].task = thread[u].task
                                 /\ Working(u)' <=> Working(u)
      /\ \A u \in CacheThreads : \A label \in {"idle", "look", "await"} :
            At(u, label)' <=> At(u, label)
  <2>1. Working(t)' /\ \A label \in {"idle", "look", "await"} : ~At(t, label)' /\ ~At(t, label)
    BY <1>1 DEF Working, WorkStages, At
  <2>2. \A u \in CacheThreads \ {t} : /\ Working(u)' <=> Working(u)
                                      /\ \A label : At(u, label)' <=> At(u, label)
    BY <1>1 DEF Working, At
  <2> QED BY <1>1, <2>1, <2>2
<1>3. Places' = Places
  BY DEF Places
<1>4. TasksTaken'
  BY <1>2, <1>3, WeightFacts DEF TasksTaken
<1>5. ASSUME OneByOne, \A k : In(k)' => In(k) PROVE OneByOne'
  <2>1. \A d \in Decoders :
           /\ Working(d)' => thread'[d].key \notin DOMAIN futures' /\ ~In(thread[d].key)'
           /\ At(d, "look")' /\ In(thread[d].key)' => thread'[d].key \in DOMAIN futures'
           /\ At(d, "await")' => /\ thread'[d].key \in DOMAIN futures'
                                 /\ futures'[thread'[d].key] = thread'[d].task
    BY <1>2, <1>5, WeightFacts DEF OneByOne
  <2>2. \A d, e \in Decoders : d # e => At(d, "idle")' \/ At(e, "idle")'
    BY <1>2, <1>5, WeightFacts DEF OneByOne
  <2>3. /\ \A i \in Places' : tasks'[i].answer = "pending" =>
               tasks'[i].key \in DOMAIN futures' /\ futures'[tasks'[i].key] = i
        /\ \A k \in DOMAIN futures' : tasks'[futures'[k]].answer \in {"pending", "blocked"} => ~In(k)'
    BY <1>3, <1>5 DEF OneByOne
  <2> QED BY <2>1, <2>2, <2>3 DEF OneByOne
<1> QED BY <1>4, <1>5

\* A worker that is done answers its task.  What a store has added is its weight.
LEMMA EndsTasks ==
  ASSUME AttentionTypes, TasksTaken, NEW t \in CacheThreads, Working(t), NEW r \in ThreadRecords,
         NEW outcome \in Outcomes, Settled(t, r, outcome), begun' = begun, futures' = futures
  PROVE  /\ TasksTaken'
         /\ (OneByOne /\ \A k : In(k)' => In(k) \/ (k = thread[t].key /\ outcome = "done")) => OneByOne'
<1>1. /\ thread' = [thread EXCEPT ![t] = r] /\ r.pc \in {"idle", "next"}
      /\ thread'[t] = r /\ \A u \in CacheThreads \ {t} : thread'[u] = thread[u]
  BY DEF Settled, AttentionTypes
<1>2. /\ SameTasks /\ Places' = Places /\ begun \in Nat /\ Len(tasks) \in Nat /\ begun <= Len(tasks)
      /\ \A i \in Places : t \in Decoders \/ i # thread[t].task => tasks'[i] = tasks[i]
      /\ t \in Workers => /\ thread[t].task \in Places /\ thread[t].task <= begun
                          /\ tasks'[thread[t].task].answer = outcome
  BY AnswerFacts, LenProperties DEF SameTasks, Places, AttentionTypes
<1>3. /\ ~Working(t)' /\ \A label \in {"look", "await"} : ~At(t, label)'
      /\ \A u \in CacheThreads \ {t} : /\ Working(u)' <=> Working(u)
                                       /\ \A label : At(u, label)' <=> At(u, label)
  BY <1>1 DEF Working, At
<1>4. \A i \in Places : tasks'[i].key = tasks[i].key
  BY <1>2 DEF SameTasks
<1>5. \A u \in Workers : u # t /\ Working(u) => /\ thread[u].task \in Places
                                                /\ t \in Decoders \/ thread[u].task # thread[t].task
                                                /\ tasks'[thread[u].task] = tasks[thread[u].task]
  <2>1. ASSUME NEW u \in Workers, u # t, Working(u)
        PROVE  /\ thread[u].task \in Places
               /\ t \in Decoders \/ thread[u].task # thread[t].task
    BY <1>2, <2>1, WeightFacts DEF TasksTaken, Places
  <2> QED BY <1>2, <2>1
<1>6. \A i \in Places : tasks'[i].answer = "pending" => tasks[i].answer = "pending" /\ tasks'[i] = tasks[i]
  BY <1>2, WeightFacts DEF Outcomes
<1>7. TasksTaken'
  <2>1. \A u \in Workers : Working(u)' =>
           /\ thread'[u].task \in 1 .. begun' /\ tasks'[thread'[u].task].answer = "pending"
           /\ tasks'[thread'[u].task].key = thread'[u].key
    BY <1>1, <1>3, <1>5, WeightFacts DEF TasksTaken
  <2>2. \A u, v \in Workers : Working(u)' /\ Working(v)' /\ thread'[u].task = thread'[v].task => u = v
    BY <1>1, <1>3, WeightFacts DEF TasksTaken
  <2>3. \A i \in Places' : i > begun' => tasks'[i].answer = "pending"
    BY <1>2, WeightFacts DEF TasksTaken, Places
  <2>4. \A k \in DOMAIN futures' : tasks'[futures'[k]].key = k
    BY <1>4 DEF TasksTaken, AttentionTypes
  <2>5. ASSUME NEW i \in 1 .. begun, tasks'[i].answer = "pending"
        PROVE  \E u \in Workers : Working(u)' /\ thread'[u].task = i
    <3>1. i \in Places
      BY <1>2 DEF Places
    <3>2. tasks[i].answer = "pending" /\ (t \in Workers => i # thread[t].task)
      BY <1>2, <1>6, <2>5, <3>1 DEF Outcomes
    <3>3. PICK u \in Workers : Working(u) /\ thread[u].task = i
      BY <3>2 DEF TasksTaken
    <3>4. u # t
      BY <3>2, <3>3
    <3> QED BY <1>1, <1>3, <3>3, <3>4, WeightFacts
  <2> QED BY <2>1, <2>2, <2>3, <2>4, <2>5 DEF TasksTaken
<1>8. ASSUME OneByOne, \A k : In(k)' => In(k) \/ (k = thread[t].key /\ outcome = "done")
      PROVE  OneByOne'
  <2>1. t \in Workers => /\ thread[t].key \in DOMAIN futures
                         /\ futures[thread[t].key] = thread[t].task
    BY <1>2, <1>8 DEF TasksTaken, OneByOne
  <2>2. t \in Decoders => thread[t].key \notin DOMAIN futures
    BY <1>8 DEF OneByOne
  <2>3. \A i \in Places' : tasks'[i].answer = "pending" =>
           tasks'[i].key \in DOMAIN futures' /\ futures'[tasks'[i].key] = i
    BY <1>2, <1>6, <1>8 DEF OneByOne
  <2>4. ASSUME NEW k \in DOMAIN futures, tasks'[futures[k]].answer \in {"pending", "blocked"}
        PROVE  ~In(k)'
    <3>1. futures[k] \in Places
      BY DEF AttentionTypes
    <3>2. CASE t \in Workers /\ futures[k] = thread[t].task
      <4>1. outcome # "done" /\ tasks[futures[k]].answer = "pending"
        BY <1>2, <2>4, <3>2 DEF TasksTaken
      <4> QED BY <1>8, <4>1 DEF OneByOne
    <3>3. CASE ~(t \in Workers /\ futures[k] = thread[t].task)
      <4>1. k # thread[t].key
        BY <2>1, <2>2, <3>3, WeightFacts
      <4>2. tasks'[futures[k]] = tasks[futures[k]]
        BY <1>2, <3>1, <3>3, WeightFacts
      <4> QED BY <1>8, <2>4, <4>1, <4>2 DEF OneByOne
    <3> QED BY <3>2, <3>3
  <2>5. ASSUME NEW d \in Decoders, d # t
        PROVE  /\ Working(d)' => thread'[d].key \notin DOMAIN futures' /\ ~In(thread[d].key)'
               /\ At(d, "look")' /\ In(thread[d].key)' => thread'[d].key \in DOMAIN futures'
               /\ At(d, "await")' => /\ thread'[d].key \in DOMAIN futures'
                                     /\ futures'[thread'[d].key] = thread'[d].task
    <3>1. /\ thread'[d] = thread[d] /\ (Working(d)' <=> Working(d))
          /\ \A label : At(d, label)' <=> At(d, label)
      BY <1>1, <1>3, <2>5, WeightFacts
    <3>2. t \in Workers \/ At(d, "idle")
      <4>1. ~At(t, "idle")
        BY DEF At, Working
      <4> QED BY <1>8, <2>5, <4>1, WeightFacts DEF OneByOne
    <3>3. CASE At(d, "idle")
      BY <3>1, <3>3 DEF At, Working
    <3>4. CASE t \in Workers
      <4>1. \A k : In(k)' => In(k) \/ k \in DOMAIN futures
        BY <1>8, <2>1, <3>4
      <4> QED BY <1>8, <3>1, <4>1 DEF OneByOne, In
    <3> QED BY <3>2, <3>3, <3>4
  <2>6. \A d, e \in Decoders : d # e => At(d, "idle")' \/ At(e, "idle")'
    <3>1. ~At(t, "idle")
      BY DEF At, Working
    <3> QED BY <1>3, <1>8, <3>1, WeightFacts DEF OneByOne
  <2>7. \A d \in Decoders :
           /\ Working(d)' => thread'[d].key \notin DOMAIN futures' /\ ~In(thread[d].key)'
           /\ At(d, "look")' /\ In(thread[d].key)' => thread'[d].key \in DOMAIN futures'
           /\ At(d, "await")' => /\ thread'[d].key \in DOMAIN futures'
                                 /\ futures'[thread'[d].key] = thread'[d].task
    BY <1>3, <2>5
  <2> QED BY <2>3, <2>4, <2>6, <2>7 DEF OneByOne
<1> QED BY <1>7, <1>8

\* A decoder that moves alone; what it forgets of the table has an answer.
LEMMA DecoderTasks ==
  ASSUME AttentionTypes, TasksTaken, NEW d \in Decoders, NEW r \in ThreadRecords,
         thread' = [thread EXCEPT ![d] = r], tasks' = tasks, begun' = begun,
         DOMAIN futures' \subseteq DOMAIN futures, \A k \in DOMAIN futures' : futures'[k] = futures[k]
  PROVE  TasksTaken'
<1>1. \A u \in Workers : thread'[u] = thread[u] /\ (Working(u)' <=> Working(u))
  BY WeightFacts DEF AttentionTypes, Working
<1>2. Places' = Places
  BY DEF Places
<1> QED BY <1>1, <1>2 DEF TasksTaken

LEMMA DecoderApart ==
  ASSUME AttentionTypes, OneByOne, NEW d \in Decoders, \A e \in Decoders \ {d} : At(e, "idle"),
         NEW r \in ThreadRecords, thread' = [thread EXCEPT ![d] = r], tasks' = tasks,
         DOMAIN futures' \subseteq DOMAIN futures, \A k \in DOMAIN futures' : futures'[k] = futures[k],
         \A i \in Places : tasks[i].answer = "pending" => tasks[i].key \in DOMAIN futures',
         \A k : In(k)' => In(k),
         r.pc \in WorkStages => r.key \notin DOMAIN futures' /\ ~In(r.key),
         r.pc = "look" /\ In(r.key) => r.key \in DOMAIN futures',
         r.pc = "await" => r.key \in DOMAIN futures' /\ futures'[r.key] = r.task
  PROVE  OneByOne'
<1>1. /\ thread'[d] = r /\ \A e \in Decoders \ {d} : thread'[e] = thread[e]
      /\ Working(d)' <=> r.pc \in WorkStages
      /\ At(d, "look")' <=> r.pc = "look"
      /\ At(d, "await")' <=> r.pc = "await"
      /\ \A e \in Decoders \ {d} : At(e, "idle")'
  BY WeightFacts DEF AttentionTypes, Working, WorkStages, At
<1>2. \A e \in Decoders \ {d} : ~Working(e)' /\ ~At(e, "look")' /\ ~At(e, "await")'
  BY <1>1 DEF At, Working
<1>3. Places' = Places
  BY DEF Places
<1>4. \A e \in Decoders :
         /\ Working(e)' => thread'[e].key \notin DOMAIN futures' /\ ~In(thread[e].key)'
         /\ At(e, "look")' /\ In(thread[e].key)' => thread'[e].key \in DOMAIN futures'
         /\ At(e, "await")' => /\ thread'[e].key \in DOMAIN futures'
                               /\ futures'[thread'[e].key] = thread'[e].task
  <2>1. /\ Working(d)' => thread'[d].key \notin DOMAIN futures' /\ ~In(thread[d].key)'
        /\ At(d, "look")' /\ In(thread[d].key)' => thread'[d].key \in DOMAIN futures'
        /\ At(d, "await")' => /\ thread'[d].key \in DOMAIN futures'
                              /\ futures'[thread'[d].key] = thread'[d].task
    BY <1>1 DEF In
  <2> QED BY <1>2, <2>1
<1>5. /\ \A i \in Places' : tasks'[i].answer = "pending" =>
             tasks'[i].key \in DOMAIN futures' /\ futures'[tasks'[i].key] = i
      /\ \A k \in DOMAIN futures' : tasks'[futures'[k]].answer \in {"pending", "blocked"} => ~In(k)'
  BY <1>3 DEF OneByOne
<1>6. \A e, f \in Decoders : e # f => At(e, "idle")' \/ At(f, "idle")'
  BY <1>1
<1> QED BY <1>4, <1>5, <1>6 DEF OneByOne

-----------------------------------------------------------------------------
(***************************************************************************)
(* The counts, when a thread moves.                                        *)
(***************************************************************************)
LEMMA CountsAfter ==
  ASSUME AttentionTypes, NEW t \in CacheThreads, NEW r \in ThreadRecords,
         thread' = [thread EXCEPT ![t] = r]
  PROVE  \E l, c, m, d \in Int :
            /\ l = Leaving(thread) /\ c = Coming(thread) /\ l >= 0 /\ c >= 0
            /\ m = l - OwnLeaving(thread[t]) + OwnLeaving(r)
            /\ d = c - OwnComing(thread[t]) + OwnComing(r)
            /\ Counted <=> CountedAs(heldBytes, held, l, c, Exact)
            /\ Counted' <=> CountedAs(heldBytes', held', m, d, Exact')
<1>1. PICK th, next : th = thread /\ next = thread'
  OBVIOUS
<1>2. /\ th \in [CacheThreads -> ThreadRecords] /\ next = [th EXCEPT ![t] = r]
  BY <1>1 DEF AttentionTypes
<1>3. /\ Leaving(next) = Leaving(th) - OwnLeaving(th[t]) + OwnLeaving(r)
      /\ Coming(next) = Coming(th) - OwnComing(th[t]) + OwnComing(r)
      /\ Leaving(th) \in Nat /\ Coming(th) \in Nat
      /\ OwnLeaving(th[t]) \in Nat /\ OwnComing(th[t]) \in Nat
      /\ OwnLeaving(r) \in Nat /\ OwnComing(r) \in Nat
  BY <1>2, CountMoves
<1>4. PICK l, c, m, d : /\ l = Leaving(th) /\ c = Coming(th)
                        /\ m = Leaving(next) /\ d = Coming(next)
  OBVIOUS
<1>5. /\ l \in Int /\ c \in Int /\ m \in Int /\ d \in Int /\ l >= 0 /\ c >= 0
      /\ m = l - OwnLeaving(th[t]) + OwnLeaving(r)
      /\ d = c - OwnComing(th[t]) + OwnComing(r)
  BY <1>3, <1>4
<1>6. Leaving(thread)' = m /\ Coming(thread)' = d
  BY <1>1, <1>4 DEF Leaving, Coming, Leavers, Comers, VictimBytes, KeyBytes
<1>7. Counted' <=> CountedAs(heldBytes', held', m, d, Exact')
  BY <1>6 DEF Counted, CountedAs
<1>8. Counted <=> CountedAs(heldBytes, held, l, c, Exact)
  BY <1>1, <1>4 DEF Counted, CountedAs
<1> QED BY <1>1, <1>4, <1>5, <1>7, <1>8

LEMMA CountKeeps ==
  ASSUME AttentionTypes, Counted, NEW t \in CacheThreads, NEW r \in ThreadRecords,
         thread' = [thread EXCEPT ![t] = r],
         OwnLeaving(r) = OwnLeaving(thread[t]), OwnComing(r) = OwnComing(thread[t]),
         heldBytes' = heldBytes, ToSet(held') = ToSet(held), Exact' => Exact
  PROVE  Counted'
<1>1. PICK l, c, m, d \in Int :
         /\ l = Leaving(thread) /\ c = Coming(thread) /\ l >= 0 /\ c >= 0
         /\ m = l - OwnLeaving(thread[t]) + OwnLeaving(r)
         /\ d = c - OwnComing(thread[t]) + OwnComing(r)
         /\ Counted <=> CountedAs(heldBytes, held, l, c, Exact)
         /\ Counted' <=> CountedAs(heldBytes', held', m, d, Exact')
  BY CountsAfter
<1>2. /\ OwnLeaving(thread[t]) \in Int /\ OwnComing(thread[t]) \in Int
  <2>1. thread \in [CacheThreads -> ThreadRecords]
    BY DEF AttentionTypes
  <2>2. OwnLeaving(thread[t]) \in Nat /\ OwnComing(thread[t]) \in Nat
    BY <2>1, TotalsApart
  <2> QED BY <2>2
<1>3. m = l /\ d = c
  BY <1>1, <1>2
<1>4. CountedAs(heldBytes, held, l, c, Exact)
  BY <1>1
<1>5. CountedAs(heldBytes', held', m, d, Exact')
  BY <1>3, <1>4 DEF CountedAs
<1> QED BY <1>1, <1>5

\* Outside of an eviction and a store, a thread has no bytes of its own.
LEMMA NothingOwn ==
  ASSUME NEW r, r.pc \notin {"read", "write", "put"}
  PROVE  OwnLeaving(r) = 0 /\ OwnComing(r) = 0
  BY DEF OwnLeaving, OwnComing

\* Nothing is held that was not, and nothing is counted.
SameHoldings ==
  /\ held' \in Seq(Weights) /\ ToSet(held') = ToSet(held) /\ \A k : In(k)' => In(k)
  /\ heldBytes' = heldBytes /\ lostBytes' = lostBytes /\ storedTwice' = storedTwice

LEMMA Unchanged ==
  ASSUME AttentionTypes, held' = held, wCounts' = wCounts
  PROVE  SameHoldings
  BY DEF SameHoldings, AttentionTypes, wCounts, In

\* A step of one thread that changes neither what is held nor the counts.
LEMMA QuietStep ==
  ASSUME AttentionInv, NEW t \in CacheThreads, NEW r \in ThreadRecords,
         thread' = [thread EXCEPT ![t] = r], SameHoldings,
         clearStep' = clearStep, clearedAmid' = clearedAmid, ~overlapped' => ~overlapped,
         AttentionTypes', TasksTaken',
         OneByOne /\ ~overlapped' => OneByOne',
         r.pc \in {"room", "evict", "read", "write", "put"} => WeightBytes[r.key] <= WeightMax,
         OwnLeaving(r) = OwnLeaving(thread[t]), OwnComing(r) = OwnComing(thread[t])
  PROVE  AttentionInv'
<1>1. AttentionTypes /\ Admitted
  BY DEF AttentionInv
<1>2. Admitted'
  BY <1>1, AdmittedKeeps
<1>3. ~overlapped' /\ ~clearedAmid' => OneByOne' /\ ~storedTwice'
  BY DEF AttentionInv, SameHoldings
<1>4. ASSUME ~lostBytes' PROVE Counted'
  <2>1. Counted
    BY <1>4 DEF AttentionInv, SameHoldings
  <2>2. Exact' => Exact
    BY DEF Exact, SameHoldings
  <2> QED BY <1>1, <2>1, <2>2, CountKeeps DEF SameHoldings
<1> QED BY <1>2, <1>3, <1>4 DEF AttentionInv

\* A decoder between loads; what it forgets of the table has an answer.
LEMMA DecoderStep ==
  ASSUME AttentionInv, NEW d \in Decoders, ~Working(d), NEW r \in ThreadRecords,
         thread' = [thread EXCEPT ![d] = r], SameHoldings, tasks' = tasks, begun' = begun,
         clearStep' = clearStep, clearedAmid' = clearedAmid, ~overlapped' => ~overlapped,
         DOMAIN futures' \subseteq DOMAIN futures, \A k \in DOMAIN futures' : futures'[k] = futures[k],
         r.pc \in Waiting \cup {"load"}, r.pc = "await" => r.task \in Places,
         OneByOne /\ ~overlapped' =>
            /\ \A e \in Decoders \ {d} : At(e, "idle")
            /\ \A i \in Places : tasks[i].answer = "pending" => tasks[i].key \in DOMAIN futures'
            /\ r.pc = "load" => r.key \notin DOMAIN futures' /\ ~In(r.key)
            /\ r.pc = "look" /\ In(r.key) => r.key \in DOMAIN futures'
            /\ r.pc = "await" => r.key \in DOMAIN futures' /\ futures'[r.key] = r.task
  PROVE  AttentionInv'
<1>1. /\ AttentionTypes /\ TasksTaken /\ d \in CacheThreads /\ d \notin Workers
  BY WeightFacts DEF AttentionInv
<1>2. /\ r.pc \notin {"room", "evict", "read", "write", "put"}
      /\ thread[d].pc \notin {"room", "evict", "read", "write", "put"}
      /\ r.pc \in WorkStages => r.pc = "load"
  BY DEF Working, Waiting, WorkStages
<1>3. /\ OwnLeaving(r) = OwnLeaving(thread[d]) /\ OwnComing(r) = OwnComing(thread[d])
  BY <1>2, NothingOwn
<1>4. AttentionTypes'
  <2>1. /\ held' \in Seq(Weights) /\ heldBytes' \in Int /\ SameTasks /\ begun' \in 0 .. Len(tasks)
    BY <1>1, TasksStay DEF SameHoldings, AttentionTypes
  <2> QED BY <1>1, <2>1, TypesStay
<1>5. TasksTaken'
  BY <1>1, DecoderTasks
<1>6. ASSUME OneByOne, ~overlapped' PROVE OneByOne'
  <2>1. \A k : In(k)' => In(k)
    BY DEF SameHoldings
  <2>2. /\ \A e \in Decoders \ {d} : At(e, "idle")
        /\ \A i \in Places : tasks[i].answer = "pending" => tasks[i].key \in DOMAIN futures'
    BY <1>6
  <2>3. r.pc \in WorkStages => r.key \notin DOMAIN futures' /\ ~In(r.key)
    BY <1>2, <1>6
  <2>4. r.pc = "look" /\ In(r.key) => r.key \in DOMAIN futures'
    BY <1>6
  <2>5. r.pc = "await" => r.key \in DOMAIN futures' /\ futures'[r.key] = r.task
    BY <1>6
  <2> QED BY <1>1, <1>6, <2>1, <2>2, <2>3, <2>4, <2>5, DecoderApart
<1> QED BY <1>1, <1>2, <1>3, <1>4, <1>5, <1>6, QuietStep

\* Decodes that do not overlap: while one is under way, the others rest.
LEMMA AloneFacts ==
  ASSUME OneByOne, NEW d \in Decoders, ~At(d, "idle")
  PROVE  \A e \in Decoders \ {d} : At(e, "idle")
  BY DEF OneByOne

LEMMA PendingFacts ==
  OneByOne => \A i \in Places : tasks[i].answer = "pending" => tasks[i].key \in DOMAIN futures
  BY DEF OneByOne

-----------------------------------------------------------------------------
(***************************************************************************)
(* A pass of a decoder.                                                    *)
(***************************************************************************)
LEMMA StartKeeps == ASSUME AttentionInv, NEW d \in Decoders, StartPass(d) PROVE AttentionInv'
<1>1. /\ AttentionTypes /\ d \in CacheThreads /\ "next" \in Waiting \cup WorkStages
  BY WeightFacts DEF AttentionInv, Waiting
<1>2. PICK r \in ThreadRecords : thread' = [thread EXCEPT ![d] = r] /\ r.pc = "next"
  BY <1>1, ToFacts DEF StartPass
<1>3. /\ held' = held /\ wCounts' = wCounts /\ futures' = futures /\ tasks' = tasks
      /\ begun' = begun /\ clearStep' = clearStep /\ clearedAmid' = clearedAmid
      /\ overlapped' = (overlapped \/ \E e \in Decoders \ {d} : ~At(e, "idle"))
      /\ ~Working(d)
  BY DEF StartPass, At, Working, wCounts
<1>4. SameHoldings
  BY <1>1, <1>3, Unchanged
<1>5. r.pc \in Waiting \cup {"load"} /\ r.pc \notin {"await", "look", "load"}
  BY <1>2 DEF Waiting
<1> QED BY <1>2, <1>3, <1>4, <1>5, PendingFacts, DecoderStep

LEMMA GetKeeps == ASSUME AttentionInv, NEW d \in Decoders, GetWeight(d) PROVE AttentionInv'
<1> DEFINE label == IF In(thread[d].key) THEN "touch" ELSE "look"
<1>1. /\ AttentionTypes /\ d \in CacheThreads /\ label \in Waiting \cup WorkStages /\ To(d, label)
  BY WeightFacts DEF AttentionInv, Waiting, GetWeight
<1> HIDE DEF label
<1>2. PICK r \in ThreadRecords : /\ thread' = [thread EXCEPT ![d] = r] /\ r.pc = label
                                 /\ r.key = thread[d].key
  BY <1>1, ToFacts
<1>3. /\ held' = held /\ wCounts' = wCounts /\ futures' = futures /\ tasks' = tasks
      /\ begun' = begun /\ clearStep' = clearStep /\ clearedAmid' = clearedAmid
      /\ overlapped' = overlapped /\ ~Working(d) /\ ~At(d, "idle")
  BY DEF GetWeight, At, Working, wCounts, wBooks
<1>4. SameHoldings
  BY <1>1, <1>3, Unchanged
<1>5. /\ r.pc \in Waiting \cup {"load"} /\ r.pc \notin {"await", "load"}
      /\ r.pc = "look" => ~In(r.key)
  BY <1>2 DEF Waiting, label
<1> QED BY <1>2, <1>3, <1>4, <1>5, PendingFacts, AloneFacts, DecoderStep

LEMMA LookKeeps == ASSUME AttentionInv, NEW d \in Decoders, LookForFuture(d) PROVE AttentionInv'
<1>1. AttentionTypes /\ d \in CacheThreads /\ thread[d] \in ThreadRecords
  BY WeightFacts DEF AttentionInv, AttentionTypes
<1>2. /\ held' = held /\ wCounts' = wCounts /\ futures' = futures /\ tasks' = tasks
      /\ begun' = begun /\ clearStep' = clearStep /\ clearedAmid' = clearedAmid
      /\ overlapped' = overlapped /\ ~Working(d) /\ ~At(d, "idle") /\ At(d, "look")
  BY DEF LookForFuture, At, Working, wCounts, wBooks
<1>3. SameHoldings
  BY <1>1, <1>2, Unchanged
<1>4. CASE thread[d].key \in DOMAIN futures
  <2>1. PICK n : n = futures[thread[d].key]
    OBVIOUS
  <2>2. n \in Places /\ n \in Nat
    BY <1>1, <1>4, <2>1 DEF AttentionTypes, Places
  <2>3. PICK r : r = [thread[d] EXCEPT !.pc = "await", !.task = n]
    OBVIOUS
  <2>4. r \in ThreadRecords /\ r.pc = "await" /\ r.task = n /\ r.key = thread[d].key
    BY <1>1, <2>2, <2>3 DEF ThreadRecords, Waiting
  <2>5. thread' = [thread EXCEPT ![d] = r]
    BY <1>1, <1>4, <2>1, <2>3 DEF LookForFuture, AttentionTypes
  <2>6. r.pc \in Waiting \cup {"load"} /\ r.pc \notin {"look", "load"}
    BY <2>4 DEF Waiting
  <2> QED BY <1>2, <1>3, <1>4, <2>1, <2>2, <2>4, <2>5, <2>6, PendingFacts, AloneFacts, DecoderStep
<1>5. CASE thread[d].key \notin DOMAIN futures
  <2>1. To(d, "load") /\ "load" \in Waiting \cup WorkStages
    BY <1>5 DEF LookForFuture, To, WorkStages
  <2>2. PICK r \in ThreadRecords : /\ thread' = [thread EXCEPT ![d] = r] /\ r.pc = "load"
                                   /\ r.key = thread[d].key
    BY <1>1, <2>1, ToFacts
  <2>3. OneByOne => ~In(r.key)
    BY <1>2, <1>5, <2>2 DEF OneByOne
  <2>4. r.pc \in Waiting \cup {"load"} /\ r.pc \notin {"await", "look"}
    BY <2>2
  <2> QED BY <1>2, <1>3, <1>5, <2>2, <2>3, <2>4, PendingFacts, AloneFacts, DecoderStep
<1> QED BY <1>4, <1>5

\* A use of a weight does not change what is held.
LEMMA TouchedList ==
  ASSUME AttentionTypes, NEW key, In(key), held' = PutLast(held, {key}, key)
  PROVE  /\ held' \in Seq(Weights) /\ ToSet(held') = ToSet(held) /\ \A k : In(k)' => In(k)
<1>1. PICK q, gone : q = held' /\ gone = {key}
  OBVIOUS
<1>2. key \in Weights /\ held \in Seq(Weights)
  <2>1. PICK i \in 1 .. Len(held) : held[i] = key
    BY DEF In, Lists
  <2>2. held \in Seq(Weights)
    BY DEF AttentionTypes
  <2>3. held[i] \in Weights
    BY <2>2, ElementOfSeq
  <2> QED BY <2>1, <2>2, <2>3
<1>3. q = PutLast(held, gone, key) /\ key \in gone
  BY <1>1
<1>4. q \in Seq(Weights) /\ \A y : Lists(q, y) <=> y = key \/ (y \notin gone /\ Lists(held, y))
  BY <1>2, <1>3, PutLastFacts
<1>5. \A x : Lists(q, x) <=> Lists(held, x)
  BY <1>1, <1>4 DEF In
<1>6. /\ \A x : x \in ToSet(q) <=> Lists(q, x)
      /\ \A x : x \in ToSet(held) <=> Lists(held, x)
  BY <1>2, <1>4, InList
<1>7. ToSet(q) = ToSet(held)
  BY <1>5, <1>6
<1> QED BY <1>1, <1>4, <1>5, <1>7 DEF In

LEMMA TouchKeeps == ASSUME AttentionInv, NEW d \in Decoders, TouchWeight(d) PROVE AttentionInv'
<1> DEFINE key == thread[d].key
<1>1. AttentionTypes /\ d \in CacheThreads
  BY WeightFacts DEF AttentionInv
<1>2. PICK outcome \in Outcomes : Settle(d, outcome)
  BY DEF TouchWeight, Outcomes
<1>3. PICK r \in ThreadRecords : Settled(d, r, outcome)
  BY <1>1, <1>2, SettleFacts
<1>4. thread' = [thread EXCEPT ![d] = r] /\ r.pc \in {"idle", "next"} /\ tasks' = tasks
  BY <1>3 DEF Settled
<1>5. /\ wCounts' = wCounts /\ futures' = futures
      /\ begun' = begun /\ clearStep' = clearStep /\ clearedAmid' = clearedAmid
      /\ overlapped' = overlapped /\ ~Working(d) /\ ~At(d, "idle")
  BY DEF TouchWeight, At, Working, wCounts, wBooks
<1>6. held' \in Seq(Weights) /\ ToSet(held') = ToSet(held) /\ \A k : In(k)' => In(k)
  <2>1. CASE In(key)
    <3>1. held' = PutLast(held, {key}, key)
      BY <2>1 DEF TouchWeight
    <3> HIDE DEF key
    <3> QED BY <1>1, <2>1, <3>1, TouchedList
  <2>2. CASE ~In(key)
    <3>1. held' = held
      BY <2>2 DEF TouchWeight
    <3> QED BY <1>1, <3>1 DEF AttentionTypes, In
  <2> QED BY <2>1, <2>2
<1>7. SameHoldings
  BY <1>5, <1>6 DEF SameHoldings, wCounts
<1>8. r.pc \in Waiting \cup {"load"} /\ r.pc \notin {"await", "load", "look"}
  BY <1>4 DEF Waiting
<1> HIDE DEF key
<1> QED BY <1>4, <1>5, <1>7, <1>8, PendingFacts, AloneFacts, DecoderStep

LEMMA AwaitKeeps == ASSUME AttentionInv, NEW d \in Decoders, AwaitFuture(d) PROVE AttentionInv'
<1>1. AttentionTypes /\ TasksTaken /\ d \in CacheThreads /\ thread[d] \in ThreadRecords
  BY WeightFacts DEF AttentionInv, AttentionTypes
<1>2. PICK key, answer : key = thread[d].key /\ answer = tasks[thread[d].task].answer
  OBVIOUS
<1>3. /\ held' = held /\ wCounts' = wCounts
      /\ begun' = begun /\ clearStep' = clearStep /\ clearedAmid' = clearedAmid
      /\ overlapped' = overlapped /\ ~Working(d) /\ ~At(d, "idle") /\ At(d, "await")
      /\ answer # "pending"
      /\ futures' = [k \in DOMAIN futures \ {key} |-> futures[k]]
  BY <1>2 DEF AwaitFuture, At, Working, wCounts, wBooks, Restrict
<1>4. SameHoldings
  BY <1>1, <1>3, Unchanged
<1>5. /\ DOMAIN futures' = DOMAIN futures \ {key}
      /\ \A k \in DOMAIN futures' : futures'[k] = futures[k]
  BY <1>3
<1>6. answer \in Answers
  <2>1. thread[d].task \in Places /\ tasks \in Seq(Tasks)
    BY <1>1, <1>3 DEF AttentionTypes
  <2>2. tasks[thread[d].task] \in Tasks
    BY <2>1, ElementOfSeq DEF Places
  <2> QED BY <1>2, <2>2 DEF Tasks
<1>7. PICK r \in ThreadRecords : /\ thread' = [thread EXCEPT ![d] = r] /\ tasks' = tasks
                                 /\ r.pc \in {"idle", "next", "load"}
                                 /\ r.pc = "load" => r.key = key /\ answer = "blocked"
  <2>1. CASE answer = "blocked"
    <3>1. To(d, "load") /\ tasks' = tasks /\ "load" \in Waiting \cup WorkStages
      BY <1>2, <2>1 DEF AwaitFuture, To, WorkStages
    <3>2. PICK r \in ThreadRecords : /\ thread' = [thread EXCEPT ![d] = r] /\ r.pc = "load"
                                     /\ r.key = key
      BY <1>1, <1>2, <3>1, ToFacts
    <3> QED BY <2>1, <3>1, <3>2
  <2>2. CASE answer # "blocked"
    <3>1. Settle(d, answer) /\ answer \in Outcomes
      BY <1>2, <1>3, <1>6, <2>2 DEF AwaitFuture, Answers, Outcomes
    <3>2. PICK r \in ThreadRecords : Settled(d, r, answer)
      BY <1>1, <3>1, SettleFacts
    <3> QED BY <3>2 DEF Settled
  <2> QED BY <2>1, <2>2
<1>8. r.pc \in Waiting \cup {"load"} /\ r.pc \notin {"await", "look"}
  BY <1>7 DEF Waiting
<1>9. ASSUME OneByOne
      PROVE  /\ \A i \in Places : tasks[i].answer = "pending" => tasks[i].key \in DOMAIN futures'
             /\ r.pc = "load" => r.key \notin DOMAIN futures' /\ ~In(r.key)
  <2>1. key \in DOMAIN futures /\ futures[key] = thread[d].task
    BY <1>2, <1>3, <1>9 DEF OneByOne
  <2>2. \A i \in Places : tasks[i].answer = "pending" =>
           tasks[i].key \in DOMAIN futures /\ futures[tasks[i].key] = i
    BY <1>9 DEF OneByOne
  <2>3. \A i \in Places : tasks[i].answer = "pending" => tasks[i].key # key
    BY <1>2, <1>3, <2>1, <2>2
  <2>4. answer = "blocked" => ~In(key)
    BY <1>2, <1>9, <2>1 DEF OneByOne
  <2> QED BY <1>5, <1>7, <2>2, <2>3, <2>4
<1>10. DOMAIN futures' \subseteq DOMAIN futures
  BY <1>5
<1> QED BY <1>3, <1>4, <1>5, <1>7, <1>8, <1>9, <1>10, AloneFacts, DecoderStep

\* A list and another one behind it.
LEMMA ConcatFacts ==
  ASSUME NEW S, NEW q \in Seq(S), NEW more \in Seq(S), NEW new, new = q \o more
  PROVE  /\ new \in Seq(S) /\ Len(new) = Len(q) + Len(more)
         /\ Len(q) \in Nat /\ Len(more) \in Nat
         /\ \A i \in 1 .. Len(new) : new[i] = IF i <= Len(q) THEN q[i] ELSE more[i - Len(q)]
  BY ConcatProperties, LenProperties

\* One task for each weight that is sent ahead.
LEMMA TaskFacts ==
  ASSUME NEW ahead \in SUBSET Weights, NEW more, more = TasksFor(ahead)
  PROVE  /\ more \in Seq(Tasks) /\ Len(more) \in Nat
         /\ \A i \in 1 .. Len(more) : more[i].key \in ahead /\ more[i].answer = "pending"
         /\ \A i, j \in 1 .. Len(more) : more[i].key = more[j].key => i = j
         /\ \A k \in ahead : \E i \in 1 .. Len(more) : more[i].key = k
<1>1. PICK rest, list, o : rest = Weights \ ahead /\ list = WithoutAll(WeightOrder, rest)
                           /\ o = WeightOrder
  OBVIOUS
<1>2. o \in Seq(Weights) /\ Once(o) /\ \A k \in Weights : Lists(o, k)
  BY <1>1, WeightAssumption, WeightFacts
<1>3. list = WithoutAll(o, rest)
  BY <1>1
<1>4. /\ list \in Seq(Weights) /\ Len(list) \in Nat /\ Once(list)
      /\ \A x : Lists(list, x) <=> x \notin rest /\ Lists(o, x)
  BY <1>2, <1>3, WithoutAllFacts
<1>5. more = [i \in 1 .. Len(list) |-> [key |-> list[i], answer |-> "pending"]]
  BY <1>1 DEF TasksFor
<1>6. \A i \in 1 .. Len(list) : list[i] \in Weights /\ list[i] \in ahead
  <2>1. \A i \in 1 .. Len(list) : list[i] \in Weights
    BY <1>4, ElementOfSeq
  <2>2. \A i \in 1 .. Len(list) : Lists(list, list[i])
    BY DEF Lists
  <2>3. \A i \in 1 .. Len(list) : list[i] \notin rest
    BY <1>4, <2>2
  <2> QED BY <1>1, <2>1, <2>3
<1>7. \A i \in 1 .. Len(list) : more[i].key = list[i] /\ more[i].answer = "pending" /\ more[i] \in Tasks
  BY <1>5, <1>6 DEF Tasks, Answers
<1>8. more \in Seq(Tasks) /\ Len(more) = Len(list)
  <2>1. DOMAIN more = 1 .. Len(list) /\ more = [i \in 1 .. Len(list) |-> more[i]]
    BY <1>5
  <2>2. more \in [1 .. Len(list) -> Tasks]
    BY <1>7, <2>1
  <2> QED BY <1>4, <2>2, IsASeq
<1>9. \A i, j \in 1 .. Len(list) : list[i] = list[j] => i = j
  BY <1>4 DEF Once
<1>10. \A k \in ahead : \E i \in 1 .. Len(list) : list[i] = k
  BY <1>1, <1>2, <1>4 DEF Lists
<1> QED BY <1>4, <1>6, <1>7, <1>8, <1>9, <1>10

\* What is sent ahead comes behind the tasks there are, and the table says where.
LEMMA AheadFacts ==
  ASSUME AttentionTypes, TasksTaken, NEW ahead \in SUBSET Weights, SendAhead(ahead)
  PROVE  /\ tasks' \in Seq(Tasks) /\ Len(tasks) \in Nat /\ Len(tasks') \in Nat
         /\ Len(tasks) <= Len(tasks')
         /\ \A i \in 1 .. Len(tasks) : tasks'[i] = tasks[i]
         /\ \A i \in Len(tasks) + 1 .. Len(tasks') :
               /\ tasks'[i].answer = "pending" /\ tasks'[i].key \in ahead
               /\ futures'[tasks'[i].key] = i
         /\ DOMAIN futures' = ahead \cup DOMAIN futures
         /\ \A k \in DOMAIN futures : k \notin ahead => futures'[k] = futures[k]
         /\ \A k \in ahead : futures'[k] \in Len(tasks) + 1 .. Len(tasks') /\ tasks'[futures'[k]].key = k
<1>1. PICK new, q, more, S : new = tasks' /\ q = tasks /\ more = TasksFor(ahead) /\ S = Tasks
  OBVIOUS
<1>2. /\ more \in Seq(S) /\ Len(more) \in Nat
      /\ \A i \in 1 .. Len(more) : more[i].key \in ahead /\ more[i].answer = "pending"
      /\ \A i, j \in 1 .. Len(more) : more[i].key = more[j].key => i = j
      /\ \A k \in ahead : \E i \in 1 .. Len(more) : more[i].key = k
  BY <1>1, TaskFacts
<1>3. q \in Seq(S) /\ new = q \o more
  BY <1>1 DEF AttentionTypes, SendAhead
<1>4. /\ new \in Seq(S) /\ Len(new) = Len(q) + Len(more) /\ Len(q) \in Nat
      /\ \A i \in 1 .. Len(new) : new[i] = IF i <= Len(q) THEN q[i] ELSE more[i - Len(q)]
  BY <1>2, <1>3, ConcatFacts
<1>5. PICK l, m \in Nat : l = Len(q) /\ m = Len(more)
  BY <1>2, <1>4
<1>6. /\ \A i \in 1 .. l : new[i] = q[i]
      /\ \A i \in l + 1 .. l + m : i - l \in 1 .. m /\ new[i] = more[i - l]
  BY <1>4, <1>5
<1>7. /\ DOMAIN futures' = ahead \cup DOMAIN futures
      /\ \A k \in DOMAIN futures : k \notin ahead => futures'[k] = futures[k]
      /\ \A k \in ahead :
            futures'[k] = CHOOSE i \in Len(tasks) + 1 .. Len(tasks') : tasks'[i].key = k
  BY DEF SendAhead
<1>8. \A k \in ahead : \E i \in l + 1 .. l + m : new[i].key = k
  <2>1. ASSUME NEW k \in ahead PROVE \E i \in l + 1 .. l + m : new[i].key = k
    <3>1. PICK j \in 1 .. m : more[j].key = k
      BY <1>2, <1>5
    <3>2. PICK i : i = l + j
      OBVIOUS
    <3>3. i \in l + 1 .. l + m /\ i - l = j
      BY <1>5, <3>1, <3>2
    <3> QED BY <1>6, <3>1, <3>3
  <2> QED BY <2>1
<1>9. \A i, j \in l + 1 .. l + m : new[i].key = new[j].key => i = j
  <2>1. SUFFICES ASSUME NEW i \in l + 1 .. l + m, NEW j \in l + 1 .. l + m, new[i].key = new[j].key
                 PROVE  i = j
    OBVIOUS
  <2>2. PICK a, b : a = i - l /\ b = j - l
    OBVIOUS
  <2>3. a \in 1 .. m /\ b \in 1 .. m /\ new[i] = more[a] /\ new[j] = more[b]
    BY <1>6, <2>2
  <2>4. a = b
    BY <1>2, <1>5, <2>1, <2>3
  <2> QED BY <1>5, <2>2, <2>4
<1>10. \A k \in ahead : futures'[k] \in l + 1 .. l + m /\ new[futures'[k]].key = k
  <2>1. SUFFICES ASSUME NEW k \in ahead
                 PROVE  futures'[k] \in l + 1 .. l + m /\ new[futures'[k]].key = k
    OBVIOUS
  <2>2. futures'[k] = CHOOSE i \in Len(tasks) + 1 .. Len(tasks') : tasks'[i].key = k
    BY <1>7
  <2>3. \E i \in Len(tasks) + 1 .. Len(tasks') : tasks'[i].key = k
    BY <1>1, <1>4, <1>5, <1>8
  <2>4. futures'[k] \in Len(tasks) + 1 .. Len(tasks') /\ tasks'[futures'[k]].key = k
    BY <2>2, <2>3
  <2> QED BY <1>1, <1>4, <1>5, <2>4
<1>11. \A i \in l + 1 .. l + m : /\ new[i].answer = "pending" /\ new[i].key \in ahead
                                 /\ futures'[new[i].key] = i
  <2>1. \A i \in l + 1 .. l + m : new[i].answer = "pending" /\ new[i].key \in ahead
    BY <1>2, <1>5, <1>6
  <2> QED BY <1>9, <1>10, <2>1
<1>12. /\ DOMAIN futures' = ahead \cup DOMAIN futures
       /\ \A k \in DOMAIN futures : k \notin ahead => futures'[k] = futures[k]
  BY <1>7
<1>13. Len(tasks) = l /\ Len(tasks') = l + m /\ Len(tasks') \in Nat /\ l <= l + m
  BY <1>1, <1>4, <1>5
<1> QED BY <1>1, <1>4, <1>6, <1>10, <1>11, <1>12, <1>13

LEMMA NextKeeps == ASSUME AttentionInv, NEW d \in Decoders, NextWeight(d) PROVE AttentionInv'
<1>1. /\ AttentionTypes /\ TasksTaken /\ d \in CacheThreads /\ thread[d] \in ThreadRecords
      /\ d \notin Workers
  BY WeightFacts DEF AttentionInv, AttentionTypes
<1>2. PICK n : n = thread[d].nth
  OBVIOUS
<1>3. /\ held' = held /\ wCounts' = wCounts
      /\ begun' = begun /\ clearStep' = clearStep /\ clearedAmid' = clearedAmid
      /\ overlapped' = overlapped /\ ~Working(d) /\ ~At(d, "idle") /\ thread[d].pc = "next"
  BY DEF NextWeight, At, Working, wCounts, wBooks
<1>4. SameHoldings
  BY <1>1, <1>3, Unchanged
<1>5. CASE n > Len(WeightOrder) \/ (NewLayer(n) /\ thread[d].blocked)
  <2>1. thread' = [thread EXCEPT ![d] = AtRest] /\ futures' = futures /\ tasks' = tasks
    BY <1>2, <1>5 DEF NextWeight
  <2>2. PICK r \in ThreadRecords : r = AtRest /\ r.pc = "idle"
    BY AtRestFacts
  <2>3. r.pc \in Waiting \cup {"load"} /\ r.pc \notin {"await", "load", "look"}
    BY <2>2 DEF Waiting
  <2>4. thread' = [thread EXCEPT ![d] = r]
    BY <2>1, <2>2
  <2> QED BY <1>3, <1>4, <2>1, <2>3, <2>4, PendingFacts, AloneFacts, DecoderStep
<1>6. CASE ~(n > Len(WeightOrder) \/ (NewLayer(n) /\ thread[d].blocked))
  <2>1. PICK ahead : ahead = WantedAhead(n)
    OBVIOUS
  <2>2. /\ thread' = [thread EXCEPT ![d].pc = "get", ![d].key = WeightOrder[n]]
        /\ SendAhead(ahead)
    BY <1>2, <1>6, <2>1 DEF NextWeight
  <2>3. ahead \in SUBSET Weights /\ \A k \in ahead : ~In(k) /\ k \notin DOMAIN futures
    BY <2>1 DEF WantedAhead
  <2>4. PICK r : r = [thread[d] EXCEPT !.pc = "get", !.key = WeightOrder[n]]
    OBVIOUS
  <2>5. r \in ThreadRecords /\ r.pc = "get"
    <3>1. n \in Nat /\ n >= 1 /\ ~(n > Len(WeightOrder))
      BY <1>1, <1>2, <1>6 DEF ThreadRecords
    <3>2. WeightOrder[n] \in Weights
      BY <3>1, WeightFacts
    <3> QED BY <1>1, <2>4, <3>2 DEF ThreadRecords, Waiting
  <2>6. thread' = [thread EXCEPT ![d] = r]
    BY <1>1, <2>2, <2>4 DEF AttentionTypes
  <2>7. /\ tasks' \in Seq(Tasks) /\ Len(tasks) \in Nat /\ Len(tasks') \in Nat
        /\ Len(tasks) <= Len(tasks')
        /\ \A i \in 1 .. Len(tasks) : tasks'[i] = tasks[i]
        /\ \A i \in Len(tasks) + 1 .. Len(tasks') :
              /\ tasks'[i].answer = "pending" /\ tasks'[i].key \in ahead
              /\ futures'[tasks'[i].key] = i
        /\ DOMAIN futures' = ahead \cup DOMAIN futures
        /\ \A k \in DOMAIN futures : k \notin ahead => futures'[k] = futures[k]
        /\ \A k \in ahead : futures'[k] \in Len(tasks) + 1 .. Len(tasks') /\ tasks'[futures'[k]].key = k
    BY <1>1, <2>2, <2>3, AheadFacts
  <2>8. \A k \in DOMAIN futures : futures'[k] = futures[k] /\ futures[k] \in 1 .. Len(tasks)
    BY <1>1, <2>3, <2>7 DEF AttentionTypes, Places
  <2>9. /\ thread' \in [CacheThreads -> ThreadRecords]
        /\ \A u \in Workers : thread'[u].pc \in WorkerStages
        /\ thread'[d] = r /\ \A u \in CacheThreads \ {d} : thread'[u] = thread[u]
    BY <1>1, <2>5, <2>6, MoveTypes
  <2>10. \A u \in CacheThreads \ {d} : /\ Working(u)' <=> Working(u)
                                       /\ \A label : At(u, label)' <=> At(u, label)
    BY <2>9 DEF Working, At
  <2>11. ~Working(d)' /\ \A label \in {"look", "await", "idle"} : ~At(d, label)'
    BY <2>5, <2>9 DEF Working, At
  <2>12. AttentionTypes'
    <3>1. begun' \in 0 .. Len(tasks')
      BY <1>1, <1>3, <2>7 DEF AttentionTypes
    <3>2. DOMAIN futures' \subseteq Weights /\ \A k \in DOMAIN futures' : futures'[k] \in 1 .. Len(tasks')
      <4>1. DOMAIN futures' \subseteq Weights
        BY <1>1, <2>3, <2>7 DEF AttentionTypes
      <4>2. \A i : i \in 1 .. Len(tasks) \/ i \in Len(tasks) + 1 .. Len(tasks') => i \in 1 .. Len(tasks')
        BY <2>7
      <4> QED BY <2>7, <2>8, <4>1, <4>2
    <3>3. \A e \in Decoders : At(e, "await")' => thread'[e].task \in 1 .. Len(tasks')
      <4>1. ASSUME NEW e \in Decoders, At(e, "await")' PROVE thread'[e].task \in 1 .. Len(tasks)
        <5>1. e # d
          BY <2>11, <4>1
        <5>2. thread'[e] = thread[e] /\ At(e, "await")
          BY <2>9, <2>10, <4>1, <5>1, WeightFacts
        <5> QED BY <1>1, <5>2 DEF AttentionTypes, Places
      <4>2. \A i \in 1 .. Len(tasks) : i \in 1 .. Len(tasks')
        BY <2>7
      <4> QED BY <4>1, <4>2
    <3>4. held' \in Seq(Weights) /\ heldBytes' \in Int
      BY <1>1, <1>4 DEF SameHoldings, AttentionTypes
    <3> QED BY <2>7, <2>9, <3>1, <3>2, <3>3, <3>4 DEF AttentionTypes, Places
  <2>13. TasksTaken'
    <3>1. begun \in Nat /\ begun <= Len(tasks)
      BY <1>1, <2>7 DEF AttentionTypes
    <3>2. \A u \in Workers : thread'[u] = thread[u] /\ (Working(u)' <=> Working(u))
      BY <1>1, <2>9, <2>10, WeightFacts
    <3>3. \A u \in Workers : Working(u)' =>
             /\ thread'[u].task \in 1 .. begun' /\ tasks'[thread'[u].task].answer = "pending"
             /\ tasks'[thread'[u].task].key = thread'[u].key
      <4>1. \A i \in 1 .. begun : tasks'[i] = tasks[i]
        BY <2>7, <3>1
      <4> QED BY <1>1, <1>3, <3>2, <4>1 DEF TasksTaken
    <3>4. \A u, v \in Workers : Working(u)' /\ Working(v)' /\ thread'[u].task = thread'[v].task => u = v
      BY <1>1, <3>2 DEF TasksTaken
    <3>5. \A i \in Places' : i > begun' => tasks'[i].answer = "pending"
      <4>1. ASSUME NEW i \in 1 .. Len(tasks'), i > begun PROVE tasks'[i].answer = "pending"
        <5>1. CASE i <= Len(tasks)
          <6>1. i \in 1 .. Len(tasks)
            BY <2>7, <5>1
          <6> QED BY <1>1, <2>7, <4>1, <6>1 DEF TasksTaken, Places
        <5>2. CASE ~(i <= Len(tasks))
          <6>1. i \in Len(tasks) + 1 .. Len(tasks')
            BY <2>7, <5>2
          <6> QED BY <2>7, <6>1
        <5> QED BY <5>1, <5>2
      <4> QED BY <1>3, <4>1 DEF Places
    <3>6. \A i \in 1 .. begun' : tasks'[i].answer = "pending" =>
             \E u \in Workers : Working(u)' /\ thread'[u].task = i
      <4>1. \A i \in 1 .. begun : tasks'[i] = tasks[i]
        BY <2>7, <3>1
      <4> QED BY <1>1, <1>3, <3>2, <4>1 DEF TasksTaken
    <3>7. \A k \in DOMAIN futures' : tasks'[futures'[k]].key = k
      BY <1>1, <2>7, <2>8 DEF TasksTaken
    <3> QED BY <3>3, <3>4, <3>5, <3>6, <3>7 DEF TasksTaken
  <2>14. ASSUME OneByOne PROVE OneByOne'
    <3>1. \A e \in Decoders \ {d} : At(e, "idle")
      BY <1>3, <2>14, AloneFacts
    <3>2. \A e \in Decoders \ {d} : At(e, "idle")' /\ ~Working(e)' /\ ~At(e, "look")' /\ ~At(e, "await")'
      <4>1. \A e \in Decoders \ {d} : At(e, "idle")'
        BY <2>10, <3>1, WeightFacts
      <4> QED BY <4>1 DEF At, Working
    <3>3. \A i \in Places' : tasks'[i].answer = "pending" =>
             tasks'[i].key \in DOMAIN futures' /\ futures'[tasks'[i].key] = i
      <4>1. ASSUME NEW i \in 1 .. Len(tasks'), tasks'[i].answer = "pending"
            PROVE  tasks'[i].key \in DOMAIN futures' /\ futures'[tasks'[i].key] = i
        <5>1. CASE i <= Len(tasks)
          <6>1. i \in 1 .. Len(tasks)
            BY <2>7, <5>1
          <6>2. tasks'[i] = tasks[i] /\ tasks[i].key \in DOMAIN futures /\ futures[tasks[i].key] = i
            BY <2>7, <2>14, <4>1, <6>1 DEF OneByOne, Places
          <6> QED BY <2>7, <2>8, <6>2
        <5>2. CASE ~(i <= Len(tasks))
          <6>1. i \in Len(tasks) + 1 .. Len(tasks')
            BY <2>7, <5>2
          <6> QED BY <2>7, <6>1
        <5> QED BY <5>1, <5>2
      <4> QED BY <4>1 DEF Places
    <3>4. \A k \in DOMAIN futures' : tasks'[futures'[k]].answer \in {"pending", "blocked"} => ~In(k)'
      <4>1. \A k : In(k)' => In(k)
        BY <1>4 DEF SameHoldings
      <4>2. \A k \in DOMAIN futures : tasks'[futures'[k]] = tasks[futures[k]]
        BY <2>7, <2>8
      <4> QED BY <2>3, <2>7, <2>14, <4>1, <4>2 DEF OneByOne
    <3>5. \A e \in Decoders :
             /\ Working(e)' => thread'[e].key \notin DOMAIN futures' /\ ~In(thread[e].key)'
             /\ At(e, "look")' /\ In(thread[e].key)' => thread'[e].key \in DOMAIN futures'
             /\ At(e, "await")' => /\ thread'[e].key \in DOMAIN futures'
                                   /\ futures'[thread'[e].key] = thread'[e].task
      BY <2>11, <3>2
    <3>6. \A e, f \in Decoders : e # f => At(e, "idle")' \/ At(f, "idle")'
      BY <3>2
    <3> QED BY <3>3, <3>4, <3>5, <3>6 DEF OneByOne
  <2>15. /\ r.pc \notin {"room", "evict", "read", "write", "put"}
         /\ OwnLeaving(r) = OwnLeaving(thread[d]) /\ OwnComing(r) = OwnComing(thread[d])
    BY <1>3, <2>5, NothingOwn
  <2> QED BY <1>1, <1>3, <1>4, <2>5, <2>6, <2>12, <2>13, <2>14, <2>15, QuietStep
<1> QED BY <1>5, <1>6

LEMMA HeldSizes ==
  ASSUME AttentionTypes
  PROVE  /\ ToSet(held) \in SUBSET Weights /\ IsFiniteSet(ToSet(held))
         /\ \A x : x \in ToSet(held) <=> In(x)
         /\ Sizes(ToSet(held), WeightBytes) /\ TotalOf(ToSet(held), WeightBytes) \in Nat
<1>1. /\ ToSet(held) \in SUBSET Weights /\ IsFiniteSet(ToSet(held))
      /\ \A x : x \in ToSet(held) <=> Lists(held, x)
  BY ListedSet DEF AttentionTypes
<1>2. Sizes(ToSet(held), WeightBytes)
  BY <1>1, WeightFacts DEF Sizes
<1>3. TotalOf(ToSet(held), WeightBytes) \in Nat
  BY <1>1, <1>2, TotalType
<1> QED BY <1>1, <1>2, <1>3 DEF In

-----------------------------------------------------------------------------
(***************************************************************************)
(* A clear, in its three steps.                                            *)
(***************************************************************************)
\* What stays when no thread moves.
LEMMA NobodyMoves ==
  ASSUME thread' = thread
  PROVE  /\ \A t : (Working(t)' <=> Working(t)) /\ \A label : At(t, label)' <=> At(t, label)
         /\ Leaving(thread)' = Leaving(thread) /\ Coming(thread)' = Coming(thread)
  BY DEF Working, At, Leaving, Coming, Leavers, Comers, VictimBytes, KeyBytes

LEMMA ClearHeldKeeps == ASSUME AttentionInv, ClearWeights PROVE AttentionInv'
<1>1. /\ held' = <<>> /\ heldBytes' = heldBytes /\ lostBytes' = lostBytes
      /\ storedTwice' = storedTwice /\ tasks' = tasks /\ begun' = begun /\ futures' = futures
      /\ thread' = thread /\ clearStep' = "count" /\ overlapped' = overlapped
      /\ clearedAmid' = clearedAmid /\ Places' = Places
  BY DEF ClearWeights, wCounts, Places
<1>2. /\ AttentionTypes /\ Admitted /\ TasksTaken
  BY DEF AttentionInv
<1>3. /\ \A t : (Working(t)' <=> Working(t)) /\ \A label : At(t, label)' <=> At(t, label)
      /\ Leaving(thread)' = Leaving(thread) /\ Coming(thread)' = Coming(thread)
  BY <1>1, NobodyMoves
<1>4. \A k : ~In(k)'
  BY <1>1 DEF In, Lists
<1>5. AttentionTypes'
  <2>1. held' \in Seq(Weights)
    BY <1>1
  <2> QED BY <1>1, <1>2, <1>3, <2>1 DEF AttentionTypes
<1>6. Admitted'
  BY <1>1, <1>2 DEF Admitted
<1>7. TasksTaken'
  BY <1>1, <1>2, <1>3 DEF TasksTaken
<1>8. ASSUME OneByOne PROVE OneByOne'
  BY <1>1, <1>3, <1>4, <1>8 DEF OneByOne
<1>9. ASSUME Counted PROVE Counted'
  <2>1. PICK l, c, T : /\ l = Leaving(thread) /\ c = Coming(thread)
                       /\ T = TotalOf(ToSet(held), WeightBytes)
    OBVIOUS
  <2>2. l \in Nat /\ c \in Nat /\ T \in Nat /\ heldBytes \in Int
    BY <1>2, <2>1, ThreadSets, HeldSizes DEF AttentionTypes
  <2>3. heldBytes >= T + l /\ T + c <= WeightMax + Largest * Others
    BY <1>9, <2>1 DEF Counted, CountedAs
  <2>4. PICK w \in Nat : w = WeightMax + Largest * Others
    BY WeightFacts, LargestFacts
  <2>5. ToSet(held') = {}
    BY <1>1 DEF ToSet
  <2>6. TotalOf(ToSet(held'), WeightBytes) = 0
    BY <2>5, TotalOfNone
  <2>7. heldBytes >= 0 + l /\ 0 + c <= WeightMax + Largest * Others
    BY <2>2, <2>3, <2>4
  <2>8. CountedAs(heldBytes', held', l, c, Exact')
    <3>1. ~Exact'
      BY <1>1 DEF Exact
    <3> QED BY <1>1, <2>6, <2>7, <3>1 DEF CountedAs
  <2> QED BY <1>3, <2>1, <2>8 DEF Counted
<1> QED BY <1>1, <1>5, <1>6, <1>7, <1>8, <1>9 DEF AttentionInv

\* The count is set to nothing: nothing was stored since and nothing is to subtract.
LEMMA ClearCountKeeps == ASSUME AttentionInv, ClearCount PROVE AttentionInv'
<1>9. lostBytes' = (lostBytes \/ held # <<>> \/ Subtracting # {})
  BY DEF ClearCount
<1>1. /\ held' = held /\ heldBytes' = 0 /\ (~lostBytes' => ~lostBytes)
      /\ storedTwice' = storedTwice /\ tasks' = tasks /\ begun' = begun /\ futures' = futures
      /\ thread' = thread /\ overlapped' = overlapped
      /\ clearedAmid' = clearedAmid /\ Places' = Places
  BY DEF ClearCount, wCounts, Places
<1>2. /\ AttentionTypes /\ Admitted /\ TasksTaken
  BY DEF AttentionInv
<1>3. /\ \A t : (Working(t)' <=> Working(t)) /\ \A label : At(t, label)' <=> At(t, label)
      /\ Leaving(thread)' = Leaving(thread) /\ Coming(thread)' = Coming(thread)
      /\ \A k : In(k)' <=> In(k)
  BY <1>1, NobodyMoves DEF In
<1>4. AttentionTypes'
  <2>1. heldBytes' \in Int
    BY <1>1
  <2>2. \A d \in Decoders : At(d, "await")' => thread'[d].task \in Places'
    BY <1>1, <1>2, <1>3 DEF AttentionTypes
  <2> QED BY <1>1, <1>2, <2>1, <2>2 DEF AttentionTypes
<1>5. Admitted'
  BY <1>1, <1>2 DEF Admitted
<1>6. TasksTaken'
  BY <1>1, <1>2, <1>3 DEF TasksTaken
<1>7. ASSUME OneByOne PROVE OneByOne'
  BY <1>1, <1>3, <1>7 DEF OneByOne
<1>8. ASSUME ~lostBytes' PROVE Counted'
  <2>1. Counted /\ held = <<>> /\ Leavers(thread) = {}
    BY <1>1, <1>8, <1>9 DEF AttentionInv, Subtracting, Leavers
  <2>2. PICK c : c = Coming(thread)
    OBVIOUS
  <2>3. Leaving(thread) = 0
    BY <2>1, TotalOfNone DEF Leaving
  <2>4. ToSet(held) = {} /\ TotalOf(ToSet(held), WeightBytes) = 0
    <3>1. ToSet(held) = {}
      BY <2>1 DEF ToSet
    <3> QED BY <3>1, TotalOfNone
  <2>5. 0 + c <= WeightMax + Largest * Others
    BY <2>1, <2>2, <2>4 DEF Counted, CountedAs
  <2>6. CountedAs(heldBytes', held', 0, c, Exact')
    BY <1>1, <2>4, <2>5 DEF CountedAs
  <2> QED BY <1>3, <2>2, <2>3, <2>6 DEF Counted
<1> QED BY <1>1, <1>4, <1>5, <1>6, <1>7, <1>8 DEF AttentionInv

\* The futures are forgotten: if nothing is under way, every task has an answer.
LEMMA ClearFuturesKeeps == ASSUME AttentionInv, ClearFutures PROVE AttentionInv'
<1>1. /\ held' = held /\ heldBytes' = heldBytes /\ lostBytes' = lostBytes
      /\ storedTwice' = storedTwice /\ tasks' = tasks /\ begun' = begun
      /\ thread' = thread /\ overlapped' = overlapped /\ clearStep = "futures"
      /\ clearedAmid' = (clearedAmid \/ begun < Len(tasks) \/ \E t \in CacheThreads : ~At(t, "idle"))
      /\ Places' = Places
  BY DEF ClearFutures, wCounts, Places
<1>9. DOMAIN futures' = {}
  <2>1. futures' = <<>>
    BY DEF ClearFutures
  <2> QED BY <2>1
<1>2. /\ AttentionTypes /\ Admitted /\ TasksTaken
  BY DEF AttentionInv
<1>3. /\ \A t : (Working(t)' <=> Working(t)) /\ \A label : At(t, label)' <=> At(t, label)
      /\ Leaving(thread)' = Leaving(thread) /\ Coming(thread)' = Coming(thread)
  BY <1>1, NobodyMoves
<1>4. AttentionTypes'
  BY <1>1, <1>2, <1>3, <1>9 DEF AttentionTypes
<1>5. Admitted'
  BY <1>1, <1>2 DEF Admitted
<1>6. TasksTaken'
  BY <1>1, <1>2, <1>3, <1>9 DEF TasksTaken
<1>7. ASSUME ~clearedAmid' PROVE OneByOne'
  <2>1. /\ \A t \in CacheThreads : At(t, "idle") /\ ~Working(t) /\ ~At(t, "look") /\ ~At(t, "await")
    BY <1>1, <1>7 DEF At, Working
  <2>2. begun \in Nat /\ Len(tasks) \in Nat /\ begun <= Len(tasks) /\ ~(begun < Len(tasks))
    <3>1. Len(tasks) \in Nat
      BY <1>2, LenProperties DEF AttentionTypes
    <3>2. ~(begun < Len(tasks))
      BY <1>1, <1>7
    <3> QED BY <1>2, <3>1, <3>2 DEF AttentionTypes
  <2>3. \A i \in Places : i \in 1 .. begun
    BY <2>2 DEF Places
  <2>4. \A i \in Places : tasks[i].answer # "pending"
    BY <1>2, <2>1, <2>3, WeightFacts DEF TasksTaken
  <2> QED BY <1>1, <1>3, <1>9, <2>1, <2>4, WeightFacts DEF OneByOne
<1>8. ASSUME Counted PROVE Counted'
  <2>1. Exact' => Exact
    BY <1>1 DEF Exact
  <2> QED BY <1>1, <1>3, <1>8, <2>1 DEF Counted, CountedAs
<1> QED BY <1>1, <1>4, <1>5, <1>6, <1>7, <1>8 DEF AttentionInv

-----------------------------------------------------------------------------
(***************************************************************************)
(* Loading and storing.                                                    *)
(***************************************************************************)
\* A worker takes the next task.
LEMMA TakeKeeps == ASSUME AttentionInv, NEW t \in CacheThreads, TakeTask(t) PROVE AttentionInv'
<1>1. /\ held' = held /\ wCounts' = wCounts /\ futures' = futures /\ tasks' = tasks
      /\ clearStep' = clearStep /\ clearedAmid' = clearedAmid /\ overlapped' = overlapped
      /\ t \in Workers /\ thread[t].pc = "idle" /\ begun < Len(tasks) /\ begun' = begun + 1
      /\ thread' = [thread EXCEPT ![t].pc = "load", ![t].task = begun',
                                  ![t].key = tasks[begun'].key]
      /\ Places' = Places
  BY DEF TakeTask, At, wCounts, wBooks, Places
<1>2. /\ AttentionTypes /\ TasksTaken /\ thread[t] \in ThreadRecords /\ t \notin Decoders
  BY <1>1, WeightFacts DEF AttentionInv, AttentionTypes
<1>3. PICK n : n = begun'
  OBVIOUS
<1>4. begun \in Nat /\ n = begun + 1 /\ n \in Places /\ n \in Nat /\ Len(tasks) \in Nat
  BY <1>1, <1>2, <1>3, LenProperties DEF AttentionTypes, Places
<1>5. tasks[n] \in Tasks /\ tasks[n].answer = "pending"
  <2>1. tasks[n] \in Tasks
    BY <1>2, <1>4, ElementOfSeq DEF AttentionTypes, Places
  <2> QED BY <1>2, <1>4, <2>1 DEF TasksTaken
<1>6. PICK key \in Weights : key = tasks[n].key
  BY <1>5 DEF Tasks
<1>7. PICK r : r = [thread[t] EXCEPT !.pc = "load", !.task = n, !.key = key]
  OBVIOUS
<1>8. r \in ThreadRecords /\ r.pc = "load" /\ r.task = n /\ r.key = key
  BY <1>2, <1>4, <1>7 DEF ThreadRecords, WorkStages
<1>9. thread' = [thread EXCEPT ![t] = r]
  BY <1>1, <1>2, <1>3, <1>6, <1>7 DEF AttentionTypes
<1>10. SameHoldings
  BY <1>1, <1>2, Unchanged
<1>11. AttentionTypes'
  <2>1. t \in Workers => r.pc \in WorkerStages
    BY <1>8 DEF WorkerStages, WorkStages
  <2>2. held' \in Seq(Weights) /\ heldBytes' \in Int /\ SameTasks /\ begun' \in 0 .. Len(tasks)
    BY <1>1, <1>2, <1>3, <1>4, <1>10, TasksStay DEF SameHoldings, AttentionTypes, Places
  <2> QED BY <1>1, <1>2, <1>8, <1>9, <2>1, <2>2, TypesStay
<1>12. /\ thread'[t] = r /\ \A u \in CacheThreads \ {t} : thread'[u] = thread[u]
       /\ Working(t)' /\ ~Working(t)
       /\ \A u \in CacheThreads \ {t} : /\ Working(u)' <=> Working(u)
                                        /\ \A label : At(u, label)' <=> At(u, label)
  BY <1>1, <1>2, <1>8, <1>9 DEF AttentionTypes, Working, At
<1>13. TasksTaken'
  <2>1. \A u \in Workers : u # t /\ Working(u)' =>
           /\ thread'[u] = thread[u] /\ Working(u) /\ thread[u].task \in 1 .. begun /\ thread[u].task # n
    BY <1>2, <1>4, <1>12, WeightFacts DEF TasksTaken
  <2>2. \A u \in Workers : Working(u)' =>
           /\ thread'[u].task \in 1 .. begun' /\ tasks'[thread'[u].task].answer = "pending"
           /\ tasks'[thread'[u].task].key = thread'[u].key
    <3>1. \A i \in 1 .. begun : i \in 1 .. begun'
      BY <1>1, <1>4
    <3>2. n \in 1 .. begun'
      BY <1>3, <1>4
    <3>3. ASSUME NEW u \in Workers, Working(u)'
          PROVE  /\ thread'[u].task \in 1 .. begun' /\ tasks'[thread'[u].task].answer = "pending"
                 /\ tasks'[thread'[u].task].key = thread'[u].key
      <4>1. CASE u = t
        BY <1>1, <1>5, <1>6, <1>8, <1>12, <3>2, <4>1
      <4>2. CASE u # t
        <5>1. thread'[u] = thread[u] /\ Working(u) /\ thread[u].task \in 1 .. begun
          BY <2>1, <3>3, <4>2
        <5> QED BY <1>1, <1>2, <3>1, <5>1 DEF TasksTaken
      <4> QED BY <4>1, <4>2
    <3> QED BY <3>3
  <2>3. \A u, v \in Workers : Working(u)' /\ Working(v)' /\ thread'[u].task = thread'[v].task => u = v
    BY <1>2, <1>8, <1>12, <2>1 DEF TasksTaken
  <2>4. \A i \in Places' : i > begun' => tasks'[i].answer = "pending"
    BY <1>1, <1>2, <1>4 DEF TasksTaken, Places
  <2>5. \A i \in 1 .. begun' : tasks'[i].answer = "pending" =>
           \E u \in Workers : Working(u)' /\ thread'[u].task = i
    <3>1. ASSUME NEW i \in 1 .. begun', tasks[i].answer = "pending"
          PROVE  \E u \in Workers : Working(u)' /\ thread'[u].task = i
      <4>1. CASE i = n
        BY <1>1, <1>8, <1>12, <4>1
      <4>2. CASE i # n
        <5>1. i \in 1 .. begun
          BY <1>1, <1>3, <1>4, <4>2
        <5>2. PICK u \in Workers : Working(u) /\ thread[u].task = i
          BY <1>2, <3>1, <5>1 DEF TasksTaken
        <5>3. u # t
          BY <1>12, <5>2
        <5> QED BY <1>12, <5>2, <5>3, WeightFacts
      <4> QED BY <4>1, <4>2
    <3> QED BY <1>1, <3>1
  <2>6. \A k \in DOMAIN futures' : tasks'[futures'[k]].key = k
    BY <1>1, <1>2 DEF TasksTaken
  <2> QED BY <2>2, <2>3, <2>4, <2>5, <2>6 DEF TasksTaken
<1>14. ASSUME OneByOne PROVE OneByOne'
  <2>1. \A e \in Decoders : /\ thread'[e] = thread[e] /\ (Working(e)' <=> Working(e))
                            /\ \A label : At(e, label)' <=> At(e, label)
    BY <1>2, <1>12, WeightFacts
  <2>2. \A k : In(k)' <=> In(k)
    BY <1>1 DEF In
  <2> QED BY <1>1, <1>14, <2>1, <2>2 DEF OneByOne
<1>15. /\ r.pc \notin {"room", "evict", "read", "write", "put"}
       /\ OwnLeaving(r) = OwnLeaving(thread[t]) /\ OwnComing(r) = OwnComing(thread[t])
  BY <1>1, <1>8, NothingOwn
<1> QED BY <1>1, <1>8, <1>9, <1>10, <1>11, <1>13, <1>14, <1>15, QuietStep

\* A thread goes on with its weight.
LEMMA GoesOn ==
  ASSUME AttentionInv, NEW t \in CacheThreads, Working(t), NEW r \in ThreadRecords,
         thread' = [thread EXCEPT ![t] = r], r.pc \in WorkStages,
         r.key = thread[t].key, r.task = thread[t].task, futures' = futures, tasks' = tasks,
         begun' = begun, wBooks' = wBooks, held' \in Seq(Weights), heldBytes' \in Int,
         \A k : In(k)' => In(k), storedTwice' = storedTwice,
         r.pc \in {"room", "evict", "read", "write", "put"} => WeightBytes[r.key] <= WeightMax,
         ~lostBytes' => Counted'
  PROVE  AttentionInv'
<1>1. AttentionTypes /\ Admitted /\ TasksTaken
  BY DEF AttentionInv
<1>2. overlapped' = overlapped /\ clearedAmid' = clearedAmid
  BY DEF wBooks
<1>3. AttentionTypes'
  <2>1. /\ t \in Workers => r.pc \in WorkerStages
        /\ ~(r.pc = "await")
    BY DEF WorkerStages, WorkStages
  <2>2. SameTasks /\ begun' \in 0 .. Len(tasks)
    BY <1>1, TasksStay DEF AttentionTypes
  <2> QED BY <1>1, <2>1, <2>2, TypesStay
<1>4. Admitted'
  BY <1>1, AdmittedKeeps
<1>5. TasksTaken' /\ (OneByOne => OneByOne')
  BY <1>1, GoesOnTasks
<1> QED BY <1>2, <1>3, <1>4, <1>5 DEF AttentionInv

LEMMA GoesOnQuietly ==
  ASSUME AttentionInv, NEW t \in CacheThreads, Working(t), NEW r \in ThreadRecords,
         thread' = [thread EXCEPT ![t] = r], r.pc \in WorkStages,
         r.key = thread[t].key, r.task = thread[t].task, futures' = futures, tasks' = tasks,
         begun' = begun, wBooks' = wBooks, SameHoldings,
         r.pc \in {"room", "evict", "read", "write", "put"} => WeightBytes[r.key] <= WeightMax,
         OwnLeaving(r) = OwnLeaving(thread[t]), OwnComing(r) = OwnComing(thread[t])
  PROVE  AttentionInv'
<1>1. AttentionTypes
  BY DEF AttentionInv
<1>2. ASSUME ~lostBytes' PROVE Counted'
  <2>1. Counted
    BY <1>2 DEF AttentionInv, SameHoldings
  <2>2. Exact' => Exact
    BY DEF Exact, SameHoldings, wBooks
  <2> QED BY <1>1, <2>1, <2>2, CountKeeps DEF SameHoldings
<1>3. held' \in Seq(Weights) /\ heldBytes' \in Int /\ storedTwice' = storedTwice /\ \A k : In(k)' => In(k)
  BY <1>1 DEF SameHoldings, AttentionTypes
<1> QED BY <1>2, <1>3, GoesOn

\* A thread is done with its weight, and has not changed the cache.
LEMMA IsDone ==
  ASSUME AttentionInv, NEW t \in CacheThreads, Working(t), NEW outcome \in Outcomes,
         Settle(t, outcome), thread[t].pc \notin {"read", "write", "put"},
         begun' = begun, futures' = futures, wBooks' = wBooks, SameHoldings
  PROVE  AttentionInv'
<1>1. AttentionTypes /\ TasksTaken
  BY DEF AttentionInv
<1>2. PICK r \in ThreadRecords : Settled(t, r, outcome)
  BY <1>1, SettleFacts
<1>3. /\ thread' = [thread EXCEPT ![t] = r] /\ r.pc \in {"idle", "next"}
      /\ t \in Workers => r.pc \in WorkerStages
      /\ r.pc \notin {"await", "room", "evict", "read", "write", "put"}
  BY <1>2 DEF Settled, WorkerStages
<1>4. AttentionTypes'
  <2>1. SameTasks
    BY <1>1, <1>2, AnswerFacts
  <2>2. held' \in Seq(Weights) /\ heldBytes' \in Int /\ begun' \in 0 .. Len(tasks)
    BY <1>1 DEF SameHoldings, AttentionTypes
  <2> QED BY <1>1, <1>3, <2>1, <2>2, TypesStay
<1>5. TasksTaken' /\ (OneByOne => OneByOne')
  <2>1. \A k : In(k)' => In(k) \/ (k = thread[t].key /\ outcome = "done")
    BY DEF SameHoldings
  <2> QED BY <1>1, <1>2, <2>1, EndsTasks
<1>6. OwnLeaving(r) = OwnLeaving(thread[t]) /\ OwnComing(r) = OwnComing(thread[t])
  BY <1>3, NothingOwn
<1>7. clearStep' = clearStep /\ clearedAmid' = clearedAmid /\ overlapped' = overlapped
  BY DEF wBooks
<1> QED BY <1>1, <1>3, <1>4, <1>5, <1>6, <1>7, QuietStep

LEMMA LoadWeightKeeps == ASSUME AttentionInv, NEW t \in CacheThreads, LoadWeight(t) PROVE AttentionInv'
<1>1. /\ held' = held /\ wCounts' = wCounts /\ begun' = begun /\ futures' = futures
      /\ wBooks' = wBooks /\ thread[t].pc = "load"
  BY DEF LoadWeight, At, wBooks, wCounts
<1>2. AttentionTypes /\ Working(t)
  BY <1>1 DEF AttentionInv, Working
<1>3. SameHoldings
  BY <1>1, <1>2, Unchanged
<1>4. CASE To(t, "store") /\ tasks' = tasks
  <2>1. "store" \in Waiting \cup WorkStages
    BY DEF WorkStages
  <2>2. PICK r \in ThreadRecords :
            /\ thread' = [thread EXCEPT ![t] = r] /\ r.pc = "store"
            /\ r.key = thread[t].key /\ r.task = thread[t].task
    BY <1>2, <1>4, <2>1, ToFacts
  <2>3. /\ r.pc \in WorkStages /\ r.pc \notin {"room", "evict", "read", "write", "put"}
        /\ OwnLeaving(r) = OwnLeaving(thread[t]) /\ OwnComing(r) = OwnComing(thread[t])
    BY <1>1, <2>2, NothingOwn DEF WorkStages
  <2> QED BY <1>1, <1>2, <1>3, <1>4, <2>2, <2>3, GoesOnQuietly
<1>5. CASE Settle(t, "blocked")
  <2>1. "blocked" \in Outcomes /\ thread[t].pc \notin {"read", "write", "put"}
    BY <1>1 DEF Outcomes
  <2> QED BY <1>1, <1>2, <1>3, <1>5, <2>1, IsDone
<1>6. \/ To(t, "store") /\ tasks' = tasks
      \/ Settle(t, "blocked")
  BY DEF LoadWeight
<1> QED BY <1>4, <1>5, <1>6

LEMMA AdmitKeeps == ASSUME AttentionInv, NEW t \in CacheThreads, AdmitWeight(t) PROVE AttentionInv'
<1>1. /\ held' = held /\ wCounts' = wCounts /\ begun' = begun /\ futures' = futures
      /\ wBooks' = wBooks /\ thread[t].pc = "store"
  BY DEF AdmitWeight, At, wBooks, wCounts
<1>2. AttentionTypes /\ Working(t) /\ thread[t] \in ThreadRecords
  BY <1>1 DEF AttentionInv, Working, AttentionTypes
<1>3. SameHoldings
  BY <1>1, <1>2, Unchanged
<1>4. CASE Settle(t, "done")
  <2>1. "done" \in Outcomes /\ thread[t].pc \notin {"read", "write", "put"}
    BY <1>1 DEF Outcomes
  <2> QED BY <1>1, <1>2, <1>3, <1>4, <2>1, IsDone
<1>5. CASE ~Settle(t, "done")
  <2>1. /\ To(t, "room") /\ tasks' = tasks
        /\ ~(WeightBytes[thread[t].key] > WeightMax)
    BY <1>5 DEF AdmitWeight
  <2>2. "room" \in Waiting \cup WorkStages
    BY DEF WorkStages
  <2>3. PICK r \in ThreadRecords :
            /\ thread' = [thread EXCEPT ![t] = r] /\ r.pc = "room"
            /\ r.key = thread[t].key /\ r.task = thread[t].task
    BY <1>2, <2>1, <2>2, ToFacts
  <2>4. WeightBytes[r.key] <= WeightMax
    <3>1. WeightBytes[r.key] \in Nat /\ WeightMax \in Nat
      BY WeightFacts DEF ThreadRecords
    <3> QED BY <2>1, <2>3, <3>1
  <2>5. /\ r.pc \in WorkStages
        /\ OwnLeaving(r) = OwnLeaving(thread[t]) /\ OwnComing(r) = OwnComing(thread[t])
    BY <1>1, <2>3, NothingOwn DEF WorkStages
  <2> QED BY <1>1, <1>2, <1>3, <2>1, <2>3, <2>4, <2>5, GoesOnQuietly
<1> QED BY <1>4, <1>5

LEMMA ReadKeeps == ASSUME AttentionInv, NEW t \in CacheThreads, ReadCount(t) PROVE AttentionInv'
<1>1. /\ held' = held /\ wCounts' = wCounts /\ begun' = begun /\ futures' = futures
      /\ tasks' = tasks /\ wBooks' = wBooks /\ thread[t].pc = "read"
      /\ thread' = [thread EXCEPT ![t].pc = "write", ![t].seen = heldBytes]
  BY DEF ReadCount, At, wBooks, wCounts
<1>2. AttentionTypes /\ Working(t) /\ thread[t] \in ThreadRecords /\ heldBytes \in Int
  BY <1>1 DEF AttentionInv, Working, AttentionTypes
<1>3. SameHoldings
  BY <1>1, <1>2, Unchanged
<1>4. PICK r : r = [thread[t] EXCEPT !.pc = "write", !.seen = heldBytes]
  OBVIOUS
<1>5. /\ r \in ThreadRecords /\ r.pc = "write" /\ r.key = thread[t].key
      /\ r.victim = thread[t].victim /\ r.task = thread[t].task
  BY <1>2, <1>4 DEF ThreadRecords, WorkStages
<1>6. thread' = [thread EXCEPT ![t] = r]
  BY <1>1, <1>2, <1>4 DEF AttentionTypes
<1>7. WeightBytes[r.key] <= WeightMax
  BY <1>1, <1>5 DEF AttentionInv, Admitted
<1>8. r.pc \in WorkStages /\ OwnLeaving(r) = OwnLeaving(thread[t]) /\ OwnComing(r) = OwnComing(thread[t])
  BY <1>1, <1>5 DEF OwnLeaving, OwnComing, WorkStages
<1> QED BY <1>1, <1>2, <1>3, <1>5, <1>6, <1>7, <1>8, GoesOnQuietly

LEMMA CountOthers == Largest * Others \in Nat /\ WeightMax \in Nat
  BY WeightFacts, LargestFacts

\* What fits when the others have stored and subtracted what is theirs.
LEMMA RoomCounts ==
  ASSUME AttentionTypes, Admitted, Counted, NEW t \in CacheThreads, At(t, "room"),
         held = <<>> \/ ~Exceeds(t), NEW r \in ThreadRecords,
         thread' = [thread EXCEPT ![t] = r], r.pc = "put", r.key = thread[t].key,
         held' = held, heldBytes' = heldBytes, Exact' = Exact
  PROVE  Counted'
<1>1. thread[t].pc = "room" /\ thread \in [CacheThreads -> ThreadRecords] /\ heldBytes \in Int
  BY DEF At, AttentionTypes
<1>2. PICK k, w, T : /\ k = WeightBytes[thread[t].key] /\ w = Largest * Others
                     /\ T = TotalOf(ToSet(held), WeightBytes)
  OBVIOUS
<1>3. /\ OwnLeaving(thread[t]) = 0 /\ OwnComing(thread[t]) = 0
      /\ OwnLeaving(r) = 0 /\ OwnComing(r) = k
  BY <1>1, <1>2 DEF OwnLeaving, OwnComing
<1>4. PICK l, c, m, d \in Int :
         /\ l = Leaving(thread) /\ c = Coming(thread) /\ l >= 0 /\ c >= 0
         /\ m = l - OwnLeaving(thread[t]) + OwnLeaving(r)
         /\ d = c - OwnComing(thread[t]) + OwnComing(r)
         /\ Counted <=> CountedAs(heldBytes, held, l, c, Exact)
         /\ Counted' <=> CountedAs(heldBytes', held', m, d, Exact')
  BY CountsAfter
<1>5. /\ heldBytes >= T + l /\ T + c <= WeightMax + w
      /\ Exact => heldBytes = T + l
  BY <1>2, <1>4 DEF CountedAs
<1>6. l + c <= w /\ w \in Nat /\ T \in Nat /\ c <= w
  <2>1. thread[t].pc \notin {"read", "write", "put"}
    BY <1>1
  <2>2. T \in Nat
    BY <1>2, HeldSizes
  <2>3. l + c <= w /\ w \in Nat
    BY <1>1, <1>2, <1>4, <2>1, OthersBound
  <2>4. l >= 0
    BY <1>4
  <2> QED BY <2>2, <2>3, <2>4
<1>7. k \in Nat /\ k <= WeightMax /\ WeightMax \in Nat
  <2>1. thread[t].key \in Weights
    BY <1>1 DEF ThreadRecords
  <2>2. k <= WeightMax
    BY <1>1, <1>2 DEF Admitted
  <2> QED BY <1>2, <2>1, <2>2, WeightFacts
<1>8. m = l /\ d = c + k
  <2>1. m = l - 0 + 0 /\ d = c - 0 + k
    BY <1>3, <1>4
  <2> QED BY <1>7, <2>1
<1>9. T + d <= WeightMax + w
  <2>1. CASE held = <<>>
    <3>1. ToSet(held) = {}
      BY <2>1 DEF ToSet
    <3>2. T = 0
      BY <1>2, <3>1, TotalOfNone
    <3> QED BY <1>6, <1>7, <1>8, <3>2
  <2>2. CASE ~Exceeds(t)
    <3>1. heldBytes + k <= WeightMax
      BY <1>1, <1>2, <1>7, <2>2 DEF Exceeds
    <3>2. heldBytes >= T + l /\ l >= 0 /\ heldBytes \in Int
      BY <1>1, <1>4, <1>5
    <3>3. T + k <= WeightMax
      BY <1>6, <1>7, <3>1, <3>2
    <3> QED BY <1>6, <1>7, <1>8, <3>3
  <2> QED BY <2>1, <2>2
<1>10. CountedAs(heldBytes', held', m, d, Exact')
  BY <1>2, <1>5, <1>8, <1>9 DEF CountedAs
<1> QED BY <1>4, <1>10

LEMMA RoomKeeps == ASSUME AttentionInv, NEW t \in CacheThreads, MakeRoom(t) PROVE AttentionInv'
<1>1. /\ held' = held /\ wCounts' = wCounts /\ begun' = begun /\ futures' = futures
      /\ wBooks' = wBooks /\ thread[t].pc = "room"
      /\ heldBytes' = heldBytes /\ lostBytes' = lostBytes /\ storedTwice' = storedTwice
  BY DEF MakeRoom, At, wBooks, wCounts
<1>2. AttentionTypes /\ Admitted /\ Working(t) /\ thread[t] \in ThreadRecords
  BY <1>1 DEF AttentionInv, Working, AttentionTypes
<1>3. SameHoldings /\ WeightBytes[thread[t].key] <= WeightMax
  BY <1>1, <1>2, Unchanged DEF Admitted
<1>4. CASE held = <<>> \/ ~Exceeds(t)
  <2>1. To(t, "put") /\ tasks' = tasks
    BY <1>4 DEF MakeRoom
  <2>2. "put" \in Waiting \cup WorkStages
    BY DEF WorkStages
  <2>3. PICK r \in ThreadRecords :
            /\ thread' = [thread EXCEPT ![t] = r] /\ r.pc = "put"
            /\ r.key = thread[t].key /\ r.task = thread[t].task
    BY <1>2, <2>1, <2>2, ToFacts
  <2>4. ~lostBytes' => Counted'
    <3>1. At(t, "room") /\ Exact' = Exact
      BY <1>1 DEF At, Exact, wBooks
    <3> QED BY <1>1, <1>2, <1>4, <2>3, <3>1, RoomCounts DEF AttentionInv
  <2>5. held' \in Seq(Weights) /\ heldBytes' \in Int /\ \A k : In(k)' => In(k)
    BY <1>2, <1>3 DEF SameHoldings, AttentionTypes
  <2>6. r.pc \in WorkStages /\ WeightBytes[r.key] <= WeightMax
    BY <1>3, <2>3 DEF WorkStages
  <2> QED BY <1>1, <1>2, <2>1, <2>3, <2>4, <2>5, <2>6, GoesOn
<1>5. CASE ~(held = <<>> \/ ~Exceeds(t)) /\ Victims(thread[t].key) = <<>>
  <2>1. Settle(t, "done")
    BY <1>5 DEF MakeRoom
  <2>2. "done" \in Outcomes /\ thread[t].pc \notin {"read", "write", "put"}
    BY <1>1 DEF Outcomes
  <2> QED BY <1>1, <1>2, <1>3, <2>1, <2>2, IsDone
<1>6. CASE ~(held = <<>> \/ ~Exceeds(t)) /\ Victims(thread[t].key) # <<>>
  <2>1. PICK q : q = Victims(thread[t].key)
    OBVIOUS
  <2>2. /\ thread' = [thread EXCEPT ![t].pc = "evict", ![t].victim = q[1]]
        /\ tasks' = tasks
    BY <1>6, <2>1 DEF MakeRoom
  <2>3. q[1] \in Weights
    <3>1. PICK gone : gone = IF thread[t].key \in PinnedWeights THEN PinnedWeights ELSE {}
      OBVIOUS
    <3>2. q = WithoutAll(held, gone) /\ held \in Seq(Weights)
      BY <1>2, <2>1, <3>1 DEF Victims, AttentionTypes
    <3>3. q \in Seq(Weights) /\ Len(q) \in Nat
      BY <3>2, WithoutAllFacts
    <3>4. Len(q) # 0
      BY <1>6, <2>1, <3>3, EmptySeq
    <3> QED BY <3>3, <3>4, ElementOfSeq
  <2>4. PICK r : r = [thread[t] EXCEPT !.pc = "evict", !.victim = q[1]]
    OBVIOUS
  <2>5. /\ r \in ThreadRecords /\ r.pc = "evict" /\ r.key = thread[t].key
        /\ r.task = thread[t].task
    BY <1>2, <2>3, <2>4 DEF ThreadRecords, WorkStages
  <2>6. thread' = [thread EXCEPT ![t] = r]
    BY <1>2, <2>2, <2>4 DEF AttentionTypes
  <2>7. /\ r.pc \in WorkStages /\ WeightBytes[r.key] <= WeightMax
        /\ OwnLeaving(r) = OwnLeaving(thread[t]) /\ OwnComing(r) = OwnComing(thread[t])
    BY <1>1, <1>3, <2>5, NothingOwn DEF WorkStages
  <2> QED BY <1>1, <1>2, <1>3, <2>2, <2>5, <2>6, <2>7, GoesOnQuietly
<1> QED BY <1>4, <1>5, <1>6

\* What is evicted leaves the list and is still to subtract.
LEMMA EvictKeeps == ASSUME AttentionInv, NEW t \in CacheThreads, EvictWeight(t) PROVE AttentionInv'
<1>1. /\ wCounts' = wCounts /\ heldBytes' = heldBytes /\ begun' = begun /\ futures' = futures
      /\ wBooks' = wBooks /\ lostBytes' = lostBytes /\ storedTwice' = storedTwice
      /\ Exact' = Exact /\ thread[t].pc = "evict"
  BY DEF EvictWeight, At, wBooks, wCounts, Exact
<1>2. /\ AttentionTypes /\ Admitted /\ Working(t) /\ thread[t] \in ThreadRecords
      /\ held \in Seq(Weights) /\ heldBytes \in Int
  BY <1>1 DEF AttentionInv, Working, AttentionTypes
<1>3. PICK v, gone, q : v = thread[t].victim /\ gone = {v} /\ q = held'
  OBVIOUS
<1>4. /\ q \in Seq(Weights) /\ \A x : Lists(q, x) <=> x \notin gone /\ Lists(held, x)
  <2>1. q = WithoutAll(held, gone)
    BY <1>3 DEF EvictWeight, Less
  <2> QED BY <1>2, <2>1, WithoutAllFacts
<1>5. \A k : In(k)' <=> k # v /\ In(k)
  BY <1>3, <1>4 DEF In
<1>6. ToSet(q) = ToSet(held) \ {v}
  <2>1. /\ \A x : x \in ToSet(q) <=> Lists(q, x)
        /\ \A x : x \in ToSet(held) <=> Lists(held, x)
    BY <1>2, <1>4, InList
  <2> QED BY <1>3, <1>4, <2>1
<1>7. CASE ~In(v)
  <2>1. Settle(t, "raised")
    BY <1>3, <1>7 DEF EvictWeight
  <2>2. "raised" \in Outcomes /\ thread[t].pc \notin {"read", "write", "put"}
    BY <1>1 DEF Outcomes
  <2>3. ToSet(held) \ {v} = ToSet(held)
    BY <1>2, <1>7, HeldSizes
  <2>4. SameHoldings
    BY <1>1, <1>3, <1>4, <1>5, <1>6, <2>3 DEF SameHoldings
  <2> QED BY <1>1, <1>2, <2>1, <2>2, <2>4, IsDone
<1>8. CASE In(v)
  <2>1. To(t, "read") /\ tasks' = tasks
    BY <1>3, <1>8 DEF EvictWeight
  <2>2. "read" \in Waiting \cup WorkStages
    BY DEF WorkStages
  <2>3. PICK r \in ThreadRecords :
            /\ thread' = [thread EXCEPT ![t] = r] /\ r.pc = "read"
            /\ r.key = thread[t].key /\ r.task = thread[t].task /\ r.victim = v
    BY <1>2, <1>3, <2>1, <2>2, ToFacts
  <2>4. ASSUME ~lostBytes' PROVE Counted'
    <3>1. PICK l, c, m, d \in Int :
             /\ l = Leaving(thread) /\ c = Coming(thread) /\ l >= 0 /\ c >= 0
             /\ m = l - OwnLeaving(thread[t]) + OwnLeaving(r)
             /\ d = c - OwnComing(thread[t]) + OwnComing(r)
             /\ Counted <=> CountedAs(heldBytes, held, l, c, Exact)
             /\ Counted' <=> CountedAs(heldBytes', held', m, d, Exact')
      BY <1>2, <2>3, CountsAfter
    <3>2. /\ OwnLeaving(thread[t]) = 0 /\ OwnComing(thread[t]) = 0
          /\ OwnLeaving(r) = WeightBytes[v] /\ OwnComing(r) = 0
      BY <1>1, <2>3 DEF OwnLeaving, OwnComing
    <3>3. PICK total, less, w, b : /\ total = TotalOf(ToSet(held), WeightBytes)
                                   /\ less = TotalOf(ToSet(held) \ {v}, WeightBytes)
                                   /\ w = WeightMax + Largest * Others /\ b = WeightBytes[v]
      OBVIOUS
    <3>4. v \in ToSet(held) /\ IsFiniteSet(ToSet(held)) /\ Sizes(ToSet(held), WeightBytes)
      BY <1>2, <1>8, HeldSizes
    <3>5. less = total - WeightBytes[v] /\ total \in Nat /\ less \in Nat
      BY <3>3, <3>4, TotalWithout
    <3>6. b \in Nat /\ w \in Nat
      BY <3>3, <3>4, CountOthers DEF Sizes
    <3>7. /\ heldBytes >= total + l /\ total + c <= w
          /\ Exact => heldBytes = total + l
      BY <1>1, <2>4, <3>1, <3>3 DEF AttentionInv, CountedAs
    <3>8. m = l + b /\ d = c /\ less = total - b
      BY <3>1, <3>2, <3>3, <3>5, <3>6
    <3>9. /\ heldBytes >= less + m /\ less + d <= w
          /\ Exact => heldBytes = less + m
      <4>1. heldBytes >= less + m /\ less + d <= w
        BY <1>2, <3>5, <3>6, <3>7, <3>8
      <4>2. Exact => heldBytes = less + m
        BY <1>2, <3>5, <3>6, <3>7, <3>8
      <4> QED BY <4>1, <4>2
    <3>10. CountedAs(heldBytes', held', m, d, Exact')
      BY <1>1, <1>3, <1>6, <3>3, <3>9 DEF CountedAs
    <3> QED BY <3>1, <3>10
  <2>5. held' \in Seq(Weights) /\ heldBytes' \in Int /\ \A k : In(k)' => In(k)
    BY <1>1, <1>2, <1>3, <1>4, <1>5
  <2>6. r.pc \in WorkStages /\ WeightBytes[r.key] <= WeightMax
    BY <1>1, <1>2, <2>3 DEF WorkStages, Admitted
  <2> QED BY <1>1, <1>2, <2>1, <2>3, <2>4, <2>5, <2>6, GoesOn
<1> QED BY <1>7, <1>8

\* The count covers what is held again unless another thread changed it since it was read.
LEMMA WriteKeeps == ASSUME AttentionInv, NEW t \in CacheThreads, WriteCount(t) PROVE AttentionInv'
<1>1. /\ held' = held /\ tasks' = tasks /\ futures' = futures /\ begun' = begun
      /\ wBooks' = wBooks /\ storedTwice' = storedTwice /\ Exact' = Exact
      /\ thread[t].pc = "write" /\ To(t, "room")
      /\ heldBytes' = thread[t].seen - WeightBytes[thread[t].victim]
      /\ lostBytes' = (lostBytes \/ heldBytes # thread[t].seen)
  BY DEF WriteCount, At, wBooks, Exact
<1>2. /\ AttentionTypes /\ Admitted /\ Working(t) /\ thread[t] \in ThreadRecords
      /\ held \in Seq(Weights) /\ heldBytes \in Int
  BY <1>1 DEF AttentionInv, Working, AttentionTypes
<1>3. PICK b : b = WeightBytes[thread[t].victim]
  OBVIOUS
<1>4. b \in Nat /\ thread[t].seen \in Int
  <2>1. thread[t].victim \in Weights /\ thread[t].seen \in Int
    BY <1>2 DEF ThreadRecords
  <2> QED BY <1>3, <2>1, WeightFacts
<1>5. "room" \in Waiting \cup WorkStages
  BY DEF WorkStages
<1>6. PICK r \in ThreadRecords :
          /\ thread' = [thread EXCEPT ![t] = r] /\ r.pc = "room"
          /\ r.key = thread[t].key /\ r.task = thread[t].task
  BY <1>1, <1>2, <1>5, ToFacts
<1>7. ASSUME ~lostBytes' PROVE Counted'
  <2>1. PICK l, c, m, d \in Int :
           /\ l = Leaving(thread) /\ c = Coming(thread) /\ l >= 0 /\ c >= 0
           /\ m = l - OwnLeaving(thread[t]) + OwnLeaving(r)
           /\ d = c - OwnComing(thread[t]) + OwnComing(r)
           /\ Counted <=> CountedAs(heldBytes, held, l, c, Exact)
           /\ Counted' <=> CountedAs(heldBytes', held', m, d, Exact')
    BY <1>2, <1>6, CountsAfter
  <2>2. /\ OwnLeaving(thread[t]) = b /\ OwnComing(thread[t]) = 0
        /\ OwnLeaving(r) = 0 /\ OwnComing(r) = 0
    BY <1>1, <1>3, <1>6 DEF OwnLeaving, OwnComing
  <2>3. PICK total, w : /\ total = TotalOf(ToSet(held), WeightBytes)
                        /\ w = WeightMax + Largest * Others
    OBVIOUS
  <2>4. ~lostBytes /\ heldBytes' = heldBytes - b
    BY <1>1, <1>3, <1>7
  <2>5. /\ heldBytes >= total + l /\ total + c <= w
        /\ Exact => heldBytes = total + l
    BY <1>7, <2>1, <2>3, <2>4 DEF AttentionInv, CountedAs
  <2>6. m = l - b /\ d = c
    BY <1>4, <2>1, <2>2
  <2>7. total \in Nat /\ w \in Nat
    BY <1>2, <2>3, HeldSizes, CountOthers
  <2>8. /\ heldBytes' >= total + m /\ total + d <= w
        /\ Exact => heldBytes' = total + m
    <3>1. heldBytes' >= total + m
      BY <1>2, <1>4, <2>4, <2>5, <2>6, <2>7
    <3>2. total + d <= w
      BY <2>5, <2>6
    <3>3. Exact => heldBytes' = total + m
      BY <1>2, <1>4, <2>4, <2>5, <2>6, <2>7
    <3> QED BY <3>1, <3>2, <3>3
  <2>9. CountedAs(heldBytes', held', m, d, Exact')
    BY <1>1, <2>3, <2>8 DEF CountedAs
  <2> QED BY <2>1, <2>9
<1>8. held' \in Seq(Weights) /\ heldBytes' \in Int /\ \A k : In(k)' => In(k)
  BY <1>1, <1>2, <1>3, <1>4 DEF In
<1>9. r.pc \in WorkStages /\ WeightBytes[r.key] <= WeightMax
  BY <1>1, <1>2, <1>6 DEF WorkStages, Admitted
<1> QED BY <1>1, <1>2, <1>6, <1>7, <1>8, <1>9, GoesOn

\* The bytes of what is stored are counted: once too often if it was held.
LEMMA PutKeeps == ASSUME AttentionInv, NEW t \in CacheThreads, PutWeight(t) PROVE AttentionInv'
<1>1. /\ Settle(t, "done") /\ "done" \in Outcomes /\ begun' = begun /\ futures' = futures
      /\ lostBytes' = lostBytes /\ thread[t].pc = "put" /\ wBooks' = wBooks
      /\ heldBytes' = heldBytes + WeightBytes[thread[t].key]
      /\ storedTwice' = (storedTwice \/ In(thread[t].key))
  BY DEF PutWeight, At, wBooks, Outcomes
<1>2. /\ AttentionTypes /\ Admitted /\ TasksTaken /\ Working(t) /\ thread[t] \in ThreadRecords
      /\ held \in Seq(Weights) /\ heldBytes \in Int
  BY <1>1 DEF AttentionInv, Working, AttentionTypes
<1>3. PICK k, q, b : k = thread[t].key /\ q = held' /\ b = WeightBytes[k]
  OBVIOUS
<1>4. k \in Weights /\ b \in Nat
  <2>1. k \in Weights
    BY <1>2, <1>3 DEF ThreadRecords
  <2> QED BY <1>3, <2>1, WeightFacts
<1>5. q \in Seq(Weights) /\ \A x : Lists(q, x) <=> x = k \/ Lists(held, x)
  <2>1. CASE In(k)
    <3>1. q = held /\ Lists(held, k)
      BY <1>3, <2>1 DEF PutWeight, In
    <3> QED BY <1>2, <3>1
  <2>2. CASE ~In(k)
    <3>1. PICK gone : gone = {k}
      OBVIOUS
    <3>2. q = PutLast(held, gone, k)
      BY <1>3, <2>2, <3>1 DEF PutWeight
    <3>3. /\ q \in Seq(Weights)
          /\ \A y : Lists(q, y) <=> y = k \/ (y \notin gone /\ Lists(held, y))
      BY <1>2, <1>4, <3>1, <3>2, PutLastFacts
    <3> QED BY <3>1, <3>3
  <2> QED BY <2>1, <2>2
<1>6. ToSet(q) = ToSet(held) \cup {k}
  <2>1. /\ \A x : x \in ToSet(q) <=> Lists(q, x)
        /\ \A x : x \in ToSet(held) <=> Lists(held, x)
    BY <1>2, <1>5, InList
  <2> QED BY <1>5, <2>1
<1>7. PICK r \in ThreadRecords : Settled(t, r, "done")
  BY <1>1, <1>2, SettleFacts
<1>8. /\ thread' = [thread EXCEPT ![t] = r] /\ r.pc \in {"idle", "next"}
      /\ t \in Workers => r.pc \in WorkerStages
      /\ r.pc \notin {"await", "room", "evict", "read", "write", "put"}
  BY <1>7 DEF Settled, WorkerStages
<1>9. AttentionTypes'
  <2>1. SameTasks
    BY <1>1, <1>2, <1>7, AnswerFacts
  <2>2. held' \in Seq(Weights) /\ heldBytes' \in Int /\ begun' \in 0 .. Len(tasks)
    BY <1>1, <1>2, <1>3, <1>4, <1>5 DEF AttentionTypes
  <2> QED BY <1>1, <1>2, <1>8, <2>1, <2>2, TypesStay
<1>10. Admitted'
  BY <1>2, <1>8, AdmittedKeeps
<1>11. TasksTaken' /\ (OneByOne => OneByOne')
  <2>1. \A x : In(x)' => In(x) \/ (x = thread[t].key /\ "done" = "done")
    BY <1>3, <1>5 DEF In
  <2> QED BY <1>1, <1>2, <1>7, <2>1, EndsTasks
<1>12. OneByOne => ~In(k)
  <2>1. SUFFICES ASSUME OneByOne PROVE ~In(k)
    OBVIOUS
  <2>2. CASE t \in Decoders
    BY <1>2, <1>3, <2>1, <2>2 DEF OneByOne
  <2>3. CASE t \in Workers
    <3>1. /\ thread[t].task \in 1 .. begun /\ tasks[thread[t].task].answer = "pending"
          /\ tasks[thread[t].task].key = k
      BY <1>2, <1>3, <2>3 DEF TasksTaken
    <3>2. thread[t].task \in Places
      BY <1>2, <3>1, LenProperties DEF AttentionTypes, Places
    <3> QED BY <2>1, <3>1, <3>2 DEF OneByOne
  <2> QED BY <2>2, <2>3, WeightFacts
<1>13. ASSUME ~lostBytes' PROVE Counted'
  <2>1. PICK l, c, m, d \in Int :
           /\ l = Leaving(thread) /\ c = Coming(thread) /\ l >= 0 /\ c >= 0
           /\ m = l - OwnLeaving(thread[t]) + OwnLeaving(r)
           /\ d = c - OwnComing(thread[t]) + OwnComing(r)
           /\ Counted <=> CountedAs(heldBytes, held, l, c, Exact)
           /\ Counted' <=> CountedAs(heldBytes', held', m, d, Exact')
    BY <1>2, <1>8, CountsAfter
  <2>2. /\ OwnLeaving(thread[t]) = 0 /\ OwnComing(thread[t]) = b
        /\ OwnLeaving(r) = 0 /\ OwnComing(r) = 0
    BY <1>1, <1>3, <1>8 DEF OwnLeaving, OwnComing
  <2>3. PICK total, more, w : /\ total = TotalOf(ToSet(held), WeightBytes)
                              /\ more = TotalOf(ToSet(held) \cup {k}, WeightBytes)
                              /\ w = WeightMax + Largest * Others
    OBVIOUS
  <2>4. /\ IsFiniteSet(ToSet(held)) /\ Sizes(ToSet(held), WeightBytes) /\ total \in Nat
        /\ k \in ToSet(held) <=> In(k)
    BY <1>2, <2>3, HeldSizes
  <2>5. more <= total + b /\ more \in Nat /\ (~In(k) => more = total + b)
    <3>1. CASE In(k)
      <4>1. ToSet(held) \cup {k} = ToSet(held)
        BY <2>4, <3>1
      <4>2. more = total
        BY <2>3, <4>1
      <4> QED BY <1>4, <2>4, <3>1, <4>2
    <3>2. CASE ~In(k)
      <4>1. more = total + b
        BY <1>3, <1>4, <2>3, <2>4, <3>2, TotalWith
      <4> QED BY <1>4, <2>4, <4>1
    <3> QED BY <3>1, <3>2
  <2>6. /\ heldBytes >= total + l /\ total + c <= w
        /\ Exact => heldBytes = total + l
    BY <1>1, <1>13, <2>1, <2>3 DEF AttentionInv, CountedAs
  <2>7. m = l /\ d = c - b
    BY <1>4, <2>1, <2>2
  <2>8. w \in Nat /\ heldBytes' = heldBytes + b
    BY <1>1, <1>3, <2>3, CountOthers
  <2>9. Exact' => Exact /\ ~In(k)
    BY <1>1, <1>3 DEF Exact, wBooks
  <2>10. /\ heldBytes' >= more + m /\ more + d <= w
         /\ Exact' => heldBytes' = more + m
    <3>1. heldBytes' >= more + m
      BY <1>2, <1>4, <2>1, <2>4, <2>5, <2>6, <2>7, <2>8
    <3>2. more + d <= w
      BY <1>2, <1>4, <2>1, <2>4, <2>5, <2>6, <2>7, <2>8
    <3>3. Exact' => heldBytes' = more + m
      BY <1>2, <1>4, <2>1, <2>4, <2>5, <2>6, <2>7, <2>8, <2>9
    <3> QED BY <3>1, <3>2, <3>3
  <2>11. CountedAs(heldBytes', held', m, d, Exact')
    BY <1>3, <1>6, <2>3, <2>10 DEF CountedAs
  <2> QED BY <2>1, <2>11
<1>14. ~overlapped' /\ ~clearedAmid' => OneByOne' /\ ~storedTwice'
  <2>1. SUFFICES ASSUME ~overlapped', ~clearedAmid' PROVE OneByOne' /\ ~storedTwice'
    OBVIOUS
  <2>2. OneByOne /\ ~storedTwice
    <3>1. overlapped' = overlapped /\ clearedAmid' = clearedAmid
      BY <1>1 DEF wBooks
    <3> QED BY <2>1, <3>1 DEF AttentionInv
  <2>3. ~In(thread[t].key)
    BY <1>3, <1>12, <2>2
  <2> QED BY <1>1, <1>11, <2>2, <2>3
<1> QED BY <1>9, <1>10, <1>11, <1>13, <1>14 DEF AttentionInv

-----------------------------------------------------------------------------
(***************************************************************************)
(* Together.                                                               *)
(***************************************************************************)
LEMMA AttentionInit == WInit => AttentionInv
<1> SUFFICES ASSUME WInit PROVE AttentionInv
  OBVIOUS
<1>1. /\ heldBytes = 0 /\ begun = 0 /\ thread = [t \in CacheThreads |-> AtRest]
      /\ lostBytes = FALSE /\ storedTwice = FALSE
  BY DEF WInit
<1>2. held \in Seq(Weights) /\ ToSet(held) = {}
  <2>1. held = <<>>
    BY DEF WInit
  <2> QED BY <2>1 DEF ToSet
<1>3. DOMAIN futures = {}
  <2>1. futures = <<>>
    BY DEF WInit
  <2> QED BY <2>1
<1>4. tasks \in Seq(Tasks) /\ Len(tasks) = 0
  <2>1. tasks = <<>>
    BY DEF WInit
  <2> QED BY <2>1
<1>5. AtRest \in ThreadRecords /\ \A t \in CacheThreads : thread[t].pc = "idle"
  BY <1>1, AtRestFacts
<1>6. /\ \A t \in CacheThreads : ~Working(t) /\ At(t, "idle") /\ ~At(t, "look") /\ ~At(t, "await")
      /\ Places = {}
  BY <1>4, <1>5 DEF Working, At, Places
<1>7. AttentionTypes
  <2>1. thread \in [CacheThreads -> ThreadRecords]
    BY <1>1, <1>5
  <2>2. \A t \in Workers : thread[t].pc \in WorkerStages
    BY <1>5, WeightFacts DEF WorkerStages
  <2> QED BY <1>1, <1>2, <1>3, <1>4, <1>6, <2>1, <2>2, WeightFacts DEF AttentionTypes
<1>8. Admitted
  BY <1>5 DEF Admitted
<1>9. TasksTaken
  BY <1>1, <1>3, <1>6, WeightFacts DEF TasksTaken
<1>10. OneByOne
  BY <1>3, <1>6, WeightFacts DEF OneByOne
<1>11. Counted
  <2>1. Leavers(thread) = {} /\ Comers(thread) = {}
    BY <1>5 DEF Leavers, Comers
  <2>2. Leaving(thread) = 0 /\ Coming(thread) = 0
    BY <2>1, TotalOfNone DEF Leaving, Coming
  <2>3. TotalOf(ToSet(held), WeightBytes) = 0
    BY <1>2, TotalOfNone
  <2>4. 0 <= WeightMax + Largest * Others
    BY CountOthers
  <2> QED BY <1>1, <2>2, <2>3, <2>4 DEF Counted, CountedAs
<1> QED BY <1>1, <1>7, <1>8, <1>9, <1>10, <1>11 DEF AttentionInv

LEMMA AttentionStep == AttentionInv /\ [WNext]_wVars => AttentionInv'
<1> SUFFICES ASSUME AttentionInv, [WNext]_wVars PROVE AttentionInv'
  OBVIOUS
<1>1. ASSUME NEW d \in Decoders,
             \/ StartPass(d) \/ NextWeight(d) \/ GetWeight(d) \/ TouchWeight(d)
             \/ LookForFuture(d) \/ AwaitFuture(d)
      PROVE  AttentionInv'
  BY <1>1, StartKeeps, NextKeeps, GetKeeps, TouchKeeps, LookKeeps, AwaitKeeps
<1>2. ASSUME NEW t \in CacheThreads,
             \/ TakeTask(t) \/ LoadWeight(t) \/ AdmitWeight(t) \/ MakeRoom(t)
             \/ EvictWeight(t) \/ ReadCount(t) \/ WriteCount(t) \/ PutWeight(t)
      PROVE  AttentionInv'
  BY <1>2, TakeKeeps, LoadWeightKeeps, AdmitKeeps, RoomKeeps, EvictKeeps, ReadKeeps,
     WriteKeeps, PutKeeps
<1>3. CASE ClearWeights
  BY <1>3, ClearHeldKeeps
<1>4. CASE ClearCount
  BY <1>4, ClearCountKeeps
<1>5. CASE ClearFutures
  BY <1>5, ClearFuturesKeeps
<1>6. CASE UNCHANGED wVars
  <2>1. /\ held' = held /\ heldBytes' = heldBytes /\ futures' = futures /\ tasks' = tasks
        /\ begun' = begun /\ thread' = thread /\ lostBytes' = lostBytes
        /\ storedTwice' = storedTwice /\ overlapped' = overlapped /\ clearedAmid' = clearedAmid
        /\ Exact' = Exact /\ Places' = Places
    BY <1>6 DEF wVars, Exact, Places
  <2>2. /\ \A t : (Working(t)' <=> Working(t)) /\ \A label : At(t, label)' <=> At(t, label)
        /\ Leaving(thread)' = Leaving(thread) /\ Coming(thread)' = Coming(thread)
        /\ \A k : In(k)' <=> In(k)
    BY <2>1, NobodyMoves DEF In
  <2>3. AttentionTypes' /\ Admitted' /\ TasksTaken'
    BY <2>1, <2>2 DEF AttentionInv, AttentionTypes, Admitted, TasksTaken
  <2>4. (OneByOne => OneByOne') /\ (Counted => Counted')
    BY <2>1, <2>2 DEF OneByOne, Counted
  <2> QED BY <2>1, <2>3, <2>4 DEF AttentionInv
<1> QED BY <1>1, <1>2, <1>3, <1>4, <1>5, <1>6 DEF WNext

LEMMA OnceLoaded == AttentionTypes /\ TasksTaken /\ OneByOne => LoadedOnce
<1> SUFFICES ASSUME AttentionTypes, TasksTaken, OneByOne, NEW t \in CacheThreads, Working(t)
             PROVE  /\ ~In(thread[t].key)
                    /\ \A u \in CacheThreads \ {t} : Working(u) => thread[u].key # thread[t].key
  BY DEF LoadedOnce
<1>1. ASSUME NEW u \in Workers, Working(u)
      PROVE  /\ thread[u].key \in DOMAIN futures /\ futures[thread[u].key] = thread[u].task
             /\ ~In(thread[u].key)
  <2>1. /\ thread[u].task \in 1 .. begun /\ tasks[thread[u].task].answer = "pending"
        /\ tasks[thread[u].task].key = thread[u].key
    BY <1>1 DEF TasksTaken
  <2>2. thread[u].task \in Places
    BY <2>1, LenProperties DEF AttentionTypes, Places
  <2> QED BY <2>1, <2>2 DEF OneByOne
<1>2. ASSUME NEW d \in Decoders, Working(d)
      PROVE  /\ thread[d].key \notin DOMAIN futures /\ ~In(thread[d].key)
             /\ \A e \in Decoders \ {d} : ~Working(e)
  <2>1. \A e \in Decoders : Working(e) => ~At(e, "idle")
    BY DEF Working, At
  <2> QED BY <1>2, <2>1 DEF OneByOne
<1>3. \A u, v \in Workers : Working(u) /\ Working(v) /\ thread[u].task = thread[v].task => u = v
  BY DEF TasksTaken
<1>4. \A u \in CacheThreads : u \in Decoders \/ u \in Workers
  BY WeightFacts
<1> QED BY <1>1, <1>2, <1>3, <1>4

LEMMA AttentionFollows == AttentionInv => AttentionCacheSound
<1> SUFFICES ASSUME AttentionInv PROVE AttentionCacheSound
  OBVIOUS
<1>1. overlapped \/ clearedAmid \/ (LoadedOnce /\ ~storedTwice)
  BY OnceLoaded DEF AttentionInv
<1>2. ASSUME ~lostBytes
      PROVE  /\ heldBytes >= HeldSize + LeavingSize /\ HeldWithin
             /\ storedTwice \/ clearStep = "count" \/ heldBytes = HeldSize + LeavingSize
  <2>1. Counted /\ thread \in [CacheThreads -> ThreadRecords] /\ AttentionTypes
    BY <1>2 DEF AttentionInv, AttentionTypes
  <2>2. LeavingSize = Leaving(thread) /\ HeldSize = TotalOf(ToSet(held), WeightBytes)
    BY DEF LeavingSize, HeldSize, Leaving, Leavers, Subtracting, VictimBytes
  <2>3. PICK T, c, w : T = HeldSize /\ c = Coming(thread) /\ w = WeightMax + Largest * Others
    OBVIOUS
  <2>4. /\ heldBytes >= T + LeavingSize /\ T + c <= w
        /\ Exact => heldBytes = T + LeavingSize
    BY <2>1, <2>2, <2>3 DEF Counted, CountedAs
  <2>5. T \in Nat /\ c \in Nat /\ w \in Nat
    BY <2>1, <2>2, <2>3, HeldSizes, ThreadSets, CountOthers
  <2>6. T <= w
    BY <2>4, <2>5
  <2>7. PICK k \in Weights : WeightBytes[k] = Largest /\ \A o \in Weights : WeightBytes[o] <= Largest
    BY LargestFacts
  <2>8. HeldWithin
    BY <2>3, <2>6, <2>7 DEF HeldWithin, Others
  <2> QED BY <2>3, <2>4, <2>8 DEF Exact
<1> QED BY <1>1, <1>2 DEF AttentionCacheSound

\* However decodes, prefetches, stores, evictions and the steps of a clear fall between
\* each other in the cache of attention weights (fp8_source.py): decodes that neither
\* overlap nor meet a clear load and store no weight twice; and as long as no update of
\* the count was overwritten the count covers what is held, what is held keeps to the
\* limit up to one weight for each thread but one, and the count is exact if no weight
\* was stored twice.
THEOREM AttentionIsSound == WSpec => []AttentionCacheSound
<1>1. WInit => AttentionInv
  BY AttentionInit
<1>2. AttentionInv /\ [WNext]_wVars => AttentionInv'
  BY AttentionStep
<1>3. AttentionInv => AttentionCacheSound
  BY AttentionFollows
<1> QED BY <1>1, <1>2, <1>3, PTL DEF WSpec

-----------------------------------------------------------------------------
\* While one part moves, the others stay as they are.
LEMMA PackedSteps == [LoadNext]_loadVars => [PNext]_pVars
  BY DEF LoadNext, loadVars

LEMMA PackInvariance == LoadSpec => []PackInv
<1>1. LoadInit => PackInv
  BY PackInit DEF LoadInit
<1>2. PackInv /\ [LoadNext]_loadVars => PackInv'
  BY PackedSteps, PackStep
<1> QED BY <1>1, <1>2, PTL DEF LoadSpec

\* The packed weights are listed once, their count is what they take, and only one
\* of those that may go does not fit (layer_bridge.py).
THEOREM PackedIsSound == LoadSpec => []PackedCacheSound
<1>1. PackInv => PackedCacheSound
  BY PackFollows
<1> QED BY <1>1, PackInvariance, PTL

\* The converted tensors, the packed weights and the files have their types.
THEOREM LoadTypes == LoadSpec => []TypesOK
<1>1. PackInv => PTypeOK
  BY PackFollows
<1>2. TypeOK /\ PTypeOK /\ BTypeOK => TypesOK
  BY DEF TypesOK
<1> QED BY <1>1, <1>2, TypeCorrect, PackInvariance, FilesTyped, PTL

==============================================================================
