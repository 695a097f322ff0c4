----------------------------- MODULE PackedCache -----------------------------
(***************************************************************************)
(* The caches of packed weights of tensor_residency.py: raw fp16 bytes,    *)
(* and Q4 codes with their scales.  Both work the same way: a load looks   *)
(* its tensor up under _cache_lock, reads it from disk without the lock,   *)
(* and stores it under the lock again.  One of them is modelled.           *)
(***************************************************************************)
EXTENDS Integers, Sequences, FiniteSets, OrderLists, SequencesExt

CONSTANTS Loaders,      \* threads that load weights
          Packs,        \* keys of the cache
          PackBytes,    \* of each, the bytes
          AlwaysKept,   \* those that are always resident
          Budgets,      \* budgets in bytes that a load may work with
          MaxLoads      \* bound on loads and clears

ASSUME PackAssumption ==
    /\ PackBytes \in [Packs -> Nat \ {0}]
    /\ AlwaysKept \subseteq Packs /\ Budgets \subseteq Nat /\ Budgets # {}
    /\ MaxLoads \in Nat

VARIABLES packed,       \* the keys in the cache, least recently used first
          packedBytes,  \* the bytes that are accounted for
          load,         \* what each thread loads
          loads         \* how often a load or a clear has begun

pVars == <<packed, packedBytes, load, loads>>

NoLoad == [at |-> "idle"]

PInit ==
    /\ packed = <<>> /\ packedBytes = 0 /\ loads = 0
    /\ load = [t \in Loaders |-> NoLoad]

BytesOf(keys) == TotalOf(keys, PackBytes)

Used(seq, key) == PutLast(seq, {key}, key)

\* The budget is an explicit setting, or a share of the free memory that a clear
\* makes the next load measure anew.
LookupPack(t, key, budget) ==
    /\ load[t] = NoLoad /\ loads < MaxLoads /\ loads' = loads + 1
    /\ IF key \in ToSet(packed)
         THEN packed' = Used(packed, key) /\ UNCHANGED load
         ELSE /\ load' = [load EXCEPT ![t] = [at |-> "read", key |-> key, budget |-> budget]]
              /\ UNCHANGED packed
    /\ UNCHANGED packedBytes

\* Without the lock; a read that fails, or finds nothing, stores nothing.
ReadPack(t) ==
    /\ load[t].at = "read"
    /\ load' \in {[load EXCEPT ![t] = NoLoad], [load EXCEPT ![t].at = "store"]}
    /\ UNCHANGED <<packed, packedBytes, loads>>

\* The keys that go, the least recently used first, until the new one fits or
\* only those are left that are always kept.
PackVictims(key, budget) ==
    LET may == WithoutAll(packed, AlwaysKept)
        first(n) == {may[i] : i \in 1 .. n}
        fits(n) == packedBytes - BytesOf(first(n)) + PackBytes[key] <= budget
    IN  first(CHOOSE n \in 0 .. Len(may) : /\ fits(n) \/ n = Len(may)
                                           /\ \A m \in 0 .. n - 1 : ~fits(m))

Insert(key, budget) ==
    LET gone == PackVictims(key, budget)
    IN  /\ packed' = PutLast(packed, gone \cup {key}, key)
        /\ packedBytes' = packedBytes - BytesOf(gone) + PackBytes[key]

\* Mutant: what another load has stored meanwhile is overwritten.
StorePackAgain(t) ==
    /\ load[t].at = "store" /\ load' = [load EXCEPT ![t] = NoLoad]
    /\ IF load[t].key \notin AlwaysKept /\ PackBytes[load[t].key] > load[t].budget
         THEN UNCHANGED <<packed, packedBytes>>
         ELSE Insert(load[t].key, load[t].budget)
    /\ UNCHANGED loads

\* Another load may have stored the key meanwhile.
StorePack(t) ==
    LET key == load[t].key
        budget == load[t].budget
    IN  /\ load[t].at = "store" /\ load' = [load EXCEPT ![t] = NoLoad]
        /\ \/ /\ key \in ToSet(packed)
              /\ packed' = Used(packed, key) /\ UNCHANGED packedBytes
           \/ /\ key \notin ToSet(packed)
              /\ key \notin AlwaysKept /\ PackBytes[key] > budget
              /\ UNCHANGED <<packed, packedBytes>>
           \/ /\ key \notin ToSet(packed)
              /\ key \in AlwaysKept \/ PackBytes[key] <= budget
              /\ Insert(key, budget)
        /\ UNCHANGED loads

ClearPacks ==
    /\ loads < MaxLoads /\ loads' = loads + 1
    /\ packed' = <<>> /\ packedBytes' = 0
    /\ UNCHANGED load

PNext ==
    \/ \E t \in Loaders : \/ \E key \in Packs, budget \in Budgets : LookupPack(t, key, budget)
                          \/ ReadPack(t) \/ StorePack(t)
    \/ ClearPacks

PSpec == PInit /\ [][PNext]_pVars

-----------------------------------------------------------------------------
PTypeOK ==
    /\ packed \in Seq(Packs) /\ packedBytes \in Nat
    /\ \A t \in Loaders : load[t].at \in {"idle", "read", "store"}
    /\ loads \in 0 .. MaxLoads

\* However loads and clears overlap, every weight in the cache is counted once,
\* and the cache is over the budget only by weights that are always kept and the
\* one stored last.
PackedCacheSound ==
    /\ Once(packed) /\ packedBytes = BytesOf(ToSet(packed))
    /\ (\A b \in Budgets : packedBytes > b) => Cardinality(ToSet(packed) \ AlwaysKept) <= 1
=============================================================================
