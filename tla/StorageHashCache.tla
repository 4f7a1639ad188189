--------------------------- MODULE StorageHashCache ---------------------------
(***************************************************************************)
(* Concurrent callers of Metadata::storage_hash (metadata_type.rs) on one  *)
(* Metadata snapshot shared through its Arc, and the HashCache they share  *)
(* (cached_storage_hashes).                                                *)
(*                                                                         *)
(* get_or_insert(pallet, item, f) reads the map under the read lock and    *)
(* returns a hit; on a miss it runs f with no lock held and then inserts   *)
(* f's result under the write lock.  The read and the insert are two       *)
(* separate critical sections, so any number of other calls can run       *)
(* between a caller's miss and its insert: that window is the Lookup/Fill  *)
(* split below.  f itself is pure (it reads the immutable snapshot), so    *)
(* running it and inserting its result is one step.  hash_cache.rs is not *)
(* part of the sources; get_or_insert follows the design's section 4.3,    *)
(* which caches the first result, hash or error, per (pallet, item).       *)
(***************************************************************************)
EXTENDS Metadata

CONSTANTS
    Callers,   \* concurrent tasks holding clones of the Metadata
    Pallets    \* RuntimeMetadataV14.pallets of the snapshot

ASSUME PalletsAssumption == WellFormed(Pallets)

VARIABLES
    cache,  \* the HashCache map: PalletItemKey -> cached result
    pc,     \* where each caller is in storage_hash
    arg,    \* the (pallet, storage) a caller asked for
    ret     \* what storage_hash last returned to the caller

vars == <<cache, pc, arg, ret>>

(* Mutant: a key built from the pallet name alone.                         *)
CacheKeyPalletOnly(p, s) == p

(* PalletItemKey::new(pallet, item): both names, kept apart.               *)
CacheKey(p, s) == <<p, s>>

Key == PalletName \X ItemName

ErrorName == {"PalletNotFound", "StorageNotFound"}

Result == {Ok(EntryHash(e)) : e \in Entry} \cup {Err(e) : e \in ErrorName}

(* The caller's return slot before its first call has returned.            *)
NoResult == [ok |-> FALSE, val |-> "NoResult"]

TypeOK ==
    /\ DOMAIN cache \subseteq Key
    /\ cache \in [DOMAIN cache -> Result]
    /\ pc \in [Callers -> {"idle", "lookup", "fill"}]
    /\ arg \in [Callers -> Key]
    /\ ret \in [Callers -> Result \cup {NoResult}]

Init ==
    /\ cache = [k \in {} |-> NoResult]
    /\ pc = [c \in Callers |-> "idle"]
    /\ arg = [c \in Callers |-> CHOOSE k \in Key : TRUE]
    /\ ret = [c \in Callers |-> NoResult]

(* Caller c calls metadata.storage_hash(p, s).                             *)
StorageHash(c, p, s) ==
    /\ pc[c] = "idle"
    /\ pc' = [pc EXCEPT ![c] = "lookup"]
    /\ arg' = [arg EXCEPT ![c] = <<p, s>>]
    /\ ret' = [ret EXCEPT ![c] = NoResult]
    /\ UNCHANGED cache

(* get_or_insert under the read lock: a hit returns the cached result      *)
(* without calling f.                                                      *)
LookupHit(c) ==
    LET k == CacheKey(arg[c][1], arg[c][2]) IN
    /\ pc[c] = "lookup"
    /\ k \in DOMAIN cache
    /\ ret' = [ret EXCEPT ![c] = cache[k]]
    /\ pc' = [pc EXCEPT ![c] = "idle"]
    /\ UNCHANGED <<cache, arg>>

(* A miss releases the read lock and goes on to compute.                   *)
LookupMiss(c) ==
    /\ pc[c] = "lookup"
    /\ CacheKey(arg[c][1], arg[c][2]) \notin DOMAIN cache
    /\ pc' = [pc EXCEPT ![c] = "fill"]
    /\ UNCHANGED <<cache, arg, ret>>

(* Mutant: f's result returned but never inserted.                         *)
FillNoInsert(c) ==
    LET r == StorageHashOf(Pallets, arg[c][1], arg[c][2]) IN
    /\ pc[c] = "fill"
    /\ ret' = [ret EXCEPT ![c] = r]
    /\ pc' = [pc EXCEPT ![c] = "idle"]
    /\ UNCHANGED <<cache, arg>>

(* f() = get_storage_hash with its error mapped, then insert under the     *)
(* write lock (HashMap::insert overwrites whatever a racing caller put     *)
(* there in the meantime) and return the computed result.                  *)
Fill(c) ==
    LET k == CacheKey(arg[c][1], arg[c][2])
        r == StorageHashOf(Pallets, arg[c][1], arg[c][2])
    IN
    /\ pc[c] = "fill"
    /\ cache' = [x \in DOMAIN cache \cup {k} |-> IF x = k THEN r ELSE cache[x]]
    /\ ret' = [ret EXCEPT ![c] = r]
    /\ pc' = [pc EXCEPT ![c] = "idle"]
    /\ UNCHANGED arg

Next ==
    \E c \in Callers :
        \/ \E p \in PalletName, s \in ItemName : StorageHash(c, p, s)
        \/ LookupHit(c)
        \/ LookupMiss(c)
        \/ Fill(c)

Spec == Init /\ [][Next]_vars

-----------------------------------------------------------------------------
(***************************************************************************)
(* What storage_hash promises, from the names alone: PalletNotFound when   *)
(* no pallet has the name, StorageNotFound when that pallet has no storage *)
(* or no entry of that name, and otherwise the hash of that entry.         *)
(***************************************************************************)
Elems(s) == {s[i] : i \in DOMAIN s}

SpecStorageHash(p, s) ==
    IF \A pl \in Elems(Pallets) : pl.name # p THEN Err("PalletNotFound")
    ELSE LET pl == CHOOSE x \in Elems(Pallets) : x.name = p IN
         IF ~pl.hasStorage \/ \A e \in Elems(pl.entries) : e.name # s
         THEN Err("StorageNotFound")
         ELSE Ok(EntryHash(CHOOSE e \in Elems(pl.entries) : e.name = s))

(* Every result a caller got back from storage_hash, whether computed by   *)
(* itself or read from an entry another caller's fill left in the shared   *)
(* cache, is the one the contract gives for the names that caller asked    *)
(* for.  A cache key that conflated two (pallet, item) pairs, or a lookup  *)
(* in get_storage_hash that answered for the wrong pallet or with the      *)
(* wrong error, would hand some caller another key's result.               *)
ResultCorrect ==
    \A c \in Callers :
        ret[c] # NoResult => ret[c] = SpecStorageHash(arg[c][1], arg[c][2])

(* Every entry in the cache holds the contract's result for its key: the   *)
(* strengthening of ResultCorrect that survives each step.                 *)
CacheSound ==
    \A k \in DOMAIN cache : cache[k] = SpecStorageHash(k[1], k[2])

-----------------------------------------------------------------------------
(***************************************************************************)
(* The refinement mapping to AtomicMemo: the cache is the memo, a caller   *)
(* anywhere inside storage_hash is busy, and the memoised function is the *)
(* closure storage_hash passes.  A hit and a fill are the instants where a *)
(* call takes effect; a miss is a stutter.                                 *)
(***************************************************************************)
Memo == INSTANCE AtomicMemo
           WITH F <- LAMBDA k : StorageHashOf(Pallets, k[1], k[2]),
                memo <- cache,
                mpc <- [c \in Callers |-> IF pc[c] = "idle" THEN "idle" ELSE "busy"],
                marg <- arg,
                mret <- ret

(* Design 4.3 and 6: concurrent get_or_insert calls behave as atomic memo  *)
(* calls.  The miss and the insert are separate critical sections and a   *)
(* racing fill overwrites the slot, yet every caller gets what a call     *)
(* taking effect at one instant would give, and the first result computed *)
(* for a key is remembered for every later call.                           *)
ImplementsMemo == Memo!Spec

=============================================================================
