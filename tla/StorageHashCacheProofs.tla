------------------------ MODULE StorageHashCacheProofs ------------------------
(***************************************************************************)
(* Proofs about StorageHashCache for every set of callers, names and every *)
(* well-formed snapshot.  The argument: get_storage_hash's first-match     *)
(* lookups compute exactly the name-based contract SpecStorageHash         *)
(* (LookupMeetsContract, which rests on names being unique), so every fill *)
(* inserts the contract's value; hence every cache entry holds it          *)
(* (CacheSound), and every hit and every fill returns it (ResultCorrect).  *)
(***************************************************************************)
EXTENDS StorageHashCache, TLAPS

-----------------------------------------------------------------------------
(* The first-match search finds the one element named n, or reports 0.    *)
LEMMA FindByNameUnique ==
    ASSUME NEW s, NEW n, NEW S, s \in Seq(S), UniqueNames(s)
    PROVE  /\ (\A i \in DOMAIN s : s[i].name # n) => FindByName(s, n) = 0
           /\ \A i \in DOMAIN s : s[i].name = n => FindByName(s, n) = i
<1>1. (\A i \in DOMAIN s : s[i].name # n) => FindByName(s, n) = 0
    BY DEF FindByName
<1>2. ASSUME NEW i \in DOMAIN s, s[i].name = n
      PROVE  FindByName(s, n) = i
    <2>1. DOMAIN s = 1..Len(s)
        OBVIOUS
    <2>2. /\ s[i].name = n
          /\ \A j \in 1..(i - 1) : s[j].name # n
        BY <1>2, <2>1 DEF UniqueNames
    <2>3. PICK c \in DOMAIN s : /\ s[c].name = n
                                /\ \A j \in 1..(c - 1) : s[j].name # n
                                /\ FindByName(s, n) = c
        BY <1>2, <2>2 DEF FindByName
    <2>4. c = i
        BY <2>3, <1>2 DEF UniqueNames
    <2>5. QED
        BY <2>3, <2>4
<1>3. QED
    BY <1>1, <1>2

-----------------------------------------------------------------------------
(* The closure storage_hash passes to the cache answers every pair of      *)
(* names exactly as the contract does.                                     *)
LEMMA LookupMeetsContract ==
    ASSUME NEW p \in PalletName, NEW s \in ItemName
    PROVE  StorageHashOf(Pallets, p, s) = SpecStorageHash(p, s)
<1> USE PalletsAssumption DEF WellFormed
<1> DEFINE pi == FindByName(Pallets, p)
<1>1. CASE \A i \in DOMAIN Pallets : Pallets[i].name # p
    <2>1. pi = 0
        BY <1>1, FindByNameUnique
    <2>2. \A pl \in Elems(Pallets) : pl.name # p
        BY <1>1 DEF Elems
    <2>3. QED
        BY <2>1, <2>2 DEF StorageHashOf, GetStorageHash, SpecStorageHash,
                          MapNotFound, Ok, Err
<1>2. CASE \E i \in DOMAIN Pallets : Pallets[i].name = p
    <2>1. PICK i \in DOMAIN Pallets : Pallets[i].name = p
        BY <1>2
    <2>2. pi = i
        BY <2>1, FindByNameUnique
    <2>3. (CHOOSE x \in Elems(Pallets) : x.name = p) = Pallets[i]
        <3>1. \A x \in Elems(Pallets) : x.name = p => x = Pallets[i]
            BY <2>1 DEF Elems, UniqueNames
        <3>2. Pallets[i] \in Elems(Pallets)
            BY DEF Elems
        <3>3. QED
            BY <2>1, <3>1, <3>2
    <2>4. ~ \A pl \in Elems(Pallets) : pl.name # p
        BY <2>1 DEF Elems
    <2> DEFINE pl == Pallets[i]
    <2>5. pl \in Pallet /\ i # 0
        OBVIOUS
    <2>6. /\ pl.entries \in Seq(Entry)
          /\ UniqueNames(pl.entries)
        BY <2>5 DEF Pallet
    <2>7. CASE ~pl.hasStorage
        BY <2>2, <2>3, <2>4, <2>5, <2>7 DEF StorageHashOf, GetStorageHash,
                                      SpecStorageHash, MapNotFound, Ok, Err
    <2>8. CASE pl.hasStorage /\ \A j \in DOMAIN pl.entries : pl.entries[j].name # s
        <3>1. FindByName(pl.entries, s) = 0
            BY <2>6, <2>8, FindByNameUnique
        <3>2. \A e \in Elems(pl.entries) : e.name # s
            BY <2>8 DEF Elems
        <3>3. QED
            BY <2>2, <2>3, <2>4, <2>5, <2>8, <3>1, <3>2
            DEF StorageHashOf, GetStorageHash, SpecStorageHash, MapNotFound, Ok, Err
    <2>9. CASE pl.hasStorage /\ \E j \in DOMAIN pl.entries : pl.entries[j].name = s
        <3>1. PICK j \in DOMAIN pl.entries : pl.entries[j].name = s
            BY <2>9
        <3>2. FindByName(pl.entries, s) = j
            BY <2>6, <3>1, FindByNameUnique
        <3>3. (CHOOSE e \in Elems(pl.entries) : e.name = s) = pl.entries[j]
            <4>1. \A e \in Elems(pl.entries) : e.name = s => e = pl.entries[j]
                BY <2>6, <3>1 DEF Elems, UniqueNames
            <4>2. pl.entries[j] \in Elems(pl.entries)
                BY DEF Elems
            <4>3. QED
                BY <3>1, <4>1, <4>2
        <3>4. ~ \A e \in Elems(pl.entries) : e.name # s
            BY <3>1 DEF Elems
        <3>5. j # 0
            BY <2>6
        <3>6. QED
            BY <2>2, <2>3, <2>4, <2>5, <2>9, <3>2, <3>3, <3>4, <3>5
            DEF StorageHashOf, GetStorageHash, SpecStorageHash, Ok, Err
    <2>10. QED
        BY <2>7, <2>8, <2>9
<1>3. QED
    BY <1>1, <1>2

(* The contract's answer is always one of the results storage_hash can     *)
(* return.                                                                 *)
LEMMA ContractTyped ==
    ASSUME NEW p \in PalletName, NEW s \in ItemName
    PROVE  SpecStorageHash(p, s) \in Result
<1> USE PalletsAssumption DEF WellFormed
<1>1. CASE \A pl \in Elems(Pallets) : pl.name # p
    BY <1>1 DEF SpecStorageHash, Result, ErrorName, Err
<1>2. CASE ~ \A pl \in Elems(Pallets) : pl.name # p
    <2> DEFINE pl == CHOOSE x \in Elems(Pallets) : x.name = p
    <2>1. pl \in Elems(Pallets)
        BY <1>2
    <2>2. pl.entries \in Seq(Entry)
        <3>1. PICK i \in DOMAIN Pallets : pl = Pallets[i]
            BY <2>1 DEF Elems
        <3>2. Pallets[i] \in Pallet
            OBVIOUS
        <3>3. QED
            BY <3>1, <3>2 DEF Pallet
    <2>3. CASE ~pl.hasStorage \/ \A e \in Elems(pl.entries) : e.name # s
        BY <1>2, <2>3 DEF SpecStorageHash, Result, ErrorName, Err
    <2>4. CASE ~(~pl.hasStorage \/ \A e \in Elems(pl.entries) : e.name # s)
        <3> DEFINE e == CHOOSE x \in Elems(pl.entries) : x.name = s
        <3>0. \E x \in Elems(pl.entries) : x.name = s
            BY <2>4
        <3>1. e \in Entry
            <4>1. e \in Elems(pl.entries)
                BY <3>0
            <4>2. PICK j \in DOMAIN pl.entries : e = pl.entries[j]
                BY <4>1 DEF Elems
            <4>3. pl.entries[j] \in Entry
                BY <2>2
            <4>4. QED
                BY <4>2, <4>3
        <3>2. SpecStorageHash(p, s) = Ok(EntryHash(e))
            BY <1>2, <2>4 DEF SpecStorageHash
        <3>3. QED
            BY <3>1, <3>2 DEF Result
    <2>5. QED
        BY <2>3, <2>4
<1>3. QED
    BY <1>1, <1>2

-----------------------------------------------------------------------------
(* One step of any action keeps the types.                                *)
LEMMA TypeStep == TypeOK /\ [Next]_vars => TypeOK'
<1> SUFFICES ASSUME TypeOK, [Next]_vars PROVE TypeOK'
    OBVIOUS
<1>1. ASSUME NEW c \in Callers, NEW p \in PalletName, NEW s \in ItemName,
             StorageHash(c, p, s)
      PROVE  TypeOK'
    BY <1>1 DEF StorageHash, TypeOK, Key
<1>2. ASSUME NEW c \in Callers, LookupHit(c)
      PROVE  TypeOK'
    BY <1>2 DEF LookupHit, TypeOK
<1>3. ASSUME NEW c \in Callers, LookupMiss(c)
      PROVE  TypeOK'
    BY <1>3 DEF LookupMiss, TypeOK
<1>4. ASSUME NEW c \in Callers, Fill(c)
      PROVE  TypeOK'
    <2>1. arg[c] \in PalletName \X ItemName
        BY DEF TypeOK, Key
    <2>2. StorageHashOf(Pallets, arg[c][1], arg[c][2]) \in Result
        BY <2>1, LookupMeetsContract, ContractTyped
    <2>3. CacheKey(arg[c][1], arg[c][2]) \in Key
        BY <2>1 DEF CacheKey, Key
    <2>4. QED
        BY <1>4, <2>2, <2>3 DEF Fill, TypeOK
<1>5. CASE UNCHANGED vars
    BY <1>5 DEF vars, TypeOK
<1>6. QED
    BY <1>1, <1>2, <1>3, <1>4, <1>5 DEF Next

(* The initial state is well typed.                                         *)
LEMMA TypeInit == Init => TypeOK
<1>1. (CHOOSE k \in Key : TRUE) \in Key
    <2>1. PICK p0 \in PalletName : TRUE
        BY NamesAssumption
    <2>2. PICK s0 \in ItemName : TRUE
        BY NamesAssumption
    <2>3. <<p0, s0>> \in Key
        BY DEF Key
    <2>4. QED
        BY <2>3, Zenon
<1>2. QED
    BY <1>1 DEF Init, TypeOK, NoResult

(* Type correctness of the cache and the callers' state.                   *)
THEOREM TypeCorrect == Spec => []TypeOK
BY TypeInit, TypeStep, PTL DEF Spec

-----------------------------------------------------------------------------
(* The inductive invariant: types, the cache's entries, and the callers'   *)
(* results all agree with the contract.                                    *)
IInv == TypeOK /\ CacheSound /\ ResultCorrect

LEMMA IInvInit == Init => IInv
<1>1. Init => TypeOK
    BY TypeInit
<1>2. Init => CacheSound /\ ResultCorrect
    BY DEF Init, CacheSound, ResultCorrect
<1>3. QED
    BY <1>1, <1>2 DEF IInv

LEMMA IInvStep == IInv /\ [Next]_vars => IInv'
<1> SUFFICES ASSUME IInv, [Next]_vars PROVE IInv'
    OBVIOUS
<1>1. TypeOK'
    BY TypeStep DEF IInv
<1> USE DEF IInv
<1>2. ASSUME NEW c \in Callers, NEW p \in PalletName, NEW s \in ItemName,
             StorageHash(c, p, s)
      PROVE  CacheSound' /\ ResultCorrect'
    BY <1>2 DEF StorageHash, CacheSound, ResultCorrect, TypeOK
<1>3. ASSUME NEW c \in Callers, LookupHit(c)
      PROVE  CacheSound' /\ ResultCorrect'
    <2>1. CacheSound'
        BY <1>3 DEF LookupHit, CacheSound
    <2>2. ret'[c] = SpecStorageHash(arg'[c][1], arg'[c][2])
        BY <1>3 DEF LookupHit, CacheSound, CacheKey, TypeOK
    <2>3. QED
        BY <1>3, <2>1, <2>2 DEF LookupHit, ResultCorrect, TypeOK
<1>4. ASSUME NEW c \in Callers, LookupMiss(c)
      PROVE  CacheSound' /\ ResultCorrect'
    BY <1>4 DEF LookupMiss, CacheSound, ResultCorrect
<1>5. ASSUME NEW c \in Callers, Fill(c)
      PROVE  CacheSound' /\ ResultCorrect'
    <2> DEFINE k == CacheKey(arg[c][1], arg[c][2])
               r == StorageHashOf(Pallets, arg[c][1], arg[c][2])
    <2>1. arg[c] \in PalletName \X ItemName
        BY DEF TypeOK, Key
    <2>2. r = SpecStorageHash(k[1], k[2])
        BY <2>1, LookupMeetsContract DEF CacheKey
    <2>3. CacheSound'
        BY <1>5, <2>2 DEF Fill, CacheSound
    <2>4. ResultCorrect'
        BY <1>5, <2>2 DEF Fill, ResultCorrect, CacheKey, TypeOK
    <2>5. QED
        BY <2>3, <2>4
<1>6. CASE UNCHANGED vars
    <2>1. cache' = cache /\ arg' = arg /\ ret' = ret
        BY <1>6 DEF vars
    <2>2. QED
        BY <1>1, <2>1 DEF CacheSound, ResultCorrect
<1>7. QED
    BY <1>1, <1>2, <1>3, <1>4, <1>5, <1>6 DEF Next

(* Every result storage_hash returns, to any caller in any interleaving,   *)
(* is the contract's answer for the names that caller passed.              *)
THEOREM ResultsMeetContract == Spec => []ResultCorrect
BY IInvInit, IInvStep, PTL DEF Spec, IInv

-----------------------------------------------------------------------------
(* The callers' pc seen through the refinement mapping.                    *)
BusyOf == [c \in Callers |-> IF pc[c] = "idle" THEN "idle" ELSE "busy"]

(* The key a caller's call is on: the pair it passed.                      *)
LEMMA KeyIsArg ==
    ASSUME TypeOK, NEW c \in Callers
    PROVE  CacheKey(arg[c][1], arg[c][2]) = arg[c]
BY DEF TypeOK, Key, CacheKey

(* The initial state maps to an initial state of the memo.                 *)
LEMMA MemoInit == Init => Memo!Init
<1> SUFFICES ASSUME Init PROVE Memo!Init
    OBVIOUS
<1>1. arg \in [Callers -> Key]
    BY TypeInit DEF TypeOK
<1>2. QED
    BY <1>1 DEF Init, Memo!Init

(* Every step maps to a memo step or a stutter: a call is an Invoke, a hit *)
(* and a fill are the Respond of the call, a miss changes nothing the memo *)
(* sees.                                                                   *)
LEMMA MemoStep == IInv /\ [Next]_vars => [Memo!Next]_Memo!mvars
<1> SUFFICES ASSUME IInv, [Next]_vars PROVE [Memo!Next]_Memo!mvars
    OBVIOUS
<1> USE DEF IInv
<1>1. ASSUME NEW c \in Callers, NEW p \in PalletName, NEW s \in ItemName,
             StorageHash(c, p, s)
      PROVE  Memo!Invoke(c, <<p, s>>)
    <2>1. BusyOf' = [BusyOf EXCEPT ![c] = "busy"]
        BY <1>1 DEF StorageHash, BusyOf, TypeOK
    <2>2. BusyOf[c] = "idle"
        BY <1>1 DEF StorageHash, BusyOf
    <2>3. QED
        BY <1>1, <2>1, <2>2 DEF StorageHash, Memo!Invoke, BusyOf
<1>2. ASSUME NEW c \in Callers, LookupHit(c)
      PROVE  Memo!Respond(c)
    <2>1. CacheKey(arg[c][1], arg[c][2]) = arg[c]
        BY KeyIsArg
    <2>2. BusyOf' = [BusyOf EXCEPT ![c] = "idle"] /\ BusyOf[c] = "busy"
        BY <1>2 DEF LookupHit, BusyOf, TypeOK
    <2>3. QED
        BY <1>2, <2>1, <2>2 DEF LookupHit, Memo!Respond, BusyOf
<1>3. ASSUME NEW c \in Callers, LookupMiss(c)
      PROVE  UNCHANGED Memo!mvars
    <2>1. BusyOf' = BusyOf
        BY <1>3 DEF LookupMiss, BusyOf, TypeOK
    <2>2. QED
        BY <1>3, <2>1 DEF LookupMiss, Memo!mvars, BusyOf
<1>4. ASSUME NEW c \in Callers, Fill(c)
      PROVE  Memo!Respond(c)
    <2> DEFINE k == arg[c]
               r == StorageHashOf(Pallets, arg[c][1], arg[c][2])
    <2>1. CacheKey(arg[c][1], arg[c][2]) = k
        BY KeyIsArg
    <2>2. k \in PalletName \X ItemName
        BY DEF TypeOK, Key
    <2>3. r = SpecStorageHash(k[1], k[2])
        BY <2>2, LookupMeetsContract
    <2>4. BusyOf' = [BusyOf EXCEPT ![c] = "idle"] /\ BusyOf[c] = "busy"
        BY <1>4 DEF Fill, BusyOf, TypeOK
    <2>5. cache' = [x \in DOMAIN cache \cup {k} |-> IF x = k THEN r ELSE cache[x]]
        BY <1>4, <2>1 DEF Fill
    <2>6. CASE k \in DOMAIN cache
        <3>1. cache[k] = r
            BY <2>3, <2>6 DEF CacheSound
        <3>2. cache' = cache
            BY <2>5, <2>6, <3>1 DEF TypeOK
        <3>3. ret' = [ret EXCEPT ![c] = cache[k]]
            BY <1>4, <3>1 DEF Fill
        <3>4. QED
            BY <1>4, <2>4, <2>6, <3>2, <3>3 DEF Fill, Memo!Respond, BusyOf
    <2>7. CASE k \notin DOMAIN cache
        BY <1>4, <2>4, <2>5, <2>7 DEF Fill, Memo!Respond, BusyOf
    <2>8. QED
        BY <2>6, <2>7
<1>5. CASE UNCHANGED vars
    <2>1. BusyOf' = BusyOf
        BY <1>5 DEF vars, BusyOf
    <2>2. QED
        BY <1>5, <2>1 DEF vars, Memo!mvars, BusyOf
<1>6. QED
    <2>1. ASSUME NEW c \in Callers, NEW p \in PalletName, NEW s \in ItemName,
                 StorageHash(c, p, s)
          PROVE  [Memo!Next]_Memo!mvars
        <3>1. <<p, s>> \in Key
            BY DEF Key
        <3>2. QED
            BY <1>1, <2>1, <3>1 DEF Memo!Next
    <2>2. QED
        BY <1>2, <1>3, <1>4, <1>5, <2>1 DEF Next, Memo!Next

(* Design 4.3 and 6: the concurrent cache implements the atomic memo.      *)
(* Each storage_hash call behaves as if it took effect at one instant and *)
(* the first result for a key is the one every later call gets, although  *)
(* the miss and the insert are separate critical sections.  The argument   *)
(* rests on CacheSound: a racing fill writes the value already there.      *)
THEOREM RefinesMemo == Spec => ImplementsMemo
BY MemoInit, MemoStep, IInvInit, IInvStep, PTL DEF Spec, ImplementsMemo, Memo!Spec
=============================================================================
